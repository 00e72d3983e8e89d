---------------------------- MODULE EtharpProofs ----------------------------
(***************************************************************************)
(* What Etharp keeps true for any size of the table, any hosts and cards   *)
(* and any ages, however the interrupt and the main loop interleave.       *)
(***************************************************************************)
EXTENDS Etharp, FiniteSetTheorems, WellFoundedInduction, TLAPS

----------------------------------------------------------------------------
(* The entry etharp_find_entry chooses exists. *)

\* A finite set has a minimal element for a strict order: the one with the
\* smallest set of elements below it.
LEMMA MinimalElement ==
    ASSUME NEW S, IsFiniteSet(S), S # {}, NEW R,
           \A x \in S : <<x, x>> \notin R,
           \A x, y, z \in S : <<x, y>> \in R /\ <<y, z>> \in R => <<x, z>> \in R
    PROVE  \E x \in S : \A y \in S : <<y, x>> \notin R
<1> DEFINE Below(x) == {y \in S : <<y, x>> \in R}
           T == {Below(x) : x \in S}
<1>1. T \subseteq FiniteSubsetsOf(S) /\ T # {}
  <2>1. FiniteSubsetsOf(S) = SUBSET S
    BY FS_FiniteSubsetsOfFinite
  <2>2. T \subseteq SUBSET S
    OBVIOUS
  <2>3. PICK x \in S : TRUE
    OBVIOUS
  <2>4. Below(x) \in T
    BY <2>3
  <2> HIDE DEF T
  <2> QED BY <2>1, <2>2, <2>4
<1>2. \E X \in T : \A Y \in T : <<Y, X>> \notin StrictSubsetOrdering(S)
  <2> HIDE DEF T
  <2> QED BY <1>1, FS_StrictSubsetOrderingWellFounded, WFMin
<1>3. PICK x \in S : \A z \in S : <<Below(z), Below(x)>> \notin StrictSubsetOrdering(S)
  <2>1. PICK X \in T : \A Y \in T : <<Y, X>> \notin StrictSubsetOrdering(S)
    BY <1>2
  <2>2. PICK x \in S : X = Below(x)
    OBVIOUS
  <2>3. \A z \in S : Below(z) \in T
    OBVIOUS
  <2> QED BY <2>1, <2>2, <2>3
<1>4. SUFFICES ASSUME NEW y \in S, <<y, x>> \in R PROVE FALSE
  BY <1>3
<1>5. Below(y) \subseteq Below(x) /\ y \in Below(x) /\ y \notin Below(y)
  BY <1>4
<1>6. <<Below(y), Below(x)>> \in StrictSubsetOrdering(S)
  BY <1>5 DEF StrictSubsetOrdering
<1> QED BY <1>3, <1>6

LEMMA EntriesFinite == IsFiniteSet(Entries) /\ Cardinality(Entries) = Size
  BY FS_Interval, SizeAssumption DEF Entries

\* First takes an element of a set of entries.
LEMMA FirstIn == ASSUME NEW S \in SUBSET Entries, S # {} PROVE First(S) \in S
<1> DEFINE R == {xy \in S \X S : xy[1] < xy[2]}
<1>1. IsFiniteSet(S)
  BY EntriesFinite, FS_Subset
<1>2. \A x \in S : x \in Nat
  BY SizeAssumption DEF Entries
<1>3. /\ \A x \in S : <<x, x>> \notin R
      /\ \A x, y, z \in S : <<x, y>> \in R /\ <<y, z>> \in R => <<x, z>> \in R
  BY <1>2
<1>4. \E x \in S : \A y \in S : <<y, x>> \notin R
  <2> HIDE DEF R
  <2> QED BY <1>1, <1>3, MinimalElement
<1>5. \A x, y \in S : y < x => <<y, x>> \in R
  OBVIOUS
<1>6. \E x \in S : \A y \in S : x <= y
  <2>1. PICK x \in S : \A y \in S : <<y, x>> \notin R
    BY <1>4
  <2>2. \A y \in S : ~(y < x)
    BY <1>5, <2>1
  <2> QED BY <1>2, <2>2
<1> QED BY <1>6 DEF First

\* So does Oldest.
LEMMA OldestIn ==
    ASSUME NEW S \in SUBSET Entries, S # {}, \A e \in Entries : arp[e].ctime \in Nat
    PROVE  Oldest(S) \in S
<1> DEFINE Older(f, e) == arp[f].ctime > arp[e].ctime \/ (arp[f].ctime = arp[e].ctime /\ f > e)
           R == {fe \in S \X S : Older(fe[1], fe[2])}
<1>1. IsFiniteSet(S)
  BY EntriesFinite, FS_Subset
<1>2. \A x \in S : x \in Nat /\ arp[x].ctime \in Nat
  BY SizeAssumption DEF Entries
<1>3. /\ \A x \in S : <<x, x>> \notin R
      /\ \A x, y, z \in S : <<x, y>> \in R /\ <<y, z>> \in R => <<x, z>> \in R
  BY <1>2
<1>4. \E x \in S : \A y \in S : <<y, x>> \notin R
  <2> HIDE DEF R
  <2> QED BY <1>1, <1>3, MinimalElement
<1>5. \A f, e \in S : Older(f, e) => <<f, e>> \in R
  OBVIOUS
<1>6. \E e \in S : \A f \in S :
        arp[f].ctime < arp[e].ctime \/ (arp[f].ctime = arp[e].ctime /\ f <= e)
  <2>1. PICK e \in S : \A f \in S : <<f, e>> \notin R
    BY <1>4
  <2>2. \A f \in S : ~Older(f, e)
    BY <1>5, <2>1
  <2> QED BY <1>2, <2>2
<1> QED BY <1>6 DEF Oldest

----------------------------------------------------------------------------
(* Who has which packet. *)

\* The packet each entry keeps, but for one the main loop has freed.
Holds == [e \in Entries |-> IF pc \in {"clear", "store"} /\ e = i THEN NoPacket ELSE arp[e].q]
Owners == [e \in Entries |-> arp[e].ip]

\* H[e] is the packet of entry e, which belongs to the address A[e], n the one in
\* the hands of the main loop, for p, and d says where each packet goes: no
\* packet has two owners, each goes where its owner is, and no other is in use.
Apart(H, A, d, n) ==
    /\ \A e, f \in Entries : H[e] # NoPacket /\ H[e] = H[f] => e = f
    /\ \A e \in Entries : H[e] # NoPacket => H[e] # n /\ d[H[e]] = A[e] /\ A[e] \in IPs
Hers(d, n, p) == n # NoPacket => d[n] = p /\ p \in IPs
Owned(H, d, n) == \A k \in Packets : d[k] # NoIP => k = n \/ \E e \in Entries : H[e] = k
Right(H, A, d, n, p) == Apart(H, A, d, n) /\ Hers(d, n, p) /\ Owned(H, d, n)

\* An entry without a packet may be given to another.
LEMMA RightLeft ==
    ASSUME NEW H, NEW A, NEW B, NEW d, NEW n, NEW p, NEW s, Right(H, A, d, n, p),
           \A e \in Entries : H[e] # NoPacket => B[e] = A[e],
           n # NoPacket => s = p
    PROVE  Right(H, B, d, n, s)
BY DEF Right, Apart, Hers, Owned

\* Entry e's packet is freed,
LEMMA RightDropped ==
    ASSUME NEW H \in [Entries -> Packets \cup {NoPacket}], NEW G, NEW A, NEW B,
           NEW d \in [Packets -> IPs \cup {NoIP}], NEW b, NEW n \in Packets \cup {NoPacket}, NEW p,
           Right(H, A, d, n, p), NEW e \in Entries,
           b = Free(d, H[e]), G[e] = NoPacket,
           \A f \in Entries \ {e} : G[f] = H[f] /\ B[f] = A[f]
    PROVE  Right(G, B, b, n, p)
<1>1. CASE H[e] = NoPacket
  <2>1. b = d /\ \A f \in Entries : G[f] = H[f] /\ (G[f] # NoPacket => B[f] = A[f])
    BY <1>1 DEF Free
  <2> QED BY <2>1 DEF Right, Apart, Hers, Owned
<1>2. CASE H[e] # NoPacket
  <2>1. b = [d EXCEPT ![H[e]] = NoIP] /\ H[e] \in Packets
    BY <1>2 DEF Free
  <2>2. b[H[e]] = NoIP /\ \A k \in Packets : k # H[e] => b[k] = d[k]
    BY <2>1
  <2>3. \A f \in Entries \ {e} : H[f] # NoPacket => H[f] # H[e] /\ H[f] \in Packets
    BY <1>2 DEF Right, Apart
  <2>4. Apart(G, B, b, n)
    BY <2>2, <2>3 DEF Right, Apart
  <2>5. Hers(b, n, p)
    BY <1>2, <2>2 DEF Right, Apart, Hers
  <2>6. Owned(G, b, n)
    BY <2>2 DEF Right, Owned
  <2> QED BY <2>4, <2>5, <2>6 DEF Right
<1> QED BY <1>1, <1>2

\* and it is given one that was free, to become a's.
Gave(H, G, A, B, d, b, e, k, a) ==
    /\ H \in [Entries -> Packets \cup {NoPacket}] /\ d \in [Packets -> IPs \cup {NoIP}]
    /\ e \in Entries /\ k \in Packets /\ a \in IPs
    /\ d[k] = NoIP /\ b = [d EXCEPT ![k] = a]
    /\ H[e] = NoPacket /\ G[e] = k /\ B[e] = a
    /\ \A f \in Entries \ {e} : G[f] = H[f] /\ B[f] = A[f]

LEMMA RightGiven ==
    ASSUME NEW H, NEW G, NEW A, NEW B, NEW d, NEW b, NEW e, NEW k, NEW a,
           Gave(H, G, A, B, d, b, e, k, a),
           NEW n \in Packets \cup {NoPacket}, NEW p, Right(H, A, d, n, p)
    PROVE  Right(G, B, b, n, p)
<1> /\ H \in [Entries -> Packets \cup {NoPacket}] /\ d \in [Packets -> IPs \cup {NoIP}]
    /\ e \in Entries /\ k \in Packets /\ a \in IPs
    /\ d[k] = NoIP /\ b = [d EXCEPT ![k] = a]
    /\ H[e] = NoPacket /\ G[e] = k /\ B[e] = a
    /\ \A f \in Entries \ {e} : G[f] = H[f] /\ B[f] = A[f]
  BY DEF Gave
<1>1. b[k] = a /\ \A j \in Packets : j # k => b[j] = d[j]
  OBVIOUS
<1>2. NoIP \notin IPs /\ NoPacket \notin Packets
  BY NameAssumption
<1>3. \A f \in Entries : H[f] # NoPacket => H[f] # k /\ H[f] \in Packets
  BY <1>2 DEF Right, Apart
<1>4. n # NoPacket => n # k /\ n \in Packets
  BY <1>2 DEF Right, Hers
<1>5. Apart(G, B, b, n)
  <2>1. \A f \in Entries \ {e} : G[f] # NoPacket => G[f] # k /\ G[f] # n /\ b[G[f]] = B[f] /\ B[f] \in IPs
    BY <1>1, <1>3 DEF Right, Apart
  <2>2. k # NoPacket /\ k # n
    BY <1>2, <1>4
  <2>3. \A f, g \in Entries \ {e} : G[f] # NoPacket /\ G[f] = G[g] => f = g
    BY DEF Right, Apart
  <2> QED BY <1>1, <2>1, <2>2, <2>3 DEF Apart
<1>6. Hers(b, n, p)
  BY <1>1, <1>4 DEF Right, Hers
<1>7. Owned(G, b, n)
  <2>1. Owned(H, d, n)
    BY DEF Right
  <2>2. ASSUME NEW j \in Packets, b[j] # NoIP, j # n PROVE \E f \in Entries : G[f] = j
    <3>1. CASE j = k
      BY <3>1
    <3>2. CASE j # k
      <4>1. PICK f \in Entries : H[f] = j
        BY <1>1, <2>1, <2>2, <3>2 DEF Owned
      <4> QED BY <1>2, <4>1
    <3> QED BY <3>1, <3>2
  <2> QED BY <2>2 DEF Owned
<1> QED BY <1>5, <1>6, <1>7 DEF Right

\* The main loop takes one that was free,
LEMMA RightCopied ==
    ASSUME NEW H \in [Entries -> Packets \cup {NoPacket}], NEW A,
           NEW d \in [Packets -> IPs \cup {NoIP}], NEW b, NEW p \in IPs,
           Right(H, A, d, NoPacket, p), NEW k \in Packets,
           d[k] = NoIP, b = [d EXCEPT ![k] = p]
    PROVE  Right(H, A, b, k, p)
<1>1. b[k] = p /\ \A j \in Packets : j # k => b[j] = d[j]
  OBVIOUS
<1>2. NoIP \notin IPs /\ NoPacket \notin Packets
  BY NameAssumption
<1>3. \A f \in Entries : H[f] # NoPacket => H[f] # k /\ H[f] \in Packets
  BY <1>2 DEF Right, Apart
<1>4. Apart(H, A, b, k)
  BY <1>1, <1>3 DEF Right, Apart
<1>5. Hers(b, k, p) /\ Owned(H, b, k)
  BY <1>1, <1>2 DEF Right, Hers, Owned
<1> QED BY <1>4, <1>5 DEF Right

\* and entry e of p gets it.
LEMMA RightStored ==
    ASSUME NEW H \in [Entries -> Packets \cup {NoPacket}], NEW G, NEW A,
           NEW d \in [Packets -> IPs \cup {NoIP}], NEW n \in Packets, NEW p, NEW s,
           Right(H, A, d, n, p), NEW e \in Entries,
           H[e] = NoPacket, G[e] = n, A[e] = p,
           \A f \in Entries \ {e} : G[f] = H[f]
    PROVE  Right(G, A, d, NoPacket, s)
<1>1. NoPacket \notin Packets
  BY NameAssumption
<1>2. d[n] = p /\ p \in IPs
  BY <1>1 DEF Right, Hers
<1>3. \A f \in Entries \ {e} : G[f] # NoPacket => G[f] # n /\ d[G[f]] = A[f] /\ A[f] \in IPs
  BY DEF Right, Apart
<1>4. \A f, g \in Entries \ {e} : G[f] # NoPacket /\ G[f] = G[g] => f = g
  BY DEF Right, Apart
<1>5. Apart(G, A, d, NoPacket)
  BY <1>1, <1>2, <1>3, <1>4 DEF Apart
<1>6. Hers(d, NoPacket, s) /\ Owned(G, d, NoPacket)
  BY DEF Right, Hers, Owned
<1> QED BY <1>5, <1>6 DEF Right

----------------------------------------------------------------------------
(* The inductive invariant. *)

Records == [state : {"empty", "pending", "stable", "rerequesting"}, ip : IPs \cup {NoIP},
            card : AnyCard, q : Packets \cup {NoPacket}, ctime : 0 .. MaxAge]

TmrPlaces  == {"load", "age", "test", "young", "waited", "asked", "restable"}
FreePlaces == {"free", "drop", "clear", "empty", "wipe"}
LookPlaces == {"hint", "hintip", "scan", "scanip"}
SendPlaces == {"send", "asks", "mark", "addr", "rest"}
FindPlaces == {"find", "match"}
OwnPlaces  == {"own", "pending"}
KeepPlaces == {"copy", "kept", "replace", "store"}
OutPlaces  == LookPlaces \cup SendPlaces \cup FindPlaces \cup OwnPlaces \cup {"decide", "still"} \cup KeepPlaces
Places     == {"idle"} \cup TmrPlaces \cup FreePlaces \cup OutPlaces

Bests == [e : Entries, rank : 0 .. 4, ctime : 0 .. MaxAge,
          state : {"empty", "pending", "stable", "rerequesting"}]

Typed ==
    /\ arp \in [Entries -> Records]
    /\ dest \in [Packets -> IPs \cup {NoIP}]
    /\ hint \in Entries /\ i \in Entries
    /\ announced \in [IPs -> AnyCard]
    /\ age \in 0 .. MaxAge /\ ip \in IPs \cup {NoIP} /\ torn \in BOOLEAN
    /\ best \in Bests
    /\ old \in Packets \cup {NoPacket} /\ new \in Packets \cup {NoPacket}
    /\ pc \in Places

\* Only the entry the main loop is at may have reached the greatest age.
Aged  == FreePlaces \cup {"test"}
Young == \A e \in Entries : arp[e].ctime < MaxAge \/ (e = i /\ pc \in Aged)

\* What is in the hands of the main loop.
Handed ==
    /\ pc \in TmrPlaces \cup {"idle"} => ip = NoIP
    /\ pc \in OutPlaces => ip \in IPs
    /\ new # NoPacket <=> pc \in {"kept", "replace", "store"}
    /\ pc \notin FindPlaces => best = NoBest

\* What the main loop knows of the entry it is at, an interrupt before or not,
Window ==
    /\ pc = "restable" => Stable(arp[i])
    /\ pc \in {"drop", "replace"} => old = arp[i].q
    /\ pc \in {"drop", "clear"} => arp[i].q # NoPacket
    /\ pc \in {"empty", "wipe", "own", "pending"} => arp[i].q = NoPacket
    /\ pc \in {"wipe", "own", "pending"} => arp[i].state = "empty"
    /\ pc = "pending" => arp[i].ip = ip
    /\ pc \in SendPlaces => Stable(arp[i]) /\ arp[i].ip = ip
    /\ pc \in {"decide", "still"} => arp[i].state # "empty" /\ arp[i].ip = ip
    /\ pc \in KeepPlaces => arp[i].state = "pending" /\ arp[i].ip = ip

\* and of the entries it has passed in its search.
Passed ==
    /\ pc = "match" => arp[i].state # "empty" /\ best.state # "empty"
    /\ pc \in FindPlaces => /\ best.rank = 4 => arp[best.e].state = "empty"
                            /\ \A e \in Entries : e < i => ~Occupied(arp[e], ip)
    /\ pc \in FreePlaces \cup OwnPlaces /\ ip # NoIP =>
            \A e \in Entries : e # i => ~Occupied(arp[e], ip)

\* A stable entry has the card its host has announced last.
CardsRight == \A e \in Entries : Stable(arp[e]) => arp[e].card = announced[arp[e].ip]
Settled    == \A e \in Entries : arp[e].state # "empty" => arp[e].ip \in IPs
Distinct   ==
    \A e, f \in Entries :
        arp[e].state # "empty" /\ arp[f].state # "empty" /\ arp[e].ip = arp[f].ip => e = f
Awaiting   == \A e \in Entries : arp[e].q # NoPacket => arp[e].state = "pending"

Shape == Handed /\ Window /\ Passed /\ CardsRight /\ Settled /\ Distinct /\ Awaiting
Packed == Right(Holds, Owners, dest, new, ip)

IInv == Typed /\ Young /\ (~torn => Shape /\ Packed)

----------------------------------------------------------------------------
(* The choices of the code. *)

LEMMA HoldsIn == Typed => Holds \in [Entries -> Packets \cup {NoPacket}]
BY DEF Typed, Records, Holds

LEMMA EntryIn ==
    ASSUME Typed, NEW a \in IPs
    PROVE  /\ Entry(a) \in Entries
           /\ Matching(a) # {} => Entry(a) \in Matching(a)
<1>1. \A e \in Entries : arp[e].ctime \in Nat
  BY AgeAssumption DEF Typed, Records
<1>2. CASE Matching(a) # {}
  <2>1. Matching(a) \in SUBSET Entries
    BY DEF Matching
  <2> QED BY <1>2, <2>1, FirstIn DEF Entry
<1>3. CASE Matching(a) = {}
  <2> DEFINE empty   == {e \in Entries : arp[e].state = "empty"}
             stable  == {e \in Entries : Stable(arp[e])}
             pending == {e \in Entries : arp[e].state = "pending" /\ arp[e].q = NoPacket}
  <2>1. Entries # {}
    BY SizeAssumption DEF Entries
  <2>2. /\ empty # {} => First(empty) \in Entries
        /\ stable # {} => Oldest(stable) \in Entries
        /\ pending # {} => Oldest(pending) \in Entries
        /\ Oldest(Entries) \in Entries
    <3>1. empty # {} => First(empty) \in empty
      BY FirstIn
    <3>2. stable # {} => Oldest(stable) \in stable
      BY <1>1, OldestIn
    <3>3. pending # {} => Oldest(pending) \in pending
      BY <1>1, OldestIn
    <3>4. Oldest(Entries) \in Entries
      BY <1>1, <2>1, OldestIn
    <3> QED BY <3>1, <3>2, <3>3, <3>4
  <2>3. Victim = IF empty # {} THEN First(empty) ELSE IF stable # {} THEN Oldest(stable)
                 ELSE IF pending # {} THEN Oldest(pending) ELSE Oldest(Entries)
    BY DEF Victim
  <2>4. Victim \in Entries
    <3> HIDE DEF empty, stable, pending
    <3> QED BY <2>2, <2>3
  <2> QED BY <1>3, <2>4 DEF Entry
<1> QED BY <1>2, <1>3

LEMMA LookupIn ==
    ASSUME NEW a \in IPs, StableFor(a) # {}
    PROVE  Lookup(a) \in StableFor(a)
<1>1. StableFor(a) \in SUBSET Entries
  BY DEF StableFor, Matching
<1> QED BY <1>1, FirstIn DEF Lookup

\* The entry found for a is a's or becomes so, and no other is.
LEMMA FoundRight ==
    ASSUME Typed, Distinct, NEW a \in IPs
    PROVE  LET e == Entry(a)
               x == Found(e, a)
           IN  /\ e \in Entries /\ x \in Records /\ x.ip = a
               /\ IF e \in Matching(a)
                  THEN x = arp[e] /\ arp[e].ip = a /\ arp[e].state # "empty" /\ Dropped(e, a) = NoPacket
                  ELSE /\ x = [state |-> "empty", ip |-> a, card |-> NoCard, q |-> NoPacket, ctime |-> 0]
                       /\ Dropped(e, a) = arp[e].q
               /\ \A f \in Entries \ {e} : arp[f].state # "empty" => arp[f].ip # a
<1> DEFINE e == Entry(a)
           x == Found(e, a)
<1>1. e \in Entries /\ (Matching(a) # {} => e \in Matching(a))
  BY EntryIn
<1>2. NoCard \in AnyCard /\ 0 \in 0 .. MaxAge
  BY AgeAssumption DEF AnyCard
<1>3. CASE e \in Matching(a)
  <2>1. x = arp[e] /\ arp[e].ip = a /\ arp[e].state # "empty" /\ x \in Records
    BY <1>1, <1>3 DEF Found, Matching, Typed
  <2>2. Dropped(e, a) = NoPacket
    BY <1>3 DEF Dropped
  <2>3. \A f \in Entries \ {e} : arp[f].state # "empty" => arp[f].ip # a
    BY <1>1, <2>1 DEF Distinct
  <2> HIDE DEF e, x
  <2> QED BY <1>1, <1>3, <2>1, <2>2, <2>3 DEF e, x
<1>4. CASE e \notin Matching(a)
  <2>1. x = [Blank EXCEPT !.ip = a]
    BY <1>4 DEF Found
  <2>2. x = [state |-> "empty", ip |-> a, card |-> NoCard, q |-> NoPacket, ctime |-> 0]
    BY <2>1 DEF Blank
  <2>3. x \in Records /\ x.ip = a
    BY <1>2, <2>2 DEF Records
  <2>4. Dropped(e, a) = arp[e].q
    BY <1>4 DEF Dropped
  <2>5. \A f \in Entries \ {e} : arp[f].state # "empty" => arp[f].ip # a
    BY <1>1, <1>4 DEF Matching
  <2> HIDE DEF e, x
  <2> QED BY <1>1, <1>4, <2>2, <2>3, <2>4, <2>5 DEF e, x
<1> QED BY <1>3, <1>4

----------------------------------------------------------------------------
(* The steps of the interrupt. *)

\* What the interrupt makes of the entry found for a, when Tears finds nothing
\* wrong, leaves the main loop with what it knows.
LEMMA EntryMade ==
    ASSUME Typed, Young, Shape, NEW a \in IPs, NEW v \in Records,
           v.ip = a, v.state # "empty",
           v.ctime < MaxAge \/ v.ctime = arp[Entry(a)].ctime,
           v.q # NoPacket => v.state = "pending",
           Stable(v) => v.card = announced'[a],
           StableFor(a) # {} => Stable(v),
           arp' = [arp EXCEPT ![Entry(a)] = v],
           announced' \in [IPs -> AnyCard],
           \A b \in IPs \ {a} : announced'[b] = announced[b],
           hint' \in Entries, dest' \in [Packets -> IPs \cup {NoIP}], torn' = Tears(arp'),
           UNCHANGED main
    PROVE  Typed' /\ Young' /\ (~torn' => Shape')
<1> DEFINE e == Entry(a)
<1>1. e \in Entries /\ \A f \in Entries \ {e} : arp[f].state # "empty" => arp[f].ip # a
  BY FoundRight DEF Shape
<1>2. pc' = pc /\ i' = i /\ age' = age /\ ip' = ip /\ best' = best /\ old' = old /\ new' = new
  BY DEF main
<1>3. arp' \in [Entries -> Records]
  BY <1>1 DEF Typed
<1>4. \A f \in Entries : arp'[f] = IF f = e THEN v ELSE arp[f]
  BY <1>1 DEF Typed
<1> HIDE DEF e
<1>5. Typed'
  <2>1. torn' \in BOOLEAN
    BY DEF Tears
  <2> QED BY <1>2, <1>3, <2>1 DEF Typed
<1>6. Young'
  <2>1. \A f \in Entries : arp'[f].ctime < MaxAge \/ arp'[f].ctime = arp[f].ctime
    BY <1>4 DEF e
  <2> QED BY <1>2, <2>1 DEF Young
<1>7. Distinct' /\ Settled' /\ Awaiting'
  <2>1. Distinct'
    BY <1>1, <1>4 DEF Shape, Distinct
  <2>2. Settled' /\ Awaiting'
    BY <1>4 DEF Shape, Settled, Awaiting
  <2> QED BY <2>1, <2>2
<1>8. CardsRight'
  BY <1>1, <1>4 DEF Shape, CardsRight, Settled, Stable
<1>9. Handed'
  BY <1>2 DEF Shape, Handed
<1>10. ASSUME ~torn' PROVE Window'
  <2>1. i \in Entries /\ Window /\ ~Tears(arp')
    BY <1>10 DEF Shape, Typed
  <2>2. /\ pc \in {"clear", "wipe", "own", "pending", "store"} => arp'[i] = arp[i]
        /\ pc = "empty" => arp'[i].q = NoPacket
        /\ pc \in {"drop", "replace"} => arp'[i].q = arp[i].q
    BY <2>1 DEF Tears
  <2>3. /\ pc = "restable" => arp'[i].state # "pending"
        /\ pc \in SendPlaces \cup {"decide", "still"} => arp'[i].ip = ip
        /\ pc \in KeepPlaces => arp'[i].state = "pending" /\ arp'[i].ip = ip
    BY <2>1 DEF Tears, SendPlaces, KeepPlaces
  <2>4. pc = "restable" => Stable(arp'[i])
    <3>1. arp'[i].state \in {"stable", "rerequesting"} \/ arp'[i] = arp[i] \/ pc # "restable"
      BY <1>3, <1>4, <2>1, <2>3 DEF Records
    <3> QED BY <2>1, <3>1 DEF Window, Stable
  <2>5. pc \in SendPlaces => Stable(arp'[i])
    <3>1. CASE i # e
      BY <1>4, <2>1, <3>1 DEF Window
    <3>2. CASE i = e /\ pc \in SendPlaces
      <4>1. ip = a
        BY <1>4, <2>1, <2>3, <3>2
      <4>2. i \in StableFor(a)
        BY <2>1, <3>2, <4>1 DEF Window, StableFor, Matching, Stable
      <4> QED BY <1>4, <2>1, <3>2, <4>2
    <3> QED BY <3>1, <3>2
  <2>6. pc \in {"decide", "still"} => arp'[i].state # "empty"
    BY <1>4, <2>1 DEF Window
  <2> QED BY <1>2, <2>1, <2>2, <2>3, <2>4, <2>5, <2>6 DEF Window
<1>11. ASSUME ~torn' PROVE Passed'
  <2>1. i \in Entries /\ Passed /\ ~Tears(arp')
    BY <1>11 DEF Shape, Typed
  <2>2. pc = "match" => arp'[i].state # "empty" /\ best.state # "empty"
    BY <1>4, <2>1 DEF Passed
  <2>3. pc \in FindPlaces /\ best.rank = 4 => arp'[best.e].state = "empty"
    BY <2>1 DEF Tears, FindPlaces
  <2>4. pc \in FindPlaces => \A f \in Entries : f < i => ~Occupied(arp'[f], ip)
    <3>1. \A f \in Entries : f < i => f \in 1 .. i - 1
      BY <2>1, SizeAssumption DEF Entries
    <3>2. pc \in FindPlaces => \A f \in 1 .. i - 1 : ~Occupied(arp'[f], ip)
      BY <2>1 DEF Tears, FindPlaces
    <3> QED BY <3>1, <3>2
  <2>5. pc \in FreePlaces \cup OwnPlaces /\ ip # NoIP =>
            \A f \in Entries : f # i => ~Occupied(arp'[f], ip)
    BY <2>1 DEF Tears, FreePlaces, OwnPlaces
  <2> QED BY <1>2, <2>2, <2>3, <2>4, <2>5 DEF Passed
<1> QED BY <1>5, <1>6, <1>7, <1>8, <1>9, <1>10, <1>11 DEF Shape

\* How the packets stand after a step of the interrupt that changes entry e.
LEMMA Handled ==
    ASSUME Typed, NEW e \in Entries, NEW v \in Records, arp' = [arp EXCEPT ![e] = v],
           UNCHANGED main
    PROVE  /\ Holds' = [f \in Entries |-> IF f = e /\ ~(pc \in {"clear", "store"} /\ e = i)
                                          THEN v.q ELSE Holds[f]]
           /\ Owners' = [f \in Entries |-> IF f = e THEN v.ip ELSE Owners[f]]
<1>1. pc' = pc /\ i' = i
  BY DEF main
<1>2. \A f \in Entries : arp'[f] = IF f = e THEN v ELSE arp[f]
  BY DEF Typed
<1> QED BY <1>1, <1>2 DEF Holds, Owners

LEMMA ArpInputKept ==
    ASSUME IInv, ~torn, NEW a \in IPs, NEW card \in Cards[a], NEW for_us \in BOOLEAN,
           ArpInput(a, card, for_us)
    PROVE  IInv' /\ SentToLast'
<1> DEFINE e == Entry(a)
           x == Found(e, a)
           v == [x EXCEPT !.state = "stable", !.card = card, !.ctime = 0, !.q = NoPacket]
<1>0. Typed /\ Young /\ Shape /\ Packed
  BY DEF IInv
<1>1. /\ e \in Entries /\ x \in Records /\ x.ip = a
      /\ e \in Matching(a) => x = arp[e] /\ Dropped(e, a) = NoPacket
                              /\ arp[e].ip = a /\ arp[e].state # "empty"
      /\ e \notin Matching(a) => x.q = NoPacket /\ Dropped(e, a) = arp[e].q
  BY <1>0, FoundRight DEF Shape
<1>2. /\ card \in AnyCard
      /\ announced' = [announced EXCEPT ![a] = card]
      /\ hint' = hint /\ UNCHANGED main
  BY DEF ArpInput, AnyCard
<1>3. /\ announced' \in [IPs -> AnyCard] /\ announced'[a] = card
      /\ \A b \in IPs \ {a} : announced'[b] = announced[b]
  BY <1>0, <1>2 DEF Typed
<1>4. CASE ~for_us /\ Matching(a) = {}
  <2>1. sent' = Nothing /\ UNCHANGED <<arp, dest, torn>>
    BY <1>4 DEF ArpInput
  <2>2. \A f \in Entries : arp[f].state # "empty" => arp[f].ip # a
    BY <1>4 DEF Matching
  <2>3. CardsRight'
    BY <1>0, <1>3, <2>1, <2>2 DEF Shape, CardsRight, Settled, Stable
  <2>4. Typed' /\ Young'
    BY <1>0, <1>2, <1>3, <2>1 DEF Typed, Young, main
  <2>5. Handed' /\ Window' /\ Passed' /\ Settled' /\ Distinct' /\ Awaiting'
    BY <1>0, <1>2, <2>1 DEF Shape, Handed, Window, Passed, Settled, Distinct, Awaiting, main
  <2>6. Packed'
    BY <1>0, <1>2, <2>1 DEF Packed, Holds, Owners, main
  <2> QED BY <2>1, <2>3, <2>4, <2>5, <2>6 DEF IInv, Shape, SentToLast
<1>5. CASE for_us \/ Matching(a) # {}
  <2>1. /\ arp' = [arp EXCEPT ![e] = v]
        /\ sent' = IF x.q = NoPacket THEN Nothing ELSE [ip |-> dest[x.q], card |-> card]
        /\ dest' = Free(Free(dest, Dropped(e, a)), x.q)
        /\ torn' = Tears(arp')
    BY <1>5 DEF ArpInput
  <2>2. /\ v \in Records /\ v.ip = a /\ v.state = "stable" /\ v.q = NoPacket
        /\ v.card = card /\ v.ctime = 0
    <3> HIDE DEF x, e
    <3>1. 0 \in 0 .. MaxAge /\ NoPacket \in Packets \cup {NoPacket}
      BY AgeAssumption
    <3> QED BY <1>1, <1>2, <3>1 DEF Records
  <2>3. dest' = Free(dest, arp[e].q)
    <3> HIDE DEF x, e
    <3> QED BY <1>1, <2>1 DEF Free
  <2>4. dest' \in [Packets -> IPs \cup {NoIP}] /\ hint' \in Entries
    <3> HIDE DEF x, e
    <3> QED BY <1>0, <1>2, <2>3 DEF Free, Typed
  <2>5. Typed' /\ Young' /\ (~torn' => Shape')
    <3>1. v.ctime < MaxAge /\ v.state # "empty" /\ Stable(v)
      BY <2>2, AgeAssumption DEF Stable
    <3> HIDE DEF v, x
    <3> QED BY <1>0, <1>2, <1>3, <2>1, <2>2, <2>4, <3>1, EntryMade DEF e
  <2> HIDE DEF v, x, e
  <2>6. \A f \in Entries : arp'[f] = IF f = e THEN v ELSE arp[f]
    BY <1>0, <1>1, <2>1 DEF Typed
  <2>7. ASSUME ~torn', pc \in {"clear", "store"} PROVE e # i
    <3>1. arp'[i] = arp[i]
      BY <2>1, <2>7 DEF Tears
    <3>2. arp[i].state # "stable"
      BY <1>0, <2>7 DEF Shape, Window, Awaiting, Typed, KeepPlaces
    <3> QED BY <1>1, <2>2, <2>6, <3>1, <3>2
  <2>8. ASSUME ~torn' PROVE Holds[e] = arp[e].q
    BY <1>1, <2>7, <2>8 DEF Holds
  <2>9. ASSUME ~torn' PROVE Packed'
    <3>1. Holds' = [f \in Entries |-> IF f = e THEN NoPacket ELSE Holds[f]]
      BY <1>0, <1>1, <1>2, <2>1, <2>2, <2>7, <2>9, Handled
    <3>2. Owners' = [f \in Entries |-> IF f = e THEN a ELSE Owners[f]]
      BY <1>0, <1>1, <1>2, <2>1, <2>2, Handled
    <3>3. dest' = Free(dest, Holds[e])
      BY <2>3, <2>8, <2>9
    <3>4. /\ Holds'[e] = NoPacket
          /\ \A f \in Entries \ {e} : Holds'[f] = Holds[f] /\ Owners'[f] = Owners[f]
      BY <1>1, <3>1, <3>2
    <3>5. /\ Holds \in [Entries -> Packets \cup {NoPacket}]
          /\ dest \in [Packets -> IPs \cup {NoIP}] /\ new \in Packets \cup {NoPacket}
      BY <1>0, HoldsIn DEF Typed
    <3>6. Right(Holds', Owners', dest', new, ip)
      BY <1>0, <1>1, <3>3, <3>4, <3>5, RightDropped DEF Packed
    <3> QED BY <1>2, <3>6 DEF Packed, main
  <2>10. SentToLast'
    <3> SUFFICES ASSUME ~torn', x.q # NoPacket PROVE dest[x.q] = a
      BY <1>3, <2>1 DEF SentToLast, Nothing
    <3>1. x = arp[e] /\ arp[e].ip = a /\ Holds[e] = x.q
      BY <1>1, <2>8
    <3> QED BY <1>0, <1>1, <3>1 DEF Packed, Right, Apart, Owners
  <2> QED BY <2>5, <2>9, <2>10 DEF IInv
<1> QED BY <1>4, <1>5

\* The interrupt's etharp_query frees the packet entry e had before, and what it
\* gives it was free.
Swapped(H, G, A, B, d, b, e, k, a, c, q) ==
    /\ H \in [Entries -> Packets \cup {NoPacket}] /\ d \in [Packets -> IPs \cup {NoIP}]
    /\ e \in Entries /\ k \in Packets /\ a \in IPs
    /\ c \in [Packets -> IPs \cup {NoIP}] /\ q \in Packets \cup {NoPacket}
    /\ \/ c = d /\ q = H[e] /\ (q # NoPacket => d[q] # NoIP)
       \/ c = Free(d, H[e]) /\ q = NoPacket
    /\ c[k] = NoIP /\ b = Free([c EXCEPT ![k] = a], q)
    /\ G[e] = k /\ B[e] = a
    /\ \A f \in Entries \ {e} : G[f] = H[f] /\ B[f] = A[f]

LEMMA RightReplaced ==
    ASSUME NEW H, NEW G, NEW A, NEW B, NEW d, NEW b, NEW e, NEW k, NEW a, NEW c, NEW q,
           Swapped(H, G, A, B, d, b, e, k, a, c, q),
           NEW n \in Packets \cup {NoPacket}, NEW p, Right(H, A, d, n, p)
    PROVE  Right(G, B, b, n, p)
<1> /\ H \in [Entries -> Packets \cup {NoPacket}] /\ d \in [Packets -> IPs \cup {NoIP}]
    /\ e \in Entries /\ k \in Packets /\ a \in IPs
    /\ c \in [Packets -> IPs \cup {NoIP}] /\ q \in Packets \cup {NoPacket}
    /\ \/ c = d /\ q = H[e] /\ (q # NoPacket => d[q] # NoIP)
       \/ c = Free(d, H[e]) /\ q = NoPacket
    /\ c[k] = NoIP /\ G[e] = k /\ B[e] = a
    /\ \A f \in Entries \ {e} : G[f] = H[f] /\ B[f] = A[f]
  BY DEF Swapped
<1> PICK g : g = [c EXCEPT ![k] = a] /\ b = Free(g, q)
  BY DEF Swapped
<1> DEFINE c1 == Free(d, H[e])
           G1 == [f \in Entries |-> IF f = e THEN NoPacket ELSE H[f]]
<1>1. c1 \in [Packets -> IPs \cup {NoIP}]
  BY DEF Free
<1>2. c1[k] = NoIP /\ b = [c1 EXCEPT ![k] = a]
  <2>1. CASE q = NoPacket
    <3>1. c = c1
      BY <2>1 DEF Free
    <3> HIDE DEF c1
    <3> QED BY <2>1, <3>1 DEF Free
  <2>2. CASE q # NoPacket
    <3>1. c = d /\ q = H[e] /\ d[q] # NoIP /\ q \in Packets /\ q # k
      BY <2>2
    <3>2. c1 = [d EXCEPT ![q] = NoIP] /\ g = [d EXCEPT ![k] = a] /\ b = [g EXCEPT ![q] = NoIP]
      BY <2>2, <3>1 DEF Free
    <3> HIDE DEF c1
    <3>3. \A j \in Packets : /\ c1[j] = IF j = q THEN NoIP ELSE d[j]
                             /\ g[j] = IF j = k THEN a ELSE d[j]
      BY <3>2
    <3>4. g \in [Packets -> IPs \cup {NoIP}]
      BY <3>2
    <3>5. b \in [Packets -> IPs \cup {NoIP}] /\ \A j \in Packets : b[j] = IF j = q THEN NoIP ELSE g[j]
      BY <3>2, <3>4
    <3>6. \A j \in Packets : b[j] = [c1 EXCEPT ![k] = a][j]
      BY <1>1, <3>1, <3>3, <3>5
    <3>7. [c1 EXCEPT ![k] = a] \in [Packets -> IPs \cup {NoIP}]
      BY <1>1
    <3>8. c1[k] = NoIP
      BY <3>1, <3>3
    <3> QED BY <3>5, <3>6, <3>7, <3>8
  <2> QED BY <2>1, <2>2
<1>3. /\ G1 \in [Entries -> Packets \cup {NoPacket}] /\ G1[e] = NoPacket
      /\ \A f \in Entries \ {e} : G1[f] = H[f] /\ B[f] = A[f]
      /\ \A f \in Entries \ {e} : G[f] = G1[f] /\ B[f] = B[f]
  OBVIOUS
<1>4. c1 = Free(d, H[e])
  OBVIOUS
<1> HIDE DEF c1, G1
<1>5. Right(G1, B, c1, n, p)
  BY <1>3, <1>4, RightDropped
<1>6. Gave(G1, G, B, B, c1, b, e, k, a)
  BY <1>1, <1>2, <1>3 DEF Gave
<1> QED BY <1>5, <1>6, RightGiven

LEMMA IsrOutputKept ==
    ASSUME IInv, ~torn, NEW a \in IPs, NEW room \in BOOLEAN, IsrOutput(a, room)
    PROVE  IInv' /\ SentToLast'
<1>0. Typed /\ Young /\ Shape /\ Packed
  BY DEF IInv
<1>1. announced' = announced /\ UNCHANGED main /\ torn' = Tears(arp')
  BY DEF IsrOutput
<1>2. /\ announced' \in [IPs -> AnyCard]
      /\ \A b \in IPs \ {a} : announced'[b] = announced[b]
  BY <1>0, <1>1 DEF Typed
<1>3. CASE StableFor(a) # {}
  <2> DEFINE e == Lookup(a)
             v == [arp[e] EXCEPT !.state = IF AsksAgain(arp[e]) /\ room THEN "rerequesting" ELSE @]
  <2>1. /\ hint' = e
        /\ arp' = [arp EXCEPT ![e].state = IF AsksAgain(arp[e]) /\ room THEN "rerequesting" ELSE @]
        /\ sent' = [ip |-> a, card |-> arp[e].card] /\ dest' = dest
    BY <1>3 DEF IsrOutput
  <2>2. e \in Entries /\ arp[e].state # "empty" /\ arp[e].ip = a /\ Stable(arp[e])
    BY <1>3, LookupIn DEF StableFor, Matching, Stable
  <2>3. e = Entry(a)
    <3>1. Entry(a) \in Matching(a)
      BY <1>0, <2>2, EntryIn DEF Matching
    <3> QED BY <1>0, <2>2, <3>1 DEF Shape, Distinct, Matching
  <2>4. arp[e] \in Records /\ arp[e].q = NoPacket /\ arp[e].card = announced[a]
    BY <1>0, <2>2 DEF Typed, Shape, Awaiting, CardsRight, Stable
  <2>5. /\ v \in Records /\ v.ip = a /\ Stable(v) /\ v.state # "empty" /\ v.q = NoPacket
        /\ v.card = announced[a] /\ v.ctime = arp[e].ctime
    BY <2>2, <2>4 DEF Records, Stable
  <2>6. arp' = [arp EXCEPT ![e] = v]
    BY <1>0, <2>1, <2>2 DEF Typed
  <2>7. SentToLast'
    BY <1>1, <2>1, <2>4 DEF SentToLast
  <2>8. hint' \in Entries /\ dest' \in [Packets -> IPs \cup {NoIP}]
    BY <1>0, <2>1, <2>2 DEF Typed
  <2> HIDE DEF v, e
  <2>9. Typed' /\ Young' /\ (~torn' => Shape')
    BY <1>0, <1>1, <1>2, <2>3, <2>5, <2>6, <2>8, EntryMade
  <2>10. Packed'
    <3>1. /\ Holds' = [f \in Entries |-> IF f = e /\ ~(pc \in {"clear", "store"} /\ e = i)
                                         THEN v.q ELSE Holds[f]]
          /\ Owners' = [f \in Entries |-> IF f = e THEN v.ip ELSE Owners[f]]
      BY <1>0, <1>1, <2>2, <2>5, <2>6, Handled
    <3>2. Holds' = Holds /\ Owners' = Owners
      BY <2>2, <2>4, <2>5, <3>1 DEF Holds, Owners
    <3> QED BY <1>0, <1>1, <2>1, <3>2 DEF Packed, main
  <2> QED BY <2>7, <2>9, <2>10 DEF IInv
<1>4. CASE StableFor(a) = {}
  <2> DEFINE e == Entry(a)
             y == Found(e, a)
             x == [y EXCEPT !.state = "pending"]
             d == Free(dest, Dropped(e, a))
             k == CHOOSE k \in Unused(d) : TRUE
             kept == room /\ Unused(d) # {}
             v == [x EXCEPT !.q = IF kept THEN k ELSE @]
  <2>1. /\ kept => arp' = [arp EXCEPT ![e] = [x EXCEPT !.q = k]]
        /\ ~kept => arp' = [arp EXCEPT ![e] = x]
        /\ kept => dest' = Free([d EXCEPT ![k] = a], x.q)
        /\ ~kept => dest' = d
        /\ sent' = Nothing /\ hint' = hint
    BY <1>4 DEF IsrOutput
  <2>2. /\ e \in Entries /\ y \in Records /\ y.ip = a
        /\ e \in Matching(a) => y = arp[e] /\ Dropped(e, a) = NoPacket /\ arp[e].ip = a
        /\ e \notin Matching(a) => /\ y.q = NoPacket /\ Dropped(e, a) = arp[e].q /\ y.ctime = 0
                                   /\ \A f \in Entries : arp[f].state # "empty" => arp[f].ip # a
    <3>1. e \notin Matching(a) => \A f \in Entries : arp[f].state # "empty" => arp[f].ip # a
      BY <1>0, EntryIn DEF Matching
    <3> QED BY <1>0, <3>1, FoundRight DEF Shape
  <2> HIDE DEF y, e
  <2>3. /\ x \in Records /\ x.ip = a /\ x.state = "pending" /\ x.q = y.q /\ x.ctime = y.ctime
    BY <2>2 DEF Records
  <2> HIDE DEF x
  <2>4. kept => k \in Packets /\ d[k] = NoIP
    BY DEF Unused
  <2>5. d \in [Packets -> IPs \cup {NoIP}]
    BY <1>0 DEF Free, Typed
  <2> HIDE DEF d, k, kept
  <2>6. /\ v \in Records /\ v.ip = a /\ v.state = "pending" /\ v.ctime = x.ctime
        /\ v.q = IF kept THEN k ELSE x.q
    BY <2>3, <2>4 DEF Records
  <2>7. arp' = [arp EXCEPT ![e] = v]
    <3>1. kept => v = [x EXCEPT !.q = k]
      BY <2>3 DEF Records
    <3>2. ~kept => v = x
      BY <2>3 DEF Records
    <3> QED BY <2>1, <3>1, <3>2
  <2> HIDE DEF v
  <2>8. hint' \in Entries /\ dest' \in [Packets -> IPs \cup {NoIP}]
    BY <1>0, <2>1, <2>4, <2>5 DEF Typed, Free
  <2>9. Typed' /\ Young' /\ (~torn' => Shape')
    <3>1. v.state # "empty" /\ ~Stable(v) /\ (v.ctime < MaxAge \/ v.ctime = arp[e].ctime)
      BY <2>2, <2>3, <2>6, AgeAssumption DEF Stable
    <3> QED BY <1>0, <1>1, <1>2, <1>4, <2>6, <2>7, <2>8, <3>1, EntryMade DEF e
  <2>10. /\ Holds' = [f \in Entries |-> IF f = e /\ ~(pc \in {"clear", "store"} /\ e = i)
                                        THEN v.q ELSE Holds[f]]
         /\ Owners' = [f \in Entries |-> IF f = e THEN a ELSE Owners[f]]
    <3>1. Owners' = [f \in Entries |-> IF f = e THEN v.ip ELSE Owners[f]]
      BY <1>0, <1>1, <2>2, <2>6, <2>7, Handled
    <3>2. v.ip = a
      BY <2>6
    <3>3. Holds' = [f \in Entries |-> IF f = e /\ ~(pc \in {"clear", "store"} /\ e = i)
                                      THEN v.q ELSE Holds[f]]
      BY <1>0, <1>1, <2>2, <2>6, <2>7, Handled
    <3> QED BY <3>1, <3>2, <3>3
  <2>11. /\ Holds \in [Entries -> Packets \cup {NoPacket}]
         /\ dest \in [Packets -> IPs \cup {NoIP}] /\ new \in Packets \cup {NoPacket}
    BY <1>0, HoldsIn DEF Typed
  <2>12. ASSUME ~torn', e = i, pc \in {"clear", "store"} PROVE Packed'
    <3>1. arp'[e] = arp[e] /\ arp'[e] = v
      BY <1>0, <1>1, <2>2, <2>7, <2>12 DEF Tears, Typed
    <3>2. e \in Matching(a)
      BY <2>2, <2>6, <3>1 DEF Matching
    <3>3. d = dest /\ x.q = v.q
      BY <2>2, <2>3, <3>1, <3>2 DEF d, Free
    <3>4. dest' = dest
      <4>1. CASE kept
        <5>1. x.q = k /\ k # NoPacket /\ dest' = [[dest EXCEPT ![k] = a] EXCEPT ![k] = NoIP]
          BY <2>1, <2>4, <2>6, <3>3, <4>1, NameAssumption DEF Free
        <5> QED BY <2>4, <2>11, <3>3, <4>1, <5>1
      <4>2. CASE ~kept
        BY <2>1, <3>3, <4>2
      <4> QED BY <4>1, <4>2
    <3>5. Holds' = Holds /\ Owners' = Owners
      BY <2>2, <2>10, <2>12, <3>2 DEF Holds, Owners
    <3> QED BY <1>0, <1>1, <3>4, <3>5 DEF Packed, main
  <2>13. ASSUME ~(e = i /\ pc \in {"clear", "store"}) PROVE Packed'
    <3>1. /\ Holds[e] = arp[e].q
          /\ Holds' = [f \in Entries |-> IF f = e THEN v.q ELSE Holds[f]]
      BY <2>2, <2>10, <2>13 DEF Holds
    <3>2. CASE e \in Matching(a)
      <4>1. d = dest /\ x.q = Holds[e] /\ Owners[e] = a
        BY <2>2, <2>3, <3>1, <3>2 DEF d, Free, Owners
      <4>2. x.q # NoPacket => dest[x.q] # NoIP
        BY <1>0, <2>2, <4>1, NameAssumption DEF Packed, Right, Apart
      <4>3. CASE kept
        <5>1. /\ k \in Packets /\ d[k] = NoIP /\ dest' = Free([d EXCEPT ![k] = a], x.q)
              /\ Holds'[e] = k /\ Owners'[e] = a
              /\ \A f \in Entries \ {e} : Holds'[f] = Holds[f] /\ Owners'[f] = Owners[f]
          BY <2>1, <2>2, <2>4, <2>6, <2>10, <3>1, <4>3
        <5>2. x.q \in Packets \cup {NoPacket}
          BY <2>3 DEF Records
        <5>3. Right(Holds, Owners, dest, new, ip)
          BY <1>0 DEF Packed
        <5>4. Swapped(Holds, Holds', Owners, Owners', dest, dest', e, k, a, d, x.q)
          BY <2>2, <2>5, <2>11, <4>1, <4>2, <5>1, <5>2 DEF Swapped
        <5>5. Right(Holds', Owners', dest', new, ip)
          BY <2>11, <5>3, <5>4, RightReplaced
        <5> QED BY <1>1, <5>5 DEF Packed, main
      <4>4. CASE ~kept
        <5>1. dest' = dest /\ Holds' = Holds /\ Owners' = Owners
          BY <2>1, <2>2, <2>6, <2>10, <2>11, <3>1, <4>1, <4>4 DEF Owners
        <5> QED BY <1>0, <1>1, <5>1 DEF Packed, main
      <4> QED BY <4>3, <4>4
    <3>3. CASE e \notin Matching(a)
      <4>1. d = Free(dest, Holds[e]) /\ x.q = NoPacket
        BY <2>2, <2>3, <3>1, <3>3 DEF d
      <4>2. CASE kept
        <5>1. /\ k \in Packets /\ d[k] = NoIP /\ dest' = Free([d EXCEPT ![k] = a], NoPacket)
              /\ Holds'[e] = k /\ Owners'[e] = a
              /\ \A f \in Entries \ {e} : Holds'[f] = Holds[f] /\ Owners'[f] = Owners[f]
          BY <2>1, <2>2, <2>4, <2>6, <2>10, <3>1, <4>1, <4>2
        <5>2. Right(Holds, Owners, dest, new, ip)
          BY <1>0 DEF Packed
        <5>3. Swapped(Holds, Holds', Owners, Owners', dest, dest', e, k, a, d, NoPacket)
          BY <2>2, <2>5, <2>11, <4>1, <5>1 DEF Swapped
        <5>4. Right(Holds', Owners', dest', new, ip)
          BY <2>11, <5>2, <5>3, RightReplaced
        <5> QED BY <1>1, <5>4 DEF Packed, main
      <4>3. CASE ~kept
        <5>1. /\ dest' = Free(dest, Holds[e]) /\ Holds'[e] = NoPacket
              /\ \A f \in Entries \ {e} : Holds'[f] = Holds[f] /\ Owners'[f] = Owners[f]
          BY <2>1, <2>2, <2>6, <2>10, <3>1, <4>1, <4>3
        <5>2. Right(Holds', Owners', dest', new, ip)
          BY <1>0, <2>2, <2>11, <5>1, RightDropped DEF Packed
        <5> QED BY <1>1, <5>2 DEF Packed, main
      <4> QED BY <4>2, <4>3
    <3> QED BY <3>2, <3>3
  <2>14. SentToLast'
    BY <2>1 DEF SentToLast
  <2> QED BY <2>9, <2>12, <2>13, <2>14 DEF IInv
<1> QED BY <1>3, <1>4

----------------------------------------------------------------------------
(* The steps of the main loop. *)

\* At these places the main loop knows nothing of the table.
Plain == {"idle", "load", "age", "test", "young", "waited", "asked"} \cup LookPlaces

LEMMA PlainKnows == pc' \in Plain => Window' /\ Passed'
BY DEF Plain, Window, Passed, LookPlaces, SendPlaces, FindPlaces, OwnPlaces, KeepPlaces, FreePlaces

\* A step that leaves the table alone,
LEMMA TableKept ==
    ASSUME IInv, ~torn, arp' = arp, announced' = announced, Typed', Young',
           ~torn' => Handed' /\ Window' /\ Passed' /\ Packed'
    PROVE  IInv'
BY DEF IInv, Shape, CardsRight, Settled, Distinct, Awaiting

\* and the packets.
LEMMA PacketsKept ==
    ASSUME Packed, arp' = arp, dest' = dest, new' = new, new # NoPacket => ip' = ip,
           pc \notin {"clear", "store"} \/ (pc' = pc /\ i' = i),
           pc' \notin {"clear", "store"} \/ (pc' = pc /\ i' = i)
    PROVE  Packed'
<1>1. Holds' = Holds /\ Owners' = Owners
  BY DEF Holds, Owners
<1> QED BY <1>1, RightLeft DEF Packed

LEMMA ReadsKept ==
    ASSUME IInv, ~torn, Reads, hint' \in Entries, announced' = announced, torn' = torn,
           pc \notin {"clear", "store"}, pc' \in Places \ {"clear", "store"},
           pc \in Aged => pc' \in Aged \/ arp[i].ctime < MaxAge,
           Handed', Window', Passed'
    PROVE  IInv'
<1>0. Typed /\ Young /\ Shape /\ Packed
  BY DEF IInv
<1>1. arp' = arp /\ dest' = dest /\ i' = i /\ age' = age /\ ip' = ip /\ best' = best /\ old' = old /\ new' = new
  BY DEF Reads
<1>2. Typed'
  BY <1>0, <1>1 DEF Typed
<1>3. Young'
  BY <1>0, <1>1 DEF Young
<1>4. Packed'
  BY <1>0, <1>1, PacketsKept
<1> QED BY <1>1, <1>2, <1>3, <1>4, TableKept

LEMMA AdvanceTo ==
    ASSUME Typed, Advance
    PROVE  /\ pc' \in {"idle", "load"} /\ i' \in Entries
           /\ UNCHANGED <<dest, age, ip, best, old, new>>
BY SizeAssumption DEF Typed, Advance, Entries

LEMMA AdvanceKept ==
    ASSUME IInv, ~torn, Advance, arp' = arp, hint' = hint, announced' = announced, torn' = torn,
           pc \in TmrPlaces \ Aged
    PROVE  IInv'
<1>0. Typed /\ Young /\ Shape /\ Packed
  BY DEF IInv
<1>1. pc' \in {"idle", "load"} /\ i' \in Entries /\ UNCHANGED <<dest, age, ip, best, old, new>>
  BY <1>0, AdvanceTo
<1>2. Typed'
  BY <1>0, <1>1 DEF Typed, Places, TmrPlaces
<1>3. \A e \in Entries : arp[e].ctime < MaxAge
  BY <1>0 DEF Young
<1>4. Young'
  BY <1>3 DEF Young
<1>5. Window' /\ Passed'
  BY <1>1, PlainKnows DEF Plain
<1>6. Handed'
  BY <1>0, <1>1 DEF Shape, Handed, TmrPlaces, OutPlaces, LookPlaces, SendPlaces, FindPlaces, OwnPlaces, KeepPlaces
<1>7. Packed'
  BY <1>0, <1>1, PacketsKept DEF TmrPlaces
<1> QED BY <1>2, <1>4, <1>5, <1>6, <1>7, TableKept

\* The state, the age or the card of entry i changes, and nothing else of it.
LEMMA SamePackets ==
    ASSUME Typed, Packed, NEW v \in Records, v.q = arp[i].q, v.q # NoPacket => v.ip = arp[i].ip,
           arp' = [arp EXCEPT ![i] = v], dest' = dest, new' = new, new # NoPacket => ip' = ip,
           pc \notin {"clear", "store"}, pc' \notin {"clear", "store"}
    PROVE  Packed'
<1>1. i \in Entries /\ \A f \in Entries : arp'[f] = IF f = i THEN v ELSE arp[f]
  BY DEF Typed
<1>2. Holds' = Holds
  BY <1>1 DEF Holds
<1>3. \A e \in Entries : Holds[e] # NoPacket => Owners'[e] = Owners[e]
  BY <1>1 DEF Holds, Owners
<1> QED BY <1>2, <1>3, RightLeft DEF Packed

LEMMA TmrKept ==
    ASSUME IInv, ~torn, hint' = hint, announced' = announced, torn' = torn,
           TmrStart \/ TmrLoad \/ TmrAge \/ TmrTest \/ TmrYoung \/ TmrWaited \/ TmrAsked \/ TmrRestable
    PROVE  IInv'
<1> USE DEF Places, TmrPlaces, FreePlaces, OutPlaces, LookPlaces, SendPlaces, FindPlaces, OwnPlaces, KeepPlaces
<1>0. Typed /\ Young /\ Shape /\ Packed
  BY DEF IInv
<1>1. hint' \in Entries /\ i \in Entries /\ arp[i] \in Records /\ MaxAge \in Nat
  BY <1>0, AgeAssumption DEF Typed
<1>2. ASSUME Reads, pc \in (TmrPlaces \cup {"idle"}) \ {"restable"},
             pc' \in (TmrPlaces \cup {"free"}) \ {"restable"},
             pc = "test" => pc' = "free" \/ arp[i].ctime < MaxAge
      PROVE  IInv'
  <2>1. ip = NoIP /\ ip' = ip /\ new' = new /\ new = NoPacket /\ best = NoBest /\ best' = best
    BY <1>0, <1>2 DEF Shape, Handed, Reads
  <2>2. Handed'
    BY <1>2, <2>1 DEF Handed
  <2>3. Window' /\ Passed'
    <3>1. CASE pc' = "free"
      BY <2>1, <3>1 DEF Window, Passed
    <3>2. CASE pc' # "free"
      BY <1>2, <3>2, PlainKnows DEF Plain
    <3> QED BY <3>1, <3>2
  <2> QED BY <1>1, <1>2, <2>2, <2>3, ReadsKept DEF Aged
<1>3. CASE TmrStart \/ TmrTest \/ TmrYoung \/ TmrWaited
  <2>1. pc = "test" => pc' = "free" \/ arp[i].ctime < MaxAge
    BY <1>1, <1>3 DEF TmrStart, TmrTest, TmrYoung, TmrWaited, Goes, Records
  <2> QED BY <1>2, <1>3, <2>1 DEF TmrStart, TmrTest, TmrYoung, TmrWaited, Goes
<1>4. CASE TmrLoad
  <2>1. pc = "load" /\ arp' = arp
    BY <1>4 DEF TmrLoad
  <2>2. CASE Advance
    BY <2>1, <2>2, AdvanceKept DEF Aged
  <2>3. CASE ~Advance
    <3>1. age' = arp[i].ctime + 1 /\ pc' = "age" /\ UNCHANGED <<dest, i, ip, best, old, new>>
      BY <1>4, <2>3 DEF TmrLoad
    <3>2. \A e \in Entries : arp[e].ctime < MaxAge
      BY <1>0, <2>1 DEF Young, Aged
    <3>3. age' \in 0 .. MaxAge
      BY <1>1, <3>1, <3>2 DEF Records
    <3>4. Typed' /\ Young'
      BY <1>0, <1>1, <2>1, <3>1, <3>2, <3>3 DEF Typed, Young
    <3>5. Handed' /\ Window' /\ Passed'
      BY <1>0, <2>1, <3>1 DEF Shape, Handed, Window, Passed
    <3>6. Packed'
      BY <1>0, <2>1, <3>1, PacketsKept
    <3> QED BY <2>1, <3>4, <3>5, <3>6, TableKept
  <2> QED BY <2>2, <2>3
<1>5. CASE TmrAge
  <2> DEFINE v == [arp[i] EXCEPT !.ctime = age]
  <2>1. /\ pc = "age" /\ pc' = "test" /\ age' = 0 /\ UNCHANGED <<dest, i, ip, best, old, new>>
        /\ arp' = [arp EXCEPT ![i] = v]
    BY <1>0, <1>1, <1>5 DEF TmrAge, Goes, Typed
  <2>2. /\ v \in Records /\ v.state = arp[i].state /\ v.ip = arp[i].ip
        /\ v.card = arp[i].card /\ v.q = arp[i].q
    BY <1>0, <1>1 DEF Typed, Records
  <2> HIDE DEF v
  <2>3. \A e \in Entries : arp'[e] = IF e = i THEN v ELSE arp[e]
    BY <1>0, <2>1 DEF Typed
  <2>4. Typed'
    BY <1>0, <1>1, <2>1, <2>2 DEF Typed
  <2>5. Young'
    BY <1>0, <2>1, <2>3 DEF Young, Aged
  <2>6. Handed' /\ Window' /\ Passed'
    BY <1>0, <2>1 DEF Shape, Handed, Window, Passed
  <2>7. CardsRight' /\ Settled' /\ Distinct' /\ Awaiting'
    BY <1>0, <2>2, <2>3 DEF Shape, CardsRight, Settled, Distinct, Awaiting, Stable
  <2>8. Packed'
    BY <1>0, <2>1, <2>2, SamePackets
  <2> QED BY <2>4, <2>5, <2>6, <2>7, <2>8 DEF IInv, Shape
<1>6. CASE TmrAsked
  <2>1. pc = "asked" /\ arp' = arp
    BY <1>6 DEF TmrAsked, Reads
  <2>2. CASE arp[i].state = "rerequesting"
    <3>1. Reads /\ pc' = "restable"
      BY <1>6, <2>2 DEF TmrAsked
    <3>2. ip = NoIP /\ ip' = ip /\ new' = new /\ new = NoPacket /\ i' = i /\ best = NoBest /\ best' = best
      BY <1>0, <2>1, <3>1 DEF Shape, Handed, Reads
    <3>3. Handed' /\ Window' /\ Passed'
      BY <2>1, <2>2, <3>1, <3>2 DEF Handed, Window, Passed, Stable
    <3> QED BY <1>1, <2>1, <3>1, <3>3, ReadsKept DEF Aged
  <2>3. CASE arp[i].state # "rerequesting"
    BY <1>6, <2>1, <2>3, AdvanceKept DEF Aged, TmrAsked
  <2> QED BY <2>2, <2>3
<1>7. CASE TmrRestable
  <2> DEFINE v == [arp[i] EXCEPT !.state = "stable"]
  <2>1. /\ pc = "restable" /\ arp' = [arp EXCEPT ![i] = v]
        /\ pc' \in {"idle", "load"} /\ i' \in Entries /\ UNCHANGED <<dest, age, ip, best, old, new>>
    BY <1>0, <1>1, <1>7, AdvanceTo DEF TmrRestable, Typed
  <2>2. /\ v \in Records /\ v.state = "stable" /\ v.ip = arp[i].ip /\ v.ctime = arp[i].ctime
        /\ v.card = arp[i].card /\ v.q = arp[i].q /\ Stable(arp[i])
    BY <1>0, <1>1, <2>1 DEF Typed, Records, Shape, Window
  <2> HIDE DEF v
  <2>3. \A e \in Entries : arp'[e] = IF e = i THEN v ELSE arp[e]
    BY <1>0, <2>1 DEF Typed
  <2>4. Typed'
    BY <1>0, <1>1, <2>1, <2>2 DEF Typed
  <2>5. Young'
    BY <1>0, <2>1, <2>2, <2>3 DEF Young, Aged
  <2>6. Window' /\ Passed'
    BY <2>1, PlainKnows DEF Plain
  <2>7. Handed'
    BY <1>0, <2>1 DEF Shape, Handed
  <2>8. CardsRight' /\ Settled' /\ Distinct' /\ Awaiting'
    BY <1>0, <2>2, <2>3 DEF Shape, CardsRight, Settled, Distinct, Awaiting, Stable
  <2>9. Packed'
    BY <1>0, <2>1, <2>2, SamePackets
  <2> QED BY <2>4, <2>5, <2>6, <2>7, <2>8, <2>9 DEF IInv, Shape
<1> QED BY <1>3, <1>4, <1>5, <1>6, <1>7

LEMMA FreeKept ==
    ASSUME IInv, ~torn, hint' = hint, announced' = announced, torn' = torn, FreeEntry
    PROVE  IInv'
<1> USE DEF Places, TmrPlaces, FreePlaces, OutPlaces, LookPlaces, SendPlaces, FindPlaces, OwnPlaces, KeepPlaces
<1>0. Typed /\ Young /\ Shape /\ Packed
  BY DEF IInv
<1>1. i \in Entries /\ arp[i] \in Records /\ MaxAge \in Nat /\ 0 < MaxAge
  BY <1>0, AgeAssumption DEF Typed
<1>2. CASE FreeLoad
  <2>1. /\ pc = "free" /\ arp' = arp /\ old' = arp[i].q /\ UNCHANGED <<dest, i, age, ip, best, new>>
        /\ pc' = IF arp[i].q = NoPacket THEN "empty" ELSE "drop"
    BY <1>2 DEF FreeLoad, Goes
  <2>2. Typed' /\ Young'
    BY <1>0, <1>1, <2>1 DEF Typed, Young, Aged, Records
  <2>3. Handed' /\ Window' /\ Passed'
    BY <1>0, <2>1 DEF Shape, Handed, Window, Passed
  <2>4. Packed'
    BY <1>0, <2>1, PacketsKept
  <2> QED BY <2>1, <2>2, <2>3, <2>4, TableKept
<1>3. CASE FreeDrop
  <2>1. /\ pc = "drop" /\ pc' = "clear" /\ arp' = arp /\ dest' = Free(dest, old) /\ old' = NoPacket
        /\ UNCHANGED <<i, age, ip, best, new>>
    BY <1>3 DEF FreeDrop, Goes
  <2>2. Typed' /\ Young'
    BY <1>0, <1>1, <2>1 DEF Typed, Young, Aged, Free
  <2>3. Handed' /\ Window' /\ Passed'
    BY <1>0, <2>1 DEF Shape, Handed, Window, Passed
  <2>4. /\ Holds'[i] = NoPacket /\ dest' = Free(dest, Holds[i])
        /\ \A f \in Entries \ {i} : Holds'[f] = Holds[f] /\ Owners'[f] = Owners[f]
    BY <1>0, <1>1, <2>1 DEF Holds, Owners, Shape, Window
  <2>5. Packed'
    <3>1. Holds \in [Entries -> Packets \cup {NoPacket}] /\ dest \in [Packets -> IPs \cup {NoIP}]
          /\ new \in Packets \cup {NoPacket} /\ Right(Holds, Owners, dest, new, ip)
      BY <1>0, HoldsIn DEF Typed, Packed
    <3>2. Right(Holds', Owners', dest', new, ip)
      BY <1>1, <2>4, <3>1, RightDropped
    <3> QED BY <2>1, <3>2 DEF Packed
  <2> QED BY <2>1, <2>2, <2>3, <2>5, TableKept
<1>4. CASE FreeClear
  <2> DEFINE v == [arp[i] EXCEPT !.q = NoPacket]
  <2>1. /\ pc = "clear" /\ pc' = "empty" /\ UNCHANGED <<dest, i, age, ip, best, old, new>>
        /\ arp' = [arp EXCEPT ![i] = v]
    BY <1>0, <1>1, <1>4 DEF FreeClear, Goes, Typed, Writes
  <2>2. /\ v \in Records /\ v.state = arp[i].state /\ v.ip = arp[i].ip /\ v.ctime = arp[i].ctime
        /\ v.card = arp[i].card /\ v.q = NoPacket
    BY <1>0, <1>1 DEF Typed, Records
  <2> HIDE DEF v
  <2>3. \A e \in Entries : arp'[e] = IF e = i THEN v ELSE arp[e]
    BY <1>0, <2>1 DEF Typed
  <2>4. Typed'
    BY <1>0, <2>1, <2>2 DEF Typed
  <2>5. Young'
    BY <1>0, <2>1, <2>3 DEF Young, Aged
  <2>6. Handed' /\ Window' /\ Passed'
    BY <1>0, <1>1, <2>1, <2>2, <2>3 DEF Shape, Handed, Window, Passed
  <2>7. CardsRight' /\ Settled' /\ Distinct' /\ Awaiting'
    BY <1>0, <2>2, <2>3 DEF Shape, CardsRight, Settled, Distinct, Awaiting, Stable
  <2>8. Packed'
    <3>1. Holds' = Holds /\ Owners' = Owners
      BY <2>1, <2>2, <2>3 DEF Holds, Owners
    <3> QED BY <1>0, <2>1, <3>1 DEF Packed
  <2> QED BY <2>4, <2>5, <2>6, <2>7, <2>8 DEF IInv, Shape
<1>5. CASE FreeEmpty
  <2> DEFINE v == [arp[i] EXCEPT !.state = "empty"]
  <2>1. /\ pc = "empty" /\ pc' = "wipe" /\ UNCHANGED <<dest, i, age, ip, best, old, new>>
        /\ arp' = [arp EXCEPT ![i] = v] /\ arp[i].q = NoPacket
    BY <1>0, <1>1, <1>5 DEF FreeEmpty, Goes, Typed, Writes, Shape, Window
  <2>2. /\ v \in Records /\ v.state = "empty" /\ v.ip = arp[i].ip /\ v.ctime = arp[i].ctime
        /\ v.card = arp[i].card /\ v.q = NoPacket
    BY <1>0, <1>1, <2>1 DEF Typed, Records
  <2> HIDE DEF v
  <2>3. \A e \in Entries : arp'[e] = IF e = i THEN v ELSE arp[e]
    BY <1>0, <2>1 DEF Typed
  <2>4. Typed'
    BY <1>0, <2>1, <2>2 DEF Typed
  <2>5. Young'
    BY <1>0, <2>1, <2>3 DEF Young, Aged
  <2>6. Handed' /\ Window' /\ Passed'
    BY <1>0, <1>1, <2>1, <2>2, <2>3 DEF Shape, Handed, Window, Passed
  <2>7. CardsRight' /\ Settled' /\ Distinct' /\ Awaiting'
    BY <1>0, <2>2, <2>3 DEF Shape, CardsRight, Settled, Distinct, Awaiting, Stable
  <2>8. Packed'
    BY <1>0, <2>1, <2>2, SamePackets
  <2> QED BY <2>4, <2>5, <2>6, <2>7, <2>8 DEF IInv, Shape
<1>6. CASE FreeWipe
  <2> DEFINE v == [arp[i] EXCEPT !.ctime = 0, !.ip = NoIP, !.card = NoCard]
  <2>1. /\ pc = "wipe" /\ arp[i].state = "empty" /\ arp[i].q = NoPacket
        /\ IF ip = NoIP THEN pc' \in {"idle", "load"} ELSE pc' = "own" /\ i' = i
        /\ i' \in Entries /\ UNCHANGED <<dest, age, ip, best, old, new>>
    BY <1>0, <1>1, <1>6, AdvanceTo DEF FreeWipe, Writes, Shape, Window
  <2>2. arp' = [arp EXCEPT ![i] = v]
    BY <1>0, <1>1, <1>6 DEF FreeWipe, Typed
  <2>3. v \in Records /\ v.state = "empty" /\ v.ip = NoIP /\ v.ctime = 0 /\ v.q = NoPacket
    <3>1. v = [state |-> arp[i].state, ip |-> NoIP, card |-> NoCard, q |-> arp[i].q, ctime |-> 0]
      <4>1. PICK y \in Records : y = arp[i]
        BY <1>1
      <4>2. PICK w : w = [y EXCEPT !.ctime = 0, !.ip = NoIP, !.card = NoCard]
        OBVIOUS
      <4>3. w = [state |-> y.state, ip |-> NoIP, card |-> NoCard, q |-> y.q, ctime |-> 0]
        BY <4>2 DEF Records
      <4> QED BY <4>1, <4>2, <4>3 DEF v
    <3>2. 0 \in 0 .. MaxAge /\ NoCard \in AnyCard
      BY <1>1 DEF AnyCard
    <3> QED BY <1>1, <2>1, <3>1, <3>2 DEF Records
  <2> HIDE DEF v
  <2>4. \A e \in Entries : arp'[e] = IF e = i THEN v ELSE arp[e]
    BY <1>0, <2>2 DEF Typed
  <2>5. Typed'
    BY <1>0, <2>1, <2>2, <2>3 DEF Typed
  <2>6. Young'
    BY <1>0, <1>1, <2>1, <2>3, <2>4 DEF Young, Aged
  <2>7. Handed'
    BY <1>0, <2>1 DEF Shape, Handed, Typed
  <2>8. Window' /\ Passed'
    <3>1. CASE ip = NoIP
      BY <2>1, <3>1, PlainKnows DEF Plain
    <3>2. CASE ip # NoIP
      BY <1>0, <1>1, <2>1, <2>3, <2>4, <3>2 DEF Shape, Window, Passed
    <3> QED BY <3>1, <3>2
  <2>9. CardsRight' /\ Settled' /\ Distinct' /\ Awaiting'
    BY <1>0, <2>3, <2>4 DEF Shape, CardsRight, Settled, Distinct, Awaiting, Stable
  <2>10. Packed'
    BY <1>0, <2>1, <2>2, <2>3, SamePackets
  <2> QED BY <2>5, <2>6, <2>7, <2>8, <2>9, <2>10 DEF IInv, Shape
<1> QED BY <1>2, <1>3, <1>4, <1>5, <1>6 DEF FreeEntry

\* The places of etharp_output and etharp_query, where there is something to send.
LEMMA LookKept ==
    ASSUME IInv, ~torn, announced' = announced,
           \/ torn' = torn /\ \E a \in IPs : OutStart(a)
           \/ OutHint \/ OutHintIp \/ OutScan \/ OutScanIp
    PROVE  IInv'
<1> USE DEF Places, TmrPlaces, FreePlaces, OutPlaces, LookPlaces, SendPlaces, FindPlaces, OwnPlaces, KeepPlaces
<1>0. Typed /\ Young /\ Shape /\ Packed
  BY DEF IInv
<1>1. i \in Entries /\ hint \in Entries /\ 1 \in Entries /\ Entries = 1 .. Size /\ Size \in Nat
  BY <1>0, SizeAssumption DEF Typed, Entries
<1>2. /\ arp' = arp /\ dest' = dest /\ new' = new /\ UNCHANGED <<age, best, old>>
      /\ pc \in LookPlaces \cup {"idle"}
  BY DEF OutStart, OutHint, OutHintIp, OutScan, OutScanIp, Goes
<1>3. /\ ip' \in IPs /\ new = NoPacket
      /\ pc # "idle" => ip' = ip
      /\ i' \in Entries /\ hint' \in Entries
      /\ pc' \in LookPlaces \cup {"send", "find"}
      /\ pc' = "find" => i' = 1
      /\ pc' = "send" => i' = i /\ ip' = ip /\ arp[i].ip = ip /\ torn' = ~Stable(arp[i])
      /\ torn' \in BOOLEAN
  <2>1. i < Size => i + 1 \in Entries
    BY <1>1
  <2>2. new = NoPacket /\ (pc # "idle" => ip \in IPs) /\ torn \in BOOLEAN
    BY <1>0, <1>2 DEF Shape, Handed, Typed
  <2>3. CASE \E a \in IPs : OutStart(a)
    BY <1>1, <2>2, <2>3 DEF OutStart, Goes
  <2>4. CASE OutHint
    BY <1>1, <2>2, <2>4 DEF OutHint, Scan
  <2>5. CASE OutHintIp
    BY <1>1, <2>2, <2>5 DEF OutHintIp, Scan
  <2>6. CASE OutScan
    BY <1>1, <2>1, <2>2, <2>6 DEF OutScan, ScanOn
  <2>7. CASE OutScanIp
    BY <1>1, <2>1, <2>2, <2>7 DEF OutScanIp, ScanOn
  <2> QED BY <2>3, <2>4, <2>5, <2>6, <2>7
<1>4. Typed'
  BY <1>0, <1>2, <1>3 DEF Typed
<1>5. Young'
  <2>1. \A e \in Entries : arp[e].ctime < MaxAge
    BY <1>0, <1>2 DEF Young, Aged
  <2> QED BY <1>2, <2>1 DEF Young
<1>6. Handed'
  BY <1>0, <1>2, <1>3, NameAssumption DEF Handed, Shape
<1>7. ASSUME ~torn' PROVE Window' /\ Passed'
  <2>1. CASE pc' = "send"
    BY <1>2, <1>3, <1>7, <2>1 DEF Window, Passed
  <2>2. CASE pc' = "find"
    <3>1. best'.rank = 0 /\ i' = 1
      BY <1>0, <1>2, <1>3, <2>2 DEF Shape, Handed, NoBest
    <3>2. \A e \in Entries : ~(e < i')
      BY <1>1, <3>1
    <3> QED BY <2>2, <3>1, <3>2 DEF Window, Passed
  <2>3. CASE pc' \in LookPlaces
    BY <2>3, PlainKnows DEF Plain
  <2> QED BY <1>3, <2>1, <2>2, <2>3
<1>8. Packed'
  BY <1>0, <1>2, <1>3, PacketsKept
<1> QED BY <1>2, <1>4, <1>5, <1>6, <1>7, <1>8, TableKept

LEMMA SendKept ==
    ASSUME IInv, ~torn, hint' = hint, announced' = announced, torn' = torn,
           OutSend \/ (\E room \in BOOLEAN : OutAsks(room)) \/ OutMark \/ OutAddr \/ OutRest
    PROVE  IInv'
<1> USE DEF Places, TmrPlaces, FreePlaces, OutPlaces, LookPlaces, SendPlaces, FindPlaces, OwnPlaces, KeepPlaces
<1>0. Typed /\ Young /\ Shape /\ Packed
  BY DEF IInv
<1>1. hint' \in Entries /\ i \in Entries /\ arp[i] \in Records /\ 1 \in Entries
  BY <1>0, SizeAssumption DEF Typed, Entries
<1>2. /\ pc \in SendPlaces /\ Stable(arp[i]) /\ arp[i].ip = ip /\ ip \in IPs /\ new = NoPacket /\ best = NoBest
  <2>1. pc \in SendPlaces
    BY DEF OutSend, OutAsks, OutMark, OutAddr, OutRest, Goes
  <2> QED BY <1>0, <2>1 DEF Shape, Handed, Window
<1>3. CASE OutSend \/ (\E room \in BOOLEAN : OutAsks(room)) \/ OutAddr
  <2>1. Reads /\ pc' \in {"asks", "mark", "addr", "rest"}
    BY <1>3 DEF OutSend, OutAsks, OutAddr, Goes
  <2>2. Handed' /\ Window' /\ Passed'
    BY <1>2, <2>1 DEF Handed, Window, Passed, Reads
  <2> QED BY <1>1, <1>2, <2>1, <2>2, ReadsKept DEF Aged
<1>4. CASE OutMark
  <2> DEFINE v == [arp[i] EXCEPT !.state = "rerequesting"]
  <2>1. /\ pc = "mark" /\ pc' = "addr" /\ UNCHANGED <<dest, i, age, ip, best, old, new>>
        /\ arp' = [arp EXCEPT ![i] = v]
    BY <1>0, <1>1, <1>4 DEF OutMark, Goes, Writes, Typed
  <2>2. /\ v \in Records /\ v.state = "rerequesting" /\ v.ip = arp[i].ip /\ v.ctime = arp[i].ctime
        /\ v.card = arp[i].card /\ v.q = arp[i].q
    BY <1>1 DEF Records
  <2> HIDE DEF v
  <2>3. \A e \in Entries : arp'[e] = IF e = i THEN v ELSE arp[e]
    BY <1>0, <2>1 DEF Typed
  <2>4. Typed'
    BY <1>0, <2>1, <2>2 DEF Typed
  <2>5. Young'
    BY <1>0, <2>1, <2>2, <2>3 DEF Young, Aged
  <2>6. Handed' /\ Window' /\ Passed'
    BY <1>1, <1>2, <2>1, <2>2, <2>3 DEF Handed, Window, Passed, Stable
  <2>7. CardsRight' /\ Settled' /\ Distinct' /\ Awaiting'
    BY <1>0, <1>2, <2>2, <2>3 DEF Shape, CardsRight, Settled, Distinct, Awaiting, Stable
  <2>8. Packed'
    BY <1>0, <2>1, <2>2, SamePackets
  <2> QED BY <2>4, <2>5, <2>6, <2>7, <2>8 DEF IInv, Shape
<1>5. CASE OutRest
  <2>1. /\ pc = "rest" /\ pc' = "idle" /\ i' = 1 /\ ip' = NoIP /\ UNCHANGED <<arp, dest, age, best, old, new>>
    BY <1>5 DEF OutRest, End
  <2>2. Typed' /\ Young'
    BY <1>0, <1>1, <2>1 DEF Typed, Young, Aged
  <2>3. Handed'
    BY <1>2, <2>1 DEF Handed
  <2>4. Window' /\ Passed'
    BY <2>1, PlainKnows DEF Plain
  <2>5. Packed'
    BY <1>0, <1>2, <2>1, PacketsKept
  <2> QED BY <2>1, <2>2, <2>3, <2>4, <2>5, TableKept
<1> QED BY <1>3, <1>4, <1>5

\* The entry compared is in the table, and empty if the best is.
LEMMA Considered ==
    ASSUME Typed, Passed, pc \in FindPlaces,
           NEW s \in {"empty", "pending", "stable", "rerequesting"}, s = "empty" => arp[i].state = "empty"
    PROVE  /\ Consider(s) \in Bests
           /\ Consider(s).rank = 4 => arp[Consider(s).e].state = "empty"
<1>1. i \in Entries /\ arp[i] \in Records /\ best \in Bests
  BY DEF Typed
<1>2. Rank(s, arp[i].q) \in 1 .. 4 /\ (Rank(s, arp[i].q) = 4 => arp[i].state = "empty")
  BY DEF Rank
<1>3. best.rank = 4 => arp[best.e].state = "empty"
  BY DEF Passed
<1>4. CASE Consider(s) = [best EXCEPT !.state = "empty"]
  <2>1. PICK c : c = [best EXCEPT !.state = "empty"]
    OBVIOUS
  <2>2. c \in Bests /\ c.e = best.e /\ c.rank = best.rank
    BY <1>1, <2>1 DEF Bests
  <2> QED BY <1>3, <1>4, <2>1, <2>2
<1>5. CASE Consider(s) = [e |-> i, rank |-> Rank(s, arp[i].q), ctime |-> arp[i].ctime, state |-> "empty"]
  <2>1. arp[i].ctime \in 0 .. MaxAge
    BY <1>1 DEF Records
  <2>2. Rank(s, arp[i].q) \in 0 .. 4
    BY <1>2
  <2> HIDE DEF Records
  <2> QED BY <1>1, <1>2, <1>5, <2>1, <2>2 DEF Bests
<1> QED BY <1>4, <1>5 DEF Consider

LEMMA FindKept ==
    ASSUME IInv, ~torn, hint' = hint, announced' = announced, torn' = torn, OutFind \/ OutMatch
    PROVE  IInv'
<1> USE DEF Places, TmrPlaces, FreePlaces, OutPlaces, LookPlaces, SendPlaces, FindPlaces, OwnPlaces, KeepPlaces
<1>0. Typed /\ Young /\ Shape /\ Packed
  BY DEF IInv
<1>1. i \in Entries /\ Entries = 1 .. Size /\ Size \in Nat /\ MaxAge \in Nat
  BY <1>0, SizeAssumption, AgeAssumption DEF Typed, Entries
<1>2. /\ UNCHANGED <<arp, dest, age, ip, old, new>> /\ pc \in FindPlaces /\ ip \in IPs /\ new = NoPacket
  BY <1>0 DEF OutFind, OutMatch, Shape, Handed
<1>3. ASSUME NEW s \in {"empty", "pending", "stable", "rerequesting"}, s = "empty" => arp[i].state = "empty",
             FindOn(s), ~Occupied(arp[i], ip)
      PROVE  IInv'
  <2>1. /\ Consider(s) \in Bests
        /\ Consider(s).rank = 4 => arp[Consider(s).e].state = "empty"
    BY <1>0, <1>2, <1>3, Considered DEF Shape
  <2>2. \A e \in Entries : e <= i => ~Occupied(arp[e], ip)
    BY <1>0, <1>1, <1>2, <1>3 DEF Shape, Passed
  <2>3. CASE i < Size
    <3>1. pc' = "find" /\ i' = i + 1 /\ best' = Consider(s) /\ i' \in Entries
      BY <1>1, <1>3, <2>3 DEF FindOn
    <3>2. Typed'
      BY <1>0, <1>2, <2>1, <3>1 DEF Typed
    <3>3. Young'
      BY <1>0, <1>2, <3>1 DEF Young, Aged
    <3>4. \A e \in Entries : e < i' => ~Occupied(arp[e], ip)
      BY <1>1, <2>2, <3>1
    <3>5. Handed' /\ Window' /\ Passed'
      BY <1>2, <2>1, <3>1, <3>4 DEF Handed, Window, Passed
    <3>6. Packed'
      BY <1>0, <1>2, <3>1, PacketsKept
    <3> QED BY <1>2, <3>2, <3>3, <3>5, <3>6, TableKept
  <2>4. CASE ~(i < Size)
    <3>1. /\ pc' = IF Consider(s).rank = 4 THEN "own" ELSE "free"
          /\ i' = Consider(s).e /\ best' = NoBest /\ i' \in Entries
      BY <1>3, <2>1, <2>4 DEF FindOn, Bests
    <3>2. NoBest \in Bests
      BY <1>1 DEF NoBest, Bests
    <3>3. Typed'
      BY <1>0, <1>2, <3>1, <3>2 DEF Typed
    <3>4. Young'
      BY <1>0, <1>2, <3>1 DEF Young, Aged
    <3>5. \A e \in Entries : ~Occupied(arp[e], ip)
      BY <1>1, <2>2, <2>4
    <3>6. pc' = "own" => arp[i'].state = "empty" /\ arp[i'].q = NoPacket
      BY <1>0, <2>1, <3>1 DEF Shape, Awaiting
    <3>7. Handed' /\ Window' /\ Passed'
      BY <1>2, <3>1, <3>5, <3>6 DEF Handed, Window, Passed
    <3>8. Packed'
      BY <1>0, <1>2, <3>1, PacketsKept
    <3> QED BY <1>2, <3>3, <3>4, <3>7, <3>8, TableKept
  <2> QED BY <2>3, <2>4
<1>4. ASSUME UNCHANGED i, \/ pc = "find" /\ pc' = "match" /\ arp[i].state # "empty"
                             /\ best' = [best EXCEPT !.state = arp[i].state]
                          \/ pc' = "decide" /\ best' = NoBest /\ arp[i].state # "empty" /\ arp[i].ip = ip
      PROVE  IInv'
  <2>1. NoBest \in Bests
    BY <1>1 DEF NoBest, Bests
  <2>2. /\ best' \in Bests
        /\ pc' = "match" => best'.e = best.e /\ best'.rank = best.rank /\ best'.state = arp[i].state
    BY <1>0, <1>4, <2>1 DEF Typed, Bests, Records
  <2>6. Typed'
    BY <1>0, <1>2, <1>4, <2>2 DEF Typed
  <2>3. Young'
    BY <1>0, <1>2, <1>4 DEF Young, Aged
  <2>4. Handed' /\ Window' /\ Passed'
    BY <1>0, <1>2, <1>4, <2>2 DEF Handed, Window, Passed, Shape
  <2>5. Packed'
    BY <1>0, <1>2, <1>4, PacketsKept
  <2> QED BY <1>2, <2>3, <2>4, <2>5, <2>6, TableKept
<1>5. CASE OutFind
  <2>1. CASE arp[i].state = "empty"
    <3>1. FindOn("empty") /\ ~Occupied(arp[i], ip)
      BY <1>5, <2>1 DEF OutFind, Occupied
    <3> QED BY <1>3, <2>1, <3>1
  <2>2. CASE arp[i].state # "empty"
    BY <1>4, <1>5, <2>2 DEF OutFind
  <2> QED BY <2>1, <2>2
<1>6. CASE OutMatch
  <2>1. /\ pc = "match" /\ arp[i].state # "empty" /\ best.state # "empty"
        /\ best.state \in {"empty", "pending", "stable", "rerequesting"}
    BY <1>0, <1>6 DEF OutMatch, Shape, Passed, Typed, Bests
  <2>2. CASE arp[i].ip = ip
    BY <1>4, <1>6, <2>1, <2>2 DEF OutMatch
  <2>3. CASE arp[i].ip # ip
    BY <1>3, <1>6, <2>1, <2>3 DEF OutMatch, Occupied
  <2> QED BY <2>2, <2>3
<1> QED BY <1>5, <1>6

\* The entry that has not been found is made.
LEMMA OwnKept ==
    ASSUME IInv, ~torn, hint' = hint, announced' = announced, torn' = torn, OutOwn \/ OutPending
    PROVE  IInv'
<1> USE DEF Places, TmrPlaces, FreePlaces, OutPlaces, LookPlaces, SendPlaces, FindPlaces, OwnPlaces, KeepPlaces
<1>0. Typed /\ Young /\ Shape /\ Packed
  BY DEF IInv
<1>1. i \in Entries /\ arp[i] \in Records /\ MaxAge \in Nat /\ 0 < MaxAge
  BY <1>0, AgeAssumption DEF Typed
<1>2. /\ pc \in OwnPlaces /\ ip \in IPs /\ new = NoPacket /\ best = NoBest
      /\ arp[i].state = "empty" /\ arp[i].q = NoPacket
      /\ \A e \in Entries : e # i => ~Occupied(arp[e], ip)
  <2>1. pc \in OwnPlaces
    BY DEF OutOwn, OutPending, Goes
  <2> QED BY <1>0, <2>1, NameAssumption DEF Shape, Handed, Window, Passed
<1>3. CASE OutOwn
  <2> DEFINE v == [arp[i] EXCEPT !.ip = ip, !.ctime = 0]
  <2>1. /\ pc = "own" /\ pc' = "pending" /\ UNCHANGED <<dest, i, age, ip, best, old, new>>
        /\ arp' = [arp EXCEPT ![i] = v]
    BY <1>0, <1>1, <1>3 DEF OutOwn, Goes, Writes, Typed
  <2>2. v \in Records /\ v.state = "empty" /\ v.ip = ip /\ v.ctime = 0 /\ v.q = NoPacket
    <3>1. PICK y \in Records : y = arp[i]
      BY <1>1
    <3>2. PICK w : w = [y EXCEPT !.ip = ip, !.ctime = 0]
      OBVIOUS
    <3>3. w = [state |-> y.state, ip |-> ip, card |-> y.card, q |-> y.q, ctime |-> 0]
      BY <3>2 DEF Records
    <3>4. 0 \in 0 .. MaxAge
      BY <1>1
    <3> QED BY <1>2, <3>1, <3>2, <3>3, <3>4 DEF v, Records
  <2> HIDE DEF v
  <2>3. \A e \in Entries : arp'[e] = IF e = i THEN v ELSE arp[e]
    BY <1>0, <2>1 DEF Typed
  <2>4. Typed'
    BY <1>0, <2>1, <2>2 DEF Typed
  <2>5. Young'
    BY <1>0, <1>1, <2>1, <2>2, <2>3 DEF Young, Aged
  <2>6. Handed' /\ Window' /\ Passed'
    BY <1>1, <1>2, <2>1, <2>2, <2>3 DEF Handed, Window, Passed
  <2>7. CardsRight' /\ Settled' /\ Distinct' /\ Awaiting'
    BY <1>0, <1>2, <2>2, <2>3 DEF Shape, CardsRight, Settled, Distinct, Awaiting, Stable
  <2>8. Packed'
    BY <1>0, <1>2, <2>1, <2>2, SamePackets
  <2> QED BY <2>4, <2>5, <2>6, <2>7, <2>8 DEF IInv, Shape
<1>4. CASE OutPending
  <2> DEFINE v == [arp[i] EXCEPT !.state = "pending"]
  <2>1. /\ pc = "pending" /\ pc' = "decide" /\ UNCHANGED <<dest, i, age, ip, best, old, new>>
        /\ arp' = [arp EXCEPT ![i] = v] /\ arp[i].ip = ip
    BY <1>0, <1>1, <1>4 DEF OutPending, Goes, Writes, Typed, Shape, Window
  <2>2. /\ v \in Records /\ v.state = "pending" /\ v.ip = ip /\ v.ctime = arp[i].ctime /\ v.q = NoPacket
    BY <1>1, <1>2, <2>1 DEF Records
  <2> HIDE DEF v
  <2>3. \A e \in Entries : arp'[e] = IF e = i THEN v ELSE arp[e]
    BY <1>0, <2>1 DEF Typed
  <2>4. Typed'
    BY <1>0, <2>1, <2>2 DEF Typed
  <2>5. Young'
    BY <1>0, <1>1, <2>1, <2>2, <2>3 DEF Young, Aged
  <2>6. Handed' /\ Window' /\ Passed'
    BY <1>1, <1>2, <2>1, <2>2, <2>3 DEF Handed, Window, Passed
  <2>7. CardsRight' /\ Settled' /\ Distinct' /\ Awaiting'
    BY <1>0, <1>2, <2>2, <2>3 DEF Shape, CardsRight, Settled, Distinct, Awaiting, Stable, Occupied
  <2>8. Packed'
    BY <1>0, <1>2, <2>1, <2>2, SamePackets
  <2> QED BY <2>4, <2>5, <2>6, <2>7, <2>8 DEF IInv, Shape
<1> QED BY <1>3, <1>4

\* The packet is sent or kept.
LEMMA KeepKept ==
    ASSUME IInv, ~torn, announced' = announced, torn' = torn,
           \/ OutDecide
           \/ hint' = hint /\ (OutStill \/ (\E room \in BOOLEAN : OutCopy(room)) \/ OutKept \/ OutReplace \/ OutStore)
    PROVE  IInv'
<1> USE DEF Places, TmrPlaces, FreePlaces, OutPlaces, LookPlaces, SendPlaces, FindPlaces, OwnPlaces, KeepPlaces
<1>0. Typed /\ Young /\ Shape /\ Packed
  BY DEF IInv
<1>1. /\ i \in Entries /\ 1 \in Entries /\ arp[i] \in Records /\ hint \in Entries
      /\ Holds \in [Entries -> Packets \cup {NoPacket}] /\ dest \in [Packets -> IPs \cup {NoIP}]
      /\ new \in Packets \cup {NoPacket} /\ old \in Packets \cup {NoPacket}
  BY <1>0, SizeAssumption, HoldsIn DEF Typed, Entries
<1>2. /\ pc \in {"decide", "still"} \cup KeepPlaces /\ ip \in IPs /\ best = NoBest
      /\ arp[i].ip = ip /\ arp[i].state # "empty"
      /\ pc \in {"decide", "still", "copy"} => new = NoPacket
      /\ pc \in KeepPlaces => arp[i].state = "pending"
  <2>1. pc \in {"decide", "still"} \cup KeepPlaces
    BY DEF OutDecide, OutStill, OutCopy, OutKept, OutReplace, OutStore, Goes
  <2> QED BY <1>0, <2>1 DEF Shape, Handed, Window
<1>3. ASSUME arp' = arp, hint' = hint, pc \in {"still", "copy"}, End, UNCHANGED <<dest, age, best, old, new>>
      PROVE  IInv'
  <2>1. pc' = "idle" /\ i' = 1 /\ ip' = NoIP
    BY <1>3 DEF End
  <2>2. Typed' /\ Young'
    BY <1>0, <1>1, <1>3, <2>1 DEF Typed, Young, Aged
  <2>3. Handed'
    BY <1>2, <1>3, <2>1 DEF Handed
  <2>4. Window' /\ Passed'
    BY <2>1, PlainKnows DEF Plain
  <2>5. Packed'
    BY <1>0, <1>2, <1>3, <2>1, PacketsKept
  <2> QED BY <1>3, <2>2, <2>3, <2>4, <2>5, TableKept
<1>4. CASE OutDecide
  <2>1. /\ pc = "decide" /\ Reads /\ hint' \in Entries
        /\ pc' = IF Stable(arp[i]) THEN "addr" ELSE "still"
    BY <1>1, <1>4 DEF OutDecide, Goes
  <2>2. Handed' /\ Window' /\ Passed'
    BY <1>2, <2>1 DEF Handed, Window, Passed, Reads
  <2> QED BY <2>1, <2>2, ReadsKept DEF Aged
<1>5. CASE OutStill /\ hint' = hint
  <2>1. CASE arp[i].state = "pending"
    <3>1. Reads /\ pc = "still" /\ pc' = "copy"
      BY <1>5, <2>1 DEF OutStill, Reads
    <3>2. Handed' /\ Window' /\ Passed'
      BY <1>2, <2>1, <3>1 DEF Handed, Window, Passed, Reads
    <3> QED BY <1>1, <1>5, <3>1, <3>2, ReadsKept DEF Aged
  <2>2. CASE arp[i].state # "pending"
    BY <1>3, <1>5, <2>2 DEF OutStill
  <2> QED BY <2>1, <2>2
<1>6. ASSUME NEW room \in BOOLEAN, OutCopy(room), hint' = hint
      PROVE  IInv'
  <2>1. CASE room /\ Unused(dest) # {}
    <3>1. PICK k \in Packets : /\ dest[k] = NoIP /\ dest' = [dest EXCEPT ![k] = ip]
                               /\ new' = k /\ pc' = "kept" /\ UNCHANGED <<i, ip>>
      BY <1>6, <2>1 DEF OutCopy, Unused
    <3>2. pc = "copy" /\ UNCHANGED <<arp, age, best, old>>
      BY <1>6 DEF OutCopy
    <3>3. Typed' /\ Young'
      <4>1. dest' \in [Packets -> IPs \cup {NoIP}] /\ new' \in Packets \cup {NoPacket} /\ pc' \in Places
        BY <1>1, <1>2, <3>1
      <4>2. Typed'
        BY <1>0, <1>6, <3>1, <3>2, <4>1 DEF Typed
      <4> QED BY <1>0, <3>1, <3>2, <4>2 DEF Young, Aged
    <3>4. k # NoPacket
      BY NameAssumption
    <3>5. Handed' /\ Window' /\ Passed'
      BY <1>2, <3>1, <3>2, <3>4 DEF Handed, Window, Passed
    <3>6. Packed'
      <4>1. Holds' = Holds /\ Owners' = Owners /\ new = NoPacket
        BY <1>2, <3>1, <3>2 DEF Holds, Owners
      <4>2. Right(Holds, Owners, dest, NoPacket, ip)
        BY <1>0, <4>1 DEF Packed
      <4>3. Right(Holds, Owners, dest', k, ip)
        BY <1>1, <1>2, <3>1, <4>2, RightCopied
      <4> QED BY <3>1, <4>1, <4>3 DEF Packed
    <3> QED BY <3>2, <3>3, <3>5, <3>6, TableKept
  <2>2. CASE ~(room /\ Unused(dest) # {})
    BY <1>3, <1>6, <2>2 DEF OutCopy
  <2> QED BY <2>1, <2>2
<1>7. CASE OutKept /\ hint' = hint
  <2>1. /\ pc = "kept" /\ pc' = IF arp[i].q = NoPacket THEN "store" ELSE "replace"
        /\ old' = arp[i].q /\ UNCHANGED <<arp, dest, i, age, ip, best, new>>
    BY <1>7 DEF OutKept, Goes
  <2>2. Typed' /\ Young'
    BY <1>0, <1>1, <1>7, <2>1 DEF Typed, Young, Aged, Records
  <2>3. Handed' /\ Window' /\ Passed'
    BY <1>0, <1>2, <2>1 DEF Handed, Window, Passed, Shape
  <2>4. Packed'
    <3>1. Holds' = Holds /\ Owners' = Owners
      BY <2>1 DEF Holds, Owners
    <3> QED BY <1>0, <2>1, <3>1 DEF Packed
  <2> QED BY <2>1, <2>2, <2>3, <2>4, TableKept
<1>8. CASE OutReplace /\ hint' = hint
  <2>1. /\ pc = "replace" /\ pc' = "store" /\ arp' = arp /\ dest' = Free(dest, old) /\ old' = NoPacket
        /\ UNCHANGED <<i, age, ip, best, new>>
    BY <1>8 DEF OutReplace, Goes
  <2>2. Typed' /\ Young'
    BY <1>0, <1>1, <1>8, <2>1 DEF Typed, Young, Aged, Free
  <2>3. Handed' /\ Window' /\ Passed'
    BY <1>0, <1>2, <2>1 DEF Shape, Handed, Window, Passed
  <2>4. /\ Holds'[i] = NoPacket /\ dest' = Free(dest, Holds[i])
        /\ \A f \in Entries \ {i} : Holds'[f] = Holds[f] /\ Owners'[f] = Owners[f]
    BY <1>0, <1>1, <2>1 DEF Holds, Owners, Shape, Window
  <2>5. Right(Holds', Owners', dest', new, ip)
    BY <1>0, <1>1, <2>4, RightDropped DEF Packed
  <2>6. Packed'
    BY <2>1, <2>5 DEF Packed
  <2> QED BY <2>1, <2>2, <2>3, <2>6, TableKept
<1>9. CASE OutStore /\ hint' = hint
  <2> DEFINE v == [arp[i] EXCEPT !.q = new]
  <2>1. /\ pc = "store" /\ pc' = "idle" /\ i' = 1 /\ ip' = NoIP /\ new' = NoPacket
        /\ UNCHANGED <<dest, age, best, old>> /\ arp' = [arp EXCEPT ![i] = v]
    BY <1>0, <1>1, <1>9 DEF OutStore, End, Typed
  <2>2. new \in Packets
    BY <1>0, <1>1, <2>1 DEF Shape, Handed
  <2>3. /\ v \in Records /\ v.state = "pending" /\ v.ip = ip /\ v.ctime = arp[i].ctime
        /\ v.card = arp[i].card /\ v.q = new
    BY <1>1, <1>2, <2>1 DEF Records
  <2> HIDE DEF v
  <2>4. \A e \in Entries : arp'[e] = IF e = i THEN v ELSE arp[e]
    BY <1>0, <2>1 DEF Typed
  <2>5. Typed'
    BY <1>0, <1>1, <1>9, <2>1, <2>3 DEF Typed
  <2>6. Young'
    BY <1>0, <2>1, <2>3, <2>4 DEF Young, Aged
  <2>7. Handed'
    BY <1>2, <2>1 DEF Handed
  <2>8. Window' /\ Passed'
    BY <2>1, PlainKnows DEF Plain
  <2>9. CardsRight' /\ Settled' /\ Distinct' /\ Awaiting'
    BY <1>0, <1>2, <2>1, <2>3, <2>4 DEF Shape, CardsRight, Settled, Distinct, Awaiting, Stable
  <2>10. Packed'
    <3>1. /\ Holds[i] = NoPacket /\ Holds'[i] = new /\ Owners[i] = ip
          /\ \A f \in Entries \ {i} : Holds'[f] = Holds[f]
      BY <1>1, <1>2, <2>1, <2>3, <2>4 DEF Holds, Owners
    <3>2. Owners' = Owners
      BY <1>2, <2>3, <2>4 DEF Owners
    <3>3. Right(Holds', Owners, dest, NoPacket, NoIP)
      BY <1>0, <1>1, <2>2, <3>1, RightStored DEF Packed
    <3> QED BY <2>1, <3>2, <3>3 DEF Packed
  <2> QED BY <2>5, <2>6, <2>7, <2>8, <2>9, <2>10 DEF IInv, Shape
<1> QED BY <1>4, <1>5, <1>6, <1>7, <1>8, <1>9

----------------------------------------------------------------------------
(* The theorems. *)

LEMMA MainKept ==
    ASSUME IInv, ~torn, Tmr \/ Out
    PROVE  IInv' /\ SentToLast'
<1>1. CASE Tmr
  <2>1. hint' = hint /\ announced' = announced /\ torn' = torn /\ sent' = Nothing
    BY <1>1 DEF Tmr
  <2>2. SentToLast'
    BY <2>1 DEF SentToLast
  <2> QED BY <1>1, <2>1, <2>2, TmrKept, FreeKept DEF Tmr
<1>2. CASE Out
  <2>1. announced' = announced /\ (~OutSearch => torn' = torn)
    BY <1>2 DEF Out, OutGoesOn, OutSearch, OutStart
  <2>2. ASSUME NEW a \in IPs, OutStart(a), sent' = Nothing PROVE IInv' /\ SentToLast'
    <3>1. torn' = torn
      BY <2>2 DEF OutStart
    <3> QED BY <2>1, <2>2, <3>1, LookKept DEF SentToLast
  <2>3. CASE OutSearch
    BY <2>1, <2>3, LookKept DEF OutSearch, SentToLast
  <2>4. CASE OutRest /\ UNCHANGED <<announced, torn>>
    <3>1. IInv'
      BY <2>4, SendKept DEF OutRest
    <3>2. pc = "rest" /\ sent' = [ip |-> ip, card |-> arp[i].card]
      BY <2>4 DEF OutRest
    <3>3. Stable(arp[i]) /\ arp[i].ip = ip /\ i \in Entries
      BY <3>2 DEF IInv, Shape, Window, SendPlaces, Typed
    <3>4. arp[i].card = announced[ip]
      BY <3>3 DEF IInv, Shape, CardsRight
    <3> QED BY <2>4, <3>1, <3>2, <3>4 DEF SentToLast
  <2>5. ASSUME \/ OutDecide
               \/ UNCHANGED hint /\
                    (\/ \E room \in BOOLEAN : OutAsks(room) \/ OutCopy(room)
                     \/ OutSend \/ OutMark \/ OutAddr \/ OutFind \/ OutMatch \/ OutOwn \/ OutPending
                     \/ OutStill \/ OutKept \/ OutReplace \/ OutStore),
               sent' = Nothing, UNCHANGED <<announced, torn>>
        PROVE  IInv' /\ SentToLast'
    <3>1. SentToLast'
      BY <2>5 DEF SentToLast
    <3>2. CASE OutDecide
      BY <2>5, <3>1, <3>2, KeepKept
    <3>3. CASE hint' = hint /\ (OutSend \/ (\E room \in BOOLEAN : OutAsks(room)) \/ OutMark \/ OutAddr)
      BY <2>5, <3>1, <3>3, SendKept
    <3>4. CASE hint' = hint /\ (OutFind \/ OutMatch)
      BY <2>5, <3>1, <3>4, FindKept
    <3>5. CASE hint' = hint /\ (OutOwn \/ OutPending)
      BY <2>5, <3>1, <3>5, OwnKept
    <3>6. CASE hint' = hint /\ (OutStill \/ (\E room \in BOOLEAN : OutCopy(room)) \/ OutKept \/ OutReplace \/ OutStore)
      BY <2>5, <3>1, <3>6, KeepKept
    <3> QED BY <2>5, <3>2, <3>3, <3>4, <3>5, <3>6
  <2> QED BY <1>2, <2>2, <2>3, <2>4, <2>5 DEF Out, OutGoesOn
<1> QED BY <1>1, <1>2

LEMMA Start == Init => IInv
<1> SUFFICES ASSUME Init PROVE IInv
  OBVIOUS
<1>1. 1 \in Entries /\ MaxAge \in Nat /\ 0 < MaxAge /\ NoCard \in AnyCard
  BY SizeAssumption, AgeAssumption DEF Entries, AnyCard
<1>2. /\ arp = [e \in Entries |-> Blank] /\ Blank \in Records
      /\ Blank.state = "empty" /\ Blank.q = NoPacket /\ Blank.ctime = 0
  BY <1>1 DEF Init, Blank, Records
<1>3. Typed
  <2>1. announced \in [IPs -> AnyCard] /\ dest \in [Packets -> IPs \cup {NoIP}]
    BY DEF Init
  <2>2. best \in Bests /\ age \in 0 .. MaxAge
    BY <1>1 DEF Init, NoBest, Bests
  <2>3. arp \in [Entries -> Records]
    BY <1>2
  <2> QED BY <1>1, <2>1, <2>2, <2>3 DEF Init, Typed, Places
<1>4. Young
  BY <1>1, <1>2 DEF Young
<1>5. Handed /\ Window /\ Passed
  BY DEF Init, Handed, Window, Passed, TmrPlaces, OutPlaces, LookPlaces, SendPlaces, FindPlaces,
         OwnPlaces, KeepPlaces, FreePlaces
<1>6. CardsRight /\ Settled /\ Distinct /\ Awaiting
  BY <1>2 DEF CardsRight, Settled, Distinct, Awaiting, Stable
<1>7. Packed
  <2>1. \A e \in Entries : Holds[e] = NoPacket
    BY <1>2 DEF Holds
  <2> QED BY <2>1 DEF Init, Packed, Right, Apart, Hers, Owned
<1> QED BY <1>3, <1>4, <1>5, <1>6, <1>7 DEF IInv, Shape

LEMMA Invariant == Spec => [](IInv /\ SentToLast)
<1>1. Init => IInv /\ SentToLast
  BY Start DEF Init, SentToLast
<1>2. ASSUME IInv, SentToLast, [Next]_vars PROVE IInv' /\ SentToLast'
  <2>1. CASE Next
    <3>1. ~torn /\ (Isr \/ Tmr \/ Out)
      BY <2>1 DEF Next
    <3>2. CASE Isr
      BY <1>2, <3>1, <3>2, ArpInputKept, IsrOutputKept DEF Isr
    <3>3. CASE Tmr \/ Out
      BY <1>2, <3>1, <3>3, MainKept
    <3> QED BY <3>1, <3>2, <3>3
  <2>2. CASE UNCHANGED vars
    <3>1. UNCHANGED <<arp, hint, dest, sent, announced, pc, i, age, ip, best, old, new, torn>>
      BY <2>2 DEF vars, main
    <3>2. Typed' /\ Young' /\ SentToLast' /\ Holds' = Holds /\ Owners' = Owners
      BY <1>2, <3>1 DEF IInv, Typed, Young, SentToLast, Holds, Owners
    <3>3. ~torn => Shape' /\ Packed'
      BY <1>2, <3>1, <3>2
         DEF IInv, Shape, Handed, Window, Passed, CardsRight, Settled, Distinct, Awaiting, Packed
    <3> QED BY <3>1, <3>2, <3>3 DEF IInv
  <2> QED BY <1>2, <2>1, <2>2
<1> QED BY <1>1, <1>2, PTL DEF Spec

\* Every variable of the table keeps its type, and no age passes ARP_MAXAGE,
\* at which the entry is given up.
THEOREM TypeCorrect == Spec => []TypeOK
<1>1. IInv => TypeOK
  BY DEF IInv, Typed, TypeOK, Records, Bests
<1> QED BY <1>1, Invariant, PTL

\* Outside of the windows of Tears the interrupt and the main loop never make
\* two entries of one address.
THEOREM NoTwoEntries == Spec => []OneEntryEach
<1>1. IInv => OneEntryEach
  BY DEF IInv, Shape, Distinct, OneEntryEach
<1> QED BY <1>1, Invariant, PTL

\* A packet is kept only by a pending entry, that of the address it goes to.
THEOREM PacketsOfPending == Spec => []KeptByPending
<1>1. IInv => KeptByPending
  <2> SUFFICES ASSUME IInv, ~torn, NEW e \in Entries, arp[e].q # NoPacket
               PROVE  arp[e].state = "pending" /\ (e \in Keeping => dest[arp[e].q] = arp[e].ip)
    BY DEF KeptByPending
  <2>1. arp[e].state = "pending"
    BY DEF IInv, Shape, Awaiting
  <2>2. ASSUME e \in Keeping PROVE dest[arp[e].q] = arp[e].ip
    <3>1. Holds[e] = arp[e].q /\ Owners[e] = arp[e].ip
      BY <2>2 DEF Keeping, Holds, Owners
    <3> QED BY <3>1 DEF IInv, Packed, Right, Apart
  <2> QED BY <2>1, <2>2
<1> QED BY <1>1, Invariant, PTL

\* No copy of a packet is lost, none is freed twice and none is used when it is
\* freed: each has exactly one owner, an entry or the hands of the main loop.
THEOREM CopiesCounted == Spec => []CopiesExact
<1>1. IInv => CopiesExact
  <2> SUFFICES ASSUME IInv, ~torn PROVE CopiesExact
    BY DEF CopiesExact
  <2>1. \A e \in Entries : /\ e \in Keeping => Holds[e] = arp[e].q /\ Holds[e] # NoPacket
                           /\ Holds[e] # NoPacket => e \in Keeping
    BY DEF Keeping, Holds
  <2>2. Right(Holds, Owners, dest, new, ip) /\ Typed
    BY DEF IInv, Packed
  <2>3. \A e, f \in Keeping : arp[e].q = arp[f].q => e = f
    BY <2>1, <2>2 DEF Right, Apart, Keeping
  <2>4. \A e \in Keeping : arp[e].q # new
    BY <2>1, <2>2 DEF Right, Apart, Keeping
  <2>5. ASSUME NEW k \in Packets, dest[k] # NoIP
        PROVE  k = new \/ \E e \in Keeping : arp[e].q = k
    <3>1. CASE k # new
      <4>1. PICK e \in Entries : Holds[e] = k
        BY <2>2, <2>5, <3>1 DEF Right, Owned
      <4> QED BY <2>1, <4>1, NameAssumption
    <3> QED BY <3>1
  <2>6. ASSUME NEW k \in Packets, k = new \/ \E e \in Keeping : arp[e].q = k
        PROVE  dest[k] # NoIP
    <3>1. CASE k = new
      BY <2>2, <3>1, NameAssumption DEF Right, Hers
    <3>2. CASE \E e \in Keeping : arp[e].q = k
      BY <2>1, <2>2, <3>2, NameAssumption DEF Right, Apart, Keeping
    <3> QED BY <2>6, <3>1, <3>2
  <2> QED BY <2>3, <2>4, <2>5, <2>6 DEF CopiesExact
<1> QED BY <1>1, Invariant, PTL

\* A packet is sent to the hardware address its host has announced last.
THEOREM RightCard == Spec => []SentToLast
BY Invariant, PTL
=============================================================================
