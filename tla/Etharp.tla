------------------------------- MODULE Etharp -------------------------------
(***************************************************************************)
(* The ARP table (src/netif/etharp.c): what etharp_arp_input learns, the   *)
(* packet an entry keeps until its address is known, and the ages that     *)
(* etharp_tmr counts.  ARP_QUEUEING is 0: an entry keeps one packet.       *)
(*                                                                         *)
(* The Ethernet interrupt runs etharp_arp_input and, for the replies of    *)
(* the stack, etharp_output; each runs to its end.  The main loop runs     *)
(* etharp_tmr and, for ICMP messages of ip_reass_tmr and for ping,         *)
(* etharp_output, and is interrupted anywhere: nothing masks the interrupt *)
(* and every test, load and store of an entry is a step, except that       *)
(*  - etharp_find_entry reads q and ctime of an entry in one step with the *)
(*    test of its address (interrupted there it may give up another entry  *)
(*    than the oldest; no property depends on which),                      *)
(*  - the fields of an entry that is empty are written in one step, and    *)
(*    etharp_tmr loads ctime with the test that its entry is not empty,    *)
(*  - etharp_cached_entry is stored with the test before it,               *)
(*  - pbuf_alloc with pbuf_copy, pbuf_free and etharp_request are a step.  *)
(*                                                                         *)
(* In some windows an interrupt that changes what the main loop has read   *)
(* and goes on to use leaves a mix of the two.  Tears lists these windows, *)
(* and OutHintIp and OutScanIp see for themselves; the model ends there    *)
(* (torn), and the properties say that an interrupt anywhere else does no  *)
(* harm.                                                                   *)
(***************************************************************************)
EXTENDS Naturals

CONSTANTS
    Size,       \* ARP_TABLE_SIZE
    IPs,        \* addresses on the local network
    Cards,      \* Cards[a]: the hardware addresses the host a may come to have
    Packets,    \* the pbufs packets are copied to
    MaxAge,     \* ARP_MAXAGE
    Rerequest,  \* ARP_AGE_REREQUEST_USED
    MaxPending  \* ARP_MAXPENDING

NoIP     == "none"
NoCard   == "none"
NoPacket == "none"

ASSUME SizeAssumption == Size \in Nat \ {0}
ASSUME AgeAssumption ==
    /\ MaxAge \in Nat /\ Rerequest \in 1 .. MaxAge - 1 /\ MaxPending \in 2 .. MaxAge
ASSUME NameAssumption ==
    NoIP \notin IPs /\ NoPacket \notin Packets /\ \A a \in IPs : NoCard \notin Cards[a]

Entries == 1 .. Size
AnyCard == (UNION {Cards[a] : a \in IPs}) \cup {NoCard}

VARIABLES
    arp,       \* arp_table: [state, ip, card, q, ctime], q the packet kept
    hint,      \* etharp_cached_entry
    dest,      \* where each packet goes, NoIP when it is free
    sent,      \* the packet just sent: [ip, card]
    announced, \* the hardware address each host has, and has announced if it changed
    pc,        \* where the main loop is
    i,         \* the entry it is at
    age,       \* ctime + 1, loaded and not yet stored
    ip,        \* where the packet goes that the main loop sends
    best,      \* what etharp_find_entry would give up: [e, rank, ctime], and the
               \* state of the entry it is at
    old,       \* the packet about to be freed
    new,       \* the copy about to be kept
    torn       \* the interrupt has got into one of the windows of Tears

main == <<pc, i, age, ip, best, old, new>>
vars == <<arp, hint, dest, sent, announced, main, torn>>

Blank   == [state |-> "empty", ip |-> NoIP, card |-> NoCard, q |-> NoPacket, ctime |-> 0]
Nothing == [ip |-> NoIP, card |-> NoCard]
NoBest  == [e |-> 1, rank |-> 0, ctime |-> 0, state |-> "empty"]

Init ==
    /\ arp = [e \in Entries |-> Blank]
    /\ hint = 1
    /\ dest = [k \in Packets |-> NoIP]
    /\ sent = Nothing
    /\ announced \in {f \in [IPs -> AnyCard] : \A a \in IPs : f[a] \in Cards[a]}
    /\ pc = "idle" /\ i = 1 /\ age = 0 /\ ip = NoIP /\ best = NoBest
    /\ old = NoPacket /\ new = NoPacket
    /\ torn = FALSE

----------------------------------------------------------------------------
(* pbuf_alloc, pbuf_free and etharp_find_entry *)

Unused(d)  == {k \in Packets : d[k] = NoIP}
Free(d, q) == IF q = NoPacket THEN d ELSE [d EXCEPT ![q] = NoIP]

Stable(x)   == x.state \in {"stable", "rerequesting"}
First(S)    == CHOOSE e \in S : \A f \in S : e <= f
\* Variant: only stable entries are compared.
MatchingStable(a) == {e \in Entries : Stable(arp[e]) /\ arp[e].ip = a}

Matching(a) == {e \in Entries : arp[e].state # "empty" /\ arp[e].ip = a}

\* The last of those with the greatest ctime.
Oldest(S) ==
    CHOOSE e \in S : \A f \in S : arp[f].ctime < arp[e].ctime \/ (arp[f].ctime = arp[e].ctime /\ f <= e)

\* The entry that is given up: an empty one, or the oldest stable one, or the
\* oldest pending one, without a packet if there is any.
Victim ==
    LET empty   == {e \in Entries : arp[e].state = "empty"}
        stable  == {e \in Entries : Stable(arp[e])}
        pending == {e \in Entries : arp[e].state = "pending" /\ arp[e].q = NoPacket}
    IN  IF empty # {} THEN First(empty)
        ELSE IF stable # {} THEN Oldest(stable)
        ELSE IF pending # {} THEN Oldest(pending)
        ELSE Oldest(Entries)

Entry(a) == IF Matching(a) # {} THEN First(Matching(a)) ELSE Victim

\* Variant: an entry that is found is young again.
FoundYoung(e, a) ==
    [(IF e \in Matching(a) THEN arp[e] ELSE [Blank EXCEPT !.ip = a]) EXCEPT !.ctime = 0]

\* What etharp_find_entry makes of entry e for a; etharp_free_entry frees the
\* packet of the one that is given up.
Found(e, a) == IF e \in Matching(a) THEN arp[e] ELSE [Blank EXCEPT !.ip = a]

Dropped(e, a) == IF e \in Matching(a) THEN NoPacket ELSE arp[e].q

----------------------------------------------------------------------------
(* The Ethernet interrupt. *)

Occupied(x, a) == x.state # "empty" /\ x.ip = a

\* What the interrupt makes of the table is not what the main loop has read:
Tears(table) ==
    \* the entry it is about to empty has got a packet, and the one it takes for
    \* empty, or is about to make stable, another owner;
    \/ pc = "empty" /\ table[i].q # NoPacket
    \/ pc \in {"wipe", "own", "pending"} /\ table[i] # arp[i]
    \/ pc \in {"find", "match"} /\ best.rank = 4 /\ table[best.e].state # "empty"
    \/ pc = "restable" /\ table[i].state = "pending"
    \* the packet it is about to free or has just freed is freed or replaced;
    \/ pc \in {"drop", "replace"} /\ table[i].q # arp[i].q
    \/ pc \in {"clear", "store"} /\ table[i] # arp[i]
    \* the entry that is to keep its packet is stable or belongs to another;
    \/ pc \in {"copy", "kept", "replace", "store"} /\ (table[i].state # "pending" \/ table[i].ip # ip)
    \* the entry it has found belongs to another, or its card is half copied;
    \/ pc \in {"send", "asks", "mark", "addr", "rest", "decide", "still"} /\ table[i].ip # ip
    \/ pc = "rest" /\ table[i].card # arp[i].card
    \* the entry it has not found, and is about to make, exists.
    \/ pc \in {"find", "match"} /\ \E e \in 1 .. i - 1 : Occupied(table[e], ip)
    \/ pc \in {"free", "drop", "clear", "empty", "wipe", "own", "pending"} /\ ip # NoIP
         /\ \E e \in Entries \ {i} : Occupied(table[e], ip)

\* Variant: the packet that is sent stays with the entry.
ArpInputKeeps(a, card, for_us) ==
    LET e == Entry(a)
        x == Found(e, a)
    IN  /\ announced' = [announced EXCEPT ![a] = card]
        /\ IF ~for_us /\ Matching(a) = {} THEN
                sent' = Nothing /\ UNCHANGED <<arp, dest, torn>>
           ELSE
             /\ arp' = [arp EXCEPT ![e] = [x EXCEPT !.state = "stable", !.card = card, !.ctime = 0]]
             /\ sent' = IF x.q = NoPacket THEN Nothing ELSE [ip |-> dest[x.q], card |-> card]
             /\ dest' = Free(dest, Dropped(e, a))
             /\ torn' = Tears(arp')
        /\ UNCHANGED <<hint, main>>

\* etharp_arp_input: a request or a reply from a, who has the given card.
\* One that is not for us changes an entry but makes none.
ArpInput(a, card, for_us) ==
    LET e == Entry(a)
        x == Found(e, a)
    IN  /\ announced' = [announced EXCEPT ![a] = card]
        /\ IF ~for_us /\ Matching(a) = {} THEN
                sent' = Nothing /\ UNCHANGED <<arp, dest, torn>>
           ELSE
             /\ arp' = [arp EXCEPT ![e] =
                          [x EXCEPT !.state = "stable", !.card = card, !.ctime = 0, !.q = NoPacket]]
             /\ sent' = IF x.q = NoPacket THEN Nothing ELSE [ip |-> dest[x.q], card |-> card]
             /\ dest' = Free(Free(dest, Dropped(e, a)), x.q)
             /\ torn' = Tears(arp')
        /\ UNCHANGED <<hint, main>>

\* The stable entry etharp_output finds, the one it found last first.
StableFor(a) == {e \in Matching(a) : Stable(arp[e])}
Lookup(a) == IF hint \in StableFor(a) THEN hint ELSE First(StableFor(a))

\* etharp_output_to_arp_index asks again for an entry that will expire soon.
AsksAgain(x) == x.state = "stable" /\ x.ctime >= Rerequest

\* etharp_output in the interrupt; room: there is memory for the request or
\* for the copy, which is made before the packet kept so far is freed.
IsrOutput(a, room) ==
    /\ IF StableFor(a) # {} THEN
         LET e == Lookup(a)
         IN  /\ hint' = e
             /\ arp' = [arp EXCEPT ![e].state =
                          IF AsksAgain(arp[e]) /\ room THEN "rerequesting" ELSE @]
             /\ sent' = [ip |-> a, card |-> arp[e].card]
             /\ UNCHANGED dest
       ELSE
         LET e == Entry(a)
             x == [Found(e, a) EXCEPT !.state = "pending"]
             d == Free(dest, Dropped(e, a))
             k == CHOOSE k \in Unused(d) : TRUE
         IN  /\ IF room /\ Unused(d) # {}
                THEN /\ arp' = [arp EXCEPT ![e] = [x EXCEPT !.q = k]]
                     /\ dest' = Free([d EXCEPT ![k] = a], x.q)
                ELSE /\ arp' = [arp EXCEPT ![e] = x]
                     /\ dest' = d
             /\ sent' = Nothing
             /\ UNCHANGED hint
    /\ torn' = Tears(arp')
    /\ UNCHANGED <<announced, main>>

Isr ==
    \E a \in IPs :
        \/ \E card \in Cards[a], for_us \in BOOLEAN : ArpInput(a, card, for_us)
        \/ \E room \in BOOLEAN : IsrOutput(a, room)

----------------------------------------------------------------------------
(* etharp_tmr in the main loop. *)

\* A step that reads, and what other steps leave alone.
Goes(from, to) == pc = from /\ pc' = to
Reads  == UNCHANGED <<arp, dest, i, age, ip, best, old, new>>
Writes == UNCHANGED <<dest, i, age, ip, best, old, new>>

\* The for loop goes on to the next entry.
Advance ==
    /\ pc' = IF i = Size THEN "idle" ELSE "load"
    /\ i' = IF i = Size THEN 1 ELSE i + 1
    /\ UNCHANGED <<dest, age, ip, best, old, new>>

TmrStart == Goes("idle", "load") /\ Reads

TmrLoad ==
    /\ pc = "load"
    /\ UNCHANGED arp
    /\ IF arp[i].state = "empty" THEN Advance
       ELSE age' = arp[i].ctime + 1 /\ pc' = "age" /\ UNCHANGED <<dest, i, ip, best, old, new>>

TmrAge ==
    /\ Goes("age", "test")
    /\ arp' = [arp EXCEPT ![i].ctime = age]
    /\ age' = 0
    /\ UNCHANGED <<dest, i, ip, best, old, new>>

\* Variant: only pending entries are given up.
TmrTestNone == Goes("test", "young") /\ Reads

TmrTest == Goes("test", IF arp[i].ctime >= MaxAge THEN "free" ELSE "young") /\ Reads

TmrYoung  == Goes("young", IF arp[i].state = "pending" THEN "waited" ELSE "asked") /\ Reads
TmrWaited == Goes("waited", IF arp[i].ctime >= MaxPending THEN "free" ELSE "asked") /\ Reads

TmrAsked ==
    /\ pc = "asked"
    /\ IF arp[i].state = "rerequesting" THEN pc' = "restable" /\ Reads ELSE Advance /\ UNCHANGED arp

\* The next packet sent asks again.
TmrRestable ==
    /\ pc = "restable"
    /\ arp' = [arp EXCEPT ![i].state = "stable"]
    /\ Advance

(* etharp_free_entry, called by etharp_tmr and, when a packet goes to ip, by *)
(* etharp_find_entry.                                                        *)

FreeLoad ==
    /\ Goes("free", IF arp[i].q = NoPacket THEN "empty" ELSE "drop")
    /\ old' = arp[i].q
    /\ UNCHANGED <<arp, dest, i, age, ip, best, new>>

FreeDrop ==
    /\ Goes("drop", "clear")
    /\ dest' = Free(dest, old) /\ old' = NoPacket
    /\ UNCHANGED <<arp, i, age, ip, best, new>>

FreeClear == Goes("clear", "empty") /\ arp' = [arp EXCEPT ![i].q = NoPacket] /\ Writes
FreeEmpty == Goes("empty", "wipe") /\ arp' = [arp EXCEPT ![i].state = "empty"] /\ Writes

FreeWipe ==
    /\ pc = "wipe"
    /\ arp' = [arp EXCEPT ![i].ctime = 0, ![i].ip = NoIP, ![i].card = NoCard]
    /\ IF ip = NoIP THEN Advance ELSE pc' = "own" /\ Writes

FreeEntry == FreeLoad \/ FreeDrop \/ FreeClear \/ FreeEmpty \/ FreeWipe

Tmr ==
    /\ TmrStart \/ TmrLoad \/ TmrAge \/ TmrTest \/ TmrYoung \/ TmrWaited \/ TmrAsked \/ TmrRestable \/ FreeEntry
    /\ sent' = Nothing
    /\ UNCHANGED <<hint, announced, torn>>

----------------------------------------------------------------------------
(* etharp_output in the main loop: the search for a stable entry. *)

\* The entry found last comes first.
OutStart(a) ==
    /\ Goes("idle", "hint")
    /\ ip' = a /\ i' = hint
    /\ UNCHANGED <<arp, hint, dest, age, best, old, new, torn>>

Scan == pc' = "scan" /\ i' = 1
ScanOn == IF i < Size THEN pc' = "scan" /\ i' = i + 1 ELSE pc' = "find" /\ i' = 1

OutHint ==
    /\ pc = "hint"
    /\ IF Stable(arp[i]) THEN pc' = "hintip" /\ UNCHANGED i ELSE Scan
    /\ UNCHANGED <<arp, hint, dest, age, ip, best, old, new, torn>>

\* Variant: the address of the entry found last is not compared.
OutHintIpNot ==
    /\ Goes("hintip", "send")
    /\ UNCHANGED <<arp, hint, dest, i, age, ip, best, old, new, torn>>

\* Its address is read after its state: it may have been given up since.
OutHintIp ==
    /\ pc = "hintip"
    /\ IF arp[i].ip = ip THEN pc' = "send" /\ torn' = ~Stable(arp[i]) /\ UNCHANGED i
       ELSE Scan /\ UNCHANGED torn
    /\ UNCHANGED <<arp, hint, dest, age, ip, best, old, new>>

OutScan ==
    /\ pc = "scan"
    /\ IF Stable(arp[i]) THEN pc' = "scanip" /\ UNCHANGED i ELSE ScanOn
    /\ UNCHANGED <<arp, hint, dest, age, ip, best, old, new, torn>>

OutScanIp ==
    /\ pc = "scanip"
    /\ IF arp[i].ip = ip THEN hint' = i /\ pc' = "send" /\ torn' = ~Stable(arp[i]) /\ UNCHANGED i
       ELSE ScanOn /\ UNCHANGED <<hint, torn>>
    /\ UNCHANGED <<arp, dest, age, ip, best, old, new>>

OutSearch == (OutHint \/ OutHintIp \/ OutScan \/ OutScanIp) /\ sent' = Nothing /\ UNCHANGED announced

----------------------------------------------------------------------------
(* etharp_output_to_arp_index and etharp_send_ip. *)

\* etharp_output is left.
End == pc' = "idle" /\ i' = 1 /\ ip' = NoIP

OutSend  == Goes("send", IF arp[i].state = "stable" THEN "asks" ELSE "addr") /\ Reads

\* The request is sent, or needs not to be.
OutAsks(room) == Goes("asks", IF arp[i].ctime >= Rerequest /\ room THEN "mark" ELSE "addr") /\ Reads
OutMark == Goes("mark", "addr") /\ arp' = [arp EXCEPT ![i].state = "rerequesting"] /\ Writes

\* The hardware address is copied, the first bytes and the rest.
OutAddr == Goes("addr", "rest") /\ Reads
OutRest ==
    /\ pc = "rest"
    /\ End
    /\ sent' = [ip |-> ip, card |-> arp[i].card]
    /\ UNCHANGED <<arp, hint, dest, age, best, old, new>>

----------------------------------------------------------------------------
(* etharp_query: etharp_find_entry looks for an entry of any state. *)

Rank(s, q) ==
    CASE s = "empty" -> 4
      [] s \in {"stable", "rerequesting"} -> 3
      [] s = "pending" /\ q = NoPacket -> 2
      [] OTHER -> 1

\* Entry i, of the state s it had, compared with the best so far: the first
\* that is empty, and else the last of the oldest of its rank.
Consider(s) ==
    LET x == arp[i]
        r == Rank(s, x.q)
    IN  IF r > best.rank \/ (r = best.rank /\ r # 4 /\ x.ctime >= best.ctime)
        THEN [e |-> i, rank |-> r, ctime |-> x.ctime, state |-> "empty"] ELSE [best EXCEPT !.state = "empty"]

\* The search goes on, or the best entry is given up, unless it is empty.
FindOn(s) ==
    IF i < Size THEN pc' = "find" /\ i' = i + 1 /\ best' = Consider(s)
    ELSE /\ pc' = IF Consider(s).rank = 4 THEN "own" ELSE "free"
         /\ i' = Consider(s).e
         /\ best' = NoBest

OutFind ==
    /\ pc = "find"
    /\ IF arp[i].state = "empty" THEN FindOn("empty")
       ELSE pc' = "match" /\ best' = [best EXCEPT !.state = arp[i].state] /\ UNCHANGED i
    /\ UNCHANGED <<arp, dest, age, ip, old, new>>

OutMatch ==
    /\ pc = "match"
    /\ IF arp[i].ip = ip THEN pc' = "decide" /\ best' = NoBest /\ UNCHANGED i ELSE FindOn(best.state)
    /\ UNCHANGED <<arp, dest, age, ip, old, new>>

\* The entry is ip's, and pending; the request is sent.
OutOwn     == Goes("own", "pending") /\ arp' = [arp EXCEPT ![i].ip = ip, ![i].ctime = 0] /\ Writes
OutPending == Goes("pending", "decide") /\ arp' = [arp EXCEPT ![i].state = "pending"] /\ Writes

\* An answer may have come since.
OutDecide ==
    /\ Goes("decide", IF Stable(arp[i]) THEN "addr" ELSE "still")
    /\ hint' = IF Stable(arp[i]) THEN i ELSE hint
    /\ Reads

\* Only a pending entry keeps the packet,
OutStill ==
    /\ pc = "still"
    /\ IF arp[i].state = "pending" THEN pc' = "copy" /\ UNCHANGED <<i, ip>> ELSE End
    /\ UNCHANGED <<arp, dest, age, best, old, new>>

\* which is copied, if there is memory;
OutCopy(room) ==
    /\ pc = "copy"
    /\ IF room /\ Unused(dest) # {}
       THEN LET k == CHOOSE k \in Unused(dest) : TRUE
            IN  dest' = [dest EXCEPT ![k] = ip] /\ new' = k /\ pc' = "kept" /\ UNCHANGED <<i, ip>>
       ELSE End /\ UNCHANGED <<dest, new>>
    /\ UNCHANGED <<arp, age, best, old>>

\* Variant: the packet kept before is not freed.
OutKeptNone ==
    /\ Goes("kept", "store")
    /\ UNCHANGED <<arp, dest, i, age, ip, best, old, new>>

\* the one kept before is freed,
OutKept ==
    /\ Goes("kept", IF arp[i].q = NoPacket THEN "store" ELSE "replace")
    /\ old' = arp[i].q
    /\ UNCHANGED <<arp, dest, i, age, ip, best, new>>

OutReplace ==
    /\ Goes("replace", "store")
    /\ dest' = Free(dest, old) /\ old' = NoPacket
    /\ UNCHANGED <<arp, i, age, ip, best, new>>

OutStore ==
    /\ pc = "store"
    /\ arp' = [arp EXCEPT ![i].q = new] /\ new' = NoPacket
    /\ End
    /\ UNCHANGED <<dest, age, best, old>>

OutGoesOn ==
    \/ OutSearch
    \/ OutRest /\ UNCHANGED <<announced, torn>>
    \/ /\ OutDecide \/ (UNCHANGED hint /\
              (\/ \E room \in BOOLEAN : OutAsks(room) \/ OutCopy(room)
               \/ OutSend \/ OutMark \/ OutAddr \/ OutFind \/ OutMatch \/ OutOwn \/ OutPending
               \/ OutStill \/ OutKept \/ OutReplace \/ OutStore))
       /\ sent' = Nothing
       /\ UNCHANGED <<announced, torn>>

Out == OutGoesOn \/ \E a \in IPs : OutStart(a) /\ sent' = Nothing /\ UNCHANGED announced

Next == ~torn /\ (Isr \/ Tmr \/ Out)
Spec == Init /\ [][Next]_vars

\* The main loop goes on with what it does, and calls etharp_tmr again and
\* again: KeepsFiring of Timeouts.
FairSpec == Spec /\ WF_vars(~torn /\ (Tmr \/ OutGoesOn)) /\ SF_vars(~torn /\ TmrStart /\ Tmr)

----------------------------------------------------------------------------
(* Properties. *)

TypeOK ==
    /\ arp \in [Entries -> [state : {"empty", "pending", "stable", "rerequesting"}, ip : IPs \cup {NoIP},
                            card : AnyCard, q : Packets \cup {NoPacket}, ctime : 0 .. MaxAge]]
    /\ dest \in [Packets -> IPs \cup {NoIP}]
    /\ hint \in Entries /\ i \in Entries
    /\ announced \in [IPs -> AnyCard]
    /\ age \in 0 .. MaxAge /\ ip \in IPs \cup {NoIP} /\ torn \in BOOLEAN
    /\ best \in [e : Entries, rank : 0 .. 4, ctime : 0 .. MaxAge,
                 state : {"empty", "pending", "stable", "rerequesting"}]
    /\ old \in Packets \cup {NoPacket} /\ new \in Packets \cup {NoPacket}

\* Outside of the windows of Tears the interrupt and the main loop never make
\* two entries of one address.
OneEntryEach ==
    ~torn => \A e, f \in Entries :
        arp[e].state # "empty" /\ arp[f].state # "empty" /\ arp[e].ip = arp[f].ip => e = f

\* The entries that have a packet, but for the one whose packet the main loop
\* has freed and not yet overwritten.
Keeping == {e \in Entries : arp[e].q # NoPacket /\ ~(pc \in {"clear", "store"} /\ e = i)}

\* etharp.c:368 "no queued packets should exist on stable entries": a packet is
\* kept only by a pending entry, and by that of the address it goes to.
KeptByPending ==
    ~torn => \A e \in Entries :
        arp[e].q # NoPacket =>
            arp[e].state = "pending" /\ (e \in Keeping => dest[arp[e].q] = arp[e].ip)

\* Every copy of a packet is with one entry or in the hands of the main loop,
\* and with no more than one: none is lost, none freed twice and none used when
\* it is freed, whether it is sent, replaced, given up with its entry or too old.
CopiesExact ==
    ~torn =>
        /\ \A e, f \in Keeping : arp[e].q = arp[f].q => e = f
        /\ \A e \in Keeping : arp[e].q # new
        /\ \A k \in Packets : dest[k] # NoIP <=> k = new \/ \E e \in Keeping : arp[e].q = k

\* A packet is sent to the hardware address its host has announced last.
SentToLast == ~torn /\ sent # Nothing => sent.card = announced[sent.ip]

\* An entry does not keep packets for an address for ever: the answer comes,
\* the entry is given up, or etharp_tmr gives the packet up; that later
\* packets for the address replace it does not put that off.
KeepsFor(e, a) == arp[e].q # NoPacket /\ arp[e].ip = a
WaitEnds == \A e \in Entries, a \in IPs : []<>(~KeepsFor(e, a) \/ torn)

=============================================================================
