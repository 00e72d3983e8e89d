------------------------------- MODULE IpReass -------------------------------
(***************************************************************************)
(* IP reassembly (src/core/ipv4/ip_frag.c): ip_reass, which the Ethernet   *)
(* interrupt calls for every fragment, and ip_reass_tmr, which a timer of  *)
(* the main loop calls, over one list of struct ip_reassdata.              *)
(*                                                                         *)
(* The structures come from the pool MEMP_REASSDATA, whose list is chained *)
(* through the same word as theirs: next serves both.  The interrupt runs  *)
(* to its end between any two steps of the main loop; nothing masks it.    *)
(* A fragment is the interval of the datagram it carries; the network      *)
(* loses, repeats and reorders fragments and may cut a datagram in two     *)
(* ways.  Each is one pbuf: PBUF_POOL_BUFSIZE holds a whole frame.         *)
(*                                                                         *)
(* Once a structure that is in use is also free, or the main loop holds a  *)
(* pointer to one that has left the list, the code reads and writes freed  *)
(* memory: the model ends there (Damaged).                                 *)
(***************************************************************************)
EXTENDS Naturals, Sequences, SequencesExt, FiniteSetsExt

CONSTANTS
    Struct,    \* the structures of MEMP_REASSDATA
    Null,
    MaxPbufs,  \* IP_REASS_MAX_PBUFS
    MaxAge,    \* IP_REASS_MAXAGE
    Datagrams, \* source, destination and identification of a datagram
    Length,    \* the length of a datagram
    Frags      \* the fragments it is cut into: [from, to]

ASSUME SizeAssumption ==
    /\ IsFiniteSet(Struct) /\ Struct # {} /\ Null \notin Struct /\ MaxPbufs \in Nat \ {0} /\ MaxAge \in Nat \ {0} /\ Length \in Nat \ {0}
ASSUME FragAssumption ==
    /\ Frags \subseteq [from : 0 .. Length, to : 0 .. Length]
    /\ \A f \in Frags : f.from < f.to

N      == Cardinality(Struct)
NoFrag == [from |-> 0, to |-> 0]
Ptr    == Struct \cup {Null}

NoDatagram == "none"
ASSUME DatagramAssumption == NoDatagram \notin Datagrams

VARIABLES
    reass,   \* the lists: head (reassdatagrams), pool (memp_tab), next, the
             \* count ip_reass_pbufcount, and data, the rest of each structure:
             \* the datagram d, its fragments p, the flag last, the timer
    out,     \* what ip_reass has just returned: [d, p, by], by the fragment by
    pc,      \* where the main loop is in ip_reass_tmr
    r,       \* its r
    tmp,     \* its tmp, the structure that has timed out
    prev,    \* its prev
    freed,   \* its pbufs_freed
    read,    \* ip_reass_pbufcount, loaded and not yet stored
    touched  \* the interrupt has walked fragments the main loop has freed

main == <<pc, r, tmp, prev, freed, read>>
vars == <<reass, out, pc, r, tmp, prev, freed, read, touched>>

Unused == [d |-> NoDatagram, p |-> <<>>, last |-> FALSE, timer |-> 0]

NoOut  == [d |-> NoDatagram, p |-> <<>>, by |-> NoFrag]

\* memp_init chains the structures.
Init ==
    /\ \E order \in SetToSeqs(Struct) :
         reass = [head |-> Null, pool |-> Head(order), count |-> 0,
                  next |-> [e \in Struct |-> IF e = Last(order) THEN Null
                                             ELSE order[1 + CHOOSE i \in 1 .. N : order[i] = e]],
                  data |-> [e \in Struct |-> Unused]]
    /\ out = NoOut
    /\ pc = "idle" /\ r = Null /\ tmp = Null /\ prev = Null /\ freed = 0 /\ read = 0
    /\ touched = FALSE

----------------------------------------------------------------------------
(* The two lists of structures. *)

\* The pointers met from e on, in at most N + 1 steps.
Chain(next, e) ==
    LET at[i \in 0 .. N] == IF i = 0 THEN e
                            ELSE IF at[i - 1] = Null THEN Null ELSE next[at[i - 1]]
        n == CHOOSE k \in 0 .. N + 1 : /\ k = N + 1 \/ at[k] = Null
                                       /\ \A j \in 0 .. k - 1 : at[j] # Null
    IN  [i \in 1 .. n |-> at[i - 1]]

List(S) == Chain(S.next, S.head)
Pool(S) == Chain(S.next, S.pool)
Listed(S) == ToSet(List(S))

\* ip_reass_dequeue_datagram up to memp_free.
Unlink(S, e, before) ==
    IF S.head = e THEN [S EXCEPT !.head = S.next[e]]
    ELSE [S EXCEPT !.next[before] = S.next[e]]

\* memp_free
Release(S, e) == [S EXCEPT !.next[e] = S.pool, !.pool = e, !.data[e] = Unused]

\* ip_reass_free_complete_datagram, in the interrupt
FreeComplete(S, e, before) ==
    [Release(Unlink(S, e, before), e) EXCEPT !.count = @ - Len(S.data[e].p)]

\* The datagram ip_reass_remove_oldest_datagram frees for a fragment of d: the
\* last of those that are the oldest and not d.  It frees one pbuf at least,
\* and one is needed, so the loop ends there.
Oldest(S, d) ==
    LET L      == List(S)
        others == {i \in 1 .. Len(L) : S.data[L[i]].d # d}
        oldest == {i \in others : \A j \in others : S.data[L[i]].timer <= S.data[L[j]].timer}
    IN  IF others = {} THEN Null ELSE L[CHOOSE i \in oldest : \A j \in oldest : j <= i]

\* Variant: prev follows r to the end of the list.
BeforeEnd(S) == LET L == List(S) IN IF L = <<>> THEN Null ELSE Last(L)

\* Its prev: the structure before the last of the list, whichever is freed.
BeforeLast(S) == LET L == List(S) IN IF Len(L) < 2 THEN Null ELSE L[Len(L) - 1]

RemoveOldest(S, d) ==
    LET e == Oldest(S, d) IN IF e = Null THEN S ELSE FreeComplete(S, e, BeforeLast(S))

\* ip_reass_enqueue_new_datagram: a structure from the pool, to the front.
Enqueue(S, d) ==
    LET e == S.pool
    IN  [S EXCEPT !.pool = S.next[e], !.next[e] = S.head, !.head = e,
                  !.data[e] = [Unused EXCEPT !.d = d, !.timer = MaxAge]]

\* Variant: only the first structure of the list is looked at.
PlaceFirst(S, d) == IF S.head # Null /\ S.data[S.head].d = d THEN 1 ELSE 0

\* The place of datagram d in the list: 0 if it is not there.
Place(S, d) ==
    LET L  == List(S)
        at == {i \in 1 .. Len(L) : S.data[L[i]].d = d}
    IN  IF at = {} THEN 0 ELSE CHOOSE i \in at : \A j \in at : i <= j

----------------------------------------------------------------------------
(* The fragments p of one datagram. *)

\* ip_reass_chain_frag_into_datagram_and_validate: f goes before the first
\* fragment of p that begins behind it.  The walk to there meets the k others.
Met(p, f) ==
    CHOOSE k \in 0 .. Len(p) :
        /\ k = Len(p) \/ p[k + 1].from > f.from
        /\ \A i \in 1 .. k : p[i].from <= f.from

\* f is thrown away when it begins in another one, or, unless it becomes the
\* first, ends behind the beginning of the next.
Refused(p, f) ==
    LET k == Met(p, f)
    IN  \/ \E i \in 1 .. k : p[i].from = f.from \/ f.from < p[i].to
        \/ 0 < k /\ k < Len(p) /\ f.to > p[k + 1].from

Chained(p, f) ==
    LET k == Met(p, f) IN SubSeq(p, 1, k) \o <<f>> \o SubSeq(p, k + 1, Len(p))

\* Variant: what comes behind the new fragment is not looked at.
ValidNoTail(q, k, last) ==
    last /\ q[1].from = 0 /\ \A i \in 1 .. k - 1 : i # k - 1 \/ k = Len(q) => q[i].to = q[i + 1].from

\* Whether q, with the new fragment at k, is taken for the whole datagram: the
\* last fragment has come, q begins at 0, and there is no hole in what the
\* walk met and none from k on.  Between the two it only looks when k is last.
Valid(q, k, last) ==
    /\ last
    /\ q[1].from = 0
    /\ \A i \in 1 .. Len(q) - 1 : i # k - 1 \/ k = Len(q) => q[i].to = q[i + 1].from

----------------------------------------------------------------------------
(* Damage. *)

\* Every structure is in one of the lists, once, but for one the main loop is
\* giving back.
Sound(S) ==
    LET all == List(S) \o Pool(S)
    IN  IsInjective(all) /\ ToSet(all) = Struct \ (IF pc \in {"link", "put"} THEN {tmp} ELSE {})

\* prev is still what is before e.
PrevIs(e) == IF prev = Null THEN reass.head = e ELSE prev \in Listed(reass) /\ reass.next[prev] = e

Freeing == pc \in {"icmp", "pbufs", "dequeue"}

Damaged ==
    \/ ~Sound(reass)
    \/ touched
    \/ Freeing /\ (tmp \notin Listed(reass) \/ reass.data[tmp].timer # 0 \/ ~PrevIs(tmp))
    \/ pc # "idle" /\ r # Null /\ r \notin Listed(reass)
    \/ pc # "idle" /\ ~Freeing /\ r # Null /\ reass.data[r].timer = 0 /\ ~PrevIs(r)
    \/ pc = "put" /\ reass.next[tmp] # reass.pool
    \/ pc = "store" /\ read # reass.count

----------------------------------------------------------------------------
(* ip_reass in the Ethernet interrupt. *)

\* The list once a pbuf more may be kept, if one is freed for it.
Room(S, d) == IF S.count + 1 > MaxPbufs THEN RemoveOldest(S, d) ELSE S

\* The list with a structure for d, if there is one or one is freed.
WithStruct(S, d) ==
    IF Place(S, d) # 0 THEN S
    ELSE IF S.pool # Null THEN Enqueue(S, d)
    ELSE LET T == RemoveOldest(S, d) IN IF T.pool = Null THEN T ELSE Enqueue(T, d)

\* Fragment f is put to those of datagram d in the list S.
Add(S, d, f) ==
    LET i    == Place(S, d)
        e    == List(S)[i]
        p    == S.data[e].p
        last == S.data[e].last \/ f.to = Length
        q    == Chained(p, f)
    IN  IF Refused(p, f) THEN
            /\ reass' = [S EXCEPT !.data[e].last = last]
            /\ out' = NoOut
        ELSE IF Valid(q, Met(p, f) + 1, last) THEN
            /\ reass' = FreeComplete(S, e, IF i = 1 THEN Null ELSE List(S)[i - 1])
            /\ out' = [d |-> d, p |-> q, by |-> f]
        ELSE
            /\ reass' = [S EXCEPT !.data[e].p = q, !.data[e].last = last, !.count = @ + 1]
            /\ out' = NoOut

\* The fragment is dropped when nothing could be freed for it.
Fragment(d, f) ==
    LET S == Room(reass, d)
        T == IF S.count + 1 > MaxPbufs THEN S ELSE WithStruct(S, d)
    IN  /\ IF S.count + 1 > MaxPbufs \/ Place(T, d) = 0
           THEN reass' = T /\ out' = NoOut
           ELSE Add(T, d, f)
        /\ touched' = (pc = "dequeue" /\ reass.data[tmp].d = d)
        /\ UNCHANGED main

----------------------------------------------------------------------------
(* ip_reass_tmr in the main loop. *)

TmrStart ==
    /\ pc = "idle"
    /\ r' = reass.head /\ prev' = Null
    /\ pc' = "scan"
    /\ UNCHANGED <<reass, tmp, freed, read, touched>>

\* Variant: a timer of zero is counted down as well.
TmrAgeAny ==
    /\ pc = "scan" /\ r # Null
    /\ reass' = [reass EXCEPT !.data[r].timer = @ - 1]
    /\ prev' = r
    /\ r' = reass.next[r]
    /\ UNCHANGED <<pc, tmp, freed, read, touched>>

\* r->timer--
TmrAge ==
    /\ pc = "scan" /\ r # Null /\ reass.data[r].timer > 0
    /\ reass' = [reass EXCEPT !.data[r].timer = @ - 1]
    /\ prev' = r
    /\ r' = reass.next[r]
    /\ UNCHANGED <<pc, tmp, freed, read, touched>>

TmrExpire ==
    /\ pc = "scan" /\ r # Null /\ reass.data[r].timer = 0
    /\ tmp' = r
    /\ r' = reass.next[r]
    /\ pc' = "icmp"
    /\ UNCHANGED <<reass, prev, freed, read, touched>>

\* Variant: the fragment that leaves in the ICMP message is not counted.
TmrIcmpUncounted ==
    LET p == reass.data[tmp].p
    IN  /\ pc = "icmp"
        /\ reass' = IF p # <<>> /\ p[1].from = 0 THEN [reass EXCEPT !.data[tmp].p = Tail(p)] ELSE reass
        /\ pc' = "pbufs"
        /\ UNCHANGED <<r, tmp, prev, freed, read, touched>>

\* ip_reass_free_complete_datagram: the first fragment, if it has come, leaves
\* in an ICMP message.
TmrIcmp ==
    LET p == reass.data[tmp].p
    IN  /\ pc = "icmp"
        /\ IF p # <<>> /\ p[1].from = 0
           THEN reass' = [reass EXCEPT !.data[tmp].p = Tail(p)] /\ freed' = 1
           ELSE UNCHANGED <<reass, freed>>
        /\ pc' = "pbufs"
        /\ UNCHANGED <<r, tmp, prev, read, touched>>

\* The others are freed; ipr->p still leads to them.
TmrPbufs ==
    /\ pc = "pbufs"
    /\ freed' = freed + Len(reass.data[tmp].p)
    /\ pc' = "dequeue"
    /\ UNCHANGED <<reass, r, tmp, prev, read, touched>>

TmrDequeue ==
    /\ pc = "dequeue"
    /\ reass' = Unlink(reass, tmp, prev)
    /\ pc' = "link"
    /\ UNCHANGED <<r, tmp, prev, freed, read, touched>>

\* memp_free: memp->next = memp_tab, and memp_tab = memp
TmrLink ==
    /\ pc = "link"
    /\ reass' = [reass EXCEPT !.next[tmp] = reass.pool]
    /\ pc' = "put"
    /\ UNCHANGED <<r, tmp, prev, freed, read, touched>>

TmrPut ==
    /\ pc = "put"
    /\ reass' = Release(reass, tmp)
    /\ tmp' = Null
    /\ pc' = "load"
    /\ UNCHANGED <<r, prev, freed, read, touched>>

\* ip_reass_pbufcount -= pbufs_freed, the load and the store
TmrLoad ==
    /\ pc = "load"
    /\ read' = reass.count
    /\ pc' = "store"
    /\ UNCHANGED <<reass, r, tmp, prev, freed, touched>>

TmrStore ==
    /\ pc = "store"
    /\ reass' = [reass EXCEPT !.count = read - freed]
    /\ freed' = 0 /\ read' = 0
    /\ pc' = "scan"
    /\ UNCHANGED <<r, tmp, prev, touched>>

TmrEnd ==
    /\ pc = "scan" /\ r = Null
    /\ prev' = Null
    /\ pc' = "idle"
    /\ UNCHANGED <<reass, r, tmp, freed, read, touched>>

Tmr ==
    /\ \/ TmrStart \/ TmrAge \/ TmrExpire \/ TmrIcmp \/ TmrPbufs \/ TmrDequeue
       \/ TmrLink \/ TmrPut \/ TmrLoad \/ TmrStore \/ TmrEnd
    /\ out' = NoOut

Next == ~Damaged /\ (Tmr \/ \E d \in Datagrams, f \in Frags : Fragment(d, f))
Spec == Init /\ [][Next]_vars

----------------------------------------------------------------------------
(* Properties. *)

TypeOK ==
    /\ reass.head \in Ptr /\ reass.pool \in Ptr /\ reass.next \in [Struct -> Ptr]
    /\ reass.count \in 0 .. MaxPbufs
    /\ reass.data \in [Struct -> [d : Datagrams \cup {NoDatagram}, p : Seq(Frags),
                                  last : BOOLEAN, timer : 0 .. MaxAge]]
    /\ pc \in {"idle", "scan", "icmp", "pbufs", "dequeue", "link", "put", "load", "store"}
    /\ r \in Ptr /\ tmp \in Ptr /\ prev \in Ptr
    /\ freed \in 0 .. MaxPbufs /\ read \in 0 .. MaxPbufs /\ touched \in BOOLEAN

\* ip_reass_pbufcount is the number of pbufs that are kept, those the main
\* loop has freed and not yet counted off included: the limit neither leaks
\* nor gives way, whatever comes, completes, is refused or times out.
Pbufs(S, A) == UNION {{e} \X (1 .. Len(S.data[e].p)) : e \in A}
Kept == Pbufs(reass, Listed(reass) \ (IF pc = "dequeue" THEN {tmp} ELSE {}))
CountExact == ~Damaged => reass.count = Cardinality(Kept) + freed

\* A datagram has one structure, whatever was removed to make room for it.
OneStructEach ==
    ~Damaged => \A e, f \in Listed(reass) : reass.data[e].d = reass.data[f].d => e = f

\* What ip_reass returns starts with the first fragment and has no hole,
\* except where the code does not look: right before the fragment that came
\* last.  Its end is missing only if the last fragment was refused because
\* the network had cut the datagram in another way, too.
OutOrdered ==
    ~Damaged /\ out.p # <<>> =>
        /\ Head(out.p).from = 0
        /\ \A i \in 1 .. Len(out.p) - 1 :
             \/ out.p[i].to = out.p[i + 1].from
             \/ out.p[i + 1] = out.by /\ out.p[i].to < out.by.from
        /\ \/ Last(out.p).to = Length
           \/ \E f \in Frags : /\ f.to = Length
                               /\ \E i \in 1 .. Len(out.p) : f.from < out.p[i].to

\* ip_frag.c:568 "the totally last fragment (flag more fragments = 0) was
\* received at least once AND all fragments are received".
OutWhole ==
    out.p # <<>> =>
        /\ Head(out.p).from = 0 /\ Last(out.p).to = Length
        /\ \A i \in 1 .. Len(out.p) - 1 : out.p[i].to = out.p[i + 1].from

\* Memory is damaged only by a fragment that comes while ip_reass_tmr is at
\* work, or one that finds the limit reached and its own datagram the oldest
\* of three or more: its datagram is lost, and the one before it in the list
\* freed and left in the list.
DamageBounded ==
    [][\/ pc # "idle" /\ UNCHANGED main
       \/ Damaged' => LET L == List(reass)
                      IN  /\ pc = "idle" /\ UNCHANGED main
                          /\ Len(L) >= 3 /\ reass.count = MaxPbufs
                          /\ Last(L) \notin Listed(reass')]_vars

=============================================================================
