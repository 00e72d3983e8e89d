-------------------------- MODULE EchoServerProofs --------------------------
(***************************************************************************)
(* What a connection of the TCP echo server keeps true for any pbufs, send *)
(* buffer and window, however poll and the Ethernet interrupt interleave.  *)
(***************************************************************************)
EXTENDS EchoServer, Sums, SequenceTheorems, TLAPS

Typed ==
    /\ rcvd \in 0 .. Len(Lens) /\ p \in 0 .. rcvd
    /\ refs \in [Pbufs -> Int] /\ waited \subseteq 1 .. rcvd
    /\ echoed \in Seq(Nat)
    /\ pc \in [Contexts -> Labels] /\ ptr \in [Contexts -> Nat]
    /\ hooked \in BOOLEAN /\ fin \in BOOLEAN

\* Somebody has sent es->p and not yet stored the next one.
SentP == \E c \in Contexts : pc[c] \in {"next", "store"}

\* The pbufs given to tcp_write are the first ones, up to es->p.
Order ==
    /\ Len(echoed) = IF p = 0 THEN rcvd ELSE IF SentP THEN p ELSE p - 1
    /\ \A n \in 1 .. Len(echoed) : echoed[n] = n

\* Who sends, sends es->p, and only one has sent it.
Senders ==
    /\ \A c \in Contexts : pc[c] \in Sending => ptr[c] = p /\ p # 0
    /\ ~(pc["isr"] \in {"next", "store"} /\ pc["main"] \in {"next", "store"})

\* Who has sent a pbuf has es->p behind it: the next of the chain, or what has
\* come since.  When both have, the interrupt's is not of poll's chain.
Leavers ==
    /\ \A c \in Contexts : pc[c] \in Leaving \cup {"recved", "window"} => ptr[c] \in 1 .. rcvd
    /\ \A c \in Contexts : pc[c] \in Leaving =>
          IF ptr[c] \in linked THEN p = ptr[c] + 1 ELSE p = 0 \/ p > ptr[c]
    /\ \A c \in Contexts : pc[c] = "count" => ptr[c] \in linked
    /\ pc["main"] \in Leaving /\ pc["isr"] \in Leaving =>
          ptr["main"] \notin linked /\ ptr["main"] < ptr["isr"]

\* The chain es->p reaches to the last pbuf that came.
Links ==
    /\ p # 0 => \A n \in p .. (rcvd - 1) : n \in linked
    /\ \A n \in linked : n \in 1 .. (rcvd - 1)

\* es->p has its own reference beside that of the pbuf before it.
Taken == \E c \in Contexts : pc[c] = "free" /\ ptr[c] \in linked

LeftBy(n) == \E c \in Contexts : pc[c] \in Leaving /\ ptr[c] = n

\* What is to be sent is referenced, once if it came first, and es->p twice for
\* a moment; so is what has been sent until it is freed.  What follows a pbuf
\* that had to wait had to wait.
Counts ==
    /\ p # 0 => \A n \in p .. rcvd :
          LET count == IF n = p /\ Taken THEN 2 ELSE 1
          IN  refs[n] >= count /\ (n \notin waited => refs[n] = count)
    /\ \A n \in linked : n \in waited => n + 1 \in waited
    /\ \A n \in 1 .. (IF p = 0 THEN rcvd ELSE p - 1) :
          n \notin waited => refs[n] = IF LeftBy(n) THEN 1 ELSE 0
    /\ \A c \in Contexts : pc[c] \in Leaving => refs[ptr[c]] >= 1

\* es and the callbacks are there as long as the connection is.
Life ==
    /\ pcb # "open" => ~hooked /\ \A c \in Contexts : pc[c] = "idle"
    /\ pcb = "open" => es = "allocated" /\ (hooked \/ \E c \in Contexts : pc[c] = "unhook")
    /\ \A c \in Contexts : pc[c] = "unhook" => ~hooked
    /\ \A c \in Contexts : pc[c] \in {"close", "unhook"} => fin /\ p = 0
    /\ state = "closing" => fin
    /\ pcb \in {"closed", "stranded"} => fin /\ p = 0

Shape == Typed /\ Order /\ Senders /\ Leavers /\ Links /\ Counts
Good == Shape /\ Life
IInv == ~torn => Good

----------------------------------------------------------------------------
(* pbuf_free. *)

LEMMA PbufsAre == Pbufs = 1 .. Len(Lens) /\ Len(Lens) \in Nat
BY LensAssumption DEF Pbufs

LEMMA Basics ==
    ASSUME Shape
    PROVE  /\ rcvd \in Nat /\ p \in Nat /\ p <= rcvd /\ rcvd <= Len(Lens)
           /\ \A n \in 1 .. rcvd : n \in Pbufs /\ refs[n] \in Int
           /\ refs \in [Pbufs -> Int]
BY PbufsAre DEF Shape, Typed

\* The chain that begins with es->p is all that is to be sent.
LEMMA ChainIs ==
    ASSUME Shape, p # 0
    PROVE  Chain(p) = p .. rcvd
<1>1. \A r \in p .. rcvd : p .. (r - 1) \subseteq linked
  BY DEF Shape, Typed, Links
<1> QED BY <1>1 DEF Chain, Shape, Typed

LEMMA FollowingIs ==
    ASSUME Shape, p # 0
    PROVE  Following(p) = IF p < rcvd THEN p + 1 ELSE 0
<1>1. p \in linked <=> p < rcvd
  BY DEF Shape, Typed, Links
<1> QED BY <1>1 DEF Following, Shape, Typed

\* es->p is in the chain of the pbuf before it.
LEMMA NextInChain ==
    ASSUME Shape, NEW x \in 1 .. rcvd, x \in linked
    PROVE  x + 1 \in Chain(x)
<1>1. x \in Nat /\ x # 0 /\ x + 1 \in x .. rcvd /\ x .. (x + 1 - 1) = {x}
  BY Basics DEF Shape, Links
<1> QED BY <1>1 DEF Chain

\* pbuf_free(x) of a pbuf that has been sent: the count of no pbuf changes but its
\* own and that of es->p, which loses the reference of the link when x goes.
LEMMA FreedOne ==
    ASSUME Shape, NEW c \in Contexts, pc[c] = "free", NEW x, x = ptr[c]
    PROVE  /\ AfterFree(refs, x) \in [Pbufs -> Int]
           /\ AfterFree(refs, x)[x] = refs[x] - 1
           /\ \A n \in Pbufs : n # x /\ ~(x \in linked /\ n = p) => AfterFree(refs, x)[n] = refs[n]
           /\ x \in linked => AfterFree(refs, x)[p] = IF refs[x] = 1 THEN refs[p] - 1 ELSE refs[p]
<1> DEFINE down == {r \in Chain(x) : \A s \in x .. (r - 1) : refs[s] = 1}
<1>1. /\ x \in 1 .. rcvd /\ x \in Nat /\ x # 0 /\ rcvd \in Nat /\ x <= rcvd /\ x \in Pbufs
      /\ refs \in [Pbufs -> Int] /\ \A n \in x .. rcvd : n \in Pbufs
  <2>1. x \in 1 .. rcvd BY DEF Shape, Leavers, Leaving
  <2> QED BY <2>1, Basics
<1>2. x \in linked => p = x + 1 /\ p <= rcvd
  BY <1>1, Basics DEF Shape, Leavers, Leaving
<1>3. Chain(x) \subseteq x .. rcvd /\ x \in Chain(x)
  BY <1>1 DEF Chain
<1>4. x \in down BY <1>1, <1>3
<1>5. x \notin linked => Chain(x) = {x}
  <2> SUFFICES ASSUME x \notin linked, NEW r \in Chain(x), r # x PROVE FALSE
    BY <1>3
  <2>1. x \in x .. (r - 1) BY <1>1, <1>3
  <2> QED BY <1>1, <2>1 DEF Chain
<1>6. x \in linked => (p \in down <=> refs[x] = 1)
  <2> SUFFICES ASSUME x \in linked PROVE p \in down <=> refs[x] = 1
    OBVIOUS
  <2>1. x .. (p - 1) = {x} /\ p \in Chain(x)
    BY <1>1, <1>2, NextInChain
  <2> QED BY <2>1
<1>7. \A r \in down : r = x \/ (r = p /\ x \in linked)
  <2> SUFFICES ASSUME NEW r \in down, r # x, ~(r = p /\ x \in linked) PROVE FALSE
    OBVIOUS
  <2>1. x \in linked BY <1>3, <1>5
  <2>2. p \in x .. (r - 1) /\ p \in p .. rcvd /\ p # 0 BY <1>1, <1>2, <1>3, <2>1
  <2>3. refs[p] = 1 BY <2>2
  <2>4. Taken BY <2>1 DEF Taken
  <2>5. refs[p] >= 2 BY <2>2, <2>4 DEF Shape, Counts
  <2> QED BY <2>3, <2>5
<1>8. AfterFree(refs, x) = [r \in Pbufs |-> IF r \in down THEN refs[r] - 1 ELSE refs[r]]
  BY DEF AfterFree
<1> HIDE DEF down
<1>9. \A n \in Pbufs : refs[n] \in Int /\ refs[n] - 1 \in Int
  BY <1>1
<1>10. AfterFree(refs, x) \in [Pbufs -> Int]
  <2>1. \A n \in Pbufs : (IF n \in down THEN refs[n] - 1 ELSE refs[n]) \in Int
    BY <1>9
  <2> QED BY <1>8, <2>1
<1>11. x \in linked => p \in Pbufs BY <1>1, <1>2
<1>12. AfterFree(refs, x)[x] = refs[x] - 1 BY <1>1, <1>4, <1>8
<1>13. \A n \in Pbufs : n # x /\ ~(x \in linked /\ n = p) => AfterFree(refs, x)[n] = refs[n]
  BY <1>7, <1>8
<1>14. x \in linked => AfterFree(refs, x)[p] = IF refs[x] = 1 THEN refs[p] - 1 ELSE refs[p]
  BY <1>6, <1>8, <1>11
<1> QED BY <1>10, <1>12, <1>13, <1>14

----------------------------------------------------------------------------
(* Each step keeps Good, unless it tears the connection. *)

LEMMA Moves ==
    ASSUME Typed, NEW c \in Contexts, NEW label \in Labels, Goto(c, label)
    PROVE  /\ pc' \in [Contexts -> Labels]
           /\ \A d \in Contexts : pc'[d] = IF d = c THEN label ELSE pc[d]
BY DEF Typed, Goto

LEMMA AtAlone ==
    ASSUME NEW c \in Contexts, NEW label, At(c, label)
    PROVE  pc[c] = label /\ (c = "main" => pc["isr"] = "idle")
BY DEF At, Contexts

\* A step of a context from one label to another that changes nothing of what
\* Shape speaks of but this.
Harmless(c, label) ==
    /\ label \in Sending => ptr[c] = p /\ p # 0
    /\ label \in {"next", "store"} <=> pc[c] \in {"next", "store"}
    /\ label \in Leaving <=> pc[c] \in Leaving
    /\ label \in {"recved", "window"} => pc[c] \in {"recved", "window"}
    /\ label = "count" => ptr[c] \in linked
    /\ label = "free" <=> pc[c] = "free" \/ (pc[c] = "ref" /\ label # "count" /\ ptr[c] \notin linked)

LEMMA StillShape ==
    ASSUME Shape, NEW c \in Contexts, NEW label \in Labels, Goto(c, label), Harmless(c, label),
           UNCHANGED <<p, refs, linked, rcvd, waited, echoed, ptr>>, hooked' \in BOOLEAN, fin' \in BOOLEAN
    PROVE  Shape'
<1>1. /\ pc' \in [Contexts -> Labels]
      /\ \A d \in Contexts : pc'[d] = IF d = c THEN label ELSE pc[d]
  BY Moves DEF Shape
<1>2. Typed' BY <1>1 DEF Shape, Typed
<1>3. SentP' <=> SentP BY <1>1 DEF SentP, Harmless
<1>4. Order' BY <1>3 DEF Shape, Order
<1>5. Senders' BY <1>1 DEF Shape, Senders, Harmless, Contexts
<1>6. Leavers'
  <2>1. \A d \in Contexts : pc'[d] \in Leaving <=> pc[d] \in Leaving BY <1>1 DEF Harmless
  <2>2. \A d \in Contexts : pc'[d] \in {"recved", "window"} => pc[d] \in {"recved", "window"}
    BY <1>1 DEF Harmless
  <2>3. \A d \in Contexts : pc'[d] = "count" => ptr[d] \in linked BY <1>1 DEF Harmless, Shape, Leavers
  <2> QED BY <2>1, <2>2, <2>3 DEF Shape, Leavers, Contexts
<1>7. Links' BY DEF Shape, Links
<1>8. Counts'
  <2>1. Taken' <=> Taken BY <1>1 DEF Taken, Harmless
  <2>2. \A d \in Contexts : pc'[d] \in Leaving <=> pc[d] \in Leaving BY <1>1 DEF Harmless
  <2>3. \A n : LeftBy(n)' <=> LeftBy(n) BY <2>2 DEF LeftBy
  <2> QED BY <2>1, <2>2, <2>3 DEF Shape, Counts
<1> QED BY <1>2, <1>4, <1>5, <1>6, <1>7, <1>8 DEF Shape

\* The steps that only read.
LEMMA ReadKeeps ==
    ASSUME Good, NEW c \in Contexts, NEW from, NEW label \in Labels, Reads(c, from, label),
           Harmless(c, label), from # "unhook", label # "unhook",
           label = "close" => fin /\ p = 0, from # "idle" \/ pcb = "open"
    PROVE  Good'
<1> USE DEF Reads, conn, data
<1>1. /\ pc' \in [Contexts -> Labels]
      /\ \A d \in Contexts : pc'[d] = IF d = c THEN label ELSE pc[d]
  BY Moves DEF Good, Shape
<1>2. pc[c] = from BY AtAlone
<1>3. Shape'
  <2>1. hooked' \in BOOLEAN /\ fin' \in BOOLEAN BY DEF Good, Shape, Typed
  <2> QED BY <2>1, StillShape DEF Good
<1>4. Life' BY <1>1, <1>2 DEF Good, Life
<1> QED BY <1>3, <1>4 DEF Good

LEMMA ReadsKeep ==
    ASSUME Good, NEW c \in Contexts, ~torn',
           Check(c) \/ Fits(c) \/ (\E room \in BOOLEAN : Write(c, room)) \/ Follow(c) \/ Ref(c) \/ Recved(c)
    PROVE  Good'
<1> USE DEF Labels, Sending, Leaving
<1>1. \A from, label : Reads(c, from, label) => pc[c] = from
  BY AtAlone DEF Reads
<1>2. /\ pc[c] \in Sending => ptr[c] = p /\ p # 0
  BY DEF Good, Shape, Senders
<1>3. CASE Check(c)
  <2>1. PICK label \in {"fits", "idle"} : Reads(c, "check", label) BY <1>3 DEF Check
  <2>2. label \in Labels OBVIOUS
  <2>3. Harmless(c, label) BY <1>1, <2>1 DEF Harmless
  <2> QED BY <2>1, <2>2, <2>3, ReadKeeps
<1>4. CASE Fits(c)
  <2>1. PICK label \in {"load", "idle"} : Reads(c, "fits", label) BY <1>4 DEF Fits
  <2>2. label \in Labels OBVIOUS
  <2>3. Harmless(c, label) BY <1>1, <2>1 DEF Harmless
  <2> QED BY <2>1, <2>2, <2>3, ReadKeeps
<1>5. CASE \E room \in BOOLEAN : Write(c, room)
  <2>1. PICK label \in {"copy", "defer"} : Reads(c, "write", label) BY <1>5 DEF Write
  <2>2. label \in Labels OBVIOUS
  <2>3. Harmless(c, label) BY <1>1, <1>2, <2>1 DEF Harmless
  <2> QED BY <2>1, <2>2, <2>3, ReadKeeps
<1>6. CASE Follow(c)
  <2>1. Reads(c, "next", "store") BY <1>6 DEF Follow
  <2>2. "store" \in Labels OBVIOUS
  <2>3. Harmless(c, "store") BY <1>1, <1>2, <2>1 DEF Harmless
  <2> QED BY <2>1, <2>2, <2>3, ReadKeeps
<1>7. CASE Ref(c)
  <2>1. PICK label \in {"count", "free"} : Reads(c, "ref", label) /\ (label = "count" <=> p # 0)
    BY <1>7 DEF Ref
  <2>2. label \in Labels OBVIOUS
  <2>3. p = Following(ptr[c]) BY <1>7 DEF Ref
  <2>4. label = "count" <=> ptr[c] \in linked
    <3>1. ptr[c] \in Nat BY DEF Good, Shape, Typed
    <3> QED BY <2>1, <2>3, <3>1 DEF Following
  <2>5. Harmless(c, label) BY <1>1, <2>1, <2>4 DEF Harmless
  <2> QED BY <2>1, <2>2, <2>5, ReadKeeps
<1>8. CASE Recved(c)
  <2>1. Reads(c, "recved", "window") BY <1>8 DEF Recved
  <2>2. "window" \in Labels OBVIOUS
  <2>3. Harmless(c, "window") BY <1>1, <2>1 DEF Harmless
  <2> QED BY <2>1, <2>2, <2>3, ReadKeeps
<1> QED BY <1>3, <1>4, <1>5, <1>6, <1>7, <1>8

LEMMA PollKeeps ==
    ASSUME Good, ~torn', Poll \/ PollLeft \/ PollState
    PROVE  Good'
<1> USE DEF Labels, Sending, Leaving
<1>1. PICK from \in {"idle", "poll", "state"}, label \in {"poll", "check", "state", "close", "idle"} :
          /\ Reads("main", from, label)
          /\ label = "close" => state = "closing" /\ p = 0
          /\ from = "idle" => pcb = "open"
  <2>1. CASE Poll BY <2>1 DEF Poll
  <2>2. CASE PollLeft BY <2>2 DEF PollLeft
  <2>3. CASE PollState BY <2>3 DEF PollState
  <2> QED BY <2>1, <2>2, <2>3
<1>2. "main" \in Contexts /\ label \in Labels BY DEF Contexts
<1>3. pc["main"] = from BY <1>1, <1>2, AtAlone DEF Reads
<1>4. Harmless("main", label) BY <1>1, <1>3 DEF Harmless
<1>5. label = "close" => fin /\ p = 0 BY <1>1 DEF Good, Life
<1> QED BY <1>1, <1>2, <1>4, <1>5, ReadKeeps

LEMMA AcceptKeeps ==
    ASSUME Good, NEW room \in BOOLEAN, Accept(room)
    PROVE  Good'
<1> USE DEF Accept, data
<1>1. Typed' BY DEF Good, Shape, Typed
<1>2. Order' BY DEF Good, Shape, Order, SentP
<1>3. Senders' BY DEF Good, Shape, Senders
<1>4. Leavers' BY DEF Good, Shape, Leavers
<1>5. Links' BY DEF Good, Shape, Links
<1>6. Counts' BY DEF Good, Shape, Counts, Taken, LeftBy
<1>7. Life' BY DEF Good, Life
<1> QED BY <1>1, <1>2, <1>3, <1>4, <1>5, <1>6, <1>7 DEF Good, Shape

LEMMA CloseKeeps ==
    ASSUME Good, NEW c \in Contexts, Close(c)
    PROVE  Good'
<1> USE DEF Close, data
<1>1. "unhook" \in Labels BY DEF Labels
<1>2. /\ pc' \in [Contexts -> Labels]
      /\ \A d \in Contexts : pc'[d] = IF d = c THEN "unhook" ELSE pc[d]
  BY <1>1, Moves DEF Good, Shape
<1>3. pc[c] = "close" BY AtAlone
<1>4. Shape'
  <2>1. Harmless(c, "unhook") BY <1>3 DEF Harmless, Sending, Leaving
  <2>2. hooked' \in BOOLEAN /\ fin' \in BOOLEAN BY DEF Good, Shape, Typed
  <2> QED BY <1>1, <2>1, <2>2, StillShape DEF Good
<1>5. Life' BY <1>2, <1>3 DEF Good, Life
<1> QED BY <1>4, <1>5 DEF Good

LEMMA FinKeeps ==
    ASSUME Good, Fin
    PROVE  Good'
<1> USE DEF Fin, data
<1>1. PICK label \in {"close", "check"} : Goto("isr", label) /\ (label = "close" <=> p = 0)
  OBVIOUS
<1>2. label \in Labels /\ "isr" \in Contexts BY DEF Labels, Contexts
<1>3. /\ pc' \in [Contexts -> Labels]
      /\ \A d \in Contexts : pc'[d] = IF d = "isr" THEN label ELSE pc[d]
  BY <1>1, <1>2, Moves DEF Good, Shape
<1>4. Shape'
  <2>1. Harmless("isr", label) BY DEF Harmless, Sending, Leaving
  <2>2. hooked' \in BOOLEAN /\ fin' \in BOOLEAN BY DEF Good, Shape, Typed
  <2> QED BY <1>1, <1>2, <2>1, <2>2, StillShape DEF Good
<1>5. Life' BY <1>1, <1>3 DEF Good, Life
<1> QED BY <1>4, <1>5 DEF Good

LEMMA SentKeeps ==
    ASSUME Good, NEW n, Sent(n), ~torn'
    PROVE  Good'
<1> USE DEF Sent, conn, data
<1>1. PICK label \in {"check", "close", "idle"} :
          Goto("isr", label) /\ (label = "close" => p = 0 /\ state = "closing")
  OBVIOUS
<1>2. label \in Labels /\ "isr" \in Contexts BY DEF Labels, Contexts
<1>3. /\ pc' \in [Contexts -> Labels]
      /\ \A d \in Contexts : pc'[d] = IF d = "isr" THEN label ELSE pc[d]
  BY <1>1, <1>2, Moves DEF Good, Shape
<1>4. Shape'
  <2>1. Harmless("isr", label) BY DEF Harmless, Sending, Leaving
  <2>2. hooked' \in BOOLEAN /\ fin' \in BOOLEAN BY DEF Good, Shape, Typed
  <2> QED BY <1>1, <1>2, <2>1, <2>2, StillShape DEF Good
<1>5. Life'
  <2>1. hooked BY DEF Good, Shape, Typed
  <2> QED BY <1>1, <1>3, <2>1 DEF Good, Life
<1> QED BY <1>4, <1>5 DEF Good

LEMMA FailKeeps ==
    ASSUME Good, Fail, ~torn'
    PROVE  Good'
<1> USE DEF Fail, data
<1>1. \A d \in Contexts : pc[d] = "idle" BY DEF Contexts, Overtakes
<1>2. Typed' BY DEF Good, Shape, Typed
<1>3. Order' BY DEF Good, Shape, Order, SentP
<1>4. Senders' BY DEF Good, Shape, Senders
<1>5. Leavers' BY DEF Good, Shape, Leavers
<1>6. Links' BY DEF Good, Shape, Links
<1>7. Counts' BY DEF Good, Shape, Counts, Taken, LeftBy
<1>8. Life' BY <1>1 DEF Good, Life
<1> QED BY <1>2, <1>3, <1>4, <1>5, <1>6, <1>7, <1>8 DEF Good, Shape

\* Who closes is alone: of two, the interrupt frees es under the main loop.
LEMMA UnhookKeeps ==
    ASSUME Good, NEW c \in Contexts, NEW room \in BOOLEAN, Unhook(c, room), ~torn'
    PROVE  Good'
<1> USE DEF Unhook, data
<1>1. "idle" \in Labels BY DEF Labels
<1>2. /\ pc' \in [Contexts -> Labels]
      /\ \A d \in Contexts : pc'[d] = IF d = c THEN "idle" ELSE pc[d]
  BY <1>1, Moves DEF Good, Shape
<1>3. pc[c] = "unhook" /\ (c = "main" => pc["isr"] = "idle") BY AtAlone
<1>4. \A d \in Contexts : pc'[d] = "idle"
  <2>1. c = "isr" => pc["main"] = "idle" BY DEF Overtakes
  <2> QED BY <1>2, <1>3, <2>1 DEF Contexts
<1>5. Shape'
  <2>1. Harmless(c, "idle") BY <1>3 DEF Harmless, Sending, Leaving
  <2>2. hooked' \in BOOLEAN /\ fin' \in BOOLEAN BY DEF Good, Shape, Typed
  <2> QED BY <1>1, <2>1, <2>2, StillShape DEF Good
<1>6. Life'
  <2>1. pcb' \in {"reset", "closed", "stranded"} OBVIOUS
  <2> QED BY <1>3, <1>4, <2>1 DEF Good, Life
<1> QED BY <1>5, <1>6 DEF Good

LEMMA LoadKeeps ==
    ASSUME Good, NEW c \in Contexts, Load(c), ~torn'
    PROVE  Good'
<1> USE DEF Load, conn, data
<1>1. "write" \in Labels BY DEF Labels, Sending
<1>2. /\ pc' \in [Contexts -> Labels]
      /\ \A d \in Contexts : pc'[d] = IF d = c THEN "write" ELSE pc[d]
  BY <1>1, Moves DEF Good, Shape
<1>3. pc[c] = "load" /\ p # 0 BY AtAlone
<1>4. /\ ptr \in [Contexts -> Nat] /\ p \in Nat /\ ptr' \in [Contexts -> Nat]
      /\ \A d \in Contexts : ptr'[d] = IF d = c THEN p ELSE ptr[d]
  BY DEF Good, Shape, Typed
<1> USE DEF Sending, Leaving
<1>5. Typed' BY <1>2, <1>4 DEF Good, Shape, Typed
<1>6. Order'
  <2>1. SentP' <=> SentP BY <1>2, <1>3 DEF SentP
  <2> QED BY <2>1 DEF Good, Shape, Order
<1>7. Senders' BY <1>2, <1>3, <1>4 DEF Good, Shape, Senders, Contexts
<1>8. Leavers' BY <1>2, <1>3, <1>4 DEF Good, Shape, Leavers, Contexts
<1>9. Links' BY DEF Good, Shape, Links
<1>10. Counts'
  <2>1. Taken' <=> Taken BY <1>2, <1>3, <1>4 DEF Taken
  <2>2. \A n : LeftBy(n)' <=> LeftBy(n) BY <1>2, <1>3, <1>4 DEF LeftBy
  <2> QED BY <1>2, <1>3, <1>4, <2>1, <2>2 DEF Good, Shape, Counts
<1>11. Life' BY <1>2, <1>3 DEF Good, Life
<1> QED BY <1>5, <1>6, <1>7, <1>8, <1>9, <1>10, <1>11 DEF Good, Shape

LEMMA DeferKeeps ==
    ASSUME Good, NEW c \in Contexts, Defer(c)
    PROVE  Good'
<1> USE DEF Defer, conn
<1>1. "idle" \in Labels BY DEF Labels
<1>2. /\ pc' \in [Contexts -> Labels]
      /\ \A d \in Contexts : pc'[d] = IF d = c THEN "idle" ELSE pc[d]
  BY <1>1, Moves DEF Good, Shape
<1>3. pc[c] = "defer" BY AtAlone
<1>4. p' = p BY <1>3 DEF Good, Shape, Senders, Sending
<1>5. Shape'
  <2>1. Harmless(c, "idle") BY <1>3 DEF Harmless, Sending, Leaving
  <2>2. hooked' \in BOOLEAN /\ fin' \in BOOLEAN BY DEF Good, Shape, Typed
  <2> QED BY <1>1, <1>4, <2>1, <2>2, StillShape DEF Good
<1>6. Life' BY <1>2, <1>3, <1>4 DEF Good, Life
<1> QED BY <1>5, <1>6 DEF Good

LEMMA WindowKeeps ==
    ASSUME Good, NEW c \in Contexts, Window(c)
    PROVE  Good'
<1> USE DEF Window, conn
<1>1. "check" \in Labels BY DEF Labels
<1>2. /\ pc' \in [Contexts -> Labels]
      /\ \A d \in Contexts : pc'[d] = IF d = c THEN "check" ELSE pc[d]
  BY <1>1, Moves DEF Good, Shape
<1>3. pc[c] = "window" BY AtAlone
<1>4. Shape'
  <2>1. Harmless(c, "check") BY <1>3 DEF Harmless, Sending, Leaving
  <2>2. hooked' \in BOOLEAN /\ fin' \in BOOLEAN BY DEF Good, Shape, Typed
  <2> QED BY <1>1, <2>1, <2>2, StillShape DEF Good
<1>5. Life' BY <1>2, <1>3 DEF Good, Life
<1> QED BY <1>4, <1>5 DEF Good

\* Nobody else has sent es->p: poll's would be sent by the interrupt too.
LEMMA CopyKeeps ==
    ASSUME Good, NEW c \in Contexts, Copy(c), ~torn'
    PROVE  Good'
<1> USE DEF Copy, conn, data
<1>1. "next" \in Labels BY DEF Labels, Sending
<1>2. /\ pc' \in [Contexts -> Labels]
      /\ \A d \in Contexts : pc'[d] = IF d = c THEN "next" ELSE pc[d]
  BY <1>1, Moves DEF Good, Shape
<1>3. pc[c] = "copy" /\ (c = "main" => pc["isr"] = "idle") BY AtAlone
<1>4. ptr[c] = p /\ p # 0 /\ p \in Nat /\ rcvd \in Nat /\ p <= rcvd
  BY <1>3, Basics DEF Good, Shape, Senders, Sending
<1>5. echoed \in Seq(Nat) /\ echoed' = Append(echoed, p) BY <1>4 DEF Good, Shape, Typed
<1>6. ~SentP
  <2> SUFFICES ASSUME NEW d \in Contexts, pc[d] \in {"next", "store"} PROVE FALSE
    BY DEF SentP
  <2>1. c = "isr" /\ d = "main" BY <1>3 DEF Contexts
  <2>2. echoed' # echoed
    <3>1. Len(echoed') = Len(echoed) + 1 /\ Len(echoed) \in Nat BY <1>4, <1>5
    <3> QED BY <3>1
  <2> QED BY <2>1, <2>2 DEF Overtakes
<1>7. Len(echoed) = p - 1 BY <1>4, <1>6 DEF Good, Shape, Order
<1>8. Len(echoed') = p /\ echoed' \in Seq(Nat) BY <1>4, <1>5, <1>7
<1>9. SentP' BY <1>2 DEF SentP
<1>10. Typed' BY <1>2, <1>8 DEF Good, Shape, Typed
<1>11. Order'
  <2>1. \A n \in 1 .. p : echoed'[n] = n BY <1>4, <1>5, <1>7, <1>8 DEF Good, Shape, Order
  <2> QED BY <1>4, <1>8, <1>9, <2>1 DEF Order
<1>12. Senders'
  <2>1. \A d \in Contexts : pc'[d] \in Sending => ptr[d] = p /\ p # 0
    BY <1>2, <1>4 DEF Good, Shape, Senders
  <2>2. ~(pc'["isr"] \in {"next", "store"} /\ pc'["main"] \in {"next", "store"})
    BY <1>2, <1>3, <1>6 DEF SentP, Contexts
  <2> QED BY <2>1, <2>2 DEF Senders
<1>13. \A d \in Contexts : /\ pc'[d] \in Leaving <=> pc[d] \in Leaving
                           /\ pc'[d] \in {"count", "free", "recved", "window"} => pc'[d] = pc[d]
                           /\ pc'[d] = "free" <=> pc[d] = "free"
  BY <1>2, <1>3 DEF Leaving
<1>14. Leavers' BY <1>13 DEF Good, Shape, Leavers, Contexts
<1>15. Links' BY DEF Good, Shape, Links
<1>16. Counts'
  <2>1. Taken' <=> Taken BY <1>13 DEF Taken
  <2>2. \A n : LeftBy(n)' <=> LeftBy(n) BY <1>13 DEF LeftBy
  <2> QED BY <1>13, <2>1, <2>2 DEF Good, Shape, Counts
<1>17. Life' BY <1>2, <1>3 DEF Good, Life
<1> QED BY <1>10, <1>11, <1>12, <1>14, <1>15, <1>16, <1>17 DEF Good, Shape

\* When the interrupt goes on from what poll has left, it is no more of its chain.
LEMMA StoreKeeps ==
    ASSUME Good, NEW c \in Contexts, Store(c), ~torn'
    PROVE  Good'
<1> USE DEF Store, conn
<1>1. "ref" \in Labels BY DEF Labels, Leaving
<1>2. /\ pc' \in [Contexts -> Labels]
      /\ \A d \in Contexts : pc'[d] = IF d = c THEN "ref" ELSE pc[d]
  BY <1>1, Moves DEF Good, Shape
<1>3. pc[c] = "store" /\ (c = "main" => pc["isr"] = "idle") BY AtAlone
<1>4. /\ ptr[c] = p /\ p # 0 /\ p \in Nat /\ rcvd \in Nat /\ p <= rcvd /\ p \in 1 .. rcvd
      /\ ptr \in [Contexts -> Nat] /\ pc \in [Contexts -> Labels]
  BY <1>3, Basics DEF Good, Shape, Senders, Sending, Typed
<1>5. p' = IF p < rcvd THEN p + 1 ELSE 0
  BY <1>4, FollowingIs DEF Good
<1>6. p' # p /\ p' \in 0 .. rcvd BY <1>4, <1>5
<1>7. ASSUME NEW d \in Contexts, d # c
      PROVE  /\ pc[d] \notin Sending
             /\ pc[d] \in Leaving => c = "isr" /\ d = "main" /\ ptr[d] \notin linked /\ ptr[d] < p
  <2>1. CASE c = "main" BY <1>3, <1>7, <2>1 DEF Contexts, Sending, Leaving
  <2>2. CASE c = "isr"
    <3>1. d = "main" BY <1>7, <2>2 DEF Contexts
    <3>2. pc["main"] # "idle" => pc["main"] \notin Sending /\ ~(pc["main"] \in Leaving /\ p \in Chain(ptr["main"]))
      BY <1>6, <2>2 DEF Overtakes
    <3>3. pc[d] \notin Sending BY <3>1, <3>2 DEF Sending
    <3>4. ASSUME pc[d] \in Leaving PROVE ptr[d] \notin linked /\ ptr[d] < p
      <4>1. p \notin Chain(ptr[d]) BY <3>1, <3>2, <3>4 DEF Leaving
      <4>2. ptr[d] \in 1 .. rcvd BY <3>4 DEF Good, Shape, Leavers
      <4>3. ptr[d] \notin linked
        <5> SUFFICES ASSUME ptr[d] \in linked PROVE FALSE OBVIOUS
        <5>1. p = ptr[d] + 1 BY <3>4 DEF Good, Shape, Leavers
        <5> QED BY <4>1, <4>2, <5>1, NextInChain DEF Good
      <4>4. p > ptr[d] BY <1>4, <3>4, <4>3 DEF Good, Shape, Leavers
      <4> QED BY <1>4, <4>2, <4>3, <4>4
    <3> QED BY <2>2, <3>1, <3>3, <3>4
  <2> QED BY <2>1, <2>2 DEF Contexts
<1>8. Typed' BY <1>2, <1>6 DEF Good, Shape, Typed
<1>9. \A d \in Contexts : pc'[d] \notin Sending BY <1>2, <1>7 DEF Sending
<1>10. Order'
  <2>1. ~SentP' BY <1>9 DEF SentP, Sending
  <2>2. Len(echoed) = p BY <1>3, <1>4 DEF Good, Shape, Order, SentP
  <2> QED BY <1>4, <1>5, <2>1, <2>2 DEF Good, Shape, Order
<1>11. Senders' BY <1>9 DEF Senders, Contexts, Sending
<1>12. p \in linked <=> p < rcvd BY <1>4 DEF Good, Shape, Links
<1>13. Leavers'
  <2>1. \A d \in Contexts : pc'[d] \in Leaving \cup {"recved", "window"} => ptr[d] \in 1 .. rcvd
    BY <1>2, <1>4 DEF Good, Shape, Leavers
  <2>2. ASSUME NEW d \in Contexts, pc'[d] \in Leaving
        PROVE  IF ptr[d] \in linked THEN p' = ptr[d] + 1 ELSE p' = 0 \/ p' > ptr[d]
    <3>1. CASE d = c BY <1>4, <1>5, <1>12, <3>1
    <3>2. CASE d # c
      <4>1. ptr[d] \notin linked /\ ptr[d] < p BY <1>2, <1>7, <2>2, <3>2
      <4> QED BY <1>4, <1>5, <4>1
    <3> QED BY <3>1, <3>2
  <2>3. \A d \in Contexts : pc'[d] = "count" => ptr[d] \in linked
    BY <1>2 DEF Good, Shape, Leavers
  <2>4. pc'["main"] \in Leaving /\ pc'["isr"] \in Leaving => ptr["main"] \notin linked /\ ptr["main"] < ptr["isr"]
    BY <1>2, <1>3, <1>4, <1>7 DEF Contexts, Leaving
  <2> QED BY <2>1, <2>2, <2>3, <2>4 DEF Leavers
<1>14. Links' BY <1>4, <1>5 DEF Good, Shape, Links
<1>15. ~Taken /\ ~Taken'
  <2>1. \A d \in Contexts : pc[d] = "free" => ptr[d] \notin linked
    BY <1>3, <1>7 DEF Leaving
  <2> QED BY <1>2, <2>1 DEF Taken
<1>16. \A n : LeftBy(n)' <=> LeftBy(n) \/ n = p
  <2>1. pc[c] \notin Leaving BY <1>3 DEF Leaving
  <2> QED BY <1>2, <1>4, <2>1 DEF LeftBy, Leaving
<1>17. Counts'
  <2>1. \A n \in p .. rcvd : refs[n] >= 1 /\ (n \notin waited => refs[n] = 1)
    BY <1>4, <1>15 DEF Good, Shape, Counts
  <2>2. p' # 0 => \A n \in p' .. rcvd : refs[n] >= 1 /\ (n \notin waited => refs[n] = 1)
    BY <1>4, <1>5, <2>1
  <2>3. \A n \in 1 .. (p - 1) : n \notin waited => refs[n] = IF LeftBy(n) THEN 1 ELSE 0
    BY <1>4 DEF Good, Shape, Counts
  <2>4. \A n \in 1 .. p : n \notin waited => refs[n] = IF LeftBy(n)' THEN 1 ELSE 0
    <3> SUFFICES ASSUME NEW n \in 1 .. p, n \notin waited PROVE refs[n] = IF LeftBy(n)' THEN 1 ELSE 0
      OBVIOUS
    <3>1. CASE n = p BY <1>4, <1>16, <2>1, <3>1
    <3>2. CASE n # p
      <4>1. n \in 1 .. (p - 1) BY <1>4, <3>2
      <4> QED BY <1>16, <2>3, <3>2, <4>1
    <3> QED BY <3>1, <3>2
  <2>5. (IF p' = 0 THEN rcvd ELSE p' - 1) = p BY <1>4, <1>5
  <2>6. \A d \in Contexts : pc'[d] \in Leaving => refs[ptr[d]] >= 1
    <3>1. refs[p] >= 1 BY <1>4, <2>1
    <3> QED BY <1>2, <1>4, <3>1 DEF Good, Shape, Counts
  <2>7. p' # 0 => \A n \in p' .. rcvd :
          LET count == IF n = p' /\ Taken' THEN 2 ELSE 1
          IN  refs[n] >= count /\ (n \notin waited => refs[n] = count)
    BY <1>15, <2>2
  <2> QED BY <2>4, <2>5, <2>6, <2>7 DEF Good, Shape, Counts
<1>18. Life' BY <1>2, <1>3, <1>4 DEF Good, Life
<1> QED BY <1>8, <1>10, <1>11, <1>13, <1>14, <1>17, <1>18 DEF Good, Shape

LEMMA CountKeeps ==
    ASSUME Good, NEW c \in Contexts, Count(c)
    PROVE  Good'
<1> USE DEF Count, conn
<1>1. "free" \in Labels BY DEF Labels, Leaving
<1>2. /\ pc' \in [Contexts -> Labels]
      /\ \A d \in Contexts : pc'[d] = IF d = c THEN "free" ELSE pc[d]
  BY <1>1, Moves DEF Good, Shape
<1>3. pc[c] = "count" /\ pc[c] \in Leaving /\ (c = "main" => pc["isr"] = "idle")
  BY AtAlone DEF Leaving
<1>4. ptr[c] \in linked /\ p = ptr[c] + 1 /\ ptr[c] \in 1 .. rcvd
  BY <1>3 DEF Good, Shape, Leavers
<1>5. p \in 1 .. rcvd /\ p \in Pbufs /\ p \in Nat /\ p # 0 /\ rcvd \in Nat /\ refs \in [Pbufs -> Int]
  BY <1>4, Basics DEF Good
<1>6. \A n \in Pbufs : refs'[n] = IF n = p THEN refs[p] + 1 ELSE refs[n]
  BY <1>5
<1>7. refs[p] \in Int /\ refs[p] + 1 \in Int BY <1>5
<1>8. refs' \in [Pbufs -> Int] BY <1>5, <1>7
<1>9. ASSUME NEW d \in Contexts, d # c, pc[d] \in Leaving PROVE ptr[d] \notin linked
  <2>1. c = "isr" /\ d = "main" BY <1>3, <1>9 DEF Contexts, Leaving
  <2> QED BY <1>3, <1>9, <2>1 DEF Good, Shape, Leavers
<1>10. ~Taken /\ Taken'
  <2>1. ~Taken BY <1>3, <1>9 DEF Taken, Leaving
  <2>2. Taken' BY <1>2, <1>4 DEF Taken
  <2> QED BY <2>1, <2>2
<1>11. \A d \in Contexts : /\ pc'[d] \in Leaving <=> pc[d] \in Leaving
                           /\ pc'[d] # pc[d] => pc'[d] = "free"
  BY <1>2, <1>3 DEF Leaving
<1>12. Typed' BY <1>2, <1>8 DEF Good, Shape, Typed
<1>13. Order'
  <2>1. SentP' <=> SentP BY <1>2, <1>3 DEF SentP
  <2> QED BY <2>1 DEF Good, Shape, Order
<1>14. Senders' BY <1>11 DEF Good, Shape, Senders, Contexts, Sending
<1>15. Leavers' BY <1>11 DEF Good, Shape, Leavers, Contexts
<1>16. Links' BY DEF Good, Shape, Links
<1>17. Counts'
  <2>1. \A n \in p .. rcvd : n \in Pbufs /\ refs[n] >= 1 /\ (n \notin waited => refs[n] = 1)
    BY <1>5, <1>10, Basics DEF Good, Shape, Counts
  <2>2. \A n \in p .. rcvd :
          LET count == IF n = p /\ Taken' THEN 2 ELSE 1
          IN  refs'[n] >= count /\ (n \notin waited => refs'[n] = count)
    <3> SUFFICES ASSUME NEW n \in p .. rcvd
                 PROVE  LET count == IF n = p THEN 2 ELSE 1
                        IN  refs'[n] >= count /\ (n \notin waited => refs'[n] = count)
      BY <1>10
    <3>1. CASE n = p BY <1>6, <1>7, <2>1, <3>1
    <3>2. CASE n # p BY <1>6, <2>1, <3>2
    <3> QED BY <3>1, <3>2
  <2>3. \A n : LeftBy(n)' <=> LeftBy(n) BY <1>11 DEF LeftBy
  <2>4. \A n \in 1 .. (p - 1) : n \in Pbufs /\ n # p BY <1>5, PbufsAre, Basics DEF Good
  <2>5. \A n \in 1 .. (p - 1) : n \notin waited => refs'[n] = IF LeftBy(n)' THEN 1 ELSE 0
    BY <1>5, <1>6, <2>3, <2>4 DEF Good, Shape, Counts
  <2>6. \A d \in Contexts : pc'[d] \in Leaving => refs'[ptr[d]] >= 1
    <3> SUFFICES ASSUME NEW d \in Contexts, pc[d] \in Leaving PROVE refs'[ptr[d]] >= 1
      BY <1>11
    <3>1. ptr[d] \in Pbufs /\ refs[ptr[d]] >= 1 /\ refs[ptr[d]] \in Int
      BY Basics DEF Good, Shape, Leavers, Counts
    <3>2. refs'[ptr[d]] = refs[ptr[d]] \/ refs'[ptr[d]] = refs[ptr[d]] + 1 BY <1>6, <3>1
    <3> QED BY <3>1, <3>2
  <2> QED BY <1>5, <2>2, <2>5, <2>6 DEF Good, Shape, Counts
<1>18. Life' BY <1>2, <1>3 DEF Good, Life, Leaving
<1> QED BY <1>12, <1>13, <1>14, <1>15, <1>16, <1>17, <1>18 DEF Good, Shape

LEMMA FreeKeeps ==
    ASSUME Good, NEW c \in Contexts, Free(c)
    PROVE  Good'
<1> DEFINE x == ptr[c]
<1>1. "recved" \in Labels BY DEF Labels
<1>2. Goto(c, "recved") /\ UNCHANGED <<conn, p, linked, rcvd, waited, wnd, sndbuf, echoed, ptr, torn>>
  BY DEF Free
<1>3. /\ pc' \in [Contexts -> Labels]
      /\ \A d \in Contexts : pc'[d] = IF d = c THEN "recved" ELSE pc[d]
  BY <1>1, <1>2, Moves DEF Good, Shape
<1>4. pc[c] = "free" /\ pc[c] \in Leaving /\ (c = "main" => pc["isr"] = "idle")
  BY AtAlone DEF Leaving, Free
<1>5. refs' = AfterFree(refs, x) BY DEF Free
<1>6. /\ x \in 1 .. rcvd /\ x \in Nat /\ x # 0 /\ rcvd \in Nat /\ p \in Nat /\ p <= rcvd
      /\ IF x \in linked THEN p = x + 1 ELSE p = 0 \/ p > x
      /\ refs[x] >= 1
  <2>1. x \in 1 .. rcvd /\ (IF x \in linked THEN p = x + 1 ELSE p = 0 \/ p > x) /\ refs[x] >= 1
    BY <1>4 DEF Good, Shape, Leavers, Counts
  <2> QED BY <2>1, Basics DEF Good
<1>7. /\ refs' \in [Pbufs -> Int]
      /\ refs'[x] = refs[x] - 1
      /\ \A n \in Pbufs : n # x /\ ~(x \in linked /\ n = p) => refs'[n] = refs[n]
      /\ x \in linked => refs'[p] = IF refs[x] = 1 THEN refs[p] - 1 ELSE refs[p]
  <2>1. PICK y : y = x OBVIOUS
  <2> HIDE DEF x
  <2> QED BY <1>4, <1>5, <2>1, FreedOne DEF Good, x
<1>8. ASSUME NEW d \in Contexts, d # c, pc[d] \in Leaving
      PROVE  ptr[d] # x /\ ptr[d] \notin linked /\ ptr[d] # p
  <2>1. c = "isr" /\ d = "main" BY <1>4, <1>8 DEF Contexts, Leaving
  <2>2. ptr[d] \notin linked /\ ptr[d] < x /\ ptr[d] \in 1 .. rcvd BY <1>4, <1>8, <2>1 DEF Good, Shape, Leavers
  <2> QED BY <1>6, <1>8, <2>2
<1> HIDE DEF x
<1>9. Taken <=> x \in linked
  BY <1>4, <1>8 DEF Taken, x, Leaving
<1>10. ~Taken' BY <1>2, <1>3, <1>8 DEF Taken, Leaving
<1>11. \A n : LeftBy(n)' <=> LeftBy(n) /\ n # x
  <2>1. \A d \in Contexts : pc'[d] \in Leaving <=> pc[d] \in Leaving /\ d # c
    BY <1>3, <1>4 DEF Leaving
  <2> QED BY <1>2, <1>4, <1>8, <2>1 DEF LeftBy, x
<1>12. Typed' BY <1>2, <1>3, <1>7 DEF Good, Shape, Typed, conn
<1>13. Order'
  <2>1. SentP' <=> SentP BY <1>3, <1>4 DEF SentP
  <2> QED BY <1>2, <2>1 DEF Good, Shape, Order
<1>14. Senders' BY <1>2, <1>3 DEF Good, Shape, Senders, Contexts, Sending
<1>15. Leavers'
  <2>1. \A d \in Contexts : /\ pc'[d] \in Leaving => pc[d] \in Leaving
                            /\ pc'[d] = "count" => pc[d] = "count"
                            /\ pc'[d] \in {"recved", "window"} => pc[d] \in {"recved", "window"} \cup Leaving
    BY <1>3, <1>4 DEF Leaving
  <2> QED BY <1>2, <2>1 DEF Good, Shape, Leavers, Contexts
<1>16. Links' BY <1>2 DEF Good, Shape, Links
<1>17. LeftBy(x) BY <1>4 DEF LeftBy, x
<1>18. x \in 1 .. (IF p = 0 THEN rcvd ELSE p - 1) /\ x \in Pbufs
  BY <1>6, PbufsAre, Basics DEF Good
<1>19. x \notin waited => refs[x] = 1
  BY <1>17, <1>18 DEF Good, Shape, Counts
<1>20. Counts'
  <2>1. ASSUME p # 0, NEW n \in p .. rcvd
        PROVE  refs'[n] >= 1 /\ (n \notin waited => refs'[n] = 1)
    <3>1. n \in Pbufs /\ n # x /\ refs[n] \in Int BY <1>6, <1>18, <2>1, Basics DEF Good
    <3>2. CASE x \in linked /\ n = p
      <4>1. refs[p] >= 2 /\ (p \notin waited => refs[p] = 2)
        BY <1>6, <1>9, <2>1, <3>2 DEF Good, Shape, Counts
      <4>2. p \notin waited => refs[x] = 1
        BY <1>6, <1>19, <3>2 DEF Good, Shape, Counts
      <4>3. refs'[p] = IF refs[x] = 1 THEN refs[p] - 1 ELSE refs[p] BY <1>7, <3>2
      <4> QED BY <3>1, <3>2, <4>1, <4>2, <4>3
    <3>3. CASE ~(x \in linked /\ n = p)
      <4>1. refs'[n] = refs[n] BY <1>7, <3>1, <3>3
      <4>2. refs[n] >= 1 /\ (n \notin waited => refs[n] = 1)
        BY <1>9, <2>1, <3>3 DEF Good, Shape, Counts
      <4> QED BY <4>1, <4>2
    <3> QED BY <3>2, <3>3
  <2>2. p # 0 => \A n \in p .. rcvd :
          LET count == IF n = p /\ Taken' THEN 2 ELSE 1
          IN  refs'[n] >= count /\ (n \notin waited => refs'[n] = count)
    BY <1>10, <2>1
  <2>3. \A n \in 1 .. (IF p = 0 THEN rcvd ELSE p - 1) : n \notin waited => refs'[n] = IF LeftBy(n)' THEN 1 ELSE 0
    <3> SUFFICES ASSUME NEW n \in 1 .. (IF p = 0 THEN rcvd ELSE p - 1), n \notin waited
                 PROVE  refs'[n] = IF LeftBy(n)' THEN 1 ELSE 0
      OBVIOUS
    <3>1. refs[n] = IF LeftBy(n) THEN 1 ELSE 0 BY DEF Good, Shape, Counts
    <3>2. n \in Pbufs /\ n # p BY <1>6, PbufsAre, Basics DEF Good
    <3>3. CASE n = x BY <1>7, <1>11, <1>17, <3>1, <3>3
    <3>4. CASE n # x BY <1>7, <1>11, <3>1, <3>2, <3>4
    <3> QED BY <3>3, <3>4
  <2>4. \A d \in Contexts : pc'[d] \in Leaving => refs'[ptr[d]] >= 1
    <3> SUFFICES ASSUME NEW d \in Contexts, pc'[d] \in Leaving PROVE refs'[ptr[d]] >= 1
      OBVIOUS
    <3>1. d # c /\ pc[d] \in Leaving BY <1>3, <1>4 DEF Leaving
    <3>2. ptr[d] \in Pbufs /\ refs[ptr[d]] >= 1 BY <3>1, Basics DEF Good, Shape, Leavers, Counts
    <3>3. refs'[ptr[d]] = refs[ptr[d]] BY <1>7, <1>8, <3>1, <3>2
    <3> QED BY <3>2, <3>3
  <2> QED BY <1>2, <2>2, <2>3, <2>4 DEF Good, Shape, Counts
<1>21. Life' BY <1>2, <1>3, <1>4 DEF Good, Life, conn
<1> QED BY <1>12, <1>13, <1>14, <1>15, <1>16, <1>20, <1>21 DEF Good, Shape

\* What comes while nothing is to be sent is sent at once; what comes else is
\* chained, and all of it waits.
LEMMA RecvKeeps ==
    ASSUME Good, NEW k \in 1 .. 2, Recv(k)
    PROVE  Good'
<1> DEFINE new == (rcvd + 1) .. (rcvd + k)
           first == [n \in Pbufs |-> IF n \in new THEN 1 ELSE refs[n]]
<1>1. /\ rcvd \in Nat /\ p \in Nat /\ p <= rcvd /\ rcvd + k <= Len(Lens) /\ rcvd + k \in Nat
      /\ rcvd' = rcvd + k /\ pc["isr"] = "idle" /\ ~fin /\ k \in Nat /\ k >= 1
  BY PbufsAre, Basics DEF Good, Recv
<1>2. refs \in [Pbufs -> Int] /\ waited \subseteq 1 .. rcvd /\ \A n \in linked : n \in 1 .. (rcvd - 1)
  BY DEF Good, Shape, Typed, Links
<1>3. UNCHANGED <<pcb, hooked, es, fin, sndbuf, echoed, ptr>> /\ state' = "received"
  BY DEF Recv
<1>4. \A n \in Pbufs : first[n] \in Int /\ first[n] = IF n \in new THEN 1 ELSE refs[n]
  BY <1>2
<1>5. /\ \A n \in 1 .. rcvd : n \in Pbufs /\ n \notin new
      /\ \A n \in new : n \in Pbufs /\ n \notin waited
  BY <1>1, <1>2, PbufsAre
<1>6. \A d \in Contexts : pc[d] \in Leaving => ptr[d] \in 1 .. rcvd
  BY DEF Good, Shape, Leavers
<1>7. CASE p = 0
  <2>1. /\ p' = rcvd + 1 /\ refs' = first /\ linked' = linked \cup (new \ {rcvd + k})
        /\ waited' = waited /\ Goto("isr", "check")
    BY <1>7 DEF Recv
  <2>2. /\ pc' \in [Contexts -> Labels]
        /\ \A d \in Contexts : pc'[d] = IF d = "isr" THEN "check" ELSE pc[d]
    <3>1. "check" \in Labels /\ "isr" \in Contexts BY DEF Labels, Contexts
    <3> QED BY <2>1, <3>1, Moves DEF Good, Shape
  <2>3. \A d \in Contexts : pc[d] \notin Sending /\ pc[d] \notin {"close", "unhook"}
    BY <1>1, <1>7 DEF Good, Shape, Senders, Life
  <2>4. p' # 0 /\ p' \in Nat /\ p' - 1 = rcvd /\ p' <= rcvd' BY <1>1, <2>1
  <2>5. \A d \in Contexts : pc'[d] \in Leaving => pc[d] \in Leaving /\ ptr[d] \notin linked'
    <3> SUFFICES ASSUME NEW d \in Contexts, pc'[d] \in Leaving PROVE pc[d] \in Leaving /\ ptr[d] \notin linked'
      OBVIOUS
    <3>1. pc[d] \in Leaving BY <2>2 DEF Leaving
    <3>2. ptr[d] \in 1 .. rcvd BY <1>6, <3>1
    <3>3. ptr[d] \notin linked
      <4>1. ptr[d] \in linked => p = ptr[d] + 1 BY <3>1 DEF Good, Shape, Leavers
      <4> QED BY <1>7, <3>2, <4>1
    <3> QED BY <1>5, <2>1, <3>1, <3>2, <3>3
  <2>6. Typed'
    <3>1. refs' \in [Pbufs -> Int] BY <1>4, <2>1
    <3>2. waited' \subseteq 1 .. rcvd' BY <1>1, <1>2, <2>1
    <3>3. p' \in 0 .. rcvd' /\ rcvd' \in 0 .. Len(Lens) BY <1>1, <2>4, PbufsAre
    <3> QED BY <1>3, <2>2, <3>1, <3>2, <3>3 DEF Good, Shape, Typed
  <2>7. Order'
    <3>1. ~SentP' BY <2>2, <2>3 DEF SentP, Sending
    <3>2. Len(echoed) = rcvd BY <1>7 DEF Good, Shape, Order
    <3> QED BY <1>1, <1>3, <2>4, <3>1, <3>2 DEF Good, Shape, Order
  <2>8. Senders' BY <2>2, <2>3 DEF Senders, Contexts, Sending
  <2>9. Leavers'
    <3>1. \A d \in Contexts : pc'[d] \in {"recved", "window"} => pc[d] \in {"recved", "window"}
      BY <2>2
    <3>2. \A d \in Contexts : pc'[d] \in Leaving \cup {"recved", "window"} => ptr[d] \in 1 .. rcvd
      BY <2>5, <3>1 DEF Good, Shape, Leavers
    <3>3. \A d \in Contexts : pc'[d] \in Leaving \cup {"recved", "window"} => ptr[d] \in 1 .. rcvd' /\ p' > ptr[d]
      BY <1>1, <2>1, <3>2
    <3>4. \A d \in Contexts : pc'[d] # "count"
      <4> SUFFICES ASSUME NEW d \in Contexts, pc'[d] = "count" PROVE FALSE OBVIOUS
      <4>1. pc[d] = "count" /\ pc'[d] \in Leaving BY <2>2 DEF Leaving
      <4>2. ptr[d] \in linked /\ linked \subseteq linked' BY <2>1, <4>1 DEF Good, Shape, Leavers
      <4> QED BY <2>5, <4>1, <4>2
    <3>5. pc'["isr"] \notin Leaving BY <2>2 DEF Leaving, Contexts
    <3> QED BY <1>3, <2>5, <3>3, <3>4, <3>5 DEF Leavers, Contexts
  <2>10. Links' BY <1>1, <1>2, <2>1 DEF Links
  <2>11. Counts'
    <3>1. \A n \in p' .. rcvd' : n \in new BY <1>1, <2>1
    <3>2. \A n \in p' .. rcvd' : refs'[n] = 1 BY <1>4, <1>5, <2>1, <3>1
    <3>3. \A n \in 1 .. rcvd : refs'[n] = refs[n] BY <1>4, <1>5, <2>1
    <3>4. ~Taken' BY <1>3, <2>5 DEF Taken, Leaving
    <3>5. \A n : LeftBy(n)' <=> LeftBy(n)
      <4>1. \A d \in Contexts : pc'[d] \in Leaving <=> pc[d] \in Leaving BY <1>1, <2>2 DEF Leaving
      <4> QED BY <1>3, <4>1 DEF LeftBy
    <3>6. \A n \in 1 .. rcvd : n \notin waited => refs'[n] = IF LeftBy(n)' THEN 1 ELSE 0
      BY <1>7, <3>3, <3>5 DEF Good, Shape, Counts
    <3>7. \A d \in Contexts : pc'[d] \in Leaving => refs'[ptr[d]] >= 1
      BY <1>6, <2>5, <3>3 DEF Good, Shape, Counts
    <3>8. \A n \in linked' : n \in waited' => n + 1 \in waited'
      BY <1>5, <2>1 DEF Good, Shape, Counts
    <3>9. \A n \in p' .. rcvd' : IF n = p' /\ Taken' THEN FALSE ELSE refs'[n] >= 1 /\ (n \notin waited' => refs'[n] = 1)
      <4> SUFFICES ASSUME NEW n \in p' .. rcvd' PROVE ~(n = p' /\ Taken') /\ refs'[n] >= 1 /\ refs'[n] = 1
        OBVIOUS
      <4>1. refs'[n] = 1 BY <3>2
      <4> QED BY <3>4, <4>1
    <3>10. \A n \in p' .. rcvd' :
              LET count == IF n = p' /\ Taken' THEN 2 ELSE 1
              IN  refs'[n] >= count /\ (n \notin waited' => refs'[n] = count)
      BY <3>9
    <3>11. \A n \in 1 .. (IF p' = 0 THEN rcvd' ELSE p' - 1) :
              n \notin waited' => refs'[n] = IF LeftBy(n)' THEN 1 ELSE 0
      BY <2>1, <2>4, <3>6
    <3>12. \A d \in Contexts : pc'[d] \in Leaving => refs'[ptr'[d]] >= 1
      BY <1>3, <3>7
    <3> QED BY <3>8, <3>10, <3>11, <3>12 DEF Counts
  <2>12. Life' BY <1>1, <1>3, <2>2, <2>3 DEF Good, Life, Recv
  <2> QED BY <2>6, <2>7, <2>8, <2>9, <2>10, <2>11, <2>12 DEF Good, Shape
<1>8. CASE p # 0
  <2>1. /\ refs' = [first EXCEPT ![rcvd + 1] = @ + 1] /\ linked' = linked \cup (rcvd .. (rcvd + k - 1))
        /\ waited' = waited \cup new /\ UNCHANGED <<p, pc>>
    BY <1>8 DEF Recv
  <2>2. /\ \A n \in new : refs'[n] \in Int /\ refs'[n] >= 1
        /\ \A n \in 1 .. rcvd : refs'[n] = refs[n]
        /\ refs' \in [Pbufs -> Int]
    <3>1. \A n \in new : n \in Pbufs BY <1>5
    <3>2. \A n \in 1 .. rcvd : n \in Pbufs /\ n \notin new /\ n # rcvd + 1 BY <1>1, <1>5
    <3>3. first[rcvd + 1] + 1 \in Int /\ rcvd + 1 \in new BY <1>1, <1>4, <3>1
    <3>4. \A n \in Pbufs : refs'[n] = IF n = rcvd + 1 THEN first[rcvd + 1] + 1 ELSE first[n]
      BY <2>1
    <3>5. \A n \in Pbufs : refs'[n] \in Int BY <1>4, <3>3, <3>4
    <3>6. \A n \in new : first[n] = 1 BY <1>4, <3>1
    <3>7. \A n \in new : refs'[n] = 1 \/ refs'[n] = 1 + 1 BY <3>1, <3>3, <3>4, <3>6
    <3>8. \A n \in 1 .. rcvd : refs'[n] = refs[n] BY <1>4, <3>2, <3>4
    <3>9. refs' \in [Pbufs -> Int] BY <2>1, <3>5
    <3>10. \A n \in new : refs'[n] \in Int /\ refs'[n] >= 1 BY <3>7
    <3> QED BY <3>8, <3>9, <3>10
  <2>3. \A d \in Contexts : pc[d] \in Leaving => ptr[d] < p /\ (ptr[d] \in linked' <=> ptr[d] \in linked)
    <3> SUFFICES ASSUME NEW d \in Contexts, pc[d] \in Leaving
                 PROVE  ptr[d] < p /\ (ptr[d] \in linked' <=> ptr[d] \in linked)
      OBVIOUS
    <3>1. ptr[d] \in 1 .. rcvd /\ ptr[d] < p BY <1>1, <1>6, <1>8 DEF Good, Shape, Leavers
    <3>2. ptr[d] \notin rcvd .. (rcvd + k - 1) BY <1>1, <3>1
    <3> QED BY <2>1, <3>1, <3>2
  <2>4. Typed'
    <3>1. waited' \subseteq 1 .. rcvd' BY <1>1, <1>2, <2>1
    <3>2. p' \in 0 .. rcvd' /\ rcvd' \in 0 .. Len(Lens) BY <1>1, <2>1, PbufsAre
    <3> QED BY <1>3, <2>1, <2>2, <3>1, <3>2 DEF Good, Shape, Typed
  <2>5. Order'
    <3>1. SentP' <=> SentP BY <2>1 DEF SentP
    <3> QED BY <1>3, <1>8, <2>1, <3>1 DEF Good, Shape, Order
  <2>6. Senders' BY <1>3, <2>1 DEF Good, Shape, Senders
  <2>7. Leavers'
    <3>1. \A d \in Contexts : pc[d] \in Leaving \cup {"recved", "window"} => ptr[d] \in 1 .. rcvd'
      BY <1>1 DEF Good, Shape, Leavers
    <3>2. \A d \in Contexts : pc[d] = "count" => ptr[d] \in linked'
      BY <2>1 DEF Good, Shape, Leavers
    <3> QED BY <1>3, <2>1, <2>3, <3>1, <3>2 DEF Good, Shape, Leavers, Contexts
  <2>8. Links'
    <3>1. \A n \in p .. (rcvd - 1) : n \in linked BY <1>8 DEF Good, Shape, Links
    <3>2. \A n \in p .. (rcvd' - 1) : n \in linked' BY <1>1, <2>1, <3>1
    <3>3. \A n \in linked' : n \in 1 .. (rcvd' - 1) BY <1>1, <1>2, <1>8, <2>1
    <3> QED BY <2>1, <3>2, <3>3 DEF Links
  <2>9. Counts'
    <3>1. \A n \in p .. rcvd' : n \in p .. rcvd \/ n \in new BY <1>1
    <3>2. \A n \in p .. rcvd : n \in 1 .. rcvd /\ n \notin new BY <1>1, <1>8
    <3>3. Taken' <=> Taken BY <1>3, <2>1, <2>3 DEF Taken, Leaving
    <3>4. \A n : LeftBy(n)' <=> LeftBy(n) BY <1>3, <2>1 DEF LeftBy
    <3>5. \A n \in p .. rcvd' :
            LET count == IF n = p /\ Taken THEN 2 ELSE 1
            IN  refs'[n] >= count /\ (n \notin waited' => refs'[n] = count)
      <4> SUFFICES ASSUME NEW n \in p .. rcvd'
                   PROVE  LET count == IF n = p /\ Taken THEN 2 ELSE 1
                          IN  refs'[n] >= count /\ (n \notin waited' => refs'[n] = count)
        OBVIOUS
      <4>1. CASE n \in new BY <1>1, <1>8, <2>1, <2>2, <4>1
      <4>2. CASE n \in p .. rcvd
        <5>1. refs'[n] = refs[n] /\ (n \in waited' <=> n \in waited) BY <2>1, <2>2, <3>2, <4>2
        <5>2. LET count == IF n = p /\ Taken THEN 2 ELSE 1
              IN  refs[n] >= count /\ (n \notin waited => refs[n] = count)
          BY <1>8, <4>2 DEF Good, Shape, Counts
        <5> QED BY <5>1, <5>2
      <4> QED BY <3>1, <4>1, <4>2
    <3>6. \A n \in linked' : n \in waited' => n + 1 \in waited'
      <4> SUFFICES ASSUME NEW n \in linked', n \in waited' PROVE n + 1 \in waited'
        OBVIOUS
      <4>1. CASE n \in rcvd .. (rcvd + k - 1)
        <5>1. n + 1 \in new BY <1>1, <4>1
        <5> QED BY <2>1, <5>1
      <4>2. CASE n \in linked
        <5>1. n \in 1 .. (rcvd - 1) BY <1>2, <4>2
        <5>2. n \in waited BY <1>1, <1>5, <2>1, <5>1
        <5> QED BY <2>1, <4>2, <5>2 DEF Good, Shape, Counts
      <4> QED BY <2>1, <4>1, <4>2
    <3>7. \A n \in 1 .. (p - 1) : n \notin waited' => refs'[n] = IF LeftBy(n)' THEN 1 ELSE 0
      <4>1. \A n \in 1 .. (p - 1) : n \in 1 .. rcvd BY <1>1
      <4>2. \A n \in 1 .. (p - 1) : n \notin waited => refs[n] = IF LeftBy(n) THEN 1 ELSE 0
        BY <1>8 DEF Good, Shape, Counts
      <4> QED BY <2>1, <2>2, <3>4, <4>1, <4>2
    <3>8. \A d \in Contexts : pc[d] \in Leaving => refs'[ptr[d]] >= 1
      BY <1>6, <2>2 DEF Good, Shape, Counts
    <3> QED BY <1>3, <1>8, <2>1, <3>3, <3>5, <3>6, <3>7, <3>8 DEF Counts
  <2>10. Life' BY <1>1, <1>3, <2>1 DEF Good, Life, Recv
  <2> QED BY <2>4, <2>5, <2>6, <2>7, <2>8, <2>9, <2>10 DEF Good, Shape
<1> QED BY <1>7, <1>8

----------------------------------------------------------------------------

LEMMA Invariance == Spec => []IInv
<1>1. Init => IInv
  <2> SUFFICES ASSUME Init PROVE Good
    BY DEF IInv
  <2> USE DEF Init
  <2>1. Typed
    <3>1. 0 \in Int /\ 0 \in 0 .. Len(Lens) /\ <<>> \in Seq(Nat) /\ "idle" \in Labels
      BY PbufsAre DEF Labels
    <3>2. refs \in [Pbufs -> Int] BY <3>1
    <3>3. pc \in [Contexts -> Labels] /\ ptr \in [Contexts -> Nat] BY <3>1
    <3>4. rcvd \in 0 .. Len(Lens) /\ p \in 0 .. rcvd /\ waited \subseteq 1 .. rcvd BY <3>1
    <3> QED BY <3>1, <3>2, <3>3, <3>4 DEF Typed
  <2>2. \A d \in Contexts : pc[d] = "idle" OBVIOUS
  <2>3. Order BY DEF Order
  <2>4. Senders BY <2>2 DEF Senders, Contexts, Sending
  <2>5. Leavers BY <2>2 DEF Leavers, Contexts, Leaving
  <2>6. Links BY DEF Links
  <2>7. Counts BY <2>2 DEF Counts, Leaving
  <2>8. Life BY DEF Life
  <2> QED BY <2>1, <2>3, <2>4, <2>5, <2>6, <2>7, <2>8 DEF Good, Shape
<1>2. IInv /\ [Next]_vars => IInv'
  <2> SUFFICES ASSUME IInv, [Next]_vars, ~torn' PROVE Good'
    BY DEF IInv
  <2>1. CASE UNCHANGED vars
    <3>1. Good BY <2>1 DEF IInv, vars
    <3> QED BY <2>1, <3>1 DEF vars, conn, data, Good, Shape, Typed, Order, SentP, Senders, Leavers,
                              Links, Counts, Taken, LeftBy, Life
  <2>2. CASE Next
    <3>1. Good BY <2>2 DEF IInv, Next
    <3>2. ASSUME NEW room \in BOOLEAN, Accept(room) PROVE Good' BY <3>1, <3>2, AcceptKeeps
    <3>3. ASSUME NEW k \in 1 .. 2, Recv(k) PROVE Good' BY <3>1, <3>3, RecvKeeps
    <3>4. ASSUME NEW n \in 1 .. SndBuf, Sent(n) PROVE Good' BY <3>1, <3>4, SentKeeps
    <3>5. ASSUME NEW c \in Contexts,
                 Check(c) \/ Fits(c) \/ (\E room \in BOOLEAN : Write(c, room)) \/ Follow(c) \/ Ref(c) \/ Recved(c)
          PROVE  Good'
      BY <3>1, <3>5, ReadsKeep
    <3>6. ASSUME NEW c \in Contexts,
                 Load(c) \/ Defer(c) \/ Copy(c) \/ Store(c) \/ Count(c) \/ Free(c) \/ Window(c) \/ Close(c)
          PROVE  Good'
      BY <3>1, <3>6, LoadKeeps, DeferKeeps, CopyKeeps, StoreKeeps, CountKeeps, FreeKeeps, WindowKeeps, CloseKeeps
    <3>7. ASSUME NEW c \in Contexts, NEW room \in BOOLEAN, Unhook(c, room) PROVE Good'
      BY <3>1, <3>7, UnhookKeeps
    <3>8. Fin \/ Fail => Good' BY <3>1, FinKeeps, FailKeeps
    <3>9. Poll \/ PollLeft \/ PollState => Good' BY <3>1, PollKeeps
    <3> QED BY <2>2, <3>2, <3>3, <3>4, <3>5, <3>6, <3>7, <3>8, <3>9 DEF Next, Step, GoesOn
  <2> QED BY <2>1, <2>2
<1> QED BY <1>1, <1>2, PTL DEF Spec

\* Whatever comes in is given to tcp_write once and in the order it came, though
\* poll and the interrupt share the work of tcp_echoserver_send and interleave at
\* any of its loads and stores, as long as neither overtakes the other.
THEOREM Echoes == Spec => []EchoInOrder
<1>1. IInv => EchoInOrder
  BY DEF IInv, Good, Shape, Order, Typed, EchoInOrder
<1> QED BY <1>1, Invariance, PTL

\* The reference counts of the chain es->p keep every pbuf until it is sent, and
\* the one that is being sent until it is freed, and no longer when it came while
\* nothing else was to be sent; es outlives the callbacks.
THEOREM ReferencesRight == Spec => []RefsRight
<1>1. IInv => UsedIsThere
  <2> SUFFICES ASSUME IInv, ~torn
               PROVE  /\ hooked \/ (\E c \in Contexts : pc[c] # "idle") => es = "allocated"
                      /\ pcb = "open" => \A n \in Chain(p) : refs[n] > 0
                      /\ \A c \in Contexts : pc[c] \in Sending \cup Leaving => refs[ptr[c]] > 0
    BY DEF UsedIsThere
  <2>1. Good BY DEF IInv
  <2>2. hooked \/ (\E c \in Contexts : pc[c] # "idle") => es = "allocated"
    BY <2>1 DEF Good, Life
  <2>3. \A n \in Chain(p) : refs[n] > 0
    <3>1. CASE p = 0 BY <3>1 DEF Chain
    <3>2. CASE p # 0
      <4>1. \A n \in p .. rcvd : refs[n] >= 1 /\ n \in 1 .. rcvd
        BY <2>1, <3>2, Basics DEF Good, Shape, Counts
      <4>2. \A n \in p .. rcvd : refs[n] \in Int BY <2>1, <4>1, Basics DEF Good
      <4> QED BY <2>1, <3>2, <4>1, <4>2, ChainIs DEF Good
    <3> QED BY <3>1, <3>2
  <2>4. ASSUME NEW c \in Contexts, pc[c] \in Sending \cup Leaving PROVE refs[ptr[c]] > 0
    <3>1. CASE pc[c] \in Sending
      <4>1. ptr[c] = p /\ p # 0 BY <2>1, <3>1 DEF Good, Shape, Senders
      <4>2. p \in 1 .. rcvd /\ p \in p .. rcvd BY <2>1, <4>1, Basics DEF Good
      <4>3. refs[p] >= 1 /\ refs[p] \in Int BY <2>1, <4>1, <4>2, Basics DEF Good, Shape, Counts
      <4> QED BY <4>1, <4>3
    <3>2. CASE pc[c] \in Leaving
      <4>1. refs[ptr[c]] >= 1 /\ refs[ptr[c]] \in Int
        BY <2>1, <3>2, Basics DEF Good, Shape, Counts, Leavers
      <4> QED BY <4>1
    <3> QED BY <2>4, <3>1, <3>2
  <2> QED BY <2>2, <2>3, <2>4
<1>2. IInv => OthersFreed
  <2> SUFFICES ASSUME IInv, ~torn, NEW n \in DOMAIN echoed, n \notin waited,
                      \A c \in Contexts : pc[c] \in Sending \cup Leaving => ptr[c] # n
               PROVE  refs[n] = 0
    BY DEF OthersFreed
  <2>1. Good BY DEF IInv
  <2>2. n \in 1 .. Len(echoed) /\ p \in Nat /\ rcvd \in Nat BY <2>1 DEF Good, Shape, Typed
  <2>3. n \in 1 .. (IF p = 0 THEN rcvd ELSE p - 1)
    <3>1. CASE p = 0 BY <2>1, <2>2, <3>1 DEF Good, Shape, Order
    <3>2. CASE p # 0 /\ SentP
      <4>1. n # p BY <2>1, <3>2 DEF SentP, Good, Shape, Senders, Sending
      <4> QED BY <2>1, <2>2, <3>2, <4>1 DEF Good, Shape, Order
    <3>3. CASE p # 0 /\ ~SentP BY <2>1, <2>2, <3>3 DEF Good, Shape, Order
    <3> QED BY <3>1, <3>2, <3>3
  <2>4. ~LeftBy(n) BY DEF LeftBy
  <2> QED BY <2>1, <2>3, <2>4 DEF Good, Shape, Counts
<1> QED BY <1>1, <1>2, Invariance, PTL DEF RefsRight

----------------------------------------------------------------------------
(* The sizes: the send buffer, the receive window and the counts of pbufs. *)

LEMMA UptoIs ==
    /\ Upto[0] = 0
    /\ \A n \in 0 .. Len(Lens) : Upto[n] \in Int
    /\ \A n \in 1 .. Len(Lens) : Lens[n] \in 1 .. SndBuf /\ Upto[n] = Upto[n - 1] + Lens[n]
    /\ \A n \in 0 .. Len(Lens), m \in 0 .. Len(Lens) : n <= m => Upto[n] <= Upto[m]
<1>1. Len(Lens) \in Nat /\ SndBuf \in Nat /\ \A n \in 1 .. Len(Lens) : Lens[n] \in 1 .. SndBuf
  BY LensAssumption, SizeAssumption
<1>2. Adds(Upto, Lens, Len(Lens))
  <2>1. \E s : Adds(s, Lens, Len(Lens))
    BY <1>1, SumExists
  <2> QED BY <2>1 DEF Adds, Upto
<1>3. /\ Upto[0] = 0
      /\ \A n \in 0 .. Len(Lens) : Upto[n] \in Int
      /\ \A n \in 1 .. Len(Lens) : Upto[n] = Upto[n - 1] + Lens[n]
  <2>1. \A n \in 1 .. Len(Lens) : Lens[n] \in Int
    BY <1>1
  <2> QED BY <1>1, <1>2, <2>1, SumSteps
<1>4. \A n \in (0 + 1) .. Len(Lens) : Upto[n - 1] <= Upto[n]
  <2> SUFFICES ASSUME NEW n \in 1 .. Len(Lens) PROVE Upto[n - 1] <= Upto[n]
    OBVIOUS
  <2>1. n - 1 \in 0 .. Len(Lens) /\ Lens[n] >= 1 /\ Lens[n] \in Int
    BY <1>1
  <2>2. Upto[n - 1] \in Int /\ Upto[n] = Upto[n - 1] + Lens[n]
    BY <1>3, <2>1
  <2> QED BY <2>1, <2>2
<1>5. \A n \in 0 .. Len(Lens), m \in 0 .. Len(Lens) : n <= m => Upto[n] <= Upto[m]
  <2>1. 0 \in Int /\ Len(Lens) \in Int
    BY <1>1
  <2> QED BY <1>3, <1>4, <2>1, Climbs
<1> QED BY <1>1, <1>3, <1>5

\* What a context has sent and tcp_recved has not yet given back to the window.
Owing == Leaving \cup {"recved", "window"}
Owed(c) == IF pc[c] \in Owing THEN Lens[ptr[c]] ELSE 0

\* What is not yet sent back is what the window is short of.
Sizes ==
    wnd = Wnd - Upto[rcvd] + Upto[IF p = 0 THEN rcvd ELSE p - 1] - Owed("isr") - Owed("main")

\* There is room in the send buffer for what tcp_write copies.
SendFits == \A c \in Contexts : pc[c] = "copy" => Lens[ptr[c]] <= sndbuf

\* Only what is chained to another pbuf and then goes on is referenced thrice.
Thrice ==
    /\ p # 0 => \A n \in (p + 1) .. rcvd : refs[n] <= 2
    /\ \A c \in Contexts : pc[c] \in {"ref", "count"} /\ ptr[c] \in linked => refs[p] <= 2

Sized == TypeOK /\ Sizes /\ SendFits /\ Thrice

\* What a step keeps of the sizes while neither overtakes the other; the types
\* hold even then.
Keeps == TypeOK' /\ (~torn' => Sizes' /\ SendFits' /\ Thrice' /\ pcb' # "reset")

LEMMA SizeTypes ==
    ASSUME Good, Sized
    PROVE  /\ Len(Lens) \in Nat /\ SndBuf \in Nat /\ Wnd \in Nat /\ Pbufs = 1 .. Len(Lens)
           /\ rcvd \in Nat /\ rcvd <= Len(Lens) /\ p \in Nat /\ p <= rcvd
           /\ sndbuf \in Nat /\ sndbuf <= SndBuf /\ wnd \in Nat /\ wnd <= Wnd
           /\ refs \in [Pbufs -> 0 .. 3] /\ echoed \in Seq(Pbufs)
           /\ \A n \in Pbufs : refs[n] \in 0 .. 3
           /\ ptr \in [Contexts -> {0} \cup Pbufs]
<1>1. /\ rcvd \in Nat /\ rcvd <= Len(Lens) /\ p \in Nat /\ p <= rcvd
      /\ sndbuf \in Nat /\ sndbuf <= SndBuf /\ wnd \in Nat /\ wnd <= Wnd
  BY PbufsAre, SizeAssumption DEF Sized, TypeOK
<1>2. /\ refs \in [Pbufs -> 0 .. 3] /\ echoed \in Seq(Pbufs) /\ ptr \in [Contexts -> {0} \cup Pbufs]
  BY DEF Sized, TypeOK
<1> QED BY <1>1, <1>2, PbufsAre, SizeAssumption

LEMMA OwedIs ==
    ASSUME Good, NEW c \in Contexts
    PROVE  /\ Owed(c) \in Nat
           /\ pc[c] \in Owing => ptr[c] \in 1 .. rcvd /\ Lens[ptr[c]] \in 1 .. SndBuf /\ Owed(c) = Lens[ptr[c]]
           /\ pc[c] \notin Owing => Owed(c) = 0
<1>1. pc[c] \in Owing => ptr[c] \in 1 .. rcvd /\ ptr[c] \in 1 .. Len(Lens)
  <2>1. pc[c] \in Owing => ptr[c] \in 1 .. rcvd BY DEF Owing, Good, Shape, Leavers
  <2> QED BY <2>1, Basics, PbufsAre DEF Good
<1>2. pc[c] \in Owing => Lens[ptr[c]] \in 1 .. SndBuf BY <1>1, UptoIs
<1> QED BY <1>1, <1>2, SizeAssumption DEF Owed

\* A step that does not move es->p and gives nothing back to the window.
Quiet(c, label) ==
    /\ Goto(c, label)
    /\ UNCHANGED <<p, linked, rcvd, wnd>>
    /\ label \in Owing <=> pc[c] \in Owing
    /\ label \in {"ref", "count"} => pc[c] = "ref"
    /\ \A d \in Contexts : d # c \/ label \in Owing => ptr'[d] = ptr[d]
    /\ \A n \in Pbufs : refs'[n] \in 0 .. 3 /\ refs'[n] <= refs[n]

LEMMA QuietSized ==
    ASSUME Good, Sized, NEW c \in Contexts, NEW label \in Labels, Quiet(c, label)
    PROVE  Sizes' /\ Thrice'
<1> USE DEF Quiet
<1>1. /\ pc' \in [Contexts -> Labels]
      /\ \A d \in Contexts : pc'[d] = IF d = c THEN label ELSE pc[d]
  BY Moves DEF Good, Shape
<1>2. \A d \in Contexts : Owed(d)' = Owed(d)
  BY <1>1 DEF Owed
<1>3. Sizes'
  <2>1. Owed("isr")' = Owed("isr") /\ Owed("main")' = Owed("main") BY <1>2 DEF Contexts
  <2> QED BY <2>1 DEF Sized, Sizes
<1>4. Thrice'
  <2>1. ASSUME p # 0, NEW n \in (p + 1) .. rcvd PROVE refs'[n] <= 2
    <3>1. n \in Pbufs BY SizeTypes
    <3>2. refs[n] <= 2 BY <2>1 DEF Sized, Thrice
    <3>3. refs[n] \in 0 .. 3 /\ refs'[n] \in 0 .. 3 /\ refs'[n] <= refs[n] BY <3>1, SizeTypes
    <3> QED BY <3>2, <3>3
  <2>2. ASSUME NEW d \in Contexts, pc'[d] \in {"ref", "count"}, ptr'[d] \in linked PROVE refs'[p] <= 2
    <3>1. pc[d] \in {"ref", "count"} BY <1>1, <2>2
    <3>2. ptr'[d] = ptr[d] BY <1>1, <2>2 DEF Owing, Leaving
    <3>3. refs[p] <= 2 BY <2>2, <3>1, <3>2 DEF Sized, Thrice
    <3>4. p = ptr[d] + 1 /\ ptr[d] \in Nat
      BY <2>2, <3>1, <3>2 DEF Good, Shape, Leavers, Leaving, Links
    <3>5. p \in Pbufs BY <3>4, SizeTypes
    <3>6. refs[p] \in 0 .. 3 /\ refs'[p] \in 0 .. 3 /\ refs'[p] <= refs[p] BY <3>5, SizeTypes
    <3> QED BY <3>3, <3>6
  <2> QED BY <2>1, <2>2 DEF Thrice
<1> QED BY <1>3, <1>4

LEMMA RoomKept ==
    ASSUME Good, Sized, NEW c \in Contexts, NEW label \in Labels, Goto(c, label),
           sndbuf' \in Nat, sndbuf' >= sndbuf,
           label = "copy" => Lens[ptr'[c]] <= sndbuf',
           \A d \in Contexts : d # c => ptr'[d] = ptr[d]
    PROVE  SendFits'
<1>1. \A d \in Contexts : pc'[d] = IF d = c THEN label ELSE pc[d]
  BY Moves DEF Good, Shape
<1> SUFFICES ASSUME NEW d \in Contexts, pc'[d] = "copy" PROVE Lens[ptr'[d]] <= sndbuf'
  BY DEF SendFits
<1>2. CASE d = c BY <1>1, <1>2
<1>3. CASE d # c
  <2>1. pc[d] = "copy" /\ ptr'[d] = ptr[d] BY <1>1, <1>3
  <2>2. Lens[ptr[d]] <= sndbuf BY <2>1 DEF Sized, SendFits
  <2>3. ptr[d] \in 1 .. Len(Lens)
    <3>1. ptr[d] = p /\ p # 0 BY <2>1 DEF Good, Shape, Senders, Sending
    <3> QED BY <3>1, SizeTypes
  <2>4. Lens[ptr[d]] \in Int BY <2>3, UptoIs
  <2> QED BY <2>1, <2>2, <2>4, SizeTypes
<1> QED BY <1>2, <1>3

\* The steps that read.
LEMMA ReadSized ==
    ASSUME Good, Sized, pcb # "reset", NEW c \in Contexts, NEW from, NEW label \in Labels, Reads(c, from, label),
           torn' \in BOOLEAN, label \in Owing <=> from \in Owing,
           label \in {"ref", "count"} => from = "ref",
           label = "copy" => Lens[ptr[c]] <= sndbuf
    PROVE  Keeps
<1> USE DEF Reads, conn, data
<1>1. pc[c] = from BY AtAlone
<1>2. pc' \in [Contexts -> Labels] BY Moves DEF Good, Shape
<1>3. TypeOK' BY <1>2 DEF Sized, TypeOK
<1>4. Quiet(c, label)
  <2>1. \A n \in Pbufs : refs[n] \in 0 .. 3 /\ refs[n] <= refs[n] BY SizeTypes
  <2> QED BY <1>1, <2>1 DEF Quiet
<1>5. Sizes' /\ Thrice' BY <1>4, QuietSized
<1>6. SendFits' BY RoomKept, SizeTypes
<1> QED BY <1>3, <1>5, <1>6 DEF Keeps

LEMMA ReadsSized ==
    ASSUME Good, Sized, pcb # "reset", NEW c \in Contexts,
           \/ Check(c) \/ Fits(c) \/ (\E room \in BOOLEAN : Write(c, room)) \/ Follow(c) \/ Ref(c) \/ Recved(c)
           \/ c = "main" /\ (Poll \/ PollLeft \/ PollState)
    PROVE  Keeps
<1> USE DEF Labels, Sending, Leaving
<1>1. PICK from \in Labels, label \in Labels :
          /\ Reads(c, from, label)
          /\ label \in Owing <=> from \in Owing
          /\ label \in {"ref", "count"} => from = "ref"
          /\ label = "copy" => Lens[ptr[c]] <= sndbuf
  <2> USE DEF Owing
  <2>1. CASE Check(c) BY <2>1 DEF Check
  <2>2. CASE Fits(c) BY <2>2 DEF Fits
  <2>3. CASE \E room \in BOOLEAN : Write(c, room)
    <3> PICK room \in BOOLEAN : Write(c, room) BY <2>3
    <3>1. PICK label \in {"copy", "defer"} : Reads(c, "write", label) /\ (label = "copy" => Lens[ptr[c]] <= sndbuf)
      BY DEF Write
    <3> QED BY <3>1
  <2>4. CASE Follow(c) BY <2>4 DEF Follow
  <2>5. CASE Ref(c) BY <2>5 DEF Ref
  <2>6. CASE Recved(c) BY <2>6 DEF Recved
  <2>7. CASE c = "main" /\ (Poll \/ PollLeft \/ PollState) BY <2>7 DEF Poll, PollLeft, PollState
  <2> QED BY <2>1, <2>2, <2>3, <2>4, <2>5, <2>6, <2>7
<1>2. torn' \in BOOLEAN
  <2>1. torn \in BOOLEAN BY DEF Sized, TypeOK
  <2> QED BY <2>1 DEF Check, Fits, Write, Follow, Ref, Recved, Poll, PollLeft, PollState
<1> QED BY <1>1, <1>2, ReadSized

LEMMA LoadSized ==
    ASSUME Good, Sized, pcb # "reset", NEW c \in Contexts, Load(c)
    PROVE  Keeps
<1> USE DEF Load, conn, data
<1>1. "write" \in Labels BY DEF Labels, Sending
<1>2. pc' \in [Contexts -> Labels] BY <1>1, Moves DEF Good, Shape
<1>3. pc[c] = "load" BY AtAlone
<1>4. p \in {0} \cup Pbufs /\ ptr' \in [Contexts -> {0} \cup Pbufs] /\ \A d \in Contexts : d # c => ptr'[d] = ptr[d]
  BY SizeTypes
<1>5. TypeOK' BY <1>2, <1>4 DEF Sized, TypeOK
<1>6. Quiet(c, "write")
  <2>1. \A n \in Pbufs : refs[n] \in 0 .. 3 /\ refs[n] <= refs[n] BY SizeTypes
  <2> QED BY <1>3, <1>4, <2>1 DEF Quiet, Owing, Leaving
<1>7. Sizes' /\ Thrice' BY <1>1, <1>6, QuietSized
<1>8. SendFits' BY <1>1, <1>4, RoomKept, SizeTypes
<1> QED BY <1>5, <1>7, <1>8 DEF Keeps

LEMMA DeferSized ==
    ASSUME Good, Sized, pcb # "reset", NEW c \in Contexts, Defer(c)
    PROVE  Keeps
<1> USE DEF Defer, conn
<1>1. "idle" \in Labels BY DEF Labels
<1>2. pc' \in [Contexts -> Labels] BY <1>1, Moves DEF Good, Shape
<1>3. pc[c] = "defer" /\ p' = p
  <2>1. pc[c] = "defer" BY AtAlone
  <2> QED BY <2>1 DEF Good, Shape, Senders, Sending
<1>4. TypeOK' BY <1>2, <1>3 DEF Sized, TypeOK, Overtakes
<1>5. Quiet(c, "idle")
  <2>1. \A n \in Pbufs : refs[n] \in 0 .. 3 /\ refs[n] <= refs[n] BY SizeTypes
  <2> QED BY <1>3, <2>1 DEF Quiet, Owing, Leaving
<1>6. Sizes' /\ Thrice' BY <1>1, <1>5, QuietSized
<1>7. SendFits' BY <1>1, RoomKept, SizeTypes
<1> QED BY <1>4, <1>6, <1>7 DEF Keeps

\* What is copied fits, and takes nothing that poll is about to copy: Overtakes
\* covers that.
LEMMA CopySized ==
    ASSUME Good, Sized, pcb # "reset", NEW c \in Contexts, Copy(c)
    PROVE  Keeps
<1> USE DEF Copy, conn, data
<1>1. "next" \in Labels BY DEF Labels, Sending
<1>2. /\ pc' \in [Contexts -> Labels]
      /\ \A d \in Contexts : pc'[d] = IF d = c THEN "next" ELSE pc[d]
  BY <1>1, Moves DEF Good, Shape
<1>3. pc[c] = "copy" /\ (c = "main" => pc["isr"] = "idle") BY AtAlone
<1>4. ptr[c] = p /\ p \in Pbufs /\ Lens[p] \in 1 .. SndBuf /\ Lens[p] <= sndbuf
  <2>1. ptr[c] = p /\ p # 0 BY <1>3 DEF Good, Shape, Senders, Sending
  <2>2. p \in Pbufs BY <2>1, SizeTypes
  <2>3. Lens[p] \in 1 .. SndBuf BY <2>2, PbufsAre, UptoIs
  <2>4. Lens[p] <= sndbuf BY <1>3, <2>1 DEF Sized, SendFits
  <2> QED BY <2>1, <2>2, <2>3, <2>4
<1>5. TypeOK'
  <2>1. echoed' \in Seq(Pbufs)
    <3>1. echoed' = Append(echoed, p) /\ echoed \in Seq(Pbufs) BY <1>4, SizeTypes
    <3> QED BY <1>4, <3>1, AppendProperties
  <2>2. sndbuf' \in 0 .. SndBuf BY <1>4, SizeTypes
  <2> QED BY <1>2, <2>1, <2>2 DEF Sized, TypeOK, Overtakes
<1>6. Quiet(c, "next")
  <2>1. \A n \in Pbufs : refs[n] \in 0 .. 3 /\ refs[n] <= refs[n] BY SizeTypes
  <2> QED BY <1>3, <2>1 DEF Quiet, Owing, Leaving
<1>7. Sizes' /\ Thrice' BY <1>1, <1>6, QuietSized
<1>8. ~torn' => SendFits'
  <2> SUFFICES ASSUME ~torn', NEW d \in Contexts, pc'[d] = "copy" PROVE FALSE
    BY DEF SendFits
  <2>1. d # c /\ pc[d] = "copy" BY <1>2
  <2>2. c = "isr" /\ d = "main" BY <1>3, <2>1 DEF Contexts
  <2>3. sndbuf' # sndbuf BY <1>4, SizeTypes
  <2> QED BY <2>1, <2>2, <2>3 DEF Overtakes
<1> QED BY <1>5, <1>7, <1>8 DEF Keeps

\* es->p moves on to the next pbuf, and the one it leaves is owed to the window.
LEMMA StoreSized ==
    ASSUME Good, Sized, pcb # "reset", NEW c \in Contexts, Store(c)
    PROVE  Keeps
<1> USE DEF Store, conn
<1>1. "ref" \in Labels BY DEF Labels, Leaving
<1>2. /\ pc' \in [Contexts -> Labels]
      /\ \A d \in Contexts : pc'[d] = IF d = c THEN "ref" ELSE pc[d]
  BY <1>1, Moves DEF Good, Shape
<1>3. pc[c] = "store" /\ (c = "main" => pc["isr"] = "idle") BY AtAlone
<1>4. /\ ptr[c] = p /\ p # 0 /\ p \in Nat /\ rcvd \in Nat /\ p <= rcvd /\ p \in 1 .. Len(Lens)
      /\ rcvd <= Len(Lens)
  BY <1>3, SizeTypes DEF Good, Shape, Senders, Sending
<1>5. p' = IF p < rcvd THEN p + 1 ELSE 0
  BY <1>4, FollowingIs DEF Good
<1>6. TypeOK'
  <2>1. p' \in 0 .. rcvd BY <1>4, <1>5
  <2> QED BY <1>2, <2>1 DEF Sized, TypeOK, Overtakes
<1>7. Sizes'
  <2>1. Owed(c)' = Lens[p] /\ Owed(c) = 0
    BY <1>2, <1>3, <1>4 DEF Owed, Owing, Leaving
  <2>2. \A d \in Contexts : d # c => Owed(d)' = Owed(d) /\ Owed(d) \in Nat
    <3>1. \A d \in Contexts : d # c => Owed(d)' = Owed(d) BY <1>2 DEF Owed
    <3> QED BY <3>1, OwedIs
  <2>3. /\ Lens[p] \in Int /\ Upto[p] = Upto[p - 1] + Lens[p] /\ Upto[p] \in Int /\ Upto[p - 1] \in Int
        /\ Upto[rcvd] \in Int
    <3>1. p \in 0 .. Len(Lens) /\ p - 1 \in 0 .. Len(Lens) /\ rcvd \in 0 .. Len(Lens) BY <1>4, SizeTypes
    <3> QED BY <1>4, <3>1, UptoIs
  <2>4. (IF p' = 0 THEN rcvd ELSE p' - 1) = p BY <1>4, <1>5
  <2>5. PICK o \in Nat : Owed("isr") + Owed("main") = o /\ Owed("isr")' + Owed("main")' = o + Lens[p]
    <3>1. CASE c = "isr"
      <4>1. Owed("main")' = Owed("main") /\ Owed("main") \in Nat BY <2>2, <3>1 DEF Contexts
      <4> QED BY <2>1, <2>3, <3>1, <4>1
    <3>2. CASE c = "main"
      <4>1. Owed("isr")' = Owed("isr") /\ Owed("isr") \in Nat BY <2>2, <3>2 DEF Contexts
      <4> QED BY <2>1, <2>3, <3>2, <4>1
    <3> QED BY <3>1, <3>2 DEF Contexts
  <2>6. /\ Owed("isr") \in Nat /\ Owed("main") \in Nat
        /\ Owed("isr")' \in Int /\ Owed("main")' \in Int
    BY <2>1, <2>2, <2>3, OwedIs DEF Contexts
  <2>7. wnd = Wnd - Upto[rcvd] + Upto[p - 1] - Owed("isr") - Owed("main")
    BY <1>4 DEF Sized, Sizes
  <2>8. wnd = Wnd - Upto[rcvd] + Upto[p] - Owed("isr")' - Owed("main")'
    <3>1. Wnd \in Nat BY SizeTypes
    <3> QED BY ONLY <2>3, <2>5, <2>6, <2>7, <3>1
  <2> QED BY <2>4, <2>8 DEF Sizes
<1>8. SendFits' BY <1>1, RoomKept, SizeTypes
<1>9. ~torn' => Thrice'
  <2> SUFFICES ASSUME ~torn' PROVE Thrice' OBVIOUS
  <2>1. \A n \in (p + 1) .. rcvd : refs[n] <= 2 BY <1>4 DEF Sized, Thrice
  <2>2. p' # 0 => p' \in (p + 1) .. rcvd /\ \A n \in (p' + 1) .. rcvd : n \in (p + 1) .. rcvd
    BY <1>4, <1>5
  <2>3. ASSUME NEW d \in Contexts, pc'[d] \in {"ref", "count"}, ptr[d] \in linked
        PROVE  refs[p'] <= 2
    <3>1. CASE d = c
      <4>1. p < rcvd BY <1>4, <2>3, <3>1 DEF Good, Shape, Links
      <4>2. p' # 0 BY <1>4, <1>5, <4>1
      <4> QED BY <2>1, <2>2, <4>2
    <3>2. CASE d # c
      <4>1. pc[d] \in Leaving /\ c = "isr" /\ d = "main" BY <1>2, <1>3, <2>3, <3>2 DEF Contexts, Leaving
      <4>2. p = ptr[d] + 1 /\ ptr[d] \in 1 .. rcvd BY <2>3, <4>1 DEF Good, Shape, Leavers
      <4>3. p \in Chain(ptr["main"]) BY <2>3, <4>1, <4>2, NextInChain DEF Good
      <4>4. p' # p BY <1>4, <1>5
      <4> QED BY <4>1, <4>3, <4>4 DEF Overtakes, Leaving
    <3> QED BY <3>1, <3>2
  <2> QED BY <2>1, <2>2, <2>3 DEF Thrice
<1> QED BY <1>6, <1>7, <1>8, <1>9 DEF Keeps

\* The reference that es->p gets is the third at most.
LEMMA CountSized ==
    ASSUME Good, Sized, pcb # "reset", NEW c \in Contexts, Count(c)
    PROVE  Keeps
<1> USE DEF Count, conn
<1>1. "free" \in Labels BY DEF Labels, Leaving
<1>2. /\ pc' \in [Contexts -> Labels]
      /\ \A d \in Contexts : pc'[d] = IF d = c THEN "free" ELSE pc[d]
  BY <1>1, Moves DEF Good, Shape
<1>3. pc[c] = "count" /\ pc[c] \in Leaving /\ (c = "main" => pc["isr"] = "idle")
  BY AtAlone DEF Leaving
<1>4. ptr[c] \in linked /\ p = ptr[c] + 1 /\ ptr[c] \in 1 .. rcvd
  BY <1>3 DEF Good, Shape, Leavers
<1>5. p \in Pbufs /\ p # 0 /\ p \in Nat /\ refs[p] \in 0 .. 3 /\ refs[p] <= 2
  <2>1. p \in Nat /\ p # 0 BY <1>4, SizeTypes
  <2>2. p \in Pbufs BY <2>1, SizeTypes
  <2>3. refs[p] <= 2 BY <1>3, <1>4 DEF Sized, Thrice
  <2> QED BY <2>1, <2>2, <2>3, SizeTypes
<1>6. /\ refs' \in [Pbufs -> 0 .. 3]
      /\ \A n \in Pbufs : n # p => refs'[n] = refs[n]
  <2>1. refs[p] + 1 \in 0 .. 3 BY <1>5
  <2>2. refs \in [Pbufs -> 0 .. 3] BY SizeTypes
  <2> QED BY <1>5, <2>1, <2>2
<1>7. TypeOK' BY <1>2, <1>6 DEF Sized, TypeOK
<1>8. Sizes'
  <2>1. \A d \in Contexts : Owed(d)' = Owed(d) BY <1>2, <1>3 DEF Owed, Owing, Leaving
  <2>2. Owed("isr")' = Owed("isr") /\ Owed("main")' = Owed("main") BY <2>1 DEF Contexts
  <2> QED BY <2>2 DEF Sized, Sizes
<1>9. SendFits' BY <1>1, RoomKept, SizeTypes
<1>10. Thrice'
  <2>1. ASSUME NEW n \in (p + 1) .. rcvd PROVE refs'[n] <= 2
    <3>1. n \in Pbufs /\ n # p BY <1>5, SizeTypes
    <3>2. refs[n] <= 2 BY <1>5 DEF Sized, Thrice
    <3> QED BY <1>6, <3>1, <3>2
  <2>2. ASSUME NEW d \in Contexts, pc'[d] \in {"ref", "count"}, ptr[d] \in linked PROVE FALSE
    <3>1. d # c /\ pc[d] \in Leaving BY <1>2, <2>2 DEF Leaving
    <3>2. c = "isr" /\ d = "main" BY <1>3, <3>1 DEF Contexts, Leaving
    <3> QED BY <1>3, <2>2, <3>1, <3>2 DEF Good, Shape, Leavers
  <2> QED BY <2>1, <2>2 DEF Thrice
<1> QED BY <1>7, <1>8, <1>9, <1>10 DEF Keeps

LEMMA FreeSized ==
    ASSUME Good, Sized, pcb # "reset", NEW c \in Contexts, Free(c)
    PROVE  Keeps
<1>1. "recved" \in Labels BY DEF Labels
<1>2. Goto(c, "recved") /\ UNCHANGED <<conn, p, linked, rcvd, waited, wnd, sndbuf, echoed, ptr, torn>>
  BY DEF Free
<1>3. pc' \in [Contexts -> Labels] BY <1>1, <1>2, Moves DEF Good, Shape
<1>4. pc[c] = "free" BY AtAlone DEF Free
<1>5. \A n \in Pbufs : refs'[n] \in 0 .. 3 /\ refs'[n] <= refs[n]
  <2> SUFFICES ASSUME NEW n \in Pbufs PROVE refs'[n] \in 0 .. 3 /\ refs'[n] <= refs[n]
    OBVIOUS
  <2>1. PICK y : y = ptr[c] OBVIOUS
  <2>2. refs' = AfterFree(refs, y) BY <2>1 DEF Free
  <2>3. refs[n] \in 0 .. 3 BY SizeTypes
  <2>4. y \in Pbufs /\ refs[y] \in 0 .. 3 /\ refs[y] >= 1
    <3>1. pc[c] \in Leaving BY <1>4 DEF Leaving
    <3>2. y \in 1 .. rcvd /\ refs[y] >= 1 BY <2>1, <3>1 DEF Good, Shape, Leavers, Counts
    <3> QED BY <3>2, SizeTypes, Basics DEF Good
  <2>5. CASE n = y
    <3>1. refs'[y] = refs[y] - 1 BY <1>4, <2>1, <2>2, FreedOne DEF Good
    <3> QED BY <2>4, <2>5, <3>1
  <2>6. CASE n # y /\ y \in linked /\ n = p
    <3>1. refs'[p] = IF refs[y] = 1 THEN refs[p] - 1 ELSE refs[p] BY <1>4, <2>1, <2>2, <2>6, FreedOne DEF Good
    <3>2. refs[p] >= 2
      <4>1. Taken BY <1>4, <2>1, <2>6 DEF Taken
      <4>2. p # 0 /\ p \in p .. rcvd BY <2>6, SizeTypes
      <4> QED BY <4>1, <4>2 DEF Good, Shape, Counts
    <3> QED BY <2>3, <2>6, <3>1, <3>2
  <2>7. CASE n # y /\ ~(y \in linked /\ n = p)
    <3>1. refs'[n] = refs[n] BY <1>4, <2>1, <2>2, <2>7, FreedOne DEF Good
    <3> QED BY <2>3, <3>1
  <2> QED BY <2>5, <2>6, <2>7
<1>6. refs' \in [Pbufs -> 0 .. 3]
  <2>1. refs' \in [Pbufs -> Int]
    <3>1. refs' = AfterFree(refs, ptr[c]) BY DEF Free
    <3>2. PICK y : y = ptr[c] OBVIOUS
    <3> QED BY <1>4, <3>1, <3>2, FreedOne DEF Good
  <2> QED BY <1>5, <2>1
<1>7. TypeOK' BY <1>2, <1>3, <1>6 DEF Sized, TypeOK, conn
<1>8. Quiet(c, "recved") BY <1>2, <1>4, <1>5 DEF Quiet, Owing, Leaving
<1>9. Sizes' /\ Thrice' BY <1>1, <1>8, QuietSized
<1>10. SendFits' BY <1>1, <1>2, RoomKept, SizeTypes
<1> QED BY <1>2, <1>7, <1>9, <1>10 DEF Keeps, conn

\* tcp_recved gives the window back what tcp_input took of it.
LEMMA WindowSized ==
    ASSUME Good, Sized, pcb # "reset", NEW c \in Contexts, Window(c)
    PROVE  Keeps
<1> USE DEF Window, conn
<1>1. "check" \in Labels BY DEF Labels
<1>2. /\ pc' \in [Contexts -> Labels]
      /\ \A d \in Contexts : pc'[d] = IF d = c THEN "check" ELSE pc[d]
  BY <1>1, Moves DEF Good, Shape
<1>3. pc[c] = "window" BY AtAlone
<1>4. Owed(c) = Lens[ptr[c]] /\ Lens[ptr[c]] \in Nat /\ Owed(c)' = 0
  <2>1. Owed(c) = Lens[ptr[c]] /\ Owed(c) \in Nat BY <1>3, OwedIs DEF Owing
  <2>2. Owed(c)' = 0 BY <1>2 DEF Owed, Owing, Leaving
  <2> QED BY <2>1, <2>2
<1>5. PICK o \in Nat : Owed("isr") + Owed("main") = o + Lens[ptr[c]] /\ Owed("isr")' + Owed("main")' = o
  <2>1. \A d \in Contexts : d # c => Owed(d)' = Owed(d) /\ Owed(d) \in Nat
    <3>1. \A d \in Contexts : d # c => Owed(d)' = Owed(d) BY <1>2 DEF Owed
    <3> QED BY <3>1, OwedIs
  <2>2. CASE c = "isr"
    <3>1. Owed("main")' = Owed("main") /\ Owed("main") \in Nat BY <2>1, <2>2 DEF Contexts
    <3> QED BY <1>4, <2>2, <3>1
  <2>3. CASE c = "main"
    <3>1. Owed("isr")' = Owed("isr") /\ Owed("isr") \in Nat BY <2>1, <2>3 DEF Contexts
    <3> QED BY <1>4, <2>3, <3>1
  <2> QED BY <2>2, <2>3 DEF Contexts
<1>6. PICK u \in Int, v \in Int :
        u = Upto[rcvd] /\ v = Upto[IF p = 0 THEN rcvd ELSE p - 1] /\ v <= u
  <2> DEFINE q == IF p = 0 THEN rcvd ELSE p - 1
  <2>1. q \in 0 .. Len(Lens) /\ rcvd \in 0 .. Len(Lens) /\ q <= rcvd BY SizeTypes
  <2> HIDE DEF q
  <2>2. Upto[q] \in Int /\ Upto[rcvd] \in Int /\ Upto[q] <= Upto[rcvd] BY <2>1, UptoIs
  <2> QED BY <2>2 DEF q
<1>7. /\ Owed("isr") \in Nat /\ Owed("main") \in Nat
      /\ Owed("isr")' \in Nat /\ Owed("main")' \in Nat
  <2>1. \A d \in Contexts : Owed(d) \in Nat /\ Owed(d)' \in Nat
    <3>1. \A d \in Contexts : d # c => Owed(d)' = Owed(d) BY <1>2 DEF Owed
    <3> QED BY <1>4, <3>1, OwedIs
  <2> QED BY <2>1 DEF Contexts
<1>8. wnd' = Wnd - u + v - Owed("isr")' - Owed("main")' /\ wnd' \in 0 .. Wnd
  <2>1. wnd = Wnd - u + v - Owed("isr") - Owed("main") BY <1>6 DEF Sized, Sizes
  <2>2. wnd' = wnd + Lens[ptr[c]] OBVIOUS
  <2>3. Wnd \in Nat /\ wnd \in Nat BY SizeTypes
  <2> QED BY ONLY <1>4, <1>5, <1>6, <1>7, <2>1, <2>2, <2>3
<1>9. TypeOK' BY <1>2, <1>8 DEF Sized, TypeOK, Overtakes
<1>10. Sizes' BY <1>6, <1>8 DEF Sizes
<1>11. SendFits' BY <1>1, RoomKept, SizeTypes
<1>12. Thrice'
  <2>1. \A d \in Contexts : pc'[d] \in {"ref", "count"} => pc[d] = pc'[d] BY <1>2
  <2> QED BY <2>1 DEF Sized, Thrice
<1> QED BY <1>9, <1>10, <1>11, <1>12 DEF Keeps

\* Who closes is alone and has sent all: tcp_close finds the window open.
LEMMA UnhookSized ==
    ASSUME Good, Sized, pcb # "reset", NEW c \in Contexts, NEW room \in BOOLEAN, Unhook(c, room)
    PROVE  Keeps
<1> USE DEF Unhook, data
<1>1. "idle" \in Labels BY DEF Labels
<1>2. /\ pc' \in [Contexts -> Labels]
      /\ \A d \in Contexts : pc'[d] = IF d = c THEN "idle" ELSE pc[d]
  BY <1>1, Moves DEF Good, Shape
<1>3. pc[c] = "unhook" /\ (c = "main" => pc["isr"] = "idle") BY AtAlone
<1>4. ~torn' => pcb' # "reset"
  <2> SUFFICES ASSUME ~torn' PROVE wnd = Wnd OBVIOUS
  <2>1. p = 0 BY <1>3 DEF Good, Life
  <2>2. \A d \in Contexts : pc[d] \notin Owing
    <3>1. c = "isr" => pc["main"] = "idle"
      <4>1. pcb' # "open" OBVIOUS
      <4> QED BY <4>1 DEF Overtakes
    <3> QED BY <1>3, <3>1 DEF Contexts, Owing, Leaving
  <2>3. Owed("isr") = 0 /\ Owed("main") = 0 BY <2>2, OwedIs DEF Contexts
  <2>4. Upto[rcvd] \in Int
    <3>1. rcvd \in 0 .. Len(Lens) BY SizeTypes
    <3> QED BY <3>1, UptoIs
  <2>5. wnd = Wnd - Upto[rcvd] + Upto[rcvd] - 0 - 0 BY <2>1, <2>3 DEF Sized, Sizes
  <2> QED BY <2>4, <2>5, SizeTypes
<1>5. TypeOK' BY <1>2 DEF Sized, TypeOK, Overtakes
<1>6. Quiet(c, "idle")
  <2>1. \A n \in Pbufs : refs[n] \in 0 .. 3 /\ refs[n] <= refs[n] BY SizeTypes
  <2> QED BY <1>3, <2>1 DEF Quiet, Owing, Leaving
<1>7. Sizes' /\ Thrice' BY <1>1, <1>6, QuietSized
<1>8. SendFits' BY <1>1, RoomKept, SizeTypes
<1> QED BY <1>4, <1>5, <1>7, <1>8 DEF Keeps

\* The steps that touch neither a pbuf nor the window.
LEMMA OthersSized ==
    ASSUME Good, Sized, pcb # "reset",
           Fin \/ (\E n \in 1 .. SndBuf : Sent(n)) \/ (\E c \in Contexts : Close(c))
    PROVE  Keeps
<1>1. PICK c \in Contexts, label \in {"close", "check", "idle", "unhook"} :
          Goto(c, label) /\ pc[c] \in {"idle", "close"}
  <2>1. "isr" \in Contexts BY DEF Contexts
  <2>2. ASSUME NEW n \in 1 .. SndBuf, Sent(n)
        PROVE  \E label \in {"check", "close", "idle"} : Goto("isr", label) /\ pc["isr"] = "idle"
    BY <2>2 DEF Sent
  <2>3. ASSUME NEW c \in Contexts, Close(c)
        PROVE  Goto(c, "unhook") /\ pc[c] = "close"
    BY <2>3, AtAlone DEF Close
  <2>4. Fin => \E label \in {"check", "close"} : Goto("isr", label) /\ pc["isr"] = "idle"
    BY DEF Fin
  <2> QED BY <2>1, <2>2, <2>3, <2>4
<1>2. /\ UNCHANGED <<p, refs, linked, rcvd, waited, wnd, echoed, ptr, pcb, es>>
      /\ hooked' \in BOOLEAN /\ fin' \in BOOLEAN /\ torn' \in BOOLEAN /\ state' \in {state, "closing"}
  <2>1. torn \in BOOLEAN /\ hooked \in BOOLEAN /\ fin \in BOOLEAN BY DEF Sized, TypeOK
  <2>2. ASSUME NEW n \in 1 .. SndBuf, Sent(n)
        PROVE  UNCHANGED <<conn, data, echoed, ptr>> /\ torn' \in BOOLEAN
    BY <2>2 DEF Sent, Overtakes
  <2> QED BY <2>1, <2>2 DEF Fin, Close, conn, data
<1>3. sndbuf' \in Nat /\ sndbuf' >= sndbuf /\ sndbuf' <= SndBuf
  <2>1. ASSUME NEW n \in 1 .. SndBuf, Sent(n) PROVE sndbuf' \in Nat /\ sndbuf' >= sndbuf /\ sndbuf' <= SndBuf
    BY <2>1, SizeTypes DEF Sent
  <2> QED BY <2>1, SizeTypes DEF Fin, Close
<1>4. label \in Labels BY DEF Labels
<1>5. pc' \in [Contexts -> Labels] BY <1>1, <1>4, Moves DEF Good, Shape
<1>6. TypeOK'
  <2>1. sndbuf' \in 0 .. SndBuf BY <1>3, SizeTypes
  <2> QED BY <1>2, <1>5, <2>1 DEF Sized, TypeOK
<1>7. Quiet(c, label)
  <2>1. \A n \in Pbufs : refs[n] \in 0 .. 3 BY SizeTypes
  <2>2. \A n \in Pbufs : refs[n] \in 0 .. 3 /\ refs[n] <= refs[n] BY <2>1
  <2> QED BY <1>1, <1>2, <2>2 DEF Quiet, Owing, Leaving
<1>8. Sizes' /\ Thrice' BY <1>4, <1>7, QuietSized
<1>9. SendFits' BY <1>1, <1>2, <1>3, <1>4, RoomKept
<1> QED BY <1>2, <1>6, <1>8, <1>9 DEF Keeps

LEMMA StillSized ==
    ASSUME Good, Sized, pcb # "reset", Fail \/ \E room \in BOOLEAN : Accept(room)
    PROVE  Keeps
<1>1. /\ UNCHANGED <<p, refs, linked, rcvd, waited, wnd, sndbuf, echoed, pc, ptr>>
      /\ pcb' \in {"gone", "open"} /\ hooked' \in BOOLEAN /\ es' \in {es, "freed", "allocated"}
      /\ state' \in {state, "accepted"} /\ fin' = fin /\ torn' \in BOOLEAN
  <2>1. torn \in BOOLEAN /\ hooked \in BOOLEAN BY DEF Sized, TypeOK
  <2> QED BY <2>1 DEF Fail, Accept, data, Overtakes
<1>2. TypeOK' BY <1>1 DEF Sized, TypeOK
<1>3. Sizes' /\ SendFits' /\ Thrice'
  <2>1. Owed("isr")' = Owed("isr") /\ Owed("main")' = Owed("main") BY <1>1 DEF Owed
  <2> QED BY <1>1, <2>1 DEF Sized, Sizes, SendFits, Thrice
<1> QED BY <1>1, <1>2, <1>3 DEF Keeps

\* What comes takes its bytes of the window.
LEMMA RecvSized ==
    ASSUME Good, Sized, pcb # "reset", NEW k \in 1 .. 2, Recv(k)
    PROVE  Keeps
<1> DEFINE new == (rcvd + 1) .. (rcvd + k)
           first == [n \in Pbufs |-> IF n \in new THEN 1 ELSE refs[n]]
<1>1. /\ rcvd' = rcvd + k /\ rcvd + k \in Pbufs /\ pc["isr"] = "idle" /\ state' = "received"
      /\ UNCHANGED <<pcb, hooked, es, fin, sndbuf, echoed, ptr>>
      /\ TotLen(k) <= wnd /\ wnd' = wnd - TotLen(k)
  BY DEF Recv
<1>2. /\ rcvd + k \in Nat /\ rcvd + k <= Len(Lens) /\ rcvd + 1 \in new /\ rcvd + 1 \in Pbufs
      /\ new \subseteq Pbufs
  BY <1>1, SizeTypes
<1>3. first \in [Pbufs -> 0 .. 3] /\ \A n \in Pbufs : first[n] = IF n \in new THEN 1 ELSE refs[n]
  BY SizeTypes
<1> HIDE DEF first
<1>4. torn' \in BOOLEAN /\ p' \in 0 .. (rcvd + k) /\ p' = (IF p = 0 THEN rcvd + 1 ELSE p)
  BY <1>2, SizeTypes DEF Recv, Overtakes
<1>5. refs' \in [Pbufs -> 0 .. 3] /\ (p # 0 => \A n \in Pbufs : refs'[n] = IF n = rcvd + 1 THEN 2 ELSE first[n])
  <2>1. CASE p = 0 BY <1>3, <2>1 DEF Recv, first
  <2>2. CASE p # 0
    <3>1. refs' = [first EXCEPT ![rcvd + 1] = @ + 1] BY <2>2 DEF Recv, first
    <3>2. first[rcvd + 1] + 1 = 2 BY <1>2, <1>3
    <3>3. refs' = [first EXCEPT ![rcvd + 1] = 2] BY <3>1, <3>2
    <3>4. 2 \in 0 .. 3 OBVIOUS
    <3> QED BY <1>2, <1>3, <3>3, <3>4
  <2> QED BY <2>1, <2>2
<1>6. linked' \subseteq Pbufs /\ waited' \subseteq Pbufs
  <2>1. linked \subseteq Pbufs /\ waited \subseteq Pbufs BY DEF Sized, TypeOK
  <2>2. p # 0 => rcvd .. (rcvd + k - 1) \subseteq Pbufs BY <1>2, SizeTypes
  <2> QED BY <1>2, <2>1, <2>2 DEF Recv
<1>7. /\ pc' \in [Contexts -> Labels]
      /\ \A d \in Contexts : pc'[d] = pc[d] \/ (d = "isr" /\ pc'[d] = "check")
  <2>1. "isr" \in Contexts /\ "check" \in Labels BY DEF Contexts, Labels
  <2>2. CASE p = 0
    <3>1. Goto("isr", "check") BY <2>2 DEF Recv
    <3> QED BY <2>1, <3>1, Moves DEF Good, Shape
  <2>3. CASE p # 0
    <3>1. pc' = pc BY <2>3 DEF Recv
    <3> QED BY <3>1 DEF Good, Shape, Typed
  <2> QED BY <2>2, <2>3
<1>8. /\ Upto[rcvd] \in Int /\ Upto[rcvd + k] \in Int /\ Upto[rcvd] <= Upto[rcvd + k]
      /\ TotLen(k) = Upto[rcvd + k] - Upto[rcvd]
  <2>1. rcvd \in 0 .. Len(Lens) /\ rcvd + k \in 0 .. Len(Lens) /\ rcvd <= rcvd + k
    BY <1>2, SizeTypes
  <2> QED BY <2>1, UptoIs DEF TotLen
<1>9. wnd' \in 0 .. Wnd
  <2>1. PICK t \in Nat : t = TotLen(k)
    <3>1. Upto[rcvd + k] - Upto[rcvd] \in Nat BY ONLY <1>8
    <3> QED BY ONLY <1>8, <3>1
  <2>2. t <= wnd /\ wnd' = wnd - t BY ONLY <1>1, <2>1
  <2>3. wnd \in Nat /\ wnd <= Wnd /\ Wnd \in Nat BY SizeTypes
  <2> QED BY ONLY <2>1, <2>2, <2>3
<1>10. TypeOK'
  <2>1. rcvd' \in 0 .. Len(Lens) BY <1>1, <1>2
  <2> QED BY <1>1, <1>4, <1>5, <1>6, <1>7, <1>9, <2>1 DEF Sized, TypeOK, Labels
<1>11. Sizes'
  <2> DEFINE q == IF p = 0 THEN rcvd ELSE p - 1
  <2>1. (IF p' = 0 THEN rcvd' ELSE p' - 1) = q BY <1>1, <1>4, SizeTypes
  <2>2. wnd = Wnd - Upto[rcvd] + Upto[q] - Owed("isr") - Owed("main") BY DEF Sized, Sizes
  <2>3. q \in 0 .. Len(Lens) BY SizeTypes
  <2> HIDE DEF q
  <2>4. Upto[q] \in Int BY <2>3, UptoIs
  <2>5. \A d \in Contexts : Owed(d)' = Owed(d) BY <1>1, <1>7 DEF Owed, Owing, Leaving
  <2>6. /\ Owed("isr")' = Owed("isr") /\ Owed("main")' = Owed("main")
        /\ Owed("isr") \in Nat /\ Owed("main") \in Nat
    BY <2>5, OwedIs DEF Contexts
  <2>7. wnd' = Wnd - Upto[rcvd'] + Upto[q] - Owed("isr")' - Owed("main")'
    <3>1. Upto[rcvd'] = Upto[rcvd + k] BY <1>1
    <3>2. wnd' = wnd - (Upto[rcvd + k] - Upto[rcvd]) BY <1>1, <1>8
    <3>3. Wnd \in Nat BY SizeTypes
    <3> QED BY ONLY <1>8, <2>2, <2>4, <2>6, <3>1, <3>2, <3>3
  <2> QED BY <2>1, <2>7 DEF Sizes
<1>12. SendFits'
  <2> SUFFICES ASSUME NEW d \in Contexts, pc'[d] = "copy" PROVE Lens[ptr[d]] <= sndbuf
    BY <1>1 DEF SendFits
  <2>1. pc[d] = "copy" BY <1>7
  <2> QED BY <1>1, <2>1 DEF Sized, SendFits
<1>13. p' # 0 => \A n \in (p' + 1) .. rcvd' : refs'[n] <= 2
  <2>1. rcvd \in Nat /\ k \in Nat BY SizeTypes
  <2>2. p' \in Nat BY <1>4, <2>1
  <2> SUFFICES ASSUME p' # 0, NEW n \in Nat, p' < n, n <= rcvd + k PROVE refs'[n] <= 2
    <3>1. PICK q \in Nat, m \in Nat : q = p' /\ m = rcvd + k BY <2>1, <2>2
    <3>2. \A n \in (q + 1) .. m : n \in Nat /\ q < n /\ n <= m OBVIOUS
    <3>3. p' # 0 => \A n \in (q + 1) .. m : refs'[n] <= 2 BY <3>1, <3>2
    <3>4. rcvd' = m BY <1>1, <3>1
    <3> QED BY <3>1, <3>3, <3>4
  <2>3. n \in Pbufs BY <1>2, <2>1, <2>2, PbufsAre
  <2>4. CASE p = 0
    <3>1. refs' = first BY <2>4 DEF Recv, first
    <3>2. n \in new BY <1>4, <2>1, <2>4
    <3> QED BY <1>3, <2>3, <3>1, <3>2
  <2>5. CASE p # 0
    <3>1. n \in new \/ n \in (p + 1) .. rcvd BY <1>4, <2>1, <2>5, SizeTypes
    <3>2. n \in (p + 1) .. rcvd => refs[n] <= 2 BY <2>5 DEF Sized, Thrice
    <3> QED BY <1>3, <1>5, <2>3, <2>5, <3>1, <3>2
  <2> QED BY <2>4, <2>5
<1>14. ASSUME NEW d \in Contexts, pc'[d] \in {"ref", "count"}, ptr[d] \in linked'
       PROVE  refs'[p'] <= 2
  <2>1. pc[d] \in {"ref", "count"} /\ pc[d] \in Leaving BY <1>7, <1>14 DEF Leaving
  <2>2. ptr[d] \in 1 .. rcvd /\ (IF ptr[d] \in linked THEN p = ptr[d] + 1 ELSE p = 0 \/ p > ptr[d])
    BY <2>1 DEF Good, Shape, Leavers
  <2>3. ptr[d] \in linked
    <3>1. CASE p = 0
      <4>1. linked' = linked \cup (new \ {rcvd + k}) BY <3>1 DEF Recv
      <4>2. ptr[d] \notin new BY <2>2, SizeTypes
      <4> QED BY <1>14, <4>1, <4>2
    <3>2. CASE p # 0
      <4>1. linked' = linked \cup (rcvd .. (rcvd + k - 1)) BY <3>2 DEF Recv
      <4>2. ptr[d] \notin linked => ptr[d] < p /\ p <= rcvd BY <2>2, <3>2, SizeTypes
      <4>3. ptr[d] \notin linked => ptr[d] \notin rcvd .. (rcvd + k - 1) BY <2>2, <4>2, SizeTypes
      <4> QED BY <1>14, <4>1, <4>3
    <3> QED BY <3>1, <3>2
  <2>4. p = ptr[d] + 1 /\ p # 0 /\ p \in Pbufs /\ p \notin new /\ p # rcvd + 1 /\ p' = p
    BY <1>4, <2>2, <2>3, SizeTypes
  <2>5. refs'[p] = refs[p] BY <1>3, <1>5, <2>4
  <2>6. refs[p] <= 2 BY <2>1, <2>3 DEF Sized, Thrice
  <2> QED BY <2>4, <2>5, <2>6
<1>15. pcb' # "reset" BY <1>1
<1>16. Thrice' BY <1>1, <1>13, <1>14 DEF Thrice
<1> QED BY <1>10, <1>11, <1>12, <1>15, <1>16 DEF Keeps

----------------------------------------------------------------------------

SizedInv == TypeOK /\ (~torn => Sized /\ pcb # "reset")

LEMMA SizedInvariance == Spec => []SizedInv
<1>1. Init => SizedInv
  <2> SUFFICES ASSUME Init PROVE SizedInv
    OBVIOUS
  <2> USE DEF Init
  <2>1. SndBuf \in Nat /\ Wnd \in Nat /\ 0 \in 0 .. Len(Lens) /\ 0 \in 0 .. 3 /\ "idle" \in Labels
    BY SizeAssumption, PbufsAre DEF Labels
  <2>2. TypeOK
    <3>1. refs \in [Pbufs -> 0 .. 3] BY <2>1
    <3>2. rcvd \in 0 .. Len(Lens) /\ p \in 0 .. rcvd /\ sndbuf \in 0 .. SndBuf /\ wnd \in 0 .. Wnd
      BY <2>1
    <3>3. echoed \in Seq(Pbufs) OBVIOUS
    <3>4. pc \in [Contexts -> Labels] BY <2>1
    <3> QED BY <3>1, <3>2, <3>3, <3>4 DEF TypeOK
  <2>3. Sizes
    <3>1. Owed("isr") = 0 /\ Owed("main") = 0 BY DEF Owed, Owing, Leaving, Contexts
    <3> QED BY <2>1, <3>1, UptoIs DEF Sizes
  <2>4. SendFits /\ Thrice BY DEF SendFits, Thrice
  <2> QED BY <2>2, <2>3, <2>4 DEF SizedInv, Sized
<1>2. IInv /\ SizedInv /\ [Next]_vars => SizedInv'
  <2> SUFFICES ASSUME IInv, SizedInv, [Next]_vars PROVE SizedInv'
    OBVIOUS
  <2>1. CASE UNCHANGED vars
    BY <2>1 DEF vars, conn, data, SizedInv, Sized, TypeOK, Sizes, Owed, SendFits, Thrice
  <2>2. CASE Next
    <3>1. Good /\ Sized /\ pcb # "reset" BY <2>2 DEF IInv, SizedInv, Next
    <3>2. SUFFICES Keeps BY DEF Keeps, SizedInv, Sized
    <3>3. (\E room \in BOOLEAN : Accept(room)) \/ Fail => Keeps BY <3>1, StillSized
    <3>4. ASSUME NEW k \in 1 .. 2, Recv(k) PROVE Keeps BY <3>1, <3>4, RecvSized
    <3>5. ASSUME NEW c \in Contexts,
                 Check(c) \/ Fits(c) \/ (\E room \in BOOLEAN : Write(c, room)) \/ Follow(c) \/ Ref(c) \/ Recved(c)
          PROVE  Keeps
      BY <3>1, <3>5, ReadsSized
    <3>6. Poll \/ PollLeft \/ PollState => Keeps
      <4>1. "main" \in Contexts BY DEF Contexts
      <4> QED BY <3>1, <4>1, ReadsSized
    <3>7. ASSUME NEW c \in Contexts,
                 Load(c) \/ Defer(c) \/ Copy(c) \/ Store(c) \/ Count(c) \/ Free(c) \/ Window(c)
          PROVE  Keeps
      BY <3>1, <3>7, LoadSized, DeferSized, CopySized, StoreSized, CountSized, FreeSized, WindowSized
    <3>8. ASSUME NEW c \in Contexts, NEW room \in BOOLEAN, Unhook(c, room) PROVE Keeps
      BY <3>1, <3>8, UnhookSized
    <3>9. Fin \/ (\E n \in 1 .. SndBuf : Sent(n)) \/ (\E c \in Contexts : Close(c)) => Keeps
      BY <3>1, OthersSized
    <3> QED BY <2>2, <3>3, <3>4, <3>5, <3>6, <3>7, <3>8, <3>9 DEF Next, Step, GoesOn
  <2> QED BY <2>1, <2>2
<1> QED BY <1>1, <1>2, Invariance, PTL DEF Spec

\* The types of a connection: above all, no count of a pbuf falls below 0, and
\* neither the send buffer nor the window is ever below 0 or above its size, not
\* even in the step in which one context overtakes the other.
THEOREM Typing == Spec => []TypeOK
<1>1. SizedInv => TypeOK BY DEF SizedInv
<1> QED BY <1>1, SizedInvariance, PTL

\* The server closes after the client and when all is sent back, and the window
\* is open again by then, so tcp_close resets no connection.
THEOREM Closes == Spec => []ClosesWhole
<1>1. IInv /\ SizedInv => ClosesWhole
  BY DEF IInv, SizedInv, Good, Shape, Life, Order, ClosesWhole
<1> QED BY <1>1, Invariance, SizedInvariance, PTL

=============================================================================
