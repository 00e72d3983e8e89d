---------------------------- MODULE EthTxProofs ----------------------------
(***************************************************************************)
(* Proofs about EthTx when one context sends: what ETH_IRQHandler's sends  *)
(* rely on while the main loop is silent, for a ring of every size and for *)
(* builds that read DMATxDescToSet once or again.  With two senders the    *)
(* shape of the ring is lost: the run EthTxRace.                           *)
(***************************************************************************)
EXTENDS EthTx, TLAPS

OneSender == Contexts = {"isr"}

Isr == pc["isr"]

\* What the locals of low_level_output are worth at each of its steps.
OutputOK ==
    /\ Isr # "idle" => to["isr"] = cur
    /\ Isr \in {"length", "own", "tbus", "poll", "advance"} => at["isr"] = cur
    /\ Isr \in {"test", "length", "own"} => buf[cur] = Sending("isr")
    /\ Isr \in {"length", "own"} => own[cur] = "CPU"
    /\ Isr \in {"own", "tbus", "poll", "advance"} => hdr[cur] = Sending("isr")

\* The youngest frame in the ring bears the number before the next one's.
LastNumber ==
    \A d \in Desc : NextDesc(d) = cur /\ own[d] = "DMA"
                        => NextNo(hdr[d].no) = no["isr"]

\* A suspended engine has TBUS set until the sender is about to resume it.
ResumeOK ==
    /\ suspended => tbus \/ Isr = "poll"
    /\ suspended /\ own[dma] = "DMA" => Isr \in {"tbus", "poll"}

IInv == /\ TypeOK /\ OutputOK /\ RingShape /\ QueueIntact
        /\ QueueInOrder /\ LastNumber /\ ResumeOK

----------------------------------------------------------------------------
(* The ring. *)

\* The chain of descriptors is a cycle through distinct descriptors.
LEMMA DescStep ==
    ASSUME NEW d \in Desc
    PROVE  /\ NextDesc(d) \in Desc /\ NextDesc(d) # d
           /\ \A e \in Desc : NextDesc(e) = NextDesc(d) => e = d
BY RingAssumption DEF Desc, NextDesc

\* A stretch of the ring grows by the descriptor at its end.
LEMMA WithinGrows ==
    ASSUME NEW a \in Desc, NEW b \in Desc, NEW d \in Desc, a # b
    PROVE  /\ ~Within(a, b, b)
           /\ NextDesc(b) # a =>
                (Within(a, d, NextDesc(b)) <=> Within(a, d, b) \/ d = b)
           /\ NextDesc(b) = a => Within(a, d, b) \/ d = b
           /\ Within(a, NextDesc(b), b) => NextDesc(b) = a
BY RingAssumption DEF Desc, NextDesc, Within

\* A stretch of the ring shrinks by the descriptor at its start.
LEMMA WithinShrinks ==
    ASSUME NEW a \in Desc, NEW b \in Desc, NEW d \in Desc, a # b
    PROVE  /\ Within(a, a, b)
           /\ NextDesc(a) # b =>
                (Within(NextDesc(a), d, b) <=> Within(a, d, b) /\ d # a)
           /\ NextDesc(a) = b => (Within(a, d, b) <=> d = a)
BY RingAssumption DEF Desc, NextDesc, Within

\* All of the ring but its oldest descriptor.
LEMMA WithinAllButOne ==
    ASSUME NEW a \in Desc, NEW d \in Desc
    PROVE  /\ Within(NextDesc(a), d, a) <=> d # a
           /\ Within(a, d, NextDesc(a)) <=> d = a
BY RingAssumption DEF Desc, NextDesc, Within

LEMMA NoStep == \A i \in Nos : NextNo(i) \in Nos
BY NoAssumption DEF Nos, NextNo

----------------------------------------------------------------------------
(* The invariant. *)

\* With one sender the next-state relation has one instance of each step.
LEMMA Steps1 ==
    ASSUME OneSender, [Next]_vars
    PROVE  \/ DmaSend \/ DmaSuspend \/ GetBuffer("isr") \/ CopyPbufs("isr")
           \/ TestOwn("isr") \/ SetLength("isr") \/ SetOwn("isr")
           \/ TestTbus("isr") \/ PollDemand("isr") \/ Advance("isr")
           \/ UNCHANGED vars
BY DEF OneSender, Next, Output, TxPacket

LEMMA GivenIsr == ASSUME OneSender PROVE Given <=> Isr \in {"tbus", "poll", "advance"}
BY DEF OneSender, Given, Isr

LEMMA InitIInv == ASSUME OneSender, Init PROVE IInv
<1> USE RingAssumption, NoAssumption DEF OneSender
<1>1. 0 \in Desc /\ 0 \in Nos /\ NoFrame \in Frame \cup {NoFrame}
  BY DEF Desc, Nos
<1>2. TypeOK
  <2>1. own \in [Desc -> {"DMA", "CPU"}] /\ buf \in [Desc -> Frame \cup {NoFrame}]
        /\ hdr \in [Desc -> Frame \cup {NoFrame}]
    BY <1>1 DEF Init
  <2>2. suspended \in BOOLEAN /\ tbus \in BOOLEAN
    BY DEF Init
  <2>3. pc \in [Contexts -> Steps] /\ to \in [Contexts -> Desc]
        /\ at \in [Contexts -> Desc] /\ no \in [Contexts -> Nos]
    BY <1>1 DEF Init, Steps
  <2> QED BY <1>1, <2>1, <2>2, <2>3 DEF Init, TypeOK
<1>3. Isr = "idle" /\ ~Given /\ Head = 0 /\ \A d \in Desc : own[d] = "CPU"
  BY GivenIsr DEF Init, Isr, Head
<1>4. OutputOK /\ ResumeOK
  BY <1>1, <1>3 DEF Init, OutputOK, ResumeOK
<1>5. RingShape /\ QueueIntact /\ QueueInOrder /\ LastNumber
  BY <1>1, <1>3 DEF Init, RingShape, QueueIntact, QueueInOrder, LastNumber
<1> QED BY <1>2, <1>4, <1>5 DEF IInv

LEMMA NextTypeOK == ASSUME OneSender, IInv, [Next]_vars PROVE TypeOK'
<1> USE RingAssumption, NoAssumption, DescStep, NoStep
    DEF OneSender, IInv, TypeOK, Steps, Frame, Sending, Used, At, Goto, engine, vars
<1>1. CASE DmaSend BY <1>1 DEF DmaSend
<1>2. CASE DmaSuspend BY <1>2 DEF DmaSuspend
<1>3. CASE GetBuffer("isr") BY <1>3 DEF GetBuffer
<1>4. CASE CopyPbufs("isr") BY <1>4 DEF CopyPbufs
<1>5. CASE TestOwn("isr") BY <1>5 DEF TestOwn
<1>6. CASE SetLength("isr") BY <1>6 DEF SetLength
<1>7. CASE SetOwn("isr") BY <1>7 DEF SetOwn
<1>8. CASE TestTbus("isr") BY <1>8 DEF TestTbus
<1>9. CASE PollDemand("isr") BY <1>9 DEF PollDemand
<1>10. CASE Advance("isr") BY <1>10 DEF Advance
<1>11. CASE UNCHANGED vars BY <1>11
<1> QED BY <1>1, <1>2, <1>3, <1>4, <1>5, <1>6, <1>7, <1>8, <1>9, <1>10, <1>11,
           Steps1

LEMMA NextOutputOK == ASSUME OneSender, IInv, [Next]_vars PROVE OutputOK'
<1> USE DEF OneSender, IInv, TypeOK, OutputOK, Isr, Sending, Used, At, Goto,
            engine, vars
<1>1. CASE DmaSend
  <2>1. UNCHANGED <<buf, hdr, cur, pc, to, at, no>>
    BY <1>1 DEF DmaSend
  <2>2. own[cur] = "CPU" => own'[cur] = "CPU"
    BY <1>1 DEF DmaSend
  <2> QED BY <2>1, <2>2
<1>2. CASE DmaSuspend BY <1>2 DEF DmaSuspend
<1>3. CASE GetBuffer("isr") BY <1>3 DEF GetBuffer
<1>4. CASE CopyPbufs("isr") BY <1>4 DEF CopyPbufs
<1>5. CASE TestOwn("isr") BY <1>5 DEF TestOwn
<1>6. CASE SetLength("isr") BY <1>6 DEF SetLength
<1>7. CASE SetOwn("isr") BY <1>7 DEF SetOwn
<1>8. CASE TestTbus("isr") BY <1>8 DEF TestTbus
<1>9. CASE PollDemand("isr") BY <1>9 DEF PollDemand
<1>10. CASE Advance("isr") BY <1>10 DEF Advance
<1>11. CASE UNCHANGED vars BY <1>11
<1> QED BY <1>1, <1>2, <1>3, <1>4, <1>5, <1>6, <1>7, <1>8, <1>9, <1>10, <1>11,
           Steps1

LEMMA NextResumeOK == ASSUME OneSender, IInv, [Next]_vars PROVE ResumeOK'
<1> USE DEF OneSender, IInv, TypeOK, OutputOK, ResumeOK, Isr, Used, At, Goto,
            engine, vars
<1>1. CASE DmaSend BY <1>1 DEF DmaSend
<1>2. CASE DmaSuspend BY <1>2 DEF DmaSuspend
<1>3. CASE GetBuffer("isr") BY <1>3 DEF GetBuffer
<1>4. CASE CopyPbufs("isr") BY <1>4 DEF CopyPbufs
<1>5. CASE TestOwn("isr") BY <1>5 DEF TestOwn
<1>6. CASE SetLength("isr") BY <1>6 DEF SetLength
<1>7. CASE SetOwn("isr") BY <1>7 DEF SetOwn
<1>8. CASE TestTbus("isr") BY <1>8 DEF TestTbus
<1>9. CASE PollDemand("isr") BY <1>9 DEF PollDemand
<1>10. CASE Advance("isr") BY <1>10 DEF Advance
<1>11. CASE UNCHANGED vars BY <1>11
<1> QED BY <1>1, <1>2, <1>3, <1>4, <1>5, <1>6, <1>7, <1>8, <1>9, <1>10, <1>11,
           Steps1

\* What each step does to the ring, with one sender.
LEMMA RingSteps ==
    ASSUME OneSender, IInv, [Next]_vars
    PROVE  \/ DmaSend /\ Head' = Head
           \/ SetOwn("isr") /\ ~Given /\ Head = cur /\ Head' = NextDesc(cur)
                /\ own' = [own EXCEPT ![cur] = "DMA"] /\ own[cur] = "CPU"
           \/ UNCHANGED <<own, dma>> /\ Head' = Head
<1> USE GivenIsr DEF OneSender, Isr, Head, At, Goto, engine, vars
<1> DEFINE Same == UNCHANGED <<own, dma>> /\ Head' = Head
<1>0. pc \in [{"isr"} -> Steps] /\ (Given' <=> Isr' \in {"tbus", "poll", "advance"})
  BY DEF IInv, TypeOK, Given
<1>1. CASE DmaSend BY <1>0, <1>1 DEF DmaSend
<1>2. CASE DmaSuspend \/ UNCHANGED vars BY <1>0, <1>2 DEF DmaSuspend
<1>3. CASE GetBuffer("isr") \/ CopyPbufs("isr") \/ SetLength("isr")
  BY <1>0, <1>3 DEF GetBuffer, CopyPbufs, SetLength
<1>4. CASE TestOwn("isr") BY <1>0, <1>4 DEF TestOwn
<1>5. CASE SetOwn("isr")
  BY <1>0, <1>5 DEF SetOwn, Used, IInv, OutputOK
<1>6. CASE TestTbus("isr") \/ PollDemand("isr")
  BY <1>0, <1>6 DEF TestTbus, PollDemand
<1>7. CASE Advance("isr")
  BY <1>0, <1>7 DEF Advance, Used, IInv, OutputOK
<1> QED BY <1>1, <1>2, <1>3, <1>4, <1>5, <1>6, <1>7, Steps1

LEMMA NextRingShape == ASSUME OneSender, IInv, [Next]_vars PROVE RingShape'
<1> USE DEF IInv, TypeOK, RingShape
<1>1. Head \in Desc
  BY DescStep DEF Head
<1>2. CASE DmaSend /\ Head' = Head
  <2>1. own[dma] = "DMA" /\ own' = [own EXCEPT ![dma] = "CPU"]
        /\ dma' = NextDesc(dma)
    BY <1>2 DEF DmaSend
  <2>2. CASE Head = dma
    <3>1. \A d \in Desc : own'[d] = "DMA" <=> d # dma
      BY <2>1, <2>2
    <3> QED BY <1>2, <2>1, <2>2, <3>1, DescStep, WithinAllButOne
  <2>3. CASE Head # dma
    <3>1. \A d \in Desc : own'[d] = "DMA" <=> Within(dma, d, Head) /\ d # dma
      BY <2>1, <2>3
    <3>2. CASE NextDesc(dma) = Head
      <4>1. \A d \in Desc : own'[d] = "CPU"
        BY <1>1, <2>1, <2>3, <3>1, <3>2, WithinShrinks
      <4> QED BY <1>2, <2>1, <3>2, <4>1
    <3>3. CASE NextDesc(dma) # Head
      BY <1>1, <1>2, <2>1, <2>3, <3>1, <3>3, WithinShrinks
    <3> QED BY <3>2, <3>3
  <2> QED BY <2>2, <2>3
<1>3. CASE SetOwn("isr") /\ Head = cur /\ Head' = NextDesc(cur)
           /\ own' = [own EXCEPT ![cur] = "DMA"] /\ own[cur] = "CPU"
  <2>1. dma' = dma
    BY <1>3 DEF SetOwn, engine
  <2>2. CASE cur = dma
    <3>1. \A d \in Desc : own'[d] = "DMA" <=> d = dma
      BY <1>3, <2>2
    <3> QED BY <1>3, <2>1, <2>2, <3>1, DescStep, WithinAllButOne
  <2>3. CASE cur # dma
    <3>1. \A d \in Desc : own'[d] = "DMA" <=> Within(dma, d, cur) \/ d = cur
      BY <1>3, <2>3
    <3>2. CASE NextDesc(cur) = dma
      <4>1. \A d \in Desc : own'[d] = "DMA"
        BY <2>3, <3>1, <3>2, WithinGrows
      <4> QED BY <1>3, <2>1, <3>2, <4>1
    <3>3. CASE NextDesc(cur) # dma
      BY <1>3, <2>1, <2>3, <3>1, <3>3, WithinGrows
    <3> QED BY <3>2, <3>3
  <2> QED BY <2>2, <2>3
<1>4. CASE UNCHANGED <<own, dma>> /\ Head' = Head
  BY <1>4
<1> QED BY <1>2, <1>3, <1>4, RingSteps

----------------------------------------------------------------------------
(* The queue. *)

\* The descriptor DMATxDescToSet names is the engine's only when the whole
\* ring is, and then it is the one the engine is at.
LEMMA FullAtCur ==
    ASSUME IInv, own[cur] = "DMA", ~Given
    PROVE  cur = dma /\ \A d \in Desc : own[d] = "DMA"
<1>1. Head = cur /\ cur \in Desc /\ dma \in Desc
  BY DEF Head, IInv, TypeOK
<1>2. cur = dma
  BY <1>1, WithinGrows DEF IInv, TypeOK, RingShape
<1>3. ~(\A d \in Desc : own[d] = "CPU")
  BY <1>1
<1> QED BY <1>1, <1>2, <1>3 DEF IInv, RingShape

\* Past the frame just given to the engine comes nothing but the oldest.
LEMMA NothingPastHead ==
    ASSUME IInv, ~Given, own[cur] = "CPU", own[NextDesc(cur)] = "DMA"
    PROVE  NextDesc(cur) = dma
<1>1. Head = cur /\ cur \in Desc /\ dma \in Desc /\ NextDesc(cur) \in Desc
  BY DescStep DEF Head, IInv, TypeOK
<1>2. Head # dma
  BY <1>1 DEF IInv, RingShape
<1>3. Within(dma, NextDesc(cur), cur)
  BY <1>1, <1>2 DEF IInv, RingShape
<1> QED BY <1>1, <1>2, <1>3, WithinGrows

LEMMA NextQueueIntact == ASSUME OneSender, IInv, [Next]_vars PROVE QueueIntact'
<1> USE DEF OneSender, IInv, TypeOK, QueueIntact, Isr, Used, At, Goto, engine, vars
<1>1. CASE DmaSend BY <1>1 DEF DmaSend
<1>2. CASE CopyPbufs("isr")
  <2>1. to["isr"] = cur /\ ~Given
    BY <1>2, GivenIsr DEF CopyPbufs, OutputOK
  <2>2. own[cur] = "DMA" => cur = dma
    BY <2>1, FullAtCur
  <2> QED BY <1>2, <2>1, <2>2 DEF CopyPbufs
<1>3. CASE SetLength("isr") BY <1>3 DEF SetLength, OutputOK
<1>4. CASE SetOwn("isr") BY <1>4 DEF SetOwn, OutputOK
<1>5. CASE UNCHANGED <<own, buf, hdr, dma>> BY <1>5
<1> QED BY <1>1, <1>2, <1>3, <1>4, <1>5, Steps1
        DEF DmaSuspend, GetBuffer, TestOwn, TestTbus, PollDemand, Advance

LEMMA NextQueueInOrder == ASSUME OneSender, IInv, [Next]_vars PROVE QueueInOrder'
<1> USE DescStep
    DEF OneSender, IInv, TypeOK, QueueInOrder, Isr, Used, At, Goto, engine, vars
<1>1. CASE DmaSend BY <1>1 DEF DmaSend
<1>2. CASE SetLength("isr")
  <2>1. own[cur] = "CPU" /\ own' = own /\ dma' = dma
        /\ \A d \in Desc : d # cur => hdr'[d] = hdr[d]
    BY <1>2 DEF SetLength, OutputOK
  <2> QED BY <2>1
<1>3. CASE SetOwn("isr")
  <2>0. ~Given
    BY <1>3, GivenIsr DEF SetOwn
  <2>1. /\ own[cur] = "CPU" /\ own' = [own EXCEPT ![cur] = "DMA"]
        /\ UNCHANGED <<hdr, dma>>
    BY <1>3 DEF SetOwn, OutputOK
  <2>3. hdr[cur].no = no["isr"]
    BY <1>3 DEF SetOwn, OutputOK, Sending
  <2>2. ASSUME NEW d \in Desc, own'[d] = "DMA", own'[NextDesc(d)] = "DMA",
               NextDesc(d) # dma
        PROVE  hdr[NextDesc(d)].no = NextNo(hdr[d].no)
    <3>1. CASE d = cur
      BY <2>0, <2>1, <2>2, <3>1, NothingPastHead
    <3>2. CASE d # cur /\ NextDesc(d) = cur
      BY <2>1, <2>2, <2>3, <3>2 DEF LastNumber
    <3>3. CASE d # cur /\ NextDesc(d) # cur
      BY <2>1, <2>2, <3>3
    <3> QED BY <3>1, <3>2, <3>3
  <2> QED BY <2>1, <2>2
<1>4. CASE UNCHANGED <<own, hdr, dma>> BY <1>4
<1> QED BY <1>1, <1>2, <1>3, <1>4, Steps1
        DEF DmaSuspend, GetBuffer, CopyPbufs, TestOwn, TestTbus, PollDemand, Advance

LEMMA NextLastNumber == ASSUME OneSender, IInv, [Next]_vars PROVE LastNumber'
<1> USE DescStep
    DEF OneSender, IInv, TypeOK, LastNumber, Isr, Used, At, Goto, engine, vars
<1>1. CASE DmaSend BY <1>1 DEF DmaSend
<1>2. CASE SetLength("isr") BY <1>2 DEF SetLength, OutputOK
<1>3. CASE SetOwn("isr") BY <1>3 DEF SetOwn, OutputOK
<1>4. CASE Advance("isr")
  <2>1. /\ cur' = NextDesc(cur) /\ no'["isr"] = NextNo(no["isr"])
        /\ UNCHANGED <<own, hdr>> /\ hdr[cur].no = no["isr"]
    BY <1>4 DEF Advance, OutputOK, Sending
  <2> QED BY <2>1
<1>5. CASE UNCHANGED <<own, hdr, cur, no>> BY <1>5
<1> QED BY <1>1, <1>2, <1>3, <1>4, <1>5, Steps1
        DEF DmaSuspend, GetBuffer, CopyPbufs, TestOwn, TestTbus, PollDemand

----------------------------------------------------------------------------
(* The theorems. *)

\* With one sender IInv holds in every reachable state.
THEOREM Invariant == ASSUME OneSender PROVE Spec => []IInv
<1>1. Init => IInv
  BY InitIInv
<1>2. IInv /\ [Next]_vars => IInv'
  BY NextTypeOK, NextOutputOK, NextRingShape, NextQueueIntact,
     NextQueueInOrder, NextLastNumber, NextResumeOK DEF IInv
<1> QED BY <1>1, <1>2, PTL DEF Spec

\* With one sender the engine's descriptors are one stretch of the ring, from
\* the one the engine is at to the one low_level_output fills next.
THEOREM RingKeepsShape == ASSUME OneSender PROVE Spec => []RingShape
<1>1. IInv => RingShape
  BY DEF IInv
<1> QED BY Invariant, <1>1, PTL

\* With one sender ETH_Tx_Packet refuses a frame only when the ring is full.
THEOREM RefusalsAreFull == ASSUME OneSender PROVE Spec => []RefusedOnlyWhenFull
<1>1. IInv => RefusedOnlyWhenFull
  <2> SUFFICES ASSUME IInv, NEW c \in Contexts, pc[c] = "test", own[cur] = "DMA"
               PROVE  \A d \in Desc : own[d] = "DMA"
    BY DEF RefusedOnlyWhenFull
  <2>1. ~Given
    BY GivenIsr DEF OneSender, Isr
  <2> QED BY <2>1, FullAtCur
<1> QED BY Invariant, <1>1, PTL

\* With one sender a refused frame spoils no frame in the ring but the one
\* the engine is at.
THEOREM DamageIsBounded == ASSUME OneSender PROVE Spec => []QueueIntact
<1>1. IInv => QueueIntact
  BY DEF IInv
<1> QED BY Invariant, <1>1, PTL

\* With one sender frames leave in the order they were accepted in.
THEOREM SentInOrder == ASSUME OneSender PROVE Spec => []QueueInOrder
<1>1. IInv => QueueInOrder
  BY DEF IInv
<1> QED BY Invariant, <1>1, PTL

\* With one sender the engine is resumed whenever it is suspended before a
\* descriptor it owns.
THEOREM TransmissionResumed == ASSUME OneSender PROVE Spec => []NoLostResume
<1>1. IInv => NoLostResume
  BY DEF IInv, ResumeOK, NoLostResume, Isr, OneSender
<1> QED BY Invariant, <1>1, PTL

\* With one sender every descriptor, every local of low_level_output and
\* ETH_Tx_Packet and every number keeps its type.
THEOREM TypesKept == ASSUME OneSender PROVE Spec => []TypeOK
<1>1. IInv => TypeOK
  BY DEF IInv
<1> QED BY Invariant, <1>1, PTL
=============================================================================
