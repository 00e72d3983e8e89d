---------------------------- MODULE EthRxProofs ----------------------------
(***************************************************************************)
(* Proofs about EthRx, for rings, pools and FIFOs of every size.  The      *)
(* properties of EthRx are not inductive: that the frame copied is the     *)
(* next one in order needs the numbers of all the frames in the ring       *)
(* (Chain), and that needs the shape of the ring.                          *)
(***************************************************************************)
EXTENDS EthRx, TLAPS

\* What ETH_IRQHandler's locals are worth at each of its steps.
HandlerOK ==
    /\ pc \in InHand => cur = NextDesc(hand)
    /\ pc \in {"idle", "check", "rx", "alloc", "clearR", "clearNIS"} => ~pbuf
    /\ pc = "copy" => pbuf
    /\ pc = "rx" => own[cur] = "CPU"

\* The frames in the ring are numbered consecutively from expect up to seq.
Chain ==
    /\ own[Tail] = "CPU" => buf[Tail] = expect
    /\ own[Tail] = "DMA" => seq = expect
    /\ \A d \in Desc : /\ own[d] = "CPU" /\ own[NextDesc(d)] = "CPU"
                       /\ NextDesc(d) # Tail
                       => buf[NextDesc(d)] = NextId(buf[d])
    /\ own[PrevDesc(dma)] = "CPU" => seq = NextId(buf[PrevDesc(dma)])

\* A suspended engine has RBUS set until the handler is about to resume it.
ResumeOK ==
    /\ suspended => rbus \/ pc = "poll"
    /\ suspended /\ own[dma] = "DMA" => pc \in {"rbus", "poll"}

IInv == TypeOK /\ HandlerOK /\ RingShape /\ Chain /\ ResumeOK /\ PoolConserved


----------------------------------------------------------------------------
(* The ring. *)

\* The chain of descriptors is a cycle: PrevDesc undoes NextDesc.
LEMMA DescStep ==
    ASSUME NEW d \in Desc
    PROVE  /\ NextDesc(d) \in Desc /\ PrevDesc(d) \in Desc
           /\ NextDesc(d) # d
           /\ PrevDesc(NextDesc(d)) = d /\ NextDesc(PrevDesc(d)) = d
BY RingAssumption DEF Desc, NextDesc, PrevDesc

\* A stretch of the ring grows by the descriptor at its end.
LEMMA WithinGrows ==
    ASSUME NEW a \in Desc, NEW b \in Desc, NEW d \in Desc, a # b
    PROVE  /\ ~Within(a, b, b)
           /\ NextDesc(b) # a =>
                (Within(a, d, NextDesc(b)) <=> Within(a, d, b) \/ d = b)
           /\ NextDesc(b) = a => Within(a, d, b) \/ d = b
BY RingAssumption DEF Desc, NextDesc, Within

\* A stretch of the ring shrinks by the descriptor at its start.
LEMMA WithinShrinks ==
    ASSUME NEW a \in Desc, NEW b \in Desc, NEW d \in Desc, a # b
    PROVE  /\ Within(a, a, b)
           /\ NextDesc(a) # b =>
                (Within(NextDesc(a), d, b) <=> Within(a, d, b) /\ d # a)
           /\ NextDesc(a) = b => (Within(a, d, b) <=> d = a)
BY RingAssumption DEF Desc, NextDesc, Within

\* All of the ring but its oldest descriptor.
LEMMA WithinAllButOne ==
    ASSUME NEW a \in Desc, NEW d \in Desc
    PROVE  /\ Within(NextDesc(a), d, a) <=> d # a
           /\ Within(a, d, NextDesc(a)) <=> d = a
BY RingAssumption DEF Desc, NextDesc, Within

\* A descriptor whose successor is in use is the last but one of a stretch
\* that reaches all the way round.
LEMMA WithinWraps ==
    ASSUME NEW a \in Desc, NEW b \in Desc, a # b, Within(a, NextDesc(b), b)
    PROVE  NextDesc(b) = a
BY RingAssumption DEF Desc, NextDesc, Within

LEMMA IdStep == \A i \in Ids : NextId(i) \in Ids
BY IdAssumption DEF Ids, NextId

----------------------------------------------------------------------------
(* The invariant. *)

LEMMA InitIInv == Init => IInv
<1> SUFFICES ASSUME Init PROVE IInv
  OBVIOUS
<1> USE RingAssumption, PoolAssumption, FifoAssumption, BurstAssumption, IdAssumption
<1>1. 0 \in Desc /\ 0 \in Ids /\ PrevDesc(0) \in Desc
  BY DEF Desc, Ids, PrevDesc
<1>2. TypeOK
  <2>1. own \in [Desc -> {"DMA", "CPU"}] /\ es \in [Desc -> BOOLEAN]
        /\ buf \in [Desc -> Ids]
    BY <1>1 DEF Init
  <2>2. fifo \in 0 .. FifoCap /\ burst \in 0 .. MaxBurst
        /\ pool \in 0 .. PoolSize /\ held \in 0 .. PoolSize
    BY DEF Init
  <2>3. suspended \in BOOLEAN /\ rbus \in BOOLEAN /\ rs \in BOOLEAN
        /\ nis \in BOOLEAN /\ pbuf \in BOOLEAN
    BY DEF Init
  <2>4. pc \in Steps /\ len \in {"frame", "zero"} 
    BY DEF Init, Steps
  <2> QED BY <1>1, <2>1, <2>2, <2>3, <2>4 DEF Init, TypeOK
<1>3. HandlerOK /\ ResumeOK /\ PoolConserved
  BY <1>1 DEF Init, HandlerOK, ResumeOK, PoolConserved, InHand
<1>4. Tail = 0 /\ Tail = dma /\ \A d \in Desc : own[d] = "DMA" /\ pc \notin InHand
  BY <1>1 DEF Init, Tail, InHand
<1>5. RingShape
  BY <1>4 DEF RingShape
<1>6. Chain
  BY <1>1, <1>4, DescStep DEF Chain, Init
<1> QED BY <1>2, <1>3, <1>5, <1>6 DEF IInv

\* The type, the handler's locals, the suspension and the pool account need
\* nothing of the ring's shape but that ETH_Rx_Packet finds the CPU's
\* descriptor.
LEMMA NextTypeOK == IInv /\ [Next]_vars => TypeOK'
<1> SUFFICES ASSUME IInv, [Next]_vars PROVE TypeOK'
  OBVIOUS
<1> USE RingAssumption, PoolAssumption, FifoAssumption, BurstAssumption,
        IdAssumption, DescStep, IdStep
    DEF IInv, TypeOK, PoolConserved, Steps, InHand, Leaving,
        vars, ring, hw, irq, run
<1>1. CASE Arrive
  <2>1. fifo' \in 0 .. FifoCap
    BY <1>1 DEF Arrive
  <2>2. suspended' \in BOOLEAN
    BY <1>1 DEF Arrive
  <2> QED BY <1>1, <2>1, <2>2 DEF Arrive
<1>2. CASE DmaStore
  <2>1. cur \in Desc /\ dma \in Desc /\ NextDesc(dma) \in Desc
    OBVIOUS
  <2>2. own' \in [Desc -> {"DMA", "CPU"}] /\ es' \in [Desc -> BOOLEAN]
        /\ buf' \in [Desc -> Ids]
    BY <1>2 DEF DmaStore
  <2> QED BY <1>2, <2>1, <2>2 DEF DmaStore
<1>3. CASE DmaSuspend  BY <1>3 DEF DmaSuspend
<1>4. CASE DmaFlush    BY <1>4 DEF DmaFlush
<1>5. CASE IsrEnter    BY <1>5 DEF IsrEnter
<1>6. CASE CheckFrameReceived BY <1>6 DEF CheckFrameReceived
<1>7. CASE RxPacket    BY <1>7 DEF RxPacket
<1>8. CASE AllocPbuf   BY <1>8 DEF AllocPbuf
<1>9. CASE CopyFrame   BY <1>9 DEF CopyFrame
<1>10. CASE GiveBack   BY <1>10 DEF GiveBack
<1>11. CASE TestRbus   BY <1>11 DEF TestRbus
<1>12. CASE PollDemand BY <1>12 DEF PollDemand
<1>13. CASE Input
  <2>1. pool' \in 0 .. PoolSize /\ held' \in 0 .. PoolSize
    BY <1>13 DEF Input
  <2>2. pbuf' \in BOOLEAN
    BY <1>13 DEF Input
  <2> QED BY <1>13, <2>1, <2>2 DEF Input
<1>14. CASE ClearR     BY <1>14 DEF ClearR
<1>15. CASE ClearNIS   BY <1>15 DEF ClearNIS
<1>16. CASE StackRelease BY <1>16 DEF StackRelease
<1>17. CASE UNCHANGED vars BY <1>17
<1> QED BY <1>1, <1>2, <1>3, <1>4, <1>5, <1>6, <1>7, <1>8, <1>9, <1>10, <1>11,
           <1>12, <1>13, <1>14, <1>15, <1>16, <1>17 DEF Next, Handler, Engine

\* The actions that neither touch the ring nor move the handler past it.
RingIdle ==
    \/ Arrive \/ DmaSuspend \/ DmaFlush \/ IsrEnter \/ TestRbus \/ PollDemand
    \/ Input \/ ClearR \/ ClearNIS \/ StackRelease \/ UNCHANGED vars

\* Inside low_level_input the descriptor in hand is the CPU's.
LEMMA InHandOwned == IInv /\ pc \in InHand => own[hand] = "CPU"
BY WithinShrinks DEF IInv, TypeOK, RingShape, Tail

LEMMA NextHandlerOK == IInv /\ [Next]_vars => HandlerOK'
<1> SUFFICES ASSUME IInv, [Next]_vars PROVE HandlerOK'
  OBVIOUS
<1> USE DEF IInv, HandlerOK, InHand, Steps, Leaving, vars, ring, hw, irq, run
<1>1. CASE RingIdle
  BY <1>1 DEF RingIdle, Arrive, DmaSuspend, DmaFlush, IsrEnter, TestRbus,
              PollDemand, Input, ClearR, ClearNIS, StackRelease
<1>2. CASE DmaStore BY <1>2 DEF DmaStore, TypeOK
<1>3. CASE CheckFrameReceived BY <1>3 DEF CheckFrameReceived
<1>4. CASE RxPacket BY <1>4 DEF RxPacket
<1>5. CASE AllocPbuf BY <1>5 DEF AllocPbuf
<1>6. CASE CopyFrame BY <1>6 DEF CopyFrame
<1>7. CASE GiveBack BY <1>7 DEF GiveBack
<1> QED BY <1>1, <1>2, <1>3, <1>4, <1>5, <1>6, <1>7
        DEF Next, Handler, Engine, RingIdle

LEMMA NextResumeOK == IInv /\ [Next]_vars => ResumeOK'
<1> SUFFICES ASSUME IInv, [Next]_vars PROVE ResumeOK'
  OBVIOUS
<1> USE DEF IInv, ResumeOK, vars, ring, hw, irq, run
<1>1. CASE Arrive BY <1>1 DEF Arrive
<1>2. CASE DmaStore BY <1>2 DEF DmaStore
<1>3. CASE DmaSuspend BY <1>3 DEF DmaSuspend
<1>4. CASE GiveBack BY <1>4 DEF GiveBack, TypeOK
<1>5. CASE TestRbus BY <1>5 DEF TestRbus
<1>6. CASE PollDemand BY <1>6 DEF PollDemand
<1>7. CASE DmaFlush \/ IsrEnter \/ CheckFrameReceived \/ RxPacket \/ StackRelease
           \/ UNCHANGED vars
  BY <1>7 DEF DmaFlush, IsrEnter, CheckFrameReceived, RxPacket, StackRelease
<1>8. CASE AllocPbuf \/ CopyFrame \/ Input \/ ClearR \/ ClearNIS
  BY <1>8 DEF AllocPbuf, CopyFrame, Input, ClearR, ClearNIS
<1> QED BY <1>1, <1>2, <1>3, <1>4, <1>5, <1>6, <1>7, <1>8
        DEF Next, Handler, Engine

LEMMA NextPoolConserved == IInv /\ [Next]_vars => PoolConserved'
<1> SUFFICES ASSUME IInv, [Next]_vars PROVE PoolConserved'
  OBVIOUS
<1> USE DEF IInv, PoolConserved, TypeOK, vars, ring, hw, irq, run
<1>1. CASE AllocPbuf
  <2>1. ~pbuf /\ pool + held = PoolSize
    BY <1>1 DEF AllocPbuf, HandlerOK
  <2>2. CASE pool > 0
    <3>1. pbuf' /\ pool' = pool - 1 /\ held' = held
      BY <1>1, <2>2 DEF AllocPbuf
    <3> QED BY <2>1, <3>1
  <2>3. CASE ~(pool > 0)
    <3>1. ~pbuf' /\ pool' = pool /\ held' = held
      BY <1>1, <2>3 DEF AllocPbuf
    <3> QED BY <2>1, <3>1
  <2> QED BY <2>2, <2>3
<1>2. CASE Input
  <2>1. CASE ~pbuf /\ UNCHANGED <<pool, held>> BY <1>2, <2>1 DEF Input
  <2>2. CASE pbuf /\ pool' = pool + 1 /\ UNCHANGED held BY <1>2, <2>2 DEF Input
  <2>3. CASE pbuf /\ held' = held + 1 /\ UNCHANGED pool BY <1>2, <2>3 DEF Input
  <2> QED BY <1>2, <2>1, <2>2, <2>3 DEF Input
<1>3. CASE StackRelease BY <1>3 DEF StackRelease
<1>4. CASE UNCHANGED <<pool, held, pbuf>> BY <1>4
<1> QED BY <1>1, <1>2, <1>3, <1>4
        DEF Next, Handler, Engine, Arrive, DmaStore, DmaSuspend, DmaFlush,
            IsrEnter, CheckFrameReceived, RxPacket, CopyFrame, GiveBack,
            TestRbus, PollDemand, ClearR, ClearNIS

----------------------------------------------------------------------------
(* The ring's shape and the numbering.  Only DmaStore, which lengthens the *)
(* stretch of the CPU's descriptors, and GiveBack, which shortens it,      *)
(* disturb them; RxPacket moves the oldest descriptor from cur to hand.    *)

LEMMA NextRingShape == IInv /\ [Next]_vars => RingShape'
<1> SUFFICES ASSUME IInv, [Next]_vars PROVE RingShape'
  OBVIOUS
<1> USE DEF IInv, TypeOK, RingShape, vars, ring, hw, irq, run
<1>1. CASE DmaStore
  <2>1. UNCHANGED <<cur, hand, pc>> /\ Tail' = Tail /\ Tail \in Desc
    BY <1>1 DEF DmaStore, Tail
  <2>2. dma' = NextDesc(dma) /\ own[dma] = "DMA"
        /\ own' = [own EXCEPT ![dma] = "CPU"]
    BY <1>1 DEF DmaStore
  <2>3. CASE Tail = dma
    <3>1. \A d \in Desc : own[d] = "DMA"
      BY <2>2, <2>3
    <3>2. \A d \in Desc : own'[d] = "CPU" <=> d = dma
      BY <2>2, <3>1
    <3> QED BY <2>1, <2>2, <2>3, <3>2, DescStep, WithinAllButOne
  <2>4. CASE Tail # dma
    <3>1. \A d \in Desc : own'[d] = "CPU" <=> Within(Tail, d, dma) \/ d = dma
      BY <2>2, <2>4
    <3>2. CASE NextDesc(dma) = Tail
      BY <2>1, <2>2, <2>4, <3>1, <3>2, WithinGrows
    <3>3. CASE NextDesc(dma) # Tail
      BY <2>1, <2>2, <2>4, <3>1, <3>3, WithinGrows
    <3> QED BY <3>2, <3>3
  <2> QED BY <2>3, <2>4
<1>2. CASE RxPacket
  <2>1. Tail = cur /\ Tail' = cur /\ own[cur] = "CPU" /\ UNCHANGED <<own, dma>>
    BY <1>2 DEF RxPacket, Tail, InHand
  <2> QED BY <2>1
<1>3. CASE GiveBack
  <2>1. Tail = hand /\ Tail' = NextDesc(hand) /\ own[hand] = "CPU" /\ dma' = dma
    BY <1>3, InHandOwned DEF GiveBack, Tail, InHand, HandlerOK
  <2>2. own' = [own EXCEPT ![hand] = "DMA"] /\ pc' \notin InHand
    BY <1>3 DEF GiveBack, InHand
  <2>3. CASE hand = dma
    <3>1. \A d \in Desc : own'[d] = "CPU" <=> d # hand
      BY <2>1, <2>2, <2>3
    <3> QED BY <2>1, <2>3, <3>1, DescStep, WithinAllButOne
  <2>4. CASE hand # dma
    <3>1. \A d \in Desc : own'[d] = "CPU" <=> Within(hand, d, dma) /\ d # hand
      BY <2>1, <2>2, <2>4
    <3>2. CASE NextDesc(hand) = dma
      <4>1. \A d \in Desc : own'[d] = "DMA"
        BY <2>2, <2>4, <3>1, <3>2, WithinShrinks
      <4> QED BY <2>1, <2>2, <3>2, <4>1
    <3>3. CASE NextDesc(hand) # dma
      BY <2>1, <2>4, <3>1, <3>3, WithinShrinks
    <3> QED BY <3>2, <3>3
  <2> QED BY <2>3, <2>4
<1>4. CASE CheckFrameReceived \/ AllocPbuf \/ CopyFrame
  BY <1>4 DEF CheckFrameReceived, AllocPbuf, CopyFrame, Tail, InHand
<1>5. CASE RingIdle
  <2>1. UNCHANGED <<own, cur, dma, hand>> /\ (pc \in InHand <=> pc' \in InHand)
    BY <1>5 DEF RingIdle, Arrive, DmaSuspend, DmaFlush, IsrEnter, TestRbus,
                PollDemand, Input, ClearR, ClearNIS, StackRelease, InHand
  <2> QED BY <2>1 DEF Tail
<1> QED BY <1>1, <1>2, <1>3, <1>4, <1>5 DEF Next, Handler, Engine, RingIdle

LEMMA NextChain == IInv /\ [Next]_vars => Chain'
<1> SUFFICES ASSUME IInv, [Next]_vars PROVE Chain'
  OBVIOUS
<1> USE DEF IInv, TypeOK, vars, ring, hw, irq, run
<1>1. CASE DmaStore
  <2>1. /\ UNCHANGED <<cur, hand, pc, expect>> /\ Tail' = Tail /\ Tail \in Desc
        /\ dma' = NextDesc(dma) /\ own[dma] = "DMA" /\ dma \in Desc
        /\ own' = [own EXCEPT ![dma] = "CPU"]
        /\ buf' = [buf EXCEPT ![dma] = seq] /\ seq' = NextId(seq)
    BY <1>1 DEF DmaStore, Tail
  <2>2. own'[Tail'] = "CPU" => buf'[Tail'] = expect'
    BY <2>1 DEF Chain
  <2>3. own'[Tail'] = "CPU"
    BY <2>1, WithinShrinks DEF RingShape
  <2>4. ASSUME NEW d \in Desc, own'[d] = "CPU", own'[NextDesc(d)] = "CPU",
               NextDesc(d) # Tail'
        PROVE  buf'[NextDesc(d)] = NextId(buf'[d])
    <3>1. CASE d = dma
      <4>1. NextDesc(dma) # dma /\ NextDesc(dma) \in Desc
        BY DescStep
      <4>2. own[NextDesc(dma)] = "CPU"
        BY <2>1, <2>4, <3>1, <4>1
      <4>3. Tail # dma /\ Within(Tail, NextDesc(dma), dma)
        BY <2>1, <4>1, <4>2 DEF RingShape
      <4> QED BY <2>1, <2>4, <3>1, <4>3, WithinWraps
    <3>2. CASE NextDesc(d) = dma
      <4>1. d = PrevDesc(dma) /\ d # dma
        BY <3>2, DescStep
      <4>2. seq = NextId(buf[d])
        BY <2>1, <2>4, <4>1 DEF Chain
      <4> QED BY <2>1, <3>2, <4>1, <4>2
    <3>3. CASE d # dma /\ NextDesc(d) # dma
      BY <2>1, <2>4, <3>3, DescStep DEF Chain
    <3> QED BY <3>1, <3>2, <3>3
  <2>5. seq' = NextId(buf'[PrevDesc(dma')])
    BY <2>1, DescStep
  <2> QED BY <2>2, <2>3, <2>4, <2>5 DEF Chain
<1>2. CASE RxPacket
  <2>1. Tail' = Tail /\ UNCHANGED <<own, buf, dma, seq, expect>>
    BY <1>2 DEF RxPacket, Tail, InHand
  <2> QED BY <2>1 DEF Chain
<1>3. CASE GiveBack
  <2>1. /\ Tail = hand /\ Tail' = NextDesc(hand) /\ own[hand] = "CPU"
        /\ UNCHANGED <<dma, buf, seq>> /\ expect' = NextId(expect)
        /\ own' = [own EXCEPT ![hand] = "DMA"] /\ hand \in Desc
    BY <1>3, InHandOwned DEF GiveBack, Tail, InHand, HandlerOK
  <2>2. NextDesc(hand) \in Desc /\ NextDesc(hand) # hand /\ buf[hand] = expect
    BY <2>1, DescStep DEF Chain
  <2>3. own'[Tail'] = "CPU" => buf'[Tail'] = expect'
    BY <2>1, <2>2 DEF Chain
  <2>4. ASSUME own'[Tail'] = "DMA" PROVE seq' = expect'
    <3>1. own[NextDesc(hand)] = "DMA"
      BY <2>1, <2>2, <2>4
    <3>2. NextDesc(hand) = dma
      <4>1. CASE hand = dma
        BY <2>1, <2>2, <3>1, <4>1 DEF RingShape
      <4>2. CASE hand # dma
        <5>1. ~Within(hand, NextDesc(hand), dma)
          BY <2>1, <2>2, <3>1, <4>2 DEF RingShape
        <5> QED BY <2>1, <2>2, <4>2, <5>1, WithinShrinks, WithinAllButOne
      <4> QED BY <4>1, <4>2
    <3>3. PrevDesc(dma) = hand
      BY <2>1, <3>2, DescStep
    <3> QED BY <2>1, <2>2, <3>3 DEF Chain
  <2>5. ASSUME NEW d \in Desc, own'[d] = "CPU", own'[NextDesc(d)] = "CPU",
               NextDesc(d) # Tail'
        PROVE  buf'[NextDesc(d)] = NextId(buf'[d])
    BY <2>1, <2>2, <2>5, DescStep DEF Chain
  <2>6. own'[PrevDesc(dma')] = "CPU" => seq' = NextId(buf'[PrevDesc(dma')])
    BY <2>1, DescStep DEF Chain
  <2> QED BY <2>3, <2>4, <2>5, <2>6 DEF Chain
<1>4. CASE CheckFrameReceived \/ AllocPbuf \/ CopyFrame
  <2>1. Tail' = Tail /\ UNCHANGED <<own, buf, dma, seq, expect>>
    BY <1>4 DEF CheckFrameReceived, AllocPbuf, CopyFrame, Tail, InHand
  <2> QED BY <2>1 DEF Chain
<1>5. CASE RingIdle
  <2>1. /\ UNCHANGED <<own, buf, cur, dma, hand, seq, expect>>
        /\ pc \in InHand <=> pc' \in InHand
    BY <1>5 DEF RingIdle, Arrive, DmaSuspend, DmaFlush, IsrEnter, TestRbus,
                PollDemand, Input, ClearR, ClearNIS, StackRelease, InHand
  <2> QED BY <2>1 DEF Chain, Tail
<1> QED BY <1>1, <1>2, <1>3, <1>4, <1>5 DEF Next, Handler, Engine, RingIdle

----------------------------------------------------------------------------
(* The theorems. *)

\* IInv holds in every reachable state.
THEOREM Invariant == Spec => []IInv
<1>1. IInv /\ [Next]_vars => IInv'
  BY NextTypeOK, NextHandlerOK, NextRingShape, NextChain, NextResumeOK,
     NextPoolConserved DEF IInv
<1> QED BY InitIInv, <1>1, PTL DEF Spec

\* Every variable of the receive path keeps its type.
THEOREM TypeCorrect == Spec => []TypeOK
<1>1. IInv => TypeOK
  BY DEF IInv
<1> QED BY Invariant, <1>1, PTL

\* The CPU's descriptors are one stretch of the ring from the oldest one not
\* given back to the one the DMA engine is at.
THEOREM RingKeepsShape == Spec => []RingShape
<1>1. IInv => RingShape
  BY DEF IInv
<1> QED BY Invariant, <1>1, PTL

\* ETH_Rx_Packet never returns the null descriptor low_level_input would
\* write through.
THEOREM NeverNull == Spec => []NoNullDescriptor
<1>1. IInv => NoNullDescriptor
  BY DEF IInv, HandlerOK, NoNullDescriptor
<1> QED BY Invariant, <1>1, PTL

\* low_level_input copies whole frames, in the order they were stored, each
\* once, from a buffer the engine does not own.
THEOREM FramesInOrder == Spec => []CopiesNextFrame
<1>1. IInv => CopiesNextFrame
  BY InHandOwned DEF IInv, Chain, CopiesNextFrame, Tail, InHand
<1> QED BY Invariant, <1>1, PTL

\* The engine is resumed whenever it is suspended before a descriptor it owns.
THEOREM ReceptionResumed == Spec => []NoLostResume
<1>1. IInv => NoLostResume
  BY DEF IInv, ResumeOK, NoLostResume
<1> QED BY Invariant, <1>1, PTL

\* No path of ethernetif_input leaks a pool buffer.
THEOREM NoPoolLeak == Spec => []PoolConserved
<1>1. IInv => PoolConserved
  BY DEF IInv
<1> QED BY Invariant, <1>1, PTL
=============================================================================
