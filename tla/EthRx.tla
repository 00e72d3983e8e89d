------------------------------- MODULE EthRx -------------------------------
(***************************************************************************)
(* The receive path of the firmware: the ring of Rx descriptors that the   *)
(* Ethernet DMA fills and ETH_IRQHandler empties, the status bits that     *)
(* raise the interrupt (RS, NIS) and suspend reception (RBUS), and the     *)
(* PBUF_POOL buffers the frames are copied into.                           *)
(*                                                                         *)
(*   lwip_init.c         ETH_IRQHandler, input_process_hdl                 *)
(*   ethernetif.c        low_level_input, ethernetif_input                 *)
(*   LAN8720.c           ETH_Rx_Packet, ETH_MACDMA_Config                  *)
(*   stm32f4x7_eth.c     ETH_CheckFrameReceived, ETH_DMARxDescChainInit,   *)
(*                       ETH_DMAClearITPendingBit                          *)
(*                                                                         *)
(* The handler is split at every point where it reads or writes something  *)
(* the DMA engine also reads or writes.  The main loop runs only while the *)
(* handler does not; the DMA engine runs at any time.                      *)
(*                                                                         *)
(* A frame occupies one descriptor: ETH_MACDMA_Config selects store and    *)
(* forward, drops frames in error and leaves jumbo frames disabled, and    *)
(* ETH_RX_BUF_SIZE holds the longest frame that remains, so FS and LS are  *)
(* set together and the segment counter of DMA_RX_FRAME_infos, which only  *)
(* the unused Pkt_Handle reads, is left out.                               *)
(***************************************************************************)
EXTENDS Naturals

CONSTANTS
    N,          \* ETH_RXBUFNB: descriptors in the ring
    PoolSize,   \* PBUF_POOL_SIZE, in frames
    FifoCap,    \* frames the MAC's Rx FIFO holds
    MaxBurst,   \* frames the DMA can store while the handler is past its loop
    IdMod       \* frames are numbered modulo IdMod in the order the DMA stores them

ASSUME RingAssumption == N \in Nat /\ N >= 2
ASSUME PoolAssumption == PoolSize \in Nat \ {0}
ASSUME FifoAssumption == FifoCap \in Nat \ {0}
ASSUME BurstAssumption == MaxBurst \in Nat
ASSUME IdAssumption   == IdMod \in Nat /\ IdMod >= 2

Desc == 0 .. (N - 1)
Ids  == 0 .. (IdMod - 1)

\* Variant: the last descriptor is not chained to the first.
NextDescUnchained(d) == d + 1

\* Buffer2NextDescAddr: the chain closes on the first descriptor.
NextDesc(d) == IF d = N - 1 THEN 0 ELSE d + 1
PrevDesc(d) == IF d = 0 THEN N - 1 ELSE d - 1
NextId(i)   == IF i = IdMod - 1 THEN 0 ELSE i + 1

VARIABLES
    own,       \* own[d]: the OWN bit, "DMA" (set) or "CPU" (reset)
    es,        \* es[d]: the error summary bit ES of a stored frame
    buf,       \* buf[d]: the frame in the buffer of descriptor d
    cur,       \* DMARxDescToGet
    dma,       \* the descriptor the DMA engine is at
    suspended, \* the receive process of the DMA engine is suspended
    rbus,      \* DMASR.RBUS, receive buffer unavailable
    rs,        \* DMASR.RS, a frame was received
    nis,       \* DMASR.NIS, normal interrupt summary: the interrupt line
    fifo,      \* frames waiting in the MAC's Rx FIFO
    seq,       \* number of the next frame the DMA engine stores
    burst,     \* frames stored since the handler last left its loop
    pc,        \* where ETH_IRQHandler is
    hand,      \* low_level_input's frame.descriptor
    len,       \* frame.length: "frame", or "zero" for a frame in error
    pbuf,      \* low_level_input's p: a pool buffer is held
    copy,      \* the frame copied into p
    pool,      \* free PBUF_POOL buffers
    held,      \* pool buffers the stack keeps (reassembly and ARP queues)
    expect     \* number of the next frame the stack has yet to be offered

hw   == <<dma, suspended, fifo, seq, burst>>
run  == <<hand, len, pbuf, copy>>
irq  == <<rs, nis>>
ring == <<own, es, buf, cur, dma>>
vars == <<own, es, buf, cur, dma, suspended, rbus, rs, nis, fifo, seq, burst,
          pc, run, pool, held, expect>>

Leaving == {"clearR", "clearNIS"}
InHand  == {"alloc", "copy", "give"}
Steps   == InHand \cup Leaving \cup {"idle", "check", "rx", "rbus", "poll", "input"}

\* ETH_DMARxDescChainInit, then ETH_Start.
Init ==
    /\ own = [d \in Desc |-> "DMA"]
    /\ es = [d \in Desc |-> FALSE]
    /\ buf = [d \in Desc |-> 0]
    /\ cur = 0 /\ dma = 0
    /\ suspended = FALSE /\ rbus = FALSE
    /\ rs = FALSE /\ nis = FALSE
    /\ fifo = 0 /\ seq = 0 /\ burst = 0
    /\ pc = "idle"
    /\ hand = 0 /\ len = "zero" /\ pbuf = FALSE /\ copy = 0
    /\ pool = PoolSize /\ held = 0 /\ expect = 0

----------------------------------------------------------------------------
(* The Ethernet MAC and its DMA engine. *)

\* A frame comes in from the wire; a full FIFO loses it.  A suspended receive
\* process looks at its descriptor again when a frame comes in.
Arrive ==
    /\ fifo' = IF fifo < FifoCap THEN fifo + 1 ELSE fifo
    /\ suspended' = FALSE
    /\ UNCHANGED <<ring, rbus, irq, seq, burst, pc, run, pool, held, expect>>

\* The engine writes a frame into the buffer of a descriptor it owns, closes
\* the descriptor and raises the receive interrupt.
DmaStore ==
    /\ ~suspended /\ fifo > 0 /\ own[dma] = "DMA"
    /\ pc \in Leaving => burst < MaxBurst
    /\ own' = [own EXCEPT ![dma] = "CPU"]
    /\ \E e \in BOOLEAN : es' = [es EXCEPT ![dma] = e]
    /\ buf' = [buf EXCEPT ![dma] = seq]
    /\ seq' = NextId(seq)
    /\ dma' = NextDesc(dma)
    /\ fifo' = fifo - 1
    /\ rs' = TRUE /\ nis' = TRUE
    /\ burst' = IF pc \in Leaving THEN burst + 1 ELSE burst
    /\ UNCHANGED <<cur, suspended, rbus, pc, run, pool, held, expect>>

\* The engine finds its next descriptor owned by the CPU.
DmaSuspend ==
    /\ ~suspended /\ own[dma] = "CPU"
    /\ suspended' = TRUE /\ rbus' = TRUE
    /\ UNCHANGED <<ring, irq, fifo, seq, burst, pc, run, pool, held, expect>>

\* ETH_FlushReceivedFrame is enabled: a suspended engine drops what waits.
DmaFlush ==
    /\ suspended /\ fifo > 0
    /\ fifo' = fifo - 1
    /\ UNCHANGED <<ring, suspended, rbus, irq, seq, burst, pc, run, pool, held, expect>>

----------------------------------------------------------------------------
(* ETH_IRQHandler, which nothing but the DMA engine runs beside. *)

IsrEnter ==
    /\ pc = "idle" /\ nis
    /\ pc' = "check"
    /\ UNCHANGED <<ring, hw, rbus, irq, run, pool, held, expect>>

\* while(ETH_CheckFrameReceived())
CheckFrameReceived ==
    /\ pc = "check"
    /\ IF own[cur] = "CPU" THEN pc' = "rx" /\ UNCHANGED burst
                           ELSE pc' = "clearR" /\ burst' = 0
    /\ UNCHANGED <<ring, suspended, fifo, seq, rbus, irq, run, pool, held, expect>>

\* Variant: the descriptor goes back to the engine before its frame is copied.
RxPacketEarlyGiveBack ==
    /\ pc = "rx" /\ own[cur] = "CPU"
    /\ hand' = cur
    /\ own' = [own EXCEPT ![cur] = "DMA"]
    /\ len' = IF es[cur] THEN "zero" ELSE "frame"
    /\ cur' = NextDesc(cur)
    /\ pc' = "alloc"
    /\ UNCHANGED <<es, buf, hw, rbus, irq, pbuf, copy, pool, held, expect>>

\* ETH_Rx_Packet past its test of OWN.  A set OWN bit would make it return a
\* null descriptor, which low_level_input writes through: see NoNullDescriptor.
RxPacket ==
    /\ pc = "rx" /\ own[cur] = "CPU"
    /\ hand' = cur
    /\ len' = IF es[cur] THEN "zero" ELSE "frame"
    /\ cur' = NextDesc(cur)
    /\ pc' = "alloc"
    /\ UNCHANGED <<own, es, buf, hw, rbus, irq, pbuf, copy, pool, held, expect>>

\* pbuf_alloc(PBUF_RAW, len, PBUF_POOL): a zero length takes a buffer too.
AllocPbuf ==
    /\ pc = "alloc"
    /\ pbuf' = (pool > 0)
    /\ pool' = IF pool > 0 THEN pool - 1 ELSE pool
    /\ pc' = IF pool > 0 THEN "copy" ELSE "give"
    /\ UNCHANGED <<ring, hw, rbus, irq, hand, len, copy, held, expect>>

\* The memcpy out of the DMA buffer.
CopyFrame ==
    /\ pc = "copy"
    /\ copy' = buf[hand]
    /\ pc' = "give"
    /\ UNCHANGED <<ring, hw, rbus, irq, hand, len, pbuf, pool, held, expect>>

\* Variant: the descriptor is not given back when pbuf_alloc failed.
GiveBackIfPbuf ==
    /\ pc = "give"
    /\ own' = IF pbuf THEN [own EXCEPT ![hand] = "DMA"] ELSE own
    /\ expect' = NextId(expect)
    /\ pc' = "rbus"
    /\ UNCHANGED <<es, buf, cur, hw, rbus, irq, hand, len, pbuf, copy, pool, held>>

\* frame.descriptor->Status = ETH_DMARxDesc_OWN
GiveBack ==
    /\ pc = "give"
    /\ own' = [own EXCEPT ![hand] = "DMA"]
    /\ expect' = NextId(expect)
    /\ pc' = "rbus"
    /\ UNCHANGED <<es, buf, cur, hw, rbus, irq, hand, len, pbuf, copy, pool, held>>

\* Variant: RBUS is cleared without a poll demand.
TestRbusNoPoll ==
    /\ pc = "rbus"
    /\ rbus' = FALSE
    /\ pc' = "input"
    /\ UNCHANGED <<ring, hw, irq, run, pool, held, expect>>

\* if RBUS: clear it ...
TestRbus ==
    /\ pc = "rbus"
    /\ rbus' = FALSE
    /\ pc' = IF rbus THEN "poll" ELSE "input"
    /\ UNCHANGED <<ring, hw, irq, run, pool, held, expect>>

\* ... and DMARPDR = 0, which resumes the receive process.
PollDemand ==
    /\ pc = "poll"
    /\ suspended' = FALSE
    /\ pc' = "input"
    /\ UNCHANGED <<ring, rbus, irq, fifo, seq, burst, run, pool, held, expect>>

\* Variant: one frame per interrupt (if instead of while).
InputOnce ==
    /\ pc = "input"
    /\ pc' = "clearR"
    /\ pbuf' = FALSE
    /\ \/ ~pbuf /\ UNCHANGED <<pool, held>>
       \/ pbuf /\ pool' = pool + 1 /\ UNCHANGED held
       \/ pbuf /\ len = "frame" /\ held' = held + 1 /\ UNCHANGED pool
    /\ UNCHANGED <<ring, hw, rbus, irq, hand, len, copy, expect>>

\* Variant: a frame too short for a header is not freed.
InputLeaksShort ==
    /\ pc = "input"
    /\ pc' = "check"
    /\ pbuf' = FALSE
    /\ \/ (~pbuf \/ len = "zero") /\ UNCHANGED <<pool, held>>
       \/ pbuf /\ len = "frame" /\ pool' = pool + 1 /\ UNCHANGED held
       \/ pbuf /\ len = "frame" /\ held' = held + 1 /\ UNCHANGED pool
    /\ UNCHANGED <<ring, hw, rbus, irq, hand, len, copy, expect>>

\* The rest of ethernetif_input: nothing if there was no pbuf, else the type
\* switch.  A frame of another type and a frame too short for a header are
\* freed; netif->input either frees the frame or leaves it in a queue.
Input ==
    /\ pc = "input"
    /\ pc' = "check"
    /\ pbuf' = FALSE
    /\ \/ ~pbuf /\ UNCHANGED <<pool, held>>
       \/ pbuf /\ pool' = pool + 1 /\ UNCHANGED held
       \/ pbuf /\ len = "frame" /\ held' = held + 1 /\ UNCHANGED pool
    /\ UNCHANGED <<ring, hw, rbus, irq, hand, len, copy, expect>>

\* ETH_DMAClearITPendingBit(ETH_DMA_IT_R)
ClearR ==
    /\ pc = "clearR"
    /\ rs' = FALSE
    /\ pc' = "clearNIS"
    /\ UNCHANGED <<ring, hw, rbus, nis, run, pool, held, expect>>

\* ETH_DMAClearITPendingBit(ETH_DMA_IT_NIS) and the return.  A frame that has
\* set RS again keeps the line up, the reading in favour of the driver.
ClearNIS ==
    /\ pc = "clearNIS"
    /\ nis' = rs
    /\ pc' = "idle"
    /\ UNCHANGED <<ring, hw, rbus, rs, run, pool, held, expect>>

----------------------------------------------------------------------------
\* The stack frees a frame it held: a timer of the main loop that ages a queue,
\* or the input of another frame that completes or replaces what was held.
StackRelease ==
    /\ pc \in {"idle", "input"} /\ held > 0
    /\ held' = held - 1 /\ pool' = pool + 1
    /\ UNCHANGED <<ring, hw, rbus, irq, pc, hand, len, pbuf, copy, expect>>

Handler ==
    \/ IsrEnter \/ CheckFrameReceived \/ RxPacket \/ AllocPbuf \/ CopyFrame
    \/ GiveBack \/ TestRbus \/ PollDemand \/ Input \/ ClearR \/ ClearNIS
Engine == DmaStore \/ DmaSuspend \/ DmaFlush

Next == Arrive \/ Engine \/ Handler \/ StackRelease

Spec == Init /\ [][Next]_vars

\* The processor runs a handler to its end, the engine stores what it can.
\* Frames need not come in and the stack need not release what it holds.
Fairness == WF_vars(Handler) /\ WF_vars(DmaStore) /\ WF_vars(DmaSuspend)
FairSpec == Spec /\ Fairness

----------------------------------------------------------------------------
TypeOK ==
    /\ own \in [Desc -> {"DMA", "CPU"}]
    /\ es \in [Desc -> BOOLEAN]
    /\ buf \in [Desc -> Ids]
    /\ cur \in Desc /\ dma \in Desc /\ hand \in Desc
    /\ suspended \in BOOLEAN /\ rbus \in BOOLEAN
    /\ rs \in BOOLEAN /\ nis \in BOOLEAN
    /\ fifo \in 0 .. FifoCap /\ seq \in Ids /\ burst \in 0 .. MaxBurst
    /\ pc \in Steps
    /\ len \in {"frame", "zero"} /\ pbuf \in BOOLEAN /\ copy \in Ids
    /\ pool \in 0 .. PoolSize /\ held \in 0 .. PoolSize /\ expect \in Ids

\* The oldest descriptor the CPU has not given back: the one in hand, if any.
Tail == IF pc \in InHand THEN hand ELSE cur

\* d lies on the way round the ring from a, included, to b, excluded.
Within(a, d, b) == IF a < b THEN a <= d /\ d < b ELSE a <= d \/ d < b

\* The descriptors the CPU owns are exactly those from the oldest one it has
\* not given back up to the one the engine is at: none is skipped or left
\* behind by any path of low_level_input, the failing ones included, and the
\* software pointer and the engine's never drift apart.
RingShape ==
    IF Tail = dma
    THEN \/ \A d \in Desc : own[d] = "CPU"
         \/ \A d \in Desc : own[d] = "DMA" /\ pc \notin InHand
    ELSE \A d \in Desc : own[d] = "CPU" <=> Within(Tail, d, dma)

\* When ETH_Rx_Packet runs, the descriptor ETH_CheckFrameReceived looked at
\* is still the CPU's, so the null descriptor of its early return, which
\* low_level_input would write through, never gets there.
NoNullDescriptor == pc = "rx" => own[cur] = "CPU"

\* The frame low_level_input copies is whole and is the next one in order:
\* the engine does not own its buffer, no frame is offered twice and none is
\* passed over, whatever the engine stores meanwhile.
CopiesNextFrame ==
    pc \in {"alloc", "copy"} => own[hand] = "CPU" /\ buf[hand] = expect

\* The engine is never left suspended in front of a descriptor it owns: when
\* the handler gives the descriptor back it goes on to see RBUS and resume.
NoLostResume ==
    suspended /\ own[dma] = "DMA" => pc \in {"rbus", "poll"}

\* Every path of ethernetif_input frees the pool buffer or hands it on.
PoolConserved == pool + held + (IF pbuf THEN 1 ELSE 0) = PoolSize

\* As long as frames keep coming in, every stored frame is taken.
TakenUnderTraffic ==
    []<><<Arrive>>_vars => \A d \in Desc : own[d] = "CPU" ~> own[d] = "DMA"

\* "This function should be called when a packet is ready to be read"
\* (ethernetif.c, of ethernetif_input): a stored frame is taken without
\* another one having to come in.
TakenWhenReady == \A d \in Desc : own[d] = "CPU" ~> own[d] = "DMA"
=============================================================================
