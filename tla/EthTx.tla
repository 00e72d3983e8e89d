------------------------------- MODULE EthTx -------------------------------
(***************************************************************************)
(* The transmit path of the firmware: the ring of Tx descriptors that      *)
(* low_level_output fills and the Ethernet DMA empties.                    *)
(*                                                                         *)
(*   ethernetif.c        low_level_output                                  *)
(*   LAN8720.c           ETH_GetCurrentTxBuffer, ETH_Tx_Packet             *)
(*   stm32f4x7_eth.c     ETH_DMATxDescChainInit                            *)
(*                                                                         *)
(* The stack sends from two contexts: from ETH_IRQHandler, which runs the  *)
(* whole input path and its replies, and from the main loop, where         *)
(* sys_check_timeouts runs the timers (a reassembly that times out sends   *)
(* an ICMP message) and where netif_set_up announces the address.  Nothing *)
(* masks the interrupt, so the handler may run between any two steps of    *)
(* the main loop; the main loop does not run inside the handler.           *)
(*                                                                         *)
(* DMATxDescToSet is an ordinary variable ETH_Tx_Packet uses several       *)
(* times: a build may read it once and keep it, or read it again.          *)
(***************************************************************************)
EXTENDS Naturals

CONSTANTS
    N,         \* ETH_TXBUFNB: descriptors in the ring
    Contexts,  \* the contexts that send: a subset of {"main", "isr"}
    Rereads,   \* the build reads DMATxDescToSet again at every use
    NoMod      \* a context numbers the frames it sends modulo NoMod

ASSUME RingAssumption == N \in Nat /\ N >= 2
ASSUME ContextAssumption == Contexts \subseteq {"main", "isr"}
ASSUME BuildAssumption == Rereads \in BOOLEAN
ASSUME NoAssumption == NoMod \in Nat /\ NoMod >= 2

Desc == 0 .. (N - 1)
Nos  == 0 .. (NoMod - 1)

\* A frame is told apart by its sender and its number there.
Frame   == [from : Contexts, no : Nos]
NoFrame == [from |-> "none", no |-> 0]

\* Variant: the last descriptor is not chained to the first.
NextDescUnchained(d) == d + 1

NextDesc(d) == IF d = N - 1 THEN 0 ELSE d + 1
NextNo(i)   == IF i = NoMod - 1 THEN 0 ELSE i + 1

VARIABLES
    own,       \* own[d]: the OWN bit, "DMA" (set) or "CPU" (reset)
    buf,       \* buf[d]: the frame whose bytes are in the buffer of d
    hdr,       \* hdr[d]: the frame whose length and flags are in descriptor d
    cur,       \* DMATxDescToSet
    dma,       \* the descriptor the DMA engine is at
    suspended, \* the transmit process of the DMA engine is suspended
    tbus,      \* DMASR.TBUS, transmit buffer unavailable
    pc,        \* pc[c]: where context c is in low_level_output
    to,        \* to[c]: the descriptor whose buffer address c has read
    at,        \* at[c]: DMATxDescToSet as c has read it in ETH_Tx_Packet
    no         \* no[c]: number of the next frame c sends

engine == <<dma, suspended, tbus>>
vars   == <<own, buf, hdr, cur, dma, suspended, tbus, pc, to, at, no>>

Steps == {"idle", "copy", "test", "length", "own", "tbus", "poll", "advance"}

\* ETH_DMATxDescChainInit, then ETH_Start.
Init ==
    /\ own = [d \in Desc |-> "CPU"]
    /\ buf = [d \in Desc |-> NoFrame]
    /\ hdr = [d \in Desc |-> NoFrame]
    /\ cur = 0 /\ dma = 0
    /\ suspended = FALSE /\ tbus = FALSE
    /\ pc = [c \in Contexts |-> "idle"]
    /\ to = [c \in Contexts |-> 0]
    /\ at = [c \in Contexts |-> 0]
    /\ no = [c \in Contexts |-> 0]

----------------------------------------------------------------------------
(* The DMA engine. *)

\* The engine sends the frame of a descriptor it owns and closes it.
DmaSend ==
    /\ ~suspended /\ own[dma] = "DMA"
    /\ own' = [own EXCEPT ![dma] = "CPU"]
    /\ dma' = NextDesc(dma)
    /\ UNCHANGED <<buf, hdr, cur, suspended, tbus, pc, to, at, no>>

\* The engine finds its next descriptor owned by the CPU.
DmaSuspend ==
    /\ ~suspended /\ own[dma] = "CPU"
    /\ suspended' = TRUE /\ tbus' = TRUE
    /\ UNCHANGED <<own, buf, hdr, cur, dma, pc, to, at, no>>

----------------------------------------------------------------------------
(* low_level_output in context c. *)

\* The main loop runs only while the handler does not.
Runs(c) == c = "main" /\ "isr" \in Contexts => pc["isr"] = "idle"

At(c, step) == Runs(c) /\ pc[c] = step
Goto(c, step) == pc' = [pc EXCEPT ![c] = step]

Sending(c) == [from |-> c, no |-> no[c]]

\* What a use of DMATxDescToSet after the first one is worth.
Used(c) == IF Rereads THEN cur ELSE at[c]

\* buffer = ETH_GetCurrentTxBuffer()
GetBuffer(c) ==
    /\ At(c, "idle")
    /\ to' = [to EXCEPT ![c] = cur]
    /\ Goto(c, "copy")
    /\ UNCHANGED <<own, buf, hdr, cur, engine, at, no>>

\* The memcpy of the pbuf chain into the buffer.
CopyPbufs(c) ==
    /\ At(c, "copy")
    /\ buf' = [buf EXCEPT ![to[c]] = Sending(c)]
    /\ Goto(c, "test")
    /\ UNCHANGED <<own, hdr, cur, engine, to, at, no>>

\* Variant: a refused frame moves DMATxDescToSet on all the same.
TestOwnSkips(c) ==
    /\ At(c, "test")
    /\ at' = [at EXCEPT ![c] = cur]
    /\ IF own[cur] = "DMA" THEN Goto(c, "idle") /\ cur' = NextDesc(cur)
                           ELSE Goto(c, "length") /\ UNCHANGED cur
    /\ UNCHANGED <<own, buf, hdr, engine, to, no>>

\* Variant: the OWN bit is not tested.
TestOwnUntested(c) ==
    /\ At(c, "test")
    /\ at' = [at EXCEPT ![c] = cur]
    /\ Goto(c, "length")
    /\ UNCHANGED <<own, buf, hdr, cur, engine, to, no>>

\* ETH_Tx_Packet: a descriptor the engine owns refuses the frame (ERR_MEM).
TestOwn(c) ==
    /\ At(c, "test")
    /\ at' = [at EXCEPT ![c] = cur]
    /\ IF own[cur] = "DMA" THEN Goto(c, "idle") ELSE Goto(c, "length")
    /\ UNCHANGED <<own, buf, hdr, cur, engine, to, no>>

\* ControlBufferSize, and Status |= LS | FS
SetLength(c) ==
    /\ At(c, "length")
    /\ hdr' = [hdr EXCEPT ![Used(c)] = Sending(c)]
    /\ Goto(c, "own")
    /\ UNCHANGED <<own, buf, cur, engine, to, at, no>>

\* Status |= OWN: the descriptor goes to the engine.
SetOwn(c) ==
    /\ At(c, "own")
    /\ own' = [own EXCEPT ![Used(c)] = "DMA"]
    /\ Goto(c, "tbus")
    /\ UNCHANGED <<buf, hdr, cur, engine, to, at, no>>

\* Variant: TBUS is cleared without a poll demand.
TestTbusNoPoll(c) ==
    /\ At(c, "tbus")
    /\ tbus' = FALSE
    /\ Goto(c, "advance")
    /\ UNCHANGED <<own, buf, hdr, cur, dma, suspended, to, at, no>>

\* if TBUS: clear it ...
TestTbus(c) ==
    /\ At(c, "tbus")
    /\ tbus' = FALSE
    /\ IF tbus THEN Goto(c, "poll") ELSE Goto(c, "advance")
    /\ UNCHANGED <<own, buf, hdr, cur, dma, suspended, to, at, no>>

\* ... and DMATPDR = 0, which resumes the transmit process.
PollDemand(c) ==
    /\ At(c, "poll")
    /\ suspended' = FALSE
    /\ Goto(c, "advance")
    /\ UNCHANGED <<own, buf, hdr, cur, dma, tbus, to, at, no>>

\* DMATxDescToSet = DMATxDescToSet->Buffer2NextDescAddr; ERR_OK
Advance(c) ==
    /\ At(c, "advance")
    /\ cur' = NextDesc(Used(c))
    /\ no' = [no EXCEPT ![c] = NextNo(@)]
    /\ Goto(c, "idle")
    /\ UNCHANGED <<own, buf, hdr, engine, to, at>>

TxPacket(c) ==
    \/ TestOwn(c) \/ SetLength(c) \/ SetOwn(c)
    \/ TestTbus(c) \/ PollDemand(c) \/ Advance(c)

Output(c) == GetBuffer(c) \/ CopyPbufs(c) \/ TxPacket(c)

Next ==
    \/ DmaSend
    \/ DmaSuspend
    \/ \E c \in Contexts : Output(c)

Spec == Init /\ [][Next]_vars

\* The processor finishes a call of low_level_output it has begun, and the
\* engine sends what it is given (the link is up).  Interrupts may keep coming
\* but leave the main loop time again and again.  Nobody has to send again.
Fairness ==
    /\ \A c \in Contexts : SF_vars(CopyPbufs(c) \/ TxPacket(c))
    /\ WF_vars(DmaSend) /\ WF_vars(DmaSuspend)
FairSpec == Spec /\ Fairness

----------------------------------------------------------------------------
TypeOK ==
    /\ own \in [Desc -> {"DMA", "CPU"}]
    /\ buf \in [Desc -> Frame \cup {NoFrame}]
    /\ hdr \in [Desc -> Frame \cup {NoFrame}]
    /\ cur \in Desc /\ dma \in Desc
    /\ suspended \in BOOLEAN /\ tbus \in BOOLEAN
    /\ pc \in [Contexts -> Steps]
    /\ to \in [Contexts -> Desc] /\ at \in [Contexts -> Desc]
    /\ no \in [Contexts -> Nos]

\* d lies on the way round the ring from a, included, to b, excluded.
Within(a, d, b) == IF a < b THEN a <= d /\ d < b ELSE a <= d \/ d < b

\* Where the next frame goes: past a descriptor already given to the engine
\* by a call that has not advanced DMATxDescToSet yet.
Given == \E c \in Contexts : pc[c] \in {"tbus", "poll", "advance"}
Head  == IF Given THEN NextDesc(cur) ELSE cur

\* The descriptors the engine owns are exactly those from the one it is at up
\* to the one the next frame goes to, so it never meets a hole.
RingShape ==
    IF Head = dma
    THEN \/ \A d \in Desc : own[d] = "DMA"
         \/ \A d \in Desc : own[d] = "CPU"
    ELSE \A d \in Desc : own[d] = "DMA" <=> Within(dma, d, Head)

\* A refused frame means that every descriptor waits to be sent.
RefusedOnlyWhenFull ==
    \A c \in Contexts :
        pc[c] = "test" /\ own[cur] = "DMA" => \A d \in Desc : own[d] = "DMA"

\* A frame the engine has yet to send is as it was accepted.  The one the
\* engine is at is left out: low_level_output copies before ETH_Tx_Packet
\* tests the OWN bit, and with a full ring that copy spoils this one.
QueueIntact ==
    \A d \in Desc : own[d] = "DMA" /\ d # dma => buf[d] = hdr[d]

\* The frames wait in the order they were accepted in, none twice.
QueueInOrder ==
    \A d \in Desc :
        own[d] = "DMA" /\ own[NextDesc(d)] = "DMA" /\ NextDesc(d) # dma =>
            hdr[NextDesc(d)].no = NextNo(hdr[d].no)

\* The engine is never left suspended in front of a descriptor it owns.
NoLostResume ==
    suspended /\ own[dma] = "DMA" =>
        \E c \in Contexts : pc[c] \in {"tbus", "poll"}

\* A frame handed to the engine is sent, without another send after it.
EverySent == \A d \in Desc : own[d] = "DMA" ~> own[d] = "CPU"
=============================================================================
