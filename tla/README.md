# Verification of the STM32F4 / LAN8720 Ethernet firmware

TLA+ models of the firmware in `Ethernet_LAN8720/`: a bare-metal (NO_SYS = 1) port of
lwIP 1.4.1 to an STM32F4 with a LAN8720 PHY, whose program is a TFTP server. TLC checks
the models on small instances, TLAPS proves part of what they say for every value of the
constants. `PROJECT.json` lists, for every definition, the source lines it stands for.

Paths below are relative to `Ethernet_LAN8720/`; `LwIP` is `ThridPart/LwIP_1_4_1`.

## 1. The system

Two contexts and a DMA engine share everything:

    wire -> MAC FIFO -> Rx ring -> ETH_IRQHandler -> ethernet_input -> etharp / ip_input
                                                        -> ip_reass -> udp_input, tcp_input
                                                                            |
    wire <- DMA engine <- Tx ring <- low_level_output <- etharp_output <- callbacks
                                           ^
    SysTick -> lwip_localtime -> main loop: sys_check_timeouts -> ip_reass / arp / tcp / dhcp timers

* `ETH_IRQHandler` (priority 0) runs the whole input path and all replies. It is never
  interrupted by the main loop, and nothing ever masks it: `SYS_LIGHTWEIGHT_PROT` is 0.
* The main loop (`Main/main.c`) calls `sys_check_timeouts` for ever. Its timer handlers touch
  the same ARP table, reassembly list, pools, heap and Tx ring as the interrupt.
* `SysTick_Handler` (the same priority 0) counts `lwip_localtime` up once per millisecond.
* The Ethernet DMA engine owns descriptors by their OWN bit and runs beside both.

### Inventory

| Component | State | Operations | What is hard | Correct means | Module |
|---|---|---|---|---|---|
| Receive path (`stm32f4x7_eth.c`, `LAN8720.c`, `ethernetif.c`, `lwip_init.c`) | Rx ring, DMARxDescToGet, DMASR bits, PBUF_POOL | `ETH_IRQHandler`, `ETH_CheckFrameReceived`, `ETH_Rx_Packet`, `low_level_input`, `ethernetif_input` | the engine stores, suspends and flushes between any two steps; empty pool; status bits cleared late | frames taken in order, whole, once; the ring never loses a descriptor; reception never stops for good | `EthRx` |
| Transmit path | Tx ring, DMATxDescToSet, TBUS | `ETH_GetCurrentTxBuffer`, `low_level_output`, `ETH_Tx_Packet` | full ring; engine suspends in mid-call; two senders | accepted frames leave whole, in order, without a further send | `EthTx` |
| TFTP server (`lwip_app/tftp_udp.c`) | UDP control blocks, connection arguments | requests, `rrq_recv_callback`, `wrq_recv_callback`, clean-up | loss, repetition, reordering; failing allocation; no timer of its own | no half-open session, blocks counted once and in order, a finished transfer is whole | `Tftp` |
| ARP (`netif/etharp.c`) | table, ages, the packet of each pending entry, the entry found last | `etharp_arp_input`, `etharp_output`, `etharp_query`, `etharp_tmr` | ageing and sending in the main loop under updates in the interrupt; a full table | one entry for an address; a packet kept is sent or freed once, to the card last heard from | `Etharp` |
| IP reassembly (`ipv4/ip_frag.c`) | list of datagrams, their pool, pbuf count | `ip_reass`, `ip_reass_tmr`, removal of the oldest | overlaps, a wrong predecessor, timer against input | the count is the pbufs kept; the lists stay lists; what is returned is whole | `IpReass` |
| lwIP timers (`core/timers.c`) | list of differences, MEMP_SYS_TIMEOUT, clock | `sys_timeout`, `sys_untimeout`, `sys_check_timeouts` | late main loop, clock going round, pool empty, TCP timer armed by the interrupt | every timer has its own time; periodic ones are never lost, early, or (if the loop keeps up) late | `Timeouts`, `TimeoutsSchedule`, `TimerService` |
| TCP echo server (`lwip_tcp_server.c`) | `es`, its pbuf chain and the reference counts | accept, recv, sent, poll, error, close | close with data left, failed write, poll in the main loop under the interrupt | every byte echoed once, in order; pbufs freed once; orderly close | `EchoServer` |
| Memory pools (`core/memp.c`) | linked free lists | `memp_malloc`, `memp_free` | the interrupt between the load and the store of the list head | no element lost or handed out twice | one pool in `IpReass`; counters elsewhere |
| UDP (`core/udp.c`) | list of control blocks, `udp_port` | new, connect, remove, input, sendto | port reuse, stale datagrams | a datagram reaches the control block connected to its sender | in `Tftp` |
| pbufs, heap (`core/pbuf.c`, `core/mem.c`) | reference counts, first-fit blocks | alloc, free, chain, header | reference counts in two contexts; merging of holes | each pbuf freed exactly once; blocks tile the heap | pool account in `EthRx`, counts and chains in `EchoServer`; heap planned |
| Ping (`lwip_ping.c`) | sequence number, timer | `ping_timeout`, `ping_recv` | late answers | only the current request is answered | timer in `Timeouts`; rest planned |
| TCP (`core/tcp*.c`) | control blocks | -- | -- | -- | its timer, and what `EchoServer` sees |
| DHCP (`core/dhcp.c`, `lwip_comm.c`) | -- | its two timers | never started; `lwip_comm.c` is for FreeRTOS | -- | only its timers |
| IP, ICMP, raw, netif, PHY and MAC set-up, UART, UDP echo, parts of lwIP switched off | none, or set once | -- | -- | -- | not modelled |

## 2. The modules

### EthRx, the receive path

One variable per thing both sides see: `own`, `es`, `buf` of every descriptor, `cur`
(DMARxDescToGet), the engine's `dma`, `suspended`, the bits `rbus`, `rs`, `nis`; the locals
of `low_level_input` (`hand`, `len`, `pbuf`, `copy`); the pool. The handler is cut at each
access to something the engine also reads or writes: `IsrEnter`, `CheckFrameReceived`,
`RxPacket`, `AllocPbuf`, `CopyFrame`, `GiveBack`, `TestRbus`, `PollDemand`, `Input`, `ClearR`,
`ClearNIS`. The engine (`Arrive`, `DmaStore`, `DmaSuspend`, `DmaFlush`) is external and follows
the STM32F4 reference manual as the driver relies on it. `netif->input` either frees the frame
or leaves it in a queue (`held`); a timer of the main loop, or the input of another frame, releases it
(`StackRelease`).

Abstracted: a frame is a number and an error bit, and takes one descriptor (the MAC set-up
lets nothing longer through).

### EthTx, the transmit path

`low_level_output` in one or two contexts, cut at each access to a descriptor, to DMASR or
to DMATxDescToSet; `Rereads` says whether the build reads that variable once or at each use. The main loop
moves only while the handler is idle.

### Tftp, the server and its clients

A callback runs to its end inside the interrupt, so one callback is one action: `Request`
(server_recv_cb, process_tftp_request, process_read/write and the clean-up of a failure),
`ReadData`, `WriteData`, `NotForUs`. The network is two sets of datagrams; when `Lossy` they stay in the
set for good, so any datagram may come late, again or never. Clients are external: they
follow RFC 1350, repeat themselves a bounded number of times and give up. File contents are
abstracted to lengths: block n of a file has a length, and the number it is sent under is
modulo 2^16 (`BlockMod`). `Faults` says what may fail: mem_malloc of the arguments, or a send
(pbuf_alloc or udp_sendto).

### Etharp, the ARP table

`arp` is `arp_table` with the packet each entry keeps (`ARP_QUEUEING` is 0: at most one). A packet
has an identity of its own (`Packets`), and `dest` says where each one goes, or that it is free: a packet freed
twice and one that nobody frees are two different things. `announced` remembers what each host has last
said of its card. In the interrupt `ArpInput` and `IsrOutput` are one step each. The main loop is cut at each
load, test and store of an entry: `etharp_tmr` is `TmrStart`, `TmrLoad`, `TmrAge`, `TmrTest`, `TmrYoung`,
`TmrWaited`, `TmrAsked`, `TmrRestable`; `etharp_free_entry` is `FreeLoad`, `FreeDrop`, `FreeClear`, `FreeEmpty`,
`FreeWipe`. `etharp_output` begins with `OutStart`; `OutHint` and `OutScan` read the state of an entry and `OutHintIp` and `OutScanIp`
then its address; `OutSend`, `OutAsks`, `OutMark`, `OutAddr`, `OutRest` send (the card is copied in two halves,
`OutAddr` and `OutRest`); `OutFind`, `OutMatch` and `OutOwn` are `etharp_find_entry` entry by entry (`Consider`, `Rank`);
`OutPending`, `OutDecide`, `OutStill`, `OutCopy`, `OutKept`, `OutReplace`, `OutStore` are `etharp_query`. What is still
one step is listed at the head of the module. In the interrupt `etharp_find_entry` is `Entry`, with the order in which
it gives entries up (`Victim`).

The code has windows in which an interrupt that changes the very entry at hand leaves a mix of two
states: another packet for the same address while the old one is freed, an answer while the new one is
stored, an entry recycled between two loads. `Tears` lists them, one line each, and `OutHintIp` and `OutScanIp`
see for themselves whether the entry they take is still stable; the model ends there (`torn`), and the properties say that an interrupt at any other moment does no harm.

### IpReass, IP reassembly

`reass` holds the two lists that share one link word: `reassdatagrams` and the pool of
MEMP_REASSDATA, with `next` for both. `Fragment` is `ip_reass` whole: room for the pbuf
(`Room`, which may remove the oldest datagram), the search, the structure (`WithStruct`), the
place among the fragments, what is refused, and whether the result is taken for complete
(`Valid`, which looks exactly where the code looks). `ip_reass_tmr` is cut at each load and
store of what the interrupt shares: `TmrAge`, `TmrExpire`, `TmrIcmp`, `TmrPbufs`, `TmrDequeue`,
`TmrLink`, `TmrPut` (memp_free), `TmrLoad`, `TmrStore` (the count). A fragment is an interval of its
datagram; contents are abstracted. The model ends when freed memory would be read or written
(`Damaged`); `DamageBounded` says when that can be.

### EchoServer, one TCP connection of the echo server

The callbacks of the interrupt and `poll` of the main loop run the same code for a context c, cut at
each load and store of `es` and of the pbufs. `tcp_echoserver_send` is `Check`, `Fits`, `Load` (its three reads of
`es->p`), `Write` and `Copy` (tcp_write, which computes the send buffer and stores it), `Follow` (the load of
`ptr->next`), `Store` (of `es->p`), `Ref` and `Count` (pbuf_ref), `Free`, `Recved` and `Window` (tcp_recved, which
loads and stores `rcv_wnd`), `Defer`. `tcp_echoserver_connection_close` is `Close` and `Unhook`; `Accept`, `Recv`, `Fin`,
`Sent`, `Fail` are callbacks of the interrupt, `Poll`, `PollLeft` and `PollState` read the connection, `es->p` and
`es->state`. pbufs are numbered as they come, `linked` is their next, `refs` their counts; `AfterFree` is
`pbuf_free` along a chain, one step. Of the control block only what callbacks see is kept: send buffer,
window, the outcomes of `tcp_write` and `tcp_close`.

Nothing in the code protects poll from the interrupt. The model ends (`torn`) where the interrupt makes poll
use what is no longer so: `Overtakes` lists the changes, by where poll is, and `Fits`, `Load`, `Ref`, `PollState`
and `Sent` set `torn` themselves, for what they find. The properties are about every other interruption.

### TimerService, Timeouts, TimeoutsSchedule

`TimerService` is the promise: every timer has its own time left; a look at the clock gives a
credit; timers expire in order as far as it goes; arming or cancelling one changes no other.
`Timeouts` is the code: the list of differences, the insertion with its subtraction from the
timer behind, `sys_check_timeouts` as `Look`, `Test`, `Unlink`, `Call`, `Leave`, and the interrupt that
arms the TCP timer between them; `Programs` are the applications that may be running. The loads and stores
inside `Test` and `Unlink` are one step each, so `TcpInside` says when the interrupt would come between two of
them and matter: where the loop has read the first timer, or the next of the first, and the TCP timer goes in before it.
The model ends there (`broken`). `Call` has the outcome of a connection registered between the test of
`tcpip_tcp_timer` and its reset of `tcpip_tcp_timer_active`.
`Service == INSTANCE TimerService WITH left <- ...` sums the differences; `ImplementsService` is the
refinement. `TimeoutsSchedule` adds history: time passed, calls made, and `late`, whether there was
a reason to be late: a tick the main loop had not seen when the next came (`Lags`), an application that lets
the timers count from now on (`SetBack`), or a timer armed when its time, counted from the last expiry,
was over (`ArmedDue`): such a timer expires at the next look with what is left of the time passed, and
the timers behind it lose the rest. `RoomAssumption` is what `init.c:108` asks of a configuration: with TCP,
MEMP_NUM_SYS_TIMEOUT counts a timer for it.

The MC modules only extend these and give values to constants a `.cfg` cannot hold. Definitions marked
"Variant:" are plausible mistakes; replacing the definition they follow by one of them makes
the property named in `PROJECT.json` fail.

## 3. The runs

| Run | Bounds | Shows |
|---|---|---|
| `eth_rx_safety` | ring 3, pool 2, FIFO 1, 2 frames stored while the handler leaves, numbers mod 5 | ring shape, order, no lost resume, pool account; under traffic every stored frame is taken |
| `eth_rx_wakeup` (violated) | ring 3, pool 1 | a frame stored after the last look at the ring has its interrupt cleared and waits for the next frame |
| `eth_tx_isr` | the real ring of 5, one sender | shape, order, no lost resume, at most the frame in transmission is damaged, every accepted frame is sent |
| `eth_tx_race` (violated) | ring 3, both senders | the interrupt inside `ETH_Tx_Packet` leaves an owned descriptor behind the engine |
| `tftp_safety` | a reader, a writer, 3 control blocks, 4 ports, files of 3 blocks, one timeout each, lossy, failing malloc and send | no half-open session, numbers without gap, uploads counted once and never ended early (`UploadIntact`), done means whole |
| `tftp_lossless` | 2 readers of a file that ends with an empty block, a writer of 7 blocks with numbers mod 5, an unknown request, 4 control blocks and ports; fair | every transfer completes, every session ends |
| `tftp_resend` (violated) | one reader | an acknowledgement taken for wrong sends the next block, not the current one |
| `timeouts` | 3 periodic timers with TCP, with 2 application timers, or with restarts; pool 4, lag 3, clock mod 11, 16 ticks of history; fair | refinement of `TimerService`; no periodic timer lost, early, or late if the loop keeps up (`KeepsTime`); each called again and again |
| `ip_reass` | 3 structures, 3 pbufs, 4 datagrams of length 4 cut in two ways, age 1, `ip_reass_tmr` interrupted anywhere | while memory is undamaged: exact count, one structure each, ordered output; damage only in the two known ways |
| `ip_reass_hole` (violated) | one datagram of 4 fragments | first, last, then the one before the last: returned without the second |
| `etharp` | table 2, 3 hosts of which one changes its card, 3 packets, ages 2 / 1 / 2, memory that runs out; fair | one entry each, packets with pending entries only, each packet in one place until it is freed, the right card, no packet kept for ever |
| `echo_server` | 4 pbufs of lengths 1, 2, 1, 2, chains of up to 2, send buffer 2, window 4; fair | order, reference counts (`RefsRight`), orderly close after all is echoed, all is echoed and closed in the end |

Why the bounds are enough. A ring of three has a descriptor in hand, one stored and one free
at once; two pool buffers with the stack holding some give both empty and non-empty pools;
numbers modulo more than twice the ring tell apart every frame in it. In `Tftp` files of three blocks have
a first, a middle and a short last block, three control blocks (one is the server's) let
a repeated request open a second session or be refused, and a file that is a multiple of the
block length has the empty block. In `Timeouts` one period divides another, one is prime to
it, and the lag exceeds the shortest period, so several timers expire in one look; the clock
goes round within the 16 ticks of history. The pool of four is full with three
periodic timers and one application timer. In `IpReass` three structures are what the wrong
predecessor needs, the fourth datagram finds the pool empty, and three pbufs are fewer than four
fragments; a length of four leaves room for a hole between the first fragment and the one before the last. In `Etharp`
three hosts overflow a table of two; entries are given up stable, pending with and
without a packet; three packets are one kept, one
in the hands of etharp_query and one for the interrupt, or two kept and memory that has run out. In `EchoServer` the send buffer holds one or two pbufs, so data waits and
chains while older data is sent, and the window closes.

Bounds in guards: `MaxBurst` (frames stored between the handler's last look and its return; a frame
takes microseconds, those two register writes much less), `FifoCap`, the `IdMod`/`NoMod` numbering,
`Retries` of the clients, `MaxLag` of the main loop, `Horizon` of the history, the pbufs of `Lens`, and on a
lossy network `lastPort < Ports`: no datagram outlives a full round of 16384 ports. Deadlock
is unchecked only where a model may stop: TFTP clients that have all finished or given
up, `IpReass` once `Damaged`, `Etharp` and `EchoServer` once `torn`, `Timeouts` once `broken`, and a connection that has ended.

Fairness. EthRx: the processor runs a handler it has entered, the engine stores what it can; nothing
is assumed of arrivals except in `TakenUnderTraffic`, which says so itself. EthTx: a started
call is finished (strongly fair: interrupts leave the main loop time again and again) and the
engine sends what it owns; nobody has to send again. Tftp: the lossless network delivers. Timeouts:
the main loop is an endless loop and SysTick ticks; `KeepsFiring` is conditional on the
application ceasing to call `sys_restart_timeouts` and on no interrupt in the windows of `TcpInside`, which takes a
TCP application. Etharp: the main loop goes on, and begins
`etharp_tmr` again and again (strongly: between two of its own packets), which is what
`KeepsFiring` says of `arp_timer`; nothing is assumed of answers. EchoServer: a callback
goes on, `tcp_slowtmr` polls, the client acknowledges, and `tcp_write` finds memory again and
again; the client need not close.

## 4. Where code and text disagree

Each of these has a run that shows it.

* **Lost wake-up** (`lwip_init.c:47-51`): RS and NIS are cleared after the last look at the ring.
* **Two senders** (`LAN8720.c:295-311`): raw-API state is shared between main loop and
  interrupt without protection, which `rawapi.txt` rules out.
* **No retransmission** (`tftp_udp.c:337-345`): the comment says the current block is sent again; it
  is always the next one, because `args->block` is already one ahead. With the same
  off-by-one the branch for the correct acknowledgement is dead.
* **A datagram with a hole** (`ip_frag.c:371`, comment at 568-569): a fragment inserted between two
  others is compared with the one before it for an overlap, never for a hole.

Met while modelling; the models allow for them and the properties say exactly how far:

* Full Tx ring (`ethernetif.c:123`): the copy precedes the OWN test and falls on a frame in
  flight. `QueueIntact` leaves out the frame the engine is at.
* Removal of the oldest datagram (`ip_frag.c:254`): the predecessor is that of the last in the
  list. `DamageBounded`: with three or more datagrams, at the limit, and only then.
* The timer of reassembly (`ip_frag.c:141`) and its `memp_free` (`memp.c:460`) under the interrupt:
  the other disjunct of `DamageBounded`.
* `etharp_tmr` and `etharp_output` in the main loop (`etharp.c:185`, `:391`, `:1071`, `:1141`): a packet freed
  twice and another lost, two entries for an address, a packet in a stable entry. `Tears` is the list of
  these windows. State and address of an entry are two loads (`:950-951`, and the scan at 964-965): recycled between
  them for the very address, a pending entry is taken for stable, against the comment at 952, and the packet leaves for a
  zero card (`torn` in `OutHintIp` and `OutScanIp`).
* `tcp_echoserver_send` in poll (`lwip_tcp_server.c:411-443`): sent, freed or chained to by the interrupt between a load and the
  use of what was loaded. `Overtakes` and the steps that set `torn` are the list of these windows.
  `es->p` and `es->state` are two loads (`:346-354`): data that cannot be sent and the FIN between them make poll close
  with data left, against the comment at 353, and `tcp_close` resets the connection (`torn` in `PollState`).
* Echo server (`lwip_tcp_server.c:288`): data that is chained behind older data keeps the
  reference of `pbuf_chain` for good, against the comment at `:437` and `pbuf.c:772`;
  PBUF_POOL is empty after 20 of them. `OthersFreed` leaves out these pbufs (`waited`). What
  `es->p` holds is not freed when the connection fails (`tcp_echoserver_error`), and the result
  of `tcp_close` is not looked at (`stranded`).
* The TCP timer armed by the interrupt while `sys_check_timeouts` is between test and unlink is
  dropped (`timers.c:383`), and `tcpip_tcp_timer_active`, which by the comment at 70 says whether it is scheduled, stays set.
  With the pool full as well, the TCP timer armed by the interrupt may take the structure that
  a periodic handler has just freed, and that timer is lost. `NeverAhead` and `OnTime` leave
  out what follows an arming between test and unlink (`torn` of `TimeoutsSchedule`), and all of them what
  follows one in the windows of `TcpInside` (`broken`).

Read off the code, without a model: the pbuf lost when `udp_sendto` fails (`tftp_udp.c:81-85`);
any short datagram ends an upload (`tftp_udp.c:231`), whatever its opcode; a
session whose client goes away stays for ever, and there are five; `sys_timeout` counts from the
last expiry instead of the call (`timers.c:286`).

## 5. What is proved

The proofs hold for every ring and table size, pool, FIFO, set of clients or hosts, file length and
so on, under the named assumptions of the modules, which say no more than that the constants
have these types and minima. Further hypotheses are in the theorems.

* `EthRxProofs`: `TypeOK`, `RingShape`, `NoNullDescriptor` (theorem `NeverNull`), `CopiesNextFrame`,
  `NoLostResume`, `PoolConserved`. The inductive invariant adds to them what each `pc` knows: the descriptor
  looked at is still the CPU's (the engine only takes OWN away from itself), `hand` is the
  descriptor before `cur`, and the numbers in the CPU's stretch of the ring are consecutive from
  `expect`. Ring shape is not inductive alone: giving back the descriptor in hand keeps it
  only because that descriptor is the oldest of the stretch.
* `EthTxProofs`, with one sender: `TypeOK`, `RingShape`, `RefusedOnlyWhenFull` (`RefusalsAreFull`),
  `QueueIntact`, `QueueInOrder`, `NoLostResume`. The one sender is a hypothesis of the theorems;
  `eth_tx_race` shows that it is needed.
* `TftpProofs`: `SessionsAreWhole`, that a connected control block and its arguments exist
  together. A step changes one port in both tables or in none (`OnePort`); the invariant
  adds that the tables have an entry per port and that arguments are records. `TypeCorrect`
  is `TypeOK`: its one hard part is that `udp_new_port` returns a port, which
  needs that there are no fewer ports than control blocks, and a least-number argument for
  the first free one.
  `ReadsInSequence`, `DoneIsWhole`, `UploadIntact`, for any readers, writers, files, losses,
  repetitions and failures. Hypothesis `Roomy`: ports do not go round, block
  numbers do not go round in one file, and a block is longer than an ERROR datagram. The invariant
  `Transfer` says of every datagram that was ever sent, and of every client, what it means relative to the session it
  is of: as old datagrams never leave the network, nothing less is inductive. An
  acknowledgement is never ahead of the session, a DATA block never ahead of its
  writer, a session's port is never reused.
* `EtharpProofs`: `TypeOK`, `OneEntryEach`, `KeptByPending`, `CopiesExact`, `SentToLast`. `IInv` is the types
  (`Typed`), that ages stay below their limits (`Young`), which the table keeps only because `etharp_tmr` frees
  an entry before it counts further, and, unless `torn`, `Shape` and `Packed`. `Shape` has what each step of the main loop
  knows of entry i (`Window`) and of the entries it has passed in its search (`Passed`), and that every stable entry has
  the card last announced (`CardsRight`). `Packed` is `Right` of who holds which packet: no packet has two owners, each
  goes where its owner is, and one that is not free has an owner. The lemmas `RightLeft` to `RightStored` are the ways
  in which a step hands packets on. That `etharp_find_entry` always has an entry to give up is
  `MinimalElement`: a finite set has a minimum of the order by age.
* `EchoServerProofs`: `EchoInOrder`, `RefsRight`, `TypeOK` and `ClosesWhole`. Unless `torn`, `Order` ties what was echoed
  to the head of the chain and to whether its sender has written it; `Senders` and `Leavers` say what each of the two contexts
  has in hand while both are in the loop: who sends, sends `es->p`, and who has sent a pbuf has `es->p` behind it;
  `Counts` says that what is still to be sent is referenced, exactly once if it never had to wait (twice for the moment between
  pbuf_ref and pbuf_free), that the pbufs that had to wait are the end of the chain, and that what is sent is free once
  its sender has freed it. For the window, `Upto` adds up the lengths in the order in
  which they come: the window, what was received and what both contexts have yet to acknowledge to TCP are
  together TCP_WND (`SizedInv`).
* `TimeoutsProofs`: `TypeOK` (`Types`), the refinement of `TimerService` (`Implements`), `NeverAhead` and with
  it `KeepsTime` (`Keeps`). `Inv` adds to the types that no handler but TCP's is in the list twice,
  that timers and free structures do not outnumber the pool, and what each `pc` knows of the first timer. `EarlyInv` says of
  each periodic handler that its calls and the time left to its next one account for no more time than has
  passed; `LateInv` that they account for all of it, and that every periodic timer is in the list or
  about to be armed again (`NoneLost`): the pool has room for it, for it has just given its structure back. All of it is
  about the steps of the timers (`Step`); that the model may end instead is `NextIs` and `HistoryStep`.
* `IpReassProofs`: `TypeOK` (`Types`), `CountExact` (`Counts`), `OneStructEach` (`OneEach`), `OutOrdered` (`Orders`),
  `DamageBounded` (`Bounded`), for any structures, limits, ages, datagrams and ways to cut them, and `ip_reass_tmr` interrupted
  anywhere. None of these is inductive: the count, the order of what is returned and the uniqueness of structures
  hold while the lists are lists. `Inv` says that as long as nothing is damaged they are (`Fine`): the two lists
  followed through pointers are two rows (`Row`) that share no structure and together are all but the one that is being
  given back (`Lists`), unlisted structures are unused, fragments of each structure ascend, a structure that has
  the last fragment's flag has passed where a last fragment begins, and timers do not grow along the list, but
  for those that `ip_reass_tmr` has yet to count down (`Sorted`). `Counted` and `Knows` say what each `pc` has freed and knows of its pointers. Each
  step of `ip_reass_tmr` keeps this (`TmrSafe`). A fragment is cut in three stages (`Stages`: removal, structure,
  addition). Its removal is right if it is of the first or the last of the list (`RemovalFine`); any
  other (`Strays`) leaves two pointers to one structure, and whatever the fragment goes on to do there are two at its end
  (`DoubledAdd`, `DoubledEnqueue`): an undamaged step has removed no stray (`FragmentFine`). For `Bounded` the converse: without a stray nothing is damaged
  (`StagesFine`); a stray cuts the last structure off (`StraysClosed`); and as the timers are sorted, only a fragment of a
  datagram that has its structure can meet one, so it is the limit of pbufs that was reached.
* `Sums` holds what four of these need of running totals, defined by recursive functions:
  that they exist, that each step adds one summand, and that a function on numbers that
  never falls in one step never falls.

Every safety property of a passing run is a theorem. Only model-checked: all liveness (fairness and ENABLED are
beyond the prover); transfers whose block numbers go round (hypothesis `Roomy`), and `EthTx` with two senders, of which `eth_tx_race`
shows that the properties fail.

## 6. Not modelled

TCP itself (`EchoServer` has what its callbacks see; no TCP application is started), DHCP (never
started), IP/ICMP dispatch and `ip_frag`, which keep no state, the set-up of PHY, MAC and pins, the
UART, the UDP echo server (one callback), `lwip_comm.c` (FreeRTOS, not linked), the parts of lwIP that
are switched off, the vendor libraries: most of the repository's lines are these. The heap. Frames over
several descriptors; the interrupt inside `sys_timeout` itself (inside `sys_check_timeouts` it is
modelled), and what the model ends at (`torn`, `broken`, `Damaged`) beyond the moment itself; static ARP entries, which are not compiled.

## 7. Plan

1. Done: `EthRx`, `EthTx`, `Tftp`, `Etharp`, `IpReass`, `EchoServer`, `Timeouts` with `TimerService`, and proofs of all
   their safety properties.
2. `Mem`: the first-fit heap, `plug_holes` and `lfree`, with `mem_free` in the main loop under
   `mem_malloc` in the interrupt (`mem.c:335`). `Ping` on `Timeouts`: only the current request answered.
3. `Firmware`: main loop, interrupt and SysTick over the shared ARP, reassembly and timer state.
4. Abstract specifications: a receive queue and a transmit queue (FIFO with loss) that `EthRx` and
   `EthTx` implement; an abstract upload that `Tftp` implements; the step-by-step refinements as theorems.
5. `Etharp` and `EchoServer` beyond their windows: what a packet freed twice or a pbuf chained too late does next.
