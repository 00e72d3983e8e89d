-------------------------------- MODULE Tftp --------------------------------
(***************************************************************************)
(* The TFTP server of the firmware (lwip_app/tftp_udp.c) over the UDP      *)
(* control blocks of lwIP (src/core/udp.c), its clients and the network.   *)
(*                                                                         *)
(* Every callback of the server runs to its end inside ETH_IRQHandler, so  *)
(* one callback is one step.  A request opens a session: a control block   *)
(* connected to the client and a tftp_connection_args from the heap.  The  *)
(* server has no timer: whatever it does, it does on a datagram.           *)
(*                                                                         *)
(* The network is a set of datagrams in each direction.  When Lossy, a     *)
(* datagram stays in it for good: it may be delivered late, again, or      *)
(* never, which is losing it; and clients time out and repeat.             *)
(* Clients are external; they follow RFC 1350, acknowledge again a block   *)
(* that comes again, and answer a stranger's datagram with error 5.        *)
(***************************************************************************)
EXTENDS Naturals, FiniteSets

CONSTANTS
    Readers, Writers, Others,  \* clients: of RRQ, of WRQ, of another opcode
    PcbMax,     \* MEMP_NUM_UDP_PCB, one of them the server's
    Ports,      \* the local ports of udp_new_port are 1 .. Ports
    DataMax,    \* TFTP_DATA_LEN_MAX
    FileLen,    \* bytes of the file every read gets: 1024*10+10
    UploadLen,  \* bytes of the file a writer has
    BlockMod,   \* block numbers are modulo BlockMod: 2^16
    Retries,    \* a client repeats itself at most so often, then gives up
    Lossy,      \* the network loses, repeats and reorders
    Faults      \* what may fail: "args" (mem_malloc), "send" (pbuf_alloc, udp_sendto)

ASSUME SizeAssumption ==
    /\ PcbMax \in Nat \ {0} /\ Ports \in Nat /\ Ports >= PcbMax
    /\ DataMax \in Nat \ {0} /\ FileLen \in Nat /\ UploadLen \in Nat
    /\ BlockMod \in Nat /\ BlockMod >= 2 /\ Retries \in Nat
ASSUME ClientsAssumption == Readers \cap Writers = {} /\ Others \cap (Readers \cup Writers) = {}
ASSUME NetworkAssumption ==
    Lossy \in BOOLEAN /\ Faults \subseteq {"args", "send"}

Clients   == Readers \cup Writers \cup Others
Port      == 1 .. Ports
Tftp69    == 0                       \* TFTP_PORT
UnknownId == 5                       \* TFTP_ERR_UKNOWN_TRANSFER_ID
Nums      == (0 .. (BlockMod - 1)) \cup {0, 2, UnknownId}

Op(c) == CASE c \in Readers -> "RRQ" [] c \in Writers -> "WRQ" [] OTHER -> "OTHER"

\* Block n of a file of len bytes, and the bytes of its first n blocks.
Blocks(len)      == (len \div DataMax) + 1
BlockLen(len, n) == IF n < Blocks(len) THEN DataMax ELSE len % DataMax
BytesOf(len, n)  == IF n < Blocks(len) THEN n * DataMax ELSE len

Free == [remote |-> "none", recv |-> "none"]
None == [block |-> 0, total |-> 0, len |-> 0, live |-> FALSE]

VARIABLES
    pcb,       \* pcb[p]: the control block bound to port p, its remote, its recv
    args,      \* args[p]: the tftp_connection_args its recv_arg points to
    lastPort,  \* udp_port
    reported,  \* <<client, bytes>> of every "TFTP Write end" with "Total bytes"
    up, down,  \* datagrams on their way to the server, to the clients
    client     \* client[c]

server  == <<pcb, args, lastPort, reported>>
vars    == <<pcb, args, lastPort, reported, up, down, client>>

\* tftp_server_init has bound the server's own control block to port 69.
Init ==
    /\ pcb = [p \in Port |-> Free]
    /\ args = [p \in Port |-> None]
    /\ lastPort = 1
    /\ reported = {}
    /\ up = {} /\ down = {}
    /\ client = [c \in Clients |->
         [state |-> "idle", tid |-> Tftp69, blk |-> 0, got |-> 0, tries |-> Retries]]

----------------------------------------------------------------------------
(* The control blocks. *)

Open == {p \in Port : pcb[p] # Free}

\* memp_malloc(MEMP_UDP_PCB) in udp_new; one block is the server's own.
PcbLeft == Cardinality(Open) + 1 < PcbMax

\* udp_new_port: the next port, going round, that no control block has.
NewPort ==
    LET After(i) == ((lastPort + i - 1) % Ports) + 1
    IN  After(CHOOSE i \in Port : /\ After(i) \notin Open
                                   /\ \A j \in 1 .. (i - 1) : After(j) \in Open)

\* udp_input: the connected control block a datagram belongs to.
Matches(m, p) == m.dst = p /\ pcb[p] # Free /\ pcb[p].remote = m.src

\* The network net without the datagram m that it delivers.
Without(net, m) == IF Lossy THEN net ELSE net \ {m}
Take(m) == up' = Without(up, m)

\* tftp_send_message: the datagram is on its way, or there is no pbuf for it
\* or udp_sendto refuses it.  No caller looks at the result.
Send(m) ==
    \/ down' = down \cup {m}
    \/ "send" \in Faults /\ down' = down

SendAck(p, c, n)    == Send([type |-> "ACK", src |-> p, dst |-> c, num |-> n, len |-> 0])
SendData(p, c, n, l) == Send([type |-> "DATA", src |-> p, dst |-> c, num |-> n, len |-> l])
SendError(p, c, n)  == Send([type |-> "ERROR", src |-> p, dst |-> c, num |-> n, len |-> 1])
SendNone == UNCHANGED down

\* tftp_cleanup_rd, tftp_cleanup_wr
Cleanup(p) ==
    /\ args' = [args EXCEPT ![p] = None]
    /\ pcb' = [pcb EXCEPT ![p] = Free]

Connected(c, recv) == [remote |-> c, recv |-> recv]

----------------------------------------------------------------------------
(* Reading: process_read, send_next_block, rrq_recv_callback. *)

\* Variant: the rest of the file is taken for a whole block.
NextBlockUnchecked(p, c, a) ==
    /\ SendData(p, c, a.block, DataMax)
    /\ args' = [args EXCEPT ![p] = [block |-> (a.block + 1) % BlockMod,
         total |-> a.total - DataMax, len |-> DataMax, live |-> TRUE]]

\* tftp_send_next_block: the next stretch of the file, under the number block.
NextBlock(p, c, a) ==
    LET l == IF a.total >= DataMax THEN DataMax ELSE a.total
    IN  /\ SendData(p, c, a.block, l)
        /\ args' = [args EXCEPT ![p] = [block |-> (a.block + 1) % BlockMod,
             total |-> a.total - l, len |-> l, live |-> TRUE]]

ProcessRead(p, c) ==
    \/ /\ NextBlock(p, c, [block |-> 1, total |-> FileLen, len |-> 0, live |-> TRUE])
       /\ pcb' = [pcb EXCEPT ![p] = Connected(c, "rrq")]
    \/ /\ "args" \in Faults
       /\ SendError(p, c, 0)
       /\ Cleanup(p)

IsCorrectAck(m, block) == m.type = "ACK" /\ m.num = block

\* Variant: the test is made against the block sent last.
RrqRecvAckLast(p, m) ==
    LET a == IF m.type = "ACK" /\ m.num + 1 = args[p].block
             THEN [args[p] EXCEPT !.block = (@ + 1) % BlockMod] ELSE args[p]
    IN  IF a.len < DataMax THEN Cleanup(p) /\ SendNone
                           ELSE NextBlock(p, m.src, a) /\ UNCHANGED pcb

\* Variant: a wrong acknowledgement sends nothing.
RrqRecvWaits(p, m) ==
    IF args[p].len < DataMax THEN Cleanup(p) /\ SendNone
    ELSE IF IsCorrectAck(m, args[p].block)
         THEN NextBlock(p, m.src, [args[p] EXCEPT !.block = (@ + 1) % BlockMod]) /\ UNCHANGED pcb
         ELSE UNCHANGED <<pcb, args>> /\ SendNone

\* Variant: an empty block is not taken for the last one.
RrqRecvEmptyGoesOn(p, m) ==
    LET a == IF IsCorrectAck(m, args[p].block)
             THEN [args[p] EXCEPT !.block = (@ + 1) % BlockMod] ELSE args[p]
    IN  IF a.len \in 1 .. DataMax - 1 THEN Cleanup(p) /\ SendNone
                                      ELSE NextBlock(p, m.src, a) /\ UNCHANGED pcb

\* rrq_recv_callback.  args->block is already the number of the next block,
\* so the acknowledgement of the last one is not the correct one.
RrqRecv(p, m) ==
    LET a == IF IsCorrectAck(m, args[p].block)
             THEN [args[p] EXCEPT !.block = (@ + 1) % BlockMod] ELSE args[p]
    IN  IF a.len < DataMax THEN Cleanup(p) /\ SendNone
                           ELSE NextBlock(p, m.src, a) /\ UNCHANGED pcb

----------------------------------------------------------------------------
(* Writing: process_write, wrq_recv_callback. *)

\* Variant: the path without memory does not clean up.
ProcessWriteKeeps(p, c) ==
    /\ pcb' = [pcb EXCEPT ![p] = Connected(c, "wrq")]
    /\ \/ /\ args' = [args EXCEPT ![p] = [block |-> 0, total |-> 0, len |-> 0, live |-> TRUE]]
          /\ SendAck(p, c, 0)
       \/ /\ "args" \in Faults
          /\ SendError(p, c, 0) /\ UNCHANGED args

ProcessWrite(p, c) ==
    \/ /\ pcb' = [pcb EXCEPT ![p] = Connected(c, "wrq")]
       /\ args' = [args EXCEPT ![p] = [block |-> 0, total |-> 0, len |-> 0, live |-> TRUE]]
       /\ SendAck(p, c, 0)
    \/ /\ "args" \in Faults
       /\ SendError(p, c, 0)
       /\ Cleanup(p)

\* Variant: a short block is not counted.
AcceptFull(a, m) ==
    IF m.num = (a.block + 1) % BlockMod
    THEN [a EXCEPT !.block = (@ + 1) % BlockMod,
                   !.total = IF m.len = DataMax THEN @ + m.len ELSE @] ELSE a

\* What the data of m make of a: the next block is counted, once.
Accept(a, m) ==
    IF m.num = (a.block + 1) % BlockMod
    THEN [a EXCEPT !.block = (@ + 1) % BlockMod, !.total = @ + m.len] ELSE a

\* Variant: a block that is not the next one ends the session.
WrqRecvStrict(p, m) ==
    LET a == Accept(args[p], m)
    IN  /\ SendAck(p, m.src, a.block)
        /\ IF m.len < DataMax \/ a = args[p]
           THEN Cleanup(p) /\ reported' = reported \cup {<<m.src, a.total>>}
           ELSE args' = [args EXCEPT ![p] = a] /\ UNCHANGED <<pcb, reported>>

\* wrq_recv_callback: whatever comes is acknowledged, and a packet of less
\* than TFTP_DATA_PKT_LEN_MAX ends the session.
WrqRecv(p, m) ==
    LET a == Accept(args[p], m)
    IN  /\ SendAck(p, m.src, a.block)
        /\ IF m.len < DataMax
           THEN Cleanup(p) /\ reported' = reported \cup {<<m.src, a.total>>}
           ELSE args' = [args EXCEPT ![p] = a] /\ UNCHANGED <<pcb, reported>>

----------------------------------------------------------------------------
(* udp_input hands a datagram to the callback of its control block. *)

\* server_recv_cb: process_tftp_request, on port 69.  The bound: on a lossy
\* network no more requests are served than there are ports in one round, as
\* a datagram does not stay under way while 16383 other sessions come and go.
Request(m) ==
    /\ m \in up /\ m.dst = Tftp69 /\ Take(m)
    /\ Lossy => lastPort < Ports
    /\ UNCHANGED <<reported, client>>
    /\ IF PcbLeft
       THEN /\ lastPort' = NewPort
            /\ CASE m.type = "RRQ" -> ProcessRead(NewPort, m.src)
                 [] m.type = "WRQ" -> ProcessWrite(NewPort, m.src)
                 [] OTHER -> SendError(NewPort, m.src, 2) /\ UNCHANGED <<pcb, args>>
       ELSE SendNone /\ UNCHANGED <<pcb, args, lastPort>>

ReadData(m, p) ==
    /\ m \in up /\ Matches(m, p) /\ pcb[p].recv = "rrq" /\ Take(m)
    /\ RrqRecv(p, m)
    /\ UNCHANGED <<lastPort, reported, client>>

WriteData(m, p) ==
    /\ m \in up /\ Matches(m, p) /\ pcb[p].recv = "wrq" /\ Take(m)
    /\ WrqRecv(p, m)
    /\ UNCHANGED <<lastPort, client>>

\* No control block matches: the datagram is not for us.
NotForUs(m) ==
    /\ m \in up /\ m.dst # Tftp69 /\ \A p \in Port : ~Matches(m, p)
    /\ Take(m)
    /\ UNCHANGED <<server, down, client>>

----------------------------------------------------------------------------
(* The clients. *)

Say(c, type, dst, num, len) ==
    up' = up \cup {[type |-> type, src |-> c, dst |-> dst, num |-> num, len |-> len]}
Set(c, r) == client' = [client EXCEPT ![c] = r]

SayBlock(c, dst, n) == Say(c, "DATA", dst, n % BlockMod, BlockLen(UploadLen, n))

ClientRequest(c) ==
    /\ client[c].state = "idle"
    /\ Set(c, [client[c] EXCEPT !.state = "asked"])
    /\ Say(c, Op(c), Tftp69, 0, 0)
    /\ UNCHANGED <<server, down>>

\* The datagram m is the next one the transfer of c awaits.
Awaited(c, m) ==
    LET r == client[c]
    IN  /\ (r.state = "asked" \/ (r.state = "runs" /\ m.src = r.tid))
        /\ \/ Op(c) = "RRQ" /\ m.type = "DATA" /\ m.num = (r.blk + 1) % BlockMod
           \/ Op(c) = "WRQ" /\ m.type = "ACK" /\ m.num = r.blk % BlockMod

\* c goes on with m: acknowledges a block, or sends the next one.
Proceed(c, m) ==
    LET r == client[c]
        last == IF Op(c) = "RRQ" THEN m.len < DataMax ELSE r.blk = Blocks(UploadLen)
        goes == [r EXCEPT !.state = IF last THEN "done" ELSE "runs", !.tid = m.src]
    IN  IF Op(c) = "RRQ"
        THEN /\ Set(c, [goes EXCEPT !.blk = @ + 1, !.got = @ + m.len])
             /\ Say(c, "ACK", m.src, m.num, 0)
        ELSE IF last THEN Set(c, goes) /\ UNCHANGED up
        ELSE Set(c, [goes EXCEPT !.blk = @ + 1]) /\ SayBlock(c, m.src, r.blk + 1)

ClientRecv(c, m) ==
    LET r == client[c]
    IN  /\ m \in down /\ m.dst = c
        /\ down' = Without(down, m)
        /\ UNCHANGED server
        /\ IF Awaited(c, m) THEN Proceed(c, m)
           ELSE IF r.state \in {"runs", "done"} /\ m.src # r.tid /\ m.type # "ERROR"
           THEN Say(c, "ERROR", m.src, UnknownId, 1) /\ UNCHANGED client
           ELSE IF r.state \in {"runs", "done"} /\ m.type = "DATA" /\ m.num = r.blk % BlockMod
           THEN Say(c, "ACK", m.src, m.num, 0) /\ UNCHANGED client
           ELSE IF m.type = "ERROR" /\ r.state \in {"asked", "runs"}
           THEN Set(c, [r EXCEPT !.state = "failed"]) /\ UNCHANGED up
           ELSE UNCHANGED <<client, up>>

\* A timeout: c says again what it said last, or gives up.
ClientTimeout(c) ==
    LET r == client[c]
    IN  /\ Lossy /\ r.state \in {"asked", "runs"}
        /\ IF r.tries = 0 THEN Set(c, [r EXCEPT !.state = "failed"]) /\ UNCHANGED up
           ELSE /\ Set(c, [r EXCEPT !.tries = @ - 1])
                /\ CASE r.state = "asked" -> Say(c, Op(c), Tftp69, 0, 0)
                     [] r.state = "runs" /\ Op(c) = "RRQ" -> Say(c, "ACK", r.tid, r.blk % BlockMod, 0)
                     [] OTHER -> SayBlock(c, r.tid, r.blk)
        /\ UNCHANGED <<server, down>>

----------------------------------------------------------------------------
Deliver ==
    \/ \E m \in up : Request(m) \/ NotForUs(m)
    \/ \E m \in up, p \in Port : ReadData(m, p) \/ WriteData(m, p)
    \/ \E m \in down, c \in Clients : ClientRecv(c, m)

Next ==
    \/ Deliver
    \/ \E c \in Clients : ClientRequest(c) \/ ClientTimeout(c)

Spec == Init /\ [][Next]_vars

\* The network of the liveness run loses nothing, so it delivers in the end
\* what is on its way; clients do ask.
Fairness == WF_vars(Deliver) /\ \A c \in Clients : WF_vars(ClientRequest(c))
FairSpec == Spec /\ Fairness

----------------------------------------------------------------------------
(* Properties. *)

UpMsg   == [type : {"RRQ", "WRQ", "OTHER", "DATA", "ACK", "ERROR"}, src : Clients,
            dst : Port \cup {Tftp69}, num : Nums, len : 0 .. DataMax]
DownMsg == [type : {"DATA", "ACK", "ERROR"}, src : Port, dst : Clients,
            num : Nums, len : 0 .. DataMax]

TypeOK ==
    /\ pcb \in [Port -> {Free} \cup [remote : Clients, recv : {"rrq", "wrq"}]]
    /\ args \in [Port -> [block : 0 .. (BlockMod - 1), total : Nat,
                         len : 0 .. DataMax, live : BOOLEAN]]
    /\ lastPort \in Port
    /\ reported \subseteq (Clients \X Nat)
    /\ up \subseteq UpMsg /\ down \subseteq DownMsg
    /\ client \in [Clients -> [state : {"idle", "asked", "runs", "done", "failed"},
          tid : Port \cup {Tftp69}, blk : Nat, got : Nat, tries : 0 .. Retries]]

\* Control blocks and connection arguments come and go together, on every
\* path of the callbacks: no failure leaves one without the other (a leak,
\* or a callback with a null args).
NoOrphan == \A p \in Port : (pcb[p] # Free) <=> args[p].live

\* wrq_recv_callback counts every block of an upload once, in order, however
\* often the network and the client repeat it: total_bytes is always the
\* length of the blocks acknowledged, and the session a writer talks to is at
\* the block the writer is sending or has just had acknowledged.
CountedOnce ==
    \A p \in Port : pcb[p].recv = "wrq" =>
        LET c == pcb[p].remote
        IN  /\ args[p].total = BytesOf(UploadLen, args[p].block)
            /\ client[c].state = "runs" /\ client[c].tid = p /\ args[p].block # 0
                 => args[p].block \in {client[c].blk - 1, client[c].blk}

\* While a writer still has blocks to send after the current one, the server
\* keeps its session: nothing that is lost, late or repeated ends an upload.
UploadAlive ==
    \A c \in Writers : client[c].state = "runs" /\ client[c].blk < Blocks(UploadLen)
        => /\ pcb[client[c].tid] = Connected(c, "wrq")
           /\ args[client[c].tid].block + 1 >= client[c].blk

\* An upload goes on, and goes on right, whatever the network does.
UploadIntact == CountedOnce /\ UploadAlive

\* A transfer a client takes for done is whole: a reader has every byte of
\* the file, and of a writer the server has reported every byte.
DoneIsWhole ==
    \A c \in Clients : client[c].state = "done" =>
        /\ c \in Readers => client[c].got = FileLen
        /\ c \in Writers => <<c, UploadLen>> \in reported

\* tftp_send_next_block numbers the blocks without a gap: what is left of the
\* file fits the number to come, and a block on its way is the block of the
\* file that its number says.  It holds only as long as the branch of
\* rrq_recv_callback for the correct acknowledgement is never taken.
ReadsInSequence ==
    /\ \A p \in Port : pcb[p].recv = "rrq" =>
         args[p].total + BytesOf(FileLen, args[p].block - 1) = FileLen
    /\ \A m \in down : m.type = "DATA" =>
         m.num >= 1 /\ m.len = (IF m.num > Blocks(FileLen) THEN 0 ELSE BlockLen(FileLen, m.num))

\* When nothing is lost every reader and writer gets its transfer done.
TransfersComplete == \A c \in Readers \cup Writers : <>(client[c].state = "done")

\* When nothing is lost every session ends and its control block comes back.
SessionsEnd == \A p \in Port : pcb[p] # Free ~> pcb[p] = Free

\* tftp_udp.c:342-343: an acknowledgement that is not the expected one "causes
\* the current block to be resent".  The current block is the one sent last.
ResendsCurrent ==
    [][\A m \in up, p \in Port :
         ReadData(m, p) /\ ~IsCorrectAck(m, args[p].block) /\ pcb'[p] # Free
           => args'[p].block = args[p].block]_vars

=============================================================================
