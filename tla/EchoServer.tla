----------------------------- MODULE EchoServer -----------------------------
(***************************************************************************)
(* One connection of the TCP echo server (lwip_app/lwip_tcp_server.c) and  *)
(* the reference counts of the pbufs it holds (pbuf.c).                    *)
(*                                                                         *)
(* The callbacks accept, recv, sent and error come from tcp_input in the   *)
(* Ethernet interrupt; poll comes from tcp_slowtmr in the main loop and is *)
(* interrupted between any two of its steps, which are its loads and       *)
(* stores of es and of the pbufs.  Both run tcp_echoserver_send and        *)
(* tcp_echoserver_connection_close, so their steps are written once, for a *)
(* context c.  Of TCP the model keeps what the callbacks see of a control  *)
(* block: the send buffer, the receive window, tcp_write and tcp_close     *)
(* that may find no memory, and a connection that may fail at any time.    *)
(*                                                                         *)
(* The code protects none of this.  When the interrupt changes what poll   *)
(* has read and goes on to use, memory or data is lost and the model ends  *)
(* (torn); Overtakes and the steps that set torn say when that is.         *)
(***************************************************************************)
EXTENDS Naturals, Sequences

CONSTANTS
    Lens,   \* Lens[n]: the len of the n-th pbuf the client's data comes in
    SndBuf, \* TCP_SND_BUF
    Wnd     \* TCP_WND

Pbufs    == DOMAIN Lens
Contexts == {"isr", "main"}

ASSUME LensAssumption == Lens \in Seq(1 .. SndBuf) /\ \A n \in Pbufs : Lens[n] <= Wnd
ASSUME SizeAssumption == SndBuf \in Nat \ {0} /\ Wnd \in Nat \ {0}

VARIABLES
    pcb,    \* the connection: "syn", "open", "closed", "reset", "stranded", "gone"
    hooked, \* callback_arg is es and the callbacks are set
    es,     \* the memory of es: "none", "allocated", "freed"
    state,  \* es->state
    p,      \* es->p, 0 for NULL
    refs,   \* ref of each pbuf, 0 when it is in the pool
    linked, \* pbufs whose next is the one that follows
    rcvd,   \* how many pbufs tcp_input has passed on
    fin,    \* and whether it has passed on the end
    waited, \* pbufs that came while an older one was not sent yet
    sndbuf, \* snd_buf
    wnd,    \* rcv_wnd
    echoed, \* the pbufs given to tcp_write
    pc,     \* where each context is
    ptr,    \* the pbuf it is sending
    torn    \* poll and the interrupt have got into each other's way

conn == <<pcb, hooked, es, state, fin>>
data == <<p, refs, linked, rcvd, waited, wnd>>
vars == <<conn, data, sndbuf, echoed, pc, ptr, torn>>

Init ==
    /\ pcb = "syn" /\ hooked = FALSE /\ es = "none" /\ state = "none"
    /\ p = 0 /\ refs = [n \in Pbufs |-> 0] /\ linked = {}
    /\ rcvd = 0 /\ fin = FALSE /\ waited = {}
    /\ sndbuf = SndBuf /\ wnd = Wnd /\ echoed = <<>>
    /\ pc = [c \in Contexts |-> "idle"] /\ ptr = [c \in Contexts |-> 0]
    /\ torn = FALSE

\* The interrupt runs to its end before the main loop goes on.
At(c, label) == pc[c] = label /\ (c = "isr" \/ pc["isr"] = "idle")
Goto(c, label) == pc' = [pc EXCEPT ![c] = label]
Reads(c, from, to) == At(c, from) /\ Goto(c, to) /\ UNCHANGED <<conn, data, sndbuf, echoed, ptr>>

\* The pbuf a context is sending is still es->p, and is so no longer.
Sending == {"write", "defer", "copy", "next", "store"}
Leaving == {"ref", "count", "free"}
Labels  == {"idle", "poll", "state", "check", "fits", "load", "recved", "window", "close", "unhook"}
             \cup Sending \cup Leaving

----------------------------------------------------------------------------
(* pbuf_chain and pbuf_free. *)

\* The chain that begins with q.
Chain(q) == IF q = 0 THEN {} ELSE {r \in q .. rcvd : q .. (r - 1) \subseteq linked}

\* pbuf_free(q): the counts go down along the chain as far as they reach 0,
\* and the first that does not is the last that goes down.
AfterFree(count, q) ==
    LET down == {r \in Chain(q) : \A s \in q .. (r - 1) : count[s] = 1}
    IN  [r \in Pbufs |-> IF r \in down THEN count[r] - 1 ELSE count[r]]

Following(q) == IF q \in linked THEN q + 1 ELSE 0

\* The bytes of the first n pbufs, and tot_len of a chain of k more of them.
Upto[n \in 0 .. Len(Lens)] == IF n = 0 THEN 0 ELSE Upto[n - 1] + Lens[n]
TotLen(k) == Upto[rcvd + k] - Upto[rcvd]

----------------------------------------------------------------------------

\* The interrupt ends the connection under poll; changes es->p while poll sends
\* what it was or frees what came before it; chains to what poll takes for the
\* end; changes the window or the send buffer inside a function of TCP that
\* poll has called on the same control block; or sends what poll has sent.
Overtakes(c) ==
    /\ c = "isr" /\ pc["main"] # "idle"
    /\ \/ pcb' # "open"
       \/ p' # p /\ pc["main"] \in Sending
       \/ p' # p /\ pc["main"] \in Leaving /\ p \in Chain(ptr["main"])
       \/ pc["main"] = "store" /\ ptr["main"] \in linked' \ linked
       \/ pc["main"] = "window" /\ wnd' # wnd
       \/ pc["main"] = "copy" /\ sndbuf' # sndbuf
       \/ pc["main"] \in {"next", "store"} /\ echoed' # echoed

(* tcp_echoserver_send: es->p is read for the test, for its length and for ptr. *)

\* The loop goes on while there is something to send.
Check(c) ==
    /\ Reads(c, "check", IF p # 0 THEN "fits" ELSE "idle")
    /\ UNCHANGED torn

\* and room for it, if it is still there.
Fits(c) ==
    /\ Reads(c, "fits", IF p # 0 /\ Lens[p] <= sndbuf THEN "load" ELSE "idle")
    /\ torn' = (p = 0)

Load(c) ==
    /\ At(c, "load")
    /\ Goto(c, "write")
    /\ ptr' = [ptr EXCEPT ![c] = p]
    /\ torn' = (p = 0)
    /\ UNCHANGED <<conn, data, sndbuf, echoed>>

\* Variant: what tcp_write has no memory for is given up.
WriteGivesUp(c, room) ==
    /\ Reads(c, "write", IF room /\ Lens[ptr[c]] <= sndbuf THEN "copy" ELSE "next")
    /\ UNCHANGED torn

\* tcp_write fails with ERR_MEM when the send buffer or the memory is short,
Write(c, room) ==
    /\ Reads(c, "write", IF room /\ Lens[ptr[c]] <= sndbuf THEN "copy" ELSE "defer")
    /\ UNCHANGED torn

\* which ends the loop,
Defer(c) ==
    /\ At(c, "defer")
    /\ Goto(c, "idle")
    /\ p' = ptr[c]
    /\ UNCHANGED <<conn, refs, linked, rcvd, waited, wnd, sndbuf, echoed, ptr>>
    /\ torn' = Overtakes(c)

\* and copies the data else.
Copy(c) ==
    /\ At(c, "copy")
    /\ Goto(c, "next")
    /\ echoed' = Append(echoed, ptr[c])
    /\ sndbuf' = sndbuf - Lens[ptr[c]]
    /\ UNCHANGED <<conn, data, ptr>>
    /\ torn' = Overtakes(c)

\* ptr->next is read, and stored: Overtakes sees to it that it is still the same.
Follow(c) ==
    /\ Reads(c, "next", "store")
    /\ UNCHANGED torn

Store(c) ==
    /\ At(c, "store")
    /\ Goto(c, "ref")
    /\ p' = Following(ptr[c])
    /\ UNCHANGED <<conn, refs, linked, rcvd, waited, wnd, sndbuf, echoed, ptr>>
    /\ torn' = Overtakes(c)

\* es->p is read again, twice: other data would get a reference it does not lose.
Ref(c) ==
    /\ Reads(c, "ref", IF p # 0 THEN "count" ELSE "free")
    /\ torn' = (p # Following(ptr[c]))

\* Variant: the following pbuf is not referenced before this one is freed.
CountNone(c) ==
    /\ At(c, "count")
    /\ Goto(c, "free")
    /\ UNCHANGED <<conn, data, sndbuf, echoed, ptr, torn>>

Count(c) ==
    /\ At(c, "count")
    /\ Goto(c, "free")
    /\ refs' = [refs EXCEPT ![p] = @ + 1]
    /\ UNCHANGED <<conn, p, linked, rcvd, waited, wnd, sndbuf, echoed, ptr, torn>>

\* Variant: the last pbuf of a chain is not freed.
FreeKept(c) ==
    /\ At(c, "free")
    /\ Goto(c, "recved")
    /\ refs' = IF Following(ptr[c]) = 0 THEN refs ELSE AfterFree(refs, ptr[c])
    /\ UNCHANGED <<conn, p, linked, rcvd, waited, wnd, sndbuf, echoed, ptr, torn>>

Free(c) ==
    /\ At(c, "free")
    /\ Goto(c, "recved")
    /\ refs' = AfterFree(refs, ptr[c])
    /\ UNCHANGED <<conn, p, linked, rcvd, waited, wnd, sndbuf, echoed, ptr, torn>>

\* tcp_recved reads the window and stores it; it is never opened beyond Wnd.
Recved(c) ==
    /\ Reads(c, "recved", "window")
    /\ UNCHANGED torn

Window(c) ==
    /\ At(c, "window")
    /\ Goto(c, "check")
    /\ wnd' = wnd + Lens[ptr[c]]
    /\ UNCHANGED <<conn, p, refs, linked, rcvd, waited, sndbuf, echoed, ptr>>
    /\ torn' = Overtakes(c)

----------------------------------------------------------------------------
(* tcp_echoserver_connection_close. *)

\* tcp_arg(tpcb, NULL)
Close(c) ==
    /\ At(c, "close")
    /\ hooked' = FALSE
    /\ Goto(c, "unhook")
    /\ UNCHANGED <<pcb, es, state, fin, data, sndbuf, echoed, ptr, torn>>

\* The callbacks are removed and es is freed.  tcp_close resets a connection
\* whose window is not open again; else it sends the FIN, or finds no memory
\* for it, which nobody looks at.
Unhook(c, room) ==
    /\ At(c, "unhook")
    /\ es' = "freed"
    /\ pcb' = IF wnd # Wnd THEN "reset" ELSE IF room THEN "closed" ELSE "stranded"
    /\ Goto(c, "idle")
    /\ UNCHANGED <<hooked, state, fin, data, sndbuf, echoed, ptr>>
    /\ torn' = Overtakes(c)

----------------------------------------------------------------------------
(* The callbacks. *)

\* tcp_echoserver_accept; without memory for es the connection is aborted.
Accept(room) ==
    /\ pcb = "syn"
    /\ IF room THEN pcb' = "open" /\ hooked' = TRUE /\ es' = "allocated" /\ state' = "accepted"
       ELSE pcb' = "gone" /\ UNCHANGED <<hooked, es, state>>
    /\ UNCHANGED <<fin, data, sndbuf, echoed, pc, ptr, torn>>

\* tcp_echoserver_recv with data in a chain of k pbufs: it is sent at once, or
\* chained to what is still to be sent, with a reference of the chain's own.
Recv(k) ==
    /\ pcb = "open" /\ pc["isr"] = "idle" /\ ~fin /\ rcvd + k \in Pbufs
    /\ LET new   == (rcvd + 1) .. (rcvd + k)
           first == [n \in Pbufs |-> IF n \in new THEN 1 ELSE refs[n]]
       IN  /\ TotLen(k) <= wnd
           /\ wnd' = wnd - TotLen(k)
           /\ rcvd' = rcvd + k
           /\ state' = "received"
           /\ IF p = 0
              THEN /\ p' = rcvd + 1
                   /\ refs' = first
                   /\ linked' = linked \cup (new \ {rcvd + k})
                   /\ Goto("isr", "check")
                   /\ UNCHANGED waited
              ELSE /\ refs' = [first EXCEPT ![rcvd + 1] = @ + 1]
                   /\ linked' = linked \cup (rcvd .. (rcvd + k - 1))
                   /\ waited' = waited \cup new
                   /\ UNCHANGED <<p, pc>>
    /\ UNCHANGED <<pcb, hooked, es, fin, sndbuf, echoed, ptr>>
    /\ torn' = Overtakes("isr")

\* Variant: the connection is closed without a look at es->p.
FinAtOnce ==
    /\ pcb = "open" /\ pc["isr"] = "idle" /\ ~fin
    /\ fin' = TRUE /\ state' = "closing"
    /\ Goto("isr", "close")
    /\ UNCHANGED <<pcb, hooked, es, data, sndbuf, echoed, ptr, torn>>

\* Variant: that the client has closed is noted only when all is sent.
FinUnnoted ==
    /\ pcb = "open" /\ pc["isr"] = "idle" /\ ~fin
    /\ fin' = TRUE /\ state' = IF p = 0 THEN "closing" ELSE state
    /\ Goto("isr", IF p = 0 THEN "close" ELSE "check")
    /\ UNCHANGED <<pcb, hooked, es, data, sndbuf, echoed, ptr, torn>>

\* tcp_echoserver_recv with NULL: the client has closed.
Fin ==
    /\ pcb = "open" /\ pc["isr"] = "idle" /\ ~fin
    /\ fin' = TRUE /\ state' = "closing"
    /\ Goto("isr", IF p = 0 THEN "close" ELSE "check")
    /\ UNCHANGED <<pcb, hooked, es, data, sndbuf, echoed, ptr, torn>>

\* tcp_echoserver_sent: n bytes are acknowledged.  Without es it reads es->p
\* at address 0.
Sent(n) ==
    /\ pcb = "open" /\ pc["isr"] = "idle" /\ sndbuf + n <= SndBuf
    /\ sndbuf' = sndbuf + n
    /\ Goto("isr", IF p # 0 THEN "check" ELSE IF state = "closing" THEN "close" ELSE "idle")
    /\ UNCHANGED <<conn, data, echoed, ptr>>
    /\ torn' = (~hooked \/ Overtakes("isr"))

\* tcp_slowtmr calls tcp_echoserver_poll with es.
Poll ==
    /\ pcb = "open"
    /\ Reads("main", "idle", "poll")
    /\ UNCHANGED torn

\* Variant: what is left to be sent is left to tcp_echoserver_sent.
PollIdle ==
    /\ Reads("main", "poll", IF p # 0 THEN "idle" ELSE "state")
    /\ UNCHANGED torn

PollLeft ==
    /\ Reads("main", "poll", IF p # 0 THEN "check" ELSE "state")
    /\ UNCHANGED torn

\* es->state is read after es->p: data and the end may have come in between.
PollState ==
    /\ Reads("main", "state", IF state = "closing" THEN "close" ELSE "idle")
    /\ torn' = (state = "closing" /\ p # 0)

\* The client resets the connection, or tcp_slowtmr gives it up:
\* tcp_echoserver_error frees es, and not what es->p points to.
Fail ==
    /\ pcb = "open" /\ pc["isr"] = "idle"
    /\ pcb' = "gone" /\ hooked' = FALSE
    /\ es' = IF hooked THEN "freed" ELSE es
    /\ UNCHANGED <<state, fin, data, sndbuf, echoed, pc, ptr>>
    /\ torn' = Overtakes("isr")

----------------------------------------------------------------------------

\* A callback that has begun goes on.
GoesOn ==
    \/ PollLeft \/ PollState
    \/ \E c \in Contexts :
        \/ Check(c) \/ Fits(c) \/ Load(c) \/ Defer(c) \/ Copy(c) \/ Follow(c) \/ Store(c)
        \/ Ref(c) \/ Count(c) \/ Free(c) \/ Recved(c) \/ Window(c) \/ Close(c)
        \/ \E room \in BOOLEAN : Write(c, room) \/ Unhook(c, room)

Step ==
    \/ \E room \in BOOLEAN : Accept(room)
    \/ \E k \in 1 .. 2 : Recv(k)
    \/ \E n \in 1 .. SndBuf : Sent(n)
    \/ Fin \/ Poll \/ Fail \/ GoesOn

Next == ~torn /\ Step
Spec == Init /\ [][Next]_vars

\* tcp_slowtmr polls again and again, the client acknowledges what it gets, and
\* there is memory for tcp_write again and again.
FairSpec ==
    /\ Spec
    /\ WF_vars(~torn /\ GoesOn)
    /\ WF_vars(~torn /\ Poll)
    /\ WF_vars(~torn /\ \E n \in 1 .. SndBuf : Sent(n))
    /\ SF_vars(~torn /\ \E c \in Contexts : Write(c, TRUE))

----------------------------------------------------------------------------
(* Properties. *)

TypeOK ==
    /\ pcb \in {"syn", "open", "closed", "reset", "stranded", "gone"}
    /\ hooked \in BOOLEAN /\ es \in {"none", "allocated", "freed"}
    /\ state \in {"none", "accepted", "received", "closing"}
    /\ p \in 0 .. rcvd /\ rcvd \in 0 .. Len(Lens) /\ linked \subseteq Pbufs /\ waited \subseteq Pbufs
    /\ refs \in [Pbufs -> 0 .. 3]
    /\ sndbuf \in 0 .. SndBuf /\ wnd \in 0 .. Wnd
    /\ echoed \in Seq(Pbufs) /\ fin \in BOOLEAN /\ torn \in BOOLEAN
    /\ pc \in [Contexts -> Labels]
    /\ ptr \in [Contexts -> {0} \cup Pbufs]

\* What comes in is sent back once, complete and in the order it came, however
\* the two contexts share the work.
EchoInOrder == ~torn => \A n \in DOMAIN echoed : echoed[n] = n

\* Nothing that is used is freed: es while a callback works on it or one may
\* come, every pbuf of the chain es->p until it is sent, and the one a context
\* is sending until that context frees it.
UsedIsThere ==
    ~torn =>
        /\ hooked \/ (\E c \in Contexts : pc[c] # "idle") => es = "allocated"
        /\ pcb = "open" => \A n \in Chain(p) : refs[n] > 0
        /\ \A c \in Contexts : pc[c] \in Sending \cup Leaving => refs[ptr[c]] > 0

\* A pbuf that has been sent back is in the pool again, unless it came while
\* an older one was still to be sent.
OthersFreed ==
    ~torn => \A n \in DOMAIN echoed :
        /\ n \notin waited
        /\ \A c \in Contexts : pc[c] \in Sending \cup Leaving => ptr[c] # n
        => refs[n] = 0

\* The reference counts keep what is still needed, and nothing else.
RefsRight == UsedIsThere /\ OthersFreed

\* The server closes after the client, when all the client has sent is sent
\* back, and orderly: tcp_close finds the window open and resets nothing.
ClosesWhole ==
    ~torn =>
        /\ pcb # "reset"
        /\ pcb \in {"closed", "stranded"} => fin /\ Len(echoed) = rcvd

\* What comes in is sent back in the end, unless the connection ends.
EchoedInTheEnd ==
    \A n \in Pbufs : rcvd >= n ~> Len(echoed) >= n \/ pcb # "open" \/ torn

\* When the client has closed, the server lets the connection go.
ClosedInTheEnd == fin ~> pcb # "open" \/ torn

=============================================================================
