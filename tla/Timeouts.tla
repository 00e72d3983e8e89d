------------------------------ MODULE Timeouts ------------------------------
(***************************************************************************)
(* The timers of lwIP in the main loop (src/core/timers.c, NO_SYS = 1):    *)
(* sys_timeout, sys_untimeout and sys_check_timeouts over the list of      *)
(* timers, each with its difference to the timer before it.                *)
(*                                                                         *)
(* SysTick counts lwip_localtime up at any moment.  The main loop looks at *)
(* it, and calls the handlers of the timers that have expired; a periodic  *)
(* handler arms its timer again.  Only with a TCP application does the     *)
(* Ethernet interrupt call sys_timeout too (TCP_REG, tcp_timer_needed).    *)
(* That call is one step, for the interrupt is not interrupted by the loop *)
(* but comes between any two loads and stores of sys_check_timeouts: where *)
(* that makes the loop work on something that is not the list any more the *)
(* model ends (broken).  The same interrupt inside the loop's own          *)
(* sys_timeout is not modelled.                                            *)
(***************************************************************************)
EXTENDS Naturals, Sequences, FiniteSets

CONSTANTS
    Periodic,  \* handlers that arm themselves again: ip_reass_timer, arp_timer...
    OneShot,   \* handlers of timers an application arms and cancels
    Programs,  \* the applications main() may start: [tcp, timers, restarts]
    Msecs,     \* Msecs[h]: the msecs of the sys_timeout calls for h
    PoolSize,  \* MEMP_NUM_SYS_TIMEOUT
    MaxLag,    \* the main loop looks at the clock after at most MaxLag ms
    TimeMod    \* lwip_localtime is modulo TimeMod: 2^32

TcpTimer  == "tcpip_tcp_timer"
NoHandler == "none"
Handlers  == Periodic \cup OneShot \cup {TcpTimer}

ASSUME HandlerAssumption ==
    /\ NoHandler \notin Handlers /\ TcpTimer \notin Periodic \cup OneShot
    /\ Periodic \cap OneShot = {}
ASSUME MsecsAssumption == Msecs \in [Periodic \cup OneShot \cup {TcpTimer} -> Nat \ {0}]
ASSUME BoundAssumption ==
    /\ IsFiniteSet(Periodic) /\ PoolSize \in Nat /\ Cardinality(Periodic) <= PoolSize
    /\ MaxLag \in Nat \ {0}
    /\ Programs \subseteq [tcp : BOOLEAN, timers : SUBSET OneShot, restarts : BOOLEAN]
    /\ TimeMod \in Nat /\ \A h \in DOMAIN Msecs : Msecs[h] + MaxLag < TimeMod

Time == 0 .. (TimeMod - 1)

VARIABLES
    program,  \* the application started
    list,     \* next_timeout and the timers behind it, each [h, time]
    free,     \* structures left in MEMP_SYS_TIMEOUT
    clock,    \* lwip_localtime
    last,     \* timeouts_last_time
    pc,       \* where the main loop is in sys_check_timeouts
    now,      \* its now: the clock at its last look
    diff,     \* its diff
    tmp,      \* its tmptimeout: the timer tested, and then called
    tcpUp,    \* tcp_active_pcbs || tcp_tw_pcbs
    tcpActive,\* tcpip_tcp_timer_active
    broken    \* the interrupt has got into one of the windows of TcpInside

tcpVars  == <<program, tcpUp, tcpActive>>
timers   == <<program, list, free, clock, last, pc, now, diff, tmp, tcpUp, tcpActive>>
vars     == <<timers, broken>>

----------------------------------------------------------------------------
(* The list. *)

\* The times of the first k timers of l, together.
Ahead(l, k) ==
    LET sum[i \in 0 .. Len(l)] == IF i = 0 THEN 0 ELSE sum[i - 1] + l[i].time
    IN  sum[k]

InList(l, h) == \E i \in 1 .. Len(l) : l[i].h = h
Place(l, h)  == CHOOSE i \in 1 .. Len(l) : /\ l[i].h = h
                                            /\ \A j \in 1 .. (i - 1) : l[j].h # h

\* l with the time of its timer i, if there is one, changed by Op.
Retimed(l, i, Op(_)) == [j \in 1 .. Len(l) |-> IF j = i THEN [l[j] EXCEPT !.time = Op(@)] ELSE l[j]]

\* Variant: the first timer always stays the first.
BeforeNotFirst(l, ms) ==
    CHOOSE k \in (IF l = <<>> THEN 0 ELSE 1) .. Len(l) :
        /\ k = Len(l) \/ l[k + 1].time > ms - Ahead(l, k)
        /\ \A j \in 1 .. (k - 1) : l[j + 1].time <= ms - Ahead(l, j)

\* How many timers of l stay before a new one of ms.
Before(l, ms) ==
    CHOOSE k \in 0 .. Len(l) :
        /\ k = Len(l) \/ l[k + 1].time > ms - Ahead(l, k)
        /\ \A j \in 0 .. (k - 1) : l[j + 1].time <= ms - Ahead(l, j)

\* Variant: the timer behind the new one keeps its difference.
InsertKeeps(l, h, ms) ==
    LET k == Before(l, ms)
        t == ms - Ahead(l, k)
    IN  SubSeq(l, 1, k) \o <<[h |-> h, time |-> t]>> \o SubSeq(l, k + 1, Len(l))

\* The insertion of sys_timeout: the new timer goes behind those that expire
\* no later, with what their times leave of ms, and that is taken off the
\* timer behind it.
Insert(l, h, ms) ==
    LET k == Before(l, ms)
        t == ms - Ahead(l, k)
    IN  SubSeq(l, 1, k) \o <<[h |-> h, time |-> t]>>
          \o SubSeq(Retimed(l, k + 1, LAMBDA s : s - t), k + 1, Len(l))

\* sys_timeout: nothing happens when MEMP_SYS_TIMEOUT is empty.
Arm(h) ==
    IF free = 0 THEN UNCHANGED <<list, free>>
    ELSE list' = Insert(list, h, Msecs[h]) /\ free' = free - 1

\* Variant: the time of the timer removed is not given to the next one.
RemoveKeeps(l, h) ==
    IF ~InList(l, h) THEN l
    ELSE LET i == Place(l, h) IN SubSeq(l, 1, i - 1) \o SubSeq(l, i + 1, Len(l))

\* sys_untimeout: the first timer of h goes; its time goes to the next one.
Remove(l, h) ==
    IF ~InList(l, h) THEN l
    ELSE LET i == Place(l, h)
         IN  SubSeq(l, 1, i - 1)
               \o SubSeq(Retimed(l, i + 1, LAMBDA s : s + l[i].time), i + 1, Len(l))

\* lwip_init calls sys_timeouts_init, which arms the periodic timers, in some
\* order, and then takes the time.
Init ==
    /\ \E order \in [1 .. Cardinality(Periodic) -> Periodic] :
         /\ \A i, j \in DOMAIN order : order[i] = order[j] => i = j
         /\ LET armed[i \in 0 .. Cardinality(Periodic)] ==
                  IF i = 0 THEN <<>> ELSE Insert(armed[i - 1], order[i], Msecs[order[i]])
            IN  list = armed[Cardinality(Periodic)]
    /\ free = PoolSize - Cardinality(Periodic)
    /\ clock = 0 /\ last = 0 /\ now = 0
    /\ pc = "idle" /\ diff = 0 /\ tmp = NoHandler
    /\ program \in Programs
    /\ tcpUp = FALSE /\ tcpActive = FALSE /\ broken = FALSE

----------------------------------------------------------------------------
(* sys_check_timeouts in the main loop. *)

Since(t) == (clock + TimeMod - t) % TimeMod

\* Variant: time is taken without regard to the clock going round.
LookNoWrap ==
    /\ pc = "idle" /\ list # <<>>
    /\ now' = clock
    /\ diff' = IF clock >= last THEN clock - last ELSE 0
    /\ pc' = "loop"
    /\ UNCHANGED <<list, free, clock, last, tmp, tcpVars>>

\* now = sys_now(); diff = now - timeouts_last_time
Look ==
    /\ pc = "idle" /\ list # <<>>
    /\ now' = clock
    /\ diff' = Since(last)
    /\ pc' = "loop"
    /\ UNCHANGED <<list, free, clock, last, tmp, tcpVars>>

\* tmptimeout = next_timeout has expired: timeouts_last_time = now
Test ==
    /\ pc = "loop" /\ list # <<>> /\ Head(list).time <= diff
    /\ tmp' = Head(list).h
    /\ last' = now
    /\ pc' = "unlink"
    /\ UNCHANGED <<list, free, clock, now, diff, tcpVars>>

\* Variant: the time of the timer called stays in diff.
UnlinkKeepsDiff ==
    /\ pc = "unlink"
    /\ list' = SubSeq(list, Place(list, tmp) + 1, Len(list))
    /\ free' = free + 1
    /\ pc' = "call"
    /\ UNCHANGED <<clock, last, now, diff, tmp, tcpVars>>

\* diff -= tmptimeout->time; next_timeout = tmptimeout->next; memp_free.  An
\* interrupt between these is TcpInside, or does what it does before them.
Unlink ==
    LET i == Place(list, tmp)
    IN  /\ pc = "unlink"
        /\ diff' = diff - list[i].time
        /\ list' = SubSeq(list, i + 1, Len(list))
        /\ free' = free + 1
        /\ pc' = "call"
        /\ UNCHANGED <<clock, last, now, tmp, tcpVars>>

\* handler(arg): the periodic handlers arm their timer again, tcpip_tcp_timer
\* as long as there are connections.  One that is registered after it has
\* found none, and before it says so, arms nothing.
Call ==
    /\ pc = "call"
    /\ pc' = "loop" /\ tmp' = NoHandler
    /\ IF tmp \in Periodic \/ (tmp = TcpTimer /\ tcpUp) THEN Arm(tmp)
       ELSE UNCHANGED <<list, free>>
    /\ tcpActive' = (tcpActive /\ ~(tmp = TcpTimer /\ ~tcpUp))
    /\ tcpUp' \in {tcpUp, tcpUp \/ (tmp = TcpTimer /\ program.tcp)}
    /\ UNCHANGED <<program, clock, last, now, diff>>

\* No timer has expired any more: sys_check_timeouts returns.
Leave ==
    /\ pc = "loop" /\ (list = <<>> \/ Head(list).time > diff)
    /\ pc' = "idle" /\ diff' = 0
    /\ UNCHANGED <<list, free, clock, last, now, tmp, tcpVars>>

\* An application in the main loop arms, cancels, restarts.  Its handlers arm
\* nothing: one that does is a periodic one once it has been armed.
AppTimeout(h) ==
    /\ pc = "idle" /\ h \in program.timers /\ ~InList(list, h)
    /\ Arm(h)
    /\ UNCHANGED <<clock, last, pc, now, diff, tmp, tcpVars>>

AppUntimeout(h) ==
    /\ pc = "idle" /\ h \in program.timers
    /\ list' = Remove(list, h)
    /\ free' = IF InList(list, h) THEN free + 1 ELSE free
    /\ UNCHANGED <<clock, last, pc, now, diff, tmp, tcpVars>>

\* sys_restart_timeouts
AppRestart ==
    /\ program.restarts /\ pc = "idle"
    /\ last' = clock
    /\ UNCHANGED <<list, free, clock, pc, now, diff, tmp, tcpVars>>

----------------------------------------------------------------------------
(* The interrupts. *)

\* SysTick; the bound on the lag of the main loop.
Tick ==
    /\ Since(now) < MaxLag
    /\ clock' = (clock + 1) % TimeMod
    /\ UNCHANGED <<list, free, last, pc, now, diff, tmp, tcpVars>>

\* ETH_IRQHandler, tcp_input: a connection is registered (TCP_REG, which calls
\* tcp_timer_needed), or the last one goes.
TcpOpen ==
    /\ program.tcp
    /\ tcpUp' = TRUE /\ tcpActive' = TRUE
    /\ IF tcpActive THEN UNCHANGED <<list, free>> ELSE Arm(TcpTimer)
    /\ UNCHANGED <<program, clock, last, pc, now, diff, tmp>>

TcpGone ==
    /\ tcpUp
    /\ tcpUp' = FALSE
    /\ UNCHANGED <<program, list, free, clock, last, pc, now, diff, tmp, tcpActive>>

\* TCP_REG arms the timer in front of the one that next_timeout has been read
\* for and whose time is tested next, or between the one being unlinked and
\* the one that its next has been read for.
TcpInside ==
    /\ program.tcp /\ ~tcpActive /\ free > 0
    /\ LET k == Before(list, Msecs[TcpTimer])
       IN  \/ pc = "loop" /\ list # <<>> /\ k = 0 /\ Head(list).time <= diff + Msecs[TcpTimer]
           \/ pc = "unlink" /\ k = Place(list, tmp)
    /\ broken' = TRUE
    /\ UNCHANGED timers

Check == Look \/ Test \/ Unlink \/ Call \/ Leave
App   == AppRestart \/ \E h \in OneShot : AppTimeout(h) \/ AppUntimeout(h)

Step  == Check \/ App \/ Tick \/ TcpOpen \/ TcpGone

Next == ~broken /\ ((Step /\ UNCHANGED broken) \/ TcpInside)
Spec == Init /\ [][Next]_vars

\* The main loop calls sys_check_timeouts again and again; SysTick ticks.
Goes(A) == ~broken /\ A /\ UNCHANGED broken
FairSpec == Spec /\ WF_vars(Goes(Check)) /\ WF_vars(Goes(Tick))

----------------------------------------------------------------------------
(* Properties. *)

TypeOK ==
    /\ list \in Seq([h : Handlers, time : Nat])
    /\ free \in 0 .. PoolSize
    /\ clock \in Time /\ last \in Time /\ now \in Time /\ diff \in Time
    /\ pc \in {"idle", "loop", "unlink", "call"}
    /\ tmp \in Handlers \cup {NoHandler}
    /\ tcpUp \in BOOLEAN /\ tcpActive \in BOOLEAN /\ broken \in BOOLEAN

\* The list of differences does what TimerService promises: no call of
\* sys_timeout or sys_untimeout and no expiry changes the time left to another
\* timer, and timers expire in the order of the time left to them.
Expired == IF pc = "unlink" THEN Place(list, tmp) ELSE 0

TimeLeft(l, e) ==
    [h \in {l[i].h : i \in (e + 1) .. Len(l)} |-> Ahead(l, Place(l, h)) - Ahead(l, e)]

Service == INSTANCE TimerService WITH
    left <- TimeLeft(list, Expired),
    credit <- diff - (IF Expired = 0 THEN 0 ELSE list[Expired].time),
    calling <- tmp
ImplementsService == Service!Spec

\* Every periodic handler is called again and again, once the application
\* no longer sets the clock of the timers back.
KeepsFiring ==
    <>[][~AppRestart]_vars => <>broken \/ \A h \in Periodic : []<>(pc = "call" /\ tmp = h)

=============================================================================
