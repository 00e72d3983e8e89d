-------------------------- MODULE TimeoutsSchedule --------------------------
(***************************************************************************)
(* Timeouts with the history a reader of its promises would keep: how much *)
(* time has really passed, how often each handler was called, and whether  *)
(* there was a reason to be late.  Horizon bounds the time observed.       *)
(***************************************************************************)
EXTENDS Timeouts

CONSTANT Horizon

\* The pool counts the TCP timer: a program with TCP has no more timers of its
\* own than MEMP_NUM_SYS_TIMEOUT leaves.
ASSUME RoomAssumption ==
    \A p \in Programs : p.tcp =>
        IsFiniteSet(p.timers) /\ Cardinality(Periodic) + Cardinality(p.timers) + 1 <= PoolSize

VARIABLES
    ticks,  \* milliseconds since lwip_init
    calls,  \* calls[h]: calls of the handler h
    torn,   \* the TCP timer once was armed between Test and Unlink
    late    \* a reason to be late: Lags, SetBack, ArmedDue

history == <<ticks, calls, torn, late>>

\* The clock ticks on although the main loop has not seen the tick before; an
\* application lets the timers count from now on; a timer is armed whose msecs,
\* which count from timeouts_last_time, are over already.
Lags        == clock' # clock /\ Since(now) > 0
SetBack     == last' # last /\ pc = "idle"
ArmedDue(h) ==
    ~InList(list, h) /\ InList(list', h) /\ Msecs[h] <= (now + TimeMod - last) % TimeMod

NoCalls == [h \in Handlers |-> 0]

HistoryInit ==
    /\ Init
    /\ ticks = 0
    /\ calls = NoCalls
    /\ torn = FALSE /\ late = FALSE

\* Nothing is recorded any more once Horizon ticks have been.
Recorded ==
    /\ ticks' = IF clock' = clock \/ ticks = Horizon THEN ticks ELSE ticks + 1
    /\ IF ticks' = Horizon THEN calls' = NoCalls /\ torn' = FALSE /\ late' = FALSE
       ELSE /\ calls' = IF pc = "unlink" /\ pc' = "call" THEN [calls EXCEPT ![tmp] = @ + 1] ELSE calls
            /\ torn' = (torn \/ (pc = "unlink" /\ pc' = "unlink" /\ list' # list))
            /\ late' = (late \/ Lags \/ SetBack \/ \E h \in Handlers : ArmedDue(h))

HistoryNext == Next /\ IF broken' THEN UNCHANGED history ELSE Recorded

HistorySpec ==
    /\ HistoryInit /\ [][HistoryNext]_<<vars, history>>
    /\ WF_vars(Goes(Check)) /\ WF_vars(Goes(Tick))

\* The main loop may be late, and sys_check_timeouts then makes up for it with
\* several calls in a row; but it never runs ahead of the clock: a periodic
\* handler is called at most once for every msecs that have passed, and an
\* application's timer takes nothing from it.
NeverAhead == ~torn /\ ticks < Horizon => \A h \in Periodic : calls[h] * Msecs[h] <= ticks

\* As long as the main loop looks at the clock at every tick it calls them
\* all on time: neither an application's timers, with the pool full or not,
\* nor the clock going round make one late, but for a timer armed when its
\* time is over: what it leaves of diff when it expires at once is lost.
OnTime ==
    ~late /\ ~torn /\ ticks < Horizon /\ pc = "idle" /\ now = clock =>
        \A h \in Periodic : (calls[h] + 1) * Msecs[h] > ticks

\* A periodic handler is called neither too often nor too late.
KeepsTime == NeverAhead /\ OnTime

=============================================================================
