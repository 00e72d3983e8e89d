---------------------------- MODULE TimerService ----------------------------
(***************************************************************************)
(* What sys_timeout, sys_untimeout and sys_check_timeouts promise, without *)
(* the list of differences: every timer has its own time left.             *)
(*                                                                         *)
(* A look at the clock gives the service a credit of time.  Timers expire  *)
(* in the order of the time left to them, as far as the credit goes; an    *)
(* expiry uses up credit and that much of the time left to every other     *)
(* timer.  To arm or to cancel a timer changes the time left to no other.  *)
(***************************************************************************)
EXTENDS Naturals

CONSTANTS Handlers, NoHandler

VARIABLES
    left,     \* left[h]: the time left to the timer of h; its domain is armed
    credit,   \* time passed that no timer has used up yet
    calling   \* the handler being called, or NoHandler

svars == <<left, credit, calling>>

Armed == DOMAIN left

Init ==
    /\ Armed \subseteq Handlers /\ left \in [Armed -> Nat]
    /\ credit = 0 /\ calling = NoHandler

\* Time has passed, or what is left of it counts no more.
Pass == credit' \in Nat /\ UNCHANGED <<left, calling>>

\* The first timer expires within the credit and its handler is called.
Expire(h) ==
    /\ calling = NoHandler
    /\ h \in Armed /\ left[h] <= credit
    /\ \A g \in Armed : left[h] <= left[g]
    /\ calling' = h
    /\ credit' = credit - left[h]
    /\ left' = [g \in Armed \ {h} |-> left[g] - left[h]]

\* A timer that is not armed is armed; its own handler may do it and return.
Arm(h) ==
    /\ h \notin Armed
    /\ left' \in [Armed \cup {h} -> Nat]
    /\ \A g \in Armed : left'[g] = left[g]
    /\ calling' \in {calling, NoHandler}
    /\ UNCHANGED credit

Cancel(h) ==
    /\ left' = [g \in Armed \ {h} |-> left[g]]
    /\ UNCHANGED <<credit, calling>>

Return == calling' = NoHandler /\ UNCHANGED <<left, credit>>

Next == Pass \/ Return \/ \E h \in Handlers : Expire(h) \/ Arm(h) \/ Cancel(h)
Spec == Init /\ [][Next]_svars

=============================================================================
