----------------------------- MODULE MCTimeouts -----------------------------
(***************************************************************************)
(* An instance of TimeoutsSchedule for TLC.  The msecs keep what matters   *)
(* of the real ones: one period is a multiple of another (dhcp_fine 500,   *)
(* ip_reass 1000), one is prime to it, and the TCP timer is shorter than   *)
(* all of them (250), so that it may be armed when its time is over.  The  *)
(* programs: connections come and go; the timers of an application fill    *)
(* the pool; an application restarts the timers.                           *)
(***************************************************************************)
EXTENDS TimeoutsSchedule

MCMsecs == [h \in Periodic \cup OneShot \cup {TcpTimer} |->
              CASE h = "fine" -> 3 [] h = "reass" -> 6 [] h = "arp" -> 5
                [] h = TcpTimer -> 2 [] h = "app1" -> 1 [] OTHER -> 4]

MCPrograms == {[tcp |-> TRUE, timers |-> {}, restarts |-> FALSE],
               [tcp |-> FALSE, timers |-> OneShot, restarts |-> FALSE],
               [tcp |-> FALSE, timers |-> {"app1"}, restarts |-> TRUE]}

=============================================================================
