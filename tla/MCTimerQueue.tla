---------------------------- MODULE MCTimerQueue ----------------------------
(* One caller registers seven timers, one more than the least for which the entry that     *)
(* replaces a cancelled one must move up; two callers register three.      *)
EXTENDS TimerQueue

CONSTANTS c1, c2

MCSetups == {[callers |-> {c1}, timers |-> 7], [callers |-> {c1, c2}, timers |-> 3]}
MCTimers == 1 .. 7
=============================================================================
