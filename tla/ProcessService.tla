--------------------------- MODULE ProcessService ---------------------------
(***************************************************************************)
(* What the process-wide Reaper promises: runtimes come until registration *)
(* is closed, those there are are reclaimed, and the service is Finalized  *)
(* once, for good, when nothing is left.                                   *)
(***************************************************************************)
CONSTANT Runtimes

VARIABLES
  phase,  \* "Open", "Finalizing" or "Finalized"
  live    \* the runtimes to be reclaimed

Init == phase = "Open" /\ live = {}

Start(r) ==
  /\ phase = "Open" /\ r \notin live
  /\ live' = live \cup {r}
  /\ UNCHANGED phase

Reclaim ==
  /\ live' \in SUBSET live
  /\ UNCHANGED phase

Close ==
  /\ phase = "Open" /\ phase' = "Finalizing"
  /\ UNCHANGED live

Complete ==
  /\ phase # "Finalized" /\ live = {}
  /\ phase' = "Finalized"
  /\ UNCHANGED live

Next == (\E r \in Runtimes : Start(r)) \/ Reclaim \/ Close \/ Complete

Spec == Init /\ [][Next]_<<phase, live>>
=============================================================================
