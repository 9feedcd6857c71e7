----------------------------- MODULE ResumeOnce -----------------------------
(***************************************************************************)
(* What one await promises to the coroutine it suspends: once the frame    *)
(* has been armed and some source has fired, the frame is posted for       *)
(* resumption exactly once, and whether the await counts as cancelled is   *)
(* settled by the source that fired first.                                 *)
(***************************************************************************)
EXTENDS Naturals

VARIABLES
  armed,     \* the suspending segment has finished arming
  fired,     \* "none", or the kind of the source that fired first
  resumes    \* how often the frame has been posted to the ready queues

vars == <<armed, fired, resumes>>

Kinds == {"normal", "cancel"}

Init == armed = FALSE /\ fired = "none" /\ resumes = 0

Arm == ~armed /\ armed' = TRUE /\ UNCHANGED <<fired, resumes>>

Fire == /\ fired = "none"
        /\ fired' \in Kinds
        /\ UNCHANGED <<armed, resumes>>

Resume == /\ armed /\ fired # "none" /\ resumes = 0
          /\ resumes' = 1
          /\ UNCHANGED <<armed, fired>>

Next == Arm \/ Fire \/ Resume

Spec == Init /\ [][Next]_vars
=============================================================================
