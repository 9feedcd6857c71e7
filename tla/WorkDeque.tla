----------------------------- MODULE WorkDeque ------------------------------
(***************************************************************************)
(* What a work-stealing deque promises its callers (R-066): a sequence to  *)
(* which the owner appends, from whose end the owner takes and from whose  *)
(* front anybody takes, every item once.  A push may be refused (R-068),   *)
(* and then the item stays with the caller.                                *)
(***************************************************************************)
EXTENDS Naturals, Sequences, SequencesExt

VARIABLES
  queue,   \* the items in the deque, which are numbered as they are offered
  offered, \* how many pushes have returned
  popped,  \* items the owner has taken
  stolen   \* items the thieves have taken

vars == <<queue, offered, popped, stolen>>

Init == queue = <<>> /\ offered = 0 /\ popped = {} /\ stolen = {}

Push == /\ offered' = offered + 1
        /\ queue' \in {queue, Append(queue, offered')}
        /\ UNCHANGED <<popped, stolen>>

Pop == /\ queue # <<>>
       /\ popped' = popped \cup {Last(queue)} /\ queue' = Front(queue)
       /\ UNCHANGED <<offered, stolen>>

Steal == /\ queue # <<>>
         /\ stolen' = stolen \cup {Head(queue)} /\ queue' = Tail(queue)
         /\ UNCHANGED <<offered, popped>>

Next == Push \/ Pop \/ Steal

Spec == Init /\ [][Next]_vars
=============================================================================
