----------------------- MODULE MCAdmissionController -----------------------
(* Capacity 2 in both instances.  The first has a submitter that may block,*)
(* a graph of two nodes that may block, a graph without nodes, a caller on *)
(* a worker of this runtime and one on a worker of another.  The second,   *)
(* for liveness, has two blocking requests that compete for the slots and  *)
(* a graph larger than the capacity.  One worker gives slots back.         *)
EXTENDS AdmissionController

CONSTANTS s1, g0, g2, g3, internal, foreign, w1

MCCallers == {s1, g0, g2, internal, foreign}
MCCount == [c \in MCCallers |-> CASE c = g0 -> 0 [] c = g2 -> 2 [] OTHER -> 1]
MCPlace == [c \in MCCallers |-> CASE c = internal -> "this runtime"
                                   [] c = foreign -> "another runtime"
                                   [] OTHER -> "outside"]

LiveCallers == {s1, g2, g3}
LiveCount == [c \in LiveCallers |-> CASE c = s1 -> 1 [] c = g2 -> 2 [] c = g3 -> 3]
LivePlace == [c \in LiveCallers |-> "outside"]
=============================================================================
