-------------------------- MODULE MCTraceCollector --------------------------
(* Two emitters share the external slot; a runtime attached late has that   *)
(* slot too, and a worker with one of its own, which may emit.             *)
EXTENDS TraceCollector

CONSTANTS e1, e2, e3, s1, s2

Writes == [e \in Emitters |-> IF e = e3 THEN s2 ELSE s1]
=============================================================================
