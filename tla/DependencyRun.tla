--------------------------- MODULE DependencyRun ---------------------------
(***************************************************************************)
(* What one run of a task graph promises (R-070, R-071, R-072): a node     *)
(* starts at most once, after all its predecessors are terminal and only   *)
(* if those its edges require succeeded; otherwise, or after a cancel      *)
(* request, it ends Cancelled without starting; and the verdict of the run *)
(* is published once, after the last node, as the outcomes say.            *)
(***************************************************************************)
EXTENDS Naturals

CONSTANT Graphs   \* records with at least nodes, require, after

VARIABLES
  graph,      \* the frozen graph; require and after are its two kinds of edges
  status,     \* of each node
  cancelled,  \* a cancel request has been made
  verdict     \* GraphRunState

vars == <<graph, status, cancelled, verdict>>

Terminal == {"Succeeded", "Failed", "Cancelled"}
Done(n) == status[n] \in Terminal

Init == /\ graph \in Graphs
        /\ status = [n \in graph.nodes |-> "Waiting"]
        /\ cancelled = FALSE /\ verdict = "Running"

Unblocked(n) == \A m \in graph.nodes : <<m, n>> \in graph.require \cup graph.after => Done(m)
Allowed(n) == \A m \in graph.nodes : <<m, n>> \in graph.require => status[m] = "Succeeded"

Become(n, s) == status' = [status EXCEPT ![n] = s] /\ UNCHANGED <<graph, cancelled, verdict>>

Start(n) == /\ status[n] = "Waiting" /\ Unblocked(n) /\ Allowed(n) /\ ~cancelled
            /\ Become(n, "Started")

Skip(n) == /\ status[n] = "Waiting" /\ Unblocked(n) /\ (cancelled \/ ~Allowed(n))
           /\ Become(n, "Cancelled")

Finish(n) == /\ status[n] = "Started"
             /\ \E s \in Terminal : Become(n, s)

Cancel == cancelled' = TRUE /\ UNCHANGED <<graph, status, verdict>>

(* Failed comes before Cancelled, and Cancelled before Succeeded.          *)
Verdict == CASE \E n \in graph.nodes : status[n] = "Failed" -> "Failed"
             [] \A n \in graph.nodes : status[n] = "Succeeded" -> "Succeeded"
             [] OTHER -> "Cancelled"

Publish == /\ verdict = "Running" /\ \A n \in graph.nodes : Done(n)
           /\ verdict' = Verdict
           /\ UNCHANGED <<graph, status, cancelled>>

Next == Cancel \/ Publish \/ \E n \in graph.nodes : Start(n) \/ Skip(n) \/ Finish(n)

Spec == Init /\ [][Next]_vars
=============================================================================
