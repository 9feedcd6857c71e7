---------------------------- MODULE GraphFreeze ----------------------------
(***************************************************************************)
(* TaskGraph::freeze() (src/src/graph/graph.cpp): the checks a task graph  *)
(* passes before it may run, in their order, and the cycle it names when   *)
(* it refuses.  Nodes are the numbers emplace() hands out, 1 .. n; edges   *)
(* is the sequence of add_edge() calls.                                    *)
(***************************************************************************)
EXTENDS Naturals, FiniteSetsExt, Sequences, SequencesExt

Foreign(n, edges) ==
  \E k \in DOMAIN edges : ~({edges[k].from, edges[k].to} \subseteq 1 .. n)
SelfEdge(edges) == \E k \in DOMAIN edges : edges[k].from = edges[k].to

(* The policy of an edge does not distinguish it from another.             *)
Duplicate(edges) ==
  \E j, k \in DOMAIN edges :
    j < k /\ edges[j].from = edges[k].from /\ edges[j].to = edges[k].to

MutantAdjacent(edges, u) ==
  LET out == SelectSeq(edges, LAMBDA e : e.from = u) IN [k \in DOMAIN out |-> out[k].to]

(* The sorted adjacency list.                                              *)
Adjacent(edges, u) ==
  SetToSortSeq({edges[k].to : k \in {j \in DOMAIN edges : edges[j].from = u}}, <)

(* Kahn's algorithm: how many nodes are taken from the queue.              *)
Visited(n, edges) ==
  LET taken[degree \in [1 .. n -> Nat], zero \in SUBSET (1 .. n)] ==
        IF zero = {} THEN 0 ELSE
        LET u == Min(zero)
            out == {Adjacent(edges, u)[k] : k \in DOMAIN Adjacent(edges, u)}
            less == [v \in 1 .. n |-> IF v \in out THEN degree[v] - 1 ELSE degree[v]]
        IN 1 + taken[less, (zero \ {u}) \cup {v \in out : less[v] = 0}]
      incoming == [v \in 1 .. n |-> Len(SelectSeq(edges, LAMBDA e : e.to = v))]
  IN taken[incoming, {v \in 1 .. n : incoming[v] = 0}]

HasCycle(n, edges) == Visited(n, edges) < n

(* find_cycle_dfs() from node u: the search s has the nodes on its path,   *)
(* those it has left, and the witness, empty until an edge leads back to   *)
(* the path.                                                               *)
Searches(n) == [path : Seq(1 .. n), left : SUBSET (1 .. n), witness : Seq(1 .. n)]
Search(n, edges) ==
  LET from[u \in 1 .. n, s \in Searches(n)] ==
        LET on == Append(s.path, u)
            Follow(t, v) ==
              CASE t.witness # <<>> \/ v \in t.left -> t
                [] t.witness = <<>> /\ Contains(on, v) ->
                     [t EXCEPT !.witness =
                        Append(SubSeq(on, CHOOSE k \in DOMAIN on : on[k] = v, Len(on)), v)]
                [] OTHER -> from[v, [t EXCEPT !.path = on]]
            end == FoldLeft(Follow, s, Adjacent(edges, u))
        IN [end EXCEPT !.left = @ \cup {u}]
  IN from

(* The roots are tried in the order of their numbers.                      *)
Witness(n, edges) ==
  LET Root(s, v) == IF s.witness # <<>> \/ v \in s.left THEN s
                    ELSE Search(n, edges)[v, [s EXCEPT !.path = <<>>]]
  IN FoldLeft(Root, [path |-> <<>>, left |-> {}, witness |-> <<>>],
              [k \in 1 .. n |-> k]).witness

(* The reason of the graph_validation_error, "none" if there is no error.  *)
Reason(n, edges) ==
  CASE Foreign(n, edges) -> "ForeignNode"
    [] ~Foreign(n, edges) /\ SelfEdge(edges) -> "SelfEdge"
    [] ~Foreign(n, edges) /\ ~SelfEdge(edges) /\ Duplicate(edges) -> "DuplicateEdge"
    [] OTHER -> IF HasCycle(n, edges) THEN "Cycle" ELSE "none"
=============================================================================
