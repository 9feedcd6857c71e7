------------------------- MODULE MCGraphExecution --------------------------
(* The graphs that are frozen and run, with their surroundings. *)
EXTENDS GraphExecution

CONSTANTS w1, w2, x1

Need(a, b) == [from |-> a, to |-> b, required |-> TRUE]
Follow(a, b) == [from |-> a, to |-> b, required |-> FALSE]

Input(n, es, ws) ==
  [nodes |-> 1 .. n, edges |-> es, runs |-> TRUE, coros |-> {}, suspends |-> <<>>,
   internal |-> FALSE, workers |-> ws, cancels |-> FALSE, closes |-> FALSE]
With(i, co, k) == [i EXCEPT !.coros = co, !.suspends = [n \in co |-> k]]

Empty == Input(0, <<>>, {w1})

(* A join of both kinds of edges; the same on one worker, with a continuation. *)
Join == Input(3, <<Need(1, 3), Follow(2, 3)>>, {w1, w2})
Chain == Input(4, <<Need(1, 3), Follow(2, 3), Need(3, 4)>>, {w1})
Fork == Input(3, <<Need(1, 2), Need(1, 3)>>, {w1, w2})

(* A coroutine between two callables, on the only worker. *)
Middle == With(Input(3, <<Need(1, 2), Follow(2, 3)>>, {w1}), {2}, 1)

(* A coroutine next to a callable, on two workers. *)
Beside == With(Input(2, <<>>, {w1, w2}), {1}, 1)

(* Graphs that are only frozen: two nodes with every pair of edges, foreign *)
(* ones among them; three nodes with up to four proper edges; and a cycle  *)
(* behind a node the search has left.                                      *)
Draft(n, es) == [Input(n, es, {}) EXCEPT !.runs = FALSE]
Drafts ==
  {Draft(2, es) : es \in BoundedSeq({Need(a, b) : a, b \in 0 .. 3}, 2)}
  \cup {Draft(2, <<Need(1, 2), Follow(1, 2)>>)}
  \cup {Draft(3, es) : es \in BoundedSeq({Need(a, b) : <<a, b>> \in
          {p \in (1 .. 3) \X (1 .. 3) : p[1] # p[2]}}, 4)}
  \cup {Draft(4, es) : es \in Reordered(<<Need(1, 2), Need(3, 2), Need(3, 4), Need(4, 3)>>)}

Runs == Drafts \cup
        {Empty, [Join EXCEPT !.cancels = TRUE], [Chain EXCEPT !.internal = TRUE],
         [Fork EXCEPT !.closes = TRUE], Middle}
Coroutine == {Beside}
CancelledCoroutine == {[With(Input(1, <<>>, {w1}), {1}, 1) EXCEPT !.cancels = TRUE]}
ShutDown == {[Fork EXCEPT !.closes = TRUE]}
=============================================================================
