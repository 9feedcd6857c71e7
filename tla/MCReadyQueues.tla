---------------------------- MODULE MCReadyQueues ----------------------------
(* Four instances.  Full: one worker, the calendar of the code and one     *)
(* outside task per band.  Short: one worker with two coroutines that      *)
(* yield, in two bands, a deadline task and a task that submits a child,   *)
(* under a calendar of weights 2:1.  Pair, Theft: two workers on one band  *)
(* with two deadline tasks, or with one and a coroutine that yields.       *)
EXTENDS ReadyQueues

CONSTANTS w1, w2, critical, high, normal, low, soon, later, yield1, yield2, yield3, yield4,
          parent, child

kPriorityCalendar == <<3, 2, 3, 1, 3, 2, 3, 0, 3, 2, 3, 1, 3, 2, 3>>
Watch(what, b, t) == [what |-> what, by |-> w1, band |-> b, task |-> t]

Full == [workers |-> {w1}, tasks |-> {critical, high, normal, low},
         calendar |-> kPriorityCalendar,
         watches |-> {Watch("global", 0, low), Watch("global", 1, normal),
                      Watch("global", 2, high), Watch("global", 3, high)}]
Short == [workers |-> {w1}, tasks |-> {critical, yield1, yield2, parent, child},
          calendar |-> <<3, 3, 0>>,
          watches |-> {Watch("global", 0, parent), Watch("local", 0, yield2), Watch("probe", 0, yield1)}]
Pair == [workers |-> {w1, w2}, tasks |-> {soon, later, normal}, calendar |-> <<1>>,
         watches |-> {Watch("fifo", 1, normal)}]
Theft == [Pair EXCEPT !.tasks = {soon, normal, yield3},
                      !.watches = @ \cup {Watch("probe", 1, yield3)}]

MCSetups == {Full, Short, Pair, Theft}
MCPriority == [t \in Tasks |-> CASE t \in {critical, yield1, child} -> 3 [] t = high -> 2
                                 [] t \in {low, yield2, parent} -> 0 [] OTHER -> 1]
MCDeadline == [t \in Tasks |-> CASE t \in {critical, soon} -> 1 [] t = later -> 2 [] OTHER -> 0]
MCChild == [t \in Tasks |-> IF t = parent THEN child ELSE NoTask]

(* Two coroutines that yield, alone with one worker. *)
YieldSetups == {[workers |-> {w1}, tasks |-> {yield3, yield4}, calendar |-> <<1>>,
                 watches |-> {Watch("probe", 1, yield3)}]}
=============================================================================
