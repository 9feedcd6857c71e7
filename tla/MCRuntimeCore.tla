--------------------------- MODULE MCRuntimeCore ---------------------------
(* Instances of one runtime.  Task a is a coroutine that sleeps once, or it *)
(* submits a child, or it does both; task b publishes nothing, or it sleeps *)
(* too.  The workers are alike, which the instances without liveness use.   *)
EXTENDS RuntimeCore, TLC

CONSTANTS w1, w2, s1, s2, g1, g2, i1, a, b, child, sleep, doze

AllTasks == {a, b, child, sleep}
TwoSleepers == {a, b, sleep, doze}

MCAfter == [t \in AllTasks |-> CASE t = a -> sleep [] t = sleep -> child
                                 [] OTHER -> NoTask]
SleepAfter == [t \in AllTasks |-> IF t = a THEN sleep ELSE NoTask]
EachSleeps == [t \in TwoSleepers |-> CASE t = a -> sleep [] t = b -> doze
                                      [] OTHER -> NoTask]
ChildAfter == [t \in AllTasks |-> IF t = a THEN child ELSE NoTask]
MCFirst == [s \in Submitters |-> IF s = s1 THEN a ELSE b]
MCWanted == [c \in Closers |-> IF c = i1 THEN "Immediate" ELSE "Graceful"]
AlikeWorkers == Permutations(Workers)
=============================================================================
