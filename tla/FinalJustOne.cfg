\* One property at a time: each of those below is violated, see the README.
SPECIFICATION Spec
CONSTANTS
  r1 = r1  r2 = r2  w1 = w1  w2 = w2  f1 = f1  f2 = f2
  Runtimes = {r1, r2}
  Workers = {w1, w2}
  Finalizers = {f1, f2}
  Shared = {r1}
  Patient = {f1}
  Casts <- JustOne
  NoWorker = NoWorker
  NoRuntime = NoRuntime
INVARIANT AttachRollsBack
\* INVARIANT CalledAlive
\* INVARIANT FinalizedAfterJoin
\* INVARIANT NoTerminate
\* PROPERTY StoppingKept
CHECK_DEADLOCK FALSE
