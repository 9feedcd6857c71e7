SPECIFICATION FairSpec
CONSTANTS
  r1 = r1  r2 = r2  w1 = w1  w2 = w2  f1 = f1  f2 = f2
  Runtimes = {r1, r2}
  Workers = {w1, w2}
  Finalizers = {f1, f2}
  Shared = {r1}
  Patient = {f1}
  Casts <- MCCasts
  NoWorker = NoWorker
  NoRuntime = NoRuntime
INVARIANTS Inv RefusedLeavesNothing
PROPERTIES ServiceSpec WaitEnds OrphanReclaimed
CHECK_DEADLOCK FALSE
