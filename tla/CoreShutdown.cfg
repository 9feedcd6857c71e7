SPECIFICATION Spec
CONSTANTS
  w1 = w1
  w2 = w2
  s1 = s1
  s2 = s2
  g1 = g1
  g2 = g2
  i1 = i1
  a = a
  b = b
  child = child
  sleep = sleep
  doze = doze
  Workers = {w1, w2}
  Submitters = {s1}
  Closers = {g1, i1}
  Tasks <- AllTasks
  Segments = {sleep}
  Sleepers = {sleep}
  FirstTask <- MCFirst
  After <- SleepAfter
  Wanted <- MCWanted
  NoTask = NoTask
  NoThread = NoThread
INVARIANTS IInv WorkConservation StoppedIsQuiet GracefulDrains ImmediateCancels
SYMMETRY AlikeWorkers
CHECK_DEADLOCK FALSE
