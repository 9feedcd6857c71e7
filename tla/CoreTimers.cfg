SPECIFICATION Spec
CONSTANTS
  w1 = w1
  w2 = w2
  s1 = s1
  s2 = s2
  g1 = g1
  g2 = g2
  i1 = i1
  a = a
  b = b
  child = child
  sleep = sleep
  doze = doze
  Workers = {w1}
  Submitters = {s1, s2}
  Closers = {g1, i1}
  Tasks <- TwoSleepers
  Segments = {sleep, doze}
  Sleepers = {sleep, doze}
  FirstTask <- MCFirst
  After <- EachSleeps
  Wanted <- MCWanted
  NoTask = NoTask
  NoThread = NoThread
INVARIANTS WorkConservation GracefulDrains
CHECK_DEADLOCK FALSE
