\* One property at a time: each of those below is violated, see the README.
SPECIFICATION Spec
CONSTANTS
  w1 = w1
  w2 = w2
  s1 = s1
  s2 = s2
  g1 = g1
  g2 = g2
  i1 = i1
  a = a
  b = b
  child = child
  sleep = sleep
  doze = doze
  Workers = {w1}
  Submitters = {s1, s2}
  Closers = {g1, i1}
  Tasks <- AllTasks
  Segments = {sleep}
  Sleepers = {sleep}
  FirstTask <- MCFirst
  After <- MCAfter
  Wanted <- MCWanted
  NoTask = NoTask
  NoThread = NoThread
INVARIANT NoOrphanTask
\* INVARIANT CancelledByStop
\* INVARIANT SuspendedUnwinds
\* PROPERTY NoDowngrade
\* PROPERTY NoFirstStart
CHECK_DEADLOCK FALSE
