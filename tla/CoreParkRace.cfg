SPECIFICATION FairSpec
CONSTANTS
  w1 = w1
  w2 = w2
  s1 = s1
  s2 = s2
  g1 = g1
  g2 = g2
  i1 = i1
  a = a
  b = b
  child = child
  sleep = sleep
  doze = doze
  Workers = {w1}
  Submitters = {s1}
  Closers = {}
  Tasks <- AllTasks
  Segments = {sleep}
  Sleepers = {sleep}
  FirstTask <- MCFirst
  After <- MCAfter
  Wanted <- MCWanted
  NoTask = NoTask
  NoThread = NoThread

PROPERTIES PublishedRuns
CHECK_DEADLOCK FALSE
