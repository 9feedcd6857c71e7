SPECIFICATION FairSpec
CONSTANTS
  w1 = w1
  w2 = w2
  x1 = x1
  Inputs <- Runs
  Workers = {w1, w2}
  Watchers = {x1}
  Wrap = 8
  None = None
INVARIANTS Inv FreezeDecides SlotsOwed WatcherHeld
PROPERTIES DagSpec RunCompletes
CHECK_DEADLOCK FALSE
