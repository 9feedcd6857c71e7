SPECIFICATION FairSpec
CONSTANTS
  w1 = w1
  w2 = w2
  c1 = c1
  z1 = z1
  tx = tx
  ty = ty
  tz = tz
  ta = ta
  tb = tb
  Workers = {w1, w2}
  Cancellers = {c1}
  Closers = {z1}
  Tasks = {tx, ty, tz, ta, tb}
  Coroutines = {ta, tb}
  Programs <- Protocol
  Cancels <- AnyCancels
  MaxDepth = 1
  None = None
INVARIANTS Inv OneResumeOwner WakerExists StopReaches
PROPERTIES WaitReturns ResumesRun
CHECK_DEADLOCK FALSE
