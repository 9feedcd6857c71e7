\* One program with its property at a time: each of those below is violated, see the
\* README.  Chain needs two workers.
SPECIFICATION FairSpec
CONSTANTS
  w1 = w1
  w2 = w2
  c1 = c1
  z1 = z1
  tx = tx
  ty = ty
  tz = tz
  ta = ta
  tb = tb
  Workers = {w1}
\*  Workers = {w1, w2}
  Cancellers = {c1}
  Closers = {z1}
  Tasks = {tx, ty, tz, ta, tb}
  Coroutines = {ta, tb}
  Programs <- TwoWaiters
\*  Programs <- Chain
\*  Programs <- WaitSleeper
\*  Programs <- Closed
\*  Programs <- CancelSleeper
  Cancels <- AnyCancels
  MaxDepth = 2
  None = None
INVARIANT WakerExists
\* PROPERTY ResumesRun
\* PROPERTY WaitReturns
\* PROPERTY CancelReturns
\* INVARIANT FrameReclaimed
\* PROPERTY ResumeClaimed
\* INVARIANT QuiescentConserves
CHECK_DEADLOCK FALSE
