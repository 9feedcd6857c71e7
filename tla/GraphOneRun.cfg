\* One input with its property at a time: each pair below is violated, see the README.
SPECIFICATION FairSpec
CONSTANTS
  w1 = w1
  w2 = w2
  x1 = x1
  Inputs <- Coroutine
\*  Inputs <- CancelledCoroutine
\*  Inputs <- ShutDown
  Workers = {w1, w2}
  Watchers = {x1}
  Wrap = 8
  None = None
INVARIANT PublishedIsTerminal
\* PROPERTY DagSpec
\* PROPERTY ShutdownCompletes
CHECK_DEADLOCK FALSE
