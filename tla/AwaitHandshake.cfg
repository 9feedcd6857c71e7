SPECIFICATION FairSpec
CONSTANTS
  t1 = t1
  t2 = t2
  c1 = c1
  c2 = c2
  arm = arm
  Triggers <- MCTriggers
  Cancels <- MCCancels
  Armer <- arm
INVARIANTS IInv
PROPERTIES EventuallyResumed PromiseSpec
