SPECIFICATION FairSpec
CONSTANTS
  e1 = e1  e2 = e2  e3 = e3  s1 = s1  s2 = s2
  Emitters = {e1, e2}
  Slots = {s1, s2}
  SlotOf <- Writes
  Attached = {s1}
  Runtimes = {{s1, s2}}
  Controllers = {c1, c2}
  Capacity = 1
  MaxGen = 2
  MaxEmits = 1
  NoThread = NoThread
INVARIANT Inv
PROPERTIES CaptureSpec StopEnds
CHECK_DEADLOCK FALSE
