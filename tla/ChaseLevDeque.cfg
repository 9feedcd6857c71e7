SPECIFICATION Spec
CONSTANTS
  p1 = p1
  p2 = p2
  Thieves = {p1, p2}
  Items = 5
  InitialCapacity = 2
  Rings = 2
  HighWatermark = 4
INVARIANTS Inv
PROPERTIES DequeSpec
SYMMETRY AlikeThieves
CHECK_DEADLOCK FALSE
