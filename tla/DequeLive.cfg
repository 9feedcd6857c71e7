SPECIFICATION FairSpec
CONSTANTS
  p1 = p1
  p2 = p2
  Thieves = {p1, p2}
  Items = 3
  InitialCapacity = 2
  Rings = 1
  HighWatermark = 2
PROPERTY RebaseEnds
CHECK_DEADLOCK FALSE
