SPECIFICATION FairSpec
CONSTANTS
  s1 = s1
  g0 = g0
  g2 = g2
  g3 = g3
  internal = internal
  foreign = foreign
  w1 = w1
  Callers <- LiveCallers
  Releasers = {w1}
  Capacity = 2
  Count <- LiveCount
  Place <- LivePlace
  NonBlocking = {}
  Policy = "Block"
  Nobody = Nobody
PROPERTIES BlockedReturns
CHECK_DEADLOCK FALSE
