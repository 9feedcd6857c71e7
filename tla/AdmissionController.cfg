SPECIFICATION Spec
CONSTANTS
  s1 = s1
  g0 = g0
  g2 = g2
  g3 = g3
  internal = internal
  foreign = foreign
  w1 = w1
  Callers <- MCCallers
  Releasers = {w1}
  Capacity = 2
  Count <- MCCount
  Place <- MCPlace
  NonBlocking = {}
  Policy = "Block"
  Nobody = Nobody
INVARIANTS Inv NoLateAdmission NoForgottenSleeper
CHECK_DEADLOCK FALSE
