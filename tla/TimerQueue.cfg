SPECIFICATION Spec
CONSTANTS
  c1 = c1
  c2 = c2
  Callers = {c1, c2}
  Timers <- MCTimers
  Times = {1, 2, 3}
  Setups <- MCSetups
INVARIANTS Inv
PROPERTIES ServiceSpec
CHECK_DEADLOCK FALSE
