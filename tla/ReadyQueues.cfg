SPECIFICATION Spec
CONSTANTS
  w1 = w1
  w2 = w2
  critical = critical
  high = high
  normal = normal
  low = low
  soon = soon
  later = later
  yield1 = yield1
  yield2 = yield2
  yield3 = yield3
  yield4 = yield4
  parent = parent
  child = child
  Workers = {w1, w2}
  Tasks = {critical, high, normal, low, soon, later, parent, child, yield1, yield2, yield3, yield4}
  Setups <- MCSetups
  Priority <- MCPriority
  Deadline <- MCDeadline
  Yielders = {yield1, yield2, yield3, yield4}
  Child <- MCChild
  LocalBurstLimit = 2
  DeadlineBurstLimit = 2
  ProbeLimit = 1
  NoTask = NoTask
INVARIANTS Inv ServedInTime
PROPERTIES GlobalServed
