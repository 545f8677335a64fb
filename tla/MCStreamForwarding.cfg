SPECIFICATION Spec
CONSTANTS
  d1 = d1
  d2 = d2
  v1 = v1
  v2 = v2
  Data = {d1, d2}
  Primary = primary
  None = None
  Visitors = {v1, v2}
  MaxFailures = 2
  MaxVisitors = 2
  Cap = 1
  MaxAttempts = 2
SYMMETRY Symmetric
INVARIANT NoOrphanStream
PROPERTY FindsRoom
CHECK_DEADLOCK FALSE
