\* A recording begins while the answer of a join is under way.
SPECIFICATION CallsSpec
CONSTANTS
  User = {u1, u2}
  Call = {c1, c2}
  Flow = {f1, f2}
  MaxRequests = 4
  MaxFailures = 0
  MaxLag = 2
  None = None
SYMMETRY Symmetry
INVARIANT EveryoneSeesRecording
CHECK_DEADLOCK FALSE
