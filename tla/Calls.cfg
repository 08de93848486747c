\* Two members, two calls and two flows at a time.
SPECIFICATION CallsSpec
CONSTANTS
  User = {u1, u2}
  Call = {c1, c2}
  Flow = {f1, f2}
  MaxRequests = 5
  MaxFailures = 1
  MaxLag = 2
  None = None
SYMMETRY Symmetry
INVARIANTS
  RecordingPostedOnce
  BannerAgrees
  RingsUnanswered
\* The clicks of the instance run out.
CHECK_DEADLOCK FALSE
