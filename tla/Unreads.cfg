\* Two posts, two mark-reads of one user, who is removed and rejoins; a deletion.
SPECIFICATION Spec
CONSTANTS
  User = {u1, u2}
  Msg = {m1, m2}
  Mark = {k1, k2}
  Kinds = {"send", "forward"}
  Audiences <- All
  Readers = {u1}
  Leavers = {u1}
  MaxTime = 2
  MaxDeleted = 1
  None = None
SYMMETRY Symmetry
INVARIANTS
  PointersRight
  FanOutRight
  NewerMentionsStayBadged
PROPERTIES
  ReadStaysRead
\* The posts and mark-reads of the instance may all be over.
CHECK_DEADLOCK FALSE
