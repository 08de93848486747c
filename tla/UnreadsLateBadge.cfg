\* A fan-out that inserts after the mark-read it belongs under.
SPECIFICATION Spec
CONSTANTS
  User = {u1, u2}
  Msg = {m1, m2}
  Mark = {k1}
  Kinds = {"send"}
  Audiences <- All
  Readers = {u1, u2}
  Leavers = {}
  MaxTime = 2
  MaxDeleted = 0
  None = None
SYMMETRY Symmetry
INVARIANTS
  NoBadgeSurvivesMark
\* The posts and mark-reads of the instance may all be over.
CHECK_DEADLOCK FALSE
