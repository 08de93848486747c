\* Three calls: two repeat a key or link the same file while the third replies.
SPECIFICATION Spec
CONSTANTS
  User = {u1, u2}
  Managers = {u1}
  Key = {k1, k2, k3}
  Attachment = {a1}
  Call = {c1, c2, c3}
  None = None
SYMMETRY Symmetry
INVARIANTS
  AnsweredIsStored
  AnnouncedOnce
  RepliesCounted
  FilesBelongToAuthor
PROPERTIES
  ImplementsLog
