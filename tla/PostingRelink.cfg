\* Two calls of one user, each with its own key, link the same file.
SPECIFICATION Spec
CONSTANTS
  User = {u1}
  Managers = {u1}
  Key = {k1, k2}
  Attachment = {a1}
  Call = {c1, c2}
  None = None
PROPERTIES
  LinkedOnlyOnce
