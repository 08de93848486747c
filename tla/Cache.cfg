\* Two handlers, every operation, a lost answer and a dropped socket.
SPECIFICATION Spec
CONSTANTS
  Message = {first, reply, mine}
  Parent <- MCParent
  Old = {first}
  Own = {mine}
  Handler = {h1, h2}
  Ops = {"edit", "react", "remove"}
  MaxOps = 2
  MaxLost = 1
  MaxFetches = 1
  first = first
  reply = reply
  mine = mine
  None = None
SYMMETRY Symmetry
INVARIANTS
  NoTwins
  RepliesStayOut
  CurrentUnlessRaced
\* Every message is posted and every operation used in the end.
CHECK_DEADLOCK FALSE
