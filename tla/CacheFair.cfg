\* The same with one operation and without symmetry, for liveness.
SPECIFICATION FairSpec
CONSTANTS
  Message = {first, reply, mine}
  Parent <- MCParent
  Old = {first}
  Own = {mine}
  Handler = {h1, h2}
  Ops = {"edit", "react", "pin", "remove"}
  MaxOps = 1
  MaxLost = 1
  MaxFetches = 1
  first = first
  reply = reply
  mine = mine
  None = None
PROPERTIES
  OwnMessageAppears
\* Every message is posted and every operation used in the end.
CHECK_DEADLOCK FALSE
