\* Two requests at a time over a team channel, a conversation and its invitations.
SPECIFICATION MembershipSpec
CONSTANTS
  u1 = u1
  u2 = u2
  s1 = s1
  s2 = s2
  User = {u1, u2}
  Admin = {u1}
  home = home
  Channel = {home, c1, c2}
  Name = {n1}
  Invitation = {i1, i2}
  Socket = {s1}
  UserOf <- MCUserOf
  Handler = {h1, h2}
  Patches <- MCPatches
  MaxRequests = 5
  None = None
SYMMETRY Symmetry
INVARIANTS
  MembershipTypeOK
  OneConversationPerSet
  MembersWereAdmitted
  RoomsFollowMembership
\* The requests of the instance run out.
CHECK_DEADLOCK FALSE
