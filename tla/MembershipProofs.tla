-------------------------- MODULE MembershipProofs --------------------------
(***************************************************************************)
(* What is proved of Membership for any users, channels, invitations,      *)
(* sockets and requests: its types, and its three safety invariants.       *)
(*                                                                         *)
(* No invariant is inductive alone, because every write relies on a check  *)
(* made some awaits before.  What survives of the check is little, and     *)
(* Holds says it: a team channel remains one, whoever was let in once      *)
(* remains admissible.                                                     *)
(***************************************************************************)
EXTENDS Membership, TLAPS

(* What a request still relies on when it writes: the channel it found is  *)
(* a team channel, and the user it lets in has been given a way in.        *)
Holds(r) ==
  /\ r.pc \in {"invite", "inviteEach", "accept", "acceptDrop", "decline", "join", "mintLink",
               "update", "remove", "evict"} => r.ch \in Channel /\ IsTeam(r.ch)
  /\ r.pc \in {"create", "accept", "join"} => r.user \in User
  /\ r.pc \in {"accept", "join"} => <<r.user, r.ch>> \in admissible
  /\ r.pc \in {"acceptDrop", "decline", "accept"} => r.ref \in Invitation
  /\ r.pc = "update" => r.ref \in Patches
  /\ r.pc \in {"remove", "evict"} => r.who \in User
  /\ r.pc = "create" => r.ref \in Name
  /\ r.pc = "enterRoom" => r.ref \in Socket /\ r.ch \in Channel

RequestsHold == \A h \in Handler : Holds(proc[h])

(* Invitations, links and public channels are ways in, and conversations   *)
(* have no links.                                                          *)
WaysIn ==
  /\ \A c \in Channel :
       /\ channel[c].type = "public" \/ link[c] # "none" => User \X {c} \subseteq admissible
       /\ link[c] # "none" => IsTeam(c)
  /\ \A i \in Invitation : invitation[i].state = "pending" =>
       <<invitation[i].who, invitation[i].ch>> \in admissible

IndInv ==
  /\ MembershipTypeOK /\ RequestsHold /\ WaysIn
  /\ OneConversationPerSet /\ MembersWereAdmitted /\ RoomsFollowMembership

---------------------------------------------------------------------------
(* Steps that write nothing but the list of requests.                      *)

(* The record of a request that is over. *)
LEMMA IdleHolds == Idle \in ProcRecord /\ Holds(Idle) /\ Idle.pc = "idle"
  BY DEF Idle, ProcRecord, Holds

(* A request that begins passed its check, and writes nothing yet. *)
LEMMA RequestBegins ==
  ASSUME IndInv, NEW h \in Handler, Request(h)
  PROVE  /\ UNCHANGED <<rows, rooms, admissible, strays>>
         /\ requests' \in 0 .. MaxRequests /\ proc[h].pc = "idle"
         /\ \E r \in ProcRecord : /\ Holds(r) /\ r.pc # "evict"
                                  /\ proc' = [proc EXCEPT ![h] = r]
<1> DEFINE Result == /\ UNCHANGED <<rows, rooms, admissible, strays>>
                     /\ requests' \in 0 .. MaxRequests /\ proc[h].pc = "idle"
                     /\ \E r \in ProcRecord : /\ Holds(r) /\ r.pc # "evict"
                                              /\ proc' = [proc EXCEPT ![h] = r]
<1> USE MembershipAssumption DEF IndInv, MembershipTypeOK
<1>1. ASSUME NEW pc, NEW u, NEW who, NEW c, NEW ref, NEW set,
             Begin(h, pc, u, who, c, ref, set), UNCHANGED <<rows, rooms, admissible, strays>>,
             [pc |-> pc, user |-> u, who |-> who, ch |-> c, ref |-> ref, set |-> set]
               \in ProcRecord,
             Holds([pc |-> pc, user |-> u, who |-> who, ch |-> c, ref |-> ref, set |-> set]),
             pc # "evict"
      PROVE  Result
  <2>1. requests' \in 0 .. MaxRequests /\ proc[h].pc = "idle"
    BY <1>1 DEF Begin
  <2>2. QED BY <1>1, <2>1 DEF Begin
<1>2. ASSUME NEW u \in User, NEW n \in Name, NEW set \in SUBSET User, BeginCreate(h, u, n, set)
      PROVE  Result
  BY <1>1, <1>2 DEF BeginCreate, Holds, ProcRecord
<1>3. ASSUME NEW u \in User, NEW c \in Channel, NEW set \in SUBSET User,
             BeginAddMembers(h, u, c, set)
      PROVE  Result
  BY <1>1, <1>3 DEF BeginAddMembers, Holds, ProcRecord
<1>4. ASSUME NEW u \in User, NEW i \in Invitation, NEW pc \in {"accept", "decline"},
             BeginAnswer(h, u, i, pc)
      PROVE  Result
  <2>1. IsTeam(invitation[i].ch) /\ invitation[i].who = u /\ invitation[i].ch \in Channel
    BY <1>4 DEF BeginAnswer, Inbox, InvitationRecord, IsTeam
  <2>2. <<u, invitation[i].ch>> \in admissible
    BY <1>4, <2>1 DEF BeginAnswer, Inbox, WaysIn
  <2>3. QED BY <1>1, <1>4, <2>1, <2>2 DEF BeginAnswer, Holds, ProcRecord
<1>5. ASSUME NEW u \in User, NEW c \in Channel, BeginJoin(h, u, c) \/ BeginAcceptLink(h, u, c)
      PROVE  Result
  <2>1. IsTeam(c) /\ <<u, c>> \in admissible
    BY <1>5 DEF BeginJoin, BeginAcceptLink, Browsable, WaysIn, IsTeam
  <2>2. QED BY <1>1, <1>5, <2>1 DEF BeginJoin, BeginAcceptLink, Holds, ProcRecord
<1>6. ASSUME NEW u \in User, NEW c \in Channel, BeginMintLink(h, u, c)
      PROVE  Result
  BY <1>1, <1>6 DEF BeginMintLink, Holds, ProcRecord
<1>7. ASSUME NEW u \in User, NEW set \in SUBSET User, BeginOpenDm(h, u, set)
      PROVE  Result
  BY <1>1, <1>7 DEF BeginOpenDm, Holds, ProcRecord
<1>8. ASSUME NEW u \in User, NEW c \in Channel, NEW p \in Patches, BeginUpdate(h, u, c, p)
      PROVE  Result
  BY <1>1, <1>8 DEF BeginUpdate, Holds, ProcRecord
<1>9. ASSUME NEW a \in User, NEW u \in User, NEW c \in Channel, BeginRemove(h, a, u, c)
      PROVE  Result
  BY <1>1, <1>9 DEF BeginRemove, Holds, ProcRecord
<1>10. ASSUME NEW s \in Socket, NEW c \in Channel, BeginEnterRoom(h, s, c)
       PROVE  Result
  BY <1>1, <1>10 DEF BeginEnterRoom, Holds, ProcRecord
<1>11. QED
  BY <1>2, <1>3, <1>4, <1>5, <1>6, <1>7, <1>8, <1>9, <1>10
     DEF Request, ChannelsController, InvitesController, InvitationsController,
         CreateChannelModal, DirectoryModal, JoinPage, InvitesModal, DetailsPanel

(* A step that changes the record of one request, none that evicts, and    *)
(* nothing else keeps the invariant.                                       *)
LEMMA RecordChanges ==
  ASSUME IndInv, NEW h \in Handler, NEW r \in ProcRecord, Holds(r), proc[h].pc # "evict",
         proc' = [proc EXCEPT ![h] = r], requests' \in 0 .. MaxRequests,
         UNCHANGED <<rows, rooms, admissible, strays>>
  PROVE  IndInv'
<1> USE DEF IndInv, rows
<1>1. MembershipTypeOK'
  BY DEF MembershipTypeOK, IsTeam
<1>2. RequestsHold'
  BY DEF MembershipTypeOK, RequestsHold, Holds, IsTeam
<1>3. WaysIn' /\ OneConversationPerSet' /\ MembersWereAdmitted'
  BY DEF WaysIn, OneConversationPerSet, MembersWereAdmitted, Conversations, IsTeam
<1>4. RoomsFollowMembership'
  BY DEF RoomsFollowMembership, At, MembershipTypeOK
<1>5. QED BY <1>1, <1>2, <1>3, <1>4

(* A request that fails, or has nobody to invite. *)
LEMMA NothingWritten ==
  ASSUME IndInv, NEW h \in Handler,
         \/ NameLost(h) \/ InviteTwice(h) \/ InvitationLost(h) \/ DmLost(h) \/ RenameLost(h)
         \/ RemoveLost(h) \/ ReadInvitees(h)
  PROVE  IndInv'
<1>1. CASE ReadInvitees(h)
  <2> DEFINE fresh == {u \in proc[h].set \ members[proc[h].ch] : Pending(proc[h].ch, u) = {}}
             r == IF fresh = {} THEN Idle
                  ELSE [proc[h] EXCEPT !.pc = "inviteEach", !.set = fresh]
  <2>1. r \in ProcRecord /\ Holds(r)
    BY <1>1, IdleHolds
       DEF ReadInvitees, At, IndInv, MembershipTypeOK, RequestsHold, Holds, ProcRecord
  <2>2. proc' = [proc EXCEPT ![h] = r]
    BY <1>1 DEF ReadInvitees
  <2>3. proc[h].pc # "evict" /\ requests' \in 0 .. MaxRequests
    BY <1>1 DEF ReadInvitees, At, IndInv, MembershipTypeOK
  <2>4. QED BY <1>1, <2>1, <2>2, <2>3, RecordChanges DEF ReadInvitees
<1>2. CASE ~ReadInvitees(h)
  <2>1. proc[h].pc # "evict" /\ Fail(h)
    BY <1>2 DEF NameLost, InviteTwice, InvitationLost, DmLost, RenameLost, RemoveLost, At
  <2>2. requests' \in 0 .. MaxRequests
    BY <2>1 DEF Fail, Finish, IndInv, MembershipTypeOK
  <2>3. QED BY <2>1, <2>2, IdleHolds, RecordChanges DEF Fail, Finish
<1>3. QED BY <1>1, <1>2

---------------------------------------------------------------------------
(* Steps that write.                                                       *)

(* What a request relies on survives every step that keeps team channels   *)
(* team channels and forgets no way in.                                    *)
LEMMA HoldingSurvives ==
  ASSUME MembershipTypeOK, RequestsHold, NEW h \in Handler, NEW r \in ProcRecord, Holds(r),
         proc' = [proc EXCEPT ![h] = r],
         \A c \in Channel : IsTeam(c) => IsTeam(c)', admissible \subseteq admissible'
  PROVE  RequestsHold'
BY DEF MembershipTypeOK, RequestsHold, Holds

(* Letting one user into a team channel he may enter, and going on. *)
LEMMA EnterKeeps ==
  ASSUME IndInv, NEW h \in Handler, AcceptInvitation(h) \/ Join(h)
  PROVE  IndInv'
<1> DEFINE r == IF Join(h) THEN Idle ELSE [proc[h] EXCEPT !.pc = "acceptDrop"]
           u == proc[h].user
           c == proc[h].ch
<1> USE DEF IndInv
<1>1. /\ u \in User /\ c \in Channel /\ IsTeam(c) /\ <<u, c>> \in admissible
      /\ proc[h] \in ProcRecord
  BY DEF AcceptInvitation, Join, At, RequestsHold, Holds, MembershipTypeOK
<1>2. /\ Enter(u, c) /\ requests' = requests /\ r \in ProcRecord /\ Holds(r)
      /\ proc' = [proc EXCEPT ![h] = r] /\ proc[h].pc # "evict" /\ r.pc # "evict"
  BY <1>1, IdleHolds
     DEF AcceptInvitation, Join, At, Goto, Finish, RequestsHold, Holds, ProcRecord,
         MembershipTypeOK
<1>3. members' = [members EXCEPT ![c] = @ \cup {u}]
  BY <1>2 DEF Enter
<1> HIDE DEF r, u, c
<1>4. UNCHANGED <<channel, invitation, link, rooms, admissible, strays>>
  BY <1>2 DEF Enter
<1>5. MembershipTypeOK'
  BY <1>1, <1>2, <1>3, <1>4 DEF MembershipTypeOK, IsTeam
<1>6. RequestsHold'
  BY <1>2, <1>4, HoldingSurvives DEF IsTeam
<1>7. WaysIn'
  BY <1>4 DEF WaysIn, IsTeam
<1>8. OneConversationPerSet'
  BY <1>1, <1>3, <1>4 DEF OneConversationPerSet, Conversations, IsTeam, MembershipTypeOK
<1>9. MembersWereAdmitted'
  BY <1>1, <1>3, <1>4 DEF MembersWereAdmitted, MembershipTypeOK
<1>10. RoomsFollowMembership'
  BY <1>1, <1>2, <1>3, <1>4, MembershipAssumption
     DEF RoomsFollowMembership, MembershipTypeOK, At
<1>11. QED BY <1>5, <1>6, <1>7, <1>8, <1>9, <1>10

(* Steps that write invitations and links, and let more users in. *)
LEMMA InvitingKeeps ==
  ASSUME IndInv, NEW h \in Handler,
         DropInvitation(h) \/ MintLink(h) \/ \E u \in User : InviteOne(h, u)
  PROVE  IndInv'
<1> USE DEF IndInv
<1>1. ASSUME UNCHANGED <<channel, members, rooms, strays, requests>>,
             admissible \subseteq admissible', admissible' \subseteq User \X Channel,
             link' \in [Channel -> {"none", "active", "expired"}],
             invitation' \in [Invitation -> InvitationRecord], WaysIn',
             \A i \in Invitation : invitation'[i].state = "pending" =>
               /\ invitation'[i].ch \in Channel /\ IsTeam(invitation'[i].ch)
               /\ invitation'[i].who \in User
               /\ \A j \in Invitation : invitation'[j] = invitation'[i] => j = i,
             NEW r \in ProcRecord, Holds(r), proc' = [proc EXCEPT ![h] = r],
             proc[h].pc # "evict"
      PROVE  IndInv'
  <2>1. MembershipTypeOK'
    BY <1>1 DEF MembershipTypeOK, IsTeam, WaysIn
  <2>2. RequestsHold'
    BY <1>1, HoldingSurvives DEF IsTeam
  <2>3. OneConversationPerSet' /\ MembersWereAdmitted'
    BY <1>1 DEF OneConversationPerSet, MembersWereAdmitted, Conversations
  <2>4. RoomsFollowMembership'
    BY <1>1 DEF RoomsFollowMembership, At, MembershipTypeOK
  <2>5. QED BY <1>1, <2>1, <2>2, <2>3, <2>4
<1>2. CASE DropInvitation(h)
  <2>1. invitation' \in [Invitation -> InvitationRecord]
    BY <1>2, MembershipAssumption
       DEF DropInvitation, NoInvite, InvitationRecord, MembershipTypeOK
  <2>2. \A i \in Invitation : invitation'[i].state = "pending" => invitation'[i] = invitation[i]
    BY <1>2 DEF DropInvitation, NoInvite, MembershipTypeOK
  <2>3. WaysIn'
    BY <1>2, <2>2 DEF DropInvitation, WaysIn, IsTeam
  <2>4. \A i \in Invitation : invitation'[i].state = "pending" =>
          \A j \in Invitation : invitation'[j] = invitation'[i] => j = i
    BY <2>2 DEF MembershipTypeOK
  <2>5. QED
    BY <1>1, <1>2, <2>1, <2>2, <2>3, <2>4, IdleHolds
       DEF DropInvitation, Finish, At, MembershipTypeOK
<1>3. CASE MintLink(h)
  <2>1. proc[h].ch \in Channel /\ IsTeam(proc[h].ch)
    BY <1>3 DEF MintLink, At, RequestsHold, Holds
  <2>2. admissible' \subseteq User \X Channel /\ admissible \subseteq admissible'
    BY <1>3, <2>1 DEF MintLink, MembershipTypeOK
  <2>3. WaysIn'
    BY <1>3, <2>1 DEF MintLink, WaysIn, IsTeam, MembershipTypeOK
  <2>4. QED
    BY <1>1, <1>3, <2>1, <2>2, <2>3, IdleHolds DEF MintLink, Finish, At, MembershipTypeOK
<1>4. ASSUME NEW u \in User, InviteOne(h, u) PROVE IndInv'
  <2> DEFINE c == proc[h].ch
             left == proc[h].set \ {u}
             r == IF left = {} THEN Idle ELSE [proc[h] EXCEPT !.set = left]
  <2>1. c \in Channel /\ IsTeam(c) /\ proc[h].pc = "inviteEach"
    BY <1>4 DEF InviteOne, At, RequestsHold, Holds
  <2>a. [proc[h] EXCEPT !.set = left] \in ProcRecord
    BY DEF ProcRecord, MembershipTypeOK
  <2>b. Holds([proc[h] EXCEPT !.set = left])
    BY <2>1 DEF Holds, ProcRecord, MembershipTypeOK
  <2>c. r \in ProcRecord /\ Holds(r) /\ proc[h].pc # "evict"
    BY <2>1, <2>a, <2>b, IdleHolds
  <2>2. PICK i \in Invitation :
          /\ invitation[i].state = "unused"
          /\ invitation' = [invitation EXCEPT ![i] =
                              [state |-> "pending", ch |-> c, who |-> u]]
    BY <1>4 DEF InviteOne
  <2>3. /\ proc' = [proc EXCEPT ![h] = r] /\ admissible' = admissible \cup {<<u, c>>}
        /\ UNCHANGED <<channel, members, link, rooms, requests, strays>> /\ Pending(c, u) = {}
    <3>1. proc' = [proc EXCEPT ![h] = r]
      BY <1>4 DEF InviteOne
    <3>2. /\ admissible' = admissible \cup {<<u, c>>} /\ Pending(c, u) = {}
          /\ UNCHANGED <<channel, members, link, rooms, requests, strays>>
      BY <1>4 DEF InviteOne
    <3>3. QED BY <3>1, <3>2
  <2> HIDE DEF c, r
  <2>4. invitation' \in [Invitation -> InvitationRecord]
    BY <2>1, <2>2 DEF InvitationRecord, MembershipTypeOK
  <2>5. admissible' \subseteq User \X Channel
    BY <2>1, <2>3 DEF MembershipTypeOK
  <2>6. WaysIn'
    BY <2>1, <2>2, <2>3 DEF WaysIn, IsTeam, MembershipTypeOK
  <2>7. ASSUME NEW j \in Invitation, invitation'[j].state = "pending"
        PROVE  /\ invitation'[j].ch \in Channel /\ IsTeam(invitation'[j].ch)
               /\ invitation'[j].who \in User
               /\ \A k \in Invitation : invitation'[k] = invitation'[j] => k = j
    BY <2>1, <2>2, <2>3, <2>7 DEF Pending, MembershipTypeOK
  <2>8. QED BY <1>1, <2>c, <2>3, <2>4, <2>5, <2>6, <2>7 DEF MembershipTypeOK
<1>5. QED BY <1>2, <1>3, <1>4

(* A free channel id is taken into use: nobody relied on it before. *)
LEMMA NewChannel ==
  ASSUME IndInv, NEW h \in Handler, NEW c \in Channel, channel[c].type = "none",
         NEW k \in ChannelRecord, NEW m \in SUBSET User, NEW r \in ProcRecord,
         k.type # "none", k.type = "dm" => m = k.key /\ Conversations(m) = {},
         r.pc = "idle" \/ (r.pc = "invite" /\ r.ch = c /\ k.type # "dm"),
         channel' = [channel EXCEPT ![c] = k], members' = [members EXCEPT ![c] = m],
         admissible \subseteq admissible', admissible' \subseteq User \X Channel,
         m \X {c} \subseteq admissible',
         k.type = "public" => User \X {c} \subseteq admissible',
         proc' = [proc EXCEPT ![h] = r], proc[h].pc # "evict",
         UNCHANGED <<invitation, link, rooms, requests, strays>>
  PROVE  IndInv'
<1> USE DEF IndInv
<1>1. \A d \in Channel : IsTeam(d) => d # c /\ IsTeam(d)'
  BY DEF IsTeam, MembershipTypeOK
<1>2. \A d \in Channel \ {c} : channel'[d] = channel[d] /\ members'[d] = members[d]
  BY DEF MembershipTypeOK
<1>3. channel'[c] = k /\ members'[c] = m /\ members[c] = {} /\ link[c] = "none"
  BY DEF MembershipTypeOK
<1>4. MembershipTypeOK'
  <2>1. (\A i \in Invitation : invitation[i].state = "pending" =>
           /\ invitation[i].ch \in Channel /\ IsTeam(invitation[i].ch)
           /\ invitation[i].who \in User
           /\ \A j \in Invitation : invitation[j] = invitation[i] => j = i)'
    BY <1>1 DEF MembershipTypeOK, IsTeam
  <2>2. QED BY <2>1, <1>2, <1>3 DEF MembershipTypeOK
<1>5. RequestsHold'
  <2>1. proc'[h] = r /\ \A g \in Handler \ {h} : proc'[g] = proc[g]
    BY DEF MembershipTypeOK
  <2>2. Holds(r)'
    BY <1>3 DEF Holds, IsTeam, ChannelRecord
  <2>3. ASSUME NEW g \in Handler \ {h} PROVE Holds(proc[g])'
    BY <1>1, <2>1 DEF RequestsHold, Holds, IsTeam
  <2>4. QED BY <2>1, <2>2, <2>3 DEF RequestsHold, Holds, IsTeam
<1>6. WaysIn'
  BY <1>1, <1>2, <1>3 DEF WaysIn, MembershipTypeOK
<1>7. OneConversationPerSet'
  BY <1>2, <1>3 DEF OneConversationPerSet, Conversations
<1>8. MembersWereAdmitted'
  BY <1>2, <1>3 DEF MembersWereAdmitted
<1>9. RoomsFollowMembership'
  BY <1>1, <1>2, <1>3 DEF RoomsFollowMembership, At, MembershipTypeOK
<1>10. QED BY <1>4, <1>5, <1>6, <1>7, <1>8, <1>9

(* A team channel with its creator as the only member, and a conversation  *)
(* with all of its members.                                                *)
LEMMA CreatingKeeps ==
  ASSUME IndInv, NEW h \in Handler,
         OpenDm(h) \/ \E type \in {"public", "private"} : CreateChannel(h, type)
  PROVE  IndInv'
<1> USE DEF IndInv
<1>1. proc[h] \in ProcRecord
  BY DEF MembershipTypeOK
<1>2. ASSUME NEW type \in {"public", "private"}, CreateChannel(h, type) PROVE IndInv'
  <2>1. PICK c \in Channel :
          /\ channel[c].type = "none"
          /\ channel' = [channel EXCEPT ![c] = [NoChannel EXCEPT
                           !.type = type, !.name = proc[h].ref, !.creator = proc[h].user]]
          /\ members' = [members EXCEPT ![c] = {proc[h].user}]
          /\ proc' = [proc EXCEPT ![h].pc = "invite", ![h].ch = c, ![h].ref = None]
          /\ admissible' = admissible \cup {<<proc[h].user, c>>}
                             \cup (IF type = "public" THEN User \X {c} ELSE {})
    BY <1>2 DEF CreateChannel
  <2> DEFINE k == [NoChannel EXCEPT
                     !.type = type, !.name = proc[h].ref, !.creator = proc[h].user]
             r == [proc[h] EXCEPT !.pc = "invite", !.ch = c, !.ref = None]
             m == {proc[h].user}
  <2>2. proc[h].pc = "create" /\ proc[h].user \in User /\ proc[h].ref \in Name
    BY <1>2 DEF CreateChannel, At, RequestsHold, Holds
  <2>3. k \in ChannelRecord /\ k.type = type
    BY <2>2 DEF ChannelRecord, NoChannel
  <2>4. r \in ProcRecord /\ r.pc = "invite" /\ r.ch = c
    BY <1>1 DEF ProcRecord
  <2>5. proc' = [proc EXCEPT ![h] = r]
    BY <2>1 DEF MembershipTypeOK
  <2>6. /\ admissible \subseteq admissible' /\ admissible' \subseteq User \X Channel
        /\ m \X {c} \subseteq admissible'
        /\ type = "public" => User \X {c} \subseteq admissible'
    BY <2>1, <2>2 DEF MembershipTypeOK
  <2>7. m \in SUBSET User /\ members' = [members EXCEPT ![c] = m]
        /\ channel' = [channel EXCEPT ![c] = k]
    BY <2>1, <2>2
  <2>8. UNCHANGED <<invitation, link, rooms, requests, strays>>
    BY <1>2 DEF CreateChannel
  <2> HIDE DEF k, r, m
  <2>9. channel[c].type = "none" /\ proc[h].pc # "evict" /\ k.type # "none" /\ k.type # "dm"
    BY <2>1, <2>2, <2>3
  <2>10. QED BY <2>3, <2>4, <2>5, <2>6, <2>7, <2>8, <2>9, NewChannel
<1>3. CASE OpenDm(h)
  <2>1. PICK c \in Channel :
          /\ channel[c].type = "none"
          /\ channel' = [channel EXCEPT ![c] = [NoChannel EXCEPT
                           !.type = "dm", !.creator = proc[h].user, !.key = proc[h].set]]
          /\ members' = [members EXCEPT ![c] = proc[h].set]
          /\ admissible' = admissible \cup (proc[h].set \X {c})
    BY <1>3 DEF OpenDm, CreateDm
  <2> DEFINE k == [NoChannel EXCEPT
                     !.type = "dm", !.creator = proc[h].user, !.key = proc[h].set]
             m == proc[h].set
  <2>2. k \in ChannelRecord /\ k.type = "dm" /\ k.key = m
    BY <1>1 DEF ChannelRecord, NoChannel, ProcRecord
  <2>3. /\ admissible \subseteq admissible' /\ admissible' \subseteq User \X Channel
        /\ m \X {c} \subseteq admissible' /\ m \in SUBSET User
    BY <1>1, <2>1 DEF MembershipTypeOK, ProcRecord
  <2>4. /\ members' = [members EXCEPT ![c] = m] /\ channel' = [channel EXCEPT ![c] = k]
        /\ Conversations(m) = {} /\ proc' = [proc EXCEPT ![h] = Idle]
        /\ proc[h].pc # "evict" /\ UNCHANGED <<invitation, link, rooms, requests, strays>>
    BY <1>3, <2>1 DEF OpenDm, CreateDm, Finish, At
  <2> HIDE DEF k, m
  <2>5. QED BY <2>1, <2>2, <2>3, <2>4, NewChannel, IdleHolds
<1>4. QED BY <1>2, <1>3

(* A change of settings leaves a team channel a team channel. *)
LEMMA UpdateKeeps ==
  ASSUME IndInv, NEW h \in Handler, UpdateChannel(h)
  PROVE  IndInv'
<1> DEFINE c == proc[h].ch
           p == proc[h].ref
           k == [channel[c] EXCEPT !.type = Given(p.type, @), !.archived = Given(p.archived, @),
                                   !.name = Given(p.name, @)]
<1> USE DEF IndInv
<1>1. c \in Channel /\ IsTeam(c) /\ p \in Patch /\ proc[h].pc = "update"
  BY MembershipAssumption DEF UpdateChannel, At, RequestsHold, Holds
<1>2. k \in ChannelRecord /\ k.type \in {"public", "private"}
  <2>1. channel[c] \in ChannelRecord /\ channel[c].type \in {"public", "private"}
    BY <1>1 DEF IsTeam, MembershipTypeOK
  <2>2. Given(p.type, channel[c].type) \in {"public", "private"}
    BY <1>1, <2>1 DEF Given, Patch
  <2>3. Given(p.archived, channel[c].archived) \in BOOLEAN
    BY <1>1, <2>1, Zenon DEF Given, Patch, ChannelRecord
  <2>4. Given(p.name, channel[c].name) \in Name \cup {None}
    BY <1>1, <2>1 DEF Given, Patch, ChannelRecord
  <2>5. QED BY <2>1, <2>2, <2>3, <2>4 DEF ChannelRecord
<1>3. k.type = "public" => p.type = "public" \/ channel[c].type = "public"
  BY <1>1 DEF Given, ChannelRecord, MembershipTypeOK
<1>4. /\ channel' = [channel EXCEPT ![c] = k] /\ proc' = [proc EXCEPT ![h] = Idle]
      /\ admissible' = IF p.type = "public" THEN admissible \cup (User \X {c}) ELSE admissible
      /\ UNCHANGED <<members, invitation, link, rooms, requests, strays>>
  BY DEF UpdateChannel, Finish
<1> HIDE DEF k, p, c
<1>5. channel'[c] = k /\ \A d \in Channel \ {c} : channel'[d] = channel[d]
  BY <1>1, <1>4 DEF MembershipTypeOK
<1>6. \A d \in Channel : IsTeam(d) <=> IsTeam(d)'
  BY <1>1, <1>2, <1>5 DEF IsTeam
<1>7. admissible \subseteq admissible' /\ admissible' \subseteq User \X Channel
  BY <1>1, <1>4 DEF MembershipTypeOK
<1>8. MembershipTypeOK'
  <2>1. (\A i \in Invitation : invitation[i].state = "pending" =>
           /\ invitation[i].ch \in Channel /\ IsTeam(invitation[i].ch)
           /\ invitation[i].who \in User
           /\ \A j \in Invitation : invitation[j] = invitation[i] => j = i)'
    BY <1>4, <1>6 DEF MembershipTypeOK, IsTeam
  <2>2. channel' \in [Channel -> ChannelRecord] /\ proc' \in [Handler -> ProcRecord]
    BY <1>2, <1>4, IdleHolds DEF MembershipTypeOK
  <2>3. QED BY <2>1, <2>2, <1>2, <1>4, <1>5, <1>7 DEF MembershipTypeOK
<1>9. RequestsHold'
  BY <1>4, <1>6, <1>7, IdleHolds, HoldingSurvives
<1>10. WaysIn'
  BY <1>1, <1>2, <1>3, <1>4, <1>5, <1>6, <1>7 DEF WaysIn, MembershipTypeOK, IsTeam
<1>11. OneConversationPerSet'
  BY <1>1, <1>2, <1>4, <1>5 DEF OneConversationPerSet, Conversations, IsTeam
<1>12. MembersWereAdmitted'
  BY <1>4, <1>7 DEF MembersWereAdmitted
<1>13. RoomsFollowMembership'
  BY <1>1, <1>4 DEF RoomsFollowMembership, At, MembershipTypeOK
<1>14. QED BY <1>8, <1>9, <1>10, <1>11, <1>12, <1>13

(* A member goes: his request is about to evict his sockets. *)
LEMMA RemoveKeeps ==
  ASSUME IndInv, NEW h \in Handler, RemoveMember(h)
  PROVE  IndInv'
<1> DEFINE c == proc[h].ch
           w == proc[h].who
           r == [proc[h] EXCEPT !.pc = "evict"]
<1> USE DEF IndInv
<1>1. c \in Channel /\ IsTeam(c) /\ w \in User /\ proc[h].pc = "remove"
  BY DEF RemoveMember, At, RequestsHold, Holds
<1>2. r \in ProcRecord /\ r.pc = "evict" /\ r.ch = c /\ r.who = w
  BY DEF ProcRecord, MembershipTypeOK
<1>3. /\ members' = [members EXCEPT ![c] = @ \ {w}] /\ proc' = [proc EXCEPT ![h] = r]
      /\ UNCHANGED <<channel, invitation, link, rooms, requests, admissible, strays>>
  BY <1>2 DEF RemoveMember, Goto, MembershipTypeOK
<1>4. Holds(r)
  BY <1>1, <1>2 DEF Holds
<1> HIDE DEF r, w, c
<1>5. MembershipTypeOK'
  BY <1>1, <1>2, <1>3 DEF MembershipTypeOK, IsTeam
<1>6. RequestsHold'
  BY <1>2, <1>3, <1>4, HoldingSurvives DEF IsTeam
<1>7. WaysIn' /\ MembersWereAdmitted'
  BY <1>1, <1>3 DEF WaysIn, IsTeam, MembersWereAdmitted, MembershipTypeOK
<1>8. OneConversationPerSet'
  BY <1>1, <1>3 DEF OneConversationPerSet, Conversations, IsTeam, MembershipTypeOK
<1>9. RoomsFollowMembership'
  BY <1>1, <1>2, <1>3, MembershipAssumption DEF RoomsFollowMembership, MembershipTypeOK, At
<1>10. QED BY <1>5, <1>6, <1>7, <1>8, <1>9

(* Steps that write nothing but the rooms: what they leave of the rooms    *)
(* has to follow the membership.                                           *)
LEMMA RoomStep ==
  ASSUME IndInv, UNCHANGED <<channel, members, invitation, link, requests, admissible>>,
         proc' \in [Handler -> ProcRecord], \A h \in Handler : proc'[h] \in {proc[h], Idle},
         rooms' \in [Socket -> SUBSET Channel], strays' \subseteq Socket \X Channel,
         RoomsFollowMembership'
  PROVE  IndInv'
<1> USE DEF IndInv
<1>1. MembershipTypeOK'
  BY DEF MembershipTypeOK, IsTeam
<1>2. RequestsHold'
  BY DEF RequestsHold, Holds, IsTeam, Idle
<1>3. WaysIn' /\ OneConversationPerSet' /\ MembersWereAdmitted'
  BY DEF WaysIn, OneConversationPerSet, MembersWereAdmitted, Conversations, IsTeam
<1>4. QED BY <1>1, <1>2, <1>3

(* Entering a room, leaving it, being evicted, and a request that dies. *)
LEMMA RoomsKeep ==
  ASSUME IndInv,
         \/ \E h \in Handler : Evict(h) \/ EnterRoom(h) \/ Lose(h)
         \/ \E s \in Socket, c \in Channel : LeaveRoom(s, c)
  PROVE  IndInv'
<1> USE MembershipAssumption DEF IndInv
<1>1. ASSUME NEW h \in Handler, Finish(h), UNCHANGED <<rows, admissible>>,
             rooms' \in [Socket -> SUBSET Channel], strays' \subseteq Socket \X Channel,
             RoomsFollowMembership'
      PROVE  IndInv'
  <2>1. proc' \in [Handler -> ProcRecord] /\ \A g \in Handler : proc'[g] \in {proc[g], Idle}
    BY <1>1, IdleHolds DEF Finish, MembershipTypeOK
  <2>2. UNCHANGED <<channel, members, invitation, link, requests, admissible>>
    BY <1>1 DEF Finish, rows
  <2>3. QED BY <1>1, <2>1, <2>2, RoomStep
<1>2. ASSUME NEW h \in Handler, Evict(h) PROVE IndInv'
  <2>1. /\ rooms' = [s \in Socket |->
                 IF UserOf[s] = proc[h].who THEN rooms[s] \ {proc[h].ch} ELSE rooms[s]]
        /\ strays' = {p \in strays : UserOf[p[1]] # proc[h].who \/ p[2] # proc[h].ch}
        /\ Finish(h) /\ UNCHANGED <<rows, admissible>>
    BY <1>2 DEF Evict
  <2>2. rooms' \in [Socket -> SUBSET Channel] /\ strays' \subseteq Socket \X Channel
    BY <2>1 DEF MembershipTypeOK
  <2>3. \A g \in Handler \ {h} : proc'[g] = proc[g]
    BY <2>1 DEF Finish, MembershipTypeOK
  <2>4. ASSUME NEW s \in Socket, NEW c \in rooms'[s]
        PROVE  \/ UserOf[s] \in members'[c]
               \/ \E g \in Handler : /\ proc'[g].pc = "evict" /\ proc'[g].who = UserOf[s]
                                     /\ proc'[g].ch = c
               \/ <<s, c>> \in strays'
    <3>1. c \in rooms[s] /\ (UserOf[s] # proc[h].who \/ c # proc[h].ch)
      BY <2>1, <2>4
    <3>2. CASE <<s, c>> \in strays
      BY <2>1, <3>1, <3>2
    <3>3. CASE <<s, c>> \notin strays
      BY <2>1, <2>3, <3>1, <3>3 DEF RoomsFollowMembership, At, rows
    <3>4. QED BY <3>2, <3>3
  <2>5. RoomsFollowMembership'
    BY <2>4 DEF RoomsFollowMembership, At
  <2>6. QED BY <1>1, <2>1, <2>2, <2>5
<1>3. ASSUME NEW h \in Handler, EnterRoom(h) PROVE IndInv'
  <2> DEFINE s == proc[h].ref
             c == proc[h].ch
  <2>1. s \in Socket /\ c \in Channel /\ proc[h].pc = "enterRoom"
    BY <1>3 DEF EnterRoom, At, RequestsHold, Holds
  <2>2. /\ rooms' = [rooms EXCEPT ![s] = @ \cup {c}]
        /\ strays' = IF UserOf[s] \in members[c] THEN strays ELSE strays \cup {<<s, c>>}
        /\ proc' = [proc EXCEPT ![h] = Idle]
        /\ Finish(h) /\ UNCHANGED <<rows, admissible>>
    BY <1>3 DEF EnterRoom, Finish
  <2> HIDE DEF s, c
  <2>3. rooms' \in [Socket -> SUBSET Channel] /\ strays' \subseteq Socket \X Channel
    BY <2>1, <2>2 DEF MembershipTypeOK
  <2>4. RoomsFollowMembership'
    BY <2>1, <2>2 DEF RoomsFollowMembership, MembershipTypeOK, At, rows
  <2>5. QED BY <1>1, <2>2, <2>3, <2>4
<1>4. ASSUME NEW h \in Handler, Lose(h) PROVE IndInv'
  <2>1. /\ strays' = IF proc[h].pc = "evict"
                     THEN strays \cup {<<s, proc[h].ch>> : s \in {t \in Socket :
                            UserOf[t] = proc[h].who /\ proc[h].ch \in rooms[t]}}
                     ELSE strays
        /\ proc' = [proc EXCEPT ![h] = Idle] /\ rooms' = rooms
        /\ Finish(h) /\ UNCHANGED <<rows, admissible>>
    BY <1>4 DEF Lose, Finish, At
  <2>2. proc[h].pc = "evict" => proc[h].ch \in Channel
    BY DEF RequestsHold, Holds
  <2>3. rooms' \in [Socket -> SUBSET Channel] /\ strays' \subseteq Socket \X Channel
    BY <2>1, <2>2 DEF MembershipTypeOK
  <2>4. ASSUME NEW s \in Socket, NEW c \in rooms[s],
               proc[h].pc = "evict", proc[h].who = UserOf[s], proc[h].ch = c
        PROVE  <<s, c>> \in strays'
    BY <2>1, <2>4
  <2>5. strays \subseteq strays'
    BY <2>1
  <2>6. RoomsFollowMembership'
    BY <2>1, <2>4, <2>5 DEF RoomsFollowMembership, MembershipTypeOK, At, rows
  <2>7. QED BY <1>1, <2>1, <2>3, <2>6
<1>5. ASSUME NEW s \in Socket, NEW c \in Channel, LeaveRoom(s, c) PROVE IndInv'
  <2>1. /\ rooms' = [rooms EXCEPT ![s] = @ \ {c}] /\ strays' = strays \ {<<s, c>>}
        /\ UNCHANGED <<channel, members, invitation, link, proc, requests, admissible>>
    BY <1>5 DEF LeaveRoom, rows
  <2>2. RoomsFollowMembership'
    BY <2>1 DEF RoomsFollowMembership, MembershipTypeOK, At
  <2>3. /\ proc' \in [Handler -> ProcRecord] /\ \A g \in Handler : proc'[g] \in {proc[g], Idle}
        /\ rooms' \in [Socket -> SUBSET Channel] /\ strays' \subseteq Socket \X Channel
    BY <2>1 DEF MembershipTypeOK
  <2>4. QED BY <2>1, <2>2, <2>3, RoomStep
<1>6. QED BY <1>2, <1>3, <1>4, <1>5

(* A link that runs out has let in whom it could. *)
LEMMA ExpiryKeeps ==
  ASSUME IndInv, NEW c \in Channel, ExpireLink(c)
  PROVE  IndInv'
<1> USE DEF IndInv, ExpireLink
<1>1. MembershipTypeOK'
  BY DEF MembershipTypeOK, IsTeam
<1>2. RequestsHold' /\ RoomsFollowMembership'
  BY DEF RequestsHold, Holds, IsTeam, RoomsFollowMembership, At
<1>3. WaysIn'
  BY DEF WaysIn, IsTeam, MembershipTypeOK
<1>4. OneConversationPerSet' /\ MembersWereAdmitted'
  BY DEF OneConversationPerSet, MembersWereAdmitted, Conversations
<1>5. QED BY <1>1, <1>2, <1>3, <1>4

---------------------------------------------------------------------------
(* The invariant.                                                          *)

(* At first there is the default channel, and everybody is in it. *)
LEMMA InitIndInv == MembershipInit => IndInv
<1> SUFFICES ASSUME MembershipInit PROVE IndInv
  OBVIOUS
<1> USE MembershipAssumption DEF MembershipInit
<1>1. MembershipTypeOK
  <2>1. /\ NoChannel \in ChannelRecord /\ [NoChannel EXCEPT !.type = "public"] \in ChannelRecord
        /\ NoInvite \in InvitationRecord /\ NoInvite.state = "unused"
    BY DEF NoChannel, ChannelRecord, NoInvite, InvitationRecord
  <2>2. \A c \in Channel : channel[c].type = "none" => c # home
    BY DEF NoChannel
  <2>3. admissible \subseteq User \X Channel /\ requests \in 0 .. MaxRequests
    OBVIOUS
  <2>4. QED BY <2>1, <2>2, <2>3, IdleHolds DEF MembershipTypeOK
<1>2. RequestsHold
  BY IdleHolds DEF RequestsHold
<1>3. WaysIn /\ MembersWereAdmitted /\ OneConversationPerSet /\ RoomsFollowMembership
  BY DEF WaysIn, MembersWereAdmitted, OneConversationPerSet, RoomsFollowMembership, IsTeam,
         NoChannel, NoInvite
<1>4. QED BY <1>1, <1>2, <1>3 DEF IndInv

(* Every step keeps it. *)
LEMMA StepIndInv == IndInv /\ [MembershipNext]_vars => IndInv'
<1> SUFFICES ASSUME IndInv, [MembershipNext]_vars PROVE IndInv'
  OBVIOUS
<1>1. ASSUME NEW h \in Handler, Request(h) PROVE IndInv'
  <2>1. PICK r \in ProcRecord : Holds(r) /\ proc' = [proc EXCEPT ![h] = r]
    BY <1>1, RequestBegins
  <2>2. /\ UNCHANGED <<rows, rooms, admissible, strays>>
        /\ requests' \in 0 .. MaxRequests /\ proc[h].pc # "evict"
    BY <1>1, RequestBegins
  <2>3. QED BY <2>1, <2>2, RecordChanges
<1>2. ASSUME NEW h \in Handler, Handle(h) \/ Lose(h) PROVE IndInv'
  BY <1>2, NothingWritten, EnterKeeps, InvitingKeeps, CreatingKeeps, UpdateKeeps,
     RemoveKeeps, RoomsKeep
     DEF Handle
<1>3. ASSUME NEW c \in Channel, ExpireLink(c) \/ \E s \in Socket : LeaveRoom(s, c)
      PROVE  IndInv'
  BY <1>3, ExpiryKeeps, RoomsKeep
<1>4. CASE UNCHANGED vars
  BY <1>4 DEF vars, rows, IndInv, MembershipTypeOK, IsTeam, RequestsHold, Holds, WaysIn,
              OneConversationPerSet, Conversations, MembersWereAdmitted,
              RoomsFollowMembership, At
<1>5. QED BY <1>1, <1>2, <1>3, <1>4 DEF MembershipNext

(* The inductive invariant holds in every reachable state. *)
LEMMA AlwaysIndInv == MembershipSpec => []IndInv
BY InitIndInv, StepIndInv, PTL DEF MembershipSpec

(* Every row, room and request has its form; a pending invitation is the   *)
(* only one of its user and channel, and leads into a team channel.        *)
THEOREM MembershipTypeCorrect == MembershipSpec => []MembershipTypeOK
<1>1. IndInv => MembershipTypeOK
  BY DEF IndInv
<1>2. QED BY <1>1, AlwaysIndInv, PTL

(* Whoever opens a conversation, and however late he writes, there is one  *)
(* per set of members and it has these members (channels.service.ts:326). *)
THEOREM OneConversationPerSetAlways == MembershipSpec => []OneConversationPerSet
<1>1. IndInv => OneConversationPerSet
  BY DEF IndInv
<1>2. QED BY <1>1, AlwaysIndInv, PTL

(* No interleaving of joins, invitations, links and settings lets a user   *)
(* into a channel that he never had a way into.                            *)
THEOREM MembersWereAdmittedAlways == MembershipSpec => []MembersWereAdmitted
<1>1. IndInv => MembersWereAdmitted
  BY DEF IndInv
<1>2. QED BY <1>1, AlwaysIndInv, PTL

(* A socket in the room of a channel that its user is not in is about to   *)
(* be evicted, or got there by one of the two races of the code.           *)
THEOREM RoomsFollowMembershipAlways == MembershipSpec => []RoomsFollowMembership
<1>1. IndInv => RoomsFollowMembership
  BY DEF IndInv
<1>2. QED BY <1>1, AlwaysIndInv, PTL
=============================================================================
