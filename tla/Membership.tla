----------------------------- MODULE Membership -----------------------------
(***************************************************************************)
(* ChannelsService and the room handlers of ChatGateway: who belongs to    *)
(* which channel, who is invited, and which sockets hear it.               *)
(*                                                                         *)
(* Every REST call checks first and writes later; the steps of different   *)
(* calls interleave and nothing is locked between them.  What the database *)
(* itself guards are its unique keys: a channel's name, the dm_key of a    *)
(* conversation, one membership and one invitation per channel and user.   *)
(* A socket hears a channel while it is in the channel's room, which it    *)
(* enters after a look-up of the membership and leaves when it is evicted. *)
(*                                                                         *)
(* The posting policy and the archive's effect on messages are in Posting, *)
(* the system notices and the clean-ups of a removal in Unreads.           *)
(***************************************************************************)
EXTENDS Naturals, FiniteSets

CONSTANTS User,        \* members of the workspace
          Admin,       \* its owner and admins
          Channel,     \* channel ids
          home,        \* the default channel
          Name,        \* channel names
          Invitation,  \* ids of channel_invitations rows
          Socket,      \* connected clients
          UserOf,      \* the user of a socket
          Handler,     \* requests under way
          Patches,     \* the settings a client may ask for
          MaxRequests, \* bound on the requests of a behaviour
          None

(* What a client may ask of a channel's settings; None is left as it is. *)
Patch == [type : {None, "public", "private"}, archived : {None} \cup BOOLEAN,
          name : Name \cup {None}]

ASSUME MembershipAssumption ==
  /\ Patches \subseteq Patch /\ Admin \subseteq User /\ home \in Channel
  /\ UserOf \in [Socket -> User] /\ MaxRequests \in Nat
  /\ None \notin User \cup Channel \cup Name \cup Invitation \cup Socket

VARIABLES channel,     \* the Channel rows
          members,     \* the ChannelMember rows of each channel
          invitation,  \* the ChannelInvitation rows
          link,        \* the share link of each channel: none, active or expired
          rooms,       \* the channel rooms each socket is in
          proc,        \* the requests under way
          requests,    \* how many requests were made
          admissible,  \* history: who was ever given a way into a channel
          strays       \* history: sockets that got or stayed in by a race

rows == <<channel, members, invitation, link>>
vars == <<rows, rooms, proc, requests, admissible, strays>>

ChannelRecord == [type : {"none", "public", "private", "dm"}, name : Name \cup {None},
                  archived : BOOLEAN, creator : User \cup {None}, key : SUBSET User]
ProcRecord == [pc : {"idle", "create", "invite", "inviteEach", "accept", "acceptDrop", "decline",
                     "join", "openDm", "update", "remove", "evict", "mintLink", "enterRoom"},
               user : User \cup {None}, who : User \cup {None}, ch : Channel \cup {None},
               ref : Name \cup Invitation \cup Socket \cup Patches \cup {None},
               set : SUBSET User]
InvitationRecord == [state : {"unused", "pending", "gone"}, ch : Channel \cup {None},
                     who : User \cup {None}]

NoChannel == [type |-> "none", name |-> None, archived |-> FALSE, creator |-> None, key |-> {}]
Idle      == [pc |-> "idle", user |-> None, who |-> None, ch |-> None, ref |-> None, set |-> {}]
NoInvite  == [state |-> "unused", ch |-> None, who |-> None]

IsTeam(c) == channel[c].type \in {"public", "private"}

MembershipTypeOK ==
  /\ channel \in [Channel -> ChannelRecord]
  /\ members \in [Channel -> SUBSET User]
  /\ invitation \in [Invitation -> InvitationRecord]
  /\ link \in [Channel -> {"none", "active", "expired"}]
  /\ rooms \in [Socket -> SUBSET Channel]
  /\ proc \in [Handler -> ProcRecord] /\ requests \in 0 .. MaxRequests
  /\ admissible \subseteq User \X Channel /\ strays \subseteq Socket \X Channel
  /\ \A c \in Channel : channel[c].type = "none" => members[c] = {} /\ link[c] = "none"
  /\ \A i \in Invitation : invitation[i].state = "pending" =>
       /\ invitation[i].ch \in Channel /\ IsTeam(invitation[i].ch)
       /\ invitation[i].who \in User
       /\ \A j \in Invitation : invitation[j] = invitation[i] => j = i

MembershipInit ==
  /\ channel = [c \in Channel |->
                  IF c = home THEN [NoChannel EXCEPT !.type = "public"] ELSE NoChannel]
  /\ members = [c \in Channel |-> IF c = home THEN User ELSE {}]
  /\ invitation = [i \in Invitation |-> NoInvite]
  /\ link = [c \in Channel |-> "none"]
  /\ rooms = [s \in Socket |-> {}]
  /\ proc = [h \in Handler |-> Idle] /\ requests = 0
  /\ admissible = User \X {home} /\ strays = {}

---------------------------------------------------------------------------
(* What the queries see.                                                   *)

(* canManageChannel: the creator or a workspace admin. *)
CanManage(c, u) == channel[c].creator = u \/ u \in Admin

(* Defect: any channel can be joined by its id. *)
BrowsablePrivate == {c \in Channel : IsTeam(c) /\ ~channel[c].archived}

(* browsePublic lists these, and join accepts no others. *)
Browsable == {c \in Channel : channel[c].type = "public" /\ ~channel[c].archived}

Pending(c, u) == {i \in Invitation : /\ invitation[i].state = "pending"
                                     /\ invitation[i].ch = c /\ invitation[i].who = u}

(* listInvitations: the inbox of a user. *)
Inbox(u) == {i \in Invitation : invitation[i].state = "pending" /\ invitation[i].who = u}

NameTaken(n)  == \E c \in Channel : channel[c].type # "none" /\ channel[c].name = n
Conversations(set) == {c \in Channel : channel[c].type = "dm" /\ channel[c].key = set}

(* A request begins with a check that passed and remembers what to write. *)
Begin(h, pc, u, who, c, ref, set) ==
  /\ proc[h].pc = "idle" /\ requests < MaxRequests
  /\ requests' = requests + 1
  /\ proc' = [proc EXCEPT ![h] = [pc |-> pc, user |-> u, who |-> who, ch |-> c,
                                  ref |-> ref, set |-> set]]

At(h, pc) == proc[h].pc = pc
Goto(h, pc) == proc' = [proc EXCEPT ![h].pc = pc] /\ UNCHANGED requests
Finish(h) == proc' = [proc EXCEPT ![h] = Idle] /\ UNCHANGED requests

(* A write that violates a unique key or finds its row gone ends in an error. *)
Fail(h) == Finish(h) /\ UNCHANGED <<rows, rooms, admissible, strays>>

Enter(u, c) ==
  /\ members' = [members EXCEPT ![c] = @ \cup {u}]
  /\ UNCHANGED <<channel, invitation, link, rooms, admissible, strays>>

---------------------------------------------------------------------------
(* Creating a channel and inviting to it.                                  *)

BeginCreate(h, u, n, set) ==
  /\ ~NameTaken(n)
  /\ Begin(h, "create", u, None, None, n, set \ {u})
  /\ UNCHANGED <<rows, rooms, admissible, strays>>

(* The creator alone joins; the others are invited. *)
CreateChannel(h, type) ==
  /\ At(h, "create") /\ ~NameTaken(proc[h].ref)
  /\ \E c \in {d \in Channel : channel[d].type = "none"} :
       /\ channel' = [channel EXCEPT ![c] = [NoChannel EXCEPT
                        !.type = type, !.name = proc[h].ref, !.creator = proc[h].user]]
       /\ members' = [members EXCEPT ![c] = {proc[h].user}]
       /\ proc' = [proc EXCEPT ![h].pc = "invite", ![h].ch = c, ![h].ref = None]
       /\ admissible' = admissible \cup {<<proc[h].user, c>>}
                          \cup (IF type = "public" THEN User \X {c} ELSE {})
  /\ UNCHANGED <<invitation, link, rooms, requests, strays>>

NameLost(h) == At(h, "create") /\ NameTaken(proc[h].ref) /\ Fail(h)

(* "Any existing member may add people": of a channel that is not archived. *)
BeginAddMembers(h, u, c, set) ==
  /\ u \in members[c] /\ IsTeam(c) /\ ~channel[c].archived
  /\ Begin(h, "invite", u, None, c, None, set)
  /\ UNCHANGED <<rows, rooms, admissible, strays>>

(* Members and pending invitees are skipped, as they are at this moment. *)
ReadInvitees(h) ==
  /\ At(h, "invite")
  /\ LET fresh == {u \in proc[h].set \ members[proc[h].ch] : Pending(proc[h].ch, u) = {}}
     IN proc' = [proc EXCEPT ![h] = IF fresh = {} THEN Idle
                                    ELSE [@ EXCEPT !.pc = "inviteEach", !.set = fresh]]
  /\ UNCHANGED <<rows, rooms, requests, admissible, strays>>

(* Defect: invitations have no unique key. *)
InviteAgain(h, u) ==
  /\ At(h, "inviteEach") /\ u \in proc[h].set
  /\ \E i \in Invitation :
       /\ invitation[i].state = "unused"
       /\ invitation' = [invitation EXCEPT ![i] =
                           [state |-> "pending", ch |-> proc[h].ch, who |-> u]]
  /\ LET left == proc[h].set \ {u}
     IN proc' = [proc EXCEPT ![h] = IF left = {} THEN Idle ELSE [@ EXCEPT !.set = left]]
  /\ admissible' = admissible \cup {<<u, proc[h].ch>>}
  /\ UNCHANGED <<channel, members, link, rooms, requests, strays>>

(* One row after the other; a duplicate ends the loop, the rest uninvited. *)
InviteOne(h, u) ==
  /\ At(h, "inviteEach") /\ u \in proc[h].set /\ Pending(proc[h].ch, u) = {}
  /\ \E i \in Invitation :
       /\ invitation[i].state = "unused"
       /\ invitation' = [invitation EXCEPT ![i] =
                           [state |-> "pending", ch |-> proc[h].ch, who |-> u]]
  /\ LET left == proc[h].set \ {u}
     IN proc' = [proc EXCEPT ![h] = IF left = {} THEN Idle ELSE [@ EXCEPT !.set = left]]
  /\ admissible' = admissible \cup {<<u, proc[h].ch>>}
  /\ UNCHANGED <<channel, members, link, rooms, requests, strays>>

InviteTwice(h) ==
  /\ At(h, "inviteEach") /\ \E u \in proc[h].set : Pending(proc[h].ch, u) # {}
  /\ Fail(h)

---------------------------------------------------------------------------
(* The ways in.                                                            *)

BeginAnswer(h, u, i, pc) ==
  /\ i \in Inbox(u)
  /\ Begin(h, pc, u, None, invitation[i].ch, i, {})
  /\ UNCHANGED <<rows, rooms, admissible, strays>>

(* acceptInvitation inserts the membership, then deletes the invitation. *)
AcceptInvitation(h) ==
  /\ At(h, "accept") /\ Enter(proc[h].user, proc[h].ch) /\ Goto(h, "acceptDrop")

(* The last statement of accepting and of declining: deleting the row,     *)
(* which fails when the other one was faster.                              *)
DropInvitation(h) ==
  /\ At(h, "acceptDrop") \/ At(h, "decline")
  /\ invitation[proc[h].ref].state = "pending"
  /\ invitation' = [invitation EXCEPT ![proc[h].ref] = [NoInvite EXCEPT !.state = "gone"]]
  /\ Finish(h)
  /\ UNCHANGED <<channel, members, link, rooms, admissible, strays>>

InvitationLost(h) ==
  /\ At(h, "acceptDrop") \/ At(h, "decline")
  /\ invitation[proc[h].ref].state = "gone" /\ Fail(h)

BeginJoin(h, u, c) ==
  /\ c \in Browsable
  /\ Begin(h, "join", u, None, c, None, {})
  /\ UNCHANGED <<rows, rooms, admissible, strays>>

(* findValidInvite: "The token itself is the authorization". *)
BeginAcceptLink(h, u, c) ==
  /\ link[c] = "active" /\ ~channel[c].archived
  /\ Begin(h, "join", u, None, c, None, {})
  /\ UNCHANGED <<rows, rooms, admissible, strays>>

(* The upsert that join and acceptInvite share. *)
Join(h) == At(h, "join") /\ Enter(proc[h].user, proc[h].ch) /\ Finish(h)

BeginMintLink(h, u, c) ==
  /\ u \in members[c] /\ IsTeam(c) /\ ~channel[c].archived /\ link[c] # "active"
  /\ Begin(h, "mintLink", u, None, c, None, {})
  /\ UNCHANGED <<rows, rooms, admissible, strays>>

MintLink(h) ==
  /\ At(h, "mintLink")
  /\ link' = [link EXCEPT ![proc[h].ch] = "active"]
  /\ admissible' = admissible \cup (User \X {proc[h].ch})
  /\ Finish(h)
  /\ UNCHANGED <<channel, members, invitation, rooms, strays>>

ExpireLink(c) ==
  /\ link[c] = "active" /\ link' = [link EXCEPT ![c] = "expired"]
  /\ UNCHANGED <<channel, members, invitation, rooms, proc, requests, admissible, strays>>

---------------------------------------------------------------------------
(* Direct messages.                                                        *)

BeginOpenDm(h, u, set) ==
  /\ u \in set /\ Cardinality(set) >= 2 /\ Conversations(set) = {}
  /\ Begin(h, "openDm", u, None, None, None, set)
  /\ UNCHANGED <<rows, rooms, admissible, strays>>

CreateDm(h) ==
  \E c \in {d \in Channel : channel[d].type = "none"} :
    /\ channel' = [channel EXCEPT ![c] = [NoChannel EXCEPT
                     !.type = "dm", !.creator = proc[h].user, !.key = proc[h].set]]
    /\ members' = [members EXCEPT ![c] = proc[h].set]
    /\ admissible' = admissible \cup (proc[h].set \X {c})
    /\ Finish(h)
    /\ UNCHANGED <<invitation, link, rooms, strays>>

(* Defect: no unique dm_key, so only the look-up guards the conversation. *)
OpenDmTwice(h) == At(h, "openDm") /\ CreateDm(h)

(* dm_key is unique: the slower of two first openings fails. *)
OpenDm(h) == At(h, "openDm") /\ Conversations(proc[h].set) = {} /\ CreateDm(h)

DmLost(h) == At(h, "openDm") /\ Conversations(proc[h].set) # {} /\ Fail(h)

---------------------------------------------------------------------------
(* Settings and removal.                                                   *)

(* The default channel is neither archived nor made private, and a new     *)
(* name must be free.                                                      *)
BeginUpdate(h, u, c, p) ==
  /\ IsTeam(c) /\ CanManage(c, u)
  /\ c = home => p.archived # TRUE /\ p.type # "private"
  /\ p.name # None /\ p.name # channel[c].name => ~NameTaken(p.name)
  /\ Begin(h, "update", u, None, c, p, {})
  /\ UNCHANGED <<rows, rooms, admissible, strays>>

Given(new, old) == IF new = None THEN old ELSE new

UpdateChannel(h) ==
  LET c == proc[h].ch  p == proc[h].ref  old == channel[c] IN
  /\ At(h, "update")
  /\ p.name \in {None, old.name} \/ ~NameTaken(p.name)
  /\ channel' = [channel EXCEPT ![c] = [old EXCEPT
                   !.type = Given(p.type, @), !.archived = Given(p.archived, @),
                   !.name = Given(p.name, @)]]
  /\ admissible' = IF p.type = "public" THEN admissible \cup (User \X {c}) ELSE admissible
  /\ Finish(h)
  /\ UNCHANGED <<members, invitation, link, rooms, strays>>

RenameLost(h) ==
  LET p == proc[h].ref IN
  /\ At(h, "update") /\ p.name \notin {None, channel[proc[h].ch].name} /\ NameTaken(p.name)
  /\ Fail(h)

(* Leaving is always allowed, removing others needs manage rights; nobody  *)
(* leaves a direct message or the default channel.                         *)
BeginRemove(h, actor, u, c) ==
  /\ IsTeam(c) /\ c # home /\ u \in members[c]
  /\ actor = u \/ CanManage(c, actor)
  /\ Begin(h, "remove", actor, u, c, None, {})
  /\ UNCHANGED <<rows, rooms, admissible, strays>>

(* Defect: the removal ends without an eviction. *)
RemoveWithoutEviction(h) ==
  /\ At(h, "remove") /\ proc[h].who \in members[proc[h].ch]
  /\ members' = [members EXCEPT ![proc[h].ch] = @ \ {proc[h].who}]
  /\ Finish(h)
  /\ UNCHANGED <<channel, invitation, link, rooms, admissible, strays>>

RemoveMember(h) ==
  /\ At(h, "remove") /\ proc[h].who \in members[proc[h].ch]
  /\ members' = [members EXCEPT ![proc[h].ch] = @ \ {proc[h].who}]
  /\ Goto(h, "evict")
  /\ UNCHANGED <<channel, invitation, link, rooms, admissible, strays>>

RemoveLost(h) == At(h, "remove") /\ proc[h].who \notin members[proc[h].ch] /\ Fail(h)

(* evictFromChannel: every socket of the user leaves the room, whatever    *)
(* the membership is by now.                                               *)
Evict(h) ==
  /\ At(h, "evict")
  /\ rooms' = [s \in Socket |->
                 IF UserOf[s] = proc[h].who THEN rooms[s] \ {proc[h].ch} ELSE rooms[s]]
  /\ strays' = {p \in strays : UserOf[p[1]] # proc[h].who \/ p[2] # proc[h].ch}
  /\ Finish(h)
  /\ UNCHANGED <<rows, admissible>>

---------------------------------------------------------------------------
(* Rooms.                                                                  *)

(* onRoomJoin looks the membership up, then enters the room. *)
BeginEnterRoom(h, s, c) ==
  /\ UserOf[s] \in members[c]
  /\ Begin(h, "enterRoom", UserOf[s], None, c, s, {})
  /\ UNCHANGED <<rows, rooms, admissible, strays>>

EnterRoom(h) ==
  LET s == proc[h].ref  c == proc[h].ch IN
  /\ At(h, "enterRoom")
  /\ rooms' = [rooms EXCEPT ![s] = @ \cup {c}]
  /\ strays' = IF UserOf[s] \in members[c] THEN strays ELSE strays \cup {<<s, c>>}
  /\ Finish(h)
  /\ UNCHANGED <<rows, admissible>>

LeaveRoom(s, c) ==
  /\ c \in rooms[s] /\ rooms' = [rooms EXCEPT ![s] = @ \ {c}]
  /\ strays' = strays \ {<<s, c>>}
  /\ UNCHANGED <<rows, proc, requests, admissible>>

(* A request dies at an await; a removal that had deleted the row leaves   *)
(* the sockets of the removed user in the room.                            *)
Lose(h) ==
  /\ proc[h].pc # "idle"
  /\ strays' = IF At(h, "evict")
               THEN strays \cup {<<s, proc[h].ch>> : s \in {t \in Socket :
                      UserOf[t] = proc[h].who /\ proc[h].ch \in rooms[t]}}
               ELSE strays
  /\ Finish(h) /\ UNCHANGED <<rows, rooms, admissible>>

---------------------------------------------------------------------------
(* What the pages ask for.  Two of the requests no page sends: joining a    *)
(* public channel, and opening a conversation of more than two.            *)
CreateChannelModal(h, u) == \E n \in Name, set \in SUBSET User : BeginCreate(h, u, n, set)
DirectoryModal(h, u)     == \E set \in SUBSET User : BeginOpenDm(h, u, set)
JoinPage(h, u)           == \E c \in Channel : BeginAcceptLink(h, u, c)
InvitesModal(h, u) ==
  \E i \in Invitation : BeginAnswer(h, u, i, "accept") \/ BeginAnswer(h, u, i, "decline")
DetailsPanel(h, u, c) ==
  \/ \E set \in (SUBSET User) \ {{}} : BeginAddMembers(h, u, c, set)
  \/ \E p \in Patches : BeginUpdate(h, u, c, p)
  \/ \E w \in User : BeginRemove(h, u, w, c)
  \/ BeginMintLink(h, u, c)

ChannelsController(h) ==
  \E u \in User :
    \/ CreateChannelModal(h, u) \/ DirectoryModal(h, u)
    \/ \E c \in Channel : DetailsPanel(h, u, c) \/ BeginJoin(h, u, c)

InvitesController(h)     == \E u \in User : JoinPage(h, u)
InvitationsController(h) == \E u \in User : InvitesModal(h, u)

Request(h) ==
  \/ ChannelsController(h) \/ InvitesController(h) \/ InvitationsController(h)
  \/ \E s \in Socket, c \in Channel : BeginEnterRoom(h, s, c)

Handle(h) ==
  \/ \E type \in {"public", "private"} : CreateChannel(h, type)
  \/ ReadInvitees(h) \/ \E u \in User : InviteOne(h, u)
  \/ AcceptInvitation(h) \/ DropInvitation(h) \/ Join(h) \/ MintLink(h)
  \/ OpenDm(h) \/ UpdateChannel(h) \/ RemoveMember(h) \/ Evict(h) \/ EnterRoom(h)
  \/ NameLost(h) \/ InviteTwice(h) \/ InvitationLost(h) \/ DmLost(h) \/ RenameLost(h)
  \/ RemoveLost(h)

MembershipNext ==
  \/ \E h \in Handler : Request(h) \/ Handle(h) \/ Lose(h)
  \/ \E c \in Channel : ExpireLink(c) \/ \E s \in Socket : LeaveRoom(s, c)

MembershipSpec == MembershipInit /\ [][MembershipNext]_vars

---------------------------------------------------------------------------
(* Properties.                                                             *)

(* dm_key "guarantees exactly one conversation per member set"             *)
(* (channels.service.ts:326-329): two users who open it at the same moment *)
(* get one row, and afterwards no handler, whatever it had checked before, *)
(* changes who belongs to it.                                              *)
OneConversationPerSet ==
  \A c \in Channel : channel[c].type = "dm" =>
    /\ members[c] = channel[c].key
    /\ Conversations(channel[c].key) = {c}

(* Nobody gets into a private channel on his own: a member is its creator, *)
(* was invited, could use a share link, or came while it was public, even  *)
(* when settings change between the check and the insert of a join         *)
(* (channels.service.ts:308-324, 608-635).                                 *)
MembersWereAdmitted ==
  \A c \in Channel : members[c] \X {c} \subseteq admissible

(* "Room membership IS authorization" (chat.gateway.ts:115): a socket      *)
(* hears a channel its user does not belong to only while the removal is   *)
(* about to evict it, or as one of the strays: those whose look-up was     *)
(* overtaken by the removal, or whose removal died before the eviction.    *)
RoomsFollowMembership ==
  \A s \in Socket : \A c \in rooms[s] :
    \/ UserOf[s] \in members[c]
    \/ \E h \in Handler : At(h, "evict") /\ proc[h].who = UserOf[s] /\ proc[h].ch = c
    \/ <<s, c>> \in strays
=============================================================================
