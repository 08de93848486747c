------------------------------ MODULE Unreads ------------------------------
(***************************************************************************)
(* Read pointers, unread state and notifications of one channel.           *)
(*                                                                         *)
(* A message is stamped when its transaction inserts it and becomes        *)
(* visible when the transaction commits, so rows may become visible out of *)
(* stamp order.  After the commit a send fans out notifications in a       *)
(* detached task: it reads the members, inserts a row per recipient and is *)
(* never awaited.  Meanwhile readers mark the channel read (pointer first, *)
(* notifications second), messages are deleted, and members leave, each in *)
(* steps of their own.  Idempotency, threads and files of a send are the   *)
(* subject of module Posting.                                              *)
(***************************************************************************)
EXTENDS Naturals, FiniteSets

CONSTANTS User,       \* workspace users
          Msg,        \* the posts that may be made; a row is named by its post
          Mark,       \* HTTP calls of POST /channels/:id/read
          Kinds,      \* kinds of posts users make: a subset of {"send", "forward"}
          Audiences,  \* the sets of users a message may address: nobody for
                      \* plain text, some by @mention, all by @channel or in a DM
          Readers,  \* the users who mark the channel read
          Leavers,    \* the users who may be removed; nobody leaves a DM
          MaxTime,    \* bound: the last time stamp handed out
          MaxDeleted, \* bound: how many messages are deleted
          None

ASSUME UnreadsAssumption ==
  /\ Kinds \subseteq {"send", "forward"}
  /\ Audiences \subseteq SUBSET User
  /\ Readers \subseteq User /\ Leavers \subseteq User
  /\ MaxTime \in Nat /\ MaxDeleted \in Nat
  /\ None \notin User \cup Msg

VARIABLES clock,         \* the latest stamp, 0 before the first message
          members,       \* users with a ChannelMember row
          lastReadAt,    \* ChannelMember.lastReadAt, 0 for null or no row
          lastMessageAt, \* Channel.lastMessageAt, 0 for null
          post,          \* the posts in flight and done
          rows,          \* posts whose Message row is visible
          deleted,       \* rows with deletedAt
          notif,         \* the Notification row of a user for a message
          mark,          \* the mark-read calls
          leaving,       \* the step each user's removal handler is at
          clearing,      \* deleted messages whose clearForMessage is pending
          overtaken,     \* history: rows stamped after a later write of lastMessageAt
          setBack,       \* history: users whose own slow send moved their pointer back
          left           \* history: users who have been removed at some time

vars == <<clock, members, lastReadAt, lastMessageAt, post, rows, deleted, notif,
          mark, leaving, clearing, overtaken, setBack, left>>

Time == 0 .. MaxTime

PostRecord == [pc       : {"idle", "inTx", "stored", "fanout", "insert", "done", "failed"},
               kind     : {"none", "send", "forward", "system"},
               author   : User \cup {None},
               at       : Time,
               audience : SUBSET User]

MarkRecord == [pc : {"idle", "advance", "clear", "done", "lost"},
               user : User \cup {None},
               at : Time]

NoPost == [pc |-> "idle", kind |-> "none", author |-> None, at |-> 0, audience |-> {}]

NoMark == [pc |-> "idle", user |-> None, at |-> 0]

TypeOK ==
  /\ clock \in Time
  /\ members \subseteq User
  /\ lastReadAt \in [User -> Time]
  /\ lastMessageAt \in Time
  /\ post \in [Msg -> PostRecord]
  /\ rows \subseteq Msg
  /\ deleted \subseteq rows
  /\ notif \in [User -> [Msg -> {"none", "unread", "read"}]]
  /\ mark \in [Mark -> MarkRecord]
  /\ leaving \in [User -> {"no", "announce", "touch", "clear"}]
  /\ clearing \subseteq deleted
  /\ overtaken \subseteq rows
  /\ setBack \subseteq User
  /\ left \subseteq User

Init ==
  /\ clock = 0
  /\ members = User
  /\ lastReadAt = [u \in User |-> 0]
  /\ lastMessageAt = 0
  /\ post = [m \in Msg |-> NoPost]
  /\ rows = {} /\ deleted = {}
  /\ notif = [u \in User |-> [m \in Msg |-> "none"]]
  /\ mark = [k \in Mark |-> NoMark]
  /\ leaving = [u \in User |-> "no"]
  /\ clearing = {} /\ overtaken = {} /\ setBack = {} /\ left = {}

---------------------------------------------------------------------------
(* What the server answers.                                                *)

(* computeState and getUnreads, for a member. *)
HasUnread(u) == lastMessageAt > lastReadAt[u]

(* The mentionCount badge. *)
Badge(u) == {m \in Msg : notif[u][m] = "unread"}

(* Stamps never decrease; two inserts in the same millisecond share one. *)
Stamp(t) == t \in {clock, clock + 1} /\ t \in 1 .. MaxTime /\ clock' = t

(* Defect: a write is skipped when it would not change an unread channel. *)
TouchOnce(t) ==
  /\ lastMessageAt' = IF lastMessageAt = 0 THEN t ELSE lastMessageAt
  /\ overtaken' = overtaken \cup {m \in rows : post[m].at > t}

(* The write of lastMessageAt by the transaction of a row stamped t. *)
Touch(t) ==
  /\ lastMessageAt' = t
  /\ overtaken' = overtaken \cup {m \in rows : post[m].at > t}

---------------------------------------------------------------------------
(* Posting.                                                                *)

(* The handler passed its checks and inserts its row, still uncommitted. *)
OpenPost(m, kind, u, audience) ==
  /\ post[m].pc = "idle"
  /\ u \in members
  /\ \E t \in Time :
       /\ Stamp(t)
       /\ post' = [post EXCEPT ![m] =
            [pc |-> "inTx", kind |-> kind, author |-> u, at |-> t, audience |-> audience]]
  /\ UNCHANGED <<members, lastReadAt, lastMessageAt, rows, deleted, notif, mark,
                 leaving, clearing, overtaken, setBack, left>>

(* A send commits: the row, lastMessageAt and the author's own pointer.  *)
(* The pointer is assigned, not advanced.                                *)
CommitSend(m) ==
  /\ post[m].pc = "inTx" /\ post[m].kind = "send"
  /\ post[m].author \in members
  /\ rows' = rows \cup {m}
  /\ Touch(post[m].at)
  /\ lastReadAt' = [lastReadAt EXCEPT ![post[m].author] = post[m].at]
  /\ setBack' = IF post[m].at < lastReadAt[post[m].author]
                THEN setBack \cup {post[m].author} ELSE setBack
  /\ post' = [post EXCEPT ![m].pc = "fanout"]
  /\ UNCHANGED <<clock, members, deleted, notif, mark, leaving, clearing, left>>

(* The update of the author's membership finds no row: rolled back. *)
AbortSend(m) ==
  /\ post[m].pc = "inTx" /\ post[m].kind = "send"
  /\ post[m].author \notin members
  /\ post' = [post EXCEPT ![m] = [NoPost EXCEPT !.pc = "failed"]]
  /\ UNCHANGED <<clock, members, lastReadAt, lastMessageAt, rows, deleted, notif, mark,
                 leaving, clearing, overtaken, setBack, left>>

(* A forward commits: no self-read, and nobody is notified. *)
CommitForward(m) ==
  /\ post[m].pc = "inTx" /\ post[m].kind = "forward"
  /\ rows' = rows \cup {m}
  /\ Touch(post[m].at)
  /\ post' = [post EXCEPT ![m].pc = "done"]
  /\ UNCHANGED <<clock, members, lastReadAt, deleted, notif, mark, leaving, clearing, setBack, left>>

(* The members the message addresses, when the fan-out reads them. *)
Recipients(m) == (post[m].audience \cap members) \ {post[m].author}

(* fanOutForMessage reads the members; from here on the record holds the  *)
(* recipients.                                                            *)
ReadRecipients(m) ==
  /\ post[m].pc = "fanout"
  /\ post' = [post EXCEPT ![m].audience = Recipients(m),
                          ![m].pc = IF Recipients(m) = {} THEN "done" ELSE "insert"]
  /\ UNCHANGED <<clock, members, lastReadAt, lastMessageAt, rows, deleted, notif, mark,
                 leaving, clearing, overtaken, setBack, left>>

(* Defect: the insert may be repeated, and resets a row it finds. *)
InsertRepeatedly(m) ==
  /\ post[m].pc = "insert"
  /\ notif' = [u \in User |-> IF u \in post[m].audience
                              THEN [notif[u] EXCEPT ![m] = "unread"] ELSE notif[u]]
  /\ post' \in {post, [post EXCEPT ![m].pc = "done"]}
  /\ UNCHANGED <<clock, members, lastReadAt, lastMessageAt, rows, deleted, mark,
                 leaving, clearing, overtaken, setBack, left>>

(* createMany: one unread row per recipient, whatever happened since. *)
InsertNotifications(m) ==
  /\ post[m].pc = "insert"
  /\ notif' = [u \in User |-> IF u \in post[m].audience
                              THEN [notif[u] EXCEPT ![m] = "unread"] ELSE notif[u]]
  /\ post' = [post EXCEPT ![m].pc = "done"]
  /\ UNCHANGED <<clock, members, lastReadAt, lastMessageAt, rows, deleted, mark,
                 leaving, clearing, overtaken, setBack, left>>

(* The handler, or the detached task, dies; its error is swallowed. *)
LosePost(m) ==
  /\ post[m].pc \in {"inTx", "fanout", "insert"}
  /\ post' = [post EXCEPT ![m] =
       IF m \in rows THEN [post[m] EXCEPT !.pc = "failed"] ELSE [NoPost EXCEPT !.pc = "failed"]]
  /\ UNCHANGED <<clock, members, lastReadAt, lastMessageAt, rows, deleted, notif, mark,
                 leaving, clearing, overtaken, setBack, left>>

---------------------------------------------------------------------------
(* markRead.                                                               *)

(* The marker: a message of the channel, or else its latest stamp, or now. *)
Markers == {post[m].at : m \in rows} \cup {IF lastMessageAt = 0 THEN clock ELSE lastMessageAt}

StartMark(k, u, t) ==
  /\ mark[k].pc = "idle"
  /\ u \in members \cap Readers
  /\ t \in Markers
  /\ mark' = [mark EXCEPT ![k] = [pc |-> "advance", user |-> u, at |-> t]]
  /\ UNCHANGED <<clock, members, lastReadAt, lastMessageAt, post, rows, deleted, notif,
                 leaving, clearing, overtaken, setBack, left>>

(* Advance-only, and nothing happens if the membership is gone. *)
AdvancePointer(k) ==
  /\ mark[k].pc = "advance"
  /\ lastReadAt' = IF mark[k].user \in members /\ lastReadAt[mark[k].user] < mark[k].at
                   THEN [lastReadAt EXCEPT ![mark[k].user] = mark[k].at] ELSE lastReadAt
  /\ mark' = [mark EXCEPT ![k].pc = "clear"]
  /\ UNCHANGED <<clock, members, lastMessageAt, post, rows, deleted, notif,
                 leaving, clearing, overtaken, setBack, left>>

(* Defect: everything is read, whatever the marker. *)
ReadEverything(u, t) ==
  [m \in Msg |-> IF notif[u][m] = "unread" THEN "read" ELSE notif[u][m]]

(* The notifications stamped up to the marker are read. *)
ReadUpTo(u, t) ==
  [m \in Msg |-> IF notif[u][m] = "unread" /\ post[m].at <= t THEN "read" ELSE notif[u][m]]

ClearUpToMarker(k) ==
  /\ mark[k].pc = "clear"
  /\ notif' = [notif EXCEPT ![mark[k].user] = ReadUpTo(mark[k].user, mark[k].at)]
  /\ mark' = [mark EXCEPT ![k].pc = "done"]
  /\ UNCHANGED <<clock, members, lastReadAt, lastMessageAt, post, rows, deleted,
                 leaving, clearing, overtaken, setBack, left>>

LoseMark(k) ==
  /\ mark[k].pc \in {"advance", "clear"}
  /\ mark' = [mark EXCEPT ![k] = [NoMark EXCEPT !.pc = "lost"]]
  /\ UNCHANGED <<clock, members, lastReadAt, lastMessageAt, post, rows, deleted, notif,
                 leaving, clearing, overtaken, setBack, left>>

---------------------------------------------------------------------------
(* Deleting a message, and leaving the channel.                            *)

(* remove: the row is flagged; its notifications go in a detached call. *)
Remove(m) ==
  /\ m \in rows \ deleted
  /\ Cardinality(deleted) < MaxDeleted
  /\ deleted' = deleted \cup {m}
  /\ clearing' = clearing \cup {m}
  /\ UNCHANGED <<clock, members, lastReadAt, lastMessageAt, post, rows, notif, mark,
                 leaving, overtaken, setBack, left>>

(* AdminService.deleteMessage: flagged only. *)
AdminDelete(m) ==
  /\ m \in rows \ deleted
  /\ Cardinality(deleted) < MaxDeleted
  /\ deleted' = deleted \cup {m}
  /\ UNCHANGED <<clock, members, lastReadAt, lastMessageAt, post, rows, notif, mark,
                 leaving, clearing, overtaken, setBack, left>>

ClearForMessage(m) ==
  /\ m \in clearing
  /\ clearing' = clearing \ {m}
  /\ notif' = [u \in User |-> [notif[u] EXCEPT ![m] = "none"]]
  /\ UNCHANGED <<clock, members, lastReadAt, lastMessageAt, post, rows, deleted, mark,
                 leaving, overtaken, setBack, left>>

(* removeMember deletes the membership, and with it the pointer. *)
Leave(u) ==
  /\ u \in members \cap Leavers
  /\ leaving[u] = "no"
  /\ members' = members \ {u}
  /\ lastReadAt' = [lastReadAt EXCEPT ![u] = 0]
  /\ left' = left \cup {u}
  /\ leaving' = [leaving EXCEPT ![u] = "announce"]
  /\ UNCHANGED <<clock, lastMessageAt, post, rows, deleted, notif, mark, clearing, overtaken, setBack>>

(* postSystemMessage inserts a row in the leaver's name and then, in a     *)
(* second statement, touches the channel; an error in either is ignored.   *)
InsertSystem(u, m) ==
  /\ leaving[u] = "announce"
  /\ post[m].pc = "idle"
  /\ \E t \in Time :
       /\ Stamp(t)
       /\ post' = [post EXCEPT ![m] =
            [pc |-> "stored", kind |-> "system", author |-> u, at |-> t, audience |-> {}]]
  /\ rows' = rows \cup {m}
  /\ leaving' = [leaving EXCEPT ![u] = "touch"]
  /\ UNCHANGED <<members, lastReadAt, lastMessageAt, deleted, notif, mark,
                 clearing, overtaken, setBack, left>>

TouchSystem(u, m) ==
  /\ leaving[u] = "touch"
  /\ post[m].pc = "stored" /\ post[m].author = u
  /\ Touch(post[m].at)
  /\ post' = [post EXCEPT ![m].pc = "done"]
  /\ leaving' = [leaving EXCEPT ![u] = "clear"]
  /\ UNCHANGED <<clock, members, lastReadAt, rows, deleted, notif, mark, clearing, setBack, left>>

(* What became of the leaver's system message when its posting failed. *)
GiveUpSystem(u) ==
  post' = [m \in Msg |-> IF post[m].pc = "stored" /\ post[m].author = u
                         THEN [post[m] EXCEPT !.pc = "failed"] ELSE post[m]]

SkipSystem(u) ==
  /\ leaving[u] \in {"announce", "touch"}
  /\ GiveUpSystem(u)
  /\ leaving' = [leaving EXCEPT ![u] = "clear"]
  /\ UNCHANGED <<clock, members, lastReadAt, lastMessageAt, rows, deleted, notif,
                 mark, clearing, overtaken, setBack, left>>

(* The removal handler, or its detached clearForChannel, dies. *)
LoseLeave(u) ==
  /\ leaving[u] # "no"
  /\ GiveUpSystem(u)
  /\ leaving' = [leaving EXCEPT ![u] = "no"]
  /\ UNCHANGED <<clock, members, lastReadAt, lastMessageAt, rows, deleted, notif,
                 mark, clearing, overtaken, setBack, left>>

(* Defect: the channel's notifications of everybody go. *)
ClearForEveryone(u) ==
  /\ leaving[u] = "clear"
  /\ leaving' = [leaving EXCEPT ![u] = "no"]
  /\ notif' = [v \in User |-> [m \in Msg |-> "none"]]
  /\ UNCHANGED <<clock, members, lastReadAt, lastMessageAt, post, rows, deleted, mark,
                 clearing, overtaken, setBack, left>>

(* clearForChannel, detached. *)
ClearForChannel(u) ==
  /\ leaving[u] = "clear"
  /\ leaving' = [leaving EXCEPT ![u] = "no"]
  /\ notif' = [notif EXCEPT ![u] = [m \in Msg |-> "none"]]
  /\ UNCHANGED <<clock, members, lastReadAt, lastMessageAt, post, rows, deleted, mark,
                 clearing, overtaken, setBack, left>>

(* A new membership starts with a null pointer. *)
Join(u) ==
  /\ u \notin members
  /\ members' = members \cup {u}
  /\ UNCHANGED <<clock, lastReadAt, lastMessageAt, post, rows, deleted, notif, mark,
                 leaving, clearing, overtaken, setBack, left>>

---------------------------------------------------------------------------
Open(m) ==
  \E kind \in Kinds, u \in User, audience \in Audiences : OpenPost(m, kind, u, audience)

HandlePost(m) ==
  CommitSend(m) \/ AbortSend(m) \/ CommitForward(m) \/ ReadRecipients(m) \/ InsertNotifications(m)

HandleMark(k) == AdvancePointer(k) \/ ClearUpToMarker(k)

HandleLeave(u) ==
  (\E m \in Msg : InsertSystem(u, m) \/ TouchSystem(u, m)) \/ SkipSystem(u) \/ ClearForChannel(u)

Next ==
  \/ \E m \in Msg : Open(m) \/ HandlePost(m) \/ LosePost(m)
  \/ \E k \in Mark : HandleMark(k) \/ LoseMark(k)
  \/ \E k \in Mark, u \in User, t \in Time : StartMark(k, u, t)
  \/ \E m \in Msg : Remove(m) \/ AdminDelete(m) \/ ClearForMessage(m)
  \/ \E u \in User : Leave(u) \/ HandleLeave(u) \/ LoseLeave(u) \/ Join(u)

Spec == Init /\ [][Next]_vars

---------------------------------------------------------------------------
(* Properties.                                                             *)

(* A mark-read that ended holds: whatever other mark-reads of the user,    *)
(* for older or newer messages, ran around it in any order                 *)
(* (notifications.service.ts:81-82), the pointer is at its marker or       *)
(* later.  Only leaving, or a slow send of the user's own that was stamped *)
(* earlier and commits later, takes it back.                               *)
DoneMarkHolds ==
  \A k \in Mark : mark[k].pc = "done" =>
     lastReadAt[mark[k].user] >= mark[k].at \/ mark[k].user \in setBack \cup left

(* No member misses a message: a row stamped after the member's pointer    *)
(* makes the channel unread, although lastMessageAt is assigned by         *)
(* transactions that commit out of stamp order; the only exceptions are    *)
(* the rows an older stamp was written over, and a system row whose touch  *)
(* is pending or failed.                                                   *)
UnseenIsUnread ==
  \A u \in members, m \in rows \ overtaken :
     /\ post[m].kind = "system" => post[m].pc = "done"
     /\ post[m].at > lastReadAt[u]
     => HasUnread(u)

(* A user's own send does not make the channel unread for the user,        *)
(* concurrently with everything else: an unread channel holds something    *)
(* newer than the pointer that is not a send of the user's.  (A user who   *)
(* rejoined starts over with a null pointer, which a mark-read from before *)
(* the removal may still set.)                                             *)
OwnSendNeverUnread ==
  \A u \in members \ left : HasUnread(u) =>
     \E m \in rows : post[m].at > lastReadAt[u]
                   /\ (post[m].author # u \/ post[m].kind # "send")

(* The three together: nobody's pointer or unread flag goes astray. *)
PointersRight == DoneMarkHolds /\ UnseenIsUnread /\ OwnSendNeverUnread

(* Only other users' committed sends notify, and only users they address,  *)
(* whatever joins and leaves happened during the detached fan-out.         *)
NotifiedOnlyIfAddressed ==
  \A u \in User, m \in Msg : notif[u][m] # "none" =>
     /\ m \in rows /\ post[m].kind = "send"
     /\ u \in post[m].audience /\ u # post[m].author

(* A fan-out that ended reached every recipient it had read, and only a    *)
(* deletion or the recipient's departure takes a notification away.        *)
FanOutReachesAll ==
  \A m \in rows \ deleted : post[m].kind = "send" /\ post[m].pc = "done" =>
     \A u \in post[m].audience \ left : notif[u][m] # "none"

(* A fan-out notifies exactly those it addresses. *)
FanOutRight == NotifiedOnlyIfAddressed /\ FanOutReachesAll

(* "Mentions that arrived after the marker stay badged"                    *)
(* (notifications.service.ts:112): a notification is read only through a   *)
(* mark-read of its user whose marker reaches the message.                 *)
NewerMentionsStayBadged ==
  \A u \in User, m \in Msg : notif[u][m] = "read" =>
     \E k \in Mark : /\ mark[k].pc = "done" /\ mark[k].user = u
                     /\ mark[k].at >= post[m].at

(* A notification that was read never becomes unread again.                *)
ReadStaysRead ==
  [][\A u \in User, m \in Msg : notif[u][m] = "read" => notif'[u][m] # "unread"]_vars

(* "Mark-read clears notifications up to the read marker", which is why    *)
(* they carry the message's time and do not "survive the clear"            *)
(* (notifications.service.ts:194-196).                                     *)
NoBadgeSurvivesMark ==
  \A k \in Mark : mark[k].pc = "done" =>
     \A m \in Badge(mark[k].user) : post[m].at > mark[k].at
===========================================================================
