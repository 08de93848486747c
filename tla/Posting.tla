------------------------------ MODULE Posting ------------------------------
(***************************************************************************)
(* MessagesService.send: posting to one channel.                           *)
(*                                                                         *)
(* A Call is one HTTP request.  Its handler runs in steps separated by     *)
(* awaits, and the steps of different calls interleave: the checks made    *)
(* before the transaction, the transaction's own reads, its commit, and    *)
(* the broadcast that follows the commit.  Nothing is locked between the   *)
(* checks and the commit; what protects the channel is the database's      *)
(* UNIQUE (channel_id, client_msg_id), which the commit meets.  A handler  *)
(* can be lost at any await (the process or its connection dies), and a    *)
(* client may repeat a key in another call, early or late.                 *)
(*                                                                         *)
(* A message row is named by the call that created it, so "the row of a    *)
(* key" is not unique by construction.  Time stamps, read pointers and     *)
(* notifications are the subject of module Unreads.                        *)
(***************************************************************************)
EXTENDS Naturals, FiniteSets

CONSTANTS User,        \* workspace users
          Managers,    \* the channel's creator and the workspace admins
          Key,         \* client message ids
          Attachment,  \* uploaded files
          Call,        \* HTTP calls of POST /channels/:id/messages
          None         \* "no user", "no key", "no row"

ASSUME PostingAssumption ==
  /\ Managers \subseteq User
  /\ IsFiniteSet(Call)
  /\ None \notin User \cup Key \cup Call

VARIABLES members,    \* users with a ChannelMember row
          channel,    \* the columns of the Channel row that gate posting
          file,       \* the Attachment rows
          call,       \* the in-flight and finished calls
          rows,       \* the calls whose message row is committed
          replyCount, \* Message.replyCount of each row
          announced   \* how many times each row was broadcast

vars == <<members, channel, file, call, rows, replyCount, announced>>

InFlight == {"checked", "inTx", "stored"}
Settled  == {"acked", "failed"}

CallRecord == [pc     : {"idle"} \cup InFlight \cup Settled,
               author : User \cup {None},
               key    : Key \cup {None},
               parent : Call \cup {None},
               files  : SUBSET Attachment]

FileRecord == [status : {"absent", "uploading", "ready"},
               owner  : User \cup {None},
               message : Call \cup {None}]

ChannelRecord == [archived : BOOLEAN, adminsOnly : BOOLEAN]

Blank(pc) == [pc |-> pc, author |-> None, key |-> None, parent |-> None, files |-> {}]

NoFile == [status |-> "absent", owner |-> None, message |-> None]

TypeOK ==
  /\ members \subseteq User
  /\ channel \in ChannelRecord
  /\ file \in [Attachment -> FileRecord]
  /\ call \in [Call -> CallRecord]
  /\ rows \subseteq Call
  /\ replyCount \in [Call -> Nat]
  /\ announced \in [Call -> Nat]

Init ==
  /\ members = User
  /\ channel = [archived |-> FALSE, adminsOnly |-> FALSE]
  /\ file = [a \in Attachment |-> NoFile]
  /\ call = [c \in Call |-> Blank("idle")]
  /\ rows = {}
  /\ replyCount = [c \in Call |-> 0]
  /\ announced = [c \in Call |-> 0]

---------------------------------------------------------------------------
(* What the handler's queries see.                                         *)

StoredKeys == {call[c].key : c \in rows}

Replies(p) == {c \in rows : call[c].parent = p}

(* requirePostable: a member, the channel open, and the posting policy. *)
Postable(u, isThreadReply) ==
  /\ u \in members
  /\ ~channel.archived
  /\ channel.adminsOnly => isThreadReply \/ u \in Managers

(* A thread parent is a stored message that is not itself a reply. *)
ParentOk(p) == p = None \/ (p \in rows /\ call[p].parent = None)

(* Defect: the validation forgets the uploader. *)
FilesOkOfAnyone(u, fs) ==
  \A a \in fs : file[a].status = "ready" /\ file[a].message = None

(* The sender's own uploads, not linked to a message yet. *)
FilesOk(u, fs) ==
  \A a \in fs : file[a] = [status |-> "ready", owner |-> u, message |-> None]

---------------------------------------------------------------------------
(* The handler of one call.                                                *)

(* The call is refused: not postable, or a bad thread parent. *)
Refuse(c, u, k, p) ==
  /\ call[c].pc = "idle"
  /\ ~Postable(u, p # None) \/ (k \notin StoredKeys /\ ~ParentOk(p))
  /\ call' = [call EXCEPT ![c] = Blank("failed")]
  /\ UNCHANGED <<members, channel, file, rows, replyCount, announced>>

(* Defect: the repeated call announces the existing row again. *)
AnswerExistingAloud(c, u, k, p) ==
  /\ call[c].pc = "idle"
  /\ Postable(u, p # None)
  /\ \E r \in rows : call[r].key = k /\ announced' = [announced EXCEPT ![r] = @ + 1]
  /\ call' = [call EXCEPT ![c] = [Blank("acked") EXCEPT !.key = k]]
  /\ UNCHANGED <<members, channel, file, rows, replyCount>>

(* The key is already stored: answer with that row, announce nothing. *)
AnswerExisting(c, u, k, p) ==
  /\ call[c].pc = "idle"
  /\ Postable(u, p # None)
  /\ k \in StoredKeys
  /\ call' = [call EXCEPT ![c] = [Blank("acked") EXCEPT !.key = k]]
  /\ UNCHANGED <<members, channel, file, rows, replyCount, announced>>

(* Defect: the reply is counted before the transaction can abort. *)
AcceptCounting(c, u, k, p, fs) ==
  /\ call[c].pc = "idle"
  /\ Postable(u, p # None)
  /\ k \notin StoredKeys
  /\ ParentOk(p)
  /\ call' = [call EXCEPT ![c] =
                [pc |-> "checked", author |-> u, key |-> k, parent |-> p, files |-> fs]]
  /\ replyCount' = [q \in Call |-> IF q = p THEN replyCount[q] + 1 ELSE replyCount[q]]
  /\ UNCHANGED <<members, channel, file, rows, announced>>

(* Every check before the transaction passed. *)
Accept(c, u, k, p, fs) ==
  /\ call[c].pc = "idle"
  /\ Postable(u, p # None)
  /\ k \notin StoredKeys
  /\ ParentOk(p)
  /\ call' = [call EXCEPT ![c] =
                [pc |-> "checked", author |-> u, key |-> k, parent |-> p, files |-> fs]]
  /\ UNCHANGED <<members, channel, file, rows, replyCount, announced>>

(* Defect: the broadcast leaves from inside the transaction. *)
OpenTxAloud(c) ==
  /\ call[c].pc = "checked"
  /\ FilesOk(call[c].author, call[c].files)
  /\ call' = [call EXCEPT ![c].pc = "inTx"]
  /\ announced' = [announced EXCEPT ![c] = @ + 1]
  /\ UNCHANGED <<members, channel, file, rows, replyCount>>

(* The transaction opens and validates the attachments it will link.  The  *)
(* read takes no lock: another transaction may link them before this one   *)
(* commits.                                                                *)
OpenTx(c) ==
  /\ call[c].pc = "checked"
  /\ call' = [call EXCEPT ![c] =
                IF FilesOk(call[c].author, call[c].files)
                THEN [call[c] EXCEPT !.pc = "inTx"]
                ELSE Blank("failed")]
  /\ UNCHANGED <<members, channel, file, rows, replyCount, announced>>

(* Defect: the error is swallowed and the client told all is well. *)
AbortSilently(c) ==
  /\ call[c].pc = "inTx"
  /\ call[c].key \in StoredKeys \/ call[c].author \notin members
  /\ call' = [call EXCEPT ![c] = [Blank("acked") EXCEPT !.key = call[c].key]]
  /\ UNCHANGED <<members, channel, file, rows, replyCount, announced>>

(* The transaction aborts: the insert meets another row with its key, or   *)
(* the author's membership, which it updates, is gone.                     *)
Abort(c) ==
  /\ call[c].pc = "inTx"
  /\ call[c].key \in StoredKeys \/ call[c].author \notin members
  /\ call' = [call EXCEPT ![c] = Blank("failed")]
  /\ UNCHANGED <<members, channel, file, rows, replyCount, announced>>

(* What the transaction writes: the row, the links (an UPDATE by id,       *)
(* whatever the rows hold by now) and the parent's counter.                *)
StoreRow(c) ==
  /\ call' = [call EXCEPT ![c].pc = "stored"]
  /\ rows' = rows \cup {c}
  /\ file' = [a \in Attachment |->
                IF a \in call[c].files THEN [file[a] EXCEPT !.message = c] ELSE file[a]]
  /\ replyCount' = [p \in Call |->
                IF p = call[c].parent THEN replyCount[p] + 1 ELSE replyCount[p]]
  /\ UNCHANGED <<members, channel, announced>>

Commit(c) ==
  /\ call[c].pc = "inTx"
  /\ call[c].key \notin StoredKeys
  /\ call[c].author \in members
  /\ StoreRow(c)

(* The broadcast and the answer, in one turn of the event loop. *)
Announce(c) ==
  /\ call[c].pc = "stored"
  /\ announced' = [announced EXCEPT ![c] = @ + 1]
  /\ call' = [call EXCEPT ![c].pc = "acked"]
  /\ UNCHANGED <<members, channel, file, rows, replyCount>>

(* The handler dies at an await; a committed row stays. *)
Lose(c) ==
  /\ call[c].pc \in InFlight
  /\ call' = [call EXCEPT ![c] =
                IF c \in rows THEN [call[c] EXCEPT !.pc = "failed"] ELSE Blank("failed")]
  /\ UNCHANGED <<members, channel, file, rows, replyCount, announced>>

---------------------------------------------------------------------------
(* The rest of the system, as far as posting reads it.                     *)

(* An upload passes its checks; its row appears once the file is stored. *)
StartUpload(a, u) ==
  /\ file[a].status = "absent"
  /\ Postable(u, FALSE)
  /\ file' = [file EXCEPT ![a] = [status |-> "uploading", owner |-> u, message |-> None]]
  /\ UNCHANGED <<members, channel, call, rows, replyCount, announced>>

FinishUpload(a) ==
  /\ file[a].status = "uploading"
  /\ \E done \in {[file[a] EXCEPT !.status = "ready"], NoFile} :
       file' = [file EXCEPT ![a] = done]
  /\ UNCHANGED <<members, channel, call, rows, replyCount, announced>>

Leave(u) ==
  /\ u \in members
  /\ members' = members \ {u}
  /\ UNCHANGED <<channel, file, call, rows, replyCount, announced>>

(* By an invitation, which is not checked against the archive, or by join. *)
Join(u) ==
  /\ u \notin members
  /\ members' = members \cup {u}
  /\ UNCHANGED <<channel, file, call, rows, replyCount, announced>>

UpdateChannel(settings) ==
  /\ channel' = settings
  /\ UNCHANGED <<members, file, call, rows, replyCount, announced>>

---------------------------------------------------------------------------
Send(c) ==
  \E u \in User, k \in Key, p \in Call \cup {None} :
    \/ Refuse(c, u, k, p)
    \/ AnswerExisting(c, u, k, p)
    \/ \E fs \in SUBSET Attachment : Accept(c, u, k, p, fs)

Handle(c) == OpenTx(c) \/ Abort(c) \/ Commit(c) \/ Announce(c)

Environment ==
  \/ \E a \in Attachment, u \in User : StartUpload(a, u)
  \/ \E a \in Attachment : FinishUpload(a)
  \/ \E u \in User : Leave(u) \/ Join(u)
  \/ \E settings \in ChannelRecord : UpdateChannel(settings)

Next ==
  \/ \E c \in Call : Send(c) \/ Handle(c) \/ Lose(c)
  \/ Environment

Spec == Init /\ [][Next]_vars

---------------------------------------------------------------------------
(* Properties.                                                             *)

(* However often and however concurrently a client repeats a key, the      *)
(* channel holds at most one message for it: the look-up before the        *)
(* transaction (messages.service.ts:124-129) is only a fast path, and a    *)
(* call that passed it before another call committed must not store a     *)
(* second row.                                                             *)
OneRowPerKey == \A c, d \in rows : call[c].key = call[d].key => c = d

(* A client that got a success answer, for a first call or for a repeated  *)
(* one, finds its message in the channel, even if the answering call never *)
(* opened a transaction and its twin was lost after committing.            *)
AnsweredIsStored == \A c \in Call : call[c].pc = "acked" => call[c].key \in StoredKeys

(* A message is broadcast at most once, only after its row is committed,   *)
(* and never under two row ids: clients count replies by these broadcasts  *)
(* (apps/web/src/lib/message-cache.ts:61-62).                              *)
AnnouncedOnce ==
  \A c \in Call :
    /\ announced[c] <= 1
    /\ announced[c] = 1 =>
         /\ c \in rows
         /\ \A d \in Call : announced[d] = 1 /\ call[d].key = call[c].key => d = c

(* replyCount, kept by increments inside concurrent transactions that may  *)
(* abort, equals the number of stored replies.                             *)
RepliesCounted == \A p \in Call : replyCount[p] = Cardinality(Replies(p))

(* Threads are one level deep and hang below a stored message: a reply     *)
(* checked against its parent before the transaction still has a top-level *)
(* parent when it commits.                                                 *)
ThreadsAreFlat == \A c \in rows : call[c].parent # None =>
                     call[c].parent \in rows /\ call[call[c].parent].parent = None

(* A file shown in the channel hangs at a committed message of the user    *)
(* who uploaded it, through aborts, lost handlers and concurrent links.    *)
FilesBelongToAuthor ==
  \A a \in Attachment : file[a].message # None =>
     /\ file[a].message \in rows
     /\ file[a].owner = call[file[a].message].author

(* An archived channel grows only by calls that had passed their checks    *)
(* before it was archived: once those are over, it is frozen.              *)
ArchivedDrains ==
  [][channel.archived /\ (\A c \in Call : call[c].pc \notin {"checked", "inTx"})
       => rows' = rows /\ \A c \in Call : call'[c].pc \notin {"checked", "inTx"}]_vars

(* The attachments of a message "must be the sender's own, for this        *)
(* channel, and unlinked" (messages.service.ts:142): linking a file takes  *)
(* it from no other message.                                               *)
LinkedOnlyOnce ==
  [][\A a \in Attachment : file[a].message # None => file'[a].message = file[a].message]_vars

(* What the log's clients see of posting.                                  *)
Entries       == {[key |-> call[c].key, id |-> c] : c \in rows}
AnnouncedRows == {c \in Call : announced[c] > 0}
AnsweredKeys  == {call[c].key : c \in {d \in Call : call[d].pc = "acked"}}

Log == INSTANCE MessageLog WITH
         Id <- Call, log <- Entries, announced <- AnnouncedRows, answered <- AnsweredKeys

(* Posting implements the log its clients rely on: through retries, aborts *)
(* and lost handlers of send (messages.service.ts:121-216), an entry is    *)
(* stored once per key, published at most once after that, and only keys   *)
(* of stored entries are answered.                                         *)
ImplementsLog == Log!LogSpec
===========================================================================
