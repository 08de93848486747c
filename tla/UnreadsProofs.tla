---------------------------- MODULE UnreadsProofs ----------------------------
(***************************************************************************)
(* What is proved of Unreads for any users, posts, mark-reads and time     *)
(* stamps: its types, that the pointers, the unread state and the fan-out  *)
(* are right, and that a notification is read by a mark-read that reaches  *)
(* it, once and for all.                                                   *)
(*                                                                         *)
(* The unread state compares lastMessageAt, which transactions overwrite   *)
(* out of order, with a pointer that a slow send may set back.  It is      *)
(* right because of what lastMessageAt is: the stamp of a row, at least as *)
(* late as every row it was not written over, and, when it lies behind a   *)
(* member's pointer, not the stamp of a send of his alone.                 *)
(***************************************************************************)
EXTENDS Unreads, TLAPS

(* The program counter of a post says whether its row is visible and who   *)
(* may have been notified.                                                 *)
PostShaped(m) ==
  /\ post[m].pc \in {"idle", "inTx"} => m \notin rows
  /\ post[m].pc \in {"stored", "fanout", "insert"} => m \in rows
  /\ post[m].pc \in {"inTx", "fanout", "insert", "stored"} => post[m].author \in User
  /\ post[m].pc \in {"fanout", "insert"} => post[m].kind = "send"
  /\ post[m].pc = "inTx" => post[m].kind \in {"send", "forward"}
  /\ post[m].pc = "stored" => post[m].kind = "system"
  /\ post[m].pc = "insert" => post[m].author \notin post[m].audience
  /\ post[m].pc \in {"idle", "inTx", "stored", "fanout", "insert"} =>
       \A u \in User : notif[u][m] = "none"

PostsShaped == \A m \in Msg : PostShaped(m)

(* Who is not a member, or whose removal is being handled, has left. *)
LeaversLeft == \A u \in User : u \notin members \/ leaving[u] # "no" => u \in left

(* DoneMarkHolds from the moment the pointer was advanced. *)
MarksHold ==
  \A k \in Mark :
    /\ mark[k].pc \in {"advance", "clear", "done"} => mark[k].user \in User
    /\ mark[k].pc \in {"clear", "done"} =>
         lastReadAt[mark[k].user] >= mark[k].at \/ mark[k].user \in setBack \cup left

(* lastMessageAt covers every row that no older stamp was written over. *)
LastCovers ==
  \A m \in rows \ overtaken :
    (post[m].kind = "system" => post[m].pc = "done") => lastMessageAt >= post[m].at

(* What makes a channel unread is not a send of the reader's own. *)
LastIsOthers ==
  \A u \in members \ left : HasUnread(u) =>
    \E m \in rows : /\ post[m].at = lastMessageAt
                    /\ post[m].author # u \/ post[m].kind # "send"

IndInv ==
  /\ TypeOK /\ PostsShaped /\ LeaversLeft /\ MarksHold /\ LastCovers /\ LastIsOthers
  /\ NotifiedOnlyIfAddressed /\ FanOutReachesAll /\ NewerMentionsStayBadged

---------------------------------------------------------------------------
(* Steps, by what they disturb.                                            *)

(* A row keeps its kind, author and stamp, and its audience once the       *)
(* recipients were read.                                                   *)
LEMMA RowsKeep ==
  ASSUME IndInv, Next
  PROVE  /\ rows \subseteq rows'
         /\ \A m \in rows :
              /\ post'[m].kind = post[m].kind /\ post'[m].author = post[m].author
              /\ post'[m].at = post[m].at
              /\ post'[m].audience = post[m].audience \/ post[m].pc = "fanout"
<1> USE DEF IndInv, TypeOK, PostRecord
<1>1. CASE UNCHANGED <<post, rows>>
  BY <1>1
<1>2. ASSUME NEW m \in Msg,
             \/ Open(m) \/ AbortSend(m) \/ CommitSend(m) \/ CommitForward(m) \/ ReadRecipients(m)
             \/ InsertNotifications(m) \/ LosePost(m)
             \/ \E u \in User : InsertSystem(u, m) \/ TouchSystem(u, m)
      PROVE  /\ rows \subseteq rows' /\ \A n \in Msg \ {m} : post'[n] = post[n]
             /\ m \in rows =>
                  /\ post'[m].kind = post[m].kind /\ post'[m].author = post[m].author
                  /\ post'[m].at = post[m].at
                  /\ post'[m].audience = post[m].audience \/ post[m].pc = "fanout"
  BY <1>2 DEF PostsShaped, PostShaped, Open, OpenPost, AbortSend, CommitSend, CommitForward, ReadRecipients,
              InsertNotifications, LosePost, InsertSystem, TouchSystem
<1>3. ASSUME NEW u \in User, GiveUpSystem(u), UNCHANGED rows
      PROVE  \A m \in rows :
              /\ post'[m].kind = post[m].kind /\ post'[m].author = post[m].author
              /\ post'[m].at = post[m].at /\ post'[m].audience = post[m].audience
  BY <1>3 DEF GiveUpSystem
<1>4. QED
  BY <1>1, <1>2, <1>3
     DEF Next, HandlePost, HandleMark, HandleLeave, AdvancePointer, ClearUpToMarker, LoseMark,
         StartMark, Remove, AdminDelete, ClearForMessage, Leave, SkipSystem, ClearForChannel,
         LoseLeave, Join

(* Types are kept. *)
LEMMA StepTypes ==
  ASSUME IndInv, Next
  PROVE  TypeOK'
<1> USE UnreadsAssumption DEF IndInv, TypeOK
<1>0. \A m \in Msg : \A pc \in {"done", "failed"} : [post[m] EXCEPT !.pc = pc] \in PostRecord
  <2>1. ASSUME NEW m \in Msg, NEW pc \in {"done", "failed"}
        PROVE  [post[m] EXCEPT !.pc = pc] \in PostRecord
    <3>1. post[m] \in PostRecord
      OBVIOUS
    <3>2. QED BY <3>1 DEF PostRecord
  <2>2. QED BY <2>1
<1>1. ASSUME NEW m \in Msg, Open(m) PROVE TypeOK'
  <2>1. PICK kind \in Kinds, u \in User, audience \in Audiences : OpenPost(m, kind, u, audience)
    BY <1>1 DEF Open
  <2>2. QED BY <2>1 DEF OpenPost, Stamp, Time, PostRecord
<1>2. ASSUME NEW m \in Msg, CommitSend(m) \/ CommitForward(m) PROVE TypeOK'
  <2>1. post[m] \in PostRecord /\ post[m].author \in User /\ post[m].at \in Time
    BY <1>2 DEF CommitSend, CommitForward, PostsShaped, PostShaped, PostRecord
  <2>2. CASE CommitSend(m)
    BY <2>1, <2>2 DEF CommitSend, Touch, PostRecord
  <2>3. CASE CommitForward(m)
    BY <2>1, <2>3 DEF CommitForward, Touch, PostRecord
  <2>4. QED BY <1>2, <2>2, <2>3
<1>3. ASSUME NEW m \in Msg, AbortSend(m) \/ LosePost(m) \/ ReadRecipients(m) PROVE TypeOK'
  <2>1. [NoPost EXCEPT !.pc = "failed"] \in PostRecord
    BY DEF NoPost, PostRecord, Time
  <2>2. [post[m] EXCEPT !.pc = "failed"] \in PostRecord
    BY <1>0
  <2>3. post' \in [Msg -> PostRecord]
    <3>1. CASE ReadRecipients(m)
      <4> DEFINE p == [post[m] EXCEPT !.audience = Recipients(m),
                                      !.pc = IF Recipients(m) = {} THEN "done" ELSE "insert"]
      <4>1. post[m] \in PostRecord /\ Recipients(m) \in SUBSET User
        BY DEF Recipients
      <4>2. p \in PostRecord
        BY <4>1 DEF PostRecord
      <4>3. post' = [post EXCEPT ![m] = p]
        BY <3>1, <4>1 DEF ReadRecipients
      <4>4. QED BY <4>2, <4>3
    <3>2. CASE AbortSend(m) \/ LosePost(m)
      <4>1. post' = [post EXCEPT ![m] = [NoPost EXCEPT !.pc = "failed"]] \/
            post' = [post EXCEPT ![m] = [post[m] EXCEPT !.pc = "failed"]]
        BY <3>2 DEF AbortSend, LosePost
      <4>2. QED BY <2>1, <2>2, <4>1
    <3>3. QED BY <1>3, <3>1, <3>2
  <2>4. QED BY <1>3, <2>3 DEF AbortSend, LosePost, ReadRecipients
<1>4. ASSUME NEW m \in Msg, InsertNotifications(m) PROVE TypeOK'
  <2>1. post' = [post EXCEPT ![m] = [post[m] EXCEPT !.pc = "done"]]
    BY <1>4 DEF InsertNotifications
  <2>2. post' \in [Msg -> PostRecord]
    BY <1>0, <2>1
  <2>3. QED BY <1>4, <2>2 DEF InsertNotifications
<1>5. ASSUME NEW k \in Mark, HandleMark(k) \/ LoseMark(k) \/
                             \E u \in User, t \in Time : StartMark(k, u, t)
      PROVE  TypeOK'
  <2>1. mark' \in [Mark -> MarkRecord]
    <3>1. [NoMark EXCEPT !.pc = "lost"] \in MarkRecord
      BY DEF NoMark, MarkRecord, Time
    <3>2. QED BY <1>5, <3>1 DEF HandleMark, AdvancePointer, ClearUpToMarker, LoseMark, StartMark,
                                MarkRecord
  <2>2. lastReadAt' \in [User -> Time]
    BY <1>5 DEF HandleMark, AdvancePointer, ClearUpToMarker, LoseMark, StartMark, MarkRecord
  <2>3. notif' \in [User -> [Msg -> {"none", "unread", "read"}]]
    BY <1>5 DEF HandleMark, AdvancePointer, ClearUpToMarker, LoseMark, StartMark, ReadUpTo
  <2>4. QED
    BY <1>5, <2>1, <2>2, <2>3
       DEF HandleMark, AdvancePointer, ClearUpToMarker, LoseMark, StartMark
<1>6. ASSUME NEW m \in Msg, Remove(m) \/ AdminDelete(m) \/ ClearForMessage(m) PROVE TypeOK'
  BY <1>6 DEF Remove, AdminDelete, ClearForMessage
<1>7. ASSUME NEW u \in User, NEW m \in Msg, InsertSystem(u, m) \/ TouchSystem(u, m) PROVE TypeOK'
  <2>1. CASE InsertSystem(u, m)
    BY <2>1 DEF InsertSystem, Stamp, Time, PostRecord
  <2>2. CASE TouchSystem(u, m)
    <3>1. post' = [post EXCEPT ![m] = [post[m] EXCEPT !.pc = "done"]]
      BY <2>2 DEF TouchSystem
    <3>2. post' \in [Msg -> PostRecord] /\ post[m].at \in Time
      BY <1>0, <3>1 DEF PostRecord
    <3>3. QED BY <2>2, <3>2 DEF TouchSystem, Touch
  <2>3. QED BY <1>7, <2>1, <2>2
<1>8. ASSUME NEW u \in User, SkipSystem(u) \/ LoseLeave(u) PROVE TypeOK'
  <2>1. post' \in [Msg -> PostRecord]
    <3>1. \A m \in Msg : [post[m] EXCEPT !.pc = "failed"] \in PostRecord /\ post[m] \in PostRecord
      BY <1>0
    <3>2. post' = [m \in Msg |-> IF post[m].pc = "stored" /\ post[m].author = u
                                 THEN [post[m] EXCEPT !.pc = "failed"] ELSE post[m]]
      BY <1>8 DEF SkipSystem, LoseLeave, GiveUpSystem
    <3>3. QED BY <3>1, <3>2
  <2>2. QED BY <1>8, <2>1 DEF SkipSystem, LoseLeave
<1>9. ASSUME NEW u \in User, Leave(u) \/ ClearForChannel(u) \/ Join(u) PROVE TypeOK'
  BY <1>9 DEF Leave, ClearForChannel, Join, Time
<1>10. QED
  BY <1>1, <1>2, <1>3, <1>4, <1>5, <1>6, <1>7, <1>8, <1>9 DEF Next, HandlePost, HandleLeave

(* A notification appears with the insert of a fan-out. *)
LEMMA NotificationsAppear ==
  ASSUME IndInv, Next, NEW u \in User, NEW m \in Msg, notif[u][m] = "none", notif'[u][m] # "none"
  PROVE  InsertNotifications(m) /\ u \in post[m].audience /\ notif'[u][m] = "unread"
<1> USE DEF IndInv, TypeOK
<1>1. ASSUME NEW n \in Msg, InsertNotifications(n)
      PROVE  n = m /\ u \in post[m].audience /\ notif'[u][m] = "unread"
  BY <1>1 DEF InsertNotifications
<1>2. ASSUME NEW k \in Mark, ClearUpToMarker(k) PROVE FALSE
  BY <1>2 DEF ClearUpToMarker, ReadUpTo
<1>3. ASSUME NEW n \in Msg, ClearForMessage(n) PROVE FALSE
  BY <1>3 DEF ClearForMessage
<1>4. ASSUME NEW v \in User, ClearForChannel(v) PROVE FALSE
  BY <1>4 DEF ClearForChannel
<1>5. ~UNCHANGED notif
  OBVIOUS
<1>6. QED
  BY <1>1, <1>2, <1>3, <1>4, <1>5
     DEF Next, Open, OpenPost, HandlePost, CommitSend, AbortSend, CommitForward, ReadRecipients,
         LosePost, HandleMark, AdvancePointer, LoseMark, StartMark, Remove, AdminDelete, Leave,
         HandleLeave, InsertSystem, TouchSystem, SkipSystem, LoseLeave, Join

(* It disappears with its message or with its recipient. *)
LEMMA NotificationsStay ==
  ASSUME IndInv, Next, NEW u \in User, NEW m \in Msg, notif[u][m] # "none", notif'[u][m] = "none"
  PROVE  m \in deleted \/ u \in left
<1> USE DEF IndInv, TypeOK
<1>1. ASSUME NEW n \in Msg, InsertNotifications(n) PROVE FALSE
  BY <1>1 DEF InsertNotifications
<1>2. ASSUME NEW k \in Mark, ClearUpToMarker(k) PROVE FALSE
  BY <1>2 DEF ClearUpToMarker, ReadUpTo
<1>3. ASSUME NEW n \in Msg, ClearForMessage(n) PROVE m \in deleted
  BY <1>3 DEF ClearForMessage
<1>4. ASSUME NEW v \in User, ClearForChannel(v) PROVE u \in left
  BY <1>4 DEF ClearForChannel, LeaversLeft
<1>5. ~UNCHANGED notif
  OBVIOUS
<1>6. QED
  BY <1>1, <1>2, <1>3, <1>4, <1>5
     DEF Next, Open, OpenPost, HandlePost, CommitSend, AbortSend, CommitForward, ReadRecipients,
         LosePost, HandleMark, AdvancePointer, LoseMark, StartMark, Remove, AdminDelete, Leave,
         HandleLeave, InsertSystem, TouchSystem, SkipSystem, LoseLeave, Join

(* It is read by a mark-read that ends, of its user, that reaches it. *)
LEMMA NotificationsAreRead ==
  ASSUME IndInv, Next, NEW u \in User, NEW m \in Msg, notif[u][m] # "read", notif'[u][m] = "read"
  PROVE  /\ m \in rows
         /\ \E k \in Mark : /\ mark'[k].pc = "done" /\ mark'[k].user = u
                            /\ mark'[k].at >= post[m].at
<1> USE DEF IndInv, TypeOK
<1>1. ASSUME NEW n \in Msg, InsertNotifications(n) PROVE FALSE
  BY <1>1 DEF InsertNotifications
<1>2. ASSUME NEW k \in Mark, ClearUpToMarker(k)
      PROVE  /\ m \in rows /\ mark'[k].pc = "done" /\ mark'[k].user = u
             /\ mark'[k].at >= post[m].at
  <2>1. notif' = [notif EXCEPT ![mark[k].user] = ReadUpTo(mark[k].user, mark[k].at)]
    BY <1>2 DEF ClearUpToMarker
  <2>2. mark[k].user = u /\ notif'[u][m] = ReadUpTo(u, mark[k].at)[m]
    BY <2>1
  <2>3. notif[u][m] = "unread" /\ post[m].at <= mark[k].at
    BY <2>2 DEF ReadUpTo
  <2>4. mark'[k].pc = "done" /\ mark'[k].user = u /\ mark'[k].at = mark[k].at
    BY <1>2, <2>2 DEF ClearUpToMarker, MarkRecord
  <2>5. mark[k].at \in Nat /\ post[m].at \in Nat
    BY DEF MarkRecord, PostRecord, Time
  <2>6. QED BY <2>3, <2>4, <2>5 DEF NotifiedOnlyIfAddressed
<1>3. ASSUME NEW n \in Msg, ClearForMessage(n) PROVE FALSE
  BY <1>3 DEF ClearForMessage
<1>4. ASSUME NEW v \in User, ClearForChannel(v) PROVE FALSE
  BY <1>4 DEF ClearForChannel
<1>5. ~UNCHANGED notif
  OBVIOUS
<1>6. QED
  BY <1>1, <1>2, <1>3, <1>4, <1>5
     DEF Next, Open, OpenPost, HandlePost, CommitSend, AbortSend, CommitForward, ReadRecipients,
         LosePost, HandleMark, AdvancePointer, LoseMark, StartMark, Remove, AdminDelete, Leave,
         HandleLeave, InsertSystem, TouchSystem, SkipSystem, LoseLeave, Join

---------------------------------------------------------------------------
(* The conjuncts of the invariant, one by one.                             *)

(* Posts keep their shape. *)
LEMMA StepPosts ==
  ASSUME IndInv, Next
  PROVE  PostsShaped'
<1> USE DEF IndInv, TypeOK
<1>1. ASSUME NEW m \in Msg, post'[m].pc # "done"
      PROVE  \A u \in User : notif[u][m] = "none" => notif'[u][m] = "none"
  BY <1>1, NotificationsAppear DEF InsertNotifications, PostRecord
<1>2. ASSUME NEW m \in Msg, post'[m] = post[m], m \in rows' <=> m \in rows
      PROVE  PostShaped(m)'
  BY <1>1, <1>2 DEF PostsShaped, PostShaped
<1>3. ASSUME NEW m \in Msg,
             \/ Open(m) \/ AbortSend(m) \/ CommitSend(m) \/ CommitForward(m) \/ ReadRecipients(m)
             \/ InsertNotifications(m) \/ LosePost(m)
             \/ \E u \in User : InsertSystem(u, m) \/ TouchSystem(u, m)
      PROVE  /\ \A n \in Msg \ {m} : post'[n] = post[n] /\ (n \in rows' <=> n \in rows)
             /\ PostShaped(m)'
  <2>1. \A n \in Msg \ {m} : post'[n] = post[n] /\ (n \in rows' <=> n \in rows)
    BY <1>3 DEF Open, OpenPost, AbortSend, CommitSend, CommitForward, ReadRecipients,
                InsertNotifications, LosePost, InsertSystem, TouchSystem
  <2>2. PostShaped(m)
    BY DEF PostsShaped
  <2>3. CASE Open(m)
    <3>1. PICK kind \in Kinds, u \in User, audience \in Audiences :
            OpenPost(m, kind, u, audience)
      BY <2>3 DEF Open
    <3>2. /\ post'[m].pc = "inTx" /\ post'[m].kind = kind /\ post'[m].author = u
          /\ rows' = rows /\ post[m].pc = "idle"
      BY <3>1 DEF OpenPost
    <3>3. QED BY <1>1, <2>1, <2>2, <3>2, UnreadsAssumption DEF PostShaped
  <2>4. CASE CommitSend(m) \/ CommitForward(m)
    BY <1>1, <2>1, <2>2, <2>4 DEF PostShaped, CommitSend, CommitForward, PostRecord
  <2>5. CASE ReadRecipients(m)
    BY <1>1, <2>1, <2>2, <2>5 DEF PostShaped, ReadRecipients, Recipients, PostRecord
  <2>6. CASE AbortSend(m) \/ LosePost(m)
    <3>1. post'[m].pc = "failed"
      BY <2>6 DEF AbortSend, LosePost, NoPost, PostRecord
    <3>2. QED BY <2>1, <3>1 DEF PostShaped
  <2>7. CASE InsertNotifications(m) \/ \E u \in User : TouchSystem(u, m)
    <3>1. post'[m].pc = "done"
      BY <2>7 DEF InsertNotifications, TouchSystem, PostRecord
    <3>2. QED BY <2>1, <3>1 DEF PostShaped
  <2>8. ASSUME NEW u \in User, InsertSystem(u, m) PROVE PostShaped(m)'
    BY <1>1, <2>2, <2>8 DEF PostShaped, InsertSystem
  <2>9. QED BY <1>3, <2>1, <2>3, <2>4, <2>5, <2>6, <2>7, <2>8
<1>4. ASSUME NEW u \in User, GiveUpSystem(u), UNCHANGED rows, NEW m \in Msg
      PROVE  PostShaped(m)'
  <2>1. post'[m] = post[m] \/ post'[m].pc = "failed"
    BY <1>4 DEF GiveUpSystem, PostRecord
  <2>2. CASE post'[m].pc = "failed"
    BY <2>2 DEF PostShaped
  <2>3. QED BY <1>2, <1>4, <2>1, <2>2
<1>5. QED
  BY <1>2, <1>3, <1>4
     DEF Next, HandlePost, HandleMark, HandleLeave, AdvancePointer, ClearUpToMarker, LoseMark,
         StartMark, Remove, AdminDelete, ClearForMessage, Leave, SkipSystem, ClearForChannel,
         LoseLeave, Join, PostsShaped

(* Only leaving makes a member a stranger, and then he has left. *)
LEMMA StepLeavers ==
  ASSUME IndInv, Next
  PROVE  LeaversLeft' /\ left \subseteq left'
<1> USE DEF IndInv, TypeOK
<1>1. CASE UNCHANGED <<members, leaving, left>>
  BY <1>1 DEF LeaversLeft
<1>2. ASSUME NEW u \in User, Leave(u) \/ Join(u) \/ SkipSystem(u) \/ ClearForChannel(u)
                             \/ LoseLeave(u) \/ \E m \in Msg : InsertSystem(u, m) \/ TouchSystem(u, m)
      PROVE  LeaversLeft' /\ left \subseteq left'
  BY <1>2 DEF LeaversLeft, Leave, Join, SkipSystem, ClearForChannel, LoseLeave, InsertSystem,
              TouchSystem
<1>3. QED
  BY <1>1, <1>2
     DEF Next, Open, OpenPost, HandlePost, CommitSend, AbortSend, CommitForward, ReadRecipients,
         InsertNotifications, LosePost, HandleMark, AdvancePointer, ClearUpToMarker, LoseMark,
         StartMark, Remove, AdminDelete, ClearForMessage, HandleLeave

(* The pointer only moves forward, but for leaving and a slow send. *)
LEMMA StepMarks ==
  ASSUME IndInv, Next
  PROVE  MarksHold'
<1> USE DEF IndInv, TypeOK
<1>0. /\ \A k \in Mark : mark[k] \in MarkRecord /\ mark[k].at \in Nat
      /\ \A u \in User : lastReadAt[u] \in Nat
      /\ \A m \in Msg : post[m].at \in Nat
  BY UnreadsAssumption DEF MarkRecord, PostRecord, Time
<1>1. CASE UNCHANGED <<mark, lastReadAt, setBack, left>>
  BY <1>1 DEF MarksHold
<1>2. ASSUME NEW m \in Msg, CommitSend(m) PROVE MarksHold'
  BY <1>0, <1>2 DEF MarksHold, CommitSend
<1>3. ASSUME NEW u \in User, Leave(u) PROVE MarksHold'
  BY <1>0, <1>3 DEF MarksHold, Leave
<1>4. ASSUME NEW k \in Mark, ClearUpToMarker(k) \/ LoseMark(k) \/
                             \E u \in User, t \in Time : StartMark(k, u, t)
      PROVE  MarksHold'
  <2>1. /\ \A j \in Mark \ {k} : mark'[j] = mark[j]
        /\ \/ mark'[k].pc \in {"advance", "lost"} /\ (mark'[k].pc = "advance" => mark'[k].user \in User)
           \/ /\ mark[k].pc = "clear" /\ mark'[k].at = mark[k].at
              /\ mark'[k].user = mark[k].user
    BY <1>0, <1>4 DEF ClearUpToMarker, LoseMark, StartMark, NoMark, MarkRecord
  <2>2. UNCHANGED <<lastReadAt, setBack, left>>
    BY <1>4 DEF ClearUpToMarker, LoseMark, StartMark
  <2>3. QED BY <2>1, <2>2 DEF MarksHold
<1>5. ASSUME NEW k \in Mark, AdvancePointer(k) PROVE MarksHold'
  <2>1. mark[k].user \in User
    BY <1>5 DEF MarksHold, AdvancePointer
  <2>2. /\ mark'[k].at = mark[k].at /\ mark'[k].user = mark[k].user
        /\ \A j \in Mark \ {k} : mark'[j] = mark[j]
    BY <1>0, <1>5 DEF AdvancePointer, MarkRecord
  <2>3. \A u \in User : lastReadAt'[u] \in Nat /\ lastReadAt'[u] >= lastReadAt[u]
    BY <1>0, <1>5 DEF AdvancePointer
  <2>4. mark[k].user \in left \/ lastReadAt'[mark[k].user] >= mark[k].at
    BY <1>0, <1>5, <2>1 DEF AdvancePointer, LeaversLeft
  <2>5. UNCHANGED <<setBack, left>>
    BY <1>5 DEF AdvancePointer
  <2>6. QED BY <1>0, <2>1, <2>2, <2>3, <2>4, <2>5 DEF MarksHold
<1>6. QED
  BY <1>1, <1>2, <1>3, <1>4, <1>5
     DEF Next, Open, OpenPost, HandlePost, AbortSend, CommitForward, ReadRecipients,
         InsertNotifications, LosePost, HandleMark, Remove, AdminDelete, ClearForMessage,
         HandleLeave, InsertSystem, TouchSystem, SkipSystem, ClearForChannel, LoseLeave, Join

(* A write of lastMessageAt covers every row but those it overtakes. *)
LEMMA StepCovers ==
  ASSUME IndInv, Next
  PROVE  LastCovers'
<1> USE DEF IndInv, TypeOK
<1>0. /\ lastMessageAt \in Nat /\ \A m \in Msg : post[m].at \in Nat
      /\ \A m \in rows : m \in Msg /\ post'[m].kind = post[m].kind /\ post'[m].at = post[m].at
  BY RowsKeep, UnreadsAssumption DEF PostRecord, Time
<1>1. ASSUME UNCHANGED <<rows, overtaken, lastMessageAt>>,
             \A m \in rows : post[m].kind = "system" /\ post'[m].pc = "done" => post[m].pc = "done"
      PROVE  LastCovers'
  BY <1>0, <1>1 DEF LastCovers
<1>2. CASE UNCHANGED <<post, rows, overtaken, lastMessageAt>>
  BY <1>2 DEF LastCovers
<1>3. ASSUME NEW m \in Msg, Open(m) \/ AbortSend(m) \/ ReadRecipients(m) \/ InsertNotifications(m)
                            \/ LosePost(m)
      PROVE  LastCovers'
  <2>1. /\ UNCHANGED <<rows, overtaken, lastMessageAt>> /\ \A n \in Msg \ {m} : post'[n] = post[n]
        /\ m \in rows => post[m].kind = "send" \/ post'[m].pc = "failed"
    BY <1>3 DEF Open, OpenPost, AbortSend, ReadRecipients, InsertNotifications, LosePost,
                PostsShaped, PostShaped, PostRecord
  <2>2. QED BY <1>1, <2>1
<1>4. ASSUME NEW u \in User, GiveUpSystem(u), UNCHANGED <<rows, overtaken, lastMessageAt>>
      PROVE  LastCovers'
  <2>1. \A m \in Msg : post'[m] = post[m] \/ post'[m].pc = "failed"
    BY <1>4 DEF GiveUpSystem, PostRecord
  <2>2. QED BY <1>1, <1>4, <2>1
<1>5. ASSUME NEW m \in Msg, Touch(post[m].at), post'[m].at = post[m].at, rows' \subseteq rows \cup {m}
      PROVE  LastCovers'
  BY <1>0, <1>5 DEF LastCovers, Touch
<1>6. ASSUME NEW m \in Msg,
             CommitSend(m) \/ CommitForward(m) \/ \E u \in User : TouchSystem(u, m)
      PROVE  LastCovers'
  <2>1. Touch(post[m].at) /\ post'[m].at = post[m].at /\ rows' \subseteq rows \cup {m}
    BY <1>6 DEF CommitSend, CommitForward, TouchSystem, PostRecord
  <2>2. QED BY <1>5, <2>1
<1>7. ASSUME NEW u \in User, NEW m \in Msg, InsertSystem(u, m) PROVE LastCovers'
  <2>1. /\ post'[m].pc = "stored" /\ post'[m].kind = "system" /\ rows' = rows \cup {m}
        /\ UNCHANGED <<overtaken, lastMessageAt>> /\ \A n \in Msg \ {m} : post'[n] = post[n]
    BY <1>7 DEF InsertSystem
  <2>2. QED BY <1>0, <2>1 DEF LastCovers
<1>8. QED
  BY <1>2, <1>3, <1>4, <1>6, <1>7
     DEF Next, HandlePost, HandleMark, HandleLeave, AdvancePointer, ClearUpToMarker, LoseMark,
         StartMark, Remove, AdminDelete, ClearForMessage, Leave, SkipSystem, ClearForChannel,
         LoseLeave, Join

(* Who writes lastMessageAt has a row of that stamp, and if it is his own  *)
(* send, his pointer is there, too.                                        *)
LEMMA StepOthers ==
  ASSUME IndInv, Next
  PROVE  LastIsOthers'
<1> USE DEF IndInv, TypeOK
<1>0. /\ lastMessageAt \in Nat /\ \A m \in Msg : post[m].at \in Nat
      /\ \A u \in User : lastReadAt[u] \in Nat
      /\ \A k \in Mark : mark[k] \in MarkRecord /\ mark[k].at \in Nat
  BY UnreadsAssumption DEF PostRecord, MarkRecord, Time
<1>1. \A m \in rows : m \in rows' /\ post'[m].kind = post[m].kind /\ post'[m].at = post[m].at
                      /\ post'[m].author = post[m].author
  BY RowsKeep
<1>2. ASSUME lastMessageAt' = lastMessageAt,
             \A u \in members' \ left' : /\ u \in members \ left
                                         /\ HasUnread(u)' => HasUnread(u)
      PROVE  LastIsOthers'
  <2>1. ASSUME NEW u \in members' \ left', HasUnread(u)'
        PROVE  \E m \in rows : /\ post[m].at = lastMessageAt
                               /\ post[m].author # u \/ post[m].kind # "send"
    BY <1>2, <2>1 DEF LastIsOthers, HasUnread
  <2>2. QED BY <1>1, <1>2, <2>1 DEF LastIsOthers, HasUnread
<1>3. ASSUME NEW m \in Msg, lastMessageAt' = post[m].at, m \in rows', members' = members,
             left' = left, post'[m].at = post[m].at,
             \A u \in User : \/ post'[m].author # u \/ post'[m].kind # "send"
                             \/ lastReadAt'[u] = post[m].at
      PROVE  LastIsOthers'
  <2>1. ASSUME NEW u \in members \ left, HasUnread(u)'
        PROVE  post'[m].author # u \/ post'[m].kind # "send"
    BY <1>0, <1>3, <2>1 DEF HasUnread
  <2>2. QED BY <1>3, <2>1 DEF LastIsOthers
<1>4. CASE UNCHANGED <<lastMessageAt, lastReadAt, members, left>>
  BY <1>2, <1>4 DEF HasUnread
<1>5. ASSUME NEW m \in Msg,
             CommitSend(m) \/ CommitForward(m) \/ \E u \in User : TouchSystem(u, m)
      PROVE  LastIsOthers'
  <2>1. PostShaped(m) /\ post[m] \in PostRecord
    BY DEF PostsShaped
  <2>2. CASE CommitSend(m)
    BY <1>3, <2>1, <2>2 DEF CommitSend, Touch, PostRecord
  <2>3. CASE CommitForward(m)
    BY <1>3, <2>1, <2>3 DEF CommitForward, Touch, PostRecord
  <2>4. ASSUME NEW u \in User, TouchSystem(u, m) PROVE LastIsOthers'
    BY <1>3, <2>1, <2>4 DEF TouchSystem, Touch, PostRecord, PostShaped
  <2>5. QED BY <1>5, <2>2, <2>3, <2>4
<1>6. ASSUME NEW k \in Mark, AdvancePointer(k) PROVE LastIsOthers'
  <2>1. \A u \in User : lastReadAt'[u] \in Nat /\ lastReadAt'[u] >= lastReadAt[u]
    BY <1>0, <1>6 DEF AdvancePointer
  <2>2. QED BY <1>0, <1>2, <1>6, <2>1 DEF AdvancePointer, HasUnread
<1>7. ASSUME NEW u \in User, Leave(u) \/ Join(u) PROVE LastIsOthers'
  <2>1. lastMessageAt' = lastMessageAt /\ \A v \in User \ {u} : lastReadAt'[v] = lastReadAt[v]
    BY <1>7 DEF Leave, Join
  <2>2. members' \ left' = (members \ left) \ {u}
    BY <1>7 DEF Leave, Join, LeaversLeft
  <2>3. QED BY <1>2, <2>1, <2>2 DEF HasUnread
<1>8. QED
  BY <1>4, <1>5, <1>6, <1>7
     DEF Next, Open, OpenPost, HandlePost, AbortSend, ReadRecipients, InsertNotifications,
         LosePost, HandleMark, HandleLeave, ClearUpToMarker, LoseMark,
         StartMark, Remove, AdminDelete, ClearForMessage, InsertSystem, SkipSystem,
         ClearForChannel, LoseLeave

(* A notification appears for a recipient that the fan-out has read. *)
LEMMA StepNotified ==
  ASSUME IndInv, Next
  PROVE  NotifiedOnlyIfAddressed'
<1> USE DEF IndInv, TypeOK
<1>1. ASSUME NEW u \in User, NEW m \in Msg, notif'[u][m] # "none"
      PROVE  /\ m \in rows /\ post[m].kind = "send" /\ post[m].pc # "fanout"
             /\ u \in post[m].audience /\ u # post[m].author
  <2>1. CASE notif[u][m] # "none"
    BY <2>1 DEF NotifiedOnlyIfAddressed, PostsShaped, PostShaped
  <2>2. CASE notif[u][m] = "none"
    BY <1>1, <2>2, NotificationsAppear DEF InsertNotifications, PostsShaped, PostShaped
  <2>3. QED BY <2>1, <2>2
<1>2. QED BY <1>1, RowsKeep DEF NotifiedOnlyIfAddressed

(* A fan-out ends when its recipients have their notifications, or when    *)
(* there are none.                                                         *)
LEMMA StepReaches ==
  ASSUME IndInv, Next
  PROVE  FanOutReachesAll'
<1> USE DEF IndInv, TypeOK
<1>0. left \subseteq left' /\ deleted \subseteq deleted'
  <2>1. deleted \subseteq deleted'
    BY DEF Next, Open, OpenPost, HandlePost, CommitSend, AbortSend, CommitForward, ReadRecipients,
           InsertNotifications, LosePost, HandleMark, AdvancePointer, ClearUpToMarker, LoseMark,
           StartMark, Remove, AdminDelete, ClearForMessage, Leave, HandleLeave, InsertSystem,
           TouchSystem, SkipSystem, ClearForChannel, LoseLeave, Join
  <2>2. QED BY <2>1, StepLeavers
<1>1. ASSUME NEW m \in rows' \ deleted', post'[m].kind = "send", post'[m].pc = "done",
             NEW u \in post'[m].audience \ left', post[m].pc = "done"
      PROVE  notif'[u][m] # "none"
  <2>1. m \in Msg /\ u \in User
    BY StepTypes DEF PostRecord
  <2>2. m \in rows
    <3>1. CASE UNCHANGED rows
      BY <1>1, <3>1
    <3>2. ASSUME NEW n \in Msg, CommitSend(n) \/ CommitForward(n) \/ \E v \in User : InsertSystem(v, n)
          PROVE  rows' = rows \cup {n} /\ post[n].pc # "done"
      BY <3>2 DEF CommitSend, CommitForward, InsertSystem
    <3>3. QED
      BY <1>1, <3>1, <3>2
         DEF Next, Open, OpenPost, HandlePost, AbortSend, ReadRecipients,
             InsertNotifications, LosePost, HandleMark, AdvancePointer, ClearUpToMarker, LoseMark,
             StartMark, Remove, AdminDelete, ClearForMessage, Leave, HandleLeave, TouchSystem,
             SkipSystem, ClearForChannel, LoseLeave, Join
  <2>3. post[m].kind = "send" /\ u \in post[m].audience
    BY <1>1, <2>2, RowsKeep
  <2>4. notif[u][m] # "none"
    BY <1>0, <1>1, <2>2, <2>3 DEF FanOutReachesAll
  <2>5. QED BY <1>0, <1>1, <2>1, <2>4, NotificationsStay
<1>2. ASSUME NEW m \in rows' \ deleted', post'[m].kind = "send", post'[m].pc = "done",
             NEW u \in post'[m].audience \ left', post[m].pc # "done"
      PROVE  notif'[u][m] # "none"
  <2>1. m \in Msg /\ u \in User /\ post[m] \in PostRecord
    BY StepTypes DEF PostRecord
  <2>2. post'[m] # post[m]
    BY <1>2
  <2>3. ASSUME NEW n \in Msg,
               \/ Open(n) \/ AbortSend(n) \/ CommitSend(n) \/ CommitForward(n) \/ ReadRecipients(n)
               \/ LosePost(n) \/ \E v \in User : InsertSystem(v, n) \/ TouchSystem(v, n)
        PROVE  FALSE
    <3>1. n = m
      BY <2>1, <2>2, <2>3 DEF Open, OpenPost, AbortSend, CommitSend, CommitForward, ReadRecipients,
                              LosePost, InsertSystem, TouchSystem
    <3>2. CASE Open(n) \/ AbortSend(n) \/ CommitSend(n) \/ LosePost(n)
                \/ \E v \in User : InsertSystem(v, n)
      BY <1>2, <2>1, <3>1, <3>2
         DEF Open, OpenPost, AbortSend, CommitSend, LosePost, InsertSystem, NoPost, PostRecord
    <3>3. CASE CommitForward(n) \/ \E v \in User : TouchSystem(v, n)
      <4>1. post'[m].kind = post[m].kind
        BY <2>1, <3>1, <3>3 DEF CommitForward, TouchSystem, PostRecord
      <4>2. PostShaped(m)
        BY <2>1 DEF PostsShaped
      <4>3. QED BY <1>2, <3>1, <3>3, <4>1, <4>2 DEF CommitForward, TouchSystem, PostShaped
    <3>4. CASE ReadRecipients(n)
      BY <1>2, <2>1, <3>1, <3>4 DEF ReadRecipients, PostRecord
    <3>5. QED BY <2>3, <3>2, <3>3, <3>4
  <2>4. ASSUME NEW n \in Msg, InsertNotifications(n) PROVE notif'[u][m] # "none"
    <3>1. n = m /\ post'[m].audience = post[m].audience
      BY <2>1, <2>2, <2>4 DEF InsertNotifications, PostRecord
    <3>2. QED BY <1>2, <2>1, <2>4, <3>1 DEF InsertNotifications
  <2>5. ASSUME NEW v \in User, GiveUpSystem(v) PROVE FALSE
    BY <1>2, <2>1, <2>2, <2>5 DEF GiveUpSystem, PostRecord
  <2>6. QED
    BY <2>2, <2>3, <2>4, <2>5
       DEF Next, HandlePost, HandleMark, AdvancePointer, ClearUpToMarker, LoseMark,
           StartMark, Remove, AdminDelete, ClearForMessage, Leave, HandleLeave,
           SkipSystem, ClearForChannel, LoseLeave, Join
<1>3. QED BY <1>1, <1>2 DEF FanOutReachesAll

(* A mark-read that ended stays, and so does the stamp of what it read. *)
LEMMA StepMentions ==
  ASSUME IndInv, Next
  PROVE  NewerMentionsStayBadged'
<1> USE DEF IndInv, TypeOK
<1>1. ASSUME NEW k \in Mark, mark[k].pc = "done" PROVE mark'[k] = mark[k]
  <2>1. CASE UNCHANGED mark
    BY <2>1
  <2>2. ASSUME NEW j \in Mark, HandleMark(j) \/ LoseMark(j) \/
                               \E u \in User, t \in Time : StartMark(j, u, t)
        PROVE  mark'[k] = mark[k]
    BY <1>1, <2>2 DEF HandleMark, AdvancePointer, ClearUpToMarker, LoseMark, StartMark
  <2>3. QED
    BY <2>1, <2>2
       DEF Next, Open, OpenPost, HandlePost, CommitSend, AbortSend, CommitForward, ReadRecipients,
           InsertNotifications, LosePost, Remove, AdminDelete, ClearForMessage, Leave,
           HandleLeave, InsertSystem, TouchSystem, SkipSystem, ClearForChannel, LoseLeave, Join
<1>2. ASSUME NEW u \in User, NEW m \in Msg, notif'[u][m] = "read"
      PROVE  \E k \in Mark : /\ mark'[k].pc = "done" /\ mark'[k].user = u
                             /\ mark'[k].at >= post'[m].at
  <2>1. m \in rows
    BY <1>2, NotificationsAreRead DEF NotifiedOnlyIfAddressed
  <2>2. post'[m].at = post[m].at
    BY <2>1, RowsKeep
  <2>3. CASE notif[u][m] = "read"
    BY <1>1, <2>2, <2>3 DEF NewerMentionsStayBadged
  <2>4. CASE notif[u][m] # "read"
    BY <1>2, <2>2, <2>4, NotificationsAreRead
  <2>5. QED BY <2>3, <2>4
<1>3. QED BY <1>2 DEF NewerMentionsStayBadged

---------------------------------------------------------------------------
(* The theorems.                                                           *)

(* At first there are members, and nothing was posted. *)
LEMMA InitIndInv == Init => IndInv
<1> SUFFICES ASSUME Init PROVE IndInv
  OBVIOUS
<1> USE UnreadsAssumption DEF Init
<1>1. NoPost \in PostRecord /\ NoMark \in MarkRecord /\ NoPost.pc = "idle" /\ NoMark.pc = "idle"
  BY DEF NoPost, NoMark, PostRecord, MarkRecord, Time
<1>2. TypeOK
  BY <1>1 DEF TypeOK, Time
<1>3. QED
  BY <1>1, <1>2
     DEF IndInv, PostsShaped, PostShaped, LeaversLeft, MarksHold, LastCovers, LastIsOthers,
         HasUnread, NotifiedOnlyIfAddressed, FanOutReachesAll, NewerMentionsStayBadged

(* Every step keeps the invariant. *)
LEMMA StepIndInv == IndInv /\ [Next]_vars => IndInv'
<1>1. ASSUME IndInv, Next PROVE IndInv'
  BY <1>1, StepTypes, StepPosts, StepLeavers, StepMarks, StepCovers, StepOthers, StepNotified,
     StepReaches, StepMentions
     DEF IndInv
<1>2. ASSUME IndInv, UNCHANGED vars PROVE IndInv'
  BY <1>2 DEF vars, IndInv, TypeOK, PostsShaped, PostShaped, LeaversLeft, MarksHold, LastCovers,
              LastIsOthers, HasUnread, NotifiedOnlyIfAddressed, FanOutReachesAll,
              NewerMentionsStayBadged
<1>3. QED BY <1>1, <1>2

(* The inductive invariant holds in every reachable state. *)
THEOREM UnreadsInvariant == Spec => []IndInv
BY InitIndInv, StepIndInv, PTL DEF Spec

(* Pointers, posts, notifications and calls have their types. *)
THEOREM UnreadsTypeCorrect == Spec => []TypeOK
<1>1. IndInv => TypeOK
  BY DEF IndInv
<1>2. QED BY <1>1, UnreadsInvariant, PTL

(* However commits, mark-reads and removals interleave: a mark-read holds, *)
(* no member misses a message but those overtaken, and nobody is told of   *)
(* his own (messages.service.ts:170-204, notifications.service.ts:81-120). *)
THEOREM PointersRightAlways == Spec => []PointersRight
<1>1. ASSUME IndInv PROVE PointersRight
  <2>1. /\ lastMessageAt \in Nat /\ \A m \in rows : post[m].at \in Nat
        /\ \A u \in members : lastReadAt[u] \in Nat
    BY <1>1, UnreadsAssumption DEF IndInv, TypeOK, PostRecord, Time
  <2>2. DoneMarkHolds
    BY <1>1 DEF IndInv, MarksHold, DoneMarkHolds
  <2>3. UnseenIsUnread
    BY <1>1, <2>1 DEF IndInv, LastCovers, UnseenIsUnread, HasUnread
  <2>4. OwnSendNeverUnread
    BY <1>1, <2>1 DEF IndInv, LastIsOthers, OwnSendNeverUnread, HasUnread
  <2>5. QED BY <2>2, <2>3, <2>4 DEF PointersRight
<1>2. QED BY <1>1, UnreadsInvariant, PTL

(* A fan-out notifies those it addresses, all of them and nobody else,     *)
(* whoever joins, leaves or deletes while it runs detached.                *)
THEOREM FanOutRightAlways == Spec => []FanOutRight
<1>1. IndInv => FanOutRight
  BY DEF IndInv, FanOutRight
<1>2. QED BY <1>1, UnreadsInvariant, PTL

(* A mention is read only by a mark-read that reaches it                   *)
(* (notifications.service.ts:112).                                         *)
THEOREM NewerMentionsStayBadgedAlways == Spec => []NewerMentionsStayBadged
<1>1. IndInv => NewerMentionsStayBadged
  BY DEF IndInv
<1>2. QED BY <1>1, UnreadsInvariant, PTL

(* No step makes a notification unread that was read: rows are inserted    *)
(* once per message, when nobody has one of it.                            *)
THEOREM ReadStaysReadAlways == Spec => ReadStaysRead
<1>1. IndInv /\ [Next]_vars =>
        \A u \in User, m \in Msg : notif[u][m] = "read" => notif'[u][m] # "unread"
  <2> SUFFICES ASSUME IndInv, [Next]_vars, NEW u \in User, NEW m \in Msg,
                      notif[u][m] = "read", notif'[u][m] = "unread"
               PROVE  FALSE
    OBVIOUS
  <2> USE DEF IndInv, TypeOK
  <2>1. ASSUME NEW n \in Msg, InsertNotifications(n) PROVE FALSE
    BY <2>1 DEF InsertNotifications, PostsShaped, PostShaped
  <2>2. ASSUME NEW k \in Mark, ClearUpToMarker(k) PROVE FALSE
    BY <2>2 DEF ClearUpToMarker, ReadUpTo
  <2>3. ASSUME NEW n \in Msg, ClearForMessage(n) PROVE FALSE
    BY <2>3 DEF ClearForMessage
  <2>4. ASSUME NEW v \in User, ClearForChannel(v) PROVE FALSE
    BY <2>4 DEF ClearForChannel
  <2>5. ~UNCHANGED notif
    OBVIOUS
  <2>6. QED
    BY <2>1, <2>2, <2>3, <2>4, <2>5
       DEF vars, Next, Open, OpenPost, HandlePost, CommitSend, AbortSend, CommitForward,
           ReadRecipients, LosePost, HandleMark, AdvancePointer, LoseMark, StartMark, Remove,
           AdminDelete, Leave, HandleLeave, InsertSystem, TouchSystem, SkipSystem, LoseLeave, Join
<1>2. QED BY <1>1, UnreadsInvariant, PTL DEF Spec, ReadStaysRead
=============================================================================
