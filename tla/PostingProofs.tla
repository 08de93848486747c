--------------------------- MODULE PostingProofs ---------------------------
(***************************************************************************)
(* What is proved of Posting for any number of users, keys, files and      *)
(* calls: its types, its safety invariants, the draining of an archived    *)
(* channel, and that it implements MessageLog.                             *)
(*                                                                         *)
(* The invariants are not inductive one by one.  A row is unique for its   *)
(* key because a call that is about to commit has no row yet; a file is    *)
(* its author's because the transaction still knows whose files it         *)
(* validated.  IndInv adds what each program counter knows.                *)
(***************************************************************************)
EXTENDS Posting, FiniteSetTheorems, TLAPS

(* What the program counter of a call says about its record and its row. *)
PcInv ==
  \A c \in Call :
    /\ call[c].pc \in InFlight \/ c \in rows => call[c].author \in User /\ call[c].key \in Key
    /\ call[c].pc \in {"idle", "checked", "inTx"} => c \notin rows
    /\ call[c].pc = "stored" => c \in rows /\ announced[c] = 0
    /\ announced[c] <= 1
    /\ announced[c] = 1 => c \in rows /\ call[c].pc = "acked"
    /\ call[c].pc \in {"checked", "inTx"} \/ c \in rows => ParentOk(call[c].parent)

(* Files are linked once they are ready, and transactions hold their       *)
(* author's files.                                                         *)
FileInv ==
  /\ FilesBelongToAuthor
  /\ \A a \in Attachment : file[a].status # "ready" => file[a].message = None
  /\ \A c \in Call : call[c].pc = "inTx" =>
       \A a \in call[c].files : file[a].status = "ready" /\ file[a].owner = call[c].author

IndInv == PcInv /\ OneRowPerKey /\ AnsweredIsStored /\ RepliesCounted /\ FileInv

(* A step that leaves the rows, and what they say, as they are. *)
SameRows ==
  /\ rows' = rows
  /\ \A r \in rows : /\ call'[r].key = call[r].key
                     /\ call'[r].author = call[r].author
                     /\ call'[r].parent = call[r].parent

---------------------------------------------------------------------------
(* Types.                                                                  *)

(* The record a call has before it begins, or once its data is of no use. *)
LEMMA BlankType == \A pc \in {"idle"} \cup InFlight \cup Settled : Blank(pc) \in CallRecord
  BY PostingAssumption DEF Blank, CallRecord

(* The record of a file that was never stored, or failed to be. *)
LEMMA NoFileType == NoFile \in FileRecord
  BY DEF NoFile, FileRecord

(* Every handler step and every other request keeps the types. *)
LEMMA NextType == TypeOK /\ [Next]_vars => TypeOK'
<1> SUFFICES ASSUME TypeOK, [Next]_vars PROVE TypeOK'
  OBVIOUS
<1> USE DEF TypeOK, InFlight, Settled
<1>1. ASSUME NEW c \in Call, NEW u \in User, NEW k \in Key, NEW p \in Call \cup {None},
             Refuse(c, u, k, p)
      PROVE  TypeOK'
  BY <1>1, BlankType DEF Refuse
<1>2. ASSUME NEW c \in Call, NEW u \in User, NEW k \in Key, NEW p \in Call \cup {None},
             AnswerExisting(c, u, k, p)
      PROVE  TypeOK'
  <2>1. [Blank("acked") EXCEPT !.key = k] \in CallRecord
    BY PostingAssumption DEF Blank, CallRecord
  <2>2. QED BY <1>2, <2>1 DEF AnswerExisting
<1>3. ASSUME NEW c \in Call, NEW u \in User, NEW k \in Key, NEW p \in Call \cup {None},
             NEW fs \in SUBSET Attachment, Accept(c, u, k, p, fs)
      PROVE  TypeOK'
  <2>1. [pc |-> "checked", author |-> u, key |-> k, parent |-> p, files |-> fs] \in CallRecord
    BY DEF CallRecord
  <2>2. QED BY <1>3, <2>1 DEF Accept
<1>4. ASSUME NEW c \in Call, OpenTx(c) PROVE TypeOK'
  <2>1. [call[c] EXCEPT !.pc = "inTx"] \in CallRecord
    BY DEF CallRecord
  <2>2. QED BY <1>4, <2>1, BlankType DEF OpenTx
<1>5. ASSUME NEW c \in Call, Abort(c) PROVE TypeOK'
  BY <1>5, BlankType DEF Abort
<1>6. ASSUME NEW c \in Call, Commit(c) PROVE TypeOK'
  <2>1. [call[c] EXCEPT !.pc = "stored"] \in CallRecord
    BY DEF CallRecord
  <2>2. \A a \in Attachment : [file[a] EXCEPT !.message = c] \in FileRecord
    BY DEF FileRecord
  <2>3. call' \in [Call -> CallRecord]
    BY <1>6, <2>1 DEF Commit, StoreRow
  <2>4. file' \in [Attachment -> FileRecord]
    BY <1>6, <2>2 DEF Commit, StoreRow
  <2>5. replyCount' \in [Call -> Nat]
    BY <1>6 DEF Commit, StoreRow
  <2>6. QED BY <1>6, <2>3, <2>4, <2>5 DEF Commit, StoreRow
<1>7. ASSUME NEW c \in Call, Announce(c) PROVE TypeOK'
  <2>1. [call[c] EXCEPT !.pc = "acked"] \in CallRecord
    BY DEF CallRecord
  <2>2. QED BY <1>7, <2>1 DEF Announce
<1>8. ASSUME NEW c \in Call, Lose(c) PROVE TypeOK'
  <2>1. [call[c] EXCEPT !.pc = "failed"] \in CallRecord
    BY DEF CallRecord
  <2>2. QED BY <1>8, <2>1, BlankType DEF Lose
<1>9. ASSUME NEW a \in Attachment, NEW u \in User, StartUpload(a, u) PROVE TypeOK'
  <2>1. [status |-> "uploading", owner |-> u, message |-> None] \in FileRecord
    BY DEF FileRecord
  <2>2. QED BY <1>9, <2>1 DEF StartUpload
<1>10. ASSUME NEW a \in Attachment, FinishUpload(a) PROVE TypeOK'
  <2>1. [file[a] EXCEPT !.status = "ready"] \in FileRecord
    BY DEF FileRecord
  <2>2. QED BY <1>10, <2>1, NoFileType DEF FinishUpload
<1>11. ASSUME NEW u \in User, Leave(u) \/ Join(u) PROVE TypeOK'
  BY <1>11 DEF Leave, Join
<1>12. ASSUME NEW settings \in ChannelRecord, UpdateChannel(settings) PROVE TypeOK'
  BY <1>12 DEF UpdateChannel
<1>13. CASE UNCHANGED vars
  BY <1>13 DEF vars
<1>14. QED
  BY <1>1, <1>2, <1>3, <1>4, <1>5, <1>6, <1>7, <1>8, <1>9, <1>10, <1>11, <1>12, <1>13
     DEF Next, Send, Handle, Environment

(* The variables of every reachable state have their types. *)
THEOREM PostingTypeCorrect == Spec => []TypeOK
<1>1. Init => TypeOK
  BY BlankType, NoFileType DEF Init, TypeOK, ChannelRecord
<1>2. QED BY <1>1, NextType, PTL DEF Spec

---------------------------------------------------------------------------
(* The inductive invariant.                                                *)

(* What the handlers read of the rows depends on nothing else.            *)
LEMMA SameRowsSameViews ==
  ASSUME TypeOK, SameRows
  PROVE  /\ StoredKeys' = StoredKeys
         /\ \A p \in Call : Replies(p)' = Replies(p)
         /\ \A p \in Call \cup {None} : ParentOk(p)' <=> ParentOk(p)
         /\ OneRowPerKey => OneRowPerKey'
<1> USE DEF SameRows, TypeOK
<1>1. StoredKeys' = StoredKeys
  BY DEF StoredKeys
<1>2. ASSUME NEW p \in Call PROVE Replies(p)' = Replies(p)
  BY DEF Replies
<1>3. ASSUME NEW p \in Call \cup {None} PROVE ParentOk(p)' <=> ParentOk(p)
  BY DEF ParentOk
<1>4. OneRowPerKey => OneRowPerKey'
  BY DEF OneRowPerKey
<1>5. QED BY <1>1, <1>2, <1>3, <1>4

(* Most steps change one call that has no row, and nothing but calls. *)
LEMMA QuietStep ==
  ASSUME TypeOK, IndInv, TypeOK',
         NEW c \in Call, c \notin rows,
         \A d \in Call : d # c => call'[d] = call[d],
         rows' = rows, replyCount' = replyCount, announced' = announced, file' = file,
         call[c].pc # "stored", call'[c].pc \notin {"stored"},
         call'[c].pc \in InFlight => call'[c].author \in User /\ call'[c].key \in Key,
         call'[c].pc \in {"checked", "inTx"} => ParentOk(call'[c].parent),
         call'[c].pc = "acked" => call'[c].key \in StoredKeys,
         call'[c].pc = "inTx" => \A a \in call'[c].files :
            file[a].status = "ready" /\ file[a].owner = call'[c].author
  PROVE  IndInv'
<1>1. SameRows
  BY DEF SameRows, TypeOK
<1>2. /\ StoredKeys' = StoredKeys
      /\ \A p \in Call : Replies(p)' = Replies(p)
      /\ \A p \in Call \cup {None} : ParentOk(p)' <=> ParentOk(p)
      /\ OneRowPerKey'
  BY <1>1, SameRowsSameViews DEF IndInv
<1>3. \A d \in Call : call'[d].parent \in Call \cup {None}
  BY DEF TypeOK, CallRecord
<1>4. PcInv'
  BY <1>2, <1>3 DEF IndInv, PcInv, TypeOK, InFlight
<1>5. AnsweredIsStored'
  BY <1>2 DEF IndInv, AnsweredIsStored, TypeOK
<1>6. RepliesCounted'
  BY <1>2 DEF IndInv, RepliesCounted
<1>7. FileInv'
  <2>1. FilesBelongToAuthor'
    BY DEF IndInv, FileInv, FilesBelongToAuthor, TypeOK
  <2>2. QED BY <2>1 DEF IndInv, FileInv
<1>8. QED BY <1>2, <1>4, <1>5, <1>6, <1>7 DEF IndInv

(* A step that changes no call, row, counter or broadcast, and only files  *)
(* that are not ready. *)
LEMMA EnvironmentStep ==
  ASSUME TypeOK, IndInv, TypeOK',
         UNCHANGED <<call, rows, replyCount, announced>>,
         \A a \in Attachment : file'[a] = file[a]
            \/ (file[a].status # "ready" /\ file'[a].message = None)
  PROVE  IndInv'
<1>1. /\ StoredKeys' = StoredKeys
      /\ \A p \in Call : Replies(p)' = Replies(p)
      /\ \A p \in Call \cup {None} : ParentOk(p)' <=> ParentOk(p)
  BY DEF StoredKeys, Replies, ParentOk
<1>2. PcInv'
  BY <1>1 DEF IndInv, PcInv, TypeOK, CallRecord, ParentOk
<1>3. OneRowPerKey' /\ AnsweredIsStored' /\ RepliesCounted'
  BY <1>1 DEF IndInv, OneRowPerKey, AnsweredIsStored, RepliesCounted
<1>4. FilesBelongToAuthor'
  BY DEF IndInv, FileInv, FilesBelongToAuthor
<1>5. \A a \in Attachment : file'[a].status # "ready" => file'[a].message = None
  BY DEF IndInv, FileInv
<1>6. \A d \in Call : call[d].pc = "inTx" => \A a \in call[d].files :
         a \in Attachment /\ file'[a] = file[a]
  BY DEF IndInv, FileInv, TypeOK, CallRecord
<1>7. FileInv'
  BY <1>4, <1>5, <1>6 DEF IndInv, FileInv
<1>8. QED BY <1>2, <1>3, <1>7 DEF IndInv

(* The commit: the one step that stores a row, links files and counts. *)
LEMMA CommitStep ==
  ASSUME TypeOK, IndInv, TypeOK', NEW c \in Call, Commit(c)
  PROVE  IndInv'
<1> USE DEF TypeOK
<1>1. /\ call[c].pc = "inTx" /\ c \notin rows
      /\ call[c].author \in User /\ call[c].key \in Key
      /\ call[c].key \notin StoredKeys
      /\ ParentOk(call[c].parent)
      /\ call[c].parent \in Call \cup {None}
      /\ rows' = rows \cup {c} /\ announced' = announced
      /\ call' = [call EXCEPT ![c].pc = "stored"]
  BY DEF Commit, StoreRow, IndInv, PcInv, InFlight, CallRecord
<1>2. \A d \in Call : /\ call'[d].key = call[d].key
                      /\ call'[d].author = call[d].author
                      /\ call'[d].parent = call[d].parent
                      /\ call'[d].files = call[d].files
                      /\ d # c => call'[d].pc = call[d].pc
                      /\ d = c => call'[d].pc = "stored"
  BY <1>1 DEF CallRecord
<1>3. StoredKeys' = StoredKeys \cup {call[c].key}
  BY <1>1, <1>2 DEF StoredKeys
<1>4. \A p \in Call \cup {None} : ParentOk(p) => ParentOk(p)'
  BY <1>1, <1>2 DEF ParentOk
<1>5. PcInv'
  <2>1. \A d \in Call : call'[d].parent = call[d].parent /\ call[d].parent \in Call \cup {None}
    BY <1>2 DEF CallRecord
  <2>2. announced[c] = 0 /\ \A d \in Call : announced'[d] = announced[d]
    <3>1. announced[c] \in Nat /\ announced[c] <= 1 /\ announced[c] # 1
      BY <1>1 DEF IndInv, PcInv
    <3>2. QED BY <1>1, <3>1
  <2>3. \A d \in Call : d \in rows' <=> d \in rows \/ d = c
    BY <1>1
  <2>4. \A d \in Call : /\ call'[d].pc \in InFlight \/ d \in rows'
                             => call'[d].author \in User /\ call'[d].key \in Key
                        /\ call'[d].pc \in {"checked", "inTx"} \/ d \in rows'
                             => ParentOk(call[d].parent)
    BY <1>1, <1>2, <2>3 DEF IndInv, PcInv, InFlight
  <2>5. \A d \in Call : call'[d].pc \in {"checked", "inTx"} \/ d \in rows'
                             => ParentOk(call[d].parent)'
    BY <1>4, <2>1, <2>4 DEF ParentOk
  <2>6. \A d \in Call : /\ call'[d].pc \in {"idle", "checked", "inTx"} => d \notin rows'
                        /\ call'[d].pc = "stored" => d \in rows' /\ announced'[d] = 0
                        /\ announced'[d] <= 1
                        /\ announced'[d] = 1 => d \in rows' /\ call'[d].pc = "acked"
    BY <1>2, <2>2, <2>3 DEF IndInv, PcInv
  <2>7. QED BY <2>4, <2>5, <2>6 DEF PcInv
<1>6. OneRowPerKey'
  BY <1>1, <1>2 DEF IndInv, OneRowPerKey, StoredKeys
<1>7. AnsweredIsStored'
  BY <1>1, <1>2, <1>3 DEF IndInv, AnsweredIsStored
<1>8. RepliesCounted'
  <2> SUFFICES ASSUME NEW p \in Call PROVE replyCount'[p] = Cardinality(Replies(p)')
    BY DEF RepliesCounted
  <2>1. replyCount[p] = Cardinality(Replies(p))
    BY DEF IndInv, RepliesCounted
  <2>2. IsFiniteSet(Replies(p)) /\ c \notin Replies(p)
    BY <1>1, PostingAssumption, FS_Subset DEF Replies
  <2>3. CASE p = call[c].parent
    <3>1. Replies(p)' = Replies(p) \cup {c}
      BY <1>1, <1>2, <2>3 DEF Replies
    <3>2. Cardinality(Replies(p)') = Cardinality(Replies(p)) + 1
      BY <3>1, <2>2, FS_AddElement
    <3>3. QED BY <3>2, <2>1, <2>3 DEF Commit, StoreRow
  <2>4. CASE p # call[c].parent
    <3>1. Replies(p)' = Replies(p)
      BY <1>1, <1>2, <2>4 DEF Replies
    <3>2. QED BY <3>1, <2>1, <2>4 DEF Commit, StoreRow
  <2>5. QED BY <2>3, <2>4
<1>9. FileInv'
  <2>1. \A a \in Attachment : /\ file'[a].status = file[a].status
                              /\ file'[a].owner = file[a].owner
                              /\ a \in call[c].files => file'[a].message = c
                              /\ a \notin call[c].files => file'[a].message = file[a].message
    BY DEF Commit, StoreRow, FileRecord
  <2>2. \A a \in call[c].files : file[a].status = "ready" /\ file[a].owner = call[c].author
    BY <1>1 DEF IndInv, FileInv
  <2>3. FilesBelongToAuthor'
    BY <1>1, <1>2, <2>1, <2>2 DEF IndInv, FileInv, FilesBelongToAuthor
  <2>4. \A a \in Attachment : file'[a].status # "ready" => file'[a].message = None
    BY <2>1, <2>2 DEF IndInv, FileInv
  <2>5. \A d \in Call : call'[d].pc = "inTx" =>
           \A a \in call'[d].files : file'[a].status = "ready" /\ file'[a].owner = call'[d].author
    BY <1>2, <2>1 DEF IndInv, FileInv, CallRecord
  <2>6. QED BY <2>3, <2>4, <2>5 DEF FileInv
<1>10. QED BY <1>5, <1>6, <1>7, <1>8, <1>9 DEF IndInv

(* The call that has its row is announced, or any call is lost. *)
LEMMA SettleStep ==
  ASSUME TypeOK, IndInv, TypeOK', NEW c \in Call, Announce(c) \/ Lose(c)
  PROVE  IndInv'
<1> USE DEF TypeOK
<1>1. CASE c \notin rows
  <2>1. Lose(c)
    BY <1>1 DEF Announce, IndInv, PcInv
  <2>2. call[c].pc # "stored"
    BY <1>1 DEF IndInv, PcInv
  <2>3. call'[c].pc = "failed" /\ \A d \in Call : d # c => call'[d] = call[d]
    BY <1>1, <2>1 DEF Lose, Blank
  <2>4. rows' = rows /\ replyCount' = replyCount /\ announced' = announced /\ file' = file
    BY <2>1 DEF Lose
  <2>5. QED BY <1>1, <2>2, <2>3, <2>4, QuietStep DEF InFlight
<1>2. CASE c \in rows
  <2>1. /\ rows' = rows /\ replyCount' = replyCount /\ file' = file
        /\ call[c].pc = "stored" /\ announced[c] = 0
    BY <1>2 DEF Announce, Lose, IndInv, PcInv, InFlight
  <2>2. \A d \in Call : /\ call'[d].key = call[d].key
                        /\ call'[d].author = call[d].author
                        /\ call'[d].parent = call[d].parent
                        /\ call'[d].files = call[d].files
                        /\ d # c => call'[d].pc = call[d].pc /\ announced'[d] = announced[d]
    BY <1>2 DEF Announce, Lose, CallRecord
  <2>3. \/ call'[c].pc = "acked" /\ announced'[c] = 1
        \/ call'[c].pc = "failed" /\ announced'[c] = 0
    BY <1>2, <2>1 DEF Announce, Lose, CallRecord
  <2>4. SameRows
    BY <2>1, <2>2 DEF SameRows
  <2>5. /\ StoredKeys' = StoredKeys
        /\ \A p \in Call : Replies(p)' = Replies(p)
        /\ \A p \in Call \cup {None} : ParentOk(p)' <=> ParentOk(p)
        /\ OneRowPerKey'
    BY <2>4, SameRowsSameViews DEF IndInv
  <2>6. PcInv'
    <3>1. \A d \in Call : call'[d].parent = call[d].parent /\ call[d].parent \in Call \cup {None}
      BY <2>2 DEF CallRecord
    <3>2. \A d \in Call : /\ call'[d].pc \in InFlight \/ d \in rows'
                               => call'[d].author \in User /\ call'[d].key \in Key
                          /\ call'[d].pc \in {"checked", "inTx"} \/ d \in rows'
                               => ParentOk(call[d].parent)
      BY <1>2, <2>1, <2>2, <2>3 DEF IndInv, PcInv, InFlight
    <3>3. \A d \in Call : call'[d].pc \in {"checked", "inTx"} \/ d \in rows'
                               => ParentOk(call[d].parent)'
      BY <2>5, <3>1, <3>2 DEF ParentOk
    <3>4. \A d \in Call : /\ call'[d].pc \in {"idle", "checked", "inTx"} => d \notin rows'
                          /\ call'[d].pc = "stored" => d \in rows' /\ announced'[d] = 0
                          /\ announced'[d] <= 1
                          /\ announced'[d] = 1 => d \in rows' /\ call'[d].pc = "acked"
      BY <1>2, <2>1, <2>2, <2>3 DEF IndInv, PcInv
    <3>5. QED BY <3>2, <3>3, <3>4 DEF PcInv
  <2>7. AnsweredIsStored'
    <3>1. call[c].key \in StoredKeys
      BY <1>2 DEF StoredKeys
    <3>2. \A d \in Call : d # c => (call'[d].pc = "acked" => call'[d].key \in StoredKeys)
      BY <2>2 DEF IndInv, AnsweredIsStored
    <3>3. \A d \in Call : call'[d].pc = "acked" => call'[d].key \in StoredKeys
      BY <2>2, <3>1, <3>2
    <3>4. QED BY <2>5, <3>3 DEF AnsweredIsStored
  <2>8. RepliesCounted'
    BY <2>1, <2>5 DEF IndInv, RepliesCounted
  <2>9. FileInv'
    <3>1. FilesBelongToAuthor'
      BY <2>1, <2>2 DEF IndInv, FileInv, FilesBelongToAuthor
    <3>2. \A d \in Call : call'[d].pc = "inTx" =>
             \A a \in call'[d].files : file'[a].status = "ready" /\ file'[a].owner = call'[d].author
      BY <2>1, <2>2, <2>3 DEF IndInv, FileInv, CallRecord
    <3>3. QED BY <2>1, <3>1, <3>2 DEF IndInv, FileInv
  <2>10. QED BY <2>5, <2>6, <2>7, <2>8, <2>9 DEF IndInv
<1>3. QED BY <1>1, <1>2

(* The inductive step, action by action. *)
LEMMA NextInv == TypeOK /\ IndInv /\ [Next]_vars => IndInv'
<1> SUFFICES ASSUME TypeOK, IndInv, [Next]_vars PROVE IndInv'
  OBVIOUS
<1>0. TypeOK'
  BY NextType
<1> USE <1>0
<1>1. ASSUME NEW c \in Call, NEW u \in User, NEW k \in Key, NEW p \in Call \cup {None},
             Refuse(c, u, k, p)
      PROVE  IndInv'
  <2>1. c \notin rows /\ call[c].pc = "idle"
    BY <1>1 DEF Refuse, IndInv, PcInv
  <2>2. call'[c] = Blank("failed") /\ \A d \in Call : d # c => call'[d] = call[d]
    BY <1>1 DEF Refuse, TypeOK
  <2>3. call'[c].pc = "failed"
    BY <2>2 DEF Blank
  <2>4. rows' = rows /\ replyCount' = replyCount /\ announced' = announced /\ file' = file
    BY <1>1 DEF Refuse
  <2>5. QED BY <2>1, <2>2, <2>3, <2>4, QuietStep DEF InFlight
<1>2. ASSUME NEW c \in Call, NEW u \in User, NEW k \in Key, NEW p \in Call \cup {None},
             AnswerExisting(c, u, k, p)
      PROVE  IndInv'
  <2>1. c \notin rows /\ call[c].pc = "idle" /\ k \in StoredKeys
    BY <1>2 DEF AnswerExisting, IndInv, PcInv
  <2>2. /\ call'[c] = [Blank("acked") EXCEPT !.key = k]
        /\ \A d \in Call : d # c => call'[d] = call[d]
    BY <1>2 DEF AnswerExisting, TypeOK
  <2>3. call'[c].pc = "acked" /\ call'[c].key = k
    BY <2>2 DEF Blank
  <2>4. rows' = rows /\ replyCount' = replyCount /\ announced' = announced /\ file' = file
    BY <1>2 DEF AnswerExisting
  <2>5. QED BY <2>1, <2>2, <2>3, <2>4, QuietStep DEF InFlight
<1>3. ASSUME NEW c \in Call, NEW u \in User, NEW k \in Key, NEW p \in Call \cup {None},
             NEW fs \in SUBSET Attachment, Accept(c, u, k, p, fs)
      PROVE  IndInv'
  <2>1. c \notin rows /\ call[c].pc = "idle" /\ ParentOk(p)
    BY <1>3 DEF Accept, IndInv, PcInv
  <2>2. /\ call'[c] = [pc |-> "checked", author |-> u, key |-> k, parent |-> p, files |-> fs]
        /\ \A d \in Call : d # c => call'[d] = call[d]
    BY <1>3 DEF Accept, TypeOK
  <2>3. /\ call'[c].pc = "checked" /\ call'[c].author = u
        /\ call'[c].key = k /\ call'[c].parent = p
    BY <2>2
  <2>4. rows' = rows /\ replyCount' = replyCount /\ announced' = announced /\ file' = file
    BY <1>3 DEF Accept
  <2>5. QED BY <2>1, <2>2, <2>3, <2>4, QuietStep DEF InFlight
<1>4. ASSUME NEW c \in Call, OpenTx(c) PROVE IndInv'
  <2>1. /\ c \notin rows /\ call[c].pc = "checked" /\ ParentOk(call[c].parent)
        /\ call[c].author \in User /\ call[c].key \in Key
    BY <1>4 DEF OpenTx, IndInv, PcInv, InFlight
  <2>2. \A d \in Call : d # c => call'[d] = call[d]
    BY <1>4 DEF OpenTx, TypeOK
  <2>3. rows' = rows /\ replyCount' = replyCount /\ announced' = announced /\ file' = file
    BY <1>4 DEF OpenTx
  <2>4. CASE FilesOk(call[c].author, call[c].files)
    <3>1. /\ call'[c].pc = "inTx" /\ call'[c].author = call[c].author
          /\ call'[c].key = call[c].key /\ call'[c].parent = call[c].parent
          /\ call'[c].files = call[c].files
      BY <1>4, <2>4 DEF OpenTx, TypeOK, CallRecord
    <3>2. \A a \in call'[c].files : file[a].status = "ready" /\ file[a].owner = call'[c].author
      BY <2>4, <3>1 DEF FilesOk
    <3>3. QED BY <2>1, <2>2, <2>3, <3>1, <3>2, QuietStep
  <2>5. CASE ~FilesOk(call[c].author, call[c].files)
    <3>1. call'[c].pc = "failed"
      BY <1>4, <2>5 DEF OpenTx, TypeOK, Blank
    <3>2. QED BY <2>1, <2>2, <2>3, <3>1, QuietStep DEF InFlight
  <2>6. QED BY <2>4, <2>5
<1>5. ASSUME NEW c \in Call, Abort(c) PROVE IndInv'
  <2>1. c \notin rows /\ call[c].pc = "inTx"
    BY <1>5 DEF Abort, IndInv, PcInv
  <2>2. call'[c].pc = "failed" /\ \A d \in Call : d # c => call'[d] = call[d]
    BY <1>5 DEF Abort, TypeOK, Blank
  <2>3. rows' = rows /\ replyCount' = replyCount /\ announced' = announced /\ file' = file
    BY <1>5 DEF Abort
  <2>4. QED BY <2>1, <2>2, <2>3, QuietStep DEF InFlight
<1>6. ASSUME NEW c \in Call, Commit(c) PROVE IndInv'
  BY <1>6, CommitStep
<1>7. ASSUME NEW c \in Call, Announce(c) \/ Lose(c) PROVE IndInv'
  BY <1>7, SettleStep
<1>8. ASSUME NEW a \in Attachment,
             (\E u \in User : StartUpload(a, u)) \/ FinishUpload(a)
      PROVE  IndInv'
  <2>1. UNCHANGED <<call, rows, replyCount, announced>>
    BY <1>8 DEF StartUpload, FinishUpload
  <2>2. \A b \in Attachment : b # a => file'[b] = file[b]
    BY <1>8 DEF StartUpload, FinishUpload, TypeOK
  <2>3. file[a].status # "ready" /\ file[a].message = None
    BY <1>8 DEF StartUpload, FinishUpload, IndInv, FileInv
  <2>4. file'[a].message = None
    <3>1. [file[a] EXCEPT !.status = "ready"].message = file[a].message
      BY DEF TypeOK, FileRecord
    <3>2. NoFile.message = None
      BY DEF NoFile
    <3>3. CASE \E u \in User : StartUpload(a, u)
      BY <3>3 DEF StartUpload, TypeOK
    <3>4. CASE FinishUpload(a)
      <4>1. file'[a] = [file[a] EXCEPT !.status = "ready"] \/ file'[a] = NoFile
        BY <3>4 DEF FinishUpload, TypeOK
      <4>2. QED BY <2>3, <3>1, <3>2, <4>1
    <3>5. QED BY <1>8, <3>3, <3>4
  <2>5. QED BY <2>1, <2>2, <2>3, <2>4, EnvironmentStep
<1>9. CASE UNCHANGED <<call, rows, replyCount, announced, file>>
  BY <1>9, EnvironmentStep
<1>10. ASSUME NEW u \in User, Leave(u) \/ Join(u) PROVE IndInv'
  BY <1>9, <1>10 DEF Leave, Join
<1>11. ASSUME NEW settings \in ChannelRecord, UpdateChannel(settings) PROVE IndInv'
  BY <1>9, <1>11 DEF UpdateChannel
<1>12. CASE UNCHANGED vars
  BY <1>9, <1>12 DEF vars
<1>13. QED
  BY <1>1, <1>2, <1>3, <1>4, <1>5, <1>6, <1>7, <1>8, <1>10, <1>11, <1>12
     DEF Next, Send, Handle, Environment

(* The empty channel. *)
LEMMA InitInv == Init => IndInv
<1> SUFFICES ASSUME Init PROVE IndInv
  OBVIOUS
<1>1. \A c \in Call : call[c] = Blank("idle") /\ announced[c] = 0 /\ replyCount[c] = 0
  BY DEF Init
<1>2. rows = {} /\ \A a \in Attachment : file[a] = NoFile
  BY DEF Init
<1>3. PcInv
  BY <1>1, <1>2 DEF PcInv, Blank, InFlight
<1>4. OneRowPerKey /\ AnsweredIsStored
  BY <1>1, <1>2 DEF OneRowPerKey, AnsweredIsStored, Blank
<1>5. RepliesCounted
  <2>1. \A p \in Call : Replies(p) = {}
    BY <1>2 DEF Replies
  <2>2. QED BY <1>1, <2>1, FS_EmptySet DEF RepliesCounted
<1>6. FileInv
  BY <1>1, <1>2 DEF FileInv, FilesBelongToAuthor, NoFile, Blank
<1>7. QED BY <1>3, <1>4, <1>5, <1>6 DEF IndInv

(* In every reachable state each program counter tells the truth about its *)
(* row, and the four invariants it supports hold together with it.         *)
THEOREM PostingInvariant == Spec => [](TypeOK /\ IndInv)
<1>1. Init => TypeOK /\ IndInv
  <2>1. Init => TypeOK
    BY BlankType, NoFileType DEF Init, TypeOK, ChannelRecord
  <2>2. QED BY <2>1, InitInv
<1>2. TypeOK /\ IndInv /\ [Next]_vars => (TypeOK /\ IndInv)'
  BY NextType, NextInv
<1>3. QED BY <1>1, <1>2, PTL DEF Spec

---------------------------------------------------------------------------
(* What follows from it.                                                   *)

(* The channel never holds two messages of one client message id.          *)
THEOREM OneRowPerKeyAlways == Spec => []OneRowPerKey
<1>1. IndInv => OneRowPerKey
  BY DEF IndInv
<1>2. QED BY <1>1, PostingInvariant, PTL

(* Whoever was told that a message was sent finds it in the channel.       *)
THEOREM AnsweredIsStoredAlways == Spec => []AnsweredIsStored
<1>1. IndInv => AnsweredIsStored
  BY DEF IndInv
<1>2. QED BY <1>1, PostingInvariant, PTL

(* The stored reply counters count the stored replies.                     *)
THEOREM RepliesCountedAlways == Spec => []RepliesCounted
<1>1. IndInv => RepliesCounted
  BY DEF IndInv
<1>2. QED BY <1>1, PostingInvariant, PTL

(* A linked file hangs at a stored message of its uploader.                *)
THEOREM FilesBelongToAuthorAlways == Spec => []FilesBelongToAuthor
<1>1. IndInv => FilesBelongToAuthor
  BY DEF IndInv, FileInv
<1>2. QED BY <1>1, PostingInvariant, PTL

(* No message is broadcast twice, early, or under two ids.                 *)
THEOREM AnnouncedOnceAlways == Spec => []AnnouncedOnce
<1>1. IndInv => AnnouncedOnce
  BY DEF IndInv, PcInv, OneRowPerKey, AnnouncedOnce
<1>2. QED BY <1>1, PostingInvariant, PTL

(* A stored reply hangs below a stored top-level message.                  *)
THEOREM ThreadsAreFlatAlways == Spec => []ThreadsAreFlat
<1>1. TypeOK /\ IndInv => ThreadsAreFlat
  BY DEF TypeOK, IndInv, PcInv, ParentOk, ThreadsAreFlat
<1>2. QED BY <1>1, PostingInvariant, PTL

(* Once an archived channel's checked calls are over, nothing is posted    *)
(* until the channel is opened again.                                      *)
THEOREM ArchivedChannelDrains == Spec => ArchivedDrains
<1> DEFINE Drained == channel.archived /\ (\A c \in Call : call[c].pc \notin {"checked", "inTx"})
           Frozen == rows' = rows /\ \A c \in Call : call'[c].pc \notin {"checked", "inTx"}
<1>1. TypeOK /\ [Next]_vars => (Drained => Frozen)
  <2> SUFFICES ASSUME TypeOK, [Next]_vars, Drained PROVE Frozen
    OBVIOUS
  <2>2. ASSUME NEW c \in Call, Send(c) PROVE Frozen
    <3>1. \E u \in User, k \in Key, p \in Call \cup {None} : Refuse(c, u, k, p)
      BY <2>2 DEF Send, AnswerExisting, Accept, Postable
    <3>2. rows' = rows /\ call' = [call EXCEPT ![c] = Blank("failed")]
      BY <3>1 DEF Refuse
    <3>3. Blank("failed").pc = "failed"
      BY DEF Blank
    <3>4. QED BY <3>2, <3>3 DEF TypeOK
  <2>3. ASSUME NEW c \in Call, Handle(c) \/ Lose(c) PROVE Frozen
    <3>1. Announce(c) \/ Lose(c)
      BY <2>3 DEF Handle, OpenTx, Abort, Commit
    <3>2. rows' = rows /\ \A d \in Call : d # c => call'[d] = call[d]
      BY <3>1 DEF Announce, Lose, TypeOK
    <3>3. call'[c].pc \in Settled
      BY <3>1 DEF Announce, Lose, TypeOK, CallRecord, Settled, Blank
    <3>4. QED BY <3>2, <3>3 DEF Settled
  <2>4. CASE Environment \/ UNCHANGED vars
    BY <2>4 DEF Environment, StartUpload, FinishUpload, Leave, Join, UpdateChannel, vars
  <2>5. QED BY <2>2, <2>3, <2>4 DEF Next
<1>2. TypeOK /\ [Next]_vars => [Drained => Frozen]_vars
  BY <1>1
<1>3. QED BY <1>2, PostingTypeCorrect, PTL DEF Spec, ArchivedDrains

---------------------------------------------------------------------------
(* The implementation of the log.                                          *)

(* A step that changes no row and no broadcast, and lets at most one more  *)
(* call be acknowledged, for a stored key.                                 *)
LEMMA QuietLogStep ==
  ASSUME TypeOK, IndInv, SameRows, announced' = announced,
         NEW c \in Call,
         \A d \in Call : d # c => call'[d].pc = call[d].pc /\ call'[d].key = call[d].key,
         call[c].pc # "acked",
         call'[c].pc = "acked" => call'[c].key \in StoredKeys
  PROVE  [Log!LogNext]_(Log!logVars)
<1>1. Entries' = Entries /\ AnnouncedRows' = AnnouncedRows
  BY DEF Entries, AnnouncedRows, SameRows, TypeOK
<1>2. CASE call'[c].pc # "acked"
  <2>1. AnsweredKeys' = AnsweredKeys
    BY <1>2 DEF AnsweredKeys
  <2>2. QED BY <1>1, <2>1 DEF Log!logVars
<1>3. CASE call'[c].pc = "acked"
  <2>1. AnsweredKeys' = AnsweredKeys \cup {call'[c].key}
    <3>1. {d \in Call : call'[d].pc = "acked"} = {d \in Call : call[d].pc = "acked"} \cup {c}
      BY <1>3
    <3>2. \A d \in {e \in Call : call[e].pc = "acked"} : call'[d].key = call[d].key
      OBVIOUS
    <3>3. QED BY <3>1, <3>2 DEF AnsweredKeys
  <2>2. PICK r \in rows : call[r].key = call'[c].key
    BY <1>3 DEF StoredKeys
  <2>3. call'[c].key \in Log!KeysOf(Entries)
    <3>1. [key |-> call[r].key, id |-> r] \in Entries
      BY DEF Entries
    <3>2. [key |-> call[r].key, id |-> r].key = call[r].key
      OBVIOUS
    <3>3. QED BY <2>2, <3>1, <3>2 DEF Log!KeysOf
  <2>4. call'[c].key \in Key
    BY <2>2 DEF IndInv, PcInv, TypeOK
  <2>5. Log!AnswerAgain(call'[c].key)
    BY <1>1, <2>1, <2>3 DEF Log!AnswerAgain
  <2>6. QED BY <2>4, <2>5 DEF Log!LogNext
<1>4. QED BY <1>2, <1>3

(* A commit appends the entry of its key. *)
LEMMA CommitStores ==
  ASSUME TypeOK, IndInv, NEW c \in Call, Commit(c)
  PROVE  Log!Store(call[c].key, c) /\ call[c].key \in Key
<1> USE DEF TypeOK
<1>1. /\ call[c].pc = "inTx" /\ c \notin rows
      /\ call[c].key \in Key
      /\ call[c].key \notin StoredKeys
      /\ rows' = rows \cup {c} /\ announced' = announced
      /\ call' = [call EXCEPT ![c].pc = "stored"]
  BY DEF Commit, StoreRow, IndInv, PcInv, InFlight
<1>2. \A d \in Call : /\ call'[d].key = call[d].key
                      /\ call'[d].pc = "acked" <=> call[d].pc = "acked"
  BY <1>1 DEF CallRecord
<1>3. Entries' = Entries \cup {[key |-> call[c].key, id |-> c]}
  BY <1>1, <1>2 DEF Entries
<1>4. AnnouncedRows' = AnnouncedRows /\ AnsweredKeys' = AnsweredKeys
  BY <1>1, <1>2 DEF AnnouncedRows, AnsweredKeys
<1>5. call[c].key \notin Log!KeysOf(Entries) /\ c \notin Log!IdsOf(Entries)
  BY <1>1 DEF Log!KeysOf, Log!IdsOf, Entries, StoredKeys
<1>6. QED BY <1>1, <1>3, <1>4, <1>5 DEF Log!Store

(* An announcement publishes the entry of its row. *)
LEMMA AnnouncePublishes ==
  ASSUME TypeOK, IndInv, NEW c \in Call, Announce(c)
  PROVE  \E e \in Entries : Log!Publish(e)
<1> USE DEF TypeOK
<1> DEFINE e == [key |-> call[c].key, id |-> c]
<1>1. c \in rows /\ call[c].pc = "stored" /\ announced[c] = 0 /\ rows' = rows
  BY DEF Announce, IndInv, PcInv
<1>2. \A d \in Call : /\ call'[d].key = call[d].key
                      /\ call'[d].pc = "acked" <=> (call[d].pc = "acked" \/ d = c)
                      /\ announced'[d] > 0 <=> (announced[d] > 0 \/ d = c)
  BY <1>1 DEF Announce, CallRecord
<1>3. Entries' = Entries /\ e \in Entries
  BY <1>1, <1>2 DEF Entries
<1>4. AnnouncedRows' = AnnouncedRows \cup {c} /\ c \notin AnnouncedRows
  BY <1>1, <1>2 DEF AnnouncedRows
<1>5. AnsweredKeys' = AnsweredKeys \cup {call[c].key}
  <2>1. {d \in Call : call'[d].pc = "acked"} = {d \in Call : call[d].pc = "acked"} \cup {c}
    BY <1>2
  <2>2. QED BY <1>2, <2>1 DEF AnsweredKeys
<1>6. e.key = call[c].key /\ e.id = c
  OBVIOUS
<1>7. Log!Publish(e)
  BY <1>3, <1>4, <1>5, <1>6 DEF Log!Publish
<1>8. QED BY <1>3, <1>7

(* Every step of posting is a step of the log or changes nothing it sees. *)
LEMMA LogStep == TypeOK /\ IndInv /\ [Next]_vars => [Log!LogNext]_(Log!logVars)
<1> SUFFICES ASSUME TypeOK, IndInv, [Next]_vars PROVE [Log!LogNext]_(Log!logVars)
  OBVIOUS
<1>1. ASSUME NEW c \in Call, NEW u \in User, NEW k \in Key, NEW p \in Call \cup {None},
             Refuse(c, u, k, p) \/ AnswerExisting(c, u, k, p)
                \/ \E fs \in SUBSET Attachment : Accept(c, u, k, p, fs)
      PROVE  [Log!LogNext]_(Log!logVars)
  <2>1. c \notin rows /\ call[c].pc = "idle" /\ rows' = rows /\ announced' = announced
    BY <1>1 DEF Refuse, AnswerExisting, Accept, IndInv, PcInv
  <2>2. \A d \in Call : d # c => call'[d] = call[d]
    BY <1>1 DEF Refuse, AnswerExisting, Accept, TypeOK
  <2>3. call'[c].pc = "acked" => call'[c].key \in StoredKeys
    <3>1. CASE AnswerExisting(c, u, k, p)
      BY <3>1 DEF AnswerExisting, TypeOK, Blank
    <3>2. CASE Refuse(c, u, k, p)
      BY <3>2 DEF Refuse, TypeOK, Blank
    <3>3. CASE \E fs \in SUBSET Attachment : Accept(c, u, k, p, fs)
      BY <3>3 DEF Accept, TypeOK
    <3>4. QED BY <1>1, <3>1, <3>2, <3>3
  <2>4. SameRows
    BY <2>1, <2>2 DEF SameRows, TypeOK
  <2>5. QED BY <2>1, <2>2, <2>3, <2>4, QuietLogStep
<1>2. ASSUME NEW c \in Call, OpenTx(c) \/ Abort(c) \/ Lose(c)
      PROVE  [Log!LogNext]_(Log!logVars)
  <2>1. /\ call[c].pc # "acked" /\ rows' = rows /\ announced' = announced
        /\ \A d \in Call : d # c => call'[d] = call[d]
    BY <1>2 DEF OpenTx, Abort, Lose, InFlight, TypeOK
  <2>2. call'[c].pc # "acked"
    <3>1. [call[c] EXCEPT !.pc = "inTx"].pc = "inTx"
          /\ [call[c] EXCEPT !.pc = "failed"].pc = "failed" /\ Blank("failed").pc = "failed"
      BY DEF TypeOK, CallRecord, Blank
    <3>2. call'[c] \in {[call[c] EXCEPT !.pc = "inTx"], [call[c] EXCEPT !.pc = "failed"],
                        Blank("failed")}
      BY <1>2 DEF OpenTx, Abort, Lose, TypeOK
    <3>3. QED BY <3>1, <3>2
  <2>3. c \in rows => /\ call'[c].key = call[c].key /\ call'[c].author = call[c].author
                      /\ call'[c].parent = call[c].parent
    BY <1>2 DEF OpenTx, Abort, Lose, IndInv, PcInv, TypeOK, CallRecord
  <2>4. SameRows
    BY <2>1, <2>3 DEF SameRows, TypeOK
  <2>5. QED BY <2>1, <2>2, <2>4, QuietLogStep
<1>3. ASSUME NEW c \in Call, Commit(c) PROVE [Log!LogNext]_(Log!logVars)
  BY <1>3, CommitStores DEF Log!LogNext
<1>4. ASSUME NEW c \in Call, Announce(c) PROVE [Log!LogNext]_(Log!logVars)
  BY <1>4, AnnouncePublishes DEF Log!LogNext
<1>5. CASE Environment \/ UNCHANGED vars
  <2>1. UNCHANGED <<call, rows, announced>>
    BY <1>5 DEF Environment, StartUpload, FinishUpload, Leave, Join, UpdateChannel, vars
  <2>2. QED BY <2>1 DEF Log!logVars, Entries, AnnouncedRows, AnsweredKeys
<1>6. QED BY <1>1, <1>2, <1>3, <1>4, <1>5 DEF Next, Send, Handle

(* Posting implements the idempotent log, for any number of concurrent     *)
(* calls and repeated keys.                                                *)
THEOREM PostingImplementsLog == Spec => ImplementsLog
<1>1. Init => Log!LogInit
  BY DEF Init, Log!LogInit, Entries, AnnouncedRows, AnsweredKeys, Blank
<1>2. TypeOK /\ IndInv /\ [Next]_vars => [Log!LogNext]_(Log!logVars)
  BY LogStep
<1>3. QED BY <1>1, <1>2, PostingInvariant, PTL DEF Spec, ImplementsLog, Log!LogSpec
===========================================================================
