-------------------------- MODULE MessageCacheProofs --------------------------
(***************************************************************************)
(* The device's list of a channel is right for any number of messages,     *)
(* handlers, operations and disconnections: a message is listed once, no   *)
(* reply is listed, and a device that stayed connected shows at rest what  *)
(* the server has.                                                         *)
(*                                                                         *)
(* The last takes an invariant that looks into the future of the device:   *)
(* for every message there is a course of what the device will list of it, *)
(* one entry per event on the wire, and the course ends as the row is, up  *)
(* to the one event that a handler is still to send.  The course need not  *)
(* begin with the list as it is: an answer that arrives between events     *)
(* changes the list, and an event with a snapshot that is still to come    *)
(* makes what was listed before it irrelevant; so it is for a message that *)
(* a page passed by.  A page on its way has its own courses, as if it were *)
(* the list, and they become the list's when it arrives.                   *)
(***************************************************************************)
EXTENDS MessageCache, FiniteSetTheorems, TLAPS

---------------------------------------------------------------------------
(* The invariant, part by part.                                            *)

(* What a handler at a step knows of its operation and its message.        *)
ProcHolds(p) ==
  \/ p = Idle
  \/ /\ p.pc # "idle" /\ p.msg \in Message /\ p.op \in Ops \cup {"send"}
     /\ p.pc \in {"look", "hydrate"} => p.op = "react"
     /\ p.pc = "answer" => p.own
     /\ p.own => p.msg \in Own /\ p.op \in {"send", "edit"}
     /\ p.op = "send" /\ p.pc = "write" <=> ~rows[p.msg].stored
     /\ p.op = "send" /\ Parent[p.msg] # None => rows[Parent[p.msg]].stored
     /\ p.pc \in {"emit", "answer"} => /\ p.dto \in Entry
                                       /\ p.dto.msg = p.msg /\ ~p.dto.pending

(* A message under way is stored by one handler, and nobody else has it.   *)
OneSender ==
  \A g, h \in Handler :
    proc[g].pc = "write" /\ proc[g].op = "send" /\ proc[h].msg = proc[g].msg => g = h

(* An event is about a stored message and carries no bubble. *)
EventHolds(ev) ==
  /\ ~ev.dto.pending
  /\ ev.type = "reply" => Parent[ev.dto.msg] # None
  /\ About(ev) \in Message /\ rows[About(ev)].stored

(* An edit is counted before it is written. *)
Editing(m) == {h \in Handler : proc[h].pc = "write" /\ proc[h].op = "edit" /\ proc[h].msg = m}
EditsCounted ==
  \A m \in Message : IsFiniteSet(Editing(m)) /\ rows[m].text + Cardinality(Editing(m)) <= asked

Formed ==
  /\ \A h \in Handler : ProcHolds(proc[h])
  /\ OneSender
  /\ \A i \in DOMAIN wire : EventHolds(wire[i])
  /\ EditsCounted

(* The list and a page on its way have a message once, and no reply. *)
Tidy(page) ==
  /\ \A e, f \in page : e.msg = f.msg => e = f
  /\ \A e \in page : Parent[e.msg] = None

(* Without a disconnection the socket is in its room. *)
Connected == drops = 0 => online /\ joined

(* A page has what was stored when it was read. *)
PageStored == \A e \in fetch.page : rows[e.msg].stored

(* A message that is not raced has one handler that wrote it and has not   *)
(* told, and what that one tells is the row as it is.                      *)
OneWriter ==
  \A g, h \in Untold : Touched(g) \cap Touched(h) \subseteq raced \/ g = h
SnapshotsFresh ==
  \A h \in Handler : proc[h].pc \in {"emit", "answer"} /\ proc[h].msg \notin raced
                       => proc[h].dto = Dto(rows, proc[h].msg)

Listed(page, m) == {e \in page : e.msg = m}

(* What is not stored is listed as a bubble while its request is under way. *)
BubblesSent ==
  drops = 0 => \A m \in Message : ~rows[m].stored =>
    /\ Listed(list, m) \subseteq {Bubble(m)}
    /\ \/ Listed(list, m) = {}
       \/ \E h \in Handler : proc[h].pc = "write" /\ proc[h].op = "send" /\ proc[h].msg = m

(* What the device lists, and what it will list when the page on its way   *)
(* arrives; and the messages that either need not be right about.          *)
Copies == {"list", "page"}
Copy(c) == IF c = "list" THEN list ELSE fetch.page
Excused(c) == IF c = "list" THEN stale
              ELSE IF fetch.pc = "answered" THEN fetch.passed ELSE Message

(* The answer to come is what the device lists or will list anyway, as the *)
(* last that it hears of the message.                                      *)
Snapshot(ev, m) == ev.type \in {"new", "updated"} /\ ev.dto.msg = m
Agrees(c, m, d) ==
  \/ /\ m \in Excused(c) \/ Listed(Copy(c), m) = {d}
     /\ \A i \in DOMAIN wire : About(wire[i]) # m
  \/ \E k \in DOMAIN wire :
       /\ Snapshot(wire[k], m) /\ wire[k].dto = d
       /\ \A i \in k + 1 .. Len(wire) : About(wire[i]) # m
AnswersAgree ==
  drops = 0 => \A h \in Handler : proc[h].pc = "answer" /\ proc[h].msg \notin raced =>
    \A c \in Copies : Agrees(c, proc[h].msg, proc[h].dto)

(* Entries that show the same to a reader. *)
Alike(e, f) ==
  /\ e.msg = f.msg /\ e.pending = f.pending /\ e.deleted = f.deleted /\ e.replies = f.replies
  /\ ~e.deleted => e.text = f.text /\ e.pinned = f.pinned /\ e.reacted = f.reacted
Shows(S, m) == \E e \in Entry : S = {e} /\ Alike(e, Dto(rows, m))

(* The handlers that are to send an event about m, and the event. *)
Telling(m) == {h \in Handler : proc[h].pc \in {"hydrate", "emit"} /\ m \in Touched(h)}
EventOf(h) == [type |-> EventType(proc[h]), dto |-> proc[h].dto]

(* The course of m: v[i] is what the device lists of m after its i-th      *)
(* event, from now on or from a snapshot on.                               *)
After(S, ev, m) == Listed(OnEvent(S, ev), m)
Course(c, m, k, v) ==
  /\ k = 0 => /\ v[0] = Listed(v[0], m)
              /\ m \in Excused(c) \/ v[0] = Listed(Copy(c), m)
  /\ k # 0 => Snapshot(wire[k], m) /\ v[k] = {wire[k].dto}
  /\ \A i \in k .. Len(wire) - 1 : v[i + 1] = After(v[i], wire[i + 1], m)
EndsRight(m, S) ==
  /\ Telling(m) = {} => Shows(S, m)
  /\ \A h \in Telling(m) : proc[h].pc = "emit" => Shows(After(S, EventOf(h), m), m)
WillShow(c, m) ==
  \E k \in 0 .. Len(wire) : \E v \in [k .. Len(wire) -> SUBSET Entry] :
    Course(c, m, k, v) /\ EndsRight(m, v[Len(wire)])
ListComesRight ==
  drops = 0 => \A c \in Copies, m \in Message \ raced :
    rows[m].stored /\ Parent[m] = None => WillShow(c, m)

IndInv ==
  /\ TypeOK /\ Formed /\ Tidy(list) /\ Tidy(fetch.page) /\ Connected /\ PageStored
  /\ OneWriter /\ SnapshotsFresh /\ BubblesSent /\ AnswersAgree /\ ListComesRight

---------------------------------------------------------------------------
(* What events do to a page.                                               *)

Tombstone(e) == [e EXCEPT !.deleted = TRUE, !.text = 0]
Longer(e) == [e EXCEPT !.replies = @ + 1]
Rewrite(e, ev) == IF ev.type = "deleted" THEN Tombstone(e) ELSE Longer(e)
Rewritten(S, ev, m) == {IF e.msg = m /\ ~e.pending THEN Rewrite(e, ev) ELSE e : e \in S}

(* A rewritten entry is an entry, of the same message. *)
LEMMA RewriteKeeps ==
  ASSUME NEW e \in Entry, NEW ev
  PROVE  Rewrite(e, ev) \in Entry /\ Rewrite(e, ev).msg = e.msg
<1>1. 0 \in 0 .. MaxOps /\ e.replies + 1 \in Nat
  BY MessageCacheAssumption DEF Entry
<1>2. Tombstone(e) \in Entry /\ Tombstone(e).msg = e.msg
  BY <1>1 DEF Entry, Tombstone
<1>3. Longer(e) \in Entry /\ Longer(e).msg = e.msg
  BY <1>1 DEF Entry, Longer
<1>4. QED BY <1>2, <1>3 DEF Rewrite

(* An event replaces what is listed of a message or rewrites it. *)
LEMMA EventKinds ==
  ASSUME NEW ev \in Event, NEW S
  PROVE  /\ ev.dto \in Entry /\ ev.dto.msg \in Message
         /\ \/ ev.type \in {"new", "updated"} /\ OnEvent(S, ev) = Upsert(S, ev.dto)
            \/ ev.type \in {"deleted", "reply"} /\ OnEvent(S, ev) = Rewritten(S, ev, About(ev))
<1>1. ev.dto \in Entry /\ ev.dto.msg \in Message /\ ev.type \in {"new", "updated", "deleted", "reply"}
  BY DEF Event, Entry
<1>2. CASE ev.type \in {"new", "updated"}
  BY <1>1, <1>2 DEF OnEvent
<1>3. CASE ev.type = "deleted"
  <2>1. OnEvent(S, ev) = MarkDeleted(S, ev.dto.msg) /\ About(ev) = ev.dto.msg
    BY <1>3 DEF OnEvent, About
  <2>2. \A e : Rewrite(e, ev) = [e EXCEPT !.deleted = TRUE, !.text = 0]
    BY <1>3 DEF Rewrite, Tombstone
  <2>3. QED BY <1>1, <1>3, <2>1, <2>2 DEF MarkDeleted, Rewritten
<1>4. CASE ev.type = "reply"
  <2>1. OnEvent(S, ev) = Bump(S, Parent[ev.dto.msg]) /\ About(ev) = Parent[ev.dto.msg]
    BY <1>4 DEF OnEvent, About
  <2>2. \A e : Rewrite(e, ev) = [e EXCEPT !.replies = @ + 1]
    BY <1>4 DEF Rewrite, Longer
  <2>3. QED BY <1>1, <1>4, <2>1, <2>2 DEF Bump, Rewritten
<1>5. QED BY <1>1, <1>2, <1>3, <1>4

(* A page of entries stays one. *)
LEMMA PageTypes ==
  ASSUME NEW S \in SUBSET Entry, NEW ev \in Event
  PROVE  OnEvent(S, ev) \subseteq Entry
BY EventKinds, RewriteKeeps DEF Upsert, Rewritten

(* An event about another message leaves what is listed of this one. *)
LEMMA AfterOther ==
  ASSUME NEW S \in SUBSET Entry, NEW ev \in Event, NEW m \in Message, About(ev) # m
  PROVE  Listed(OnEvent(S, ev), m) = Listed(S, m)
<1>1. CASE OnEvent(S, ev) = Upsert(S, ev.dto) /\ ev.type \in {"new", "updated"}
  <2>1. ev.dto.msg # m
    BY <1>1 DEF About
  <2>2. QED BY <1>1, <2>1 DEF Upsert, SameMessage, Listed
<1>2. CASE OnEvent(S, ev) = Rewritten(S, ev, About(ev))
  BY <1>2, RewriteKeeps DEF Rewritten, Listed
<1>3. QED BY <1>1, <1>2, EventKinds

(* A snapshot of a top-level message takes the place of what was listed. *)
LEMMA AfterSnapshot ==
  ASSUME NEW S \in SUBSET Entry, NEW ev \in Event, NEW m \in Message, Parent[m] = None,
         Snapshot(ev, m)
  PROVE  Listed(OnEvent(S, ev), m) = {ev.dto}
<1>1. OnEvent(S, ev) = Upsert(S, ev.dto) /\ ev.dto.msg = m
  BY EventKinds DEF Snapshot
<1>2. QED BY <1>1 DEF Upsert, SameMessage, Listed

(* The other events about it rewrite what is listed. *)
LEMMA AfterRewrite ==
  ASSUME NEW S \in SUBSET Entry, NEW ev \in Event, NEW m \in Message, About(ev) = m,
         ~ Snapshot(ev, m)
  PROVE  /\ ev.type \in {"deleted", "reply"}
         /\ Listed(OnEvent(S, ev), m) = Rewritten(Listed(S, m), ev, m)
<1>1. ev.type \in {"deleted", "reply"} /\ OnEvent(S, ev) = Rewritten(S, ev, m)
  BY EventKinds DEF About, Snapshot
<1>2. QED BY <1>1, RewriteKeeps DEF Rewritten, Listed

(* So what is listed of a message tells what is listed of it next. *)
LEMMA AfterListed ==
  ASSUME NEW S \in SUBSET Entry, NEW ev \in Event, NEW m \in Message, Parent[m] = None
  PROVE  /\ After(Listed(S, m), ev, m) = Listed(OnEvent(S, ev), m)
         /\ After(S, ev, m) \subseteq Entry
<1> Listed(S, m) \in SUBSET Entry /\ Listed(Listed(S, m), m) = Listed(S, m)
  BY DEF Listed
<1>1. After(S, ev, m) \subseteq Entry
  BY PageTypes DEF After, Listed
<1>2. CASE About(ev) # m
  BY <1>1, <1>2, AfterOther DEF After
<1>3. CASE Snapshot(ev, m)
  BY <1>1, <1>3, AfterSnapshot DEF After
<1>4. CASE About(ev) = m /\ ~ Snapshot(ev, m)
  BY <1>1, <1>4, AfterRewrite DEF After
<1>5. QED BY <1>2, <1>3, <1>4

(* An event leaves a tidy page tidy. *)
LEMMA StaysTidy ==
  ASSUME NEW S \in SUBSET Entry, NEW ev \in Event, Tidy(S)
  PROVE  Tidy(OnEvent(S, ev))
<1>1. CASE OnEvent(S, ev) = Upsert(S, ev.dto)
  BY <1>1 DEF Upsert, SameMessage, Tidy
<1>2. CASE OnEvent(S, ev) = Rewritten(S, ev, About(ev))
  <2>1. \A e \in OnEvent(S, ev) : \E f \in S :
          e.msg = f.msg /\ e = (IF f.msg = About(ev) /\ ~f.pending THEN Rewrite(f, ev) ELSE f)
    BY <1>2, RewriteKeeps DEF Rewritten
  <2>2. QED BY <2>1 DEF Tidy
<1>3. QED BY <1>1, <1>2, EventKinds

---------------------------------------------------------------------------
(* Types.                                                                  *)

(* What goes out of a row is an entry of its message and not a bubble. *)
LEMMA DtoTypes ==
  ASSUME NEW r \in [Message -> RowRecord], NEW m \in Message
  PROVE  /\ Dto(r, m) \in Entry /\ Dto(r, m).msg = m /\ Dto(r, m).pending = FALSE
         /\ Dto(r, m).deleted = r[m].deleted /\ Dto(r, m).replies = r[m].replies
<1>1. r[m] \in RowRecord /\ 0 \in 0 .. MaxOps
  BY MessageCacheAssumption DEF RowRecord
<1>2. (IF r[m].deleted THEN 0 ELSE r[m].text) \in 0 .. MaxOps
  BY <1>1 DEF RowRecord
<1>3. QED BY <1>1, <1>2 DEF Dto, Entry, RowRecord

(* A page holds each top-level message once. *)
LEMMA PageTidy ==
  ASSUME NEW r \in [Message -> RowRecord]
  PROVE  Page(r) \subseteq Entry /\ Tidy(Page(r))
         /\ \A m \in Message : r[m].stored /\ Parent[m] = None => Listed(Page(r), m) = {Dto(r, m)}
<1>1. \A e \in Page(r) : \E m \in Message :
        e = Dto(r, m) /\ Parent[m] = None /\ r[m].stored
  BY DEF Page
<1> DEFINE D(m) == Dto(r, m)
<1>d. \A m \in Message : D(m) \in Entry /\ D(m).msg = m
  BY DtoTypes
<1>2. Page(r) \subseteq Entry /\ Tidy(Page(r))
  <2>1. \A e \in Page(r) : \E m \in Message : e = D(m) /\ Parent[m] = None
    BY <1>1
  <2> HIDE DEF D
  <2>2. QED BY <1>d, <2>1 DEF Tidy
<1>3. ASSUME NEW m \in Message, r[m].stored, Parent[m] = None
      PROVE  Listed(Page(r), m) = {Dto(r, m)}
  <2>1. Page(r) = {D(n) : n \in {k \in Message : r[k].stored /\ Parent[k] = None}}
    BY DEF Page
  <2> HIDE DEF D
  <2>2. Listed(Page(r), m) = {D(m)}
    BY <1>d, <1>3, <2>1 DEF Listed
  <2>3. QED BY <2>2 DEF D
<1>4. QED BY <1>2, <1>3

(* A bubble is an entry of its message. *)
LEMMA BubbleTypes ==
  ASSUME NEW m \in Message
  PROVE  Bubble(m) \in Entry /\ Bubble(m).msg = m
BY MessageCacheAssumption DEF Bubble, Entry

(* An edit that is not yet written leaves room for itself. *)
LEMMA EditFits ==
  ASSUME TypeOK, EditsCounted, NEW h \in Handler, proc[h].pc = "write", proc[h].op = "edit",
         proc[h].msg \in Message
  PROVE  /\ rows[proc[h].msg].text + 1 \in 0 .. MaxOps
         /\ Cardinality(Editing(proc[h].msg) \ {h}) = Cardinality(Editing(proc[h].msg)) - 1
         /\ IsFiniteSet(Editing(proc[h].msg) \ {h})
<1> DEFINE m == proc[h].msg  E == Editing(m)
<1>1. h \in E /\ IsFiniteSet(E) /\ rows[m].text + Cardinality(E) <= asked
  BY DEF EditsCounted, Editing
<1>2. Cardinality(E) \in Nat /\ Cardinality(E \ {h}) = Cardinality(E) - 1
      /\ IsFiniteSet(E \ {h}) /\ Cardinality(E \ {h}) \in Nat
  <2> HIDE DEF E
  <2> QED BY <1>1, FS_CardinalityType, FS_RemoveElement
<1>3. rows[m].text \in Nat /\ asked \in Nat /\ asked <= MaxOps /\ MaxOps \in Nat
  BY MessageCacheAssumption DEF TypeOK, RowRecord
<1>4. QED BY <1>1, <1>2, <1>3

(* The rows that a handler's write makes. *)
LEMMA RowTypes ==
  ASSUME NEW r \in RowRecord, NEW t \in 0 .. MaxOps, NEW b \in BOOLEAN
  PROVE  /\ [r EXCEPT !.stored = TRUE] \in RowRecord /\ [r EXCEPT !.text = t] \in RowRecord
         /\ [r EXCEPT !.pinned = b] \in RowRecord /\ [r EXCEPT !.reacted = b] \in RowRecord
         /\ [r EXCEPT !.replies = @ + 1] \in RowRecord /\ [r EXCEPT !.deleted = TRUE] \in RowRecord
<1>1. [r EXCEPT !.stored = TRUE] \in RowRecord /\ [r EXCEPT !.text = t] \in RowRecord
  BY DEF RowRecord
<1>2. [r EXCEPT !.pinned = b] \in RowRecord
  BY DEF RowRecord
<1>3. [r EXCEPT !.reacted = b] \in RowRecord
  BY DEF RowRecord
<1>4. [r EXCEPT !.replies = @ + 1] \in RowRecord
  <2>1. r.replies + 1 \in Nat
    BY DEF RowRecord
  <2>2. QED BY <2>1 DEF RowRecord
<1>5. [r EXCEPT !.deleted = TRUE] \in RowRecord
  BY DEF RowRecord
<1>6. QED BY <1>1, <1>2, <1>3, <1>4, <1>5

(* The steps that a request takes. *)
LEMMA ProcTypes ==
  ASSUME NEW p \in ProcRecord, NEW pc \in {"write", "hydrate", "emit", "answer"},
         NEW dto \in Entry, NEW saw \in BOOLEAN
  PROVE  /\ [p EXCEPT !.pc = pc] \in ProcRecord
         /\ [p EXCEPT !.pc = pc, !.dto = dto] \in ProcRecord
         /\ [p EXCEPT !.pc = pc, !.saw = saw] \in ProcRecord
         /\ Idle \in ProcRecord
BY DEF ProcRecord, Idle

(* A request that is composed or begun. *)
LEMMA BegunTypes ==
  ASSUME NEW m \in Message, NEW op \in Ops \cup {"send"}, NEW pc \in {"look", "write"},
         NEW own \in BOOLEAN, NEW saw \in BOOLEAN
  PROVE  /\ [Idle EXCEPT !.pc = pc, !.op = op, !.msg = m, !.own = own, !.saw = saw] \in ProcRecord
         /\ [Idle EXCEPT !.pc = pc, !.op = op, !.msg = m, !.own = own] \in ProcRecord
BY DEF ProcRecord, Idle

(* What a step of a request knows, spelled out. *)
LEMMA Working ==
  ASSUME NEW h \in Handler, ProcHolds(proc[h]), proc[h].pc # "idle"
  PROVE  /\ proc[h].msg \in Message /\ proc[h].op \in Ops \cup {"send"}
         /\ proc[h].pc \in {"emit", "answer"} =>
              proc[h].dto \in Entry /\ proc[h].dto.msg = proc[h].msg /\ ~proc[h].dto.pending
         /\ proc[h].pc = "answer" => proc[h].own
         /\ proc[h].own => proc[h].msg \in Own /\ proc[h].op \in {"send", "edit"}
         /\ proc[h].op = "send" /\ Parent[proc[h].msg] # None =>
              Parent[proc[h].msg] \in Message /\ rows[Parent[proc[h].msg]].stored
         /\ proc[h].pc \in {"hydrate", "emit", "answer"} => rows[proc[h].msg].stored
<1>1. proc[h] # Idle
  BY DEF Idle
<1>2. QED BY <1>1, MessageCacheAssumption DEF ProcHolds

(* The event of a handler. *)
LEMMA EventTypes ==
  ASSUME NEW h \in Handler, ProcHolds(proc[h]), proc[h].pc = "emit"
  PROVE  /\ EventOf(h) \in Event /\ EventHolds(EventOf(h)) /\ EventOf(h).dto = proc[h].dto
         /\ EventOf(h).type = EventType(proc[h]) /\ About(EventOf(h)) \in Touched(h)
         /\ EventType(proc[h]) \in {"new", "updated"} => About(EventOf(h)) = proc[h].msg
         /\ EventType(proc[h]) \in {"new", "updated"}
              <=> proc[h].op # "remove" /\ ~(proc[h].op = "send" /\ Parent[proc[h].msg] # None)
         /\ EventType(proc[h]) = "reply" <=> proc[h].op = "send" /\ Parent[proc[h].msg] # None
         /\ EventType(proc[h]) = "deleted" <=> proc[h].op = "remove"
<1> USE Working
<1>1. /\ EventType(proc[h]) \in {"new", "updated", "deleted", "reply"}
      /\ EventType(proc[h]) = "reply" <=> proc[h].op = "send" /\ Parent[proc[h].msg] # None
      /\ EventType(proc[h]) = "deleted" <=> proc[h].op = "remove"
  BY MessageCacheAssumption DEF EventType
<1>2. EventOf(h) \in Event /\ EventOf(h).dto = proc[h].dto /\ EventOf(h).type = EventType(proc[h])
  BY <1>1 DEF EventOf, Event
<1>3. About(EventOf(h)) = IF EventType(proc[h]) = "reply" THEN Parent[proc[h].msg] ELSE proc[h].msg
  BY <1>2 DEF About
<1>4. EventHolds(EventOf(h)) /\ About(EventOf(h)) \in Touched(h)
  BY <1>1, <1>2, <1>3, MessageCacheAssumption DEF EventHolds, Touched
<1>5. QED BY <1>1, <1>2, <1>3, <1>4

(* What passes a page by on its way. *)
LEMMA PassedTypes ==
  ASSUME TypeOK, NEW ms \in SUBSET Message, PassedBy(ms)
  PROVE  /\ fetch' \in [pc : {"none", "asked", "answered"}, page : SUBSET Entry,
                         passed : SUBSET Message]
         /\ fetch'.pc = fetch.pc /\ fetch'.page = fetch.page
         /\ fetch.passed \subseteq fetch'.passed
         /\ fetch.pc = "answered" => ms \subseteq fetch'.passed
BY DEF TypeOK, PassedBy

(* What is still to come. *)
LEMMA ComingTypes ==
  ASSUME TypeOK, Formed
  PROVE  /\ Coming \subseteq Message
         /\ \A m \in Message \ Coming : /\ \A i \in DOMAIN wire : About(wire[i]) # m
                                       /\ Telling(m) = {}
<1>1. \A i \in DOMAIN wire : About(wire[i]) \in Message
  BY DEF Formed, EventHolds
<1>2. ASSUME NEW h \in Handler, proc[h].pc \in {"hydrate", "emit"}
      PROVE  Touched(h) \subseteq Message
  <2>1. proc[h].msg \in Message
    BY <1>2, Working DEF Formed
  <2>2. QED BY <2>1, MessageCacheAssumption DEF Touched
<1>3. QED BY <1>1, <1>2 DEF Coming, Telling

(* At the start the variables have their types and nothing is under way. *)
LEMMA InitTypes == Init => TypeOK /\ Formed
<1> SUFFICES ASSUME Init PROVE TypeOK /\ Formed
  OBVIOUS
<1> USE MessageCacheAssumption
<1>1. ASSUME NEW m \in Message
      PROVE  rows[m] \in RowRecord /\ rows[m].text = 0
  <2> DEFINE n == Cardinality({k \in Old : Parent[k] = m})
  <2>1. IsFiniteSet({k \in Old : Parent[k] = m})
    BY FS_Subset
  <2>2. n \in Nat
    BY <2>1, FS_CardinalityType
  <2> DEFINE b == m \in Old
  <2>b. b \in BOOLEAN
    OBVIOUS
  <2>3. rows[m] = [Unposted EXCEPT !.stored = b, !.replies = n]
    BY Zenon DEF Init
  <2> HIDE DEF n, b
  <2>4. 0 \in 0 .. MaxOps
    OBVIOUS
  <2>5. QED BY <2>b, <2>2, <2>3, <2>4 DEF RowRecord, Unposted
<1>2. rows \in [Message -> RowRecord]
  BY <1>1 DEF Init
<1>3. list \subseteq Entry
  BY <1>2, PageTidy DEF Init
<1>4. Idle \in ProcRecord /\ <<>> \in Seq(Event)
  BY DEF Idle, ProcRecord
<1>5. TypeOK
  <2>1. 0 \in 0 .. MaxOps /\ 0 \in 0 .. MaxFetches /\ 0 \in 0 .. MaxLost
    OBVIOUS
  <2>2. NoFetch \in [pc : {"none", "asked", "answered"}, page : SUBSET Entry,
                     passed : SUBSET Message]
    BY DEF NoFetch
  <2>3. proc \in [Handler -> ProcRecord]
    BY <1>4 DEF Init
  <2>4. QED BY <1>2, <1>3, <1>4, <2>1, <2>2, <2>3 DEF Init, TypeOK
<1>6. EditsCounted
  <2>1. \A m \in Message : Editing(m) = {}
    BY DEF Init, Idle, Editing
  <2>2. \A m \in Message : IsFiniteSet(Editing(m)) /\ Cardinality(Editing(m)) = 0
    BY <2>1, FS_EmptySet
  <2>3. asked = 0
    BY DEF Init
  <2>4. QED BY <1>1, <2>2, <2>3 DEF EditsCounted
<1>7. Formed
  <2>1. \A h \in Handler : proc[h] = Idle /\ proc[h].pc = "idle"
    BY DEF Init, Idle
  <2>2. wire = <<>>
    BY DEF Init
  <2>3. QED BY <1>6, <2>1, <2>2 DEF Formed, ProcHolds, OneSender
<1>8. QED BY <1>5, <1>7

(* Every step keeps the types; an edit was counted when it began. *)
LEMMA TypeStep ==
  ASSUME TypeOK, Formed, [Next]_vars
  PROVE  TypeOK'
<1> USE MessageCacheAssumption DEF TypeOK
<1>w. \A h \in Handler : ProcHolds(proc[h])
  BY DEF Formed
<1>1. ASSUME NEW h \in Handler, NEW m \in Message, Compose(h, m)
      PROVE  TypeOK'
  <2>1. (m \in Own) \in BOOLEAN
    OBVIOUS
  <2>2. proc' \in [Handler -> ProcRecord]
    BY <1>1, <2>1, BegunTypes DEF Compose, Idle
  <2>3. list' \subseteq Entry
    BY <1>1, BubbleTypes DEF Compose, Upsert
  <2>4. QED BY <1>1, <2>2, <2>3 DEF Compose
<1>2. ASSUME NEW h \in Handler, NEW op \in Ops, NEW m \in Message, NEW own \in BOOLEAN,
             Begin(h, op, m, own)
      PROVE  TypeOK'
  <2>1. (op = "pin" /\ rows[m].pinned) \in BOOLEAN
    OBVIOUS
  <2>2. proc' \in [Handler -> ProcRecord]
    BY <1>2, <2>1, BegunTypes DEF Begin, Idle
  <2>3. asked' \in 0 .. MaxOps
    BY <1>2 DEF Begin
  <2>4. QED BY <1>2, <2>2, <2>3 DEF Begin, device
<1>3. ASSUME NEW h \in Handler, Post(h) \/ Write(h) \/ Remove(h) \/ Toggle(h)
      PROVE  TypeOK'
  <2> DEFINE m == proc[h].msg
  <2>1. m \in Message /\ proc[h].op \in Ops \cup {"send"}
    BY <1>3, <1>w, Working DEF Post, Write, Remove, Toggle
  <2>2. rows' \in [Message -> RowRecord]
    <3>1. CASE Post(h)
      BY <2>1, <3>1, RowTypes DEF Post
    <3>2. CASE Write(h) /\ proc[h].op = "edit"
      <4>1. rows[m].text + 1 \in 0 .. MaxOps
        BY <2>1, <3>2, EditFits DEF Write, Formed
      <4>2. QED BY <2>1, <3>2, <4>1, RowTypes DEF Write
    <3>3. CASE Write(h) /\ proc[h].op = "pin"
      BY <2>1, <3>3, RowTypes DEF Write
    <3>4. CASE Remove(h)
      BY <2>1, <3>4, RowTypes DEF Remove
    <3>5. CASE Toggle(h)
      <4>1. rows' = [rows EXCEPT ![m] = [rows[m] EXCEPT !.reacted = ~rows[m].reacted]]
            \/ rows' = rows
        BY <3>5 DEF Toggle
      <4>2. [rows[m] EXCEPT !.reacted = ~rows[m].reacted] \in RowRecord
        <5> DEFINE b == ~rows[m].reacted
        <5>1. b \in BOOLEAN /\ rows[m] \in RowRecord
          BY <2>1
        <5> HIDE DEF b
        <5>2. [rows[m] EXCEPT !.reacted = b] \in RowRecord
          BY <5>1 DEF RowRecord
        <5>3. QED BY <5>2 DEF b
      <4>3. QED BY <2>1, <4>1, <4>2
    <3>6. QED BY <1>3, <3>1, <3>2, <3>3, <3>4, <3>5 DEF Write
  <2>3. proc' \in [Handler -> ProcRecord]
    <3>1. CASE Toggle(h)
      <4>1. \/ proc' = [proc EXCEPT ![h] = [proc[h] EXCEPT !.pc = "hydrate"]]
            \/ proc' = [proc EXCEPT ![h] = Idle]
        BY <3>1 DEF Toggle
      <4>2. Idle \in ProcRecord /\ [proc[h] EXCEPT !.pc = "hydrate"] \in ProcRecord
        <5>1. proc[h] \in ProcRecord /\ Dto(rows, m) \in Entry
          BY <2>1, DtoTypes
        <5>2. QED BY <5>1, ProcTypes
      <4>3. QED BY <4>1, <4>2
    <3>2. CASE ~Toggle(h)
      <4>1. Dto(rows', m) \in Entry
        BY <2>1, <2>2, DtoTypes
      <4>2. proc' = [proc EXCEPT ![h] = [proc[h] EXCEPT !.pc = "emit", !.dto = Dto(rows', m)]]
        BY <1>3, <3>2 DEF Post, Write, Remove
      <4>3. QED BY <4>1, <4>2, ProcTypes
    <3>3. QED BY <3>1, <3>2
  <2>4. raced' \subseteq Message
    <3>1. Touched(h) \subseteq Message
      BY <2>1 DEF Touched
    <3>2. QED BY <1>3, <3>1 DEF Post, Write, Remove, Toggle, NoteRace
  <2>5. QED BY <1>3, <2>2, <2>3, <2>4 DEF Post, Write, Remove, Toggle, device
<1>4. ASSUME NEW h \in Handler, Look(h) \/ Hydrate(h)
      PROVE  TypeOK'
  <2>1. proc[h].msg \in Message
    BY <1>4, <1>w, Working DEF Look, Hydrate
  <2>2. rows[proc[h].msg].reacted \in BOOLEAN /\ Dto(rows, proc[h].msg) \in Entry
    BY <2>1, DtoTypes DEF RowRecord
  <2>3. proc' \in [Handler -> ProcRecord]
    <3>1. \/ proc' = [proc EXCEPT ![h] = [proc[h] EXCEPT !.pc = "write",
                                                   !.saw = rows[proc[h].msg].reacted]]
          \/ proc' = [proc EXCEPT ![h] = [proc[h] EXCEPT !.pc = "emit",
                                                   !.dto = Dto(rows, proc[h].msg)]]
      BY <1>4 DEF Look, Hydrate
    <3>2. /\ [proc[h] EXCEPT !.pc = "write", !.saw = rows[proc[h].msg].reacted] \in ProcRecord
          /\ [proc[h] EXCEPT !.pc = "emit", !.dto = Dto(rows, proc[h].msg)] \in ProcRecord
      BY <2>2, ProcTypes
    <3>3. QED BY <3>1, <3>2
  <2>4. QED BY <1>4, <2>3 DEF Look, Hydrate, device
<1>5. ASSUME NEW h \in Handler, Emit(h)
      PROVE  TypeOK'
  <2>1. EventOf(h) \in Event
    BY <1>5, <1>w, EventTypes DEF Emit
  <2>2. wire' \in Seq(Event)
    BY <1>5, <2>1 DEF Emit, Broadcast, EventOf
  <2>3. proc' \in [Handler -> ProcRecord]
    <3>1. \/ proc' = [proc EXCEPT ![h] = [proc[h] EXCEPT !.pc = "answer"]]
          \/ proc' = [proc EXCEPT ![h] = Idle]
      BY <1>5 DEF Emit
    <3>2. Idle \in ProcRecord /\ [proc[h] EXCEPT !.pc = "answer"] \in ProcRecord
      <4>1. proc[h].dto \in Entry /\ proc[h] \in ProcRecord
        BY <1>5, <1>w, Working DEF Emit
      <4>2. QED BY <4>1, ProcTypes
    <3>3. QED BY <3>1, <3>2
  <2>4. QED BY <1>5, <2>2, <2>3 DEF Emit
<1>6. ASSUME NEW h \in Handler, Answer(h) \/ LoseAnswer(h)
      PROVE  TypeOK'
  <2>1. proc[h].dto \in Entry
    BY <1>6, <1>w, Working DEF Answer, LoseAnswer
  <2>2. proc' \in [Handler -> ProcRecord] /\ list' \subseteq Entry
    BY <1>6, <2>1, ProcTypes DEF Answer, LoseAnswer, Upsert
  <2>3. QED BY <1>6, <2>2 DEF Answer, LoseAnswer
<1>7. CASE Receive
  <2>1. Head(wire) \in Event /\ Tail(wire) \in Seq(Event) /\ EventHolds(Head(wire))
    <3>1. wire # <<>> /\ wire \in Seq(Event)
      BY <1>7 DEF Receive
    <3>2. 1 \in DOMAIN wire /\ Head(wire) = wire[1]
      BY <3>1
    <3>3. QED BY <3>1, <3>2 DEF Formed
  <2>2. list' \subseteq Entry
    BY <1>7, <2>1, PageTypes DEF Receive
  <2>3. fetch' \in [pc : {"none", "asked", "answered"}, page : SUBSET Entry,
                    passed : SUBSET Message]
    BY <1>7, <2>1, PassedTypes DEF Receive, EventHolds
  <2>4. stale' \subseteq Message
    BY <1>7 DEF Receive
  <2>5. QED BY <1>7, <2>1, <2>2, <2>3, <2>4 DEF Receive, server
<1>8. CASE Disconnect \/ Reconnect \/ JoinRoom \/ Refetch \/ ReadPage \/ PageArrives
  <2>1. Page(rows) \subseteq Entry /\ Coming \subseteq Message
    BY PageTidy, ComingTypes
  <2>2. fetch' \in [pc : {"none", "asked", "answered"}, page : SUBSET Entry,
                    passed : SUBSET Message]
    BY <1>8, <2>1 DEF Disconnect, Reconnect, JoinRoom, Refetch, ReadPage, PageArrives, NoFetch,
                      Fetching
  <2>3. wire' = wire \/ wire' = <<>>
    BY <1>8 DEF Disconnect, Reconnect, JoinRoom, Refetch, ReadPage, PageArrives
  <2>e. <<>> \in Seq(Event)
    OBVIOUS
  <2>w. wire' \in Seq(Event)
    BY <2>3, <2>e, Zenon
  <2>d. drops' \in 0 .. MaxFetches /\ looks' \in 0 .. MaxFetches
    BY <1>8 DEF Disconnect, Reconnect, JoinRoom, Refetch, ReadPage, PageArrives
  <2>4. UNCHANGED <<rows, proc, asked, raced, lost>>
    BY <1>8 DEF Disconnect, Reconnect, JoinRoom, Refetch, ReadPage, PageArrives, server
  <2>5. list' \subseteq Entry /\ stale' \subseteq Message
    BY <1>8 DEF Disconnect, Reconnect, JoinRoom, Refetch, ReadPage, PageArrives
  <2>6. online' \in BOOLEAN /\ joined' \in BOOLEAN /\ (joined' => online')
    <3>1. CASE Disconnect
      BY <3>1 DEF Disconnect
    <3>2. CASE Reconnect
      BY <3>2 DEF Reconnect
    <3>3. CASE JoinRoom
      BY <3>3 DEF JoinRoom
    <3>4. CASE Refetch \/ ReadPage \/ PageArrives
      BY <3>4 DEF Refetch, ReadPage, PageArrives
    <3>5. QED BY <1>8, <3>1, <3>2, <3>3, <3>4
  <2>7. QED BY <2>2, <2>w, <2>d, <2>4, <2>5, <2>6
<1>9. CASE UNCHANGED vars
  BY <1>9 DEF vars
<1>10. ASSUME NEW m \in Message, Forward(m)
       PROVE  TypeOK'
  <2>1. rows' \in [Message -> RowRecord]
    BY <1>10, RowTypes DEF Forward
  <2>2. fetch' \in [pc : {"none", "asked", "answered"}, page : SUBSET Entry,
                    passed : SUBSET Message]
    BY <1>10, PassedTypes DEF Forward
  <2>3. stale' \subseteq Message
    BY <1>10 DEF Forward
  <2>4. QED BY <1>10, <2>1, <2>2, <2>3 DEF Forward
<1>11. QED BY <1>1, <1>2, <1>3, <1>4, <1>5, <1>6, <1>7, <1>8, <1>9, <1>10 DEF Next, Serve

---------------------------------------------------------------------------
(* Requests and events keep their form.                                    *)

(* The steps of the device and of its socket. *)
DeviceStep ==
  Receive \/ Disconnect \/ Reconnect \/ JoinRoom \/ Refetch \/ ReadPage \/ PageArrives

(* The steps in which a handler writes. *)
WriteStep(h) == Post(h) \/ Write(h) \/ Remove(h) \/ (Toggle(h) /\ proc'[h].pc = "hydrate")

(* What a step does to the requests and the rows. *)
LEMMA Steps ==
  ASSUME TypeOK, Formed, [Next]_vars
  PROVE  \/ UNCHANGED <<rows, proc, asked, raced>> /\ (DeviceStep \/ UNCHANGED vars)
         \/ UNCHANGED <<proc, asked, raced>> /\ \E n \in Message : Forward(n)
         \/ \E h \in Handler :
              /\ \A g \in Handler \ {h} : proc'[g] = proc[g]
              /\ \/ \E m \in Message : Compose(h, m)
                 \/ \E op \in Ops, m \in Message, own \in BOOLEAN : Begin(h, op, m, own)
                 \/ WriteStep(h)
                 \/ Toggle(h) /\ proc'[h] = Idle /\ UNCHANGED <<rows, raced>>
                 \/ Look(h) \/ Hydrate(h) \/ Emit(h) \/ Answer(h) \/ LoseAnswer(h)
<1> USE DEF TypeOK
<1>1. CASE DeviceStep
  BY <1>1 DEF DeviceStep, Receive, Disconnect, Reconnect, JoinRoom, Refetch, ReadPage, PageArrives,
              server
<1>2. CASE UNCHANGED vars
  BY <1>2 DEF vars
<1>f. ASSUME NEW n \in Message, Forward(n)
      PROVE  UNCHANGED <<proc, asked, raced>>
  BY <1>f DEF Forward
<1>3. ASSUME NEW h \in Handler, \E m \in Message : Compose(h, m)
      PROVE  \A g \in Handler \ {h} : proc'[g] = proc[g]
  BY <1>3 DEF Compose
<1>4. ASSUME NEW h \in Handler,
             \E op \in Ops, m \in Message, own \in BOOLEAN : Begin(h, op, m, own)
      PROVE  \A g \in Handler \ {h} : proc'[g] = proc[g]
  BY <1>4 DEF Begin
<1>5. ASSUME NEW h \in Handler, Serve(h) \/ LoseAnswer(h)
      PROVE  \A g \in Handler \ {h} : proc'[g] = proc[g]
  BY <1>5 DEF Serve, Post, Look, Write, Remove, Toggle, Hydrate, Emit, Answer, LoseAnswer
<1>6. ASSUME NEW h \in Handler, Toggle(h)
      PROVE  proc'[h].pc = "hydrate" \/ (proc'[h] = Idle /\ UNCHANGED <<rows, raced>>)
  <2>1. CASE proc' = [proc EXCEPT ![h].pc = "hydrate"]
    BY <2>1 DEF ProcRecord
  <2>2. CASE proc' = [proc EXCEPT ![h] = Idle] /\ UNCHANGED <<rows, raced>>
    BY <2>2
  <2>3. QED BY <1>6, <2>1, <2>2 DEF Toggle
<1>7. QED BY <1>1, <1>2, <1>f, <1>3, <1>4, <1>5, <1>6 DEF Next, Serve, DeviceStep, WriteStep

(* A forwarded message has no request of its own, and the rows and the     *)
(* list of the others stay.                                                *)
LEMMA Forwarding ==
  ASSUME TypeOK, Formed, NEW m \in Message, Forward(m)
  PROVE  /\ ~rows[m].stored /\ rows'[m].stored /\ rows'[m].text = rows[m].text /\ Parent[m] = None
         /\ \A n \in Message \ {m} : rows'[n] = rows[n]
         /\ \A h \in Handler : proc[h].msg # m
         /\ UNCHANGED <<proc, asked, raced, list, wire, online, joined, drops>>
         /\ fetch'.pc = fetch.pc /\ fetch'.page = fetch.page
         /\ fetch.passed \subseteq fetch'.passed /\ stale' = stale \cup {m}
         /\ fetch.pc = "answered" => m \in fetch'.passed
<1>1. /\ ~rows[m].stored /\ Parent[m] = None /\ PassedBy({m}) /\ stale' = stale \cup {m}
      /\ \A h \in Handler : proc[h].msg # m
      /\ rows' = [rows EXCEPT ![m] = [rows[m] EXCEPT !.stored = TRUE]]
      /\ UNCHANGED <<proc, asked, raced, list, wire, online, joined, drops>>
  BY DEF Forward
<1>2. rows \in [Message -> RowRecord] /\ rows[m] \in RowRecord
  BY DEF TypeOK
<1>3. /\ rows'[m].stored /\ rows'[m].text = rows[m].text
      /\ \A n \in Message \ {m} : rows'[n] = rows[n]
  BY <1>1, <1>2 DEF RowRecord
<1>4. QED BY <1>1, <1>3, PassedTypes

(* What a write does to the request, and to the rows. *)
LEMMA Writing ==
  ASSUME TypeOK, Formed, NEW h \in Handler, WriteStep(h), TypeOK'
  PROVE  /\ proc[h].msg \in Message /\ proc[h].pc = "write" /\ proc[h].op \in Ops \cup {"send"}
         /\ \A g \in Handler \ {h} : proc'[g] = proc[g]
         /\ (proc[h].op = "send" <=> ~rows[proc[h].msg].stored)
         /\ proc'[h].op = proc[h].op /\ proc'[h].msg = proc[h].msg /\ proc'[h].own = proc[h].own
         /\ \/ proc'[h].pc = "hydrate" /\ proc[h].op = "react"
            \/ /\ proc'[h].pc = "emit" /\ proc[h].op # "react"
               /\ proc'[h].dto = Dto(rows', proc[h].msg)
         /\ UNCHANGED <<asked, device>> /\ NoteRace(h)
<1> USE DEF TypeOK
<1>1. /\ proc[h].pc = "write" /\ UNCHANGED <<asked, device>> /\ NoteRace(h)
      /\ \/ proc' = [proc EXCEPT ![h].pc = "hydrate"] /\ proc[h].op = "react"
         \/ /\ proc' = [proc EXCEPT ![h].pc = "emit", ![h].dto = Dto(rows', proc[h].msg)]
            /\ proc[h].op # "react"
  <2>1. CASE Toggle(h) /\ proc'[h].pc = "hydrate"
    BY <2>1 DEF Toggle, Idle, ProcRecord
  <2>2. CASE Post(h) \/ Write(h) \/ Remove(h)
    BY <2>2 DEF Post, Write, Remove
  <2>3. QED BY <2>1, <2>2 DEF WriteStep
<1>a. proc[h].pc = "write" /\ UNCHANGED <<asked, device>> /\ NoteRace(h)
  BY <1>1
<1>2. proc[h].msg \in Message /\ proc[h].op \in Ops \cup {"send"}
  BY <1>1, Working DEF Formed
<1>3. (proc[h].op = "send" <=> ~rows[proc[h].msg].stored)
  <2>1. proc[h] # Idle
    BY <1>1 DEF Idle
  <2>2. QED BY <1>1, <2>1 DEF Formed, ProcHolds
<1>4. CASE proc' = [proc EXCEPT ![h].pc = "hydrate"] /\ proc[h].op = "react"
  <2>1. proc[h] \in ProcRecord /\ proc' = [proc EXCEPT ![h] = [proc[h] EXCEPT !.pc = "hydrate"]]
    BY <1>4
  <2>2. proc'[h] = [proc[h] EXCEPT !.pc = "hydrate"] /\ \A g \in Handler \ {h} : proc'[g] = proc[g]
    BY <2>1
  <2>3. proc'[h].op = proc[h].op /\ proc'[h].msg = proc[h].msg /\ proc'[h].own = proc[h].own
        /\ proc'[h].pc = "hydrate"
    BY <2>1, <2>2 DEF ProcRecord
  <2>4. proc[h].op = "react"
    BY <1>4
  <2>5. QED BY <1>a, <1>2, <1>3, <2>2, <2>3, <2>4
<1>5. CASE /\ proc' = [proc EXCEPT ![h].pc = "emit", ![h].dto = Dto(rows', proc[h].msg)]
           /\ proc[h].op # "react"
  <2> DEFINE d == Dto(rows', proc[h].msg)
  <2>1. proc[h] \in ProcRecord
        /\ proc' = [proc EXCEPT ![h] = [proc[h] EXCEPT !.pc = "emit", !.dto = d]]
    BY <1>5
  <2> HIDE DEF d
  <2>2. proc'[h] = [proc[h] EXCEPT !.pc = "emit", !.dto = d]
        /\ \A g \in Handler \ {h} : proc'[g] = proc[g]
    BY <2>1
  <2>3. proc'[h].op = proc[h].op /\ proc'[h].msg = proc[h].msg /\ proc'[h].own = proc[h].own
        /\ proc'[h].pc = "emit" /\ proc'[h].dto = d
    BY <2>1, <2>2 DEF ProcRecord
  <2>4. QED BY <1>1, <1>2, <1>3, <1>5, <2>2, <2>3 DEF d
<1>6. QED BY <1>1, <1>4, <1>5

(* The row that a write changes, and the parent's row of a posted reply.   *)
LEMMA WrittenRows ==
  ASSUME TypeOK, Formed, NEW h \in Handler, WriteStep(h), TypeOK'
  PROVE  /\ rows'[proc[h].msg].stored
         /\ \A n \in Message \ {proc[h].msg} :
              \/ rows'[n] = rows[n] /\ ~(proc[h].op = "send" /\ n = Parent[proc[h].msg])
              \/ /\ proc[h].op = "send" /\ n = Parent[proc[h].msg]
                 /\ rows'[n] = [rows[n] EXCEPT !.replies = @ + 1]
         /\ proc[h].op = "remove" => /\ rows'[proc[h].msg].deleted
                                     /\ rows'[proc[h].msg].replies = rows[proc[h].msg].replies
         /\ rows'[proc[h].msg].text =
              IF proc[h].op = "edit" THEN rows[proc[h].msg].text + 1 ELSE rows[proc[h].msg].text
<1> DEFINE m == proc[h].msg
<1>1. m \in Message /\ proc[h].pc = "write" /\ rows \in [Message -> RowRecord]
      /\ (proc[h].op = "send" \/ rows[m].stored) /\ ProcHolds(proc[h])
  BY Writing DEF Formed, ProcHolds, TypeOK, Idle
<1>2. CASE Post(h)
  BY <1>1, <1>2 DEF Post, RowRecord
<1>3. CASE Write(h)
  BY <1>1, <1>3 DEF Write, RowRecord
<1>4. CASE Remove(h)
  BY <1>1, <1>4 DEF Remove, RowRecord
<1>5. CASE Toggle(h) /\ proc'[h].pc = "hydrate"
  <2>1. rows' = [rows EXCEPT ![m] = [rows[m] EXCEPT !.reacted = ~rows[m].reacted]]
        /\ proc[h].op = "react"
    BY <1>5 DEF Toggle, Idle, TypeOK
  <2>2. QED BY <1>1, <2>1 DEF RowRecord
<1>6. QED BY <1>2, <1>3, <1>4, <1>5 DEF WriteStep

(* A step stores no row but the one that its handler sends. *)
LEMMA StoredRows ==
  ASSUME TypeOK, Formed, [Next]_vars, TypeOK'
  PROVE  \A m \in Message :
           /\ rows[m].stored => rows'[m].stored
           /\ rows'[m].stored => \/ rows[m].stored
                                 \/ Forward(m)
                                 \/ \E h \in Handler : /\ WriteStep(h) /\ proc[h].op = "send"
                                                       /\ proc[h].msg = m
<1>1. ASSUME NEW h \in Handler, WriteStep(h), NEW m \in Message
      PROVE  /\ rows[m].stored => rows'[m].stored
             /\ rows'[m].stored => rows[m].stored \/ (proc[h].op = "send" /\ proc[h].msg = m)
  <2>1. CASE m = proc[h].msg
    BY <1>1, <2>1, WrittenRows, Writing
  <2>2. CASE m # proc[h].msg
    <3>1. \/ rows'[m] = rows[m]
          \/ rows'[m] = [rows[m] EXCEPT !.replies = @ + 1]
      BY <1>1, <2>2, WrittenRows
    <3>2. rows[m] \in RowRecord
      BY DEF TypeOK
    <3>3. QED BY <3>1, <3>2 DEF RowRecord
  <2>3. QED BY <2>1, <2>2
<1>2. ASSUME NEW n \in Message, Forward(n), NEW m \in Message
      PROVE  /\ rows[m].stored => rows'[m].stored
             /\ rows'[m].stored => rows[m].stored \/ m = n
  BY <1>2, Forwarding
<1>3. CASE (\A h \in Handler : ~WriteStep(h)) /\ \A n \in Message : ~Forward(n)
  <2>1. rows' = rows
    BY <1>3, Steps DEF Compose, Begin, Look, Hydrate, Emit, Answer, LoseAnswer
  <2>2. QED BY <2>1
<1>4. QED BY <1>1, <1>2, <1>3

(* What a request knows holds on after every step, its own and those of    *)
(* the others: a row is stored by the only request that sends it.          *)
LEMMA ProcStep ==
  ASSUME TypeOK, Formed, [Next]_vars, TypeOK'
  PROVE  (\A h \in Handler : ProcHolds(proc[h]))' /\ OneSender'
<1> USE DEF TypeOK
<1>w. \A h \in Handler : ProcHolds(proc[h]) /\ proc[h] \in ProcRecord
  BY DEF Formed
<1>s. \A m \in Message : rows[m].stored => rows'[m].stored
  BY StoredRows
<1>p. \A m \in Message : Parent[m] \in Message \cup {None}
  BY MessageCacheAssumption
<1>1. ASSUME NEW g \in Handler, proc'[g] = proc[g],
             proc[g].pc # "idle" => rows'[proc[g].msg].stored = rows[proc[g].msg].stored
      PROVE  ProcHolds(proc[g])'
  BY <1>1, <1>w, <1>s, <1>p DEF ProcHolds, Idle
<1>2. ASSUME NEW h \in Handler, NEW m \in Message, Compose(h, m)
      PROVE  (\A g \in Handler : ProcHolds(proc[g]))' /\ OneSender'
  <2>1. /\ proc'[h] = [Idle EXCEPT !.pc = "write", !.op = "send", !.msg = m, !.own = m \in Own]
        /\ rows' = rows /\ ~rows[m].stored /\ \A g \in Handler : proc[g].msg # m
        /\ \A g \in Handler \ {h} : proc'[g] = proc[g]
    BY <1>2 DEF Compose
  <2>2. proc'[h].pc = "write" /\ proc'[h].op = "send" /\ proc'[h].msg = m
        /\ (proc'[h].own <=> m \in Own)
    BY <2>1, Zenon DEF Idle
  <2>3. ProcHolds(proc[h])'
    BY <1>2, <2>1, <2>2, MessageCacheAssumption DEF ProcHolds, Compose
  <2>4. \A g \in Handler : ProcHolds(proc[g])'
    BY <1>1, <2>1, <2>3
  <2>5. OneSender'
    <3>1. \A g, k \in Handler \ {h} :
            proc[g].pc = "write" /\ proc[g].op = "send" /\ proc[k].msg = proc[g].msg => g = k
      BY DEF Formed, OneSender
    <3>2. \A g, k \in Handler \ {h} : proc'[g] = proc[g] /\ proc'[k] = proc[k] /\ proc'[g].msg # m
      BY <2>1
    <3>3. \A g, k \in Handler \ {h} :
            proc'[g].pc = "write" /\ proc'[g].op = "send" /\ proc'[k].msg = proc'[g].msg => g = k
      BY <3>1, <3>2
    <3>4. QED BY <2>2, <3>2, <3>3 DEF OneSender
  <2>6. QED BY <2>4, <2>5
<1>3. ASSUME NEW h \in Handler, NEW op \in Ops, NEW m \in Message, NEW own \in BOOLEAN,
             Begin(h, op, m, own)
      PROVE  (\A g \in Handler : ProcHolds(proc[g]))' /\ OneSender'
  <2>1. /\ proc'[h] = [Idle EXCEPT !.pc = IF op = "react" THEN "look" ELSE "write", !.op = op,
                         !.msg = m, !.own = own, !.saw = op = "pin" /\ rows[m].pinned]
        /\ rows' = rows /\ rows[m].stored /\ (own => op = "edit" /\ m \in Own)
        /\ \A g \in Handler \ {h} : proc'[g] = proc[g]
    BY <1>3 DEF Begin
  <2>2. /\ proc'[h].pc = (IF op = "react" THEN "look" ELSE "write") /\ proc'[h].op = op
        /\ proc'[h].msg = m /\ proc'[h].own = own
    BY <2>1, Zenon DEF Idle
  <2>3. op # "send"
    BY MessageCacheAssumption
  <2>4. ProcHolds(proc[h])'
    BY <2>1, <2>2, <2>3 DEF ProcHolds
  <2>5. \A g \in Handler : proc[g].pc = "write" /\ proc[g].op = "send" => proc[g].msg # m
    BY <1>w, <2>1 DEF ProcHolds, Idle
  <2>6. \A g \in Handler : ProcHolds(proc[g])'
    BY <1>1, <2>1, <2>4
  <2>7. OneSender'
    <3>1. \A g, k \in Handler \ {h} :
            proc[g].pc = "write" /\ proc[g].op = "send" /\ proc[k].msg = proc[g].msg => g = k
      BY DEF Formed, OneSender
    <3>2. \A g, k \in Handler \ {h} : proc'[g] = proc[g] /\ proc'[k] = proc[k]
      BY <2>1
    <3>3. \A g, k \in Handler \ {h} :
            proc'[g].pc = "write" /\ proc'[g].op = "send" => proc'[g].msg # m
      BY <2>5, <3>2
    <3>4. \A g, k \in Handler \ {h} :
            proc'[g].pc = "write" /\ proc'[g].op = "send" /\ proc'[k].msg = proc'[g].msg => g = k
      BY <3>1, <3>2
    <3>5. QED BY <2>2, <2>3, <3>3, <3>4 DEF OneSender
  <2>8. QED BY <2>6, <2>7
<1>4. ASSUME NEW h \in Handler, WriteStep(h)
      PROVE  (\A g \in Handler : ProcHolds(proc[g]))' /\ OneSender'
  <2>1. ASSUME NEW g \in Handler \ {h}, proc[g].pc # "idle"
        PROVE  rows'[proc[g].msg].stored = rows[proc[g].msg].stored
    <3>1. proc[g].msg \in Message
      BY <1>w, <2>1, Working
    <3>2. proc[h].op = "send" => proc[g].msg # proc[h].msg
      BY <1>4, <2>1, Writing DEF Formed, OneSender
    <3>3. (proc[h].op = "send" <=> ~rows[proc[h].msg].stored) /\ proc[h].msg \in Message
      BY <1>4, Writing
    <3>4. proc[g].msg = proc[h].msg => rows[proc[g].msg].stored /\ rows'[proc[g].msg].stored
      BY <1>4, <3>2, <3>3, WrittenRows
    <3>5. proc[g].msg # proc[h].msg =>
            \/ rows'[proc[g].msg] = rows[proc[g].msg]
            \/ rows'[proc[g].msg] = [rows[proc[g].msg] EXCEPT !.replies = @ + 1]
      BY <1>4, <3>1, WrittenRows
    <3>6. rows[proc[g].msg] \in RowRecord /\ rows'[proc[g].msg] \in RowRecord
      BY <3>1
    <3>7. QED BY <3>4, <3>5, <3>6 DEF RowRecord
  <2>2. ProcHolds(proc[h])'
    <3>1. rows'[proc[h].msg].stored
      BY <1>4, WrittenRows
    <3>2. ProcHolds(proc[h]) /\ proc[h] # Idle
      <4>1. proc[h].pc = "write"
        BY <1>4, Writing
      <4>2. QED BY <1>w, <4>1 DEF Idle
    <3>3. proc'[h].pc = "emit" => Dto(rows', proc[h].msg) \in Entry
             /\ Dto(rows', proc[h].msg).msg = proc[h].msg /\ ~Dto(rows', proc[h].msg).pending
      BY <1>4, Writing, DtoTypes
    <3>4. QED BY <1>4, <1>s, <1>p, <3>1, <3>2, <3>3, Writing DEF ProcHolds
  <2>3. /\ \A g \in Handler \ {h} : proc'[g] = proc[g]
        /\ proc'[h].pc # "write" /\ proc'[h].msg = proc[h].msg
    BY <1>4, Writing
  <2>4. \A g \in Handler : ProcHolds(proc[g])'
    BY <1>1, <1>4, <2>1, <2>2, <2>3
  <2>5. OneSender'
    BY <2>3 DEF Formed, OneSender
  <2>6. QED BY <2>4, <2>5
<1>5. ASSUME NEW h \in Handler, \A g \in Handler \ {h} : proc'[g] = proc[g], rows' = rows,
             proc'[h] = Idle
      PROVE  (\A g \in Handler : ProcHolds(proc[g]))' /\ OneSender'
  <2>1. ProcHolds(proc[h])' /\ proc'[h].pc = "idle" /\ proc'[h].msg = None
    BY <1>5 DEF ProcHolds, Idle
  <2>2. \A g \in Handler : proc[g].pc = "write" => proc[g].msg # None
    BY <1>w, Working, MessageCacheAssumption
  <2>3. QED BY <1>1, <1>5, <2>1, <2>2 DEF Formed, OneSender
<1>6. ASSUME NEW h \in Handler, \A g \in Handler \ {h} : proc'[g] = proc[g], rows' = rows,
             proc'[h].msg = proc[h].msg, ProcHolds(proc[h])',
             proc'[h].pc = "write" => proc'[h].op # "send"
      PROVE  (\A g \in Handler : ProcHolds(proc[g]))' /\ OneSender'
  BY <1>1, <1>6 DEF Formed, OneSender
<1>7. ASSUME NEW h \in Handler, Look(h)
      PROVE  (\A g \in Handler : ProcHolds(proc[g]))' /\ OneSender'
  <2> DEFINE b == rows[proc[h].msg].reacted
  <2>1. proc' = [proc EXCEPT ![h] = [proc[h] EXCEPT !.pc = "write", !.saw = b]]
        /\ proc[h].pc = "look" /\ rows' = rows
    BY <1>7 DEF Look
  <2> HIDE DEF b
  <2>2. /\ proc'[h].pc = "write" /\ proc'[h].op = proc[h].op /\ proc'[h].msg = proc[h].msg
        /\ proc'[h].own = proc[h].own
    BY <1>w, <2>1 DEF ProcRecord
  <2>3. ProcHolds(proc[h]) /\ proc[h] # Idle
    BY <1>w, <2>1 DEF Idle
  <2>4. ProcHolds(proc[h])' /\ proc'[h].op = "react"
    BY <2>1, <2>2, <2>3 DEF ProcHolds
  <2>5. QED BY <1>6, <2>1, <2>2, <2>4
<1>8. ASSUME NEW h \in Handler, Hydrate(h)
      PROVE  (\A g \in Handler : ProcHolds(proc[g]))' /\ OneSender'
  <2> DEFINE d == Dto(rows, proc[h].msg)
  <2>1. proc' = [proc EXCEPT ![h] = [proc[h] EXCEPT !.pc = "emit", !.dto = d]]
        /\ proc[h].pc = "hydrate" /\ rows' = rows
    BY <1>8 DEF Hydrate
  <2>2. ProcHolds(proc[h]) /\ proc[h] # Idle /\ proc[h].msg \in Message
    BY <1>w, <2>1, Working DEF Idle
  <2>3. d \in Entry /\ d.msg = proc[h].msg /\ ~d.pending
    BY <2>2, DtoTypes
  <2> HIDE DEF d
  <2>4. /\ proc'[h].pc = "emit" /\ proc'[h].op = proc[h].op /\ proc'[h].msg = proc[h].msg
        /\ proc'[h].own = proc[h].own /\ proc'[h].dto = d
    BY <1>w, <2>1 DEF ProcRecord
  <2>5. ProcHolds(proc[h])'
    BY <2>1, <2>2, <2>3, <2>4 DEF ProcHolds
  <2>6. QED BY <1>6, <2>1, <2>4, <2>5
<1>9. ASSUME NEW h \in Handler, Emit(h), proc[h].own
      PROVE  (\A g \in Handler : ProcHolds(proc[g]))' /\ OneSender'
  <2>1. proc' = [proc EXCEPT ![h] = [proc[h] EXCEPT !.pc = "answer"]]
        /\ proc[h].pc = "emit" /\ rows' = rows
    BY <1>9 DEF Emit
  <2>2. ProcHolds(proc[h]) /\ proc[h] # Idle
    BY <1>w, <2>1 DEF Idle
  <2>3. /\ proc'[h].pc = "answer" /\ proc'[h].op = proc[h].op /\ proc'[h].msg = proc[h].msg
        /\ proc'[h].own = proc[h].own /\ proc'[h].dto = proc[h].dto
    BY <1>w, <2>1 DEF ProcRecord
  <2>4. ProcHolds(proc[h])'
    BY <1>9, <2>1, <2>2, <2>3 DEF ProcHolds
  <2>5. QED BY <1>6, <2>1, <2>3, <2>4
<1>10. ASSUME NEW h \in Handler,
              \/ Emit(h) /\ ~proc[h].own
              \/ Answer(h) \/ LoseAnswer(h)
              \/ Toggle(h) /\ proc'[h] = Idle /\ rows' = rows
       PROVE  (\A g \in Handler : ProcHolds(proc[g]))' /\ OneSender'
  <2>1. proc'[h] = Idle /\ rows' = rows /\ \A g \in Handler \ {h} : proc'[g] = proc[g]
    BY <1>10 DEF Emit, Answer, LoseAnswer, Toggle
  <2>2. QED BY <1>5, <2>1
<1>11. CASE UNCHANGED <<rows, proc>>
  BY <1>1, <1>11 DEF Formed, OneSender
<1>12. ASSUME NEW n \in Message, Forward(n)
       PROVE  (\A g \in Handler : ProcHolds(proc[g]))' /\ OneSender'
  <2>1. ASSUME NEW g \in Handler, proc[g].pc # "idle"
        PROVE  rows'[proc[g].msg].stored = rows[proc[g].msg].stored
    BY <1>w, <1>12, <2>1, Working, Forwarding
  <2>2. proc' = proc
    BY <1>12, Forwarding
  <2>3. QED BY <1>1, <2>1, <2>2 DEF Formed, OneSender
<1>13. QED BY <1>2, <1>3, <1>4, <1>7, <1>8, <1>9, <1>10, <1>11, <1>12, Steps

(* Events keep their form: rows stay stored. *)
LEMMA EventStep ==
  ASSUME TypeOK, Formed, [Next]_vars, TypeOK'
  PROVE  (\A i \in DOMAIN wire : EventHolds(wire[i]))'
<1>w. \A h \in Handler : ProcHolds(proc[h])
  BY DEF Formed
<1>1. ASSUME NEW ev, EventHolds(ev)
      PROVE  EventHolds(ev)'
  BY <1>1, StoredRows DEF EventHolds, About
<1>2. CASE wire' = wire \/ wire' = <<>>
  BY <1>1, <1>2 DEF Formed
<1>3. CASE Receive
  <2>1. wire \in Seq(Event) /\ wire # <<>> /\ wire' = Tail(wire)
    BY <1>3 DEF Receive, TypeOK
  <2>2. \A i \in DOMAIN wire' : i + 1 \in DOMAIN wire /\ wire'[i] = wire[i + 1]
    BY <2>1
  <2>3. QED BY <1>1, <2>2 DEF Formed
<1>4. ASSUME NEW h \in Handler, Emit(h)
      PROVE  (\A i \in DOMAIN wire : EventHolds(wire[i]))'
  <2>1. wire' = wire \/ wire' = Append(wire, EventOf(h))
    BY <1>4 DEF Emit, Broadcast, EventOf
  <2>2. EventHolds(EventOf(h)) /\ wire \in Seq(Event)
    BY <1>4, <1>w, EventTypes DEF Emit, TypeOK
  <2> DEFINE ev == EventOf(h)
  <2>3. CASE wire' = Append(wire, ev)
    <3> HIDE DEF ev
    <3>1. \A i \in DOMAIN wire' : \/ i \in DOMAIN wire /\ wire'[i] = wire[i]
                               \/ wire'[i] = ev
      BY <2>2, <2>3
    <3>2. EventHolds(ev)
      BY <2>2 DEF ev
    <3>3. QED BY <1>1, <3>1, <3>2 DEF Formed
  <2>4. QED BY <1>2, <2>1, <2>3
<1>5. CASE ~Receive /\ \A h \in Handler : ~Emit(h)
  <2>1. wire' = wire \/ wire' = <<>>
    BY <1>5 DEF Next, Serve, vars, device, server, Compose, Begin, Post, Look, Write, Remove, Toggle,
                Hydrate, Answer, LoseAnswer, Disconnect, Reconnect, JoinRoom, Refetch, ReadPage,
                PageArrives, Forward
  <2>2. QED BY <1>2, <2>1
<1>6. QED BY <1>3, <1>4, <1>5

(* An edit is counted when it begins, and counted off when it is written.  *)
LEMMA EditsStep ==
  ASSUME TypeOK, Formed, [Next]_vars, TypeOK'
  PROVE  EditsCounted'
<1> USE DEF TypeOK
<1>t. \A m \in Message : rows[m].text \in Nat /\ asked \in Nat
  BY MessageCacheAssumption DEF RowRecord
<1>e. \A m \in Message : /\ IsFiniteSet(Editing(m)) /\ Cardinality(Editing(m)) \in Nat
                         /\ rows[m].text + Cardinality(Editing(m)) <= asked
  BY FS_CardinalityType DEF Formed, EditsCounted
<1>1. ASSUME NEW m \in Message, Editing(m)' = Editing(m), rows'[m].text = rows[m].text,
             asked' = asked \/ asked' = asked + 1
      PROVE  IsFiniteSet(Editing(m)') /\ rows'[m].text + Cardinality(Editing(m)') <= asked'
  BY <1>e, <1>t, <1>1
<1>2. ASSUME NEW h \in Handler, NEW op \in Ops, NEW k \in Message, NEW own \in BOOLEAN,
             Begin(h, op, k, own), NEW m \in Message
      PROVE  IsFiniteSet(Editing(m)') /\ rows'[m].text + Cardinality(Editing(m)') <= asked'
  <2>1. /\ proc[h] = Idle /\ rows' = rows /\ asked' = asked + 1
        /\ \A g \in Handler \ {h} : proc'[g] = proc[g]
    BY <1>2 DEF Begin
  <2>2. h \notin Editing(m) /\ Editing(m)' \ {h} = Editing(m)
    BY <2>1 DEF Editing, Idle
  <2>3. CASE h \notin Editing(m)'
    <3>1. Editing(m)' = Editing(m)
      <4> DEFINE E == Editing(m)  F == Editing(m)'
      <4>1. F \ {h} = E /\ h \notin F
        BY <2>2, <2>3
      <4> HIDE DEF E, F
      <4>2. F = E
        BY <4>1
      <4>3. QED BY <4>2 DEF E, F
    <3>2. QED BY <1>1, <2>1, <3>1
  <2>4. CASE h \in Editing(m)'
    <3>1. Editing(m)' = Editing(m) \cup {h}
      BY <2>2, <2>4
    <3>2. /\ IsFiniteSet(Editing(m) \cup {h})
          /\ Cardinality(Editing(m) \cup {h}) = Cardinality(Editing(m)) + 1
      BY <1>e, <2>2, FS_AddElement
    <3>3. QED BY <1>e, <1>t, <2>1, <3>1, <3>2
  <2>5. QED BY <2>3, <2>4
<1>3. ASSUME NEW h \in Handler, WriteStep(h), NEW m \in Message
      PROVE  IsFiniteSet(Editing(m)') /\ rows'[m].text + Cardinality(Editing(m)') <= asked'
  <2>1. /\ proc[h].pc = "write" /\ asked' = asked /\ proc'[h].pc # "write"
        /\ proc[h].msg \in Message
        /\ \A g \in Handler \ {h} : proc'[g] = proc[g]
    BY <1>3, Writing
  <2>2. Editing(m)' = Editing(m) \ {h}
    BY <2>1 DEF Editing
  <2>3. CASE h \in Editing(m)
    <3>1. m = proc[h].msg /\ proc[h].op = "edit"
      BY <2>3 DEF Editing
    <3>2. rows'[m].text = rows[m].text + 1
      BY <1>3, <3>1, WrittenRows
    <3>3. /\ IsFiniteSet(Editing(m) \ {h})
          /\ Cardinality(Editing(m) \ {h}) = Cardinality(Editing(m)) - 1
      BY <2>1, <3>1, EditFits DEF Formed
    <3>4. QED BY <1>e, <1>t, <2>1, <2>2, <3>2, <3>3
  <2>4. CASE h \notin Editing(m)
    <3>1. rows'[m].text = rows[m].text
      <4>1. CASE m = proc[h].msg
        <5>1. proc[h].op # "edit"
          BY <2>1, <2>4, <4>1 DEF Editing
        <5>2. QED BY <1>3, <4>1, <5>1, WrittenRows
      <4>2. CASE m # proc[h].msg
        <5>1. rows'[m] = rows[m] \/ rows'[m] = [rows[m] EXCEPT !.replies = @ + 1]
          BY <1>3, <4>2, WrittenRows
        <5>2. rows[m] \in RowRecord
          OBVIOUS
        <5>3. QED BY <5>1, <5>2 DEF RowRecord
      <4>3. QED BY <4>1, <4>2
    <3>2. Editing(m)' = Editing(m)
      BY <2>2, <2>4
    <3>3. QED BY <1>1, <2>1, <3>1, <3>2
  <2>5. QED BY <2>3, <2>4
<1>4. ASSUME NEW h \in Handler, \A g \in Handler \ {h} : proc'[g] = proc[g],
             NEW m \in Message, rows' = rows, asked' = asked,
             h \notin Editing(m), h \notin Editing(m)'
      PROVE  IsFiniteSet(Editing(m)') /\ rows'[m].text + Cardinality(Editing(m)') <= asked'
  <2>1. Editing(m)' = Editing(m)
    BY <1>4 DEF Editing
  <2>2. QED BY <1>1, <1>4, <2>1
<1>5. ASSUME NEW h \in Handler, \A g \in Handler \ {h} : proc'[g] = proc[g],
             \/ \E n \in Message : Compose(h, n)
             \/ Toggle(h) /\ proc'[h] = Idle /\ UNCHANGED <<rows, raced>>
             \/ Look(h) \/ Hydrate(h) \/ Emit(h) \/ Answer(h) \/ LoseAnswer(h),
             NEW m \in Message
      PROVE  IsFiniteSet(Editing(m)') /\ rows'[m].text + Cardinality(Editing(m)') <= asked'
  <2>1. rows' = rows /\ asked' = asked
    BY <1>5 DEF Compose, Toggle, Look, Hydrate, Emit, Answer, LoseAnswer
  <2>2. proc[h].pc # "write" \/ proc[h].op # "edit"
    <3>1. CASE \E n \in Message : Compose(h, n)
      BY <3>1 DEF Compose, Idle
    <3>2. CASE Toggle(h)
      BY <3>2 DEF Toggle
    <3>3. CASE Look(h) \/ Hydrate(h) \/ Emit(h) \/ Answer(h) \/ LoseAnswer(h)
      BY <3>3 DEF Look, Hydrate, Emit, Answer, LoseAnswer
    <3>4. QED BY <1>5, <3>1, <3>2, <3>3
  <2>3. proc'[h].pc # "write" \/ proc'[h].op # "edit"
    <3>1. CASE \E n \in Message : Compose(h, n)
      BY <3>1 DEF Compose, Idle
    <3>2. CASE Look(h)
      <4>1. proc[h].pc = "look" /\ ProcHolds(proc[h]) /\ proc'[h].op = proc[h].op
        BY <3>2 DEF Look, Formed, ProcRecord
      <4>2. QED BY <4>1 DEF ProcHolds, Idle
    <3>3. CASE Hydrate(h) \/ Emit(h) \/ Answer(h) \/ LoseAnswer(h)
               \/ (Toggle(h) /\ proc'[h] = Idle)
      BY <3>3 DEF Hydrate, Emit, Answer, LoseAnswer, Idle, ProcRecord
    <3>4. QED BY <1>5, <3>1, <3>2, <3>3
  <2>4. h \notin Editing(m) /\ h \notin Editing(m)'
    BY <2>2, <2>3 DEF Editing
  <2>5. QED BY <1>4, <1>5, <2>1, <2>4
<1>6. ASSUME UNCHANGED <<rows, proc, asked>>, NEW m \in Message
      PROVE  IsFiniteSet(Editing(m)') /\ rows'[m].text + Cardinality(Editing(m)') <= asked'
  <2>1. Editing(m)' = Editing(m)
    BY <1>6 DEF Editing
  <2>2. QED BY <1>1, <1>6, <2>1
<1>f. ASSUME NEW n \in Message, Forward(n), NEW m \in Message
      PROVE  IsFiniteSet(Editing(m)') /\ rows'[m].text + Cardinality(Editing(m)') <= asked'
  <2>1. UNCHANGED <<proc, asked>> /\ rows'[m].text = rows[m].text
    BY <1>f, Forwarding
  <2>2. Editing(m)' = Editing(m)
    BY <2>1 DEF Editing
  <2>3. QED BY <1>1, <2>1, <2>2
<1>7. \A m \in Message :
        IsFiniteSet(Editing(m)') /\ rows'[m].text + Cardinality(Editing(m)') <= asked'
  BY <1>2, <1>3, <1>5, <1>6, <1>f, Steps
<1>8. QED BY <1>7 DEF EditsCounted

(* Together: types and forms are kept by every step. *)
LEMMA FormedStep ==
  ASSUME TypeOK, Formed, [Next]_vars
  PROVE  TypeOK' /\ Formed'
BY TypeStep, ProcStep, EventStep, EditsStep DEF Formed

---------------------------------------------------------------------------
(* A message once, and no reply.                                           *)

(* Events, answers, bubbles and fetched pages leave the list tidy. *)
LEMMA TidyStep ==
  ASSUME TypeOK, Formed, Tidy(list), Tidy(fetch.page), [Next]_vars
  PROVE  Tidy(list)' /\ Tidy(fetch.page)'
<1> USE DEF TypeOK
<1>1. ASSUME NEW d \in Entry, Parent[d.msg] = None, list' = Upsert(list, d)
      PROVE  Tidy(list)'
  BY <1>1 DEF Upsert, SameMessage, Tidy
<1>2. ASSUME NEW h \in Handler, NEW m \in Message, Compose(h, m)
      PROVE  Tidy(list)' /\ Tidy(fetch.page)'
  <2>1. m \in Own => Parent[m] = None
    BY MessageCacheAssumption
  <2>2. fetch' = fetch /\ (list' = list \/ (m \in Own /\ list' = Upsert(list, Bubble(m))))
    BY <1>2 DEF Compose
  <2>3. QED BY <1>1, <2>1, <2>2, BubbleTypes DEF Tidy
<1>3. ASSUME NEW h \in Handler, Answer(h)
      PROVE  Tidy(list)' /\ Tidy(fetch.page)'
  <2>1. /\ proc[h].dto \in Entry /\ proc[h].dto.msg = proc[h].msg /\ proc[h].msg \in Own
        /\ proc[h].msg \in Message
    BY <1>3, Working DEF Answer, Formed
  <2>2. Parent[proc[h].msg] = None
    BY <2>1, MessageCacheAssumption
  <2>3. list' = Upsert(list, proc[h].dto) /\ fetch' = fetch
    BY <1>3 DEF Answer
  <2>4. QED BY <1>1, <2>1, <2>2, <2>3 DEF Tidy
<1>4. CASE Receive
  <2>1. Head(wire) \in Event /\ list' = OnEvent(list, Head(wire)) /\ fetch'.page = fetch.page
    BY <1>4 DEF Receive, PassedBy
  <2>2. Tidy(OnEvent(list, Head(wire)))
    BY <2>1, StaysTidy
  <2>3. QED BY <2>1, <2>2 DEF Tidy
<1>5. CASE ReadPage
  <2>1. fetch'.page = Page(rows) /\ list' = list
    BY <1>5 DEF ReadPage
  <2>2. QED BY <2>1, PageTidy DEF Tidy
<1>6. CASE PageArrives
  BY <1>6 DEF PageArrives, NoFetch, Tidy
<1>7. CASE Reconnect \/ Refetch
  BY <1>7 DEF Reconnect, Refetch, Fetching, NoFetch, Tidy
<1>8. CASE UNCHANGED <<list, fetch>>
  BY <1>8 DEF Tidy
<1>f. ASSUME NEW m \in Message, Forward(m)
      PROVE  Tidy(list)' /\ Tidy(fetch.page)'
  <2>1. list' = list /\ fetch'.page = fetch.page
    BY <1>f, Forwarding
  <2>2. QED BY <2>1 DEF Tidy
<1>9. QED BY <1>2, <1>3, <1>4, <1>5, <1>6, <1>7, <1>8, <1>f
          DEF Next, Serve, vars, device, server, Begin, Post, Look, Write, Remove, Toggle, Hydrate,
              Emit, LoseAnswer, Disconnect, JoinRoom

(* While nothing was dropped the socket is in its room. *)
LEMMA ConnectedStep ==
  ASSUME TypeOK, Connected, [Next]_vars
  PROVE  Connected'
<1>1. CASE Disconnect
  <2>1. drops \in Nat /\ drops' = drops + 1
    BY <1>1, MessageCacheAssumption DEF Disconnect, TypeOK
  <2>2. QED BY <2>1 DEF Connected
<1>2. CASE Reconnect \/ JoinRoom
  BY <1>2 DEF Reconnect, JoinRoom, Connected
<1>3. CASE UNCHANGED <<online, joined, drops>>
  BY <1>3 DEF Connected
<1>4. QED BY <1>1, <1>2, <1>3
          DEF Next, Serve, vars, device, server, Compose, Begin, Post, Look, Write, Remove, Toggle,
              Hydrate, Emit, Answer, LoseAnswer, Receive, Refetch, ReadPage, PageArrives, Forward

(* Rows stay stored while their page is on its way. *)
LEMMA PageStep ==
  ASSUME TypeOK, Formed, PageStored, [Next]_vars, TypeOK'
  PROVE  PageStored'
<1>s. \A m \in Message : rows[m].stored => rows'[m].stored
  BY StoredRows
<1>e. \A e \in Entry : e.msg \in Message
  BY DEF Entry
<1>1. CASE ReadPage
  <2> DEFINE D(m) == Dto(rows, m)
  <2>1. fetch'.page = {D(m) : m \in {n \in Message : rows[n].stored /\ Parent[n] = None}}
    BY <1>1 DEF ReadPage, Page
  <2>2. \A m \in Message : D(m).msg = m
    BY DtoTypes DEF TypeOK
  <2> HIDE DEF D
  <2>3. QED BY <1>s, <2>1, <2>2 DEF PageStored
<1>2. CASE fetch'.page = {} \/ fetch'.page = fetch.page
  BY <1>s, <1>e, <1>2 DEF PageStored, TypeOK
<1>3. CASE ~ReadPage
  <2>f. ASSUME NEW m \in Message, Forward(m)
        PROVE  fetch'.page = fetch.page
    BY <2>f, Forwarding
  <2>r. ASSUME Receive
        PROVE  fetch'.page = fetch.page
    BY <2>r DEF Receive, PassedBy, TypeOK
  <2>d. ASSUME DeviceStep \/ UNCHANGED vars
        PROVE  fetch'.page = {} \/ fetch'.page = fetch.page
    BY <1>3, <2>d, <2>r
       DEF DeviceStep, vars, Disconnect, Reconnect, JoinRoom, Refetch, PageArrives, NoFetch, Fetching
  <2>1. fetch'.page = {} \/ fetch'.page = fetch.page
    BY <2>f, <2>d, Steps
       DEF WriteStep, Compose, Begin, Post, Look, Write, Remove, Toggle, Hydrate, Emit, Answer,
           LoseAnswer, device
  <2>2. QED BY <1>2, <2>1
<1>4. QED BY <1>1, <1>3

---------------------------------------------------------------------------
(* One writer.                                                             *)

(* A write races with the writers that have not told; without a race the   *)
(* message has one writer, and its snapshot is the row.                    *)
LEMMA WriterStep ==
  ASSUME TypeOK, Formed, OneWriter, SnapshotsFresh, [Next]_vars, TypeOK', Formed'
  PROVE  OneWriter' /\ SnapshotsFresh'
<1> USE DEF TypeOK
<1>w. \A h \in Handler : proc[h].pc # "idle" => proc[h].msg \in Message
  BY Working DEF Formed
<1>1. ASSUME NEW h \in Handler, WriteStep(h)
      PROVE  OneWriter' /\ SnapshotsFresh'
  <2>1. /\ proc[h].pc = "write" /\ proc[h].msg \in Message /\ NoteRace(h)
        /\ \A g \in Handler \ {h} : proc'[g] = proc[g] /\ Touched(g)' = Touched(g)
        /\ proc'[h].op = proc[h].op /\ proc'[h].msg = proc[h].msg
        /\ Touched(h)' = Touched(h)
    BY <1>1, Writing DEF Touched
  <2>2. /\ raced' = raced \cup (Touched(h) \cap UNION {Touched(g) : g \in Untold \ {h}})
        /\ Untold' \subseteq Untold \cup {h} /\ h \notin Untold
    BY <2>1 DEF NoteRace, Untold
  <2>3. \A g \in Untold : Touched(g) \cap Touched(h) \subseteq raced'
    BY <2>2
  <2>4. OneWriter'
    <3>1. \A g \in Untold' : Touched(g)' = Touched(g) /\ (g = h \/ g \in Untold)
      BY <2>1, <2>2 DEF Untold
    <3>2. \A g, k \in Untold : Touched(g) \cap Touched(k) \subseteq raced' \/ g = k
      BY <2>2 DEF OneWriter
    <3>3. \A g, k \in Untold' : Touched(g) \cap Touched(k) \subseteq raced' \/ g = k
      BY <2>3, <3>1, <3>2
    <3>4. QED BY <3>1, <3>3 DEF OneWriter
  <2>5. ASSUME NEW g \in Handler \ {h}, proc[g].pc \in {"emit", "answer"}, proc[g].msg \notin raced'
        PROVE  proc[g].dto = Dto(rows', proc[g].msg)
    <3>1. proc[g].msg \in Touched(g) /\ g \in Untold /\ proc[g].msg \in Message
      BY <1>w, <2>5 DEF Touched, Untold
    <3>2. proc[g].msg \notin Touched(h)
      BY <2>3, <2>5, <3>1
    <3>3. rows'[proc[g].msg] = rows[proc[g].msg]
      BY <1>1, <3>1, <3>2, WrittenRows, MessageCacheAssumption DEF Touched
    <3>4. proc[g].msg \notin raced
      BY <2>2, <2>5
    <3>5. proc[g].dto = Dto(rows, proc[g].msg)
      BY <2>5, <3>4 DEF SnapshotsFresh
    <3>6. QED BY <3>3, <3>5 DEF Dto
  <2>6. SnapshotsFresh'
    BY <1>1, <2>1, <2>5, Writing DEF SnapshotsFresh
  <2>7. QED BY <2>4, <2>6
<1>2. ASSUME NEW h \in Handler, \A g \in Handler \ {h} : proc'[g] = proc[g],
             UNCHANGED <<rows, raced>>,
             proc'[h].pc \in {"hydrate", "emit", "answer"} =>
               proc[h].pc \in {"hydrate", "emit", "answer"} /\ Touched(h)' = Touched(h),
             proc'[h].pc \in {"emit", "answer"} =>
               \/ proc'[h].dto = Dto(rows, proc'[h].msg)
               \/ proc[h].pc \in {"emit", "answer"} /\ proc'[h].dto = proc[h].dto
                  /\ proc'[h].msg = proc[h].msg
      PROVE  OneWriter' /\ SnapshotsFresh'
  <2>1. Untold' \subseteq Untold /\ \A g \in Untold' : Touched(g)' = Touched(g)
    BY <1>2 DEF Untold, Touched
  <2>2. OneWriter'
    BY <1>2, <2>1 DEF OneWriter
  <2>3. SnapshotsFresh'
    BY <1>2 DEF SnapshotsFresh
  <2>4. QED BY <2>2, <2>3
<1>3. ASSUME NEW h \in Handler, \A g \in Handler \ {h} : proc'[g] = proc[g],
             \/ \E n \in Message : Compose(h, n)
             \/ \E op \in Ops, m \in Message, own \in BOOLEAN : Begin(h, op, m, own)
             \/ Toggle(h) /\ proc'[h] = Idle /\ UNCHANGED <<rows, raced>>
             \/ Look(h) \/ Answer(h) \/ LoseAnswer(h)
      PROVE  OneWriter' /\ SnapshotsFresh'
  <2>1. UNCHANGED <<rows, raced>>
    BY <1>3 DEF Compose, Begin, Look, Answer, LoseAnswer
  <2>2. proc'[h].pc \in {"idle", "look", "write"}
    <3>1. CASE \E n \in Message : Compose(h, n)
      BY <3>1 DEF Compose, Idle
    <3>2. CASE \E op \in Ops, m \in Message, own \in BOOLEAN : Begin(h, op, m, own)
      BY <3>2 DEF Begin, Idle
    <3>3. CASE Look(h)
      BY <3>3 DEF Look, ProcRecord
    <3>4. CASE Answer(h) \/ LoseAnswer(h) \/ proc'[h] = Idle
      BY <3>4 DEF Answer, LoseAnswer, Idle
    <3>5. QED BY <1>3, <3>1, <3>2, <3>3, <3>4
  <2>3. QED BY <1>2, <1>3, <2>1, <2>2
<1>4. ASSUME NEW h \in Handler, \A g \in Handler \ {h} : proc'[g] = proc[g], Hydrate(h)
      PROVE  OneWriter' /\ SnapshotsFresh'
  <2> DEFINE d == Dto(rows, proc[h].msg)
  <2>1. /\ proc' = [proc EXCEPT ![h] = [proc[h] EXCEPT !.pc = "emit", !.dto = d]]
        /\ proc[h].pc = "hydrate" /\ UNCHANGED <<rows, raced>>
    BY <1>4 DEF Hydrate
  <2> HIDE DEF d
  <2>2. proc'[h].msg = proc[h].msg /\ proc'[h].op = proc[h].op /\ proc'[h].dto = d
    BY <2>1 DEF ProcRecord
  <2>3. Touched(h)' = Touched(h)
    BY <2>2 DEF Touched
  <2>4. QED BY <1>2, <1>4, <2>1, <2>2, <2>3 DEF d
<1>5. ASSUME NEW h \in Handler, \A g \in Handler \ {h} : proc'[g] = proc[g], Emit(h)
      PROVE  OneWriter' /\ SnapshotsFresh'
  <2>1. proc[h].pc = "emit" /\ UNCHANGED <<rows, raced>>
        /\ (proc'[h] = Idle \/ proc'[h] = [proc[h] EXCEPT !.pc = "answer"])
    BY <1>5 DEF Emit
  <2>2. \/ proc'[h].pc = "idle"
        \/ proc'[h].msg = proc[h].msg /\ proc'[h].op = proc[h].op /\ proc'[h].dto = proc[h].dto
    BY <2>1 DEF ProcRecord, Idle
  <2>3. proc'[h].pc # "idle" => Touched(h)' = Touched(h)
    BY <2>2 DEF Touched
  <2>4. QED BY <1>2, <1>5, <2>1, <2>2, <2>3
<1>6. CASE UNCHANGED <<rows, proc, raced>>
  BY <1>6 DEF OneWriter, SnapshotsFresh, Untold, Touched
<1>f. ASSUME NEW n \in Message, Forward(n)
      PROVE  OneWriter' /\ SnapshotsFresh'
  <2>1. /\ UNCHANGED <<proc, raced>> /\ \A h \in Handler : proc[h].msg # n
        /\ \A m \in Message \ {n} : rows'[m] = rows[m]
    BY <1>f, Forwarding
  <2>2. OneWriter'
    BY <2>1 DEF OneWriter, Untold, Touched
  <2>3. ASSUME NEW h \in Handler, proc[h].pc \in {"emit", "answer"}
        PROVE  Dto(rows', proc[h].msg) = Dto(rows, proc[h].msg)
    <3>1. rows'[proc[h].msg] = rows[proc[h].msg]
      BY <1>w, <2>1, <2>3
    <3>2. QED BY <3>1 DEF Dto
  <2>4. SnapshotsFresh'
    BY <2>1, <2>3 DEF SnapshotsFresh
  <2>5. QED BY <2>2, <2>4
<1>7. QED BY <1>1, <1>3, <1>4, <1>5, <1>6, <1>f, Steps

---------------------------------------------------------------------------
(* What the device will list.                                              *)

(* What upsertMessage lists of a message. *)
LEMMA UpsertListed ==
  ASSUME NEW S \in SUBSET Entry, NEW d \in Entry, NEW m \in Message
  PROVE  /\ d.msg # m => Listed(Upsert(S, d), m) = Listed(S, m)
         /\ d.msg = m /\ Parent[m] = None => Listed(Upsert(S, d), m) = {d}
BY DEF Upsert, SameMessage, Listed

(* Without a disconnection the device receives events and fetches pages. *)
LEMMA ConnectedSteps ==
  ASSUME TypeOK, Connected, [Next]_vars, drops' = 0
  PROVE  /\ drops = 0 /\ joined /\ (DeviceStep => Receive \/ Refetch \/ ReadPage \/ PageArrives)
         /\ raced \subseteq raced'
<1>1. CASE DeviceStep
  <2>1. ~Disconnect
    BY MessageCacheAssumption DEF Disconnect, TypeOK
  <2>2. drops' = drops
    BY <1>1, <2>1 DEF DeviceStep, Receive, Reconnect, JoinRoom, Refetch, ReadPage, PageArrives
  <2>3. online /\ joined
    BY <2>2 DEF Connected
  <2>4. ~Reconnect /\ ~JoinRoom
    BY <2>3 DEF Reconnect, JoinRoom
  <2>5. raced' = raced
    BY <1>1 DEF DeviceStep, Receive, Disconnect, Reconnect, JoinRoom, Refetch, ReadPage, PageArrives,
                server
  <2>6. QED BY <1>1, <2>1, <2>2, <2>3, <2>4, <2>5 DEF DeviceStep
<1>2. CASE ~DeviceStep
  <2>1. drops' = drops
    BY <1>2 DEF DeviceStep, Next, Serve, vars, device, Compose, Begin, Post, Look, Write, Remove,
                Toggle, Hydrate, Emit, Answer, LoseAnswer, Forward
  <2>2. raced \subseteq raced'
    BY <1>2 DEF DeviceStep, Next, Serve, vars, device, Compose, Begin, Post, Look, Write, Remove,
                Toggle, Hydrate, Emit, Answer, LoseAnswer, NoteRace, Forward
  <2>3. QED BY <1>2, <2>1, <2>2 DEF Connected
<1>3. QED BY <1>1, <1>2

(* What is listed of a message is changed by its bubble, by its answer, by *)
(* events and by pages.                                                    *)
LEMMA ListedSteps ==
  ASSUME TypeOK, Formed, Connected, [Next]_vars, drops' = 0, NEW m \in Message
  PROVE  \/ Listed(list', m) = Listed(list, m) /\ (m \in stale => m \in stale')
         \/ /\ \E h \in Handler : Compose(h, m)
            /\ Listed(list', m) = {Bubble(m)}
         \/ \E h \in Handler : /\ Answer(h) /\ proc[h].msg = m /\ Parent[m] = None
                               /\ Listed(list', m) = {proc[h].dto}
         \/ /\ Receive /\ About(Head(wire)) = m
            /\ Listed(list', m) = Listed(OnEvent(list, Head(wire)), m)
         \/ /\ PageArrives /\ fetch.pc = "answered" /\ stale' = fetch.passed
            /\ Listed(list', m) = Listed(fetch.page, m)
<1> USE DEF TypeOK
<1>1. ASSUME NEW h \in Handler, NEW n \in Message, Compose(h, n), n # m
      PROVE  Listed(list', m) = Listed(list, m) /\ stale' = stale
  <2>1. Bubble(n) \in Entry /\ Bubble(n).msg # m
    BY <1>1, BubbleTypes
  <2>2. (list' = list \/ list' = Upsert(list, Bubble(n))) /\ stale' = stale
    BY <1>1 DEF Compose
  <2>3. Listed(Upsert(list, Bubble(n)), m) = Listed(list, m)
    BY <2>1, UpsertListed
  <2>4. QED BY <2>2, <2>3
<1>2. ASSUME NEW h \in Handler, Compose(h, m)
      PROVE  \/ Listed(list', m) = Listed(list, m) /\ stale' = stale
             \/ Listed(list', m) = {Bubble(m)}
  BY <1>2, UpsertListed, BubbleTypes, MessageCacheAssumption DEF Compose
<1>3. ASSUME NEW h \in Handler, Answer(h)
      PROVE  \/ Listed(list', m) = Listed(list, m) /\ stale' = stale
             \/ /\ proc[h].msg = m /\ Parent[m] = None
                /\ Listed(list', m) = {proc[h].dto}
  <2>1. /\ proc[h].dto \in Entry /\ proc[h].dto.msg = proc[h].msg /\ proc[h].msg \in Own
        /\ proc[h].msg \in Message
    BY <1>3, Working DEF Answer, Formed
  <2>2. Parent[proc[h].msg] = None /\ list' = Upsert(list, proc[h].dto) /\ stale' = stale
    BY <1>3, <2>1, MessageCacheAssumption DEF Answer
  <2>3. QED BY <2>1, <2>2, UpsertListed
<1>4. ASSUME Receive
      PROVE  \/ Listed(list', m) = Listed(list, m) /\ (m \in stale => m \in stale')
             \/ /\ About(Head(wire)) = m
                /\ Listed(list', m) = Listed(OnEvent(list, Head(wire)), m)
  <2>1. /\ Head(wire) \in Event /\ list' = OnEvent(list, Head(wire))
        /\ \/ stale' = stale
           \/ /\ Head(wire).type \in {"new", "updated"}
              /\ stale' = stale \ {Head(wire).dto.msg}
    BY <1>4 DEF Receive
  <2>2. Head(wire).type \in {"new", "updated"} => About(Head(wire)) = Head(wire).dto.msg
    BY DEF About
  <2>3. QED BY <2>1, <2>2, AfterOther
<1>5. CASE list' = list /\ stale \subseteq stale'
  BY <1>5
<1>6. CASE DeviceStep
  <2>1. CASE PageArrives
    BY <2>1 DEF PageArrives
  <2>2. CASE Refetch \/ ReadPage
    BY <1>5, <2>2 DEF Refetch, ReadPage
  <2>3. QED BY <1>4, <1>6, <2>1, <2>2, ConnectedSteps
<1>7. CASE ~DeviceStep
  <2>1. CASE ~ \E h \in Handler : Answer(h) \/ \E n \in Message : Compose(h, n)
    <3>1. list' = list /\ stale \subseteq stale'
      BY <1>7, <2>1 DEF DeviceStep, Next, Serve, vars, device, Begin, Post, Look, Write, Remove,
                        Toggle, Hydrate, Emit, LoseAnswer, Forward
    <3>2. QED BY <1>5, <3>1
  <2>2. QED BY <1>1, <1>2, <1>3, <2>1
<1>8. QED BY <1>6, <1>7

(* What a page on its way lists stays, until something about it passes.    *)
LEMMA PageSteps ==
  ASSUME TypeOK, Formed, Connected, [Next]_vars, drops' = 0, NEW m \in Message,
         fetch'.pc = "answered", m \notin fetch'.passed
  PROVE  \/ /\ fetch.pc = "answered" /\ m \notin fetch.passed /\ fetch'.page = fetch.page
            /\ Receive => About(Head(wire)) # m
         \/ ReadPage /\ m \notin Coming /\ fetch'.page = Page(rows)
<1>1. CASE Receive
  <2>1. PassedBy({About(Head(wire))}) /\ About(Head(wire)) \in Message
    <3>1. wire # <<>> /\ wire \in Seq(Event)
      BY <1>1 DEF Receive, TypeOK
    <3>2. 1 \in DOMAIN wire /\ Head(wire) = wire[1]
      BY <3>1
    <3>3. QED BY <1>1, <3>2 DEF Receive, Formed, EventHolds
  <2>2. QED BY <2>1, PassedTypes
<1>2. CASE ReadPage
  BY <1>2 DEF ReadPage
<1>3. CASE Refetch \/ PageArrives
  BY <1>3 DEF Refetch, PageArrives, Fetching, NoFetch
<1>4. ASSUME NEW n \in Message, Forward(n)
      PROVE  fetch.pc = "answered" /\ m \notin fetch.passed /\ fetch'.page = fetch.page /\ ~Receive
  <2>1. ~Receive
    BY <1>4 DEF Forward, Receive, TypeOK, server
  <2>2. QED BY <1>4, <2>1, Forwarding
<1>5. CASE ~DeviceStep /\ \A n \in Message : ~Forward(n)
  <2>1. fetch' = fetch
    BY <1>5 DEF DeviceStep, Next, Serve, vars, device, Compose, Begin, Post, Look, Write, Remove,
                Toggle, Hydrate, Emit, Answer, LoseAnswer
  <2>2. QED BY <1>5, <2>1 DEF DeviceStep
<1>6. QED BY <1>1, <1>2, <1>3, <1>4, <1>5, ConnectedSteps

(* The wire changes at its two ends. *)
LEMMA WireSteps ==
  ASSUME TypeOK, Formed, Connected, [Next]_vars, drops' = 0
  PROVE  \/ wire' = wire /\ ~Receive /\ \A h \in Handler : ~Emit(h)
         \/ Receive /\ wire # <<>> /\ wire' = Tail(wire)
         \/ ~Receive /\ \E h \in Handler : Emit(h) /\ wire' = Append(wire, EventOf(h))
<1>1. ASSUME NEW h \in Handler, Emit(h)
      PROVE  wire' = Append(wire, EventOf(h)) /\ ~Receive
  <2>1. proc[h].pc = "emit" /\ (proc'[h] = Idle \/ proc'[h].pc = "answer")
    BY <1>1 DEF Emit, TypeOK, ProcRecord
  <2>2. proc' # proc
    BY <2>1 DEF Idle
  <2>3. ~Receive
    BY <2>2 DEF Receive, server
  <2>4. QED BY <1>1, <2>3, ConnectedSteps DEF Emit, Broadcast, EventOf
<1>2. CASE Receive
  BY <1>2 DEF Receive
<1>3. CASE ~Receive /\ \A h \in Handler : ~Emit(h)
  <2>1. ~Disconnect
    BY MessageCacheAssumption DEF Disconnect, TypeOK
  <2>2. wire' = wire
    BY <1>3, <2>1
       DEF Next, Serve, vars, device, Compose, Begin, Post, Look, Write, Remove, Toggle,
           Hydrate, Answer, LoseAnswer, Forward, Refetch, ReadPage, PageArrives, Reconnect, JoinRoom
  <2>3. QED BY <1>3, <2>2
<1>4. QED BY <1>1, <1>2, <1>3

(* A message that is not stored is listed as a bubble at most, while its   *)
(* request is under way.                                                   *)
LEMMA BubblesStep ==
  ASSUME TypeOK, Formed, Connected, PageStored, BubblesSent, [Next]_vars, TypeOK', Formed'
  PROVE  BubblesSent'
<1> SUFFICES ASSUME drops' = 0, NEW m \in Message, ~rows'[m].stored
             PROVE  /\ Listed(list', m) \subseteq {Bubble(m)}
                    /\ \/ Listed(list', m) = {}
                       \/ \E h \in Handler : /\ proc'[h].pc = "write" /\ proc'[h].op = "send"
                                             /\ proc'[h].msg = m
  BY DEF BubblesSent
<1> USE DEF TypeOK
<1>1. drops = 0 /\ ~rows[m].stored
  BY ConnectedSteps, StoredRows
<1>2. /\ Listed(list, m) \subseteq {Bubble(m)}
      /\ \/ Listed(list, m) = {}
         \/ \E h \in Handler : proc[h].pc = "write" /\ proc[h].op = "send" /\ proc[h].msg = m
  BY <1>1 DEF BubblesSent
<1>3. CASE \E h \in Handler : Compose(h, m)
  <2>1. PICK h \in Handler : Compose(h, m)
    BY <1>3
  <2>2. proc'[h].pc = "write" /\ proc'[h].op = "send" /\ proc'[h].msg = m
    BY <2>1 DEF Compose, Idle
  <2>3. Listed(list', m) \subseteq {Bubble(m)}
    BY <1>2, <2>1, UpsertListed, BubbleTypes, MessageCacheAssumption DEF Compose
  <2>4. QED BY <2>2, <2>3
<1>4. CASE Listed(list', m) = Listed(list, m)
  <2>1. ASSUME NEW h \in Handler, proc[h].pc = "write", proc[h].op = "send", proc[h].msg = m
        PROVE  proc'[h] = proc[h]
    <3> proc[h] # Idle
      BY <2>1 DEF Idle
    <3>1. ~WriteStep(h)
      BY <2>1, WrittenRows
    <3>2. ~ \E n \in Message : Compose(h, n)
      BY DEF Compose
    <3>3. ~ \E op \in Ops, n \in Message, own \in BOOLEAN : Begin(h, op, n, own)
      BY DEF Begin
    <3>4. ~ (Look(h) \/ Hydrate(h) \/ Emit(h) \/ Answer(h) \/ LoseAnswer(h) \/ Toggle(h))
      BY <2>1 DEF Look, Hydrate, Emit, Answer, LoseAnswer, Toggle
    <3>5. QED BY <3>1, <3>2, <3>3, <3>4, Steps
  <2>2. QED BY <1>2, <1>4, <2>1
<1>p. CASE PageArrives /\ Listed(list', m) = Listed(fetch.page, m)
  BY <1>1, <1>p DEF PageStored, Listed
<1>5. ASSUME NEW h \in Handler, Answer(h), proc[h].msg = m
      PROVE  FALSE
  BY <1>1, <1>5, Working DEF Answer, Formed
<1>6. CASE Receive /\ About(Head(wire)) = m
  <2>1. wire # <<>> /\ wire \in Seq(Event)
    BY <1>6 DEF Receive
  <2>2. 1 \in DOMAIN wire /\ Head(wire) = wire[1]
    BY <2>1
  <2>3. rows[About(wire[1])].stored
    BY <2>2 DEF Formed, EventHolds
  <2>4. QED BY <1>1, <1>6, <2>2, <2>3
<1>7. QED BY <1>3, <1>4, <1>p, <1>5, <1>6, ListedSteps

(* An answer that is to come stays the last word on its message. *)
LEMMA AnswersStep ==
  ASSUME TypeOK, Formed, Connected, OneWriter, SnapshotsFresh, AnswersAgree, [Next]_vars, TypeOK',
         Formed'
  PROVE  AnswersAgree'
<1> SUFFICES ASSUME drops' = 0, NEW h \in Handler, proc'[h].pc = "answer",
                    proc'[h].msg \notin raced', NEW c \in Copies,
                    NEW m, m = proc'[h].msg, NEW d, d = proc'[h].dto
             PROVE  Agrees(c, m, d)'
  BY DEF AnswersAgree, Agrees
<1> USE DEF TypeOK
<1>0. drops = 0 /\ wire \in Seq(Event) /\ wire' \in Seq(Event)
  BY ConnectedSteps
<1>w. \A g \in Handler : ProcHolds(proc[g])
  BY DEF Formed
<1>1. CASE Emit(h)
  <2>1. proc' = [proc EXCEPT ![h] = [proc[h] EXCEPT !.pc = "answer"]]
    BY <1>1 DEF Emit, Idle
  <2>2. m = proc[h].msg /\ d = proc[h].dto /\ proc[h].own
        /\ proc[h].pc = "emit" /\ m \in Message
    BY <1>1, <1>w, <2>1, Working DEF Emit, ProcRecord, Idle
  <2>3. Parent[m] = None /\ proc[h].op \in {"send", "edit"}
    BY <1>w, <2>2, Working, MessageCacheAssumption
  <2> DEFINE ev == EventOf(h)
  <2>4. Snapshot(ev, m) /\ ev.dto = d /\ ev \in Event
    BY <1>w, <2>2, <2>3, EventTypes, Working, MessageCacheAssumption DEF Snapshot
  <2>5. wire' = Append(wire, ev)
    BY <1>1, ConnectedSteps DEF Emit, Broadcast, EventOf
  <2> HIDE DEF ev
  <2>6. Len(wire) + 1 \in DOMAIN wire' /\ wire'[Len(wire) + 1] = ev /\ Len(wire') = Len(wire) + 1
    BY <1>0, <2>4, <2>5
  <2>7. QED BY <1>0, <2>4, <2>6 DEF Agrees, Snapshot
<1>2. CASE ~Emit(h)
  <2>1. proc'[h] = proc[h]
    <3>1. ~WriteStep(h)
      BY Writing
    <3>2. ~ \E n \in Message : Compose(h, n)
      <4>1. ASSUME NEW n \in Message, Compose(h, n)
            PROVE  proc'[h].pc = "write"
        BY <4>1 DEF Compose, Idle
      <4>2. QED BY <4>1
    <3>3. ~ \E op \in Ops, n \in Message, own \in BOOLEAN : Begin(h, op, n, own)
      <4>1. ASSUME NEW op \in Ops, NEW n \in Message, NEW own \in BOOLEAN, Begin(h, op, n, own)
            PROVE  proc'[h].pc \in {"look", "write"}
        BY <4>1 DEF Begin, Idle
      <4>2. QED BY <4>1
    <3>4. ~ (Look(h) \/ Hydrate(h))
      BY DEF Look, Hydrate, ProcRecord
    <3>5. ~ (Answer(h) \/ LoseAnswer(h)) /\ proc'[h] # Idle
      BY DEF Answer, LoseAnswer, Idle
    <3>6. QED BY <1>2, <3>1, <3>2, <3>3, <3>4, <3>5, Steps
  <2>2. /\ m \in Message \ raced /\ m \in Touched(h) /\ h \in Untold /\ rows[m].stored
        /\ Parent[m] = None /\ m = proc[h].msg /\ d = proc[h].dto /\ d = Dto(rows, m)
    BY <1>w, <2>1, ConnectedSteps, Working, MessageCacheAssumption
       DEF Touched, Untold, SnapshotsFresh
  <2>3. \A b \in Copies : Agrees(b, m, d)
    <3>1. proc[h].pc = "answer" /\ proc[h].msg \notin raced
      BY <2>1, <2>2
    <3>2. \A b \in Copies : Agrees(b, proc[h].msg, proc[h].dto)
      BY <1>0, <3>1 DEF AnswersAgree
    <3>3. QED BY <2>2, <3>2
  <2>4. \A g \in Untold \ {h} : m \notin Touched(g)
    BY <2>2 DEF OneWriter
  <2>5. ASSUME \A i \in DOMAIN wire : About(wire[i]) # m
        PROVE  m \in Excused(c)' \/ Listed(Copy(c)', m) = {d}
    <3>1. \A b \in Copies : m \in Excused(b) \/ Listed(Copy(b), m) = {d}
      <4>1. \A k \in DOMAIN wire : ~Snapshot(wire[k], m)
        BY <2>5 DEF Snapshot, About
      <4>2. QED BY <2>3, <4>1 DEF Agrees
    <3>2. /\ m \in stale \/ Listed(list, m) = {d}
          /\ fetch.pc = "answered" => m \in fetch.passed \/ Listed(fetch.page, m) = {d}
      BY <3>1 DEF Copies, Copy, Excused
    <3>3. CASE c = "list"
      <4>1. ~ \E g \in Handler : Compose(g, m)
        BY <2>2 DEF Compose
      <4>2. ASSUME NEW g \in Handler, Answer(g)
            PROVE  proc[g].msg # m
        <5>1. proc'[g] = Idle /\ proc[g].pc = "answer"
          BY <4>2 DEF Answer
        <5>2. g \in Untold /\ proc[g].msg \in Touched(g) /\ g # h
          BY <5>1 DEF Untold, Touched, Idle
        <5>3. QED BY <2>4, <5>2
      <4>3. Receive => About(Head(wire)) # m
        <5>1. Receive => 1 \in DOMAIN wire /\ Head(wire) = wire[1]
          BY <1>0 DEF Receive
        <5>2. QED BY <2>5, <5>1
      <4>4. m \in stale' \/ Listed(list', m) = {d}
        BY <2>2, <3>2, <4>1, <4>2, <4>3, ListedSteps
      <4>5. QED BY <3>3, <4>4 DEF Copy, Excused
    <3>4. CASE c = "page"
      <4>1. CASE fetch'.pc = "answered" /\ m \notin fetch'.passed
        <5>1. CASE fetch.pc = "answered" /\ m \notin fetch.passed /\ fetch'.page = fetch.page
          BY <3>2, <3>4, <5>1 DEF Copy
        <5>2. CASE fetch'.page = Page(rows)
          <6>1. Listed(fetch'.page, m) = {d}
            BY <2>2, <5>2, PageTidy
          <6>2. QED BY <3>4, <6>1 DEF Copy
        <5>3. QED BY <2>2, <4>1, <5>1, <5>2, PageSteps
      <4>2. CASE fetch'.pc # "answered" \/ m \in fetch'.passed
        BY <2>2, <3>4, <4>2 DEF Excused
      <4>3. QED BY <4>1, <4>2
    <3>5. QED BY <3>3, <3>4 DEF Copies
  <2>6. CASE Receive /\ wire # <<>> /\ wire' = Tail(wire)
    <3>1. /\ Len(wire') = Len(wire) - 1 /\ 1 \in DOMAIN wire /\ Head(wire) = wire[1]
          /\ \A i \in DOMAIN wire' : i + 1 \in DOMAIN wire /\ wire'[i] = wire[i + 1]
          /\ DOMAIN wire' = 1 .. Len(wire') /\ DOMAIN wire = 1 .. Len(wire) /\ Len(wire) \in Nat
      BY <1>0, <2>6
    <3>2. /\ list' = OnEvent(list, wire[1]) /\ wire[1] \in Event /\ list \in SUBSET Entry
          /\ PassedBy({About(wire[1])})
      BY <1>0, <2>6, <3>1 DEF Receive
    <3>3. CASE \A i \in DOMAIN wire : About(wire[i]) # m
      <4>1. \A i \in DOMAIN wire' : About(wire'[i]) # m
        BY <3>1, <3>3
      <4>2. QED BY <2>5, <3>3, <4>1 DEF Agrees
    <3>4. ASSUME NEW k \in DOMAIN wire, Snapshot(wire[k], m), wire[k].dto = d,
                 \A i \in k + 1 .. Len(wire) : About(wire[i]) # m
          PROVE  Agrees(c, m, d)'
      <4>1. CASE k = 1
        <5>2. m \in Excused(c)' \/ Listed(Copy(c)', m) = {d}
          <6>1. CASE c = "list"
            <7>1. Listed(list', m) = {d}
              BY <2>2, <3>2, <3>4, <4>1, AfterSnapshot
            <7>2. QED BY <6>1, <7>1 DEF Copy
          <6>2. CASE c = "page"
            <7>1. About(wire[1]) = m /\ {m} \in SUBSET Message
              BY <2>2, <3>4, <4>1 DEF Snapshot, About
            <7>2. fetch'.pc = "answered" => m \in fetch'.passed
              BY <3>2, <7>1, PassedTypes
            <7>3. QED BY <2>2, <6>2, <7>2 DEF Excused
          <6>3. QED BY <6>1, <6>2 DEF Copies
        <5>3. \A i \in DOMAIN wire' : i + 1 \in k + 1 .. Len(wire)
          BY <3>1, <4>1
        <5>4. \A i \in DOMAIN wire' : About(wire'[i]) # m
          BY <3>1, <3>4, <5>3
        <5>5. QED BY <5>2, <5>4 DEF Agrees
      <4>2. CASE k # 1
        <5>1. k - 1 \in DOMAIN wire' /\ wire'[k - 1] = wire[k]
          BY <3>1, <4>2
        <5>2. \A i \in (k - 1) + 1 .. Len(wire') :
                i \in DOMAIN wire' /\ i + 1 \in k + 1 .. Len(wire)
          BY <3>1, <4>2
        <5>3. \A i \in (k - 1) + 1 .. Len(wire') : About(wire'[i]) # m
          BY <3>1, <3>4, <5>2
        <5>4. QED BY <3>4, <5>1, <5>3 DEF Agrees, Snapshot
      <4>3. QED BY <4>1, <4>2
    <3>5. QED BY <2>3, <3>3, <3>4 DEF Agrees
  <2>7. CASE wire' = wire \/ \E g \in Handler : Emit(g) /\ wire' = Append(wire, EventOf(g))
    <3>2. /\ Len(wire) \in Nat /\ Len(wire') \in Nat /\ Len(wire) <= Len(wire')
          /\ DOMAIN wire' = 1 .. Len(wire') /\ DOMAIN wire = 1 .. Len(wire)
          /\ \A i \in DOMAIN wire : wire'[i] = wire[i]
          /\ \A i \in DOMAIN wire' \ DOMAIN wire : About(wire'[i]) # m
      <4>1. CASE wire' = wire
        BY <1>0, <4>1
      <4>2. ASSUME NEW g \in Handler, Emit(g), wire' = Append(wire, EventOf(g))
            PROVE  <3>2!:
        <5> DEFINE ev == EventOf(g)
        <5>1. g \in Untold \ {h} /\ About(ev) \in Touched(g) /\ ev \in Event
          BY <1>2, <1>w, <4>2, EventTypes DEF Emit, Untold
        <5>2. About(ev) # m
          BY <2>4, <5>1
        <5>3. wire' = Append(wire, ev)
          BY <4>2
        <5> HIDE DEF ev
        <5>4. QED BY <1>0, <5>1, <5>2, <5>3
      <4>3. QED BY <2>7, <4>1, <4>2
    <3>3. ASSUME NEW k \in DOMAIN wire, Snapshot(wire[k], m), wire[k].dto = d,
                 \A i \in k + 1 .. Len(wire) : About(wire[i]) # m
          PROVE  Agrees(c, m, d)'
      <4>1. k \in DOMAIN wire' /\ wire'[k] = wire[k]
        BY <3>2
      <4>2. \A i \in k + 1 .. Len(wire') :
              \/ i \in k + 1 .. Len(wire) /\ wire'[i] = wire[i]
              \/ i \in DOMAIN wire' \ DOMAIN wire
        BY <3>2
      <4>3. \A i \in k + 1 .. Len(wire') : About(wire'[i]) # m
        BY <3>2, <3>3, <4>2
      <4>4. QED BY <3>3, <4>1, <4>3 DEF Agrees, Snapshot
    <3>4. CASE \A i \in DOMAIN wire : About(wire[i]) # m
      <4>1. \A i \in DOMAIN wire' : About(wire'[i]) # m
        BY <3>2, <3>4
      <4>2. QED BY <2>5, <3>4, <4>1 DEF Agrees
    <3>5. QED BY <2>3, <3>3, <3>4 DEF Agrees
  <2>8. QED BY <2>6, <2>7, WireSteps
<1>3. QED BY <1>1, <1>2

---------------------------------------------------------------------------
(* The course of a message.                                                *)

(* The right course, once more in terms of its last entry: it consists of  *)
(* entries of the message.                                                 *)
LEMMA CourseEnds ==
  ASSUME TypeOK, NEW c \in Copies, NEW m \in Message, Parent[m] = None,
         NEW k \in 0 .. Len(wire), NEW v \in [k .. Len(wire) -> SUBSET Entry], Course(c, m, k, v)
  PROVE  v[Len(wire)] \in SUBSET Entry /\ Listed(v[Len(wire)], m) = v[Len(wire)]
<1>0. Len(wire) \in Nat /\ Len(wire) \in k .. Len(wire) /\ wire \in Seq(Event)
  BY DEF TypeOK
<1>1. CASE k = 0 /\ Len(wire) = 0
  BY <1>0, <1>1 DEF Course, Listed
<1>2. CASE k # 0 /\ k = Len(wire)
  BY <1>0, <1>2 DEF Course, Listed, Snapshot
<1>3. CASE k < Len(wire)
  <2>1. Len(wire) - 1 \in k .. Len(wire) - 1 /\ (Len(wire) - 1) + 1 = Len(wire)
    BY <1>0, <1>3
  <2>2. v[Len(wire)] = After(v[Len(wire) - 1], wire[Len(wire)], m)
    BY <2>1 DEF Course
  <2>3. QED BY <1>0, <2>2 DEF After, Listed
<1>4. QED BY <1>0, <1>1, <1>2, <1>3

(* A step that changes nothing of the message leaves its course. *)
LEMMA CourseKept ==
  ASSUME NEW c \in Copies, NEW m \in Message, WillShow(c, m), wire' = wire,
         \/ m \in Excused(c)'
         \/ Listed(Copy(c)', m) = Listed(Copy(c), m) /\ m \notin Excused(c),
         rows'[m] = rows[m], Telling(m)' = Telling(m), \A g \in Telling(m) : proc'[g] = proc[g]
  PROVE  WillShow(c, m)'
<1>0. PICK k \in 0 .. Len(wire) : \E v \in [k .. Len(wire) -> SUBSET Entry] :
        Course(c, m, k, v) /\ EndsRight(m, v[Len(wire)])
  BY DEF WillShow
<1>1. PICK v \in [k .. Len(wire) -> SUBSET Entry] : Course(c, m, k, v) /\ EndsRight(m, v[Len(wire)])
  BY <1>0
<1>2. Course(c, m, k, v)'
  BY <1>1 DEF Course, Snapshot, After, OnEvent
<1>3. \A S : Shows(S, m)' <=> Shows(S, m)
  BY DEF Shows, Dto
<1>4. EndsRight(m, v[Len(wire)])'
  BY <1>1, <1>3 DEF EndsRight, EventOf, After, OnEvent
<1>5. QED BY <1>1, <1>2, <1>4 DEF WillShow

(* When the device handles an event its list is one step further on the    *)
(* course, or the snapshot that the course begins with has arrived.        *)
LEMMA CourseReceive ==
  ASSUME TypeOK, Formed, NEW c \in Copies, NEW m \in Message, Parent[m] = None, WillShow(c, m), Receive
  PROVE  WillShow(c, m)'
<1>0. PICK k \in 0 .. Len(wire) : \E v \in [k .. Len(wire) -> SUBSET Entry] :
        Course(c, m, k, v) /\ EndsRight(m, v[Len(wire)])
  BY DEF WillShow
<1>1. PICK v \in [k .. Len(wire) -> SUBSET Entry] : Course(c, m, k, v) /\ EndsRight(m, v[Len(wire)])
  BY <1>0
<1>2. /\ wire \in Seq(Event) /\ wire # <<>> /\ wire' = Tail(wire) /\ Head(wire) = wire[1]
      /\ list' = OnEvent(list, wire[1]) /\ UNCHANGED <<rows, proc>> /\ list \in SUBSET Entry
      /\ fetch.page \in SUBSET Entry /\ PassedBy({About(wire[1])})
      /\ m \in stale /\ m \notin stale' => Snapshot(wire[1], m)
  BY DEF TypeOK, Receive, server, Snapshot
<1>3. /\ Len(wire) \in Nat \ {0} /\ Len(wire') = Len(wire) - 1 /\ wire[1] \in Event
      /\ \A i \in 1 .. Len(wire') : wire'[i] = wire[i + 1]
  BY <1>2
<1>j. PICK j : j = IF k = 0 THEN 0 ELSE k - 1
  OBVIOUS
<1>v. PICK w : w = [i \in j .. Len(wire') |-> v[i + 1]]
  OBVIOUS
<1>4. /\ j \in 0 .. Len(wire') /\ \A i \in j .. Len(wire') : i + 1 \in k .. Len(wire)
      /\ Len(wire') \in j .. Len(wire')
  BY <1>3, <1>j
<1>5. w \in [j .. Len(wire') -> SUBSET Entry] /\ w[Len(wire')] = v[Len(wire)]
  BY <1>3, <1>4, <1>v
<1>w. \A i \in j .. Len(wire') : w[i] = v[i + 1]
  BY <1>v
<1>6. Course(c, m, j, w)'
  <2>0. \/ m \in Excused(c)'
        \/ m \notin Excused(c) /\ Listed(Copy(c)', m) = After(Listed(Copy(c), m), wire[1], m)
        \/ Snapshot(wire[1], m) /\ Listed(Copy(c)', m) = {wire[1].dto}
    <3>1. CASE c = "list"
      <4>1. CASE m \in stale /\ m \notin stale'
        BY <1>2, <1>3, <3>1, <4>1, AfterSnapshot DEF Copy
      <4>2. CASE m \notin stale
        BY <1>2, <1>3, <3>1, <4>2, AfterListed DEF Copy, Excused
      <4>3. QED BY <3>1, <4>1, <4>2 DEF Excused
    <3>2. CASE c = "page"
      <4>1. About(wire[1]) \in Message
        <5>1. 1 \in DOMAIN wire
          BY <1>2, <1>3
        <5>2. QED BY <5>1 DEF Formed, EventHolds
      <4>2. /\ fetch'.pc = fetch.pc /\ fetch'.page = fetch.page
            /\ fetch.passed \subseteq fetch'.passed
            /\ fetch.pc = "answered" => About(wire[1]) \in fetch'.passed
        BY <1>2, <4>1, PassedTypes
      <4>3. CASE fetch'.pc = "answered" /\ m \notin fetch'.passed
        <5>1. About(wire[1]) # m /\ m \notin Excused(c)
          BY <3>2, <4>2, <4>3 DEF Excused
        <5>2. After(Listed(fetch.page, m), wire[1], m) = Listed(fetch.page, m)
          BY <1>2, <1>3, <5>1, AfterOther, AfterListed DEF After
        <5>3. QED BY <3>2, <4>2, <5>1, <5>2 DEF Copy
      <4>4. CASE fetch'.pc # "answered" \/ m \in fetch'.passed
        BY <3>2, <4>4 DEF Excused
      <4>5. QED BY <4>3, <4>4
    <3>3. QED BY <3>1, <3>2 DEF Copies
  <2>1. j = 0 => w[0] = Listed(w[0], m) /\ (m \in Excused(c)' \/ w[0] = Listed(Copy(c)', m))
    <3>1. CASE k = 0
      <4>1. /\ v[1] = After(v[0], wire[1], m) /\ v[0] = Listed(v[0], m) /\ v[0] \in SUBSET Entry
            /\ m \in Excused(c) \/ v[0] = Listed(Copy(c), m)
        BY <1>1, <1>3, <3>1 DEF Course
      <4>2. v[1] = Listed(v[1], m)
        BY <4>1 DEF After, Listed
      <4>s. Snapshot(wire[1], m) => v[1] = {wire[1].dto}
        BY <1>3, <4>1, AfterSnapshot DEF After
      <4>3. m \in Excused(c)' \/ v[1] = Listed(Copy(c)', m)
        BY <2>0, <4>1, <4>s
      <4>4. QED BY <1>4, <1>j, <1>w, <3>1, <4>2, <4>3
    <3>2. CASE k = 1
      <4>1. Snapshot(wire[1], m) /\ v[1] = {wire[1].dto}
        BY <1>1, <3>2 DEF Course
      <4>2. v[1] = Listed(v[1], m)
        BY <4>1 DEF Snapshot, Listed
      <4>s. \A T \in SUBSET Entry : After(T, wire[1], m) = {wire[1].dto}
        BY <1>3, <4>1, AfterSnapshot DEF After
      <4>t. Listed(Copy(c), m) \in SUBSET Entry
        BY <1>2 DEF Copy, Listed
      <4>3. m \in Excused(c)' \/ v[1] = Listed(Copy(c)', m)
        BY <2>0, <4>1, <4>s, <4>t
      <4>4. QED BY <1>4, <1>j, <1>w, <3>2, <4>2, <4>3
    <3>3. QED BY <1>j, <3>1, <3>2
  <2>2. j # 0 => Snapshot(wire'[j], m) /\ w[j] = {wire'[j].dto}
    <3>1. j # 0 => k # 0 /\ j + 1 = k /\ j \in 1 .. Len(wire') /\ j \in j .. Len(wire')
      BY <1>4, <1>j
    <3>2. QED BY <1>1, <1>3, <1>w, <3>1 DEF Course
  <2>3. \A i \in j .. Len(wire') - 1 : w[i + 1] = After(w[i], wire'[i + 1], m)
    <3>1. \A i \in j .. Len(wire') - 1 :
            /\ i \in j .. Len(wire') /\ i + 1 \in j .. Len(wire') /\ i + 1 \in 1 .. Len(wire')
            /\ i + 1 \in k .. Len(wire) - 1
      BY <1>3, <1>4
    <3>2. QED BY <1>1, <1>3, <1>w, <3>1 DEF Course
  <2>4. QED BY <2>1, <2>2, <2>3 DEF Course, Snapshot, After
<1>7. PICK S : S = v[Len(wire)]
  OBVIOUS
<1>8. EndsRight(m, S)' /\ w[Len(wire')] = S
  <2>1. EndsRight(m, S)'
    BY <1>1, <1>2, <1>7 DEF EndsRight, Telling, Touched, EventOf, EventType, After, Shows, Dto
  <2>2. w[Len(wire')] = S
    BY <1>5, <1>7
  <2>3. QED BY <2>1, <2>2
<1>9. QED BY <1>4, <1>5, <1>6, <1>8 DEF WillShow

(* A broadcast makes the course one event longer, and it was the event     *)
(* that the end of the course waited for if it is about the message.       *)
LEMMA CourseEmit ==
  ASSUME TypeOK, Formed, OneWriter, NEW c \in Copies, NEW m \in Message \ raced,
         Parent[m] = None, WillShow(c, m),
         NEW h \in Handler, Emit(h), wire' = Append(wire, EventOf(h))
  PROVE  WillShow(c, m)'
<1>0. PICK k \in 0 .. Len(wire) : \E v \in [k .. Len(wire) -> SUBSET Entry] :
        Course(c, m, k, v) /\ EndsRight(m, v[Len(wire)])
  BY DEF WillShow
<1>1. PICK v \in [k .. Len(wire) -> SUBSET Entry] : Course(c, m, k, v) /\ EndsRight(m, v[Len(wire)])
  BY <1>0
<1>2. /\ UNCHANGED <<list, rows, fetch, stale>> /\ proc[h].pc = "emit" /\ proc'[h].pc \notin {"hydrate", "emit"}
      /\ \A g \in Handler \ {h} : proc'[g] = proc[g]
  BY DEF Emit, TypeOK, Idle, ProcRecord
<1>a. PICK ev, end, S : ev = EventOf(h) /\ end = Len(wire) + 1 /\ S = After(v[Len(wire)], ev, m)
  OBVIOUS
<1>b. PICK w : w = [i \in k .. end |-> IF i = end THEN S ELSE v[i]]
  OBVIOUS
<1>3. ev \in Event /\ About(ev) \in Touched(h)
  BY <1>2, <1>a, EventTypes DEF Formed
<1>4. wire \in Seq(Event) /\ Len(wire) \in Nat /\ wire' = Append(wire, ev)
  BY <1>a DEF TypeOK
<1>5. v[Len(wire)] \in SUBSET Entry /\ Listed(v[Len(wire)], m) = v[Len(wire)]
  BY <1>1, CourseEnds
<1>6. S \in SUBSET Entry
  BY <1>3, <1>5, <1>a, AfterListed
<1>7. EndsRight(m, S)'
  <2>1. \A T : Shows(T, m)' <=> Shows(T, m)
    BY <1>2 DEF Shows, Dto
  <2>2. Telling(m)' = Telling(m) \ {h}
    BY <1>2 DEF Telling, Touched
  <2>3. CASE m \in Touched(h)
    <3>1. h \in Telling(m) /\ Telling(m) \subseteq {h}
      BY <1>2, <2>3 DEF Telling, OneWriter, Untold
    <3>2. Telling(m)' = {} /\ Shows(S, m)
      BY <1>1, <1>2, <1>a, <2>2, <3>1 DEF EndsRight
    <3>3. QED BY <2>1, <3>2 DEF EndsRight
  <2>4. CASE m \notin Touched(h)
    <3>1. S = v[Len(wire)]
      BY <1>3, <1>5, <1>a, <2>4, AfterOther DEF After
    <3>2. Telling(m)' = Telling(m) /\ h \notin Telling(m)
      BY <2>2, <2>4 DEF Telling
    <3>3. \A g \in Telling(m) : proc'[g] = proc[g]
      BY <1>2, <3>2 DEF Telling
    <3>4. QED BY <1>1, <2>1, <3>1, <3>2, <3>3 DEF EndsRight, EventOf, After
  <2>5. QED BY <2>3, <2>4
<1>8. /\ Len(wire') = end /\ wire'[end] = ev /\ \A i \in 1 .. Len(wire) : wire'[i] = wire[i]
      /\ k \in 0 .. Len(wire')
  BY <1>3, <1>4, <1>a
<1>9. w \in [k .. Len(wire') -> SUBSET Entry] /\ w[Len(wire')] = S
  BY <1>4, <1>6, <1>8, <1>a, <1>b
<1>10. \A i \in k .. Len(wire) : w[i] = v[i]
  BY <1>4, <1>a, <1>b
<1>11. Course(c, m, k, w)'
  <2>1. k = 0 => w[0] = Listed(w[0], m) /\ (m \in Excused(c)' \/ w[0] = Listed(Copy(c)', m))
    BY <1>1, <1>2, <1>4, <1>10 DEF Course, Excused, Copy
  <2>2. k # 0 => Snapshot(wire'[k], m) /\ w[k] = {wire'[k].dto}
    BY <1>1, <1>4, <1>8, <1>10 DEF Course
  <2>3. ASSUME NEW i \in k .. Len(wire') - 1
        PROVE  w[i + 1] = After(w[i], wire'[i + 1], m)
    <3>1. CASE i = Len(wire)
      BY <1>4, <1>8, <1>9, <1>10, <1>a, <3>1
    <3>2. CASE i # Len(wire)
      <4>1. i \in k .. Len(wire) - 1 /\ i + 1 \in 1 .. Len(wire) /\ i \in k .. Len(wire)
            /\ i + 1 \in k .. Len(wire)
        BY <1>4, <1>8, <1>a, <3>2
      <4>2. QED BY <1>1, <1>8, <1>10, <4>1 DEF Course
    <3>3. QED BY <3>1, <3>2
  <2>4. QED BY <2>1, <2>2, <2>3 DEF Course, Snapshot, After
<1>12. EndsRight(m, S)' /\ w[Len(wire')] = S
  BY <1>7, <1>9
<1>13. QED BY <1>8, <1>9, <1>11, <1>12 DEF WillShow

(* After a step: a course on which nothing more is about the message.     *)
LEMMA CourseConstant ==
  ASSUME TypeOK', NEW c \in Copies, NEW m \in Message, Parent[m] = None,
         NEW k \in 0 .. Len(wire'),
         NEW S \in SUBSET Entry, Listed(S, m) = S,
         k = 0 => m \in Excused(c)' \/ S = Listed(Copy(c)', m), k # 0 => Snapshot(wire'[k], m) /\ S = {wire'[k].dto},
         \A i \in k + 1 .. Len(wire') : About(wire'[i]) # m, EndsRight(m, S)'
  PROVE  WillShow(c, m)'
<1>0. wire' \in Seq(Event) /\ Len(wire') \in Nat
  BY DEF TypeOK
<1>a. PICK v : v = [i \in k .. Len(wire') |-> S]
  OBVIOUS
<1>1. /\ v \in [k .. Len(wire') -> SUBSET Entry] /\ v[Len(wire')] = S
      /\ \A i \in k .. Len(wire') : v[i] = S
  BY <1>0, <1>a
<1>2. ASSUME NEW i \in k .. Len(wire') - 1
      PROVE  v[i + 1] = After(v[i], wire'[i + 1], m)
  <2>1. /\ i + 1 \in k + 1 .. Len(wire') /\ i + 1 \in 1 .. Len(wire') /\ i \in k .. Len(wire')
        /\ i + 1 \in k .. Len(wire')
    BY <1>0
  <2>2. After(S, wire'[i + 1], m) = S
    BY <1>0, <2>1, AfterOther DEF After
  <2>3. QED BY <1>1, <2>1, <2>2
<1>3. Course(c, m, k, v)'
  BY <1>0, <1>1, <1>2 DEF Course, Snapshot, After
<1>4. QED BY <1>1, <1>3 DEF WillShow

(* The answer is what the device would list in the end. *)
LEMMA CourseAnswer ==
  ASSUME TypeOK, Formed, OneWriter, SnapshotsFresh, AnswersAgree, TypeOK', drops = 0,
         NEW h \in Handler, Answer(h), NEW m \in Message \ raced, Parent[m] = None,
         proc[h].msg = m, Listed(list', m) = {proc[h].dto}
  PROVE  WillShow("list", m)'
<1>d. PICK d : d = proc[h].dto
  OBVIOUS
<1>1. /\ proc[h].pc = "answer" /\ UNCHANGED <<rows, wire>> /\ proc'[h].pc = "idle"
      /\ \A g \in Handler \ {h} : proc'[g] = proc[g]
  BY DEF Answer, TypeOK, Idle
<1>2. d \in Entry /\ d.msg = m /\ d = Dto(rows, m)
  BY <1>1, <1>d, Working DEF Formed, SnapshotsFresh
<1>3. Telling(m)' = {}
  <2>1. h \in Untold /\ m \in Touched(h)
    BY <1>1 DEF Untold, Touched
  <2>2. \A g \in Handler : proc[g].pc \in {"hydrate", "emit"} => m \notin Touched(g)
    BY <1>1, <2>1 DEF OneWriter, Untold
  <2>3. QED BY <1>1, <2>2 DEF Telling, Touched
<1>4. EndsRight(m, {d})'
  <2>1. Shows({d}, m)'
    BY <1>1, <1>2 DEF Shows, Alike, Dto
  <2>2. QED BY <1>3, <2>1 DEF EndsRight
<1>5. Listed({d}, m) = {d} /\ {d} \in SUBSET Entry /\ Listed(list', m) = {d}
  BY <1>2, <1>d DEF Listed
<1>w. wire \in Seq(Event) /\ Len(wire) \in Nat /\ DOMAIN wire = 1 .. Len(wire)
  BY DEF TypeOK
<1>6. CASE \A i \in DOMAIN wire : About(wire[i]) # m
  <2>1. 0 \in 0 .. Len(wire') /\ \A i \in 0 + 1 .. Len(wire') : About(wire'[i]) # m
    BY <1>1, <1>w, <1>6
  <2>2. {d} = Listed(Copy("list")', m) /\ "list" \in Copies
    BY <1>5 DEF Copy, Copies
  <2>3. QED BY <1>4, <1>5, <2>1, <2>2, CourseConstant
<1>7. ASSUME NEW k \in DOMAIN wire, Snapshot(wire[k], m), wire[k].dto = d,
             \A i \in k + 1 .. Len(wire) : About(wire[i]) # m
      PROVE  WillShow("list", m)'
  <2>1. k \in 0 .. Len(wire') /\ k # 0
    BY <1>1, <1>w
  <2>2. "list" \in Copies
    BY DEF Copies
  <2>3. QED BY <1>1, <1>4, <1>5, <1>7, <2>1, <2>2, CourseConstant
<1>8. Agrees("list", m, d)
  BY <1>1, <1>d DEF AnswersAgree, Copies
<1>9. QED BY <1>6, <1>7, <1>8 DEF Agrees

(* When the row is read again, the event to come shows it. *)
LEMMA CourseHydrate ==
  ASSUME TypeOK, Formed, OneWriter, TypeOK', Formed', NEW h \in Handler, Hydrate(h),
         NEW c \in Copies, NEW m \in Message \ raced, Parent[m] = None, m \in Touched(h), WillShow(c, m)
  PROVE  WillShow(c, m)'
<1>0. PICK k \in 0 .. Len(wire) : \E v \in [k .. Len(wire) -> SUBSET Entry] :
        Course(c, m, k, v) /\ EndsRight(m, v[Len(wire)])
  BY DEF WillShow
<1>1. PICK v \in [k .. Len(wire) -> SUBSET Entry] : Course(c, m, k, v) /\ EndsRight(m, v[Len(wire)])
  BY <1>0
<1>s. PICK S : S = v[Len(wire)]
  OBVIOUS
<1>d. PICK d : d = Dto(rows, proc[h].msg)
  OBVIOUS
<1>2. /\ proc[h].pc = "hydrate" /\ UNCHANGED <<list, wire, rows, fetch, stale>>
      /\ proc' = [proc EXCEPT ![h] = [proc[h] EXCEPT !.pc = "emit", !.dto = d]]
  BY <1>d DEF Hydrate, device
<1>3. /\ proc'[h].pc = "emit" /\ proc'[h].dto = d /\ proc'[h].msg = proc[h].msg
      /\ proc'[h].op = proc[h].op /\ \A g \in Handler \ {h} : proc'[g] = proc[g]
  BY <1>2 DEF TypeOK, ProcRecord
<1>4. proc[h].op = "react" /\ proc[h].op # "send" /\ proc[h].msg = m
  <2>1. proc[h] # Idle /\ ProcHolds(proc[h])
    BY <1>2 DEF Idle, Formed
  <2>2. proc[h].op = "react"
    BY <1>2, <2>1 DEF ProcHolds
  <2>3. QED BY <2>2 DEF Touched
<1>5. Telling(m)' = {h}
  <2>1. h \in Telling(m)' /\ h \in Untold
    BY <1>2, <1>3, <1>4 DEF Telling, Touched, Untold
  <2>2. \A g \in Handler \ {h} : proc[g].pc \in {"hydrate", "emit"} => m \notin Touched(g)
    BY <2>1 DEF OneWriter, Untold
  <2>3. QED BY <1>3, <2>1, <2>2 DEF Telling, Touched
<1>6. EndsRight(m, S)'
  <2>1. EventOf(h)' \in Event /\ Snapshot(EventOf(h)', m) /\ EventOf(h)'.dto = d
    <3>1. EventType(proc'[h]) = "updated"
      BY <1>3, <1>4 DEF EventType
    <3>2. EventOf(h)' = [type |-> "updated", dto |-> d]
      BY <1>3, <3>1 DEF EventOf
    <3>3. d \in Entry /\ d.msg = m
      BY <1>4, <1>d, DtoTypes DEF TypeOK
    <3>4. QED BY <3>2, <3>3 DEF Snapshot, Event
  <2>2. S \in SUBSET Entry
    BY <1>1, <1>s, CourseEnds
  <2>3. After(S, EventOf(h)', m) = {d}
    BY <2>1, <2>2, AfterSnapshot DEF After
  <2>4. d \in Entry /\ d = Dto(rows', m)
    BY <1>2, <1>4, <1>d, DtoTypes DEF TypeOK
  <2>5. Shows({d}, m)'
    BY <2>4 DEF Shows, Alike
  <2>6. QED BY <1>5, <2>3, <2>5 DEF EndsRight, After, OnEvent
<1>7. Course(c, m, k, v)'
  BY <1>1, <1>2 DEF Course, Snapshot, After, Copy, Excused
<1>8. v[Len(wire')] = S
  BY <1>2, <1>s
<1>9. QED BY <1>0, <1>1, <1>2, <1>6, <1>7, <1>8 DEF WillShow

(* A rewritten entry that showed the row shows the rewritten row. *)
LEMMA RewriteShows ==
  ASSUME NEW m \in Message, NEW r \in [Message -> RowRecord], NEW q \in [Message -> RowRecord],
         NEW e \in Entry, Alike(e, Dto(r, m)), NEW ev,
         \/ ev.type = "deleted" /\ q[m].deleted /\ q[m].replies = r[m].replies
         \/ ev.type = "reply" /\ q[m] = [r[m] EXCEPT !.replies = @ + 1]
  PROVE  Rewritten({e}, ev, m) = {Rewrite(e, ev)} /\ Alike(Rewrite(e, ev), Dto(q, m))
<1>1. /\ Dto(r, m) \in Entry /\ Dto(r, m).msg = m /\ Dto(r, m).pending = FALSE
      /\ Dto(r, m).deleted = r[m].deleted /\ Dto(r, m).replies = r[m].replies
      /\ Dto(q, m) \in Entry /\ Dto(q, m).msg = m /\ Dto(q, m).pending = FALSE
      /\ Dto(q, m).deleted = q[m].deleted /\ Dto(q, m).replies = q[m].replies
  BY DtoTypes
<1>2. e.msg = m /\ e.pending = FALSE /\ e.deleted = r[m].deleted /\ e.replies = r[m].replies
  BY <1>1 DEF Alike
<1>3. Rewritten({e}, ev, m) = {Rewrite(e, ev)}
  BY <1>2 DEF Rewritten
<1>4. CASE ev.type = "deleted" /\ q[m].deleted /\ q[m].replies = r[m].replies
  <2>1. /\ Tombstone(e).msg = m /\ Tombstone(e).pending = FALSE /\ Tombstone(e).deleted
        /\ Tombstone(e).replies = r[m].replies /\ Tombstone(e).deleted = TRUE
    BY <1>2 DEF Tombstone, Entry
  <2>2. q[m].deleted = TRUE
    BY <1>4 DEF RowRecord
  <2>3. QED BY <1>1, <1>3, <1>4, <2>1, <2>2 DEF Alike, Rewrite
<1>5. CASE ev.type = "reply" /\ q[m] = [r[m] EXCEPT !.replies = @ + 1]
  <2>1. /\ Longer(e).msg = m /\ Longer(e).pending = FALSE /\ Longer(e).deleted = e.deleted
        /\ Longer(e).replies = e.replies + 1 /\ Longer(e).text = e.text
        /\ Longer(e).pinned = e.pinned /\ Longer(e).reacted = e.reacted
    BY <1>2 DEF Longer, Entry
  <2>2. /\ q[m].replies = r[m].replies + 1 /\ q[m].deleted = r[m].deleted
        /\ q[m].text = r[m].text /\ q[m].pinned = r[m].pinned /\ q[m].reacted = r[m].reacted
    BY <1>5 DEF RowRecord
  <2>3. /\ Dto(q, m).text = Dto(r, m).text /\ Dto(q, m).pinned = Dto(r, m).pinned
        /\ Dto(q, m).reacted = Dto(r, m).reacted
    BY <2>2 DEF Dto
  <2>4. QED BY <1>1, <1>2, <1>3, <1>5, <2>1, <2>2, <2>3 DEF Alike, Rewrite
<1>6. QED BY <1>4, <1>5

(* Before a write by the only handler that has not told, the course ends   *)
(* with the row as it is, or with the bubble if there is no row.           *)
LEMMA CourseBefore ==
  ASSUME TypeOK, Formed, ListComesRight, drops = 0, NEW c \in Copies,
         NEW m \in Message \ raced, Parent[m] = None, Telling(m) = {}
  PROVE  \E k \in 0 .. Len(wire) : \E v \in [k .. Len(wire) -> SUBSET Entry] :
           Course(c, m, k, v) /\ (rows[m].stored => Shows(v[Len(wire)], m))
<1>1. CASE rows[m].stored
  BY <1>1 DEF ListComesRight, WillShow, EndsRight
<1>2. CASE ~rows[m].stored
  <2>0. wire \in Seq(Event) /\ Len(wire) \in Nat /\ Listed(Copy(c), m) \in SUBSET Entry
        /\ Listed(Listed(Copy(c), m), m) = Listed(Copy(c), m)
    BY DEF TypeOK, Listed, Copy
  <2>a. PICK S : S = Listed(Copy(c), m)
    OBVIOUS
  <2>b. PICK v : v = [i \in 0 .. Len(wire) |-> S]
    OBVIOUS
  <2>1. ASSUME NEW i \in 0 .. Len(wire) - 1
        PROVE  v[i + 1] = After(v[i], wire[i + 1], m)
    <3>1. i + 1 \in 1 .. Len(wire) /\ i \in 0 .. Len(wire) /\ i + 1 \in 0 .. Len(wire)
      BY <2>0
    <3>2. About(wire[i + 1]) # m
      BY <1>2, <2>0, <3>1 DEF Formed, EventHolds
    <3>3. After(S, wire[i + 1], m) = S
      BY <2>0, <2>a, <3>1, <3>2, AfterOther DEF After
    <3>4. QED BY <2>b, <3>1, <3>3
  <2>2. 0 \in 0 .. Len(wire) /\ v \in [0 .. Len(wire) -> SUBSET Entry] /\ v[0] = Listed(Copy(c), m)
    BY <2>0, <2>a, <2>b
  <2>3. Course(c, m, 0, v)
    BY <2>0, <2>1, <2>2 DEF Course
  <2>4. QED BY <1>2, <2>2, <2>3
<1>3. QED BY <1>1, <1>2

(* What the only writer of a message tells is the row that it wrote. *)
LEMMA CourseWrite ==
  ASSUME TypeOK, Formed, ListComesRight, drops = 0, TypeOK', Formed',
         NEW h \in Handler, WriteStep(h), NEW c \in Copies, NEW m \in Message \ raced',
         Parent[m] = None,
         m \in Touched(h)
  PROVE  WillShow(c, m)'
<1>1. /\ proc[h].msg \in Message /\ proc[h].pc = "write" /\ proc[h].op \in Ops \cup {"send"}
      /\ \A g \in Handler \ {h} : proc'[g] = proc[g]
      /\ (proc[h].op = "send" <=> ~rows[proc[h].msg].stored)
      /\ proc'[h].op = proc[h].op /\ proc'[h].msg = proc[h].msg
      /\ \/ proc'[h].pc = "hydrate" /\ proc[h].op = "react"
         \/ /\ proc'[h].pc = "emit" /\ proc[h].op # "react"
            /\ proc'[h].dto = Dto(rows', proc[h].msg)
      /\ UNCHANGED <<list, wire, fetch, stale>> /\ NoteRace(h)
  BY Writing DEF device
<1>2. m \notin raced /\ Telling(m) = {} /\ Telling(m)' = {h}
  <2>1. \A g \in Untold \ {h} : m \notin Touched(g)
    BY <1>1 DEF NoteRace
  <2>2. \A g \in Handler \ {h} : proc[g].pc \in {"hydrate", "emit"} => m \notin Touched(g)
    BY <2>1 DEF Untold
  <2>3. h \in Telling(m)' /\ h \notin Telling(m)
    BY <1>1 DEF Telling, Touched
  <2>4. m \notin raced
    BY <1>1 DEF NoteRace
  <2>5. QED BY <1>1, <2>2, <2>3, <2>4 DEF Telling, Touched
<1>3. PICK k \in 0 .. Len(wire) : \E v \in [k .. Len(wire) -> SUBSET Entry] :
           Course(c, m, k, v) /\ (rows[m].stored => Shows(v[Len(wire)], m))
  BY <1>2, CourseBefore
<1>4. PICK v \in [k .. Len(wire) -> SUBSET Entry] :
           Course(c, m, k, v) /\ (rows[m].stored => Shows(v[Len(wire)], m))
  BY <1>3
<1>s. PICK S : S = v[Len(wire)]
  OBVIOUS
<1>5. S \in SUBSET Entry /\ Listed(S, m) = S /\ (rows[m].stored => Shows(S, m))
  BY <1>4, <1>s, CourseEnds
<1>6. ASSUME proc'[h].pc = "emit"
      PROVE  Shows(After(S, EventOf(h), m), m)'
  <2>t. PICK t : t = EventType(proc'[h])
    OBVIOUS
  <2>d. PICK d : d = Dto(rows', proc[h].msg)
    OBVIOUS
  <2>e. PICK ev : ev = [type |-> t, dto |-> d]
    OBVIOUS
  <2>1. EventOf(h)' = ev /\ d \in Entry /\ d.msg = proc[h].msg
    BY <1>1, <1>6, <2>t, <2>d, <2>e, DtoTypes DEF TypeOK, EventOf
  <2>2. /\ t \in {"new", "updated", "deleted", "reply"}
        /\ t = "reply" <=> proc[h].op = "send" /\ Parent[proc[h].msg] # None
        /\ t = "deleted" <=> proc[h].op = "remove"
    <3>1. "send" \notin Ops
      BY MessageCacheAssumption
    <3>2. QED BY <1>1, <2>t, <3>1 DEF EventType
  <2>3. ev \in Event /\ ev.type = t /\ ev.dto = d
    BY <2>1, <2>2, <2>e DEF Event
  <2>4. CASE t \in {"new", "updated"}
    <3>1. m = proc[h].msg
      BY <2>2, <2>4 DEF Touched
    <3>2. After(S, ev, m) = {d}
      BY <1>5, <2>1, <2>3, <2>4, <3>1, AfterSnapshot DEF After, Snapshot
    <3>3. Shows({d}, m)'
      BY <2>1, <2>d, <3>1 DEF Shows, Alike
    <3>4. QED BY <2>1, <3>2, <3>3 DEF After, OnEvent
  <2>5. CASE t \in {"deleted", "reply"}
    <3>1. About(ev) = m /\ rows[m].stored
      <4>1. CASE t = "deleted"
        BY <1>1, <2>1, <2>2, <2>3, <4>1 DEF About, Touched
      <4>2. CASE t = "reply"
        <5>1. m = Parent[proc[h].msg]
          BY <2>2, <4>2 DEF Touched
        <5>2. proc[h] # Idle
          BY <1>1 DEF Idle
        <5>3. rows[m].stored
          BY <1>1, <2>2, <4>2, <5>1, <5>2 DEF Formed, ProcHolds
        <5>4. QED BY <2>1, <2>3, <4>2, <5>1, <5>3 DEF About
      <4>3. QED BY <2>5, <4>1, <4>2
    <3>2. PICK e \in Entry : S = {e} /\ Alike(e, Dto(rows, m))
      BY <1>5, <3>1 DEF Shows
    <3>3. After(S, ev, m) = Rewritten({e}, ev, m)
      <4>1. ~Snapshot(ev, m)
        BY <2>3, <2>5 DEF Snapshot
      <4>2. Listed(OnEvent(S, ev), m) = Rewritten(Listed(S, m), ev, m)
        BY <1>5, <2>3, <3>1, <4>1, AfterRewrite
      <4>3. QED BY <1>5, <3>2, <4>2 DEF After
    <3>4. \/ ev.type = "deleted" /\ rows'[m].deleted /\ rows'[m].replies = rows[m].replies
          \/ ev.type = "reply" /\ rows'[m] = [rows[m] EXCEPT !.replies = @ + 1]
      <4>1. CASE t = "deleted"
        <5>1. m = proc[h].msg /\ proc[h].op = "remove"
          BY <2>2, <4>1 DEF Touched
        <5>2. QED BY <2>3, <4>1, <5>1, WrittenRows
      <4>2. CASE t = "reply"
        <5>1. m = Parent[proc[h].msg] /\ proc[h].op = "send" /\ m # proc[h].msg
          BY <2>2, <4>2 DEF Touched
        <5>2. QED BY <2>3, <4>2, <5>1, WrittenRows
      <4>3. QED BY <2>5, <4>1, <4>2
    <3>5. /\ Rewritten({e}, ev, m) = {Rewrite(e, ev)} /\ Alike(Rewrite(e, ev), Dto(rows', m))
          /\ Rewrite(e, ev) \in Entry
      <4>1. rows \in [Message -> RowRecord] /\ rows' \in [Message -> RowRecord] /\ m \in Message
        BY DEF TypeOK
      <4>2. Rewritten({e}, ev, m) = {Rewrite(e, ev)} /\ Alike(Rewrite(e, ev), Dto(rows', m))
        BY <3>2, <3>4, <4>1, RewriteShows
      <4>3. QED BY <4>2, RewriteKeeps
    <3>f. PICK f : f = Rewrite(e, ev)
      OBVIOUS
    <3>6. Shows({f}, m)'
      BY <3>5, <3>f DEF Shows
    <3>7. QED BY <2>1, <3>3, <3>5, <3>6, <3>f DEF After, OnEvent
  <2>6. QED BY <2>2, <2>4, <2>5
<1>7. EndsRight(m, S)'
  BY <1>2, <1>6 DEF EndsRight, After, OnEvent
<1>8. Course(c, m, k, v)'
  BY <1>1, <1>4 DEF Course, Snapshot, After, Copy, Excused
<1>9. v[Len(wire')] = S
  BY <1>1, <1>s
<1>10. QED BY <1>1, <1>3, <1>4, <1>7, <1>8, <1>9 DEF WillShow

(* What a page passed by is as good as the list: nothing is asked of it.   *)
LEMMA CourseExcused ==
  ASSUME NEW c \in Copies, NEW m \in Message, WillShow("list", m)', m \in Excused(c)'
  PROVE  WillShow(c, m)'
<1>1. \A k, v : Course("list", m, k, v)' => Course(c, m, k, v)'
  BY DEF Course
<1>2. QED BY <1>1 DEF WillShow

(* A page that nothing about a message can pass by has its row. *)
LEMMA CourseRead ==
  ASSUME TypeOK, Formed, TypeOK', NEW m \in Message, rows[m].stored, Parent[m] = None,
         ReadPage, m \notin Coming
  PROVE  WillShow("page", m)'
<1>1. /\ UNCHANGED <<rows, proc, wire>> /\ fetch'.page = Page(rows) /\ "page" \in Copies
      /\ rows \in [Message -> RowRecord] /\ wire \in Seq(Event)
  BY DEF ReadPage, server, Copies, TypeOK
<1>2. Listed(fetch'.page, m) = {Dto(rows, m)} /\ Dto(rows, m) \in Entry /\ Dto(rows, m).msg = m
  BY <1>1, PageTidy, DtoTypes
<1>3. (\A i \in DOMAIN wire : About(wire[i]) # m) /\ Telling(m) = {}
  BY ComingTypes
<1>d. PICK d : d = Dto(rows, m)
  OBVIOUS
<1>4. EndsRight(m, {d})'
  <2>1. Shows({d}, m)'
    BY <1>1, <1>2, <1>d DEF Shows, Alike, Dto
  <2>2. Telling(m)' = {}
    BY <1>1, <1>3 DEF Telling, Touched
  <2>3. QED BY <2>1, <2>2 DEF EndsRight
<1>5. {d} = Listed(Copy("page")', m) /\ Listed({d}, m) = {d} /\ {d} \in SUBSET Entry
  BY <1>2, <1>d DEF Copy, Listed
<1>6. 0 \in 0 .. Len(wire') /\ \A i \in 0 + 1 .. Len(wire') : About(wire'[i]) # m
  BY <1>1, <1>3
<1>7. QED BY <1>1, <1>4, <1>5, <1>6, CourseConstant

(* A forwarded message is excused from the start. *)
LEMMA CourseForward ==
  ASSUME TypeOK, Formed, TypeOK', NEW c \in Copies, NEW m \in Message, Forward(m)
  PROVE  WillShow(c, m)'
<1>1. /\ ~rows[m].stored /\ Parent[m] = None /\ UNCHANGED <<proc, wire>>
      /\ \A h \in Handler : proc[h].msg # m
      /\ m \in stale' /\ (fetch'.pc = "answered" => m \in fetch'.passed)
      /\ wire \in Seq(Event) /\ Dto(rows', m) \in Entry /\ Dto(rows', m).msg = m
  BY Forwarding, DtoTypes DEF TypeOK
<1>2. \A i \in DOMAIN wire : About(wire[i]) # m
  BY <1>1 DEF Formed, EventHolds
<1>3. Telling(m)' = {}
  <2>1. ASSUME NEW h \in Handler, proc[h].pc \in {"hydrate", "emit"}
        PROVE  m \notin Touched(h)
    BY <1>1, <2>1, Working, MessageCacheAssumption DEF Touched, Formed
  <2>2. QED BY <1>1, <2>1 DEF Telling, Touched
<1>d. PICK d : d = Dto(rows', m)
  OBVIOUS
<1>4. EndsRight(m, {d})'
  <2>1. Shows({d}, m)'
    BY <1>1, <1>d DEF Shows, Alike
  <2>2. QED BY <1>3, <2>1 DEF EndsRight
<1>5. m \in Excused(c)' /\ Listed({d}, m) = {d} /\ {d} \in SUBSET Entry
  BY <1>1, <1>d DEF Excused, Listed
<1>6. 0 \in 0 .. Len(wire') /\ \A i \in 0 + 1 .. Len(wire') : About(wire'[i]) # m
  BY <1>1, <1>2
<1>7. QED BY <1>1, <1>4, <1>5, <1>6, CourseConstant

(* When the page arrives, its course is the list's. *)
LEMMA CoursePage ==
  ASSUME NEW m \in Message, WillShow("page", m), PageArrives
  PROVE  WillShow("list", m)'
<1>0. PICK k \in 0 .. Len(wire) : \E v \in [k .. Len(wire) -> SUBSET Entry] :
        Course("page", m, k, v) /\ EndsRight(m, v[Len(wire)])
  BY DEF WillShow
<1>1. PICK v \in [k .. Len(wire) -> SUBSET Entry] :
        Course("page", m, k, v) /\ EndsRight(m, v[Len(wire)])
  BY <1>0
<1>2. /\ UNCHANGED <<rows, proc, wire>> /\ fetch.pc = "answered" /\ list' = fetch.page
      /\ stale' = fetch.passed
  BY DEF PageArrives, server
<1>3. Course("list", m, k, v)'
  BY <1>1, <1>2 DEF Course, Snapshot, After, OnEvent, Copy, Excused
<1>4. EndsRight(m, v[Len(wire)])'
  <2>1. \A S : Shows(S, m)' <=> Shows(S, m)
    BY <1>2 DEF Shows, Dto
  <2>2. Telling(m)' = Telling(m)
    BY <1>2 DEF Telling, Touched
  <2>3. QED BY <1>1, <1>2, <2>1, <2>2 DEF EndsRight, EventOf, After, OnEvent
<1>5. QED BY <1>1, <1>2, <1>3, <1>4 DEF WillShow

(* The device comes to list every message that is not raced as its row is. *)
LEMMA CourseStep ==
  ASSUME TypeOK, Formed, Connected, OneWriter, SnapshotsFresh, AnswersAgree, ListComesRight,
         [Next]_vars, TypeOK', Formed'
  PROVE  ListComesRight'
<1> SUFFICES ASSUME drops' = 0, NEW m \in Message \ raced', rows'[m].stored, Parent[m] = None
             PROVE  \A c \in Copies : WillShow(c, m)'
  BY DEF ListComesRight
<1>1. drops = 0 /\ m \in Message \ raced
      /\ (DeviceStep => Receive \/ Refetch \/ ReadPage \/ PageArrives)
  BY ConnectedSteps
<1>2. rows[m].stored => \A c \in Copies : WillShow(c, m)
  BY <1>1 DEF ListComesRight
<1>c. "list" \in Copies /\ "page" \in Copies
  BY DEF Copies
<1>3. ASSUME rows'[m] = rows[m], wire' = wire, Telling(m)' = Telling(m),
             \A g \in Telling(m) : proc'[g] = proc[g]
      PROVE  \A c \in Copies : WillShow(c, m)'
  <2>1. WillShow("list", m) /\ WillShow("page", m) /\ rows[m].stored
    BY <1>2, <1>3, <1>c
  <2>2. ~ \E h \in Handler : Compose(h, m)
    BY <2>1 DEF Compose
  <2>3. ~Receive
    BY <1>3 DEF Receive, TypeOK
  <2>4. WillShow("list", m)'
    <3>1. CASE Listed(list', m) = Listed(list, m) /\ (m \in stale => m \in stale')
      <4>1. m \in Excused("list")' \/ (/\ Listed(Copy("list")', m) = Listed(Copy("list"), m)
                                     /\ m \notin Excused("list"))
        BY <3>1 DEF Copy, Excused
      <4>2. QED BY <1>3, <1>c, <2>1, <4>1, CourseKept
    <3>2. ASSUME NEW h \in Handler, Answer(h), proc[h].msg = m, Listed(list', m) = {proc[h].dto}
          PROVE  WillShow("list", m)'
      BY <1>1, <3>2, CourseAnswer
    <3>3. CASE PageArrives
      BY <2>1, <3>3, CoursePage
    <3>4. QED BY <2>2, <2>3, <3>1, <3>2, <3>3, ListedSteps
  <2>5. WillShow("page", m)'
    <3>1. CASE m \in Excused("page")'
      BY <1>c, <2>4, <3>1, CourseExcused
    <3>2. CASE m \notin Excused("page")'
      <4>1. fetch'.pc = "answered" /\ m \notin fetch'.passed
        BY <3>2 DEF Excused
      <4>2. CASE fetch.pc = "answered" /\ m \notin fetch.passed /\ fetch'.page = fetch.page
        <5>1. Listed(Copy("page")', m) = Listed(Copy("page"), m) /\ m \notin Excused("page")
          BY <4>2 DEF Copy, Excused
        <5>2. QED BY <1>3, <1>c, <2>1, <5>1, CourseKept
      <4>3. CASE ReadPage /\ m \notin Coming
        BY <2>1, <4>3, CourseRead
      <4>4. QED BY <4>1, <4>2, <4>3, PageSteps
    <3>3. QED BY <3>1, <3>2
  <2>6. QED BY <2>4, <2>5 DEF Copies
<1>4. ASSUME NEW h \in Handler, \A g \in Handler \ {h} : proc'[g] = proc[g],
             h \notin Telling(m), h \notin Telling(m)'
      PROVE  Telling(m)' = Telling(m) /\ \A g \in Telling(m) : proc'[g] = proc[g]
  BY <1>4 DEF Telling, Touched
<1>5. ASSUME NEW h \in Handler, WriteStep(h), \A g \in Handler \ {h} : proc'[g] = proc[g]
      PROVE  \A c \in Copies : WillShow(c, m)'
  <2>1. CASE m \in Touched(h)
    BY <1>1, <1>5, <2>1, CourseWrite
  <2>2. CASE m \notin Touched(h)
    <3>1. rows'[m] = rows[m]
      BY <1>5, <2>2, WrittenRows, MessageCacheAssumption DEF Touched
    <3>2. h \notin Telling(m) /\ h \notin Telling(m)' /\ wire' = wire
      BY <1>5, <2>2, Writing DEF Telling, Touched, device
    <3>3. QED BY <1>3, <1>4, <1>5, <3>1, <3>2
  <2>3. QED BY <2>1, <2>2
<1>6. ASSUME NEW h \in Handler, Hydrate(h), \A g \in Handler \ {h} : proc'[g] = proc[g]
      PROVE  \A c \in Copies : WillShow(c, m)'
  <2>1. UNCHANGED <<rows, wire>>
    BY <1>6 DEF Hydrate, device
  <2>2. CASE m \in Touched(h)
    BY <1>1, <1>2, <1>6, <2>1, <2>2, CourseHydrate
  <2>3. CASE m \notin Touched(h)
    <3>1. proc'[h].msg = proc[h].msg /\ proc'[h].op = proc[h].op
      BY <1>6 DEF Hydrate, TypeOK, ProcRecord
    <3>2. h \notin Telling(m) /\ h \notin Telling(m)'
      BY <2>3, <3>1 DEF Telling, Touched
    <3>3. QED BY <1>3, <1>4, <1>6, <2>1, <3>2
  <2>4. QED BY <2>2, <2>3
<1>7. ASSUME NEW h \in Handler, Emit(h)
      PROVE  \A c \in Copies : WillShow(c, m)'
  <2>1. rows' = rows /\ wire' = Append(wire, EventOf(h))
    BY <1>1, <1>7, ConnectedSteps DEF Emit, Broadcast, EventOf
  <2>2. \A c \in Copies : WillShow(c, m)
    BY <1>2, <2>1
  <2>3. QED BY <1>1, <1>7, <2>1, <2>2, CourseEmit
<1>8. ASSUME NEW h \in Handler, \A g \in Handler \ {h} : proc'[g] = proc[g],
             \/ \E n \in Message : Compose(h, n)
             \/ \E op \in Ops, n \in Message, own \in BOOLEAN : Begin(h, op, n, own)
             \/ Toggle(h) /\ proc'[h] = Idle /\ UNCHANGED <<rows, raced>>
             \/ Look(h) \/ Answer(h) \/ LoseAnswer(h)
      PROVE  \A c \in Copies : WillShow(c, m)'
  <2>1. UNCHANGED <<rows, wire>>
    BY <1>8 DEF Compose, Begin, Look, Answer, LoseAnswer, Toggle, device
  <2>2. proc'[h].pc \in {"idle", "look", "write"} /\ proc[h].pc \in {"idle", "look", "write", "answer"}
    <3>1. CASE \E n \in Message : Compose(h, n)
      BY <3>1 DEF Compose, Idle, TypeOK
    <3>2. CASE \E op \in Ops, n \in Message, own \in BOOLEAN : Begin(h, op, n, own)
      BY <3>2 DEF Begin, Idle, TypeOK
    <3>3. CASE Look(h)
      BY <3>3 DEF Look, ProcRecord, TypeOK
    <3>4. CASE Toggle(h) /\ proc'[h] = Idle
      BY <3>4 DEF Toggle, Idle
    <3>5. CASE Answer(h) \/ LoseAnswer(h)
      BY <3>5 DEF Answer, LoseAnswer, Idle, TypeOK
    <3>6. QED BY <1>8, <3>1, <3>2, <3>3, <3>4, <3>5
  <2>3. h \notin Telling(m) /\ h \notin Telling(m)'
    BY <2>2 DEF Telling
  <2>4. QED BY <1>3, <1>4, <1>8, <2>1, <2>3
<1>9. CASE UNCHANGED <<rows, proc, asked, raced>> /\ DeviceStep
  <2>1. CASE Receive
    BY <1>2, <1>9, <2>1, CourseReceive
  <2>2. CASE ~Receive
    <3>1. wire' = wire
      BY <1>1, <1>9, <2>2 DEF Refetch, ReadPage, PageArrives
    <3>2. Telling(m)' = Telling(m)
      BY <1>9 DEF Telling, Touched
    <3>3. QED BY <1>3, <1>9, <3>1, <3>2
  <2>3. QED BY <2>1, <2>2
<1>f. ASSUME NEW n \in Message, Forward(n)
      PROVE  \A c \in Copies : WillShow(c, m)'
  <2>1. CASE n = m
    BY <1>f, <2>1, CourseForward
  <2>2. CASE n # m
    <3>1. rows'[m] = rows[m] /\ UNCHANGED <<proc, wire>>
      BY <1>f, <2>2, Forwarding
    <3>2. Telling(m)' = Telling(m)
      BY <3>1 DEF Telling, Touched
    <3>3. QED BY <1>3, <3>1, <3>2
  <2>3. QED BY <2>1, <2>2
<1>10. CASE UNCHANGED vars
  BY <1>3, <1>10 DEF vars, Telling, Touched
<1>11. QED BY <1>5, <1>6, <1>7, <1>8, <1>9, <1>f, <1>10, Steps

---------------------------------------------------------------------------
(* The invariant.                                                          *)

(* At the start the device lists what the server has, and nothing is under *)
(* way.                                                                    *)
LEMMA InitIndInv == Init => IndInv
<1> SUFFICES ASSUME Init PROVE IndInv
  OBVIOUS
<1>1. TypeOK /\ Formed
  BY InitTypes
<1>2. /\ list = Page(rows) /\ wire = <<>> /\ fetch = NoFetch /\ drops = 0 /\ online /\ joined
      /\ \A h \in Handler : proc[h] = Idle /\ proc[h].pc = "idle"
      /\ rows \in [Message -> RowRecord] /\ Len(wire) = 0
  BY <1>1 DEF Init, Idle, TypeOK
<1>3. Tidy(list) /\ Tidy(fetch.page) /\ Connected /\ PageStored
  BY <1>2, PageTidy DEF Tidy, NoFetch, Connected, PageStored
<1>4. OneWriter /\ SnapshotsFresh /\ AnswersAgree
  BY <1>2 DEF OneWriter, SnapshotsFresh, AnswersAgree, Untold
<1>5. BubblesSent
  <2>1. \A m \in Message : ~rows[m].stored => Listed(list, m) = {}
    <3> DEFINE D(m) == Dto(rows, m)
    <3>1. list = {D(m) : m \in {n \in Message : rows[n].stored /\ Parent[n] = None}}
      BY <1>2 DEF Page
    <3>2. \A m \in Message : D(m).msg = m
      BY <1>2, DtoTypes
    <3> HIDE DEF D
    <3>3. QED BY <3>1, <3>2 DEF Listed
  <2>2. QED BY <2>1 DEF BubblesSent
<1>6. ListComesRight
  <2>1. SUFFICES ASSUME NEW m \in Message, rows[m].stored, Parent[m] = None
                 PROVE  \A c \in Copies : WillShow(c, m)
    BY DEF ListComesRight
  <2>2. Listed(list, m) = {Dto(rows, m)} /\ Dto(rows, m) \in Entry
    BY <1>2, <2>1, PageTidy, DtoTypes
  <2>3. EndsRight(m, Listed(list, m))
    <3>1. Telling(m) = {}
      BY <1>2 DEF Telling
    <3>2. Shows(Listed(list, m), m)
      BY <2>2 DEF Shows, Alike
    <3>3. QED BY <3>1, <3>2 DEF EndsRight
  <2>4. PICK v : v = [i \in 0 .. 0 |-> Listed(list, m)]
    OBVIOUS
  <2>5. v \in [0 .. Len(wire) -> SUBSET Entry] /\ v[0] = Listed(list, m) /\ 0 \in 0 .. Len(wire)
    BY <1>2, <2>2, <2>4
  <2>c. ASSUME NEW c \in Copies
        PROVE  m \in Excused(c) \/ v[0] = Listed(Copy(c), m)
    BY <1>2, <2>5 DEF Copies, Copy, Excused, NoFetch
  <2>d. v[0] = Listed(v[0], m)
    BY <2>5 DEF Listed
  <2>6. \A c \in Copies : Course(c, m, 0, v)
    BY <1>2, <2>c, <2>d DEF Course
  <2>7. v[Len(wire)] = Listed(list, m)
    BY <1>2, <2>5
  <2>8. QED BY <2>3, <2>5, <2>6, <2>7 DEF WillShow
<1>7. QED BY <1>1, <1>3, <1>4, <1>5, <1>6 DEF IndInv

(* The parts of the invariant hold from the start and on every step. *)
THEOREM MessageCacheInvariant == Spec => []IndInv
<1>1. ASSUME IndInv, [Next]_vars
      PROVE  IndInv'
  <2>1. TypeOK' /\ Formed'
    BY <1>1, FormedStep DEF IndInv
  <2>2. Tidy(list)' /\ Tidy(fetch.page)' /\ Connected' /\ PageStored'
    BY <1>1, <2>1, TidyStep, ConnectedStep, PageStep DEF IndInv
  <2>3. OneWriter' /\ SnapshotsFresh' /\ BubblesSent' /\ AnswersAgree' /\ ListComesRight'
    BY <1>1, <2>1, WriterStep, BubblesStep, AnswersStep, CourseStep DEF IndInv
  <2>4. QED BY <2>1, <2>2, <2>3 DEF IndInv
<1>2. QED BY <1>1, InitIndInv, PTL DEF Spec

(* Every variable keeps its type: no edit is beyond the operations asked   *)
(* for, and every event and answer is a message's.                         *)
THEOREM MessageCacheTypeCorrect == Spec => []TypeOK
<1>1. IndInv => TypeOK
  BY DEF IndInv
<1>2. QED BY <1>1, MessageCacheInvariant, PTL

(* upsertMessage keeps one entry of a message, whichever of its five       *)
(* sources brings it, and in whatever order.                               *)
THEOREM NoTwinsAlways == Spec => []NoTwins
<1>1. IndInv => NoTwins
  BY DEF IndInv, Tidy, NoTwins
<1>2. QED BY <1>1, MessageCacheInvariant, PTL

(* upsertMessage keeps replies that are edited, reacted to or pinned out   *)
(* of the channel's list, and no page brings one.                          *)
THEOREM RepliesStayOutAlways == Spec => []RepliesStayOut
<1>1. IndInv => RepliesStayOut
  BY DEF IndInv, Tidy, RepliesStayOut
<1>2. QED BY <1>1, MessageCacheInvariant, PTL

(* Entries that show the same have the same face. *)
LEMMA AlikeFaces ==
  ASSUME NEW e, NEW f, Alike(e, f)
  PROVE  Face(e) = Face(f)
BY DEF Alike, Face

(* At rest, a course is the list as it is. *)
LEMMA AtRest ==
  ASSUME IndInv, Quiet, drops = 0
  PROVE  /\ \A m \in Message \ (raced \cup stale) : rows[m].stored /\ Parent[m] = None =>
              \E e \in Entry : Listed(list, m) = {e} /\ Alike(e, Dto(rows, m))
         /\ \A e \in list : e.msg \in Message /\ Parent[e.msg] = None /\ rows[e.msg].stored
<1>1. \A h \in Handler : proc[h].pc = "idle"
  BY DEF Quiet, Idle
<1>2. ASSUME NEW m \in Message \ (raced \cup stale), rows[m].stored, Parent[m] = None
      PROVE  Shows(Listed(list, m), m)
  <2>1. WillShow("list", m) /\ Len(wire) = 0
    BY <1>2 DEF IndInv, ListComesRight, Quiet, Copies
  <2>2. PICK k \in 0 .. Len(wire) : \E v \in [k .. Len(wire) -> SUBSET Entry] :
          Course("list", m, k, v) /\ EndsRight(m, v[Len(wire)])
    BY <2>1 DEF WillShow
  <2>3. k = 0
    BY <2>1, <2>2
  <2>4. EndsRight(m, Listed(list, m))
    BY <1>2, <2>1, <2>2, <2>3 DEF Course, Copy, Excused
  <2>5. QED BY <1>1, <2>4 DEF EndsRight, Telling
<1>3. ASSUME NEW e \in list
      PROVE  e.msg \in Message /\ Parent[e.msg] = None /\ rows[e.msg].stored
  <2>1. e.msg \in Message
    BY <1>3 DEF IndInv, TypeOK, Entry
  <2>2. Parent[e.msg] = None
    BY <1>3 DEF IndInv, Tidy
  <2>3. e \in Listed(list, e.msg)
    BY <1>3 DEF Listed
  <2>4. rows[e.msg].stored
    BY <1>1, <2>1, <2>3 DEF IndInv, BubblesSent
  <2>5. QED BY <2>1, <2>2, <2>4
<1>4. QED BY <1>2, <1>3 DEF Shows

(* What the answers, the events and their order leave in the list of a     *)
(* device that stayed connected is what the rows say, for every message    *)
(* that no two handlers wrote at once and that passed no page by.          *)
THEOREM CurrentUnlessRacedAlways == Spec => []CurrentUnlessRaced
<1>1. ASSUME IndInv, Quiet, drops = 0
      PROVE  {Face(e) : e \in {f \in list : f.msg \notin raced \cup stale}}
               = {Face(e) : e \in {f \in Page(rows) : f.msg \notin raced \cup stale}}
  <2> DEFINE D(m) == Dto(rows, m)
  <2>1. Page(rows) = {D(m) : m \in {n \in Message : rows[n].stored /\ Parent[n] = None}}
    BY DEF Page
  <2>2. \A m \in Message : D(m).msg = m
    BY <1>1, DtoTypes DEF IndInv, TypeOK
  <2>3. \A m \in Message \ (raced \cup stale) : rows[m].stored /\ Parent[m] = None =>
          \E e \in list : Listed(list, m) = {e} /\ e.msg = m /\ Face(e) = Face(D(m))
    BY <1>1, AtRest, AlikeFaces DEF Listed
  <2>4. \A e \in list : e.msg \in Message /\ Parent[e.msg] = None /\ rows[e.msg].stored
    BY <1>1, AtRest
  <2> HIDE DEF D
  <2>5. ASSUME NEW e \in list, e.msg \notin raced \cup stale
        PROVE  \E f \in Page(rows) : f.msg \notin raced \cup stale /\ Face(f) = Face(e)
    <3>1. D(e.msg) \in Page(rows) /\ D(e.msg).msg = e.msg
      BY <2>1, <2>2, <2>4
    <3>2. Face(e) = Face(D(e.msg))
      BY <2>3, <2>4, <2>5 DEF Listed
    <3>3. QED BY <2>5, <3>1, <3>2
  <2>6. ASSUME NEW f \in Page(rows), f.msg \notin raced \cup stale
        PROVE  \E e \in list : e.msg \notin raced \cup stale /\ Face(e) = Face(f)
    <3>1. PICK m \in Message : f = D(m) /\ rows[m].stored /\ Parent[m] = None
      BY <2>1, <2>6
    <3>2. QED BY <2>2, <2>3, <2>6, <3>1
  <2>7. QED BY <2>5, <2>6
<1>2. IndInv => CurrentUnlessRaced
  BY <1>1 DEF CurrentUnlessRaced
<1>3. QED BY <1>2, MessageCacheInvariant, PTL
=============================================================================
