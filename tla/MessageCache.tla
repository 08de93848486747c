---------------------------- MODULE MessageCache ----------------------------
(***************************************************************************)
(* The messages of one channel after they are posted, and the copy of them *)
(* that one open device keeps.                                             *)
(*                                                                         *)
(* The server's handlers edit, react to, pin and delete messages: each     *)
(* checks the row, writes it, and broadcasts a snapshot taken at or after  *)
(* its write, in steps other handlers can come between.  The device learns *)
(* of a message from five places that nothing orders: its own optimistic   *)
(* bubble, the answer to its own request, the socket's events, the fetch   *)
(* of the channel's page that follows a reconnection, and those that a     *)
(* change of a profile, a call's chat or a pane opened again start on a    *)
(* connected device.                                                       *)
(* How a post is stored once is the subject of module Posting.             *)
(***************************************************************************)
EXTENDS Naturals, Sequences, FiniteSets

CONSTANTS Message,  \* the messages of the channel
          Parent,   \* the message each one replies to, or None
          Old,      \* those posted before the device opened the channel
          Own,      \* those this device's user writes, on this device
          Handler,  \* the server's concurrent request handlers
          Ops,      \* what users do to posted messages
          MaxOps,   \* bound: operations asked for, in all
          MaxLost,  \* bound: answers the device never gets
          MaxFetches, \* bound: disconnections and fetches without one, in all
          None

ASSUME MessageCacheAssumption ==
  /\ Parent \in [Message -> Message \cup {None}]
  /\ IsFiniteSet(Message) /\ None \notin Message \cup Handler
  /\ \A m \in Message : Parent[m] # None => Parent[Parent[m]] = None
  /\ Old \subseteq Message /\ Own \subseteq Message \ Old
  /\ \A m \in Own : Parent[m] = None
  /\ Ops \subseteq {"edit", "react", "pin", "remove"}
  /\ MaxOps \in Nat /\ MaxLost \in Nat /\ MaxFetches \in Nat

VARIABLES rows,   \* the Message rows
          proc,   \* what each handler is doing
          list,   \* the device's cached page of the channel
          wire,   \* socket events on their way to the device, in order
          online, \* the socket is connected
          joined, \* the socket is in the channel's room
          fetch,  \* the fetch of the channel's page
          asked,  \* operations asked for so far
          drops,  \* disconnections so far
          lost,   \* answers lost so far
          looks,  \* fetches without a reconnection so far
          stale,  \* history: messages whose change the list missed, for the
                  \* page or the event that would bring it came too early
          raced   \* history: messages written by one handler while another
                  \* handler had written and not yet told the device

server == <<rows, proc, asked, raced>>
device == <<list, wire, online, joined, fetch, drops, lost, looks, stale>>
vars == <<rows, proc, list, wire, online, joined, fetch, asked, drops, lost, looks, stale, raced>>

(* A message as a MessageDto carries it.  The text of a version is the     *)
(* number of the edit that wrote it; pending marks the optimistic bubble,  *)
(* whose id is its own clientMsgId.                                        *)
Entry == [msg : Message, pending : BOOLEAN, text : 0 .. MaxOps,
          deleted : BOOLEAN, pinned : BOOLEAN, reacted : BOOLEAN, replies : Nat]

RowRecord == [stored : BOOLEAN, text : 0 .. MaxOps, deleted : BOOLEAN,
              pinned : BOOLEAN, reacted : BOOLEAN, replies : Nat]

Event == [type : {"new", "updated", "deleted", "reply"}, dto : Entry]

Unposted == [stored |-> FALSE, text |-> 0, deleted |-> FALSE,
             pinned |-> FALSE, reacted |-> FALSE, replies |-> 0]

Bubble(m) == [msg |-> m, pending |-> TRUE, text |-> 0, deleted |-> FALSE,
              pinned |-> FALSE, reacted |-> FALSE, replies |-> 0]

(* toDto of a row: a deleted message goes out without its content. *)
Dto(r, m) == [msg |-> m, pending |-> FALSE, text |-> IF r[m].deleted THEN 0 ELSE r[m].text,
              deleted |-> r[m].deleted, pinned |-> r[m].pinned,
              reacted |-> r[m].reacted, replies |-> r[m].replies]

Idle == [pc |-> "idle", op |-> None, msg |-> None, saw |-> FALSE,
         own |-> FALSE, dto |-> None]

ProcRecord == [pc  : {"idle", "look", "write", "hydrate", "emit", "answer"},
               op  : Ops \cup {"send", None},
               msg : Message \cup {None},
               saw : BOOLEAN,
               own : BOOLEAN,
               dto : Entry \cup {None}]

TypeOK ==
  /\ rows \in [Message -> RowRecord]
  /\ proc \in [Handler -> ProcRecord]
  /\ list \subseteq Entry
  /\ wire \in Seq(Event)
  /\ online \in BOOLEAN /\ joined \in BOOLEAN /\ (joined => online)
  /\ fetch \in [pc : {"none", "asked", "answered"}, page : SUBSET Entry,
               passed : SUBSET Message]
  /\ asked \in 0 .. MaxOps
  /\ drops \in 0 .. MaxFetches /\ lost \in 0 .. MaxLost /\ looks \in 0 .. MaxFetches
  /\ stale \subseteq Message /\ raced \subseteq Message

(* MessagesService.list: the top-level messages, tombstones included. *)
Page(r) == {Dto(r, m) : m \in {n \in Message : r[n].stored /\ Parent[n] = None}}

(* A fetch of the page, and the history of what its answer passes on its   *)
(* way: messages with an event that the page was read before, or after     *)
(* which the page arrives.                                                 *)
NoFetch == [pc |-> "none", page |-> {}, passed |-> {}]
Fetching == [NoFetch EXCEPT !.pc = "asked"]

Init ==
  /\ rows = [m \in Message |->
               [Unposted EXCEPT !.stored  = m \in Old,
                                !.replies = Cardinality({n \in Old : Parent[n] = m})]]
  /\ proc = [h \in Handler |-> Idle]
  /\ list = Page(rows) /\ wire = <<>> /\ fetch = NoFetch
  /\ online = TRUE /\ joined = TRUE
  /\ asked = 0 /\ drops = 0 /\ lost = 0 /\ looks = 0
  /\ stale = {} /\ raced = {}

---------------------------------------------------------------------------
(* The device's cache (lib/message-cache.ts).                              *)

(* Defect: entries are matched by id, which a bubble does not share. *)
SameId(e, d) == e.msg = d.msg /\ e.pending = d.pending

SameMessage(e, d) == e.msg = d.msg

(* Defect: an unknown reply is appended to the channel's page. *)
UpsertAny(page, d) == {e \in page : ~SameMessage(e, d)} \cup {d}

(* upsertMessage: replace the entry of the same message, or append a       *)
(* message that is not a reply.                                            *)
Upsert(page, d) ==
  LET others == {e \in page : ~SameMessage(e, d)}
  IN  IF others = page /\ Parent[d.msg] # None THEN page ELSE others \cup {d}

(* removeMessage: the content goes, the pin stays. *)
MarkDeleted(page, m) ==
  {IF e.msg = m /\ ~e.pending THEN [e EXCEPT !.deleted = TRUE, !.text = 0] ELSE e : e \in page}

(* bumpReplyCount *)
Bump(page, m) ==
  {IF e.msg = m /\ ~e.pending THEN [e EXCEPT !.replies = @ + 1] ELSE e : e \in page}

(* The socket handlers of AppShell. *)
OnEvent(page, ev) ==
  CASE ev.type \in {"new", "updated"} -> Upsert(page, ev.dto)
    [] ev.type = "deleted"            -> MarkDeleted(page, ev.dto.msg)
    [] ev.type = "reply"              -> Bump(page, Parent[ev.dto.msg])

(* The message that an event changes in the list. *)
About(ev) == IF ev.type = "reply" THEN Parent[ev.dto.msg] ELSE ev.dto.msg

(* A page on its way that messages pass by. *)
PassedBy(ms) ==
  fetch' = IF fetch.pc = "answered" THEN [fetch EXCEPT !.passed = @ \cup ms] ELSE fetch

(* The next event, in the order of the broadcasts; a snapshot makes up for *)
(* what was missed.                                                        *)
Receive ==
  /\ online /\ wire # <<>>
  /\ LET ev == Head(wire)
     IN  /\ list' = OnEvent(list, ev) /\ wire' = Tail(wire)
         /\ stale' = IF ev.type \in {"new", "updated"} THEN stale \ {ev.dto.msg} ELSE stale
         /\ PassedBy({About(ev)})
  /\ UNCHANGED <<server, online, joined, drops, lost, looks>>

(* The socket drops: it leaves its rooms, and events on their way are lost. *)
Disconnect ==
  /\ online /\ drops + looks < MaxFetches
  /\ drops' = drops + 1
  /\ online' = FALSE /\ joined' = FALSE /\ wire' = <<>>
  /\ UNCHANGED <<server, list, fetch, lost, looks, stale>>

(* It comes back: onReconnect invalidates the page, which restarts a fetch *)
(* already under way, and joinAll asks for the room.                       *)
Reconnect ==
  /\ ~online
  /\ online' = TRUE
  /\ fetch' = Fetching
  /\ UNCHANGED <<server, list, wire, joined, drops, lost, looks, stale>>

(* onUserUpdated and the chat beside a call invalidate the page, and a     *)
(* pane that is opened again fetches one that is no longer fresh: all this *)
(* on a device whose socket may never have dropped.                        *)
Refetch ==
  /\ drops + looks < MaxFetches
  /\ looks' = looks + 1
  /\ fetch' = Fetching
  /\ UNCHANGED <<server, list, wire, online, joined, drops, lost, stale>>

(* onRoomJoin on the server. *)
JoinRoom ==
  /\ online /\ ~joined
  /\ joined' = TRUE
  /\ UNCHANGED <<server, list, wire, online, fetch, drops, lost, looks, stale>>

(* Messages a handler's write changes: a reply also counts in its parent. *)
Touched(h) ==
  {proc[h].msg} \cup (IF proc[h].op = "send" THEN {Parent[proc[h].msg]} \ {None} ELSE {})

(* Messages that were written and whose events are still to come. *)
Coming ==
  {About(wire[i]) : i \in DOMAIN wire}
    \cup UNION {Touched(h) : h \in {g \in Handler : proc[g].pc \in {"hydrate", "emit"}}}

(* MessagesService.list reads the page. *)
ReadPage ==
  /\ fetch.pc = "asked"
  /\ fetch' = [pc |-> "answered", page |-> Page(rows), passed |-> Coming]
  /\ UNCHANGED <<server, list, wire, online, joined, drops, lost, looks, stale>>

(* The page arrives and replaces the cached one, bubbles included: what it *)
(* passed on its way is lost, and a reply that it counts is counted again. *)
PageArrives ==
  /\ fetch.pc = "answered"
  /\ list' = fetch.page /\ stale' = fetch.passed
  /\ fetch' = NoFetch
  /\ UNCHANGED <<server, wire, online, joined, drops, lost, looks>>

---------------------------------------------------------------------------
(* The server's handlers.                                                  *)

(* A broadcast reaches the device if its socket is in the room. *)
Broadcast(type, dto) ==
  wire' = IF joined THEN Append(wire, [type |-> type, dto |-> dto]) ELSE wire

(* Handlers that have written and not yet told the device. *)
Untold == {h \in Handler : proc[h].pc \in {"hydrate", "emit", "answer"}}

NoteRace(h) == raced' = raced \cup (Touched(h) \cap UNION {Touched(g) : g \in Untold \ {h}})

(* Composer.send: the bubble appears and the request leaves.  Messages of  *)
(* other users just leave.  A reply needs its parent's row.                *)
Compose(h, m) ==
  /\ proc[h] = Idle /\ ~rows[m].stored
  /\ \A g \in Handler : proc[g].msg # m
  /\ Parent[m] # None => rows[Parent[m]].stored
  /\ proc' = [proc EXCEPT ![h] = [Idle EXCEPT !.pc = "write", !.op = "send", !.msg = m,
                                              !.own = m \in Own]]
  /\ list' = IF m \in Own THEN Upsert(list, Bubble(m)) ELSE list
  /\ UNCHANGED <<rows, asked, raced, wire, online, joined, fetch, drops, lost, looks, stale>>

(* The transaction of send commits and returns the new row. *)
Post(h) ==
  /\ proc[h].pc = "write" /\ proc[h].op = "send"
  /\ LET m == proc[h].msg
     IN  /\ rows' = [n \in Message |->
                       IF n = m THEN [rows[n] EXCEPT !.stored = TRUE]
                       ELSE IF n = Parent[m] THEN [rows[n] EXCEPT !.replies = @ + 1]
                       ELSE rows[n]]
         /\ proc' = [proc EXCEPT ![h].pc = "emit", ![h].dto = Dto(rows', m)]
  /\ NoteRace(h)
  /\ UNCHANGED <<asked, device>>

(* forward stores a copy of a message of another channel, and announces it *)
(* without the envelope that onMessageNew reads it from: the device that   *)
(* has the channel open lists it only when it fetches the page, and        *)
(* ForwardModal keeps nothing of the answer.                               *)
Forward(m) ==
  /\ Parent[m] = None /\ ~rows[m].stored
  /\ \A g \in Handler : proc[g].msg # m
  /\ rows' = [rows EXCEPT ![m].stored = TRUE]
  /\ stale' = stale \cup {m}
  /\ PassedBy({m})
  /\ UNCHANGED <<proc, asked, raced, list, wire, online, joined, drops, lost, looks>>

(* edit, toggleReaction, togglePin and remove find the message and check   *)
(* that it is not deleted; togglePin keeps the pin it saw.  An edit made   *)
(* on this device is answered to it.                                       *)
Begin(h, op, m, own) ==
  /\ proc[h] = Idle /\ op \in Ops
  /\ rows[m].stored /\ ~rows[m].deleted
  /\ own => op = "edit" /\ m \in Own
  /\ asked < MaxOps /\ asked' = asked + 1
  /\ proc' = [proc EXCEPT ![h] = [Idle EXCEPT !.pc  = IF op = "react" THEN "look" ELSE "write",
                                              !.op  = op, !.msg = m, !.own = own,
                                              !.saw = op = "pin" /\ rows[m].pinned]]
  /\ UNCHANGED <<rows, raced, device>>

(* toggleReaction looks for the caller's reaction. *)
Look(h) ==
  /\ proc[h].pc = "look"
  /\ proc' = [proc EXCEPT ![h].pc = "write", ![h].saw = rows[proc[h].msg].reacted]
  /\ UNCHANGED <<rows, asked, raced, device>>

(* The update of edit and togglePin, which returns the row it wrote. *)
Write(h) ==
  /\ proc[h].pc = "write" /\ proc[h].op \in {"edit", "pin"}
  /\ LET m == proc[h].msg
     IN  /\ rows' = IF proc[h].op = "edit" THEN [rows EXCEPT ![m].text = @ + 1]
                     ELSE [rows EXCEPT ![m].pinned = ~proc[h].saw]
         /\ proc' = [proc EXCEPT ![h].pc = "emit", ![h].dto = Dto(rows', m)]
  /\ NoteRace(h)
  /\ UNCHANGED <<asked, device>>

(* The update of remove; only the message's id goes out. *)
Remove(h) ==
  /\ proc[h].pc = "write" /\ proc[h].op = "remove"
  /\ LET m == proc[h].msg
     IN  /\ rows' = [rows EXCEPT ![m].deleted = TRUE, ![m].pinned = FALSE]
         /\ proc' = [proc EXCEPT ![h].pc = "emit", ![h].dto = Dto(rows', m)]
  /\ NoteRace(h)
  /\ UNCHANGED <<asked, device>>

(* toggleReaction deletes the reaction it found or creates the one it did  *)
(* not; when another toggle was faster the row is gone, or the unique key  *)
(* taken, and the request fails.                                           *)
Toggle(h) ==
  /\ proc[h].pc = "write" /\ proc[h].op = "react"
  /\ LET m == proc[h].msg
     IN  IF rows[m].reacted = proc[h].saw
         THEN /\ rows' = [rows EXCEPT ![m].reacted = ~@]
              /\ proc' = [proc EXCEPT ![h].pc = "hydrate"]
              /\ NoteRace(h)
         ELSE /\ proc' = [proc EXCEPT ![h] = Idle]
              /\ UNCHANGED <<rows, raced>>
  /\ UNCHANGED <<asked, device>>

(* Defect: the snapshot is the one taken before the write. *)
HydrateEarly(h) ==
  /\ proc[h].pc = "hydrate"
  /\ proc' = [proc EXCEPT ![h].pc = "emit",
                          ![h].dto = [Dto(rows, proc[h].msg) EXCEPT !.reacted = proc[h].saw]]
  /\ UNCHANGED <<rows, asked, raced, device>>

(* toggleReaction reads the message again. *)
Hydrate(h) ==
  /\ proc[h].pc = "hydrate"
  /\ proc' = [proc EXCEPT ![h].pc = "emit", ![h].dto = Dto(rows, proc[h].msg)]
  /\ UNCHANGED <<rows, asked, raced, device>>

EventType(p) ==
  CASE p.op = "send" /\ Parent[p.msg] = None -> "new"
    [] p.op = "send" /\ Parent[p.msg] # None -> "reply"
    [] p.op = "remove"                       -> "deleted"
    [] OTHER                                 -> "updated"

(* Defect: the sender's own device is left out of the broadcast. *)
EmitToOthers(h) ==
  /\ proc[h].pc = "emit"
  /\ IF proc[h].own THEN UNCHANGED wire ELSE Broadcast(EventType(proc[h]), proc[h].dto)
  /\ proc' = [proc EXCEPT ![h] = IF proc[h].own THEN [@ EXCEPT !.pc = "answer"] ELSE Idle]
  /\ UNCHANGED <<rows, asked, raced, list, online, joined, fetch, drops, lost, looks, stale>>

(* The broadcast to the channel's room, the author's devices included. *)
Emit(h) ==
  /\ proc[h].pc = "emit"
  /\ Broadcast(EventType(proc[h]), proc[h].dto)
  /\ proc' = [proc EXCEPT ![h] = IF proc[h].own THEN [@ EXCEPT !.pc = "answer"] ELSE Idle]
  /\ UNCHANGED <<rows, asked, raced, list, online, joined, fetch, drops, lost, looks, stale>>

(* The answer to the device's own POST or PATCH, upserted like an event. *)
Answer(h) ==
  /\ proc[h].pc = "answer"
  /\ list' = Upsert(list, proc[h].dto)
  /\ proc' = [proc EXCEPT ![h] = Idle]
  /\ UNCHANGED <<rows, asked, raced, wire, online, joined, fetch, drops, lost, looks, stale>>

(* The answer is lost; the device keeps what it has. *)
LoseAnswer(h) ==
  /\ proc[h].pc = "answer" /\ lost < MaxLost
  /\ lost' = lost + 1
  /\ proc' = [proc EXCEPT ![h] = Idle]
  /\ UNCHANGED <<rows, asked, raced, list, wire, online, joined, fetch, drops, looks, stale>>

---------------------------------------------------------------------------
Serve(h) ==
  \/ Post(h) \/ Look(h) \/ Write(h) \/ Remove(h) \/ Toggle(h) \/ Hydrate(h)
  \/ Emit(h) \/ Answer(h)

Next ==
  \/ \E h \in Handler :
       \/ \E m \in Message : Compose(h, m)
       \/ \E op \in Ops, m \in Message, own \in BOOLEAN : Begin(h, op, m, own)
       \/ Serve(h)
       \/ LoseAnswer(h)
  \/ \E m \in Message : Forward(m)
  \/ Receive \/ Disconnect \/ Reconnect \/ JoinRoom \/ Refetch \/ ReadPage \/ PageArrives

Spec == Init /\ [][Next]_vars

(* The server finishes what it started, the socket delivers and comes back *)
(* (socket.io reconnects without limit), and a fetch is answered.          *)
Fairness ==
  /\ \A h \in Handler : WF_vars(Serve(h))
  /\ WF_vars(Receive) /\ WF_vars(Reconnect) /\ WF_vars(JoinRoom)
  /\ WF_vars(ReadPage) /\ WF_vars(PageArrives)

FairSpec == Spec /\ Fairness

---------------------------------------------------------------------------
(* Properties.                                                             *)

Quiet ==
  /\ \A h \in Handler : proc[h] = Idle
  /\ wire = <<>> /\ fetch = NoFetch
  /\ online /\ joined

(* What the reader sees of an entry: a tombstone hides all but the number  *)
(* of replies.                                                             *)
Face(e) == [msg |-> e.msg, pending |-> e.pending, deleted |-> e.deleted, replies |-> e.replies,
            body |-> IF e.deleted THEN None ELSE <<e.text, e.pinned, e.reacted>>]

(* A message is in the list once, whether it came from the bubble, the     *)
(* answer, an event or a fetch (upsertMessage dedupes by clientMsgId).     *)
NoTwins == \A e, f \in list : e.msg = f.msg => e = f

(* A reply never shows up as a message of the channel, even when an edit   *)
(* or a reaction to it is broadcast to devices that do not know it.        *)
RepliesStayOut == \A e \in list : Parent[e.msg] = None

(* Once everything has arrived, a device that stayed connected shows every *)
(* message as the server has it.  The exceptions: a message that a handler *)
(* wrote while another was still to broadcast its own write of it (raced); *)
(* one that a page had on its way an event of, either to come when it was  *)
(* read or handled before it arrived, and one forwarded here, until the    *)
(* next snapshot of it or the next page (stale).                           *)
CurrentUnlessRaced ==
  Quiet /\ drops = 0 =>
    {Face(e) : e \in {f \in list : f.msg \notin raced \cup stale}}
      = {Face(e) : e \in {f \in Page(rows) : f.msg \notin raced \cup stale}}

(* On a device that stays connected a message written there appears as     *)
(* stored once it is stored, though its answer may be lost: the echo       *)
(* brings it, unless a page that passed it on the way takes it off again.  *)
OwnMessageAppears ==
  \A m \in Own : rows[m].stored ~>
    drops > 0 \/ m \in stale \/ \E e \in list : e.msg = m /\ ~e.pending

=============================================================================
