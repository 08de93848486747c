------------------------------- MODULE Device -------------------------------
(***************************************************************************)
(* One page of one user: the channel list and the unread badges it caches,  *)
(* the channel it shows, and its debounced mark-read calls.  The socket     *)
(* delivers events in order; answers to fetches overtake them.  Messages    *)
(* come from others and are numbered per channel, those of threads too.     *)
(***************************************************************************)
EXTENDS Requests, Sequences

CONSTANTS Channel, Default,
          MaxEvents \* bound on the events on their way to the page

ASSUME DeviceAssumption == Default \in Channel /\ None \notin Channel

VARIABLES joined,  \* channels the user is a member of
          rooms,   \* channel rooms the socket is in
          last,    \* number of the last message of a channel or its threads
          top,     \* number of the last message of the channel itself
          readTo,  \* the user's read pointer on the server
          toPage,  \* events on their way to the page
          invalid, \* queries the page has to fetch
          cached,  \* the cached channel list
          bold,    \* channels cached as unread
          got,     \* last message the page has of each channel
          active,  \* the channel the page is set to
          view,    \* what the user looks at
          marks,   \* mark-read calls scheduled or flushed: <<channel, number>>
          missed,  \* history: channels whose badge was wrong when it was last set or due
          unaware, \* history: channels the list was wrong about when it came or was due
          strayed  \* history: the list came without the active channel

deviceVars == <<joined, rooms, last, top, readTo, toPage, invalid, cached, bold, got, active,
                view, marks, missed, unaware, strayed>>
server == <<joined, last, top, readTo>>
page   == <<cached, bold, got, active, view, marks, strayed>>

(* The bottom of the pane, its history or the home page, or another window. *)
View == {"reading", "hidden", "away"}

DeviceTypeOK ==
  /\ joined \cup rooms \cup cached \cup bold \cup missed \cup unaware \subseteq Channel
  /\ last \in [Channel -> 0..MaxRequests] /\ readTo \in [Channel -> 0..MaxRequests]
  /\ top \in [Channel -> 0..MaxRequests]
  /\ got \in [Channel -> 0..MaxRequests] /\ invalid \subseteq {"channels", "unreads"}
  /\ active \in Channel \cup {None} /\ view \in View /\ strayed \in BOOLEAN
  /\ marks \subseteq Channel \X (1..MaxRequests)
  /\ \A c \in Channel : readTo[c] <= last[c] /\ got[c] <= top[c] /\ top[c] <= last[c]

DeviceInit ==
  /\ joined \in {{Default}, Channel} /\ rooms = {}
  /\ last = [c \in Channel |-> 0]
  /\ top = last /\ readTo = last /\ got = last /\ toPage = <<>> /\ invalid = {"channels", "unreads"}
  /\ cached = {} /\ bold = {} /\ active = None /\ marks = {} /\ missed = {} /\ unaware = {}
  /\ strayed = FALSE
  /\ view = "reading"

Send(kind, c, n) ==
  /\ Len(toPage) < MaxEvents
  /\ toPage' = Append(toPage, [kind |-> kind, channel |-> c, n |-> n])

(* hasUnread of getUnreads and computeState. *)
Unread(c) == c \in joined /\ last[c] > readTo[c]

(* A call the page makes of its own accord is not counted. *)
Start(h, pc, ref, seen) ==
  /\ At(h, "idle")
  /\ proc' = [proc EXCEPT ![h] = [pc |-> pc, user |-> None, ref |-> ref, seen |-> seen]]
  /\ UNCHANGED <<requests, members>>

Fetching(query) == \E h \in Handler : At(h, query)

---------------------------------------------------------------------------
(* What others do. *)

(* A reply stamps the channel as well, but its event sets no badge; the     *)
(* event of a forwarded message is the bare message, which no page can read. *)
(* A mention leaves a fan-out that still has to push the badge.             *)
MessageArrives(c, kind) ==
  /\ c \in joined /\ last' = [last EXCEPT ![c] = @ + 1]
  /\ top' = IF kind = "reply" THEN top ELSE [top EXCEPT ![c] = last'[c]]
  /\ IF kind = "new" /\ c \in rooms THEN Send("new", c, last'[c]) /\ UNCHANGED missed
                                     ELSE missed' = missed \cup {c} /\ UNCHANGED toPage
  /\ \/ Answer
     \/ kind # "forward" /\ \E h \in Handler : Begin(h, "push", None, c, {})
  /\ UNCHANGED <<joined, rooms, readTo, invalid, unaware, page>>

(* The fan-out says that there is something unread, read or not by then.   *)
Push(h) ==
  /\ At(h, "push") /\ Send("unread", proc[h].ref, 0)
  /\ Finish(h) /\ UNCHANGED <<server, rooms, invalid, missed, unaware, page>>

PushDies(h) == At(h, "push") /\ Finish(h) /\ UNCHANGED deviceVars

(* A new member has read nothing.  Who joins a public channel, follows a    *)
(* link, opens a direct message or makes a private channel gets it as the   *)
(* answer, and his other pages get nothing; who accepts an invitation or is *)
(* written to has all his pages told, after more statements.                *)
AddedTo(c) ==
  /\ c \notin joined /\ joined' = joined \cup {c}
  /\ \/ Answer /\ unaware' = unaware \cup {c}
     \/ \E h \in Handler : Begin(h, "tellAdded", None, c, {}) /\ UNCHANGED unaware
  /\ missed' = IF last[c] > 0 THEN missed \cup {c} ELSE missed
  /\ UNCHANGED <<rooms, last, top, readTo, toPage, invalid, page>>

TellAdded(h) ==
  /\ At(h, "tellAdded") /\ Send("created", proc[h].ref, 0) /\ Finish(h)
  /\ UNCHANGED <<server, rooms, invalid, missed, unaware, page>>

(* Everyone belongs to the default channel.  The membership goes before the *)
(* notice is posted, and the socket is evicted when the page has been told. *)
RemovedFrom(h, c) ==
  /\ c \in joined \ {Default} /\ Begin(h, "tellRemoved", None, c, {})
  /\ joined' = joined \ {c} /\ readTo' = [readTo EXCEPT ![c] = 0]
  /\ UNCHANGED <<rooms, last, top, toPage, invalid, missed, unaware, page>>

(* What the channel is told, the socket still in its room hears too.        *)
TellRemoved(h) ==
  LET c == proc[h].ref IN
  /\ At(h, "tellRemoved") /\ Send("removed", c, IF c \in rooms THEN 1 ELSE 0)
  /\ rooms' = rooms \ {c} /\ Finish(h)
  /\ UNCHANGED <<server, invalid, missed, unaware, page>>

TellDies(h) ==
  /\ proc[h].pc \in {"tellAdded", "tellRemoved"} /\ unaware' = unaware \cup {proc[h].ref}
  /\ Finish(h) /\ UNCHANGED <<server, rooms, toPage, invalid, missed, page>>

(* A profile, a channel or its other members changed: the list is refetched. *)
ListChanges ==
  /\ Answer /\ invalid' = invalid \cup {"channels"}
  /\ UNCHANGED <<server, rooms, toPage, missed, unaware, page>>

(* Another device of the user marks the channel. *)
OtherDeviceReads(h, c) ==
  /\ Unread(c) /\ Begin(h, "mark", None, c, {last[c]}) /\ UNCHANGED deviceVars

---------------------------------------------------------------------------
(* markRead on the server: advance only, then the state of the channel. *)

Mark(h) ==
  LET c == proc[h].ref  n == CHOOSE n \in proc[h].seen : TRUE IN
  /\ At(h, "mark") /\ c \in joined
  /\ readTo' = [readTo EXCEPT ![c] = IF n > @ THEN n ELSE @]
  /\ GotoWith(h, "echo", IF last[c] > readTo'[c] THEN {c} ELSE {})
  /\ UNCHANGED <<joined, rooms, last, top, toPage, invalid, page, missed, unaware>>

(* unread:update goes to the devices of the user, as old as it may be. *)
Echo(h) ==
  LET c == proc[h].ref IN
  /\ At(h, "echo")
  /\ Send(IF c \in proc[h].seen THEN "unread" ELSE "read", c, 0)
  /\ Finish(h) /\ UNCHANGED <<server, rooms, invalid, missed, unaware, page>>

(* The page swallows the error: its badge stays cleared. *)
MarkFails(h) ==
  /\ proc[h].pc \in {"mark", "echo"} /\ missed' = missed \cup {proc[h].ref} /\ Finish(h)
  /\ UNCHANGED <<server, rooms, toPage, invalid, unaware, page>>

---------------------------------------------------------------------------
(* What the page does with what it gets. *)

(* MessagePane: what is at the bottom of a focused window is being read.    *)
(* A scheduled call is replaced by the next for the same channel.           *)
MarkShown(unreadNow) ==
  LET c == active' IN
  IF c # None /\ view' = "reading" /\ got'[c] > 0
  THEN /\ bold' = unreadNow \ {c}
       /\ marks' = {m \in marks : m[1] # c} \cup {<<c, got'[c]>>}
  ELSE bold' = unreadNow /\ UNCHANGED marks

SetsBadge(kind) == kind \in {"new", "read", "unread"}

(* An event that sets the badge to what it is not is not put right unless   *)
(* another one follows.                                                    *)
Late(e, is) ==
  LET c == e.channel
      followed == \E i \in DOMAIN toPage' : toPage'[i].channel = c /\ SetsBadge(toPage'[i].kind)
  IN  missed' = IF is = Unread(c) THEN missed \ {c}
                ELSE IF followed THEN missed ELSE missed \cup {c}

(* bumpLocalUnread asks which channel is active and whether the window has  *)
(* the focus, not whether the message is in sight.                          *)
OnMessageNew(e) ==
  /\ got' = [got EXCEPT ![e.channel] = e.n] /\ UNCHANGED <<active, view, cached, invalid, unaware>>
  /\ IF e.channel = active /\ view # "away"
     THEN /\ MarkShown(bold)
          /\ missed' = IF view # "reading" THEN missed \cup {e.channel} ELSE missed
     ELSE /\ bold' = bold \cup {e.channel} /\ UNCHANGED marks
          /\ Late(e, TRUE)

(* Defect: an update only ever adds a badge. *)
AddBadge(e) ==
  /\ bold' = IF e.kind = "unread" THEN bold \cup {e.channel} ELSE bold
  /\ Late(e, e.kind = "unread")
  /\ UNCHANGED <<got, active, view, cached, marks, invalid, unaware>>

OnUnreadUpdate(e) ==
  /\ bold' = IF e.kind = "unread" THEN bold \cup {e.channel} ELSE bold \ {e.channel}
  /\ Late(e, e.kind = "unread")
  /\ UNCHANGED <<got, active, view, cached, marks, invalid, unaware>>

OnChannelCreated(e) ==
  /\ invalid' = invalid \cup {"channels"}
  /\ UNCHANGED <<got, active, view, cached, bold, marks, missed, unaware>>

(* setActiveChannel leaves the home page; a new pane starts at its bottom.  *)
Activate(c) == active' = c /\ view' = IF view = "away" THEN view ELSE "reading"

(* The default channel, else any, of those the page knows. *)
Fallback(list) == IF Default \in list THEN {Default} ELSE IF list = {} THEN {None} ELSE list

(* The list loses the channel, even one joined anew in the meantime; who     *)
(* was in the room heard of a member who left, and fetches the list too.     *)
DropChannel(e) ==
  /\ cached' = cached \ {e.channel} /\ UNCHANGED <<got, missed>>
  /\ invalid' = IF e.n = 1 THEN invalid \cup {"channels"} ELSE invalid
  /\ unaware' = IF e.channel \in joined THEN unaware \cup {e.channel}
                                           ELSE unaware \ {e.channel}

(* Defect: the page stays with the channel. *)
StayThere(e) == DropChannel(e) /\ UNCHANGED <<active, view, bold, marks>>

OnChannelRemoved(e) ==
  /\ DropChannel(e)
  /\ IF e.channel = active
     THEN \E c \in Fallback(cached') : Activate(c) /\ MarkShown(bold)
     ELSE UNCHANGED <<active, view, bold, marks>>

Receive ==
  LET e == Head(toPage) IN
  /\ toPage # <<>> /\ toPage' = Tail(toPage)
  /\ \/ e.kind = "new" /\ OnMessageNew(e)
     \/ e.kind \in {"read", "unread"} /\ OnUnreadUpdate(e)
     \/ e.kind = "created" /\ OnChannelCreated(e)
     \/ e.kind = "removed" /\ OnChannelRemoved(e)
  /\ UNCHANGED <<server, rooms, strayed, requestVars>>

FetchQuery(h, query) ==
  /\ query \in invalid /\ ~Fetching(query) /\ invalid' = invalid \ {query}
  /\ Start(h, query, None, IF query = "channels" THEN joined ELSE {c \in Channel : Unread(c)})
  /\ UNCHANGED <<server, rooms, toPage, missed, unaware, page>>

(* Rooms are joined for the channels listed, and the server looks again; a  *)
(* page set to no channel takes the default one of the list.                *)
TakeChannels(h) ==
  /\ At(h, "channels") /\ cached' = proc[h].seen /\ UNCHANGED got
  /\ rooms' = rooms \cup (cached' \cap joined)
  /\ unaware' = {c \in Channel : (c \in cached') # (c \in joined)}
  /\ strayed' = (active \notin cached' \cup {None})
  /\ IF active = None THEN \E c \in Fallback(cached') : Activate(c) /\ MarkShown(bold)
                      ELSE UNCHANGED <<active, view, bold, marks>>
  /\ Finish(h) /\ UNCHANGED <<server, toPage, invalid, missed>>

(* What was cleared or said while the answer was on its way is undone. *)
TakeUnreads(h) ==
  /\ At(h, "unreads") /\ bold' = proc[h].seen
  /\ missed' = {c \in Channel : (c \in proc[h].seen) # Unread(c)}
  /\ Finish(h) /\ UNCHANGED <<server, rooms, toPage, invalid, cached, got, active, view, marks,
                               unaware, strayed>>

(* The events on their way go with the socket; a new one joins the rooms of  *)
(* the channels the page lists.                                            *)
Reconnect ==
  /\ Answer /\ rooms' = cached \cap joined /\ toPage' = <<>> /\ invalid' = {"channels", "unreads"}
  /\ UNCHANGED <<server, page, missed, unaware>>

---------------------------------------------------------------------------
(* What the user does. *)

Select(c) ==
  /\ c \in cached /\ view # "away" /\ (c # active \/ view = "hidden") /\ UNCHANGED got
  /\ Activate(c) /\ MarkShown(bold) /\ strayed' = FALSE
  /\ UNCHANGED <<server, rooms, toPage, invalid, cached, missed, unaware, requestVars>>

(* The pane fetches its messages when it is opened, unless it has a young   *)
(* copy, and again when it is told to.                                      *)
FetchMessages ==
  /\ active \in joined /\ got[active] < top[active]
  /\ got' = [got EXCEPT ![active] = top[active]] /\ UNCHANGED <<active, view>>
  /\ MarkShown(bold)
  /\ UNCHANGED <<server, rooms, toPage, invalid, cached, missed, unaware, strayed, requestVars>>

(* The pane is scrolled, home is opened, the window loses or gets the       *)
(* focus; only the latter marks what is shown.                             *)
Look ==
  /\ view' \in View \ {view} /\ UNCHANGED <<active, got>>
  /\ IF view = "away" THEN MarkShown(bold) ELSE UNCHANGED <<bold, marks>>
  /\ UNCHANGED <<server, rooms, toPage, invalid, cached, missed, unaware, strayed, requestVars>>

SendMark(h) ==
  /\ \E m \in marks : marks' = marks \ {m} /\ Start(h, "mark", m[1], {m[2]})
  /\ UNCHANGED <<server, rooms, toPage, invalid, cached, bold, got, active, view, missed,
                 unaware, strayed>>

DeviceNext ==
  \/ \E c \in Channel :
       \/ \E kind \in {"new", "reply", "forward"} : MessageArrives(c, kind)
       \/ AddedTo(c) \/ Select(c)
       \/ \E h \in Handler : OtherDeviceReads(h, c) \/ RemovedFrom(h, c)
  \/ \E h \in Handler :
       \/ Push(h) \/ PushDies(h) \/ TellAdded(h) \/ TellRemoved(h) \/ TellDies(h)
       \/ Mark(h) \/ Echo(h) \/ MarkFails(h) \/ SendMark(h)
       \/ TakeChannels(h) \/ TakeUnreads(h) \/ \E q \in invalid : FetchQuery(h, q)
  \/ ListChanges \/ Receive \/ Reconnect \/ Look \/ FetchMessages

DeviceSpec == RequestsInit /\ DeviceInit /\ [][DeviceNext]_<<requestVars, deviceVars>>

Settled == AllIdle /\ toPage = <<>> /\ invalid = {} /\ marks = {}

(* "the server only pushes unread:update for mentions/DMs, plain messages   *)
(* bold locally and the next refetch confirms" (unreads.ts:31): a settled    *)
(* page shows as unread what the server has as unread.  Named exceptions,    *)
(* each for one channel until the badges are fetched again: a reply in a     *)
(* thread or a forwarded message; a message that came before the room was    *)
(* joined, or to the active channel while the pane was scrolled up or the     *)
(* home page on top of it; a mark-read that failed; an answer, an echo or a   *)
(* fan-out's push that was old when it came.                               *)
BadgesRight ==
  Settled => \A c \in joined : (c \in bold <=> Unread(c)) \/ c \in missed

(* A settled page shows a channel it lists, and lists what the user is in    *)
(* (AppShell.tsx:67-73, 158-169).  Named exceptions: a channel he joined in    *)
(* a way that tells his other pages nothing, or joined or left by a request   *)
(* that died before it told them, until the list is fetched again; one       *)
(* joined anew before the page heard of its removal; a list read before a     *)
(* removal that came after it, or a removal's event lost with the socket.    *)
ActiveListed ==
  Settled => /\ cached \ unaware = joined \ unaware
             /\ active \in cached \/ cached = {} \/ strayed
=============================================================================
