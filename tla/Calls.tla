------------------------------- MODULE Calls -------------------------------
(***************************************************************************)
(* Calls in one direct message: CallsService, and the pages of its members *)
(* (CallBanner, IncomingCallModal, CallOverlay, CallAttendees and the call *)
(* events of AppShell).                                                    *)
(*                                                                         *)
(* A flow is what one click starts: the requests it makes one after the    *)
(* other, each split where the server awaits.  It is kept as the plan, the *)
(* steps still to go, so a click that uploads, stops the recording and     *)
(* then leaves has a plan of three requests.  Events reach each page in    *)
(* the order of their broadcasts.  LiveKit's rooms are external.  The text *)
(* messages a call posts go through send, which is Posting's subject.      *)
(***************************************************************************)
EXTENDS Naturals, Sequences, FiniteSets

CONSTANTS User,        \* the members of the conversation, one page each
          Call,        \* ids of calls rows
          Flow,        \* flows under way
          MaxRequests, \* bound on the clicks, the banners mounted and the failures
          MaxFailures, \* bound on the failures: of requests, and of sockets
          MaxLag,      \* bound on the broadcasts a page has yet to receive
          None

ASSUME CallsAssumption == MaxRequests \in Nat /\ MaxFailures \in Nat /\ MaxLag \in Nat
                    /\ None \notin User \cup Call

VARIABLES call,      \* the Call rows
          room,      \* who is in the LiveKit room of each call
          share,     \* who may share the screen there
          page,      \* what each page shows: overlay, ring prompt, banner, REC badge, own recorder
          look,      \* the fetch each page's banner has under way, once it was read
          mail,      \* broadcasts on their way to each page
          flow,      \* the flows under way
          uploads,   \* how often each recording was posted
          clicks,    \* how many flows were begun and banners mounted
          failures,  \* how many requests failed, or sockets went down
          answered,  \* history: calls that were joined or declined
          muddled,   \* history: two calls overlapped, or an announcement came late or never
          misled,    \* history: pages whose banner an old answer replaced, or the loss of mail left
          stray      \* history: <<user, call>> of prompts whose end went before or was lost

vars == <<call, room, share, page, look, mail, flow, uploads, clicks, failures,
          answered, muddled, misled, stray>>
\* What only a banner's own fetch and the loss of mail touch.
banners == <<look, misled>>

Take == 1 .. MaxRequests

CallRecord == [state : {"none", "active", "ended"}, host : User \cup {None}, rec : BOOLEAN]
Event == [ev : {"started", "ended", "ring", "stop", "recording"}, call : Call, flag : BOOLEAN]
PageRecord == [overlay : Call \cup {None}, ring : Call \cup {None}, banner : Call \cup {None},
               badge : BOOLEAN, take : {0} \cup Take]
LookRecord == [asked : BOOLEAN, answer : Call \cup {None}, passed : BOOLEAN]
Steps == {"find", "create", "tellStart", "ring", "answer", "decline", "grant", "upload",
          "recCheck", "recWrite", "recTell", "record", "leaveCheck", "leaveEnd", "tellEnd"}
FlowRecord == [user : User \cup {None}, call : Call \cup {None}, flag : BOOLEAN,
               ref : User \cup Take \cup {0, None}, toggle : BOOLEAN, plan : Seq(Steps)]

NoCall == [state |-> "none", host |-> None, rec |-> FALSE]
Blank  == [overlay |-> None, ring |-> None, banner |-> None, badge |-> FALSE, take |-> 0]
NoLook == [asked |-> FALSE, answer |-> None, passed |-> FALSE]
Idle   == [user |-> None, call |-> None, flag |-> FALSE, ref |-> 0, toggle |-> FALSE, plan |-> <<>>]

Active == {c \in Call : call[c].state = "active"}

CallsTypeOK ==
  /\ call \in [Call -> CallRecord]
  /\ room \in [Call -> SUBSET User] /\ share \in [Call -> SUBSET User]
  /\ page \in [User -> PageRecord] /\ look \in [User -> LookRecord]
  /\ mail \in [User -> Seq(Event)]
  /\ flow \in [Flow -> FlowRecord]
  /\ uploads \in [Take -> Nat] /\ clicks \in 0 .. MaxRequests /\ failures \in 0 .. MaxFailures
  /\ answered \subseteq Call /\ muddled \in BOOLEAN
  /\ misled \subseteq User /\ stray \subseteq User \X Call
  /\ \A c \in Call : share[c] \subseteq room[c] /\ (call[c].state = "none" => room[c] = {})
  /\ \A u \in User : page[u].overlay # None => u \in room[page[u].overlay]

CallsInit ==
  /\ call = [c \in Call |-> NoCall]
  /\ room = [c \in Call |-> {}] /\ share = [c \in Call |-> {}]
  /\ page = [u \in User |-> Blank] /\ mail = [u \in User |-> <<>>]
  /\ flow = [f \in Flow |-> Idle]
  /\ uploads = [t \in Take |-> 0] /\ clicks = 0 /\ failures = 0 /\ answered = {} /\ muddled = FALSE
  /\ look = [u \in User |-> NoLook] /\ misled = {} /\ stray = {}

---------------------------------------------------------------------------
(* Flows and broadcasts.                                                   *)

Bounded == clicks + failures < MaxRequests

Begin(f, u, c, plan, flag, ref, toggle) ==
  /\ flow[f].plan = <<>> /\ Bounded /\ clicks' = clicks + 1 /\ UNCHANGED failures
  /\ flow' = [flow EXCEPT ![f] =
                IF plan = <<>> THEN Idle
                ELSE [user |-> u, call |-> c, flag |-> flag, ref |-> ref,
                      toggle |-> toggle, plan |-> plan]]

At(f, step) == flow[f].plan # <<>> /\ Head(flow[f].plan) = step

(* The flow with the current step replaced by others, and without it. *)
Instead(f, steps) == LET rest == steps \o Tail(flow[f].plan)
                     IN IF rest = <<>> THEN Idle ELSE [flow[f] EXCEPT !.plan = rest]
Continue(f) == /\ flow' = [flow EXCEPT ![f] = Instead(f, <<>>)]
               /\ UNCHANGED <<clicks, failures>>

(* Somebody who hangs up leaves also when his earlier requests fail, and a *)
(* failed upload is only logged; any other failure ends the click.         *)
AfterFailure(f) ==
  LET plan == flow[f].plan IN
  IF Head(plan) = "upload" THEN Instead(f, <<>>)
  ELSE IF Len(plan) > 1 /\ plan[Len(plan)] = "leaveCheck"
       THEN [flow[f] EXCEPT !.plan = <<"leaveCheck">>]
       ELSE Idle

Msg(ev, c, flag) == [ev |-> ev, call |-> c, flag |-> flag]
ToUsers(users, m) ==
  /\ \A u \in users : Len(mail[u]) < MaxLag
  /\ mail' = [u \in User |-> IF u \in users THEN Append(mail[u], m) ELSE mail[u]]
ToChannel(m) == ToUsers(User, m)

---------------------------------------------------------------------------
(* Starting and joining.                                                   *)

Joining(u) == \E f \in Flow : flow[f].user = u /\ flow[f].plan # <<>>
                /\ Head(flow[f].plan) \in {"find", "create", "tellStart", "ring", "answer"}

(* The call buttons of the pane and the banner; a second click before the   *)
(* answer of the first, which would replace its overlay, is left out.       *)
StartCall(f, u) ==
  /\ page[u].overlay = None /\ ~Joining(u)
  /\ Begin(f, u, None, <<"find">>, FALSE, 0, FALSE)
  /\ UNCHANGED <<call, room, share, page, mail, uploads, answered, muddled, stray, banners>>

(* Defect: joining does not stop the ring. *)
FindSilently(f) ==
  /\ At(f, "find")
  /\ IF Active = {}
     THEN /\ flow' = [flow EXCEPT ![f] = Instead(f, <<"create">>)]
          /\ UNCHANGED answered
     ELSE \E c \in Active :
            /\ flow' = [flow EXCEPT ![f] = [Instead(f, <<"answer">>) EXCEPT
                                              !.call = c, !.flag = call[c].rec]]
            /\ answered' = answered \cup {c}
  /\ UNCHANGED <<call, room, share, page, mail, uploads, clicks, failures, muddled, stray, banners>>

(* Accepting a ring is the same request, so it starts a new call when the  *)
(* ringing one is over.                                                    *)
Accept(f, u) ==
  /\ page[u].ring # None /\ page[u].overlay = None /\ ~Joining(u)
  /\ Begin(f, u, None, <<"find">>, FALSE, 0, FALSE)
  /\ page' = [page EXCEPT ![u].ring = None]
  /\ UNCHANGED <<call, room, share, mail, uploads, answered, muddled, stray, banners>>

Find(f) ==
  /\ At(f, "find")
  /\ IF Active = {}
     THEN /\ flow' = [flow EXCEPT ![f] = Instead(f, <<"create">>)]
          /\ UNCHANGED <<mail, answered>>
     ELSE \E c \in Active :
            /\ flow' = [flow EXCEPT ![f] = [Instead(f, <<"answer">>) EXCEPT
                                              !.call = c, !.flag = call[c].rec]]
            /\ ToChannel(Msg("stop", c, FALSE))
            /\ answered' = answered \cup {c}
  /\ UNCHANGED <<call, room, share, page, uploads, clicks, failures, muddled, stray, banners>>

(* Nothing keeps a second call from being created meanwhile. *)
Create(f) ==
  /\ At(f, "create")
  /\ \E c \in {d \in Call : call[d].state = "none"} :
       /\ call' = [call EXCEPT ![c] = [state |-> "active", host |-> flow[f].user, rec |-> FALSE]]
       /\ flow' = [flow EXCEPT ![f] = [Instead(f, <<"tellStart", "ring", "answer">>) EXCEPT
                                         !.call = c]]
  /\ muddled' = (muddled \/ Active # {})
  /\ UNCHANGED <<room, share, page, mail, uploads, clicks, failures, answered, stray, banners>>

TellStart(f) ==
  /\ At(f, "tellStart") /\ ToChannel(Msg("started", flow[f].call, FALSE)) /\ Continue(f)
  /\ muddled' = (muddled \/ call[flow[f].call].state = "ended")
  /\ UNCHANGED <<call, room, share, page, uploads, answered, stray, banners>>

RingDirectMessage(f) ==
  /\ At(f, "ring")
  /\ ToUsers(User \ {flow[f].user}, Msg("ring", flow[f].call, FALSE)) /\ Continue(f)
  /\ stray' = IF flow[f].call \in answered \/ call[flow[f].call].state = "ended"
              THEN stray \cup (User \X {flow[f].call}) ELSE stray
  /\ UNCHANGED <<call, room, share, page, uploads, answered, muddled, banners>>

(* The answer with its token: the overlay opens and LiveKit lets the user  *)
(* in, whatever became of the call; only the host may share the screen.    *)
JoinAnswered(f) ==
  LET u == flow[f].user  c == flow[f].call IN
  /\ At(f, "answer") /\ Continue(f)
  /\ page' = [page EXCEPT ![u] = [@ EXCEPT !.overlay = c, !.badge = flow[f].flag, !.take = 0]]
  /\ room' = [room EXCEPT ![c] = @ \cup {u}]
  /\ share' = [share EXCEPT ![c] = IF call[c].host = u THEN @ \cup {u} ELSE @]
  /\ UNCHANGED <<call, mail, uploads, answered, muddled, stray, banners>>

PressDecline(f, u) ==
  /\ page[u].ring # None /\ page[u].overlay = None
  /\ Begin(f, u, page[u].ring, <<"decline">>, FALSE, 0, FALSE)
  /\ page' = [page EXCEPT ![u].ring = None]
  /\ UNCHANGED <<call, room, share, mail, uploads, answered, muddled, stray, banners>>

(* The call goes on; a message records the miss. *)
Decline(f) ==
  /\ At(f, "decline") /\ ToChannel(Msg("stop", flow[f].call, FALSE)) /\ Continue(f)
  /\ answered' = answered \cup {flow[f].call}
  /\ UNCHANGED <<call, room, share, page, uploads, muddled, stray, banners>>

(* The prompt goes away by itself after 30 seconds. *)
Dismiss(u) ==
  /\ page[u].ring # None /\ page[u].overlay = None
  /\ page' = [page EXCEPT ![u].ring = None]
  /\ UNCHANGED <<call, room, share, mail, flow, uploads, clicks, failures, answered, muddled, stray, banners>>

---------------------------------------------------------------------------
(* Screen sharing.                                                         *)

PressGrant(f, u, v) ==
  LET c == page[u].overlay IN
  /\ c # None /\ call[c].host = u /\ call[c].state = "active" /\ v \in room[c] \ {u}
  /\ Begin(f, u, c, <<"grant">>, FALSE, v, FALSE)
  /\ UNCHANGED <<call, room, share, page, mail, uploads, answered, muddled, stray, banners>>

GrantScreenshare(f) ==
  /\ At(f, "grant") /\ Continue(f)
  /\ share' = [share EXCEPT ![flow[f].call] = @ \cup ({flow[f].ref} \cap room[flow[f].call])]
  /\ UNCHANGED <<call, room, page, mail, uploads, answered, muddled, stray, banners>>

---------------------------------------------------------------------------
(* Recording.                                                              *)

Busy(u) == \E f \in Flow : flow[f].user = u /\ flow[f].toggle

(* Defect: the recorder is forgotten after its upload, not before. *)
StopKeepingRecorder(f, u) ==
  /\ page[u].overlay # None /\ ~Busy(u) /\ page[u].take # 0
  /\ Begin(f, u, page[u].overlay, <<"upload", "recCheck">>, FALSE, page[u].take, TRUE)
  /\ UNCHANGED <<call, room, share, page, mail, uploads, answered, muddled, stray, banners>>

StartRecording(f, u) ==
  /\ page[u].overlay # None /\ ~Busy(u) /\ page[u].take = 0 /\ ~page[u].badge
  /\ Begin(f, u, page[u].overlay, <<"recCheck", "record">>, TRUE, clicks + 1, TRUE)
  /\ UNCHANGED <<call, room, share, page, mail, uploads, answered, muddled, stray, banners>>

StopRecording(f, u) ==
  /\ page[u].overlay # None /\ ~Busy(u) /\ page[u].take # 0
  /\ Begin(f, u, page[u].overlay, <<"upload", "recCheck">>, FALSE, page[u].take, TRUE)
  /\ page' = [page EXCEPT ![u].take = 0]
  /\ UNCHANGED <<call, room, share, mail, uploads, answered, muddled, stray, banners>>

(* setRecording: a call that has ended refuses, an unchanged flag is       *)
(* answered at once.                                                       *)
CheckRecording(f) ==
  /\ At(f, "recCheck")
  /\ flow' = [flow EXCEPT ![f] =
                CASE call[flow[f].call].state = "ended" -> AfterFailure(f)
                  [] call[flow[f].call].state # "ended" /\ call[flow[f].call].rec = flow[f].flag
                       -> Instead(f, <<>>)
                  [] OTHER -> Instead(f, <<"recWrite", "recTell">>)]
  /\ UNCHANGED <<call, room, share, page, mail, uploads, clicks, failures, answered, muddled, stray, banners>>

(* The update goes by id: it flags a call that ended since the check. *)
SetRecording(f) ==
  /\ At(f, "recWrite") /\ Continue(f)
  /\ call' = [call EXCEPT ![flow[f].call].rec = flow[f].flag]
  /\ UNCHANGED <<room, share, page, mail, uploads, answered, muddled, stray, banners>>

TellRecording(f) ==
  /\ At(f, "recTell") /\ Continue(f)
  /\ ToChannel(Msg("recording", flow[f].call, flow[f].flag))
  /\ UNCHANGED <<call, room, share, page, uploads, answered, muddled, stray, banners>>

(* The recorder runs once the request was answered; when its overlay is    *)
(* gone by then nothing refers to it any more.                             *)
Record(f) ==
  /\ At(f, "record") /\ Continue(f)
  /\ page' = IF page[flow[f].user].overlay = flow[f].call
             THEN [page EXCEPT ![flow[f].user].take = flow[f].ref] ELSE page
  /\ UNCHANGED <<call, room, share, mail, uploads, answered, muddled, stray, banners>>

UploadRecording(f) ==
  /\ At(f, "upload") /\ Continue(f)
  /\ uploads' = [uploads EXCEPT ![flow[f].ref] = @ + 1]
  /\ UNCHANGED <<call, room, share, page, mail, answered, muddled, stray, banners>>

---------------------------------------------------------------------------
(* Leaving.                                                                *)

(* onDisconnected flushes a recorder that still runs, stops the recording  *)
(* and reports how many others LiveKit's client still counts.  That count  *)
(* may lag behind the room, so it may be any; leave does nothing unless it *)
(* is zero.                                                                *)
HangUp(f, u, zero) ==
  LET c == page[u].overlay  take == page[u].take IN
  /\ c # None
  /\ Begin(f, u, c, (IF take # 0 THEN <<"upload", "recCheck">> ELSE <<>>)
                      \o (IF zero THEN <<"leaveCheck">> ELSE <<>>), FALSE, take, FALSE)
  /\ page' = [page EXCEPT ![u] = [@ EXCEPT !.overlay = None, !.badge = FALSE, !.take = 0]]
  /\ room' = [room EXCEPT ![c] = @ \ {u}] /\ share' = [share EXCEPT ![c] = @ \ {u}]
  /\ UNCHANGED <<call, mail, uploads, answered, muddled, stray, banners>>

Leave(f) ==
  /\ At(f, "leaveCheck")
  /\ flow' = [flow EXCEPT ![f] = IF call[flow[f].call].state = "ended" THEN Idle
                                 ELSE Instead(f, <<"leaveEnd", "tellEnd">>)]
  /\ UNCHANGED <<call, room, share, page, mail, uploads, clicks, failures, answered, muddled, stray, banners>>

(* Defect: only the leaver hears of the end. *)
TellEndToLeaver(f) ==
  /\ At(f, "tellEnd") /\ Continue(f) /\ ToUsers({flow[f].user}, Msg("ended", flow[f].call, FALSE))
  /\ muddled' = (muddled \/ Active # {})
  /\ UNCHANGED <<call, room, share, page, uploads, answered, stray, banners>>

EndCall(f) ==
  /\ At(f, "leaveEnd") /\ Continue(f)
  /\ call' = [call EXCEPT ![flow[f].call] = [@ EXCEPT !.state = "ended", !.rec = FALSE]]
  /\ UNCHANGED <<room, share, page, mail, uploads, answered, muddled, stray, banners>>

TellEnd(f) ==
  /\ At(f, "tellEnd") /\ Continue(f) /\ ToChannel(Msg("ended", flow[f].call, FALSE))
  /\ muddled' = (muddled \/ Active # {})
  /\ UNCHANGED <<call, room, share, page, uploads, answered, stray, banners>>

(* A request that fails on its way or dies at an await. *)
Fail(f) ==
  /\ flow[f].plan # <<>> /\ Bounded /\ failures < MaxFailures /\ failures' = failures + 1
  /\ flow' = [flow EXCEPT ![f] = AfterFailure(f)]
  /\ muddled' = (muddled \/ Head(flow[f].plan) \in {"tellStart", "tellEnd"})
  /\ UNCHANGED <<call, room, share, page, mail, uploads, clicks, answered, stray, banners>>

---------------------------------------------------------------------------
(* What a page does with the next event.                                   *)

(* The end of any call of the channel clears its banner and its ring. *)
Shown(p, m) ==
  CASE m.ev = "started" -> [p EXCEPT !.banner = m.call]
    [] m.ev = "ended"   -> [p EXCEPT !.banner = None, !.ring = None]
    [] m.ev = "ring"    -> IF p.overlay = None THEN [p EXCEPT !.ring = m.call] ELSE p
    [] m.ev = "stop"    -> IF p.ring = m.call THEN [p EXCEPT !.ring = None] ELSE p
    [] m.ev = "recording" -> IF p.overlay = m.call THEN [p EXCEPT !.badge = m.flag] ELSE p

(* A recorder whose recording somebody else stopped is flushed. *)
Flushes(u) == LET m == Head(mail[u]) IN
  m.ev = "recording" /\ ~m.flag /\ page[u].overlay = m.call /\ page[u].take # 0

Announces(m) == m.ev \in {"started", "ended"}

(* It writes the banner's query whether or not a fetch of it is under way. *)
Heard(u, m) ==
  /\ look' = IF Announces(m) /\ look[u].asked THEN [look EXCEPT ![u].passed = TRUE] ELSE look
  /\ misled' = IF Announces(m) THEN misled \ {u} ELSE misled
  /\ mail' = [mail EXCEPT ![u] = Tail(@)]
  /\ UNCHANGED stray

Receive(u) ==
  /\ mail[u] # <<>> /\ ~Flushes(u) /\ Heard(u, Head(mail[u]))
  /\ page' = [page EXCEPT ![u] = Shown(@, Head(mail[u]))]
  /\ UNCHANGED <<call, room, share, flow, uploads, clicks, failures, answered, muddled>>

ReceiveAndFlush(f, u) ==
  /\ mail[u] # <<>> /\ Flushes(u) /\ flow[f].plan = <<>> /\ Heard(u, Head(mail[u]))
  /\ page' = [page EXCEPT ![u] = [Shown(@, Head(mail[u])) EXCEPT !.take = 0]]
  /\ flow' = [flow EXCEPT ![f] = [Idle EXCEPT !.user = u, !.call = page[u].overlay,
                                    !.ref = page[u].take, !.plan = <<"upload">>]]
  /\ UNCHANGED <<call, room, share, uploads, clicks, failures, answered, muddled>>

(* The socket goes down with what is on its way; a reconnection fetches no  *)
(* call, and a prompt whose end is lost waits to be dismissed.              *)
LoseMail(u) ==
  /\ mail[u] # <<>> /\ Bounded /\ failures < MaxFailures /\ failures' = failures + 1
  /\ mail' = [mail EXCEPT ![u] = <<>>]
  /\ look' = [look EXCEPT ![u].passed = look[u].asked]
  /\ misled' = misled \cup {u} /\ stray' = stray \cup ({u} \X ({page[u].ring} \cap Call))
  /\ UNCHANGED <<call, room, share, page, flow, uploads, clicks, answered, muddled>>

(* getActive, when the banner is mounted without a fresh answer.           *)
ReadActive(u) ==
  /\ ~look[u].asked /\ Bounded /\ clicks' = clicks + 1
  /\ \E c \in IF Active = {} THEN {None} ELSE Active :
       look' = [look EXCEPT ![u] = [asked |-> TRUE, answer |-> c, passed |-> FALSE]]
  /\ UNCHANGED <<call, room, share, page, mail, flow, uploads, failures,
                 answered, muddled, misled, stray>>

(* The answer is shown when it comes, over what the events said meanwhile. *)
TakeActive(u) ==
  /\ look[u].asked /\ look' = [look EXCEPT ![u] = NoLook]
  /\ page' = [page EXCEPT ![u].banner = look[u].answer]
  /\ misled' = IF ~look[u].passed THEN misled \ {u}
               ELSE IF look[u].answer = page[u].banner THEN misled ELSE misled \cup {u}
  /\ UNCHANGED <<call, room, share, mail, flow, uploads, clicks, failures,
                 answered, muddled, stray>>

---------------------------------------------------------------------------
Click(f, u) ==
  \/ StartCall(f, u) \/ Accept(f, u) \/ PressDecline(f, u)
  \/ StartRecording(f, u) \/ StopRecording(f, u)
  \/ \E zero \in BOOLEAN : HangUp(f, u, zero)
  \/ \E v \in User : PressGrant(f, u, v)

Serve(f) ==
  \/ Find(f) \/ Create(f) \/ TellStart(f) \/ RingDirectMessage(f) \/ JoinAnswered(f) \/ Decline(f)
  \/ GrantScreenshare(f) \/ CheckRecording(f) \/ SetRecording(f) \/ TellRecording(f) \/ Record(f)
  \/ UploadRecording(f) \/ Leave(f) \/ EndCall(f) \/ TellEnd(f) \/ Fail(f)

CallsNext ==
  \/ \E f \in Flow : Serve(f) \/ \E u \in User : Click(f, u) \/ ReceiveAndFlush(f, u)
  \/ \E u \in User : Receive(u) \/ Dismiss(u) \/ LoseMail(u) \/ ReadActive(u) \/ TakeActive(u)

CallsSpec == CallsInit /\ [][CallsNext]_vars

---------------------------------------------------------------------------
(* Properties.                                                             *)

Quiet == (\A f \in Flow : flow[f].plan = <<>>) /\ (\A u \in User : mail[u] = <<>>)

(* What a recorder captured is posted at most once, though the button, the *)
(* broadcast of somebody else's stop and the hang-up may all flush it      *)
(* (CallOverlay.tsx:51-99, calls.service.ts:281-315).                      *)
RecordingPostedOnce == \A t \in Take : uploads[t] <= 1

(* When all is delivered every page shows the channel's active call in its  *)
(* banner and no other (CallBanner.tsx:13-20, AppShell.tsx:176-182).         *)
(* Exempt are behaviours in which a second call was created beside an       *)
(* active one, a start was announced after its call's end or an end while   *)
(* a call was active (CallEnded names the call and the page ignores which), *)
(* or the request that had one to announce died; and, until it hears the    *)
(* next announcement or a fetch that none overtook, a page that took an old *)
(* answer over an announcement, or whose socket went down with its mail:    *)
(* the reconnection of AppShell.tsx:267-272 fetches no call.                *)
BannerAgrees ==
  Quiet /\ ~muddled => \A u \in User \ misled :
    page[u].banner \in (IF Active = {} THEN {None} ELSE Active)

(* "Joining/accepting an existing call - stop it ringing on every device"   *)
(* (calls.service.ts:124): when all is delivered a page rings only for a    *)
(* call that goes on and that nobody has answered.  Exempt are the          *)
(* behaviours above, a ring sent after its call's answer or end, and a      *)
(* prompt that was up when the socket went down with the page's mail.       *)
RingsUnanswered ==
  Quiet /\ ~muddled => \A u \in User : \A c \in Call :
    page[u].ring = c => c \in Active \ answered \/ <<u, c>> \in stray

(* "Everyone in the call sees a red REC indicator" (calls.service.ts:253): *)
(* when all is delivered and a page of a call records, every page of that  *)
(* call shows the badge.                                                   *)
EveryoneSeesRecording ==
  Quiet => \A u, v \in User :
    page[u].take # 0 /\ page[v].overlay = page[u].overlay => page[v].badge
=============================================================================
