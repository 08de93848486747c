------------------------------- MODULE Profile -------------------------------
(***************************************************************************)
(* The profile of one user: ProfileController's writes, the avatar kept in  *)
(* two places (an object under the user's one key, a url in his row), the   *)
(* page of that user with its profile modal and its focus timer, and the    *)
(* directory another page caches.  A UserUpdated event says only that the   *)
(* directory is to be fetched again.                                       *)
(***************************************************************************)
EXTENDS Requests

VARIABLES profile,   \* the User row
          object,    \* the avatar object exists in the bucket
          announced,     \* a UserUpdated is on its way to the other page
          directory, \* the user as the other page has him
          fetched,   \* the answer on its way to the other page
          stale,     \* the other page has to fetch its directory
          mine,      \* the user as his own page has him
          modal,     \* the status in the fields of his profile modal
          timer,     \* the end of focus mode in the page's storage
          dashboard, \* what the mounted dashboard knows of the timer
          torn,      \* history: avatar requests overlapped, or a removal died half-way
          untold,    \* history: a change the other page has not heard of
          unwatched  \* history: focus mode ended, or began, without its timer

profileVars == <<profile, object, announced, directory, fetched, stale, mine, modal, timer,
                 dashboard, torn, untold, unwatched>>
profilePages == <<directory, fetched, stale, mine, modal, timer, dashboard, unwatched>>

StatusText == {"none", "own", "focus"}
ProfileRecord == [avatar : BOOLEAN, status : StatusText]
Timer == {"none", "running", "due"}

ASSUME ProfileAssumption == None \notin ProfileRecord \cup StatusText \cup Timer

ProfileTypeOK ==
  /\ profile \in ProfileRecord /\ mine \in ProfileRecord /\ directory \in ProfileRecord
  /\ fetched \in ProfileRecord \cup {None} /\ modal \in StatusText \cup {None}
  /\ timer \in Timer /\ dashboard \in Timer \cup {None}
  /\ {object, announced, stale, torn, untold, unwatched} \subseteq BOOLEAN
  /\ dashboard \in {"running", "due"} => dashboard = timer

ProfileInit ==
  /\ profile = [avatar |-> FALSE, status |-> "none"] /\ object = FALSE
  /\ announced = FALSE /\ directory = profile /\ fetched = None /\ stale = FALSE
  /\ mine = profile /\ modal = None /\ timer = "none" /\ dashboard = None
  /\ torn = FALSE /\ untold = FALSE /\ unwatched = FALSE

---------------------------------------------------------------------------
(* What the user's page sends.  ref says for whom the answer is.            *)

AvatarRequests == {h \in Handler : proc[h].pc \in {"put", "url", "delete", "clear"}}
Patches        == {h \in Handler : At(h, "patch")}

BeginPatch(h, by, text) ==
  /\ Begin(h, "patch", None, [by |-> by, text |-> text], None)
  /\ UNCHANGED <<profile, object, announced, directory, fetched, stale, mine, torn, untold>>

(* The modal takes its fields from what the page knew when it was opened.   *)
OpenModal ==
  /\ modal = None /\ modal' = mine.status
  /\ UNCHANGED <<profile, object, announced, directory, fetched, stale, mine, timer, dashboard,
                 torn, untold, unwatched, requestVars>>

CloseModal ==
  /\ modal # None /\ modal' = None
  /\ UNCHANGED <<profile, object, announced, directory, fetched, stale, mine, timer, dashboard,
                 torn, untold, unwatched, requestVars>>

SaveModal(h) ==
  /\ modal # None
  /\ \E text \in {modal, "own", "none"} :
       /\ BeginPatch(h, "modal", text)
       /\ unwatched' = (unwatched \/ text = "focus" \/ Patches # {})
  /\ UNCHANGED <<modal, timer, dashboard>>

ChangeAvatar(h) ==
  /\ modal # None /\ \E pc \in {"put", "delete"} : Begin(h, pc, None, [by |-> "modal", text |-> "none"], None)
  /\ torn' = (torn \/ AvatarRequests # {})
  /\ UNCHANGED <<profile, object, announced, profilePages, untold>>

(* HomeDashboard's focus mode: a status, and a timer that takes it back.    *)
StartFocus(h) ==
  /\ dashboard = "none" /\ BeginPatch(h, "dashboard", "focus")
  /\ timer' = "running" /\ dashboard' = "running"
  /\ unwatched' = (unwatched \/ Patches # {}) /\ UNCHANGED modal

(* By the button, or by the interval once the time is over. *)
EndFocus(h) ==
  /\ dashboard \in {"running", "due"} /\ BeginPatch(h, "dashboard", "none")
  /\ timer' = "none" /\ dashboard' = "none"
  /\ unwatched' = (unwatched \/ Patches # {}) /\ UNCHANGED modal

(* The sidebar's focus mode sets the status and no timer. *)
FocusMode(h) ==
  /\ BeginPatch(h, "sidebar", "focus") /\ unwatched' = TRUE /\ UNCHANGED <<modal, timer, dashboard>>

OpenDashboard ==
  /\ dashboard = None /\ dashboard' = IF timer = "running" THEN "running" ELSE "none"
  /\ UNCHANGED <<profile, object, announced, directory, fetched, stale, mine, modal, timer,
                 torn, untold, unwatched, requestVars>>

CloseDashboard ==
  /\ dashboard # None /\ dashboard' = None
  /\ unwatched' = (unwatched \/ dashboard = "due")
  /\ UNCHANGED <<profile, object, announced, directory, fetched, stale, mine, modal, timer,
                 torn, untold, requestVars>>

(* The end of the focus time; a dashboard opened later forgets it.          *)
FocusTimePasses ==
  /\ timer = "running" /\ timer' = "due"
  /\ dashboard' = IF dashboard = "running" THEN "due" ELSE dashboard
  /\ unwatched' = (unwatched \/ dashboard # "running")
  /\ UNCHANGED <<profile, object, announced, directory, fetched, stale, mine, modal, torn, untold,
                 requestVars>>

---------------------------------------------------------------------------
(* What the API does. *)

UpdateProfile(h) ==
  /\ At(h, "patch") /\ profile' = [profile EXCEPT !.status = proc[h].ref.text]
  /\ Goto(h, "broadcast") /\ UNCHANGED <<object, announced, profilePages, torn, untold>>

PutObject(h) ==
  /\ At(h, "put") /\ object' = TRUE /\ Goto(h, "url")
  /\ UNCHANGED <<profile, announced, profilePages, torn, untold>>

(* The bucket's errors are swallowed. *)
DeleteObject(h) ==
  /\ At(h, "delete") /\ object' \in {FALSE, object} /\ Goto(h, "clear")
  /\ UNCHANGED <<profile, announced, profilePages, torn, untold>>

(* Defect: the row keeps its url. *)
KeepUrl(h) ==
  /\ proc[h].pc \in {"url", "clear"}
  /\ profile' = [profile EXCEPT !.avatar = @ \/ At(h, "url")]
  /\ Goto(h, "broadcast") /\ UNCHANGED <<object, announced, profilePages, torn, untold>>

SetUrl(h) ==
  /\ proc[h].pc \in {"url", "clear"} /\ profile' = [profile EXCEPT !.avatar = At(h, "url")]
  /\ Goto(h, "broadcast") /\ UNCHANGED <<object, announced, profilePages, torn, untold>>

ReadProfile(h) ==
  /\ At(h, "broadcast") /\ GotoWith(h, "tell", profile) /\ UNCHANGED profileVars

Tell(h) ==
  /\ At(h, "tell") /\ announced' = TRUE /\ Goto(h, "answer")
  /\ UNCHANGED <<profile, object, profilePages, torn, untold>>

(* applyUser, setStatus and focusMode.  A dashboard shows what it asked for, *)
(* answered or not.                                                        *)
Apply(by, text, record) ==
  /\ mine' = IF by = "modal" /\ record # None THEN record
             ELSE IF by = "dashboard" \/ record # None THEN [mine EXCEPT !.status = text]
             ELSE mine
  /\ UNCHANGED <<directory, fetched, stale, timer, dashboard>>

TakeProfile(h) ==
  LET ref == proc[h].ref IN
  /\ At(h, "answer") /\ Apply(ref.by, ref.text, proc[h].seen)
  /\ modal' \in IF ref.by = "modal" THEN {None, modal} ELSE {modal}
  /\ Finish(h) /\ UNCHANGED <<profile, object, announced, torn, untold, unwatched>>

ProfileDies(h) ==
  /\ Die(h) /\ Apply(proc[h].ref.by, proc[h].ref.text, None)
  /\ torn' = (torn \/ At(h, "clear"))
  /\ untold' = (untold \/ proc[h].pc \in {"broadcast", "tell"})
  /\ unwatched' = (unwatched \/ At(h, "patch"))
  /\ UNCHANGED <<profile, object, announced, modal>>

---------------------------------------------------------------------------
(* The other page.  An invalidation gives up a fetch that is under way.     *)

OnUserUpdated ==
  /\ announced /\ announced' = FALSE /\ stale' = TRUE /\ fetched' = None
  /\ UNCHANGED <<profile, object, directory, mine, modal, timer, dashboard, torn, untold,
                 unwatched, requestVars>>

(* A page that was cut off fetches its channels again, not its directory.   *)
LoseEvent ==
  /\ announced /\ announced' = FALSE /\ untold' = TRUE
  /\ UNCHANGED <<profile, object, profilePages, torn, requestVars>>

FetchUsers ==
  /\ stale /\ stale' = FALSE /\ fetched' = profile /\ untold' = FALSE
  /\ UNCHANGED <<profile, object, announced, directory, mine, modal, timer, dashboard, torn,
                 unwatched, requestVars>>

TakeUsers ==
  /\ fetched # None /\ directory' = fetched /\ fetched' = None
  /\ UNCHANGED <<profile, object, announced, stale, mine, modal, timer, dashboard, torn, untold,
                 unwatched, requestVars>>

---------------------------------------------------------------------------
ProfileModal(h)  == OpenModal \/ CloseModal \/ SaveModal(h) \/ ChangeAvatar(h)
HomeDashboard(h) == OpenDashboard \/ CloseDashboard \/ StartFocus(h) \/ EndFocus(h)
ProfileController(h) ==
  \/ UpdateProfile(h) \/ PutObject(h) \/ DeleteObject(h) \/ SetUrl(h)
  \/ ReadProfile(h) \/ Tell(h)

ProfileNext ==
  \/ \E h \in Handler :
       \/ ProfileModal(h) \/ HomeDashboard(h) \/ FocusMode(h)
       \/ ProfileController(h) \/ TakeProfile(h) \/ ProfileDies(h)
  \/ FocusTimePasses
  \/ OnUserUpdated \/ LoseEvent \/ FetchUsers \/ TakeUsers

ProfileSpec == RequestsInit /\ ProfileInit /\ [][ProfileNext]_<<requestVars, profileVars>>

(* A profile with an avatar url has the object behind it                   *)
(* (profile.controller.ts:82-97), unless two avatar requests overlapped or  *)
(* a removal died between the object and the row.                          *)
AvatarServed ==
  AvatarRequests = {} /\ ~torn /\ profile.avatar => object

(* Once all is quiet the other page has the user as he is, unless a request *)
(* died between its write and its broadcast or the event was lost with the  *)
(* socket (profile.controller.ts:37-54, AppShell.tsx:217-224).               *)
DirectoryCurrent ==
  AllIdle /\ ~announced /\ ~stale /\ fetched = None /\ ~untold => directory = profile

(* "Focus mode: timed busy status that auto-reverts" (HomeDashboard.tsx:52): *)
(* the status outlives its timer only when the dashboard was not mounted at *)
(* the end of the time, the timer was never set, the modal saved the status *)
(* anew, two of these writes crossed or one was lost.                       *)
FocusReverts ==
  AllIdle /\ profile.status = "focus" /\ ~unwatched => timer # "none"

ProfileRight == AvatarServed /\ DirectoryCurrent /\ FocusReverts
=============================================================================
