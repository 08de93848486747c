------------------------------ MODULE Planner ------------------------------
(***************************************************************************)
(* Tasks and calendar events, and the lists of them a page shows (the       *)
(* modals and the home dashboard).  A handler looks the row up, checks and  *)
(* writes it by id, so that the row may be gone in between; the page        *)
(* refetches the list concerned after each call of its own, failed or not.  *)
(* Nobody listens to TaskUpdate and events are not announced at all: what   *)
(* others do shows with the next fetch.                                     *)
(***************************************************************************)
EXTENDS Requests

CONSTANTS Task, Event

VARIABLES task,    \* the Task rows
          event,   \* the CalendarEvent rows with their EventAttendee rows
          planned,  \* what the page of each user lists
          unseen   \* history: lists of pages another user has changed something under

plannerVars == <<task, event, planned, unseen>>

TaskRecord == [state : {"none", "open", "gone"}, creator : User \cup {None},
               assignee : User \cup {None}, shared : BOOLEAN, done : BOOLEAN]
List == {"tasks", "events"}
Reply == {"none", "pending", "accepted", "declined"}
CalendarRecord == [state : {"none", "open", "gone"}, creator : User \cup {None},
                reply : [User -> Reply]]

(* An organizer attends. *)
PlannerTypeOK ==
  /\ task \in [Task -> TaskRecord] /\ event \in [Event -> CalendarRecord]
  /\ planned \in [User -> [tasks : SUBSET (Task \X BOOLEAN), events : SUBSET (Event \X [User -> Reply])]]
  /\ unseen \subseteq User \X List
  /\ \A e \in Event : event[e].state # "none" => event[e].reply[event[e].creator] # "none"

PlannerInit ==
  /\ task = [t \in Task |-> [state |-> "none", creator |-> None, assignee |-> None,
                             shared |-> FALSE, done |-> FALSE]]
  /\ event = [e \in Event |-> [state |-> "none", creator |-> None,
                               reply |-> [u \in User |-> "none"]]]
  /\ planned = [u \in User |-> [tasks |-> {}, events |-> {}]] /\ unseen = {}

(* listMine: assigned to the user, or personal and his. *)
Mine(u) == {t \in Task : /\ task[t].state = "open"
                         /\ \/ task[t].assignee = u
                            \/ task[t].creator = u /\ ~task[t].shared}
MyTasks(u) == {<<t, task[t].done>> : t \in Mine(u)}
Calendar   == {<<e, event[e].reply>> : e \in {e \in Event : event[e].state = "open"}}
Listing(u) == [tasks |-> MyTasks(u), events |-> Calendar]

(* What a write of u leaves on the pages of the others. *)
Behind(u) ==
  unseen' = unseen \cup {<<v, "tasks">> : v \in {w \in User \ {u} : MyTasks(w)' # MyTasks(w)}}
                   \cup {<<v, "events">> : v \in {w \in User \ {u} : Calendar' # Calendar}}

(* The list a call is about is fetched after it. *)
TaskPcs  == {"addTask", "toggle", "removeTask"}
EventPcs == {"createEvent", "respond", "removeEvent"}
RefreshOf(pc) == IF pc \in TaskPcs THEN "refreshTasks" ELSE "refreshEvents"
ToRefresh(h) == Goto(h, RefreshOf(proc[h].pc))

(* A request body: people and a word. *)
Body(who, is) == [who |-> who, is |-> is]

(* The checks of create: in a channel, a member. *)
BeginAddTask(h, u, t, a, shared) ==
  /\ task[t].state = "none" /\ shared => u \in members
  /\ Begin(h, "addTask", u, t, Body({a} \ {None}, IF shared THEN "shared" ELSE "personal"))
  /\ UNCHANGED plannerVars

AddTask(h) ==
  LET t == proc[h].ref  dto == proc[h].seen IN
  /\ At(h, "addTask") /\ task[t].state = "none"
  /\ task' = [task EXCEPT ![t] = [state |-> "open", creator |-> proc[h].user, done |-> FALSE,
       assignee |-> IF dto.who = {} THEN None ELSE CHOOSE a \in dto.who : TRUE,
       shared |-> dto.is = "shared"]]
  /\ UNCHANGED <<event, planned>> /\ Behind(proc[h].user) /\ ToRefresh(h)

(* A shared task is any member's, a personal one its creator's and its     *)
(* assignee's; the latter may not delete it.                               *)
MayTouch(u, t, delete) ==
  IF task[t].shared THEN u \in members
  ELSE task[t].creator = u \/ (task[t].assignee = u /\ ~delete)

(* The box is ticked or unticked by what the page shows. *)
BeginToggle(h, u, t) ==
  /\ task[t].state = "open" /\ MayTouch(u, t, FALSE)
  /\ \E row \in planned[u].tasks : row[1] = t /\ 
       Begin(h, "toggle", u, t, Body({}, IF row[2] THEN "open" ELSE "done"))
  /\ UNCHANGED plannerVars

UpdateTask(h) ==
  LET t == proc[h].ref IN
  /\ At(h, "toggle") /\ task[t].state = "open"
  /\ task' = [task EXCEPT ![t].done = proc[h].seen.is = "done"]
  /\ UNCHANGED <<event, planned>> /\ Behind(proc[h].user) /\ ToRefresh(h)

BeginRemoveTask(h, u, t) ==
  /\ task[t].state = "open" /\ MayTouch(u, t, TRUE) /\ Begin(h, "removeTask", u, t, None)
  /\ UNCHANGED plannerVars

RemoveTask(h) ==
  /\ At(h, "removeTask") /\ task[proc[h].ref].state = "open"
  /\ task' = [task EXCEPT ![proc[h].ref].state = "gone"]
  /\ UNCHANGED <<event, planned>> /\ Behind(proc[h].user) /\ ToRefresh(h)

(* The organizer has accepted, those he invites have to answer.            *)
BeginCreateEvent(h, u, e, guests) ==
  /\ event[e].state = "none" /\ Begin(h, "createEvent", u, e, Body(guests, "invited"))
  /\ UNCHANGED plannerVars

CreateEvent(h) ==
  LET u == proc[h].user  e == proc[h].ref IN
  /\ At(h, "createEvent") /\ event[e].state = "none"
  /\ event' = [event EXCEPT ![e] = [state |-> "open", creator |-> u, reply |->
       [v \in User |-> IF v = u THEN "accepted" ELSE IF v \in proc[h].seen.who THEN "pending"
                                                                        ELSE "none"]]]
  /\ UNCHANGED <<task, planned>> /\ Behind(u) /\ ToRefresh(h)

(* Only those invited answer, again if they like. *)
BeginRespond(h, u, e, status) ==
  /\ event[e].state = "open" /\ event[e].reply[u] # "none" /\ event[e].creator # u
  /\ Begin(h, "respond", u, e, Body({}, status)) /\ UNCHANGED plannerVars

Respond(h) ==
  LET u == proc[h].user  e == proc[h].ref IN
  /\ At(h, "respond") /\ event[e].state = "open"
  /\ event' = [event EXCEPT ![e].reply[u] = proc[h].seen.is]
  /\ UNCHANGED <<task, planned>> /\ Behind(u) /\ ToRefresh(h)

BeginRemoveEvent(h, u, e) ==
  /\ event[e].state = "open" /\ event[e].creator = u /\ Begin(h, "removeEvent", u, e, None)
  /\ UNCHANGED plannerVars

(* The attendees go with the event. *)
RemoveEvent(h) ==
  /\ At(h, "removeEvent") /\ event[proc[h].ref].state = "open"
  /\ event' = [event EXCEPT ![proc[h].ref].state = "gone"]
  /\ UNCHANGED <<task, planned>> /\ Behind(proc[h].user) /\ ToRefresh(h)

(* The row went between the check and the write, the id was taken, or the  *)
(* request died: an error the page swallows.                                *)
Swallow(h) ==
  /\ proc[h].pc \in TaskPcs \cup EventPcs /\ ToRefresh(h) /\ UNCHANGED plannerVars

(* Defect: the calendar is not fetched again. *)
FetchTasks(u, list) == planned' = [planned EXCEPT ![u].tasks = MyTasks(u)]

Fetch(u, list) ==
  planned' = IF list = "tasks" THEN [planned EXCEPT ![u].tasks = MyTasks(u)]
                               ELSE [planned EXCEPT ![u].events = Calendar]

Refresh(h) ==
  \E list \in List :
    /\ At(h, IF list = "tasks" THEN "refreshTasks" ELSE "refreshEvents")
    /\ Fetch(proc[h].user, list) /\ unseen' = unseen \ {<<proc[h].user, list>>}
    /\ Finish(h) /\ UNCHANGED <<task, event>>

(* A modal, or the dashboard, that is opened 30 s after the last fetch of a *)
(* list fetches it.                                                        *)
OpenPlanner(u, list) ==
  /\ Listing(u)[list] # planned[u][list]
  /\ Fetch(u, list) /\ unseen' = unseen \ {<<u, list>>}
  /\ UNCHANGED <<task, event, requestVars>>

TasksNext(h) ==
  \/ \E u \in User, t \in Task :
       \/ \E a \in User \cup {None}, shared \in BOOLEAN : BeginAddTask(h, u, t, a, shared)
       \/ BeginToggle(h, u, t) \/ BeginRemoveTask(h, u, t)
  \/ AddTask(h) \/ UpdateTask(h) \/ RemoveTask(h)

CalendarNext(h) ==
  \/ \E u \in User, e \in Event :
       \/ \E guests \in {{}, User} : BeginCreateEvent(h, u, e, guests)
       \/ \E status \in {"accepted", "declined"} : BeginRespond(h, u, e, status)
       \/ BeginRemoveEvent(h, u, e)
  \/ CreateEvent(h) \/ Respond(h) \/ RemoveEvent(h)

PlannerNext ==
  \/ \E h \in Handler : TasksNext(h) \/ CalendarNext(h) \/ Swallow(h) \/ Refresh(h)
  \/ \E u \in User : \/ \E list \in List : OpenPlanner(u, list)
                    \/ (RemoveFromChannel(u) /\ UNCHANGED plannerVars)

PlannerSpec == RequestsInit /\ PlannerInit /\ [][PlannerNext]_<<requestVars, plannerVars>>

(* Everything a user did himself is in the two lists of his page once his    *)
(* calls about that list are through, failed or not, in whatever order they *)
(* ran (TasksModal.tsx:19-38, CalendarModal.tsx:30-50): what may be missing  *)
(* is another user's change since that list was last fetched.              *)
PlannerListed ==
  \A u \in User, list \in List :
    \/ planned[u][list] = Listing(u)[list] \/ <<u, list>> \in unseen
    \/ \E h \in Handler :
         /\ proc[h].user = u
         /\ proc[h].pc \in IF list = "tasks" THEN TaskPcs \cup {"refreshTasks"}
                                            ELSE EventPcs \cup {"refreshEvents"}
=============================================================================
