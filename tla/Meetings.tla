------------------------------ MODULE Meetings ------------------------------
(***************************************************************************)
(* MeetingsService and the meetings banner.  Every instance of the API      *)
(* polls for due meetings every 30 s; one poll flags and announces them one *)
(* after the other, and a failure ends it.  Polls of two instances, or of   *)
(* one whose first has not finished, overlap; nothing claims a meeting.     *)
(* A page refetches its meetings when an event reaches it, and draws its    *)
(* banner when what it fetched has changed or the pane around it is drawn.  *)
(***************************************************************************)
EXTENDS Requests

CONSTANTS Meeting,
          MaxBatch  \* meetings one poll takes (20)

VARIABLES meeting,   \* the ScheduledMeeting rows
          reminders, \* reminders posted for each meeting
          listed,    \* the meetings each page last fetched
          banner,    \* those its banner shows, as last drawn
          relist,    \* pages told to fetch the meetings again
          readTwice, \* history: meetings two polls held at once
          unheard    \* history: pages an announcement did not reach, and that have not
                     \* fetched since

meetingsVars == <<meeting, reminders, listed, banner, relist, readTwice, unheard>>

MeetingRecord == [state : {"none", "scheduled", "gone"}, by : User \cup {None},
                  due : BOOLEAN, reminded : BOOLEAN]

MeetingsTypeOK ==
  /\ meeting \in [Meeting -> MeetingRecord] /\ reminders \in [Meeting -> 0 .. MaxRequests]
  /\ listed \in [User -> SUBSET Meeting] /\ banner \in [User -> SUBSET Meeting]
  /\ relist \cup unheard \subseteq User /\ readTwice \subseteq Meeting

MeetingsInit ==
  /\ meeting = [m \in Meeting |-> [state |-> "none", by |-> None, due |-> FALSE,
                                   reminded |-> FALSE]]
  /\ reminders = [m \in Meeting |-> 0]
  /\ listed = [u \in User |-> {}] /\ banner = [u \in User |-> {}]
  /\ relist = {} /\ readTwice = {} /\ unheard = {}

Scheduled == {m \in Meeting : meeting[m].state = "scheduled"}
Upcoming  == {m \in Scheduled : ~meeting[m].due}
Due       == {m \in Scheduled : meeting[m].due /\ ~meeting[m].reminded}

(* An event to the channel reaches the pages whose socket is up. *)
Announce(alsoTold) ==
  \E reached \in SUBSET members :
    /\ relist' = relist \cup reached \cup alsoTold
    /\ unheard' = unheard \cup (members \ (reached \cup alsoTold))

(* The modal asks for a time in the future. *)
BeginSchedule(h, u) ==
  u \in members /\ Begin(h, "schedule", u, None, None) /\ UNCHANGED meetingsVars

Schedule(h) ==
  \E m \in Meeting :
    /\ At(h, "schedule") /\ meeting[m].state = "none"
    /\ meeting' = [meeting EXCEPT ![m].state = "scheduled", ![m].by = proc[h].user]
    /\ proc' = [proc EXCEPT ![h].pc = "scheduleTell", ![h].ref = m]
    /\ UNCHANGED <<requests, members, reminders, listed, banner, relist, readTwice, unheard>>

(* The page of the organizer is told by the event, by the answer, or not. *)
TellScheduled(h) ==
  /\ At(h, "scheduleTell") /\ Announce({})
  /\ Finish(h) /\ UNCHANGED <<meeting, reminders, listed, banner, readTwice>>

(* Only the organizer, while a member, may cancel. *)
BeginCancel(h, u, m) ==
  /\ m \in Scheduled /\ u \in members /\ meeting[m].by = u
  /\ Begin(h, "cancel", u, m, None) /\ UNCHANGED meetingsVars

Cancel(h) ==
  /\ At(h, "cancel") /\ proc[h].ref \in Scheduled
  /\ meeting' = [meeting EXCEPT ![proc[h].ref].state = "gone"]
  /\ Goto(h, "cancelTell")
  /\ UNCHANGED <<reminders, listed, banner, relist, readTwice, unheard>>

(* Defect: the pages are not told. *)
CancelSilently(h) ==
  /\ At(h, "cancelTell") /\ Finish(h) /\ UNCHANGED meetingsVars

(* The page that cancelled fetches after its call, whatever came of it.    *)
TellCancelled(h) ==
  /\ At(h, "cancelTell") /\ Announce({proc[h].user})
  /\ Finish(h) /\ UNCHANGED <<meeting, reminders, listed, banner, readTwice>>

CancelLost(h) ==
  /\ At(h, "cancel") /\ proc[h].ref \notin Scheduled
  /\ relist' = relist \cup {proc[h].user}
  /\ Finish(h) /\ UNCHANGED <<meeting, reminders, listed, banner, readTwice, unheard>>

(* A request that dies after its row was written tells no one.             *)
MeetingsDie(h) ==
  /\ Die(h)
  /\ unheard' = IF proc[h].pc \in {"scheduleTell", "cancelTell"} THEN unheard \cup members
                                                                ELSE unheard
  /\ relist' = IF proc[h].pc \in {"cancel", "cancelTell"} THEN relist \cup {proc[h].user}
                                                          ELSE relist
  /\ UNCHANGED <<meeting, reminders, listed, banner, readTwice>>

(* fireDue: what is due is read once, in no particular order. *)
BeginFireDue(h) ==
  \E batch \in (SUBSET Due) \ {{}} :
    /\ Cardinality(batch) <= MaxBatch /\ (batch = Due \/ Cardinality(batch) = MaxBatch)
    /\ Begin(h, "fire", None, None, batch)
    /\ readTwice' = readTwice \cup {m \in batch : \E g \in Handler :
                      proc[g].pc \in {"fire", "remind", "remindTell"} /\ m \in proc[g].seen}
    /\ UNCHANGED <<meeting, reminders, listed, banner, relist, unheard>>

(* Defect: the flag is set after the reminder. *)
SkipFlag(h) ==
  \E m \in Meeting :
    /\ At(h, "fire") /\ m \in proc[h].seen \cap Scheduled
    /\ proc' = [proc EXCEPT ![h].pc = "remind", ![h].ref = m]
    /\ UNCHANGED <<requests, members, meetingsVars>>

(* One meeting of the batch is flagged; one that was cancelled meanwhile   *)
(* makes the update fail, and the rest waits for the next poll.            *)
Flag(h) ==
  \E m \in Meeting :
    /\ At(h, "fire") /\ m \in proc[h].seen \cap Scheduled
    /\ meeting' = [meeting EXCEPT ![m].reminded = TRUE]
    /\ proc' = [proc EXCEPT ![h].pc = "remind", ![h].ref = m]
    /\ UNCHANGED <<requests, members, reminders, listed, banner, relist, readTwice, unheard>>

FlagLost(h) ==
  /\ At(h, "fire") /\ ~(proc[h].seen \subseteq Scheduled)
  /\ Finish(h) /\ UNCHANGED meetingsVars

(* The reminder is a message of the organizer, who may have left since. *)
Remind(h) ==
  LET m == proc[h].ref IN
  /\ At(h, "remind") /\ meeting[m].by \in members
  /\ reminders' = [reminders EXCEPT ![m] = @ + 1] /\ Goto(h, "remindTell")
  /\ UNCHANGED <<meeting, listed, banner, relist, readTwice, unheard>>

RemindLost(h) ==
  /\ At(h, "remind") /\ meeting[proc[h].ref].by \notin members
  /\ Finish(h) /\ UNCHANGED meetingsVars

(* The pages are told, and the poll goes on with the rest of its batch.    *)
TellReminded(h) ==
  LET rest == proc[h].seen \ {proc[h].ref} IN
  /\ At(h, "remindTell") /\ Announce({})
  /\ IF rest = {} THEN Finish(h) ELSE GotoWith(h, "fire", rest)
  /\ UNCHANGED <<meeting, reminders, listed, banner, readTwice>>

TimeComes(m) ==
  /\ m \in Upcoming /\ meeting' = [meeting EXCEPT ![m].due = TRUE]
  /\ UNCHANGED <<reminders, listed, banner, relist, readTwice, unheard, requestVars>>

ToCome(S) == {m \in S : ~meeting[m].due}

(* list() wants a member.  An event drops the fetch that is under way, and  *)
(* nothing else writes what was fetched: to read is to show.  The banner is *)
(* drawn again only if what was fetched differs from what was there.       *)
FetchMeetings(u) ==
  /\ u \in relist \/ listed[u] # Scheduled
  /\ relist' = relist \ {u} /\ unheard' = unheard \ {u}
  /\ IF u \in members /\ listed[u] # Scheduled
     THEN /\ listed' = [listed EXCEPT ![u] = Scheduled]
          /\ banner' = [banner EXCEPT ![u] = ToCome(Scheduled)]
     ELSE UNCHANGED <<listed, banner>>
  /\ UNCHANGED <<meeting, reminders, readTwice, requestVars>>

(* The pane around it is drawn again: the banner leaves out what is due.   *)
Draw(u) ==
  /\ banner[u] # ToCome(listed[u])
  /\ banner' = [banner EXCEPT ![u] = ToCome(listed[u])]
  /\ UNCHANGED <<meeting, reminders, listed, relist, readTwice, unheard, requestVars>>

MeetingsNext ==
  \/ \E h \in Handler :
       \/ \E u \in User : BeginSchedule(h, u)
       \/ \E u \in User, m \in Meeting : BeginCancel(h, u, m)
       \/ Schedule(h) \/ TellScheduled(h) \/ Cancel(h) \/ TellCancelled(h) \/ CancelLost(h)
       \/ BeginFireDue(h) \/ Flag(h) \/ FlagLost(h) \/ Remind(h) \/ RemindLost(h)
       \/ TellReminded(h) \/ MeetingsDie(h)
  \/ \E m \in Meeting : TimeComes(m)
  \/ \E u \in User : FetchMeetings(u) \/ Draw(u)
  \/ \E u \in User : RemoveFromChannel(u) /\ UNCHANGED meetingsVars

MeetingsSpec == RequestsInit /\ MeetingsInit /\ [][MeetingsNext]_<<requestVars, meetingsVars>>

(* A reminder is posted at most once and never before its time, however    *)
(* polls fail, die between the flag and the message, or meet a             *)
(* cancellation (meetings.service.ts:114-135); only a meeting that two     *)
(* overlapping polls had both read is announced twice.                     *)
RemindedOnce ==
  \A m \in Meeting \ readTwice :
    reminders[m] <= 1 /\ (reminders[m] = 1 => meeting[m].due)

(* Somebody is between the row of m and its announcement. *)
Telling(pc, m) == \E h \in Handler : At(h, pc) /\ proc[h].ref = m

(* The banner of a member shows every meeting to come and none that was     *)
(* cancelled, once no change is between its row and its announcement and    *)
(* his page has no fetch to make: MeetingScheduled and MeetingCancelled     *)
(* reach it after every change (AppShell.tsx:192-194).  A meeting whose     *)
(* time has come stays until the banner is drawn again (MeetingsBanner.     *)
(* tsx:24).  Exempt until their next fetch are the pages an announcement    *)
(* did not reach: their socket was down (the reconnection of AppShell.tsx:  *)
(* 267-272 fetches no meetings), or the request died after its row was      *)
(* written (meetings.service.ts:54-67, 108-109).                           *)
BannerShowsUpcoming ==
  \A u \in members \ (relist \cup unheard), m \in Meeting :
    /\ m \in Upcoming => m \in banner[u] \/ Telling("scheduleTell", m)
    /\ m \in banner[u] => m \in Scheduled \/ Telling("cancelTell", m)
=============================================================================
