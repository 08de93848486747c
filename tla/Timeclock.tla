------------------------------ MODULE Timeclock ------------------------------
(***************************************************************************)
(* TimeclockService: an append-only log of clock events, and two ways of    *)
(* adding it up: me() for today, history() per UTC day.  Times are ticks,   *)
(* DayLength of them a day.  The widget of a page offers the actions that   *)
(* fit the status it last fetched; TimeclockUpdate makes it fetch again, if  *)
(* its socket is up, and so does a timer; a reconnection does not.          *)
(***************************************************************************)
EXTENDS Requests, Sequences

CONSTANTS DayLength, MaxTime, HistoryDays

ClockKind == {"clock_in", "break_start", "break_end", "clock_out"}

ASSUME TimeclockAssumption ==
  /\ DayLength \in Nat \ {0} /\ MaxTime \in Nat /\ HistoryDays \in Nat \ {0}
  /\ None \notin ClockKind

VARIABLES now,          \* the server's clock
          events,       \* the WorkClockEvent rows of each user, oldest first
          clockShown,   \* the status each user's widget shows
          clockFetch,   \* the fetch each widget has under way: none, asked, or its answer
          doubled,      \* history: users who acted twice at once
          clockBehind   \* history: widgets that took an old answer, or were not told of a
                        \* change of their user's and have not fetched since

timeclockVars == <<now, events, clockShown, clockFetch, doubled, clockBehind>>

EventRecord == [at : 0 .. MaxTime, kind : ClockKind]
Statuses == {"off", "working", "break"}

StatusAfter(kind) == CASE kind \in {"clock_in", "break_end"} -> "working"
                       [] kind = "break_start" -> "break"
                       [] OTHER -> "off"

(* Defect: one may clock in again while at work. *)
ValidFromLoose(kind) == CASE kind = "clock_in"    -> {"off", "working"}
                          [] kind = "break_start" -> {"working"}
                          [] kind = "break_end"   -> {"break"}
                          [] kind = "clock_out"   -> {"working", "break"}

ValidFrom(kind) == CASE kind = "clock_in"    -> {"off"}
                     [] kind = "break_start" -> {"working"}
                     [] kind = "break_end"   -> {"break"}
                     [] kind = "clock_out"   -> {"working", "break"}

(* The buttons of the widget. *)
Offered(status) == CASE status = "off"     -> {"clock_in"}
                     [] status = "working" -> {"break_start", "clock_out"}
                     [] status = "break"   -> {"break_end", "clock_out"}

TimeclockTypeOK ==
  /\ now \in 0 .. MaxTime /\ doubled \cup clockBehind \subseteq User
  /\ clockShown \in [User -> Statuses] /\ clockFetch \in [User -> Statuses \cup {"none", "asked"}]
  /\ \A u \in User : \A i \in 1 .. Len(events[u]) :
       events[u][i] \in EventRecord /\ (i > 1 => events[u][i - 1].at <= events[u][i].at)

TimeclockInit ==
  /\ now = 0 /\ events = [u \in User |-> <<>>] /\ clockShown = [u \in User |-> "off"]
  /\ clockFetch = [u \in User |-> "none"] /\ doubled = {} /\ clockBehind = {}

(* lastEvent, of all events or of those before a time: a log is in the     *)
(* order of its times.                                                     *)
CountBefore(log, t) == Cardinality({j \in 1 .. Len(log) : log[j].at < t})
KindAt(log, i) == IF i = 0 THEN None ELSE log[i].kind
KindBefore(log, t) == KindAt(log, CountBefore(log, t))

Status(u) == StatusAfter(KindBefore(events[u], MaxTime + 1))

(* A request between its check and its insert. *)
Acting(h, u) == proc[h].pc = "clock" /\ proc[h].user = u

(* act() reads the last event, then appends. *)
BeginAct(h, u, kind) ==
  /\ kind \in Offered(clockShown[u]) /\ Status(u) \in ValidFrom(kind)
  /\ Begin(h, "clock", u, None, kind)
  /\ doubled' = IF \E g \in Handler : Acting(g, u)
                THEN doubled \cup {u} ELSE doubled
  /\ UNCHANGED <<now, events, clockShown, clockFetch, clockBehind>>

(* Defect: an event that no page hears of. *)
ActSilently(h) ==
  /\ At(h, "clock")
  /\ events' = [events EXCEPT ![proc[h].user] =
                  Append(@, [at |-> now, kind |-> proc[h].seen])]
  /\ Goto(h, "clockMe") /\ UNCHANGED <<now, clockShown, clockFetch, doubled, clockBehind>>

Act(h) ==
  /\ At(h, "clock")
  /\ events' = [events EXCEPT ![proc[h].user] =
                  Append(@, [at |-> now, kind |-> proc[h].seen])]
  /\ Goto(h, "clockTell") /\ UNCHANGED <<now, clockShown, clockFetch, doubled, clockBehind>>

(* TimeclockUpdate reaches the pages whose socket is up; it drops the fetch *)
(* they have under way and starts another.  What a page shows is its own    *)
(* user's status, so the pages of the others are left out.                 *)
TellClock(h) ==
  /\ At(h, "clockTell")
  /\ \/ clockFetch' = [clockFetch EXCEPT ![proc[h].user] = "asked"] /\ UNCHANGED clockBehind
     \/ clockBehind' = clockBehind \cup {proc[h].user} /\ UNCHANGED clockFetch
  /\ Goto(h, "clockMe") /\ UNCHANGED <<now, events, clockShown, doubled>>

(* Between the insert and the broadcast, no one is told. *)
ActDies(h) ==
  /\ Die(h)
  /\ clockBehind' = IF proc[h].pc = "clockTell" THEN clockBehind \cup {proc[h].user}
                                                ELSE clockBehind
  /\ UNCHANGED <<now, events, clockShown, clockFetch, doubled>>

(* The answer is me(), read after the event, and shown however old it is. *)
AnswerMe(h) ==
  /\ At(h, "clockMe") /\ GotoWith(h, "clockShow", Status(proc[h].user))
  /\ UNCHANGED timeclockVars

ShowAnswer(h) ==
  LET u == proc[h].user IN
  /\ At(h, "clockShow") /\ clockShown' = [clockShown EXCEPT ![u] = proc[h].seen]
  /\ clockBehind' = IF proc[h].seen # Status(u) THEN clockBehind \cup {u}
                    ELSE IF clockFetch[u] \in Statuses THEN clockBehind
                    ELSE clockBehind \ {u}
  /\ Finish(h) /\ UNCHANGED <<now, events, clockFetch, doubled>>

(* The query, when it is invalidated or its minute is over (left out where  *)
(* it finds what is shown and no event is coming).  A fetch that was read is *)
(* shown when it arrives, even over a newer answer.                        *)
ReadClock(u) ==
  /\ \/ clockFetch[u] = "asked"
     \/ clockFetch[u] = "none" /\ (clockShown[u] # Status(u) \/ \E h \in Handler : Acting(h, u))
  /\ clockFetch' = [clockFetch EXCEPT ![u] = Status(u)]
  /\ UNCHANGED <<now, events, clockShown, doubled, clockBehind, requestVars>>

TakeClock(u) ==
  /\ clockFetch[u] \in Statuses /\ clockFetch' = [clockFetch EXCEPT ![u] = "none"]
  /\ clockShown' = [clockShown EXCEPT ![u] = clockFetch[u]]
  /\ clockBehind' = IF clockFetch[u] = Status(u) THEN clockBehind \ {u} ELSE clockBehind
  /\ UNCHANGED <<now, events, doubled, requestVars>>

Tick ==
  /\ now < MaxTime /\ now' = now + 1
  /\ UNCHANGED <<events, clockShown, clockFetch, doubled, clockBehind, requestVars>>

---------------------------------------------------------------------------
Day(t) == t \div DayLength
StartOfDay(d) == d * DayLength
Least(a, b) == IF a < b THEN a ELSE b

Tally(sum, status, from, to) ==
  [sum EXCEPT !.worked = @ + (IF status = "working" THEN to - from ELSE 0),
              !.pause  = @ + (IF status = "break" THEN to - from ELSE 0)]

(* Both totals walk over the events from a time on, with a cursor and a    *)
(* status; Add is what an event and the stretch before it add to the sum.  *)
Walk(log, from, zero, Add(_, _, _, _)) ==
  LET k == CountBefore(log, from)
      walk[i \in k .. Len(log)] ==
        IF i = k THEN [sum |-> zero, cursor |-> from, status |-> StatusAfter(KindAt(log, k))]
        ELSE LET w == walk[i - 1] IN
             [sum |-> Add(w.sum, w.status, w.cursor, log[i]), cursor |-> log[i].at,
              status |-> StatusAfter(log[i].kind)]
  IN walk[Len(log)]

(* me(): the events of today. *)
AddStretch(sum, status, cursor, e) == Tally(sum, status, cursor, e.at)

Me(u) ==
  LET end == Walk(events[u], StartOfDay(Day(now)), [worked |-> 0, pause |-> 0], AddStretch)
  IN Tally(end.sum, end.status, end.cursor, now)

(* Defect: an interval is booked on the day it begins. *)
AddIntervalWhole(days, status, from, to) ==
  [d \in DOMAIN days |-> IF d = Day(from) THEN Tally(days[d], status, from, to) ELSE days[d]]

(* addInterval splits [from, to) at the midnights within it. *)
AddInterval(days, status, from, to) ==
  [d \in DOMAIN days |->
     LET a == IF from > StartOfDay(d) THEN from ELSE StartOfDay(d)
         b == Least(to, StartOfDay(d + 1))
     IN IF a < b THEN Tally(days[d], status, a, b) ELSE days[d]]

(* history(): the events of a range of days, a bucket for each; a day also *)
(* keeps its first clock-in and its last clock-out.                        *)
RangeStart == IF Day(now) + 1 > HistoryDays THEN StartOfDay(Day(now) + 1 - HistoryDays) ELSE 0

MarkInOut(days, e) ==
  [days EXCEPT ![Day(e.at)] =
     [@ EXCEPT !.firstIn = IF e.kind = "clock_in" /\ @ = None THEN e.at ELSE @,
               !.lastOut = IF e.kind = "clock_out" THEN e.at ELSE @]]

AddEvent(days, status, cursor, e) == MarkInOut(AddInterval(days, status, cursor, e.at), e)

History(u) ==
  LET empty == [worked |-> 0, pause |-> 0, firstIn |-> None, lastOut |-> None]
      end == Walk(events[u], RangeStart, [d \in Day(RangeStart) .. Day(now) |-> empty], AddEvent)
  IN AddInterval(end.sum, end.status, end.cursor, now)

---------------------------------------------------------------------------
TimeclockNext ==
  \/ \E h \in Handler :
       \/ \E u \in User, kind \in ClockKind : BeginAct(h, u, kind)
       \/ Act(h) \/ TellClock(h) \/ ActDies(h) \/ AnswerMe(h) \/ ShowAnswer(h)
  \/ Tick \/ \E u \in User : ReadClock(u) \/ TakeClock(u)

TimeclockSpec == RequestsInit /\ TimeclockInit /\ [][TimeclockNext]_<<requestVars, timeclockVars>>

(* The log of a user is a legal sequence of clock events, each one that a   *)
(* widget up to date would have offered, however old the widget was it came *)
(* from, unless he acted twice at once                                     *)
(* (timeclock.service.ts:56-70 checks and appends in two statements).      *)
ClockSequence ==
  \A u \in User \ doubled : \A i \in 1 .. Len(events[u]) :
    LET before == IF i = 1 THEN None ELSE events[u][i - 1].kind
    IN events[u][i].kind \in Offered(StatusAfter(before))

(* The buttons of a widget are the actions the service would accept: the   *)
(* two tables agree (Timeclock.tsx:76-120, timeclock.service.ts:28-33), and *)
(* the status shown is the user's, once no event of his is between its row  *)
(* and its broadcast and no fetch is under way, although answers, fetches   *)
(* and events overtake each other.  Exempt, until a fetch or an answer that *)
(* is up to date is shown: a widget not told of its user's event, because   *)
(* its socket was down (AppShell.tsx:267-272 does not fetch the clock) or    *)
(* the request died before the broadcast (timeclock.service.ts:62-66), and  *)
(* one that took an old answer after a newer fetch (Timeclock.tsx:44).      *)
WidgetOffersLegalActions ==
  \A u \in User \ clockBehind :
    \/ clockFetch[u] # "none" \/ \E h \in Handler : At(h, "clockTell") /\ proc[h].user = u
    \/ Offered(clockShown[u]) = {kind \in ClockKind : Status(u) \in ValidFrom(kind)}

(* The units of time of a day at which the last event left a status.       *)
Units(log, from, to, d, status) ==
  {t \in from .. to - 1 : Day(t) = d /\ StatusAfter(KindBefore(log, t + 1)) = status}

(* A unit of time counts as work or break by the last event at or before   *)
(* it: the day totals count every unit once, in its own day, "intervals    *)
(* spanning midnight are split across day buckets"                         *)
(* (timeclock.service.ts:113-114), whatever the log, and me() agrees with  *)
(* the history of today.                                                   *)
TotalsAddUp ==
  \A u \in User :
    LET days == History(u)
        Booked(d, status) == Cardinality(Units(events[u], RangeStart, now, d, status))
    IN /\ \A d \in DOMAIN days : /\ days[d].worked = Booked(d, "working")
                                 /\ days[d].pause = Booked(d, "break")
       /\ Me(u).worked = days[Day(now)].worked /\ Me(u).pause = days[Day(now)].pause
=============================================================================
