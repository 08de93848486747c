---------------------------- MODULE ChannelPanel ----------------------------
(***************************************************************************)
(* One channel as its members' pages have it: the row in the cached channel *)
(* list, the members tab of ChannelDetailsPanel, and the requests of its    *)
(* tabs.  A row shows what all members share (the topic stands for the name, *)
(* the policy and the rest; the members for their count) and what is the    *)
(* viewer's own (the star stands for the notify level too).  Every user is  *)
(* taken for one who may manage the channel.  ChannelUpdated carries the    *)
(* row as its sender sees it; a page has its events in order.              *)
(***************************************************************************)
EXTENDS Requests, Sequences

CONSTANT MaxTabs \* bound on the pages with the members tab open

VARIABLES topic,     \* of the Channel row
          belong,    \* its ChannelMember rows
          starred,   \* the members whose row has the star
          shownRow,    \* the channel as each page has it in its list
          tab,       \* the members tab of each page, once it was opened
          inbox,     \* events on their way to each page
          unfetched, \* queries a page has to fetch: <<user, query>>
          answers,   \* the answer on its way for each query
          restless,  \* history: users who asked to change their own settings
          overtaken, \* history: pages that took an old row, or were not told
          cutOff     \* history: pages that lost the events of a member's removal

channelPanelVars == <<topic, belong, starred, shownRow, tab, inbox, unfetched, answers, restless,
                      overtaken, cutOff>>
rows   == <<topic, belong, starred>>
caches == <<shownRow, tab, unfetched, answers>>

Query == {"channels", "members"}
Topic == {"old", "new"}
Summary == [topic : Topic, members : SUBSET User, starred : BOOLEAN]

ASSUME ChannelPanelAssumption ==
  /\ \A row \in Summary : row # None
  /\ \A list \in SUBSET User : list # None

(* toSummary, as the user sees the channel. *)
SummaryFor(u) == [topic |-> topic, members |-> belong, starred |-> u \in starred]

ChannelPanelTypeOK ==
  /\ topic \in Topic /\ starred \cup restless \cup overtaken \cup cutOff \subseteq User
  /\ shownRow \in [User -> Summary \cup {None}] /\ tab \in [User -> (SUBSET User) \cup {None}]
  /\ unfetched \subseteq User \X Query /\ starred \subseteq belong /\ belong \subseteq User

ChannelPanelInit ==
  /\ topic = "old" /\ belong = User /\ starred = {} /\ shownRow = [u \in User |-> SummaryFor(u)]
  /\ tab = [u \in User |-> None] /\ inbox = [u \in User |-> <<>>] /\ unfetched = {}
  /\ answers = [q \in User \X Query |-> <<>>]
  /\ restless = {} /\ overtaken = {} /\ cutOff = {}

(* A member who was removed is in the room until he is told. *)
InRoom == belong \cup {proc[h].ref : h \in {g \in Handler : At(g, "tellLeft")}}

Emit(users, e) ==
  inbox' = [u \in User |-> IF u \in users THEN inbox[u] \o e ELSE inbox[u]]

Updated(summary) == <<[kind |-> "updated", row |-> summary]>>
Plain(kind)      == [kind |-> kind, row |-> None]

---------------------------------------------------------------------------
(* The requests of the panel's tabs, sent by what the page shows.           *)

(* saveBasics sends what differs from the cached row. *)
BeginUpdateChannel(h, u) ==
  /\ u \in belong /\ shownRow[u] # None
  /\ \E text \in Topic \ {shownRow[u].topic} : Begin(h, "update", u, text, None)
  /\ UNCHANGED channelPanelVars

(* Saved and read by one statement; the channel's room is told at once.     *)
UpdateTopic(h) ==
  LET u == proc[h].user IN
  /\ At(h, "update") /\ topic' = proc[h].ref /\ GotoWith(h, "tellUpdate",
       [topic |-> topic', members |-> belong, starred |-> u \in starred])
  /\ UNCHANGED <<belong, starred, inbox, caches, restless, overtaken, cutOff>>

TellUpdate(h) ==
  /\ At(h, "tellUpdate") /\ Emit(InRoom, Updated(proc[h].seen)) /\ Finish(h)
  /\ UNCHANGED <<rows, caches, restless, overtaken, cutOff>>

(* The About tab asks for the opposite of what it shows. *)
BeginMySettings(h, u) ==
  /\ u \in belong /\ shownRow[u] # None
  /\ Begin(h, "star", u, IF shownRow[u].starred THEN "unstar" ELSE "star", None)
  /\ restless' = restless \cup {u}
  /\ UNCHANGED <<rows, inbox, caches, overtaken, cutOff>>

(* Defect: settings are upserted on their own. *)
SetStarAnyway(h) ==
  /\ At(h, "star") /\ starred' = starred \cup {proc[h].user} /\ Goto(h, "tellStar")
  /\ UNCHANGED <<topic, belong, inbox, caches, restless, overtaken, cutOff>>

SetStar(h) ==
  LET u == proc[h].user IN
  /\ At(h, "star") /\ u \in belong
  /\ starred' = IF proc[h].ref = "star" THEN starred \cup {u} ELSE starred \ {u}
  /\ Goto(h, "tellStar") /\ UNCHANGED <<topic, belong, inbox, caches, restless, overtaken, cutOff>>

StarLost(h) ==
  /\ At(h, "star") /\ proc[h].user \notin belong /\ Finish(h) /\ UNCHANGED channelPanelVars

(* The echo to the user's own pages comes before the answer. *)
TellStar(h) ==
  LET u == proc[h].user IN
  /\ At(h, "tellStar") /\ Emit({u}, Updated(SummaryFor(u)))
  /\ GotoWith(h, "starAnswer", SummaryFor(u))
  /\ UNCHANGED <<rows, caches, restless, overtaken, cutOff>>

(* The answer replaces the cached row, and nothing is fetched after it. *)
TakeStar(h) ==
  LET u == proc[h].user IN
  /\ At(h, "starAnswer") /\ Finish(h)
  /\ shownRow' = [shownRow EXCEPT ![u] = IF @ = None THEN None ELSE proc[h].seen]
  /\ overtaken' = IF proc[h].seen # SummaryFor(u) THEN overtaken \cup {u} ELSE overtaken
  /\ UNCHANGED <<rows, tab, inbox, unfetched, answers, restless, cutOff>>

BeginRemoveMember(h, u, t) ==
  /\ {u, t} \subseteq belong /\ shownRow[u] # None /\ (u = t \/ (tab[u] # None /\ t \in tab[u]))
  /\ Begin(h, "remove", u, t, None) /\ UNCHANGED channelPanelVars

DeleteRow(h) ==
  LET t == proc[h].ref IN
  /\ At(h, "remove") /\ t \in belong
  /\ Goto(h, "tellLeft") /\ belong' = belong \ {t} /\ starred' = starred \ {t}
  /\ UNCHANGED <<topic, inbox, caches, restless, overtaken, cutOff>>

RemoveLostRace(h) ==
  /\ At(h, "remove") /\ proc[h].ref \notin belong /\ Finish(h) /\ UNCHANGED channelPanelVars

(* The room is told while the one who leaves is still in it. *)
TellLeft(h) ==
  LET t == proc[h].ref IN
  /\ At(h, "tellLeft")
  /\ inbox' = [u \in User |->
                IF u = t THEN inbox[u] \o <<Plain("left"), Plain("removed")>>
                ELSE IF u \in InRoom THEN Append(inbox[u], Plain("left")) ELSE inbox[u]]
  /\ Goto(h, "removed") /\ UNCHANGED <<rows, caches, restless, overtaken, cutOff>>

(* Nobody is told of what a request wrote before it died. *)
PanelDies(h) ==
  /\ Die(h)
  /\ overtaken' = IF proc[h].pc \in {"tellUpdate", "tellStar", "tellLeft"} THEN User ELSE overtaken
  /\ UNCHANGED <<rows, inbox, caches, restless, cutOff>>

---------------------------------------------------------------------------
(* The page.  An invalidation gives up the fetch that is under way.         *)

Invalidate(u, queries) ==
  /\ unfetched' = unfetched \cup ({u} \X queries)
  /\ answers' = [q \in User \X Query |-> IF q \in {u} \X queries THEN <<>> ELSE answers[q]]

(* Defect: the sender's own fields are taken for the viewer's. *)
OnUpdatedWhole(u, e) ==
  /\ shownRow' = [shownRow EXCEPT ![u] = IF @ = None THEN None ELSE e.row]
  /\ Invalidate(u, {"channels"}) /\ UNCHANGED tab

OnChannelUpdated(u, e) ==
  /\ shownRow' = [shownRow EXCEPT ![u] = IF @ = None THEN None
                                     ELSE [e.row EXCEPT !.starred = shownRow[u].starred]]
  /\ Invalidate(u, {"channels"}) /\ UNCHANGED tab

OnMembersChanged(u) ==
  /\ Invalidate(u, IF tab[u] = None THEN {"channels"} ELSE Query) /\ UNCHANGED <<shownRow, tab>>

OnRemoved(u) ==
  /\ shownRow' = [shownRow EXCEPT ![u] = None] /\ tab' = [tab EXCEPT ![u] = None]
  /\ unfetched' = unfetched \ {<<u, "members">>}
  /\ answers' = [answers EXCEPT ![<<u, "members">>] = <<>>]

TakeEvent(u) ==
  LET e == Head(inbox[u]) IN
  /\ inbox[u] # <<>> /\ inbox' = [inbox EXCEPT ![u] = Tail(@)]
  /\ \/ e.kind = "updated" /\ OnChannelUpdated(u, e)
     \/ e.kind = "left" /\ OnMembersChanged(u)
     \/ e.kind = "removed" /\ OnRemoved(u)
  /\ UNCHANGED <<rows, restless, overtaken, cutOff, requestVars>>

(* A page that was cut off fetches its channels again, not its members tab. *)
LoseEvents(u) ==
  /\ inbox[u] # <<>> /\ inbox' = [inbox EXCEPT ![u] = <<>>]
  /\ Invalidate(u, {"channels"}) /\ UNCHANGED <<rows, shownRow, tab, restless, overtaken, requestVars>>
  /\ cutOff' = IF Plain("left") \in {inbox[u][i] : i \in DOMAIN inbox[u]} THEN cutOff \cup {u} ELSE cutOff

(* The answer to a removal. *)
TakeRemoved(h) ==
  LET u == proc[h].user IN
  /\ At(h, "removed") /\ OnMembersChanged(u) /\ Finish(h)
  /\ UNCHANGED <<rows, inbox, restless, overtaken, cutOff>>

OpenMembersTab(u) ==
  /\ shownRow[u] # None /\ tab[u] = None
  /\ Cardinality({v \in User : tab[v] # None}) < MaxTabs
  /\ tab' = [tab EXCEPT ![u] = {}] /\ Invalidate(u, {"members"})
  /\ UNCHANGED <<rows, shownRow, inbox, restless, overtaken, cutOff, requestVars>>

(* listMine and listMembers, the latter for members only. *)
FetchFor(u, query) ==
  /\ <<u, query>> \in unfetched /\ unfetched' = unfetched \ {<<u, query>>}
  /\ answers' = [answers EXCEPT ![<<u, query>>] =
       IF query = "channels" THEN <<IF u \in belong THEN SummaryFor(u) ELSE None>>
       ELSE IF u \in belong THEN <<belong>> ELSE <<>>]
  /\ UNCHANGED <<rows, shownRow, tab, inbox, restless, overtaken, cutOff, requestVars>>

TakeFetched(u, query) ==
  LET q == <<u, query>> IN
  /\ answers[q] # <<>> /\ answers' = [answers EXCEPT ![q] = <<>>]
  /\ IF query = "channels"
     THEN shownRow' = [shownRow EXCEPT ![u] = answers[q][1]] /\ UNCHANGED tab
     ELSE tab' = [tab EXCEPT ![u] = answers[q][1]] /\ UNCHANGED shownRow
  /\ UNCHANGED <<rows, inbox, unfetched, restless, overtaken, cutOff, requestVars>>

---------------------------------------------------------------------------
AboutTab(h, u)    == BeginMySettings(h, u)
MembersTab(h, u)  == OpenMembersTab(u) \/ \E t \in User : BeginRemoveMember(h, u, t)
SettingsTab(h, u) == BeginUpdateChannel(h, u)

ChannelPanelNext ==
  \/ \E h \in Handler, u \in User : AboutTab(h, u) \/ MembersTab(h, u) \/ SettingsTab(h, u)
  \/ \E h \in Handler :
       \/ UpdateTopic(h) \/ TellUpdate(h) \/ SetStar(h) \/ StarLost(h) \/ TellStar(h)
       \/ TakeStar(h) \/ DeleteRow(h) \/ RemoveLostRace(h) \/ TellLeft(h)
       \/ TakeRemoved(h) \/ PanelDies(h)
  \/ \E u \in User :
       \/ TakeEvent(u) \/ LoseEvents(u)
       \/ \E q \in Query : FetchFor(u, q) \/ TakeFetched(u, q)

ChannelPanelSpec ==
  RequestsInit /\ ChannelPanelInit /\ [][ChannelPanelNext]_<<requestVars, channelPanelVars>>

Fetched(u) == \A query \in Query : <<u, query>> \notin unfetched /\ answers[<<u, query>>] = <<>>

(* "broadcast payloads carry the EMITTER's per-viewer fields                *)
(* (isStarred/notifyLevel), which must not overwrite ours"                  *)
(* (AppShell.tsx:132-134): a page whose user never touched his settings     *)
(* shows at every moment the star he has, whoever changes the channel.      *)
StarsAreOwn ==
  \A u \in belong \ restless : shownRow[u] # None => (shownRow[u].starred <=> u \in starred)

(* Once all is quiet a page has the channel as it is, and its members tab   *)
(* too, unless a late answer to a settings change replaced a later row      *)
(* (ChannelDetailsPanel.tsx:50-56), a request died before it told anyone,   *)
(* or the events of a removal were lost with the socket.                    *)
PanelCurrent ==
  \A u \in User \ overtaken :
    AllIdle /\ inbox[u] = <<>> /\ Fetched(u) =>
      /\ shownRow[u] = IF u \in belong THEN SummaryFor(u) ELSE None
      /\ u \in belong \ cutOff /\ tab[u] # None => tab[u] = belong

PanelRight == StarsAreOwn /\ PanelCurrent
=============================================================================
