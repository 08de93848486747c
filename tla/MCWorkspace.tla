----------------------------- MODULE MCWorkspace -----------------------------
(* The smaller components side by side.  They share nothing but the form of  *)
(* their requests, so a behaviour moves one of them, the one in focus, and    *)
(* the states of the run are the sum of theirs, not the product.              *)
EXTENDS Polls, Meetings, Timeclock, Accounts, Presence, Typing, Planner, Notes, Broadcast, Device, Profile, ChannelPanel, TLC

CONSTANTS Focus

VARIABLE focus

(* How many requests a behaviour of each component may make. *)
Budget == [Polls |-> 3, Meetings |-> 3, Timeclock |-> 3, Accounts |-> 5, Presence |-> 5, Typing |-> 5, Planner |-> 3, Notes |-> 2, Broadcast |-> 2, Device |-> 2, Profile |-> 2, ChannelPanel |-> 2]

(* Left out of the run are moments of steps that could as well come later or *)
(* earlier: ticks that neither an insert nor the totals read; a poll's card   *)
(* mounted again while no vote of it is being written; looking away from the *)
(* pane while nothing comes for it; meetings fetched unasked, or their banner *)
(* drawn again, while a request is under way; what others do while a page     *)
(* first loads, which meets a page that reconnects as well; and a channel    *)
(* without members.  A fan-out that is yet to push counts as a request.      *)
TicksCount ==
  now' # now => /\ \A h \in Handler : proc[h].pc \in {"idle", "clock"}
                /\ \A u \in User : clockFetch[u] = "none"

MountsCount ==
  arriving' \subseteq arriving \cup refetch
    \/ \E h \in Handler : proc[h].pc \in {"voteDelete", "voteClear", "voteCreate"}

LooksCount ==
  view' \in View \ {"reading", view} =>
    \/ toPage # <<>> /\ Head(toPage).kind \in {"new", "removed"}
    \/ active # None /\ got[active] # top[active]

FetchesCount ==
  focus = "Meetings" /\ banner' # banner =>
    AllIdle \/ \E u \in relist : listed'[u] # listed[u]

LoadsFirst == focus = "Device" /\ requests = 0 /\ requests' = 1 => invalid = {} /\ AllIdle

Counts == TicksCount /\ MountsCount /\ LooksCount /\ FetchesCount /\ LoadsFirst /\ members' # {}

WorkspaceInit ==
  /\ focus \in Focus /\ RequestsInit
  /\ PollsInit
  /\ MeetingsInit
  /\ TimeclockInit
  /\ AccountsInit
  /\ PresenceInit
  /\ TypingInit
  /\ PlannerInit
  /\ NotesInit
  /\ BroadcastInit
  /\ DeviceInit
  /\ ProfileInit
  /\ ChannelPanelInit
  /\ focus = "Accounts" \/ Rows = {}
  /\ focus = "Device" \/ joined = {Default}

WorkspaceNext ==
  /\ UNCHANGED focus
  /\ \/ focus = "Polls" /\ PollsNext
        /\ UNCHANGED <<meetingsVars, timeclockVars, accountsVars, presenceVars, typingVars,
                       plannerVars, notesVars, broadcastVars, deviceVars, profileVars,
                       channelPanelVars>>
     \/ focus = "Meetings" /\ MeetingsNext
        /\ UNCHANGED <<pollsVars, timeclockVars, accountsVars, presenceVars, typingVars,
                       plannerVars, notesVars, broadcastVars, deviceVars, profileVars,
                       channelPanelVars>>
     \/ focus = "Timeclock" /\ TimeclockNext
        /\ UNCHANGED <<pollsVars, meetingsVars, accountsVars, presenceVars, typingVars,
                       plannerVars, notesVars, broadcastVars, deviceVars, profileVars,
                       channelPanelVars>>
     \/ focus = "Accounts" /\ AccountsNext
        /\ UNCHANGED <<pollsVars, meetingsVars, timeclockVars, presenceVars, typingVars,
                       plannerVars, notesVars, broadcastVars, deviceVars, profileVars,
                       channelPanelVars>>
     \/ focus = "Presence" /\ PresenceNext
        /\ UNCHANGED <<pollsVars, meetingsVars, timeclockVars, accountsVars, typingVars,
                       plannerVars, notesVars, broadcastVars, deviceVars, profileVars,
                       channelPanelVars>>
     \/ focus = "Typing" /\ TypingNext
        /\ UNCHANGED <<pollsVars, meetingsVars, timeclockVars, accountsVars, presenceVars,
                       plannerVars, notesVars, broadcastVars, deviceVars, profileVars,
                       channelPanelVars>>
     \/ focus = "Planner" /\ PlannerNext
        /\ UNCHANGED <<pollsVars, meetingsVars, timeclockVars, accountsVars, presenceVars,
                       typingVars, notesVars, broadcastVars, deviceVars, profileVars,
                       channelPanelVars>>
     \/ focus = "Notes" /\ NotesNext
        /\ UNCHANGED <<pollsVars, meetingsVars, timeclockVars, accountsVars, presenceVars,
                       typingVars, plannerVars, broadcastVars, deviceVars, profileVars,
                       channelPanelVars>>
     \/ focus = "Broadcast" /\ BroadcastNext
        /\ UNCHANGED <<pollsVars, meetingsVars, timeclockVars, accountsVars, presenceVars,
                       typingVars, plannerVars, notesVars, deviceVars, profileVars,
                       channelPanelVars>>
     \/ focus = "Device" /\ DeviceNext
        /\ UNCHANGED <<pollsVars, meetingsVars, timeclockVars, accountsVars, presenceVars,
                       typingVars, plannerVars, notesVars, broadcastVars, profileVars,
                       channelPanelVars>>
     \/ focus = "Profile" /\ ProfileNext
        /\ UNCHANGED <<pollsVars, meetingsVars, timeclockVars, accountsVars, presenceVars,
                       typingVars, plannerVars, notesVars, broadcastVars, deviceVars,
                       channelPanelVars>>
     \/ focus = "ChannelPanel" /\ ChannelPanelNext
        /\ UNCHANGED <<pollsVars, meetingsVars, timeclockVars, accountsVars, presenceVars,
                       typingVars, plannerVars, notesVars, broadcastVars, deviceVars,
                       profileVars>>
  /\ requests' + Cardinality({h \in Handler : proc'[h].pc = "push"}) <= Budget[focus]
  /\ Counts

workspaceVars ==
  <<focus, requestVars, pollsVars, meetingsVars, timeclockVars,
    accountsVars, presenceVars, typingVars, plannerVars, notesVars,
    broadcastVars, deviceVars, profileVars, channelPanelVars>>

WorkspaceSpec == WorkspaceInit /\ [][WorkspaceNext]_workspaceVars

(* Every component's rows keep their types and the structure named there.  *)
WorkspaceTypeOK ==
  /\ PollsTypeOK
  /\ MeetingsTypeOK
  /\ TimeclockTypeOK
  /\ AccountsTypeOK
  /\ PresenceTypeOK
  /\ TypingTypeOK
  /\ PlannerTypeOK
  /\ NotesTypeOK
  /\ BroadcastTypeOK
  /\ DeviceTypeOK
  /\ ProfileTypeOK
  /\ ChannelPanelTypeOK

(* What the gateway's handlers leave behind once they are through: presence *)
(* as PresenceRight says it, and the typing indicator as TypingShownRight    *)
(* says it (chat.gateway.ts:62-108, 144-179).                              *)
GatewayShowsRight == PresenceRight /\ TypingShownRight

(* What a user did with the collaboration tools is what he is shown: his     *)
(* tasks and events as PlannerListed says it, his edits of the channel's note *)
(* as EditsKept says it, his announcements as SentCountRight says it         *)
(* (collab.controller.ts).                                                 *)
CollabRight == PlannerListed /\ EditsKept /\ SentCountRight

(* The rows of one component at a time are told apart, by the same names.  *)
Symmetry == UNION {Permutations(S) : S \in {Handler, User, Option}}
=============================================================================
