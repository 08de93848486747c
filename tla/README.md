# inChat in TLA+

A verification project for inChat, the team chat of this repository: a NestJS API
(`src/apps/api`) on Postgres, Redis and Socket.IO, a React client
(`src/apps/web`) and their shared types (`src/packages/shared-types`). Paths below
are relative to `src/apps/api/src` (API) and `src/apps/web/src` (web).

The repository has no test suite. What it has is a good number of comments that
promise something ("never", "exactly once", "stays exact"), and a design in which
every handler runs in steps separated by `await`s, on any number of API nodes, over
a database that is locked almost nowhere. That is what the modules are about.

## The system

| part | state | operations | hard behaviour |
|---|---|---|---|
| Posting (`modules/messages`, `modules/files`) | Message, Attachment, Channel rows, reply counts | send, upload, voice note, forward | retries of one `clientMsgId`, checks before the transaction, two transactions linking one file, a handler that dies after the commit |
| Unread state (`modules/notifications`) | `lastReadAt`, `lastMessageAt`, Notification rows | fan-out, mark-read, three clean-ups | a detached fan-out racing mark-read, deletion and removal; transactions that commit out of stamp order |
| Sessions (`modules/auth`, `lib/api.ts`) | RefreshToken rows, one cookie per browser, one refresh promise per page | login, rotation, logout, password reset, deactivation | find, revoke and issue are three statements; pages share a cookie but not a promise; lost answers |
| Message lifecycle (`messages.service.ts`) and cache (`lib/message-cache.ts`) | content, tombstone, pin, reactions; the cached page of a device | edit, react, pin, delete; optimistic send, echo, refetch, reconnect | snapshots broadcast late, five unordered sources of one message, a page read before an event and shown after it |
| Calls (`modules/calls`, call features of the web) | Call rows, ring and banner of a device | start or join, ring, decline, leave, record | two starts at once, nobody left to end a call, ring after its stop, the banner's own fetch against the events |
| Presence and typing (`gateway/chat.gateway.ts`) | sockets, a Redis key with a TTL, refresh timers | connect, disconnect | offline racing a new connection, leaked timers |
| Channels, membership and rooms (`modules/channels`) | ChannelMember, ChannelInvitation, socket rooms | create, invite, accept, join, remove, archive, open DM | check-then-act on invitations and DMs, room join against eviction |
| Meetings (`modules/meetings`) | ScheduledMeeting | schedule, cancel, 30-second poll | every node polls; a reminder that fails; an announcement that dies or does not arrive |
| Polls (`modules/collab`) | Poll, PollVote | create, vote | two votes of a single-choice voter; a card that is not told |
| Time clock (`modules/timeclock`) | WorkClockEvent | clock in/out, break, totals | two actions after one check; days and midnight; a widget that is not told |
| Accounts and workspace invitations (`modules/auth`, `modules/workspaces`, `modules/collab/admin.service.ts`) | User, WorkspaceMember, WorkspaceInvite, reset tokens | register, invite, revoke, accept, reset password, change roles, deactivate | the first owner; a link used, revoked or expired while being accepted; accounts that come back |
| Tasks, calendar, notes, broadcasts (`modules/collab`) | Task, CalendarEvent, ChannelNote rows; what a page lists | create, change, delete; save the whole note; post to many channels | a row gone between check and write; an editor over an old text; a loop that fails halfway |
| Profiles (`modules/users`, profile features of the web) | User row, avatar object and url, focus timer, cached directory | edit, upload and remove the avatar, focus mode | two stores of one avatar; a timer only one page keeps |
| A page (`pages/AppShell.tsx`, `lib/unreads.ts`, `lib/use-mark-read.ts`, `features/ChannelDetailsPanel.tsx`) | cached channels, badges, members, active channel | receive events, refetch, mark read, edit settings | answers overtaking events, debounced mark-reads, lost events |

How they meet: every domain service writes Postgres and then broadcasts through
`RealtimeService` to socket rooms; `send` starts the notifications' fan-out without
awaiting it; calls, meetings and polls post through `send`; `removeMember` evicts
sockets, posts a system message and clears notifications, the last one detached;
the client applies broadcasts to its query cache and refetches over REST when it
reconnects. The parts left out and why are in `PROJECT.json` under `components`;
everything in the code that is hard to test is listed there under `hazards`, each at
its line.

What makes each part correct, in a sentence: a message is stored once per key,
announced at most once, and answered only if stored (posting); no member overlooks a
message and a mark-read holds (unread state); a spent token never works and a session
that is over stays over (sessions); a workspace with people has one owner and a link
works once (accounts); a device that is told everything shows what the server has
(lifecycle and cache, pages); a banner shows the call there is and no page rings for an
answered one (calls); online exactly while a socket is there (presence); membership,
rooms and invitations agree (membership); one reminder per meeting; one vote per voter
in a single-choice poll; clock events alternate and the totals add up. Nearly all of
these hold only up to some race the code leaves open. The property then says which
(`u \in overlapped`, `muddled`, `stale`), and a history variable, which no handler
reads, records exactly that race: everything outside of it is claimed.

## The modules

### Posting and MessageLog

`Posting` models `MessagesService.send` for one channel. A *call* is one HTTP
request; its `pc` is where its handler stands:

    idle --Accept--> checked --OpenTx--> inTx --Commit--> stored --Announce--> acked
      Refuse, AnswerExisting             Abort           Lose (anywhere) --> failed

`Accept` is everything before the transaction (`requirePostable`, the look-up of the
key, the parent check), `OpenTx` the validation of attachments inside it, `Commit`
all its writes, `Announce` the broadcast and the answer, which the event loop runs in
one turn. `Abort` is a violated unique key or a vanished membership. The rest of the
system appears as far as send reads it: uploads, leaving, joining, changing the
channel's settings. A message row is named by the call that created it, so that "one
row per key" is something the model can violate. Client keys may be repeated by
anyone at any time, in another call.

`MessageLog` is the promise: a log with one entry per key, each published at most
once, and answers only for stored keys. `Posting` implements it under the mapping
`Log` (rows to entries, broadcasts to published, acknowledged calls to answers).

### Unreads

Stamps, pointers and notifications of one channel. A post is stamped at its insert and
visible at its commit, so rows appear out of stamp order; several may share a stamp.
`CommitSend` does what the transaction of send does to the channel and the author's
membership; `ReadRecipients` and `InsertNotifications` are the two halves of the
detached `fanOutForMessage`; `AdvancePointer` and `ClearUpToMarker` those of
`markRead`; `Remove`, `ClearForMessage`, `Leave`, `InsertSystem`, `TouchSystem` and
`ClearForChannel` the deletion of a message and the removal of a member with their
detached clean-ups. Whether a message mentions, matches a keyword or is in a DM, and
the notify levels, decide only whom it addresses: its `audience`, any set of the
configured ones. Every handler can be lost between its steps.

Three history variables name exceptions the properties are honest about: rows an older
stamp was written over (`overtaken`), users whose own slow send moved their pointer
back (`setBack`), users who were removed (`left`).

### Sessions

The refresh tokens of one account and the cookies and pages of its browsers.
`SendRefresh` is `tryRefresh`, one at a time per page; `Find`, `RevokePresented` and
`Issue` are the three statements of `rotateRefreshToken`; `RevokeFamily` its answer to
a revoked token; `BeginEnd` and `DeleteTokens` the two statements that `resetPassword`
and the deactivation by an administrator share. Answers can be lost and pages reloaded
while the server goes on; the history variable `disturbed` remembers the browsers that
happened to, and those with two pages refreshing at once. Not modelled: access tokens (stored nowhere), the 30-day
age of a refresh token, two operations that end all sessions at the same time.

### MessageCache

The messages of a channel after posting, and the copy one open device keeps.
Handlers check, write and broadcast in separate steps; `Toggle` followed by `Hydrate`
is `toggleReaction`, which reads its snapshot anew, while `Write` (edit, pin) gets it
from its own update. The device's list changes by `Compose` (the optimistic bubble),
`Answer` (the response to its POST or PATCH), `Receive` (socket events, in order) and
`PageArrives` (the refetch that replaces the page). `Disconnect` loses the room and
the events on their way; `Reconnect` starts the refetch and, independently, the room
join. `Refetch` is every other fetch, on a device that may never have dropped: the
invalidation by `onUserUpdated` and by the chat beside a call, and a pane opened again
after its copy has gone stale. `ReadPage` and `PageArrives` are its two ends, and
`fetch.passed` remembers the messages whose events it passes on its way. `Forward` is a
message forwarded into the channel, which is broadcast without the envelope that
`onMessageNew` reads and so reaches the list with the next page only. A message's text is the number of the edit that wrote it; one reaction of one
user stands for all. Author and membership checks are left out: the operations are
those of users who may do them. The page is loaded at the start; thread panels, saved
marks and older pages are not modelled.

`Face`, what a reader sees, leaves out the body of a tombstone: `removeMessage` keeps
the pin flag of the cached message, so the pin icon of a deleted message stays until
the next fetch although the server cleared it. That is a defect of display no property
here states.

### Membership and ChannelPanel

`Membership` is who belongs to which channel, who is invited, and which sockets hear
it: `ChannelsController`, `InvitesController` and `InvitationsController` begin a
request with the checks the service makes first; the operators of `Handle` are the
statements that follow (`InviteOne` is one turn of the loop over invitees, `Evict` what
`removeMember` does after the row is gone). The database guards the unique keys, and
`NameLost`, `InviteTwice`, `DmLost`, `RenameLost`, `InvitationLost` and `RemoveLost`
are what the code does when one stops it. `EnterRoom` is `onRoomJoin`, whose look-up
and join are two steps; a socket left in a room by the race is a stray. The dialogs of
the web (`CreateChannelModal`, `DirectoryModal`, `JoinPage`, `InvitesModal`,
`DetailsPanel`) decide which requests arise.

`ChannelPanel` is one channel as the pages of its members cache it. `ChannelUpdated`
carries the row as its *sender* sees it; `OnChannelUpdated` merges the part all members
share and keeps the viewer's own, and `MembersChanged` sends pages to refetch. Answers
of fetches and events are two channels that overtake each other.

### Calls

One direct message, its calls and the pages of its members. A *flow* is what a click
starts: a plan of requests (`Click`), each split at the server's awaits (`Serve`).
`mail` delivers the broadcasts to each page in order. The REC badge, the recorder and
the three ways a recorder is flushed (the button, somebody else's stop, the hang-up)
are per page. LiveKit is external: the number of participants that a page reports when
it leaves is nondeterministic, between none and all others. `ReadActive` and `TakeActive`
are `getActive`, which fills the banner when it is mounted, with an answer that may be
older than the events heard meanwhile; `LoseMail` is a socket that goes down with what
was on its way, after which no call is fetched. In a group channel nobody is rung and
the rest is the same. A second click on a call button before the first is answered is
left out (`Joining`): the code allows it, and its answer would replace the overlay.

### Requests, and the components built on it

`Requests` is the frame of the smaller services: a request is checked when it begins,
keeps what it has read, runs one statement per await, and may die at any of them.

| module | the code | what races in it |
|---|---|---|
| Polls | `polls.service.ts`, `PollMessage` | the clear and the insert of a single-choice vote; the row and its broadcast; the answer of a vote against a refetch; pages that are not reached |
| Meetings | `meetings.service.ts`, `MeetingsBanner` | `fireDue` of two instances; a poll against a cancellation; a reminder flagged and never posted; the row and its announcement; a banner drawn before a meeting was due |
| Timeclock | `timeclock.service.ts`, `Timeclock.tsx` | two actions after one check; midnight and intervals that span it; the insert and its broadcast; answers against refetches |
| Accounts | registration, reset, `workspace-invites.service.ts`, `admin.service.ts`, their pages | count then register; find then accept; revoke and expire in between; revived accounts |
| Presence | `handleConnection`, `handleDisconnect`, the renewal timer | the two handlers of one socket, and those of two sockets of one user; the TTL |
| Typing | `updateTyping` | write, read, prune and broadcast of two updates; expiry of a field and of the key |
| Planner | `tasks.service.ts`, `calendar.service.ts`, their modals | a row deleted between look-up and write; what a page lists afterwards, the tasks and the events each fetched for itself |
| Notes | `notes.service.ts`, `NotesModal` | whole-text saves over a note that has moved on |
| Broadcast | `broadcast.service.ts`, `BroadcastModal` | a loop whose sends fail before or after posting; the count shown |
| Device | the channel list and badges of one page (`AppShell`, `lib/unreads.ts`, `lib/use-mark-read.ts`) | events in order against answers that overtake them; debounced mark-reads; replies and forwards that stamp without a badge; memberships that change before, or without, an event; reconnection |
| Profile | `profile.controller.ts`, `ProfileModal`, the focus timer, the cached directory | the object and the url of an avatar written in two stores; a timer lost with its page |

Polls, Meetings and Timeclock write, then broadcast, in steps of their own, and a
broadcast reaches any set of the pages it is meant for: those whose socket is up. A
reconnection refetches none of these queries (`AppShell.tsx:267-272`), so a page that
was not reached stays as it is until something else makes it fetch: `behind`, `unheard`
and `clockBehind` are these pages. Where nothing but a fetch writes what is shown
(Meetings), to read and to show are one step; where an answer is shown as well (Polls,
Timeclock), a fetch is read by one step and shown by another.

`Device` sees the server from outside: a message has a number per channel and the
server a pointer; how rows and pointers come about is `Unreads`. `MessageArrives` is a
message of the channel, a reply in one of its threads or a forwarded message: all three
stamp the channel, and only the first reaches the page as something it counts. `Push`
is the end of a fan-out, which says that there is something unread. `AddedTo` and
`RemovedFrom` change the membership, `TellAdded` and `TellRemoved` tell the page some
statements later; joining a public channel, following a link, opening a conversation
and making a private channel tell the user's other pages nothing. In `Timeclock` times
are ticks, `DayLength` of them a day, and the totals `Me` and `History` are two uses of
one `Walk` over the event log, a recursive function with a cursor, a status and a sum;
`TotalsAddUp` compares them with counting every tick by the event that last preceded
it.

Each of these modules follows its next-state relation with a specification of its own
(`PollsSpec`, `DeviceSpec` and so on, with the requests of `Requests` and no bound but
`MaxRequests`); the proofs are about these, the run about all of them at once.

Each module keeps one type predicate. The operators commented as *Defect* are variants
of the definition that follows them, with a plausible mistake. No next-state relation
uses them; they serve to show that each property fails when the code is wrong in that
way (`mutants` in `PROJECT.json`).

## The runs

Each configuration is checked with `tlc -workers 2 -config X.cfg MCModule.tla`. Sizes
are distinct states.

| configuration | shows | bounds | size |
|---|---|---|---|
| Posting | answered is stored; announced once; replies counted; files with their author; refinement of MessageLog | 3 calls, 3 keys, 1 file, 2 users: two calls race on a key or a file while the third replies; a reply to a reply would need three stored rows | 557 k |
| PostingRelink | *violation*: a link takes a file from another message | 2 calls of one user, 1 file | |
| Unreads | a finished mark-read holds, unseen is unread, own sends are not (`PointersRight`); a fan-out reaches all it addresses and no one else (`FanOutRight`); newer mentions stay badged; read stays read | 2 posts (sends and forwards) with stamps up to 2, 2 mark-reads, 2 users, one of whom reads, is removed and rejoins, 1 deletion | 2.9 M |
| UnreadsLateBadge | *violation*: a badge survives its mark-read | 2 posts, 1 mark | |
| Sessions | a replaced token is spent and what survives the end of all sessions was being rotated (`OldTokensDead`); an undisturbed browser keeps its cookie; a session without a live token stays dead; every refresh settles | 2 pages of one browser, 3 tokens and 3 requests, so that no request lacks a token, losses, one end of sessions, fair | 524 k |
| SessionsTwins | *violation*: two live tokens in a family | no losses, no end | |
| Cache | no message twice in the list, no reply in it; a connected device ends up with the row of every message not written by two handlers at once, forwarded, or passed by a page on its way | an old message, a reply to it and a message of the device; 2 handlers, 2 operations (edits, reactions and deletions), a lost answer, a drop or a fetch without one (`MaxFetches`) | 6.4 M |
| CacheFair | an own message appears as stored although its answer is lost | the same with pins, 1 operation, fair | 355 k |
| Calls | a recording is posted once; banners show the active call; nobody rings for an answered call | 2 members, 2 calls, 2 flows at a time, 5 clicks, mounted banners and failures in all, 1 of them a failed request or a lost socket (`MaxFailures`), at most 2 broadcasts under way per page (`MaxLag`) | 3.1 M |
| CallsUnseenRecording | *violation*: a page joins while a recording begins and never shows the badge | the same instance, shortened | |
| Membership | types; one conversation per set of people; members of private channels were admitted; rooms follow membership | an admin and a member with one socket, the default channel and two more, 2 invitations, 2 requests at a time, 5 in all | 682 k |
| Workspace | the sixteen properties of the components built on `Requests` and of `ChannelPanel` | below | 1.7 M |

`MCWorkspace` puts twelve components side by side. They share nothing but the form of
their requests, so a behaviour moves one of them, the one in `focus`, and the states of
the run are the sum of theirs instead of the product; the properties of the others hold
in their initial states. `Budget` bounds the requests of a behaviour for each: five
where the hazard takes a sequence (accounts, presence, typing), three for polls,
meetings, the clock and the planner, two where two concurrent requests are the hazard;
a fan-out that is still to push counts as one. `Counts` leaves out moments of steps that
could as well come earlier or later: ticks that neither an insert nor the totals read, a
card mounted while no vote of it is being written, looking away while nothing comes for
the pane, meetings fetched unasked or drawn again while a request is under way, requests
of others before the page of `Device` has loaded (a reconnection fetches the same), and
a channel nobody is left in. The theorems are about the components without any of this.
Users and handlers are two and interchangeable; there is one poll with two
options, two meetings of which a poll takes one (`MaxBatch`), days of two ticks up to
tick four (`MaxTime`) so that an interval can span midnight twice, two invitations and
two reset links, two connections, two channels, `MaxEvents` events on their way to the
page of `Device`, one open members tab (`MaxTabs`). `WorkspaceTypeOK`,
`GatewayShowsRight` and `CollabRight` are conjunctions of named properties of the
modules.

Why the bounds are enough: each hazard is a race of two handlers, in a few cases with
a third party (a reply beside two calls of one key, a logout beside two rotations, a
drop beside a handler, a page beside two writers); every instance has that many, plus
the rows they need. In `Unreads` only one user's mark-reads are enumerated (`Readers`):
pointers and badges of different users never touch each other, and the reader is the
one who is also removed (`Leavers`). Symmetry is used in safety runs only, over sets
whose members appear in no constant relation. `CHECK_DEADLOCK FALSE` stands where an
instance is used up (posts, requests and messages are finite); Posting's settings can
always change, so it is checked for deadlock. `Calls`, `Cache`, `Sessions` and
`Unreads` have their type predicates (`CallsTypeOK`, `TypeOK`) in no configuration: they
are proved (below).

Fairness is stated only where liveness is checked, in `Sessions` and `MessageCache`:
weak fairness of each begun handler (`Serve`), because Node's event loop and the
database serve what has started; in `Sessions` also of the delivery or failure of an
answer (`Receive`), in `MessageCache` of the socket, which delivers and reconnects
(socket.io tries without limit), and of a fetch, which is answered. A loss is never
fair and never required. No client is ever obliged to start anything. The other
properties that say what is shown "once nothing is under way" are invariants over
settled states and need no fairness.

## The proofs

Eight modules hold theorems checked by TLAPS, for every value of the constants that
satisfies the named assumptions. Every invariant and every action property of a passing
run is a theorem there, and so is the refinement of `MessageLog`; only liveness is left
to TLC. `PROJECT.json` lists the theorems with the run property each one states.

| module | about | rests on |
|---|---|---|
| `PostingProofs` | Posting, refinement of MessageLog | `PostingAssumption` |
| `MembershipProofs` | Membership | `MembershipAssumption` |
| `SessionsProofs` | Sessions | `SessionsAssumption` |
| `UnreadsProofs` | Unreads | `UnreadsAssumption` |
| `MessageCacheProofs` | MessageCache | `MessageCacheAssumption` |
| `CallsProofs` | Calls | `CallsAssumption` |
| `ToolsProofs` | Polls, Meetings, Timeclock, Planner, Notes, Broadcast | `RequestsAssumption`, `TimeclockAssumption`, `BroadcastAssumption` |
| `PeopleProofs` | Typing, Presence, Accounts, Profile, ChannelPanel, Device, the workspace of all | the same with `AccountsAssumption`, `ProfileAssumption`, `ChannelPanelAssumption`, `DeviceAssumption` |

The assumptions say that the sets whose members are counted are finite (in a deployment
all of them are), that a bound is a natural number, and that `None` and the ids of
different tables are not taken for each other, as types in the code keep them apart.

Each proof has the same plan: an inductive invariant that adds to the property what the
program counters of the requests under way know, one lemma per group of steps that
disturbs the same conjuncts, and the three steps of an invariance proof. The invariants
that could be evaluated were checked by TLC before they were proved.

- **Posting.** `PcInv` says that a checked call has a top-level stored parent or none
  and no row, that a row belongs to a call that is stored, acknowledged or lost after
  its commit; `FileInv` that the files a call carries are uploaded and its author's.
  With these the properties prove each other's steps: the unique key gives
  `OneRowPerKey`, that gives `AnnouncedOnce`, and rows that never change keep counts and
  threads. `ArchivedChannelDrains` is an action property; `PostingImplementsLog` shows a
  commit to be a `Store`, an announcement a `Publish`, and everything else a stutter or
  an `AnswerAgain`.
- **Membership.** `RequestsHold`: what survives of a check made awaits ago is that a
  team channel remains one and that whoever was let in once remains admissible.
  `WaysIn`: invitations, links and public channels are ways in. The rest follows from
  the unique key of conversations and from `Evict` coming after every removal.
- **Sessions.** `TokenInv` is the server's half, what a request knows of the token it
  presents. `BrowserInv` is who holds what: no two browsers tokens of one family, an
  issued token that was not received is held by nobody else, and what spoils a cookie
  has an answer under way that replaces it. `DeadFamiliesStayDead` is an action property
  proved from what a step does to tokens.
- **Unreads.** The unread flag compares `lastMessageAt`, overwritten out of order, with a
  pointer a slow send may set back. `LastCovers` (it is as late as every row it was not
  written over) and `LastIsOthers` (past a member's pointer it is not the stamp of his
  own sends alone) make it right; `PostsShaped` and `MarksHold` say what fan-outs and
  mark-reads know between their statements.
- **MessageCache.** `CurrentUnlessRaced` speaks of rest, so the invariant looks into the
  future of the device: for every message there is a *course* of what the device will
  list of it, one entry per event on the wire, which ends as the row is but for the one
  event a handler is still to send. An answer between events may change the list; an
  event with a snapshot still to come makes what was listed irrelevant. The invariant
  says this of two `Copies`, the list and the page a fetch is bringing, each right about
  all messages but those it is `Excused` from (`stale`, `fetch.passed`): when the page
  arrives it becomes the list, and its excuse the list's.
- **Calls.** Plans are sequences, so `PlanHolds` says what may come before what. A
  recording is handed from click to recorder to page to request, and `CarriedOnce` says
  that one holder has it. Banners and rings are decided by the last event of the mail
  that matters (`WillShow`, `Silences`), or by a handler still to send a later one; a
  fetch that no announcement passed brings what the banner shows anyway, and a page that
  showed an older answer, or lost its mail, is `misled` until it hears the next
  announcement.
- **The tools.** The `Moved` lemmas describe the steps of `Requests` once for all its
  components. Polls: `VotesAlone` and `Cleared`, a vote about to be inserted replaces
  nothing; `WillTell`, which votes under way will reach a card; a card that is wrong is `behind`,
  told, fetching, or has such a vote to come, and so it is with widgets and banners.
  Meetings: `ReadOnce`, one
  poll has a due meeting in its batch, and `FlagStands`; `Fits` bounds the reminders by
  the requests made. Timeclock: a checked action still fits the last event. Its totals
  are proved of every ordered log (`OrderedAddUp`), by induction over the events:
  `Stretch` says what the status is between two cursors, `Tallied` and `IntervalBooked`
  that a stretch books its own units and no other, `HistoryWalk` and `MeWalk` that after
  an event the sum is what the units before it amount to, and `EndCursor` that the last
  stretch reaches to now. Planner, Notes and Broadcast: what a page knows of its own
  calls.
- **People.** Presence is proved user by user, with `Excused` for the named races; the
  steps of one user's sockets do not concern the others. Links are `Spent` or
  `HeldAlone`; `OwnersInv` says what a registration, an acceptance or a role change
  knows of the owner when it writes. Profile has one conjunct for each of its three
  promises. ChannelPanel, `PageFollows`: a page has the row, or the answer that says it,
  or is yet to fetch it, or something under way will make it fetch again. Device has the
  same argument twice, channel by channel: `ListFollows`, a channel listed wrongly has a
  request that is still to tell, an event or a fetch to come (`ListToCome`), or is among
  the `unaware`; and `BadgesFollow`, a badge that is wrong has an event, a mark or a
  fetch to come (`BadgeToCome`), or is among the `missed`.
- **The workspace.** The run `Workspace` moves one component of twelve.
  `FocusIsComponent` shows its behaviours to be behaviours of the component in focus
  (`PollsSpec`, `MeetingsSpec` and so on, which have no `Budget`), so the theorems about
  components hold of the states the run visits. `GatewayShowsRight`, `CollabRight` and
  `WorkspaceTypeOK` speak of several components at once and are proved of
  `WorkspaceSpec` itself, with `FocusFixed` (the focus never changes) and
  `UnfocusedStays`, `UnfocusedStaysTyped` for the components that do not move.
  `WorkspaceIsRight` joins all sixteen invariants of the run in one theorem about
  `WorkspaceSpec`; the requests of the component in focus touch the shared `members`
  too, and `MembersOnlyLeave` says how.

Induction over the natural numbers is a lemma here (`Induction`),
stated about a set of numbers instead of an operator and derived from the well-founded
minimum of `WellFoundedInduction`, which the provers can instantiate. `WalkExists` uses
it to show that the recursive function of `Walk` is one, so that nothing about it is
assumed.

`BadgesRight` was no invariant as it first stood, although the run passed: of a badge
that an event sets wrongly it took the event of a removal for one that would put it
right. The shortest counterexample has four requests (a mark-read, then the user is
removed and added again before the page hears of any of it), two more than the run
allows; the badge then stays wrong, and `Late` now names the exception. The theorem has
no such bound.

Only model-checked:

- liveness, `RefreshesSettle` and `OwnMessageAppears`: fairness and ENABLED are out of
  the prover's reach;
- the properties that are expected to fail, whose runs exhibit a behaviour.

No module declares a RECURSIVE operator, so that each can be proved about.

## What the runs found

The findings in `PROJECT.json` quote the comment each one contradicts: files can be
linked twice; a badge can appear under a finished mark-read; a session can have two
live tokens; a page can miss that its call is being recorded.

The exceptions named in the properties are behaviours of the code too, and TLC shows
them when the exception is taken out of the property. The ones that matter most: a
forward leaves its author's pointer behind; two first registrations make two owners,
and an owner who is deactivated and returns by an invitation leaves none; a user who
votes twice at once holds two single-choice votes; two overlapping polls announce a
meeting twice; a disconnection that counts sockets before a new one connects deletes
its online key; a save of the note from an outdated copy takes other people's edits
away; an end announced over a newer start takes away the banner of a call that goes on.

Most of what a page can be wrong about comes from its reconnection, which fetches the
messages, the channels and the badges and nothing else (`AppShell.tsx:267-272`). A page
that misses an update of a poll, a meeting or the clock, or the start or the end of a
call, shows the old state until its user does something (the clock also fetches every
minute). The rest comes from events that do not say what they change. A reply in a
thread and a forwarded message stamp the channel, so the server calls it unread and the
page does not; a forwarded message is not listed by the pages that have its channel open,
because its event lacks the envelope they read; and a user's second page does not hear
of the channel he joined on the first. `behind`, `unheard`, `clockBehind`, `misled`,
`missed`, `stale` and `unaware` are these pages, channels and messages, each until
something up to date reaches it.

Two more consequences of the same races are visible in the models without a run of
their own. A browser whose answer was lost, or whose other page was faster, presents a
revoked token and is taken for a thief (`RevokeFamily`): `CookieStaysGood` therefore
speaks of undisturbed browsers only. And a reaction's snapshot can be older than a
broadcast that went before it, so a device may show an outdated message until it is
written or fetched again: `CurrentUnlessRaced` leaves messages written by two handlers
at once out. Likewise a page that was read before an event and arrives after it takes
back what the event said, on a device that never lost its connection.

Some properties exempt the very race their component is exposed to, and then say what
holds beside it: a single-choice voter with two votes under way (`overlapped`), a user
with two clock actions (`doubled`), a link held by two requests (`heldTwice`), a note
that somebody else saved in between, a fan-out whose addressees were read before a
removal, a typing entry that expired and was not pruned yet. No property can hold
through these, because the code does not prevent them; the notes of the hazards in
`PROJECT.json` say which part of each a property covers and which none can.

## Not modelled

Message templates (rows one administrator inserts and deletes by id), the files hub,
search, GIFs and the health check (queries), object storage and downloads (I/O behind
one authorization look-up), the wiring of the libraries, and presentation. Of modelled
parts: access tokens and the age of refresh tokens, e-mail verification, the voice note
(a send and a link in two requests), thread panels, saved marks and older pages of
messages, the notify levels and keywords behind a message's audience, desktop
notifications. `PROJECT.json` gives the reason with each component. No liveness is
claimed of calls and meetings: no timer or hook of the service ends an abandoned call,
and a poll that dies between flag and reminder is never repeated.

## Plan

What is left, in this order:

1. A reference definition of what one page should show (`Device`, `ChannelPanel`) as an
   abstract specification in the manner of `MessageLog`, and the two shown to implement
   it once they are settled.
2. The rest of the partly modelled components: thread panels, saved marks and older
   pages of messages, access tokens beside refresh tokens.
3. Action properties of rows that outlive their use: a spent link or token is never
   valid again, the flag of a meeting is never taken back. The invariants imply what the
   users see of them.
