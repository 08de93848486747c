------------------------------- MODULE Polls -------------------------------
(***************************************************************************)
(* PollsService and the poll card of a page.  A poll is a message with a   *)
(* marker, then a row; a vote is a look-up and two or three writes, guarded *)
(* by nothing but the unique key (option, user).  A page shows what it last *)
(* fetched, refetches on PollUpdate if its socket is up, and takes the      *)
(* answer of its own vote as it comes; a reconnection refetches no poll.    *)
(***************************************************************************)
EXTENDS Requests

CONSTANTS Poll, Option

VARIABLES poll,      \* the markers and Poll rows
          votes,     \* the PollVote rows: <<poll, option, user>>
          shown,     \* the votes each user's page shows, per poll
          refetch,   \* pages that have been told to fetch a poll again
          arriving,  \* pages a fetch of a poll is on its way to
          read,      \* the votes it was read with
          overlapped, \* history: users two of whose votes were under way at once
          behind     \* history: pages that took an old answer, or were not told of a vote
                     \* and have not fetched since

pollsVars == <<poll, votes, shown, refetch, arriving, read, overlapped, behind>>

PollRecord == [state : {"none", "marker", "open"}, multiple : BOOLEAN]
VoteRows   == SUBSET (Poll \X Option \X User)

PollsTypeOK ==
  /\ poll \in [Poll -> PollRecord] /\ votes \in VoteRows
  /\ shown \in [User -> VoteRows] /\ read \in [User -> VoteRows]
  /\ refetch \cup arriving \subseteq User \X Poll
  /\ overlapped \subseteq User /\ behind \subseteq User \X Poll
  /\ \A v \in votes : poll[v[1]].state = "open"

PollsInit ==
  /\ poll = [p \in Poll |-> [state |-> "none", multiple |-> FALSE]]
  /\ votes = {} /\ shown = [u \in User |-> {}] /\ read = [u \in User |-> {}]
  /\ refetch = {} /\ arriving = {}
  /\ overlapped = {} /\ behind = {}

Of(p, rows) == {v \in rows : v[1] = p}
Own(p, u)   == {v \in votes : v[1] = p /\ v[3] = u}

(* requirePostable, then the message with the marker, then the row. *)
BeginCreatePoll(h, u, p, multiple) ==
  /\ u \in members /\ poll[p].state = "none" /\ Begin(h, "pollMarker", u, p, multiple)
  /\ UNCHANGED pollsVars

PostMarker(h) ==
  /\ At(h, "pollMarker") /\ poll[proc[h].ref].state = "none"
  /\ poll' = [poll EXCEPT ![proc[h].ref].state = "marker"] /\ Goto(h, "pollRow")
  /\ UNCHANGED <<votes, shown, refetch, arriving, read, overlapped, behind>>

CreatePoll(h) ==
  /\ At(h, "pollRow")
  /\ poll' = [poll EXCEPT ![proc[h].ref] = [state |-> "open", multiple |-> proc[h].seen]]
  /\ Finish(h) /\ UNCHANGED <<votes, shown, refetch, arriving, read, overlapped, behind>>

(* The voter is a member and the option is one of the poll's. *)
BeginVote(h, u, p, o) ==
  /\ u \in members /\ poll[p].state = "open"
  /\ Begin(h, "voteRead", u, <<p, o, u>>, None)
  /\ overlapped' = IF \E g \in Handler : proc[g].user = u THEN overlapped \cup {u}
                                                          ELSE overlapped
  /\ UNCHANGED <<poll, votes, shown, refetch, arriving, read, behind>>

(* Defect: a single choice does not clear the one before. *)
ReadVoteKeepingOld(h) ==
  /\ At(h, "voteRead")
  /\ Goto(h, IF proc[h].ref \in votes THEN "voteDelete" ELSE "voteCreate")
  /\ UNCHANGED pollsVars

ReadVote(h) ==
  /\ At(h, "voteRead")
  /\ Goto(h, IF proc[h].ref \in votes THEN "voteDelete"
             ELSE IF poll[proc[h].ref[1]].multiple THEN "voteCreate" ELSE "voteClear")
  /\ UNCHANGED pollsVars

ClearVotes(h) ==
  /\ At(h, "voteClear") /\ votes' = votes \ Own(proc[h].ref[1], proc[h].user)
  /\ Goto(h, "voteCreate") /\ UNCHANGED <<poll, shown, refetch, arriving, read, overlapped, behind>>

(* Deleting a row that is gone and creating one that exists are errors. *)
ChangeVote(h) ==
  /\ \/ /\ At(h, "voteDelete") /\ proc[h].ref \in votes
        /\ votes' = votes \ {proc[h].ref}
     \/ /\ At(h, "voteCreate") /\ proc[h].ref \notin votes
        /\ votes' = votes \cup {proc[h].ref}
  /\ Goto(h, "voteTell") /\ UNCHANGED <<poll, shown, refetch, arriving, read, overlapped, behind>>

VoteLost(h) ==
  /\ \/ At(h, "voteDelete") /\ proc[h].ref \notin votes
     \/ At(h, "voteCreate") /\ proc[h].ref \in votes
  /\ Finish(h) /\ UNCHANGED pollsVars

(* Defect: no one is told of the vote. *)
TellNobody(h) ==
  At(h, "voteTell") /\ Goto(h, "voteMe") /\ UNCHANGED pollsVars

(* PollUpdate reaches those pages of the channel whose socket is up; it     *)
(* drops the fetch they have under way and starts another.                 *)
TellVote(h) ==
  LET p == proc[h].ref[1] IN
  /\ At(h, "voteTell")
  /\ \E reached \in SUBSET members :
       /\ refetch' = refetch \cup (reached \X {p}) /\ arriving' = arriving \ (reached \X {p})
       /\ behind' = behind \cup ((members \ reached) \X {p})
  /\ Goto(h, "voteMe") /\ UNCHANGED <<poll, votes, shown, read, overlapped>>

(* getPoll, for the answer; it wants a member. *)
ReadAnswer(h) ==
  /\ At(h, "voteMe")
  /\ IF proc[h].user \in members THEN GotoWith(h, "voteAnswer", Of(proc[h].ref[1], votes))
                                  ELSE Finish(h)
  /\ UNCHANGED pollsVars

Show(u, p, rows) == shown' = [shown EXCEPT ![u] = (@ \ Of(p, @)) \cup rows]

(* vote() of PollMessage puts the answer into the cache, however old it is. *)
TakeAnswer(h) ==
  LET u == proc[h].user  p == proc[h].ref[1] IN
  /\ At(h, "voteAnswer") /\ Show(u, p, proc[h].seen) /\ Finish(h)
  /\ behind' = IF proc[h].seen # Of(p, votes) THEN behind \cup {<<u, p>>}
               ELSE IF <<u, p>> \in arriving THEN behind
               ELSE behind \ {<<u, p>>}
  /\ UNCHANGED <<poll, votes, refetch, arriving, read, overlapped>>

(* The query: invalidated, or of a card that is mounted again when what it  *)
(* has is stale (left out where it finds what is shown and no vote comes).  *)
ReadPoll(u, p) ==
  /\ \/ <<u, p>> \in refetch
     \/ /\ <<u, p>> \notin arriving /\ u \in members
        /\ \/ Of(p, shown[u]) # Of(p, votes)
           \/ \E h \in Handler : /\ proc[h].pc \in {"voteDelete", "voteClear", "voteCreate"}
                                /\ proc[h].ref[1] = p
  /\ refetch' = refetch \ {<<u, p>>}
  /\ IF u \in members
     THEN /\ arriving' = arriving \cup {<<u, p>>}
          /\ read' = [read EXCEPT ![u] = (@ \ Of(p, @)) \cup Of(p, votes)]
     ELSE UNCHANGED <<arriving, read>>
  /\ UNCHANGED <<poll, votes, shown, overlapped, behind, requestVars>>

(* It is shown when it arrives, even over a newer answer. *)
TakePoll(u, p) ==
  /\ <<u, p>> \in arriving /\ Show(u, p, Of(p, read[u]))
  /\ arriving' = arriving \ {<<u, p>>} /\ read' = [read EXCEPT ![u] = @ \ Of(p, @)]
  /\ behind' = IF Of(p, read[u]) = Of(p, votes) THEN behind \ {<<u, p>>} ELSE behind
  /\ UNCHANGED <<poll, votes, refetch, overlapped, requestVars>>

(* A vote that dies after a write leaves the pages as they are. *)
VoteDies(h) ==
  /\ Die(h)
  /\ behind' = IF proc[h].pc \in {"voteCreate", "voteTell"}
               THEN behind \cup (User \X {proc[h].ref[1]}) ELSE behind
  /\ UNCHANGED <<poll, votes, shown, refetch, arriving, read, overlapped>>

VoteSteps(h) ==
  \/ ReadVote(h) \/ ClearVotes(h) \/ ChangeVote(h) \/ VoteLost(h) \/ TellVote(h)
  \/ ReadAnswer(h) \/ TakeAnswer(h)

PollsNext ==
  \/ \E h \in Handler :
       \/ \E u \in User, p \in Poll, m \in BOOLEAN : BeginCreatePoll(h, u, p, m)
       \/ \E u \in User, p \in Poll, o \in Option : BeginVote(h, u, p, o)
       \/ PostMarker(h) \/ CreatePoll(h) \/ VoteSteps(h)
       \/ VoteDies(h)
  \/ \E u \in User, p \in Poll : ReadPoll(u, p) \/ TakePoll(u, p)
  \/ \E u \in User : RemoveFromChannel(u) /\ UNCHANGED pollsVars

PollsSpec == RequestsInit /\ PollsInit /\ [][PollsNext]_<<requestVars, pollsVars>>

(* "Single-choice: clear any prior vote in this poll first"                *)
(* (polls.service.ts:84): nobody holds two votes in such a poll, although  *)
(* the clearing and the insert are two statements that may be cut short,   *)
(* unless he sent a vote while another of his was under way.               *)
SingleChoice ==
  \A p \in Poll, u \in User :
    ~poll[p].multiple /\ u \notin overlapped => Cardinality(Own(p, u)) <= 1

(* A member's poll card shows the votes once nothing is under way, although *)
(* answers, fetches and updates overtake each other.  Exempt, until a fetch *)
(* or an answer that is up to date is shown: a page not told of a vote,     *)
(* because its socket was down (the reconnection of AppShell.tsx:267-272    *)
(* refetches no poll) or the vote died before it could tell (polls.service. *)
(* ts:80-89), and one that took an old answer of its own after a newer      *)
(* fetch (PollMessage.tsx:38).                                             *)
PollShown ==
  \A u \in members, p \in Poll :
    \/ Of(p, shown[u]) = Of(p, votes) \/ <<u, p>> \in refetch \cup arriving \cup behind
    \/ \E h \in Handler : proc[h].pc \in {"voteCreate", "voteTell"} /\ proc[h].ref[1] = p
=============================================================================
