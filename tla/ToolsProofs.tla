----------------------------- MODULE ToolsProofs -----------------------------
(***************************************************************************)
(* The collaboration tools are right for any number of members, requests   *)
(* and failures: polls, meetings, the time clock, the planner, the notes,  *)
(* broadcasts.  Each is a specification of its own over the requests of    *)
(* Requests, whose steps the first lemmas describe once for all of them.   *)
(***************************************************************************)
EXTENDS Polls, Meetings, Timeclock, Planner, Notes, Broadcast, FiniteSetTheorems,
        WellFoundedInduction, TLAPS

---------------------------------------------------------------------------
(* Requests: a step moves one of them and leaves the others as they are.   *)

Request(r) == r = [pc |-> r.pc, user |-> r.user, ref |-> r.ref, seen |-> r.seen]
ProcShape == proc = [h \in Handler |-> proc[h]] /\ \A h \in Handler : Request(proc[h])

Moved(h, pc, u, ref, seen) ==
  /\ ProcShape'
  /\ proc'[h].pc = pc /\ proc'[h].user = u /\ proc'[h].ref = ref /\ proc'[h].seen = seen
  /\ \A g \in Handler : g # h => proc'[g] = proc[g]

(* A handler is given a request whole. *)
LEMMA Replaced ==
  ASSUME ProcShape, NEW h \in Handler, NEW pc, NEW u, NEW ref, NEW seen,
         proc' = [proc EXCEPT ![h] = [pc |-> pc, user |-> u, ref |-> ref, seen |-> seen]]
  PROVE  Moved(h, pc, u, ref, seen)
<1>1. PICK r : r = [pc |-> pc, user |-> u, ref |-> ref, seen |-> seen]
  OBVIOUS
<1>2. proc' = [proc EXCEPT ![h] = r]
  BY <1>1
<1>3. r.pc = pc /\ r.user = u /\ r.ref = ref /\ r.seen = seen /\ Request(r)
  BY <1>1 DEF Request
<1>4. proc'[h] = r /\ \A g \in Handler : g # h => proc'[g] = proc[g]
  BY <1>2 DEF ProcShape
<1>5. ProcShape'
  <2>1. proc' = [g \in Handler |-> proc'[g]]
    BY <1>2 DEF ProcShape
  <2>2. \A g \in Handler : Request(proc'[g])
    BY <1>3, <1>4 DEF ProcShape
  <2>3. QED BY <2>1, <2>2 DEF ProcShape, Request
<1>6. QED BY <1>3, <1>4, <1>5 DEF Moved

(* Begin fills an idle handler in. *)
LEMMA BeginMoves ==
  ASSUME ProcShape, NEW h \in Handler, NEW pc, NEW u, NEW ref, NEW seen, Begin(h, pc, u, ref, seen)
  PROVE  Moved(h, pc, u, ref, seen) /\ proc[h].pc = "idle" /\ UNCHANGED members
BY Replaced DEF Begin, At

(* Goto moves the program counter alone. *)
LEMMA GotoMoves ==
  ASSUME ProcShape, NEW h \in Handler, NEW pc, Goto(h, pc)
  PROVE  Moved(h, pc, proc[h].user, proc[h].ref, proc[h].seen) /\ UNCHANGED members
<1>1. [proc[h] EXCEPT !.pc = pc] =
        [pc |-> pc, user |-> proc[h].user, ref |-> proc[h].ref, seen |-> proc[h].seen]
  <2>1. PICK r : r = proc[h]
    OBVIOUS
  <2>2. PICK p, u, f, s : p = r.pc /\ u = r.user /\ f = r.ref /\ s = r.seen
    OBVIOUS
  <2>3. r = [pc |-> p, user |-> u, ref |-> f, seen |-> s]
    BY <2>1, <2>2 DEF ProcShape, Request
  <2>4. QED BY <2>1, <2>2, <2>3
<1>2. QED BY <1>1, Replaced DEF Goto

(* GotoWith also replaces what the request has read. *)
LEMMA GotoWithMoves ==
  ASSUME ProcShape, NEW h \in Handler, NEW pc, NEW seen, GotoWith(h, pc, seen)
  PROVE  Moved(h, pc, proc[h].user, proc[h].ref, seen) /\ UNCHANGED members
<1>1. [[proc[h] EXCEPT !.pc = pc] EXCEPT !.seen = seen] =
        [pc |-> pc, user |-> proc[h].user, ref |-> proc[h].ref, seen |-> seen]
  <2>1. PICK r : r = proc[h]
    OBVIOUS
  <2>2. PICK p, u, f, s : p = r.pc /\ u = r.user /\ f = r.ref /\ s = r.seen
    OBVIOUS
  <2>3. r = [pc |-> p, user |-> u, ref |-> f, seen |-> s]
    BY <2>1, <2>2 DEF ProcShape, Request
  <2>4. PICK q : q = [r EXCEPT !.pc = pc]
    OBVIOUS
  <2>5. q = [pc |-> pc, user |-> u, ref |-> f, seen |-> s]
    BY <2>3, <2>4
  <2>6. [q EXCEPT !.seen = seen] = [pc |-> pc, user |-> u, ref |-> f, seen |-> seen]
    BY <2>5
  <2>7. QED BY <2>1, <2>2, <2>4, <2>6
<1>2. proc' = [proc EXCEPT ![h] = [[proc[h] EXCEPT !.pc = pc] EXCEPT !.seen = seen]]
  BY DEF GotoWith, ProcShape
<1>3. QED BY <1>1, <1>2, Replaced DEF GotoWith

(* A step that moves the program counter and the row it is about.          *)
LEMMA RefMoves ==
  ASSUME ProcShape, NEW h \in Handler, NEW pc, NEW ref,
         proc' = [proc EXCEPT ![h].pc = pc, ![h].ref = ref]
  PROVE  Moved(h, pc, proc[h].user, ref, proc[h].seen)
<1>1. [[proc[h] EXCEPT !.pc = pc] EXCEPT !.ref = ref] =
        [pc |-> pc, user |-> proc[h].user, ref |-> ref, seen |-> proc[h].seen]
  <2>1. PICK r : r = proc[h]
    OBVIOUS
  <2>2. PICK p, u, f, s : p = r.pc /\ u = r.user /\ f = r.ref /\ s = r.seen
    OBVIOUS
  <2>3. r = [pc |-> p, user |-> u, ref |-> f, seen |-> s]
    BY <2>1, <2>2 DEF ProcShape, Request
  <2>4. PICK q : q = [r EXCEPT !.pc = pc]
    OBVIOUS
  <2>5. q = [pc |-> pc, user |-> u, ref |-> f, seen |-> s]
    BY <2>3, <2>4
  <2>6. [q EXCEPT !.ref = ref] = [pc |-> pc, user |-> u, ref |-> ref, seen |-> s]
    BY <2>5
  <2>7. QED BY <2>1, <2>2, <2>4, <2>6
<1>2. proc' = [proc EXCEPT ![h] = [[proc[h] EXCEPT !.pc = pc] EXCEPT !.ref = ref]]
  BY DEF ProcShape
<1>3. QED BY <1>1, <1>2, Replaced

(* A step that moves all but the user.                                     *)
LEMMA AllMoves ==
  ASSUME ProcShape, NEW h \in Handler, NEW pc, NEW seen, NEW ref,
         proc' = [proc EXCEPT ![h].pc = pc, ![h].seen = seen, ![h].ref = ref]
  PROVE  Moved(h, pc, proc[h].user, ref, seen)
<1>1. [[[proc[h] EXCEPT !.pc = pc] EXCEPT !.seen = seen] EXCEPT !.ref = ref] =
        [pc |-> pc, user |-> proc[h].user, ref |-> ref, seen |-> seen]
  <2>1. PICK r : r = proc[h]
    OBVIOUS
  <2>2. PICK p, u, f, s : p = r.pc /\ u = r.user /\ f = r.ref /\ s = r.seen
    OBVIOUS
  <2>3. r = [pc |-> p, user |-> u, ref |-> f, seen |-> s]
    BY <2>1, <2>2 DEF ProcShape, Request
  <2>4. PICK q : q = [r EXCEPT !.pc = pc]
    OBVIOUS
  <2>5. q = [pc |-> pc, user |-> u, ref |-> f, seen |-> s]
    BY <2>3, <2>4
  <2>6. PICK q2 : q2 = [q EXCEPT !.seen = seen]
    OBVIOUS
  <2>7. q2 = [pc |-> pc, user |-> u, ref |-> f, seen |-> seen]
    BY <2>5, <2>6
  <2>8. [q2 EXCEPT !.ref = ref] = [pc |-> pc, user |-> u, ref |-> ref, seen |-> seen]
    BY <2>7
  <2>9. QED BY <2>1, <2>2, <2>4, <2>6, <2>8
<1>2. proc' = [proc EXCEPT ![h] = [[[proc[h] EXCEPT !.pc = pc] EXCEPT !.seen = seen] EXCEPT !.ref = ref]]
  BY DEF ProcShape
<1>3. QED BY <1>1, <1>2, Replaced

(* A step that moves only the rows the request is about.                   *)
LEMMA RefAloneMoves ==
  ASSUME ProcShape, NEW h \in Handler, NEW ref, proc' = [proc EXCEPT ![h].ref = ref]
  PROVE  Moved(h, proc[h].pc, proc[h].user, ref, proc[h].seen)
<1>1. [proc[h] EXCEPT !.ref = ref] =
        [pc |-> proc[h].pc, user |-> proc[h].user, ref |-> ref, seen |-> proc[h].seen]
  <2>1. PICK r : r = proc[h]
    OBVIOUS
  <2>2. PICK p, u, f, s : p = r.pc /\ u = r.user /\ f = r.ref /\ s = r.seen
    OBVIOUS
  <2>3. r = [pc |-> p, user |-> u, ref |-> f, seen |-> s]
    BY <2>1, <2>2 DEF ProcShape, Request
  <2>4. [r EXCEPT !.ref = ref] = [pc |-> p, user |-> u, ref |-> ref, seen |-> s]
    BY <2>3
  <2>5. QED BY <2>1, <2>2, <2>4
<1>2. QED BY <1>1, Replaced

(* Finish leaves the handler idle. *)
LEMMA FinishMoves ==
  ASSUME ProcShape, NEW h \in Handler, Finish(h)
  PROVE  Moved(h, "idle", None, None, None) /\ UNCHANGED members
BY Replaced DEF Finish, Idle

(* At the start every handler is idle. *)
LEMMA InitShape ==
  ASSUME RequestsInit
  PROVE  /\ ProcShape
         /\ \A h \in Handler : /\ proc[h].pc = "idle" /\ proc[h].user = None
                               /\ proc[h].ref = None /\ proc[h].seen = None
BY DEF RequestsInit, Idle, ProcShape, Request

(* A set of numbers with 0 and with the successor of each of its members   *)
(* has all of them.                                                        *)
LEMMA Induction ==
  ASSUME NEW S, 0 \in S, \A n \in Nat : n \in S => n + 1 \in S
  PROVE  Nat \subseteq S
<1>1. SUFFICES ASSUME Nat \ S # {} PROVE FALSE
  OBVIOUS
<1>2. PICK m \in Nat \ S : \A y \in Nat \ S : ~(y < m)
  <2>1. PICK m \in Nat \ S : \A y \in Nat \ S : <<y, m>> \notin OpToRel(<, Nat)
    BY <1>1, NatLessThanWellFounded, WFMin, Zenon
  <2>2. \A y \in Nat \ S : ~(y < m)
    BY <2>1, Zenon DEF OpToRel
  <2>3. QED BY <2>2
<1>3. m # 0 /\ m - 1 \in Nat /\ m - 1 < m
  BY <1>2
<1>4. m - 1 \in S
  BY <1>2, <1>3
<1>5. QED BY <1>2, <1>3, <1>4

(* n has happened, each member of S may still make it happen once, and no  *)
(* more than r of them were ever asked for.                                *)
Fits(n, S, r) == n \in Nat /\ r \in Nat /\ IsFiniteSet(S) /\ n + Cardinality(S) <= r

(* Members of S may give up, a new request may join them, and one of them  *)
(* may do what it was asked for.                                           *)
LEMMA FitsKept ==
  ASSUME NEW n, NEW S, NEW r, Fits(n, S, r)
  PROVE  /\ n <= r
         /\ \A T \in SUBSET S : Fits(n, T, r) /\ Fits(n, T, r + 1)
         /\ \A x : Fits(n, S \cup {x}, r + 1)
         /\ \A x \in S : Fits(n + 1, S \ {x}, r)
<1> USE DEF Fits
<1>1. Cardinality(S) \in Nat
  BY FS_CardinalityType
<1>2. ASSUME NEW T \in SUBSET S PROVE Fits(n, T, r) /\ Fits(n, T, r + 1)
  <2>1. IsFiniteSet(T) /\ Cardinality(T) \in Nat /\ Cardinality(T) <= Cardinality(S)
    BY FS_Subset, FS_CardinalityType
  <2>2. QED BY <1>1, <2>1
<1>3. ASSUME NEW x PROVE Fits(n, S \cup {x}, r + 1)
  BY <1>1, FS_AddElement
<1>4. ASSUME NEW x \in S PROVE Fits(n + 1, S \ {x}, r)
  BY <1>1, FS_RemoveElement
<1>5. n <= r
  BY <1>1
<1>6. QED
  <2> HIDE DEF Fits
  <2>1. QED BY <1>2, <1>3, <1>4, <1>5

---------------------------------------------------------------------------
(* Polls.                                                                  *)

VotePcs == {"voteRead", "voteDelete", "voteClear", "voteCreate", "voteTell", "voteMe", "voteAnswer"}
Voting(h, u) == proc[h].pc \in VotePcs /\ proc[h].user = u

(* What each program counter knows.  A poll whose row is not there yet is  *)
(* created by the one request that posted its marker.                      *)
PollRequest(h) ==
  /\ proc[h].pc \in {"idle", "pollMarker", "pollRow"} \cup VotePcs
  /\ proc[h].pc \in {"pollMarker", "pollRow"} => proc[h].ref \in Poll /\ proc[h].seen \in BOOLEAN
  /\ proc[h].pc = "pollRow" =>
       /\ poll[proc[h].ref].state = "marker"
       /\ \A g \in Handler : proc[g].pc = "pollRow" /\ proc[g].ref = proc[h].ref => g = h
  /\ proc[h].pc \in VotePcs =>
       /\ proc[h].user \in User /\ proc[h].ref \in Poll \X Option \X User
       /\ proc[h].ref[3] = proc[h].user /\ poll[proc[h].ref[1]].state = "open"
  /\ proc[h].pc = "voteAnswer" =>
       proc[h].seen \in VoteRows /\ \A v \in proc[h].seen : v[1] = proc[h].ref[1]

(* Two votes of one user are under way at once only when that was noted. *)
VotesAlone ==
  \A u \in User \ overlapped : \A g, h \in Handler : Voting(g, u) /\ Voting(h, u) => g = h

(* What a single choice is about to insert replaces nothing: the clearing  *)
(* before it took all the voter had, and nobody else writes his votes.     *)
Cleared ==
  \A h \in Handler :
    /\ proc[h].pc = "voteCreate" /\ proc[h].user \notin overlapped
    /\ ~poll[proc[h].ref[1]].multiple
    => Own(proc[h].ref[1], proc[h].user) = {}

OneVote ==
  \A p \in Poll, u \in User :
    ~poll[p].multiple /\ u \notin overlapped => \A v, w \in Own(p, u) : v = w

(* A vote that will still tell the pages: one to be inserted, not one that *)
(* will find its row taken.                                                *)
Tells(h, p) ==
  /\ proc[h].pc = "voteTell" \/ (proc[h].pc = "voteCreate" /\ proc[h].ref \notin votes)
  /\ proc[h].ref[1] = p
WillTell(p) == \E h \in Handler : Tells(h, p)

UpToDate(rows, p) == Of(p, rows) = Of(p, votes) \/ WillTell(p)

(* What a page shows, and what is on its way to it. *)
CardsRight ==
  \A u \in members, p \in Poll :
    /\ <<u, p>> \notin refetch \cup arriving \cup behind => UpToDate(shown[u], p)
    /\ <<u, p>> \in arriving \ behind => UpToDate(read[u], p)

PollsInv ==
  /\ ProcShape /\ members \subseteq User /\ PollsTypeOK
  /\ \A h \in Handler : PollRequest(h)
  /\ VotesAlone /\ Cleared /\ OneVote /\ CardsRight

---------------------------------------------------------------------------
(* A card that a step neither shows anew nor makes out of date.            *)
LEMMA CardsKept ==
  ASSUME PollsInv, NEW h \in Handler, NEW pc, NEW u, NEW ref, NEW seen,
         Moved(h, pc, u, ref, seen), UNCHANGED <<votes, shown, read, members>>,
         refetch \cup arriving \cup behind \subseteq (refetch \cup arriving \cup behind)',
         (arriving \ behind)' \subseteq arriving \ behind,
         \A p \in Poll : Tells(h, p) =>
           Tells(h, p)' \/ \A v \in members : <<v, p>> \in (refetch' \ arriving') \cup behind'
  PROVE  CardsRight'
<1>1. ASSUME NEW p \in Poll, WillTell(p)
      PROVE  WillTell(p)' \/ \A v \in members : <<v, p>> \in (refetch' \ arriving') \cup behind'
  <2>1. PICK g \in Handler : Tells(g, p)
    BY <1>1 DEF WillTell
  <2>2. CASE g = h
    BY <2>1, <2>2 DEF WillTell
  <2>3. CASE g # h
    BY <2>1, <2>3 DEF WillTell, Tells, Moved
  <2>4. QED BY <2>2, <2>3
<1>2. \A p, rows : (Of(p, rows) = Of(p, votes))' <=> (Of(p, rows') = Of(p, votes))
  BY DEF Of
<1>3. QED BY <1>1, <1>2 DEF PollsInv, CardsRight, UpToDate, Of

(* A page shows what it fetched, and nothing else of the poll.             *)
LEMMA Showing ==
  ASSUME shown \in [User -> VoteRows], NEW u \in User, NEW p \in Poll, NEW rows \in VoteRows,
         \A v \in rows : v[1] = p, Show(u, p, rows)
  PROVE  /\ shown' \in [User -> VoteRows] /\ Of(p, shown'[u]) = rows
         /\ \A v \in User, q \in Poll : v # u \/ q # p => Of(q, shown'[v]) = Of(q, shown[v])
<1>1. shown' = [shown EXCEPT ![u] = (shown[u] \ Of(p, shown[u])) \cup rows]
  BY DEF Show
<1>2. (shown[u] \ Of(p, shown[u])) \cup rows \in VoteRows
  BY DEF VoteRows
<1>3. QED BY <1>1, <1>2 DEF Of

(* The cards of the members through every step.                            *)
LEMMA CardsStep ==
  ASSUME PollsInv, PollsNext
  PROVE  CardsRight'
<1> USE DEF PollsInv
<1>1. ASSUME NEW h \in Handler, NEW u \in User, NEW p \in Poll, NEW m \in BOOLEAN,
             BeginCreatePoll(h, u, p, m)
      PROVE  CardsRight'
  <2>1. Moved(h, "pollMarker", u, p, m) /\ proc[h].pc = "idle" /\ UNCHANGED members
    BY <1>1, BeginMoves DEF BeginCreatePoll
  <2>2. QED BY <1>1, <2>1, CardsKept DEF BeginCreatePoll, Tells, pollsVars
<1>2. ASSUME NEW h \in Handler, PostMarker(h) PROVE CardsRight'
  <2>1. Moved(h, "pollRow", proc[h].user, proc[h].ref, proc[h].seen) /\ UNCHANGED members
    BY <1>2, GotoMoves DEF PostMarker
  <2>2. QED BY <1>2, <2>1, CardsKept DEF PostMarker, Tells, At
<1>3. ASSUME NEW h \in Handler, CreatePoll(h) PROVE CardsRight'
  <2>1. Moved(h, "idle", None, None, None) /\ UNCHANGED members
    BY <1>3, FinishMoves DEF CreatePoll
  <2>2. QED BY <1>3, <2>1, CardsKept DEF CreatePoll, Tells, At
<1>4. ASSUME NEW h \in Handler, NEW u \in User, NEW p \in Poll, NEW o \in Option,
             BeginVote(h, u, p, o)
      PROVE  CardsRight'
  <2>1. Moved(h, "voteRead", u, <<p, o, u>>, None) /\ proc[h].pc = "idle" /\ UNCHANGED members
    BY <1>4, BeginMoves DEF BeginVote
  <2>2. QED BY <1>4, <2>1, CardsKept DEF BeginVote, Tells
<1>5. ASSUME NEW h \in Handler, ReadVote(h) PROVE CardsRight'
  <2>1. PICK pc \in {"voteDelete", "voteClear", "voteCreate"} : Goto(h, pc)
    BY <1>5 DEF ReadVote
  <2>2. Moved(h, pc, proc[h].user, proc[h].ref, proc[h].seen) /\ UNCHANGED members
    BY <2>1, GotoMoves
  <2>3. QED BY <1>5, <2>2, CardsKept DEF ReadVote, Tells, At, pollsVars
<1>6. ASSUME NEW h \in Handler, ClearVotes(h) \/ ChangeVote(h) PROVE CardsRight'
  <2>1. PICK pc \in {"voteCreate", "voteTell"} :
          /\ Goto(h, pc) /\ UNCHANGED <<shown, read, refetch, arriving, behind>>
          /\ \A v : (v \in votes') # (v \in votes) => v[1] = proc[h].ref[1]
          /\ pc = "voteCreate" => proc[h].ref \notin votes'
    <3>1. CASE ClearVotes(h)
      <4>1. proc[h].ref \notin votes'
        BY <3>1 DEF ClearVotes, At, Own, PollRequest, VotePcs
      <4>2. QED BY <3>1, <4>1 DEF ClearVotes, Own
    <3>2. CASE ChangeVote(h)
      BY <3>2 DEF ChangeVote
    <3>3. QED BY <1>6, <3>1, <3>2
  <2>2. Moved(h, pc, proc[h].user, proc[h].ref, proc[h].seen) /\ UNCHANGED members
    BY <2>1, GotoMoves
  <2>3. \A p \in Poll : p = proc[h].ref[1] => WillTell(p)'
    BY <2>1, <2>2 DEF WillTell, Tells, Moved
  <2>4. ASSUME NEW p \in Poll, p # proc[h].ref[1]
        PROVE  Of(p, votes') = Of(p, votes) /\ (WillTell(p) => WillTell(p)')
    <3>1. Of(p, votes') = Of(p, votes)
      BY <2>1, <2>4 DEF Of
    <3>2. SUFFICES ASSUME WillTell(p) PROVE WillTell(p)'
      BY <3>1
    <3>3. PICK g \in Handler : Tells(g, p)
      BY <3>2 DEF WillTell
    <3>4. g # h /\ proc'[g] = proc[g]
      BY <2>2, <2>4, <3>3 DEF Tells, Moved
    <3>5. proc[g].ref \notin votes => proc[g].ref \notin votes'
      BY <2>1, <2>4, <3>3 DEF Tells
    <3>6. QED BY <3>3, <3>4, <3>5 DEF WillTell, Tells
  <2>5. QED BY <2>1, <2>2, <2>3, <2>4 DEF CardsRight, UpToDate, Of
<1>7. ASSUME NEW h \in Handler, VoteLost(h) PROVE CardsRight'
  <2>1. Moved(h, "idle", None, None, None) /\ UNCHANGED members
    BY <1>7, FinishMoves DEF VoteLost
  <2>2. QED BY <1>7, <2>1, CardsKept DEF VoteLost, Tells, At, pollsVars
<1>8. ASSUME NEW h \in Handler, TellVote(h) PROVE CardsRight'
  <2>1. Moved(h, "voteMe", proc[h].user, proc[h].ref, proc[h].seen) /\ UNCHANGED members
    BY <1>8, GotoMoves DEF TellVote
  <2>2. PICK reached \in SUBSET members :
          /\ refetch' = refetch \cup (reached \X {proc[h].ref[1]})
          /\ arriving' = arriving \ (reached \X {proc[h].ref[1]})
          /\ behind' = behind \cup ((members \ reached) \X {proc[h].ref[1]})
    BY <1>8 DEF TellVote
  <2>3. refetch \cup arriving \cup behind \subseteq (refetch \cup arriving \cup behind)'
    BY <2>2
  <2>4. (arriving \ behind)' \subseteq arriving \ behind
    BY <2>2
  <2>5. \A v \in members : <<v, proc[h].ref[1]>> \in (refetch' \ arriving') \cup behind'
    BY <2>2
  <2>6. UNCHANGED <<votes, shown, read>>
    BY <1>8 DEF TellVote
  <2>7. QED BY <2>1, <2>3, <2>4, <2>5, <2>6, CardsKept DEF Tells
<1>9. ASSUME NEW h \in Handler, VoteDies(h) PROVE CardsRight'
  <2>1. Moved(h, "idle", None, None, None) /\ UNCHANGED members
    BY <1>9, FinishMoves DEF VoteDies, Die
  <2>2. QED BY <1>9, <2>1, CardsKept DEF VoteDies, Tells
<1>10. ASSUME NEW h \in Handler, ReadAnswer(h) PROVE CardsRight'
  <2>1. PICK pc, u, ref, seen :
          Moved(h, pc, u, ref, seen) /\ pc \in {"voteAnswer", "idle"} /\ UNCHANGED members
    BY <1>10, GotoWithMoves, FinishMoves DEF ReadAnswer
  <2>2. QED BY <1>10, <2>1, CardsKept DEF ReadAnswer, Tells, At, pollsVars
<1>11. ASSUME NEW h \in Handler, TakeAnswer(h) PROVE CardsRight'
  <2>0. PICK u, p : u = proc[h].user /\ p = proc[h].ref[1]
    OBVIOUS
  <2>1. /\ Moved(h, "idle", None, None, None)
        /\ UNCHANGED <<members, votes, refetch, arriving, read>>
    BY <1>11, FinishMoves DEF TakeAnswer
  <2>2. /\ u \in User /\ p \in Poll /\ proc[h].seen \in VoteRows
        /\ \A v \in proc[h].seen : v[1] = p
    BY <1>11, <2>0 DEF TakeAnswer, At, PollRequest, VotePcs
  <2>3. /\ Of(p, shown'[u]) = proc[h].seen
        /\ \A v \in User, q \in Poll : v # u \/ q # p => Of(q, shown'[v]) = Of(q, shown[v])
    BY <1>11, <2>0, <2>2, Showing DEF TakeAnswer, PollsTypeOK
  <2>4. proc[h].seen = Of(p, votes) \/ <<u, p>> \in behind'
    BY <1>11, <2>0 DEF TakeAnswer
  <2>5. /\ \A v \in User, q \in Poll : v # u \/ q # p => (<<v, q>> \in behind <=> <<v, q>> \in behind')
        /\ <<u, p>> \in arriving \ behind' => <<u, p>> \notin behind
    BY <1>11, <2>0 DEF TakeAnswer
  <2>6. \A q \in Poll : WillTell(q) => WillTell(q)'
    BY <1>11, <2>1 DEF TakeAnswer, At, WillTell, Tells, Moved
  <2>7. ASSUME NEW v \in members', NEW q \in Poll, v # u \/ q # p
        PROVE  /\ (<<v, q>> \notin refetch \cup arriving \cup behind => UpToDate(shown[v], q))'
               /\ (<<v, q>> \in arriving \ behind => UpToDate(read[v], q))'
    BY <2>1, <2>3, <2>5, <2>6, <2>7 DEF CardsRight, UpToDate, Of
  <2>8. <<u, p>> \notin (refetch \cup arriving \cup behind)' => UpToDate(shown[u], p)'
    BY <2>1, <2>3, <2>4 DEF UpToDate, Of
  <2>9. u \in members /\ <<u, p>> \in (arriving \ behind)' => UpToDate(read[u], p)'
    BY <2>1, <2>2, <2>5, <2>6 DEF CardsRight, UpToDate, Of
  <2>10. QED BY <2>1, <2>7, <2>8, <2>9 DEF CardsRight, UpToDate, Of
<1>12. ASSUME NEW u \in User, NEW p \in Poll, ReadPoll(u, p) PROVE CardsRight'
  <2>1. UNCHANGED <<proc, members, votes, shown, behind>>
    BY <1>12 DEF ReadPoll, requestVars
  <2>2. CASE u \in members
    <3>1. /\ arriving' = arriving \cup {<<u, p>>} /\ refetch' = refetch \ {<<u, p>>}
          /\ read' = [read EXCEPT ![u] = (read[u] \ Of(p, read[u])) \cup Of(p, votes)]
      BY <1>12, <2>2 DEF ReadPoll
    <3>2. /\ Of(p, read'[u]) = Of(p, votes)
          /\ \A v \in User, q \in Poll : v # u \/ q # p => Of(q, read'[v]) = Of(q, read[v])
      BY <3>1 DEF PollsTypeOK, Of
    <3>3. \A q \in Poll : WillTell(q)' <=> WillTell(q)
      BY <2>1 DEF WillTell, Tells
    <3>4. UpToDate(read[u], p)'
      BY <2>1, <3>2 DEF UpToDate, Of
    <3>5. ASSUME NEW v \in members', NEW q \in Poll, v # u \/ q # p
          PROVE  /\ (<<v, q>> \notin refetch \cup arriving \cup behind => UpToDate(shown[v], q))'
                 /\ (<<v, q>> \in arriving \ behind => UpToDate(read[v], q))'
      BY <2>1, <3>1, <3>2, <3>3, <3>5 DEF CardsRight, UpToDate, Of
    <3>6. QED BY <3>1, <3>4, <3>5 DEF CardsRight
  <2>3. CASE u \notin members
    BY <1>12, <2>1, <2>3 DEF ReadPoll, CardsRight, UpToDate, WillTell, Tells, Of
  <2>4. QED BY <2>2, <2>3
<1>13. ASSUME NEW u \in User, NEW p \in Poll, TakePoll(u, p) PROVE CardsRight'
  <2>1. /\ UNCHANGED <<proc, members, votes, refetch>> /\ arriving' = arriving \ {<<u, p>>}
        /\ read' = [read EXCEPT ![u] = read[u] \ Of(p, read[u])] /\ Of(p, read[u]) \in VoteRows
        /\ behind' = IF Of(p, read[u]) = Of(p, votes) THEN behind \ {<<u, p>>} ELSE behind
    BY <1>13 DEF TakePoll, requestVars, Of, PollsTypeOK, VoteRows
  <2>2. /\ Of(p, shown'[u]) = Of(p, read[u])
        /\ \A v \in User, q \in Poll : v # u \/ q # p => Of(q, shown'[v]) = Of(q, shown[v])
    BY <1>13, <2>1, Showing DEF TakePoll, PollsTypeOK, Of
  <2>3. \A v \in User, q \in Poll : v # u \/ q # p => Of(q, read'[v]) = Of(q, read[v])
    BY <2>1 DEF PollsTypeOK, Of
  <2>4. \A q \in Poll : WillTell(q)' <=> WillTell(q)
    BY <2>1 DEF WillTell, Tells
  <2>5. \A v \in User, q \in Poll : v # u \/ q # p =>
          /\ <<v, q>> \in behind' <=> <<v, q>> \in behind
          /\ <<v, q>> \in arriving' <=> <<v, q>> \in arriving
    BY <2>1
  <2>6. ASSUME NEW v \in members', NEW q \in Poll, v # u \/ q # p
        PROVE  /\ (<<v, q>> \notin refetch \cup arriving \cup behind => UpToDate(shown[v], q))'
               /\ (<<v, q>> \in arriving \ behind => UpToDate(read[v], q))'
    BY <2>1, <2>2, <2>3, <2>4, <2>5, <2>6 DEF CardsRight, UpToDate, Of
  <2>7. <<u, p>> \in arriving /\ <<u, p>> \notin arriving'
    BY <1>13, <2>1 DEF TakePoll
  <2>8. u \in members /\ <<u, p>> \notin behind' => UpToDate(shown[u], p)'
    <3>1. u \in members /\ <<u, p>> \notin behind => UpToDate(read[u], p)
      BY <2>7 DEF CardsRight
    <3>2. Of(p, votes') = Of(p, votes)
      BY <2>1
    <3>3. QED BY <2>1, <2>2, <2>4, <3>1, <3>2 DEF UpToDate, Of
  <2>9. QED BY <2>1, <2>6, <2>7, <2>8 DEF CardsRight, UpToDate, Of
<1>14. ASSUME NEW u \in User, RemoveFromChannel(u), UNCHANGED pollsVars PROVE CardsRight'
  BY <1>14 DEF RemoveFromChannel, pollsVars, CardsRight, UpToDate, Of, WillTell, Tells
<1>15. QED
  BY <1>1, <1>2, <1>3, <1>4, <1>5, <1>6, <1>7, <1>8, <1>9, <1>10, <1>11, <1>12, <1>13, <1>14
     DEF PollsNext, VoteSteps

(* The rows and the pages keep their types; only votes of open polls are   *)
(* stored.                                                                 *)
LEMMA PollsTypes ==
  ASSUME PollsInv, PollsNext
  PROVE  PollsTypeOK'
<1> USE DEF PollsInv, PollsTypeOK
<1>1. ASSUME UNCHANGED <<poll, votes, shown, read>>, (refetch \cup arriving)' \subseteq User \X Poll,
             overlapped' \subseteq User, behind' \subseteq User \X Poll
      PROVE  PollsTypeOK'
  BY <1>1
<1>2. ASSUME NEW h \in Handler, PostMarker(h) \/ CreatePoll(h) PROVE PollsTypeOK'
  <2>1. PICK state \in {"marker", "open"}, m \in BOOLEAN :
          /\ poll' = [poll EXCEPT ![proc[h].ref] = [state |-> state, multiple |-> m]]
          /\ poll[proc[h].ref].state # "open" /\ proc[h].ref \in Poll
          /\ UNCHANGED <<votes, shown, refetch, arriving, read, overlapped, behind>>
    <3>1. CASE PostMarker(h)
      <4>1. proc[h].ref \in Poll /\ poll[proc[h].ref].state = "none"
        BY <3>1 DEF PostMarker, At, PollRequest
      <4>2. PICK r \in PollRecord : r = poll[proc[h].ref]
        BY <4>1
      <4>3. [r EXCEPT !.state = "marker"] = [state |-> "marker", multiple |-> r.multiple]
        BY DEF PollRecord
      <4>4. r.multiple \in BOOLEAN
        BY DEF PollRecord
      <4>5. QED BY <3>1, <4>1, <4>2, <4>3, <4>4 DEF PostMarker
    <3>2. CASE CreatePoll(h)
      BY <3>2 DEF CreatePoll, At, PollRequest
    <3>3. QED BY <1>2, <3>1, <3>2
  <2>2. [state |-> state, multiple |-> m] \in PollRecord /\ state \in {"marker", "open"}
    BY DEF PollRecord
  <2>3. poll' \in [Poll -> PollRecord]
    BY <2>1, <2>2
  <2>4. \A v \in votes : v[1] # proc[h].ref
    BY <2>1
  <2>5. \A v \in votes : poll'[v[1]].state = "open"
    BY <2>1, <2>4 DEF VoteRows
  <2>6. QED BY <2>1, <2>3, <2>5
<1>3. ASSUME NEW h \in Handler, ClearVotes(h) \/ ChangeVote(h) PROVE PollsTypeOK'
  <2>1. votes' \in VoteRows /\ (\A v \in votes' : v \in votes \/ v = proc[h].ref)
    BY <1>3 DEF ClearVotes, ChangeVote, At, PollRequest, VotePcs, VoteRows
  <2>2. \A v \in votes' : poll[v[1]].state = "open"
    BY <1>3, <2>1 DEF ClearVotes, ChangeVote, At, PollRequest, VotePcs
  <2>3. QED BY <1>3, <2>1, <2>2 DEF ClearVotes, ChangeVote
<1>4. ASSUME NEW h \in Handler, TakeAnswer(h) PROVE PollsTypeOK'
  <2>1. proc[h].user \in User /\ proc[h].ref[1] \in Poll /\ shown' \in [User -> VoteRows]
    BY <1>4, Showing DEF TakeAnswer, At, PollRequest, VotePcs
  <2>2. QED BY <1>4, <2>1 DEF TakeAnswer
<1>5. ASSUME NEW u \in User, NEW p \in Poll, ReadPoll(u, p) PROVE PollsTypeOK'
  <2>1. Of(p, votes) \in VoteRows /\ Of(p, read[u]) \in VoteRows
    BY DEF Of, VoteRows
  <2>2. read' \in [User -> VoteRows]
    BY <1>5, <2>1 DEF ReadPoll, VoteRows
  <2>3. QED BY <1>5, <2>2 DEF ReadPoll
<1>6. ASSUME NEW h \in Handler, TellVote(h) PROVE PollsTypeOK'
  <2>1. proc[h].ref[1] \in Poll
    BY <1>6 DEF TellVote, At, PollRequest, VotePcs
  <2>2. QED BY <1>1, <1>6, <2>1 DEF TellVote
<1>7. ASSUME NEW h \in Handler, VoteDies(h) PROVE PollsTypeOK'
  <2>1. proc[h].pc \in {"voteCreate", "voteTell"} => proc[h].ref[1] \in Poll
    BY DEF PollRequest, VotePcs
  <2>2. QED BY <1>1, <1>7, <2>1 DEF VoteDies
<1>8. ASSUME NEW u \in User, NEW p \in Poll, TakePoll(u, p) PROVE PollsTypeOK'
  <2>1. Of(p, read[u]) \in VoteRows /\ \A v \in Of(p, read[u]) : v[1] = p
    BY DEF Of, VoteRows
  <2>2. shown' \in [User -> VoteRows]
    BY <1>8, <2>1, Showing DEF TakePoll
  <2>3. read' \in [User -> VoteRows]
    BY <1>8 DEF TakePoll, VoteRows
  <2>4. QED BY <1>8, <2>2, <2>3 DEF TakePoll
<1>9. QED
  BY <1>1, <1>2, <1>3, <1>4, <1>5, <1>6, <1>7, <1>8
     DEF PollsNext, VoteSteps, BeginCreatePoll, BeginVote, ReadVote, VoteLost, ReadAnswer, pollsVars

(* Every step keeps the polls right.                                       *)
LEMMA PollsStep ==
  ASSUME PollsInv, PollsNext
  PROVE  PollsInv'
<1> DEFINE Rest == /\ ProcShape /\ members \subseteq User
                   /\ \A g \in Handler : PollRequest(g)
                   /\ VotesAlone /\ Cleared /\ OneVote
<1> USE RequestsAssumption DEF PollsInv
<1>1. ASSUME NEW h \in Handler, NEW u \in User, NEW p \in Poll, NEW m \in BOOLEAN,
             BeginCreatePoll(h, u, p, m)
      PROVE  Rest'
  <2>1. Moved(h, "pollMarker", u, p, m) /\ UNCHANGED members
    BY <1>1, BeginMoves DEF BeginCreatePoll
  <2> USE <1>1, <2>1 DEF Moved, BeginCreatePoll, At, pollsVars, PollRequest, VotePcs
  <2>2. \A g \in Handler : PollRequest(g)'
    BY DEF PollsTypeOK, VoteRows, PollRecord, Of
  <2>3. VotesAlone'
    BY DEF VotesAlone, Voting
  <2>4. Cleared'
    BY DEF Cleared, Own, VotesAlone, Voting, PollsTypeOK, VoteRows
  <2>5. OneVote'
    BY DEF OneVote, Own, Cleared, PollsTypeOK, VoteRows
  <2>6. QED BY <2>2, <2>3, <2>4, <2>5
<1>2. ASSUME NEW h \in Handler, PostMarker(h)
      PROVE  Rest'
  <2>1. Moved(h, "pollRow", proc[h].user, proc[h].ref, proc[h].seen) /\ UNCHANGED members
    BY <1>2, GotoMoves DEF PostMarker
  <2> USE <1>2, <2>1 DEF Moved, PostMarker, At, pollsVars, PollRequest, VotePcs
  <2>2. proc[h].ref \in Poll /\ poll[proc[h].ref].state # "open" /\ \A p \in Poll \ {proc[h].ref} : poll'[p] = poll[p]
    BY DEF PollsTypeOK
  <2>3. \A u \in User : Own(proc[h].ref, u) = {}
    BY <2>2 DEF PollsTypeOK, Own
  <2>4. \A g \in Handler : PollRequest(g)'
    BY DEF PollsTypeOK, VoteRows, PollRecord, Of
  <2>5. VotesAlone'
    BY DEF VotesAlone, Voting
  <2>6. Cleared'
    BY DEF Cleared, Own, VotesAlone, Voting, PollsTypeOK, VoteRows
  <2>7. OneVote'
    BY DEF OneVote, Own, Cleared, PollsTypeOK, VoteRows
  <2>8. QED BY <2>4, <2>5, <2>6, <2>7
<1>3. ASSUME NEW h \in Handler, CreatePoll(h)
      PROVE  Rest'
  <2>1. Moved(h, "idle", None, None, None) /\ UNCHANGED members
    BY <1>3, FinishMoves DEF CreatePoll
  <2> USE <1>3, <2>1 DEF Moved, CreatePoll, At, pollsVars, PollRequest, VotePcs
  <2>2. proc[h].ref \in Poll /\ poll[proc[h].ref].state # "open" /\ \A p \in Poll \ {proc[h].ref} : poll'[p] = poll[p]
    BY DEF PollsTypeOK
  <2>3. \A u \in User : Own(proc[h].ref, u) = {}
    BY <2>2 DEF PollsTypeOK, Own
  <2>4. \A g \in Handler : PollRequest(g)'
    BY DEF PollsTypeOK, VoteRows, PollRecord, Of
  <2>5. VotesAlone'
    BY DEF VotesAlone, Voting
  <2>6. Cleared'
    BY DEF Cleared, Own, VotesAlone, Voting, PollsTypeOK, VoteRows
  <2>7. OneVote'
    BY DEF OneVote, Own, Cleared, PollsTypeOK, VoteRows
  <2>8. QED BY <2>4, <2>5, <2>6, <2>7
<1>4. ASSUME NEW h \in Handler, NEW u \in User, NEW p \in Poll, NEW o \in Option,
             BeginVote(h, u, p, o)
      PROVE  Rest'
  <2>1. Moved(h, "voteRead", u, <<p, o, u>>, None) /\ UNCHANGED members
    BY <1>4, BeginMoves DEF BeginVote
  <2> USE <1>4, <2>1 DEF Moved, BeginVote, At, pollsVars, PollRequest, VotePcs
  <2>2. \A g \in Handler : PollRequest(g)'
    BY DEF PollsTypeOK, VoteRows, PollRecord, Of
  <2>3. VotesAlone'
    BY DEF VotesAlone, Voting
  <2>4. Cleared'
    BY DEF Cleared, Own, VotesAlone, Voting, PollsTypeOK, VoteRows
  <2>5. OneVote'
    BY DEF OneVote, Own, Cleared, PollsTypeOK, VoteRows
  <2>6. QED BY <2>2, <2>3, <2>4, <2>5
<1>5. ASSUME NEW h \in Handler, ReadVote(h)
      PROVE  Rest'
  <2>1. PICK pc \in {"voteDelete", "voteClear", "voteCreate"} :
          Goto(h, pc) /\ (pc = "voteCreate" => poll[proc[h].ref[1]].multiple)
    BY <1>5 DEF ReadVote
  <2>2. Moved(h, pc, proc[h].user, proc[h].ref, proc[h].seen) /\ UNCHANGED members
    BY <2>1, GotoMoves
  <2> USE <1>5, <2>1, <2>2 DEF Moved, ReadVote, At, pollsVars, PollRequest, VotePcs
  <2>3. \A g \in Handler : PollRequest(g)'
    BY DEF PollsTypeOK, VoteRows, PollRecord, Of
  <2>4. VotesAlone'
    BY DEF VotesAlone, Voting
  <2>5. Cleared'
    BY DEF Cleared, Own, VotesAlone, Voting, PollsTypeOK, VoteRows
  <2>6. OneVote'
    BY DEF OneVote, Own, Cleared, PollsTypeOK, VoteRows
  <2>7. QED BY <2>3, <2>4, <2>5, <2>6
<1>6. ASSUME NEW h \in Handler, ClearVotes(h)
      PROVE  Rest'
  <2>1. Moved(h, "voteCreate", proc[h].user, proc[h].ref, proc[h].seen)
        /\ UNCHANGED members
    BY <1>6, GotoMoves DEF ClearVotes
  <2> USE <1>6, <2>1 DEF Moved, ClearVotes, At, pollsVars, PollRequest, VotePcs
  <2>2. \A g \in Handler : PollRequest(g)'
    BY DEF PollsTypeOK, VoteRows, PollRecord, Of
  <2>3. VotesAlone'
    BY DEF VotesAlone, Voting
  <2>4. Cleared'
    BY DEF Cleared, Own, VotesAlone, Voting, PollsTypeOK, VoteRows
  <2>5. OneVote'
    BY DEF OneVote, Own, Cleared, PollsTypeOK, VoteRows
  <2>6. QED BY <2>2, <2>3, <2>4, <2>5
<1>7. ASSUME NEW h \in Handler, ChangeVote(h)
      PROVE  Rest'
  <2>1. Moved(h, "voteTell", proc[h].user, proc[h].ref, proc[h].seen)
        /\ UNCHANGED members
    BY <1>7, GotoMoves DEF ChangeVote
  <2> USE <1>7, <2>1 DEF Moved, ChangeVote, At, pollsVars, PollRequest, VotePcs
  <2>2. \A g \in Handler : PollRequest(g)'
    BY DEF PollsTypeOK, VoteRows, PollRecord, Of
  <2>3. VotesAlone'
    BY DEF VotesAlone, Voting
  <2>4. Cleared'
    BY DEF Cleared, Own, VotesAlone, Voting, PollsTypeOK, VoteRows
  <2>5. OneVote'
    BY DEF OneVote, Own, Cleared, PollsTypeOK, VoteRows
  <2>6. QED BY <2>2, <2>3, <2>4, <2>5
<1>8. ASSUME NEW h \in Handler, VoteLost(h)
      PROVE  Rest'
  <2>1. Moved(h, "idle", None, None, None) /\ UNCHANGED members
    BY <1>8, FinishMoves DEF VoteLost
  <2> USE <1>8, <2>1 DEF Moved, VoteLost, At, pollsVars, PollRequest, VotePcs
  <2>2. \A g \in Handler : PollRequest(g)'
    BY DEF PollsTypeOK, VoteRows, PollRecord, Of
  <2>3. VotesAlone'
    BY DEF VotesAlone, Voting
  <2>4. Cleared'
    BY DEF Cleared, Own, VotesAlone, Voting, PollsTypeOK, VoteRows
  <2>5. OneVote'
    BY DEF OneVote, Own, Cleared, PollsTypeOK, VoteRows
  <2>6. QED BY <2>2, <2>3, <2>4, <2>5
<1>9. ASSUME NEW h \in Handler, TellVote(h)
      PROVE  Rest'
  <2>1. Moved(h, "voteMe", proc[h].user, proc[h].ref, proc[h].seen) /\ UNCHANGED members
    BY <1>9, GotoMoves DEF TellVote
  <2> USE <1>9, <2>1 DEF Moved, TellVote, At, pollsVars, PollRequest, VotePcs
  <2>2. \A g \in Handler : PollRequest(g)'
    BY DEF PollsTypeOK, VoteRows, PollRecord, Of
  <2>3. VotesAlone'
    BY DEF VotesAlone, Voting
  <2>4. Cleared'
    BY DEF Cleared, Own, VotesAlone, Voting, PollsTypeOK, VoteRows
  <2>5. OneVote'
    BY DEF OneVote, Own, Cleared, PollsTypeOK, VoteRows
  <2>6. QED BY <2>2, <2>3, <2>4, <2>5
<1>16. ASSUME NEW h \in Handler, ReadAnswer(h), proc[h].user \notin members
      PROVE  Rest'
  <2>1. Moved(h, "idle", None, None, None) /\ UNCHANGED members
    BY <1>16, FinishMoves DEF ReadAnswer
  <2> USE <1>16, <2>1 DEF Moved, ReadAnswer, At, pollsVars, PollRequest, VotePcs
  <2>2. \A g \in Handler : PollRequest(g)'
    BY DEF PollsTypeOK, VoteRows, PollRecord, Of
  <2>3. VotesAlone'
    BY DEF VotesAlone, Voting
  <2>4. Cleared'
    BY DEF Cleared, Own, VotesAlone, Voting, PollsTypeOK, VoteRows
  <2>5. OneVote'
    BY DEF OneVote, Own, Cleared, PollsTypeOK, VoteRows
  <2>6. QED BY <2>2, <2>3, <2>4, <2>5
<1>17. ASSUME NEW h \in Handler, ReadAnswer(h), proc[h].user \in members
      PROVE  Rest'
  <2>1. Moved(h, "voteAnswer", proc[h].user, proc[h].ref, Of(proc[h].ref[1], votes))
        /\ UNCHANGED members
    BY <1>17, GotoWithMoves DEF ReadAnswer
  <2> USE <1>17, <2>1 DEF Moved, ReadAnswer, At, pollsVars, PollRequest, VotePcs
  <2>2. \A g \in Handler : PollRequest(g)'
    BY DEF PollsTypeOK, VoteRows, PollRecord, Of
  <2>3. VotesAlone'
    BY DEF VotesAlone, Voting
  <2>4. Cleared'
    BY DEF Cleared, Own, VotesAlone, Voting, PollsTypeOK, VoteRows
  <2>5. OneVote'
    BY DEF OneVote, Own, Cleared, PollsTypeOK, VoteRows
  <2>6. QED BY <2>2, <2>3, <2>4, <2>5
<1>10. ASSUME NEW h \in Handler, TakeAnswer(h)
      PROVE  Rest'
  <2>1. Moved(h, "idle", None, None, None) /\ UNCHANGED members
    BY <1>10, FinishMoves DEF TakeAnswer
  <2> USE <1>10, <2>1 DEF Moved, TakeAnswer, At, pollsVars, PollRequest, VotePcs
  <2>2. \A g \in Handler : PollRequest(g)'
    BY DEF PollsTypeOK, VoteRows, PollRecord, Of
  <2>3. VotesAlone'
    BY DEF VotesAlone, Voting
  <2>4. Cleared'
    BY DEF Cleared, Own, VotesAlone, Voting, PollsTypeOK, VoteRows
  <2>5. OneVote'
    BY DEF OneVote, Own, Cleared, PollsTypeOK, VoteRows
  <2>6. QED BY <2>2, <2>3, <2>4, <2>5
<1>11. ASSUME NEW h \in Handler, VoteDies(h)
      PROVE  Rest'
  <2>1. Moved(h, "idle", None, None, None) /\ UNCHANGED members
    BY <1>11, FinishMoves DEF VoteDies, Die
  <2> USE <1>11, <2>1 DEF Moved, VoteDies, At, pollsVars, PollRequest, VotePcs
  <2>2. \A g \in Handler : PollRequest(g)'
    BY DEF PollsTypeOK, VoteRows, PollRecord, Of
  <2>3. VotesAlone'
    BY DEF VotesAlone, Voting
  <2>4. Cleared'
    BY DEF Cleared, Own, VotesAlone, Voting, PollsTypeOK, VoteRows
  <2>5. OneVote'
    BY DEF OneVote, Own, Cleared, PollsTypeOK, VoteRows
  <2>6. QED BY <2>2, <2>3, <2>4, <2>5
<1>12. ASSUME NEW u \in User, NEW p \in Poll, ReadPoll(u, p) \/ TakePoll(u, p) PROVE Rest'
  BY <1>12 DEF ReadPoll, TakePoll, requestVars, ProcShape, PollRequest, VotesAlone, Voting, Cleared, OneVote, Own
<1>13. ASSUME NEW u \in User, RemoveFromChannel(u), UNCHANGED pollsVars PROVE Rest'
  BY <1>13 DEF RemoveFromChannel, pollsVars, ProcShape, PollRequest, VotesAlone, Voting, Cleared,
               OneVote, Own
<1>14. Rest'
  <2> HIDE DEF Rest
  <2>1. QED
    BY <1>1, <1>2, <1>3, <1>4, <1>5, <1>6, <1>7, <1>8, <1>9, <1>10, <1>11, <1>12, <1>13, <1>16,
       <1>17
       DEF PollsNext, VoteSteps
<1>15. QED BY <1>14, PollsTypes, CardsStep

(* Polls, cards and votes under way fit together in every reachable state. *)
THEOREM PollsInvariant == PollsSpec => []PollsInv
<1>1. RequestsInit /\ PollsInit => PollsInv
  <2> SUFFICES ASSUME RequestsInit, PollsInit PROVE PollsInv
    OBVIOUS
  <2>1. ProcShape /\ \A h \in Handler : proc[h].pc = "idle"
    BY InitShape
  <2>2. PollsTypeOK
    BY DEF PollsInit, PollsTypeOK, PollRecord, VoteRows
  <2>3. VotesAlone /\ Cleared /\ OneVote /\ CardsRight
    BY <2>1 DEF PollsInit, VotesAlone, Voting, VotePcs, Cleared, OneVote, Own, CardsRight, UpToDate, Of,
                RequestsInit
  <2>4. QED
    BY <2>1, <2>2, <2>3 DEF PollsInv, PollRequest, VotePcs, RequestsInit
<1>2. PollsInv /\ [PollsNext]_<<requestVars, pollsVars>> => PollsInv'
  <2>1. ASSUME PollsInv, UNCHANGED <<requestVars, pollsVars>> PROVE PollsInv'
    BY <2>1 DEF requestVars, pollsVars, PollsInv, ProcShape, PollsTypeOK, PollRequest, VotesAlone,
                Voting, Cleared, OneVote, Own, CardsRight, UpToDate, Of, WillTell, Tells
  <2>2. QED BY <2>1, PollsStep
<1>3. QED BY <1>1, <1>2, PTL DEF PollsSpec

(* Polls, votes and the cards have their types in every reachable state.   *)
LEMMA PollsTypeCorrect == PollsSpec => []PollsTypeOK
<1>1. PollsInv => PollsTypeOK
  BY DEF PollsInv
<1>2. QED BY <1>1, PollsInvariant, PTL

(* Nobody holds two votes in a single-choice poll (polls.service.ts:84),   *)
(* for any members and requests, unless two votes of his were under way at *)
(* once.                                                                   *)
THEOREM SingleChoiceAlways == PollsSpec => []SingleChoice
<1>1. ASSUME PollsInv PROVE SingleChoice
  <2> SUFFICES ASSUME NEW p \in Poll, NEW u \in User
               PROVE  ~poll[p].multiple /\ u \notin overlapped => Cardinality(Own(p, u)) <= 1
    BY DEF SingleChoice
  <2>1. SUFFICES ASSUME ~poll[p].multiple, u \notin overlapped
                 PROVE  Cardinality(Own(p, u)) <= 1
    OBVIOUS
  <2>2. CASE Own(p, u) = {}
    BY <2>2, FS_EmptySet
  <2>3. CASE Own(p, u) # {}
    <3>1. PICK v : v \in Own(p, u)
      BY <2>3
    <3>2. Own(p, u) = {v}
      BY <1>1, <2>1, <3>1 DEF PollsInv, OneVote
    <3>3. QED BY <3>2, FS_Singleton
  <2>4. QED BY <2>2, <2>3
<1>2. QED BY <1>1, PollsInvariant, PTL

(* A member's card shows the votes as they are, or a vote, an update or a  *)
(* fetch is still to come (PollMessage.tsx:18-39), unless it was not told  *)
(* of a vote or took an old answer.                                        *)
THEOREM PollShownAlways == PollsSpec => []PollShown
<1>1. PollsInv => PollShown
  BY DEF PollsInv, CardsRight, UpToDate, WillTell, Tells, PollShown
<1>2. QED BY <1>1, PollsInvariant, PTL

---------------------------------------------------------------------------
(* Meetings.                                                               *)

MeetingsTyped ==
  /\ meeting \in [Meeting -> MeetingRecord] /\ reminders \in [Meeting -> Nat]
  /\ listed \in [User -> SUBSET Meeting] /\ banner \in [User -> SUBSET Meeting]

(* What each program counter knows.  A poll about to remind has flagged    *)
(* the meeting.                                                            *)
Polling == {"fire", "remind", "remindTell"}
MeetingRequest(h) ==
  /\ proc[h].pc \in {"idle", "schedule", "scheduleTell", "cancel", "cancelTell"} \cup Polling
  /\ proc[h].pc \in {"schedule", "cancel", "cancelTell"} => proc[h].user \in User
  /\ proc[h].pc \in {"scheduleTell", "cancel", "cancelTell"} => proc[h].ref \in Meeting
  /\ proc[h].pc \in Polling => proc[h].seen \in SUBSET Meeting
  /\ proc[h].pc \in {"remind", "remindTell"} =>
       proc[h].ref \in proc[h].seen /\ meeting[proc[h].ref].reminded

HasRead(h, m)     == proc[h].pc \in Polling /\ m \in proc[h].seen
HasReminded(h, m) == proc[h].pc = "remindTell" /\ proc[h].ref = m

(* One poll at most has a meeting in its batch, it was due and no other    *)
(* has reminded of it, and until the poll flags it, it is not flagged.     *)
ReadOnce ==
  \A m \in Meeting \ readTwice : \A h \in Handler : HasRead(h, m) =>
    /\ \A g \in Handler : HasRead(g, m) => g = h
    /\ meeting[m].due /\ (reminders[m] = 0 \/ HasReminded(h, m))
    /\ meeting[m].reminded => proc[h].pc \in {"remind", "remindTell"} /\ proc[h].ref = m

(* A posted reminder was of a due and flagged meeting.                     *)
FlagStands ==
  \A m \in Meeting \ readTwice :
    reminders[m] = 0 \/ (reminders[m] = 1 /\ meeting[m].due /\ meeting[m].reminded)

(* What a page fetched is the meetings to come and none that was cancelled, *)
(* or somebody is about to tell it; its banner keeps what is to come of it. *)
BannersRight ==
  /\ \A u \in members \ (relist \cup unheard), m \in Meeting :
       /\ m \in Upcoming => m \in listed[u] \/ Telling("scheduleTell", m)
       /\ m \in listed[u] => m \in Scheduled \/ Telling("cancelTell", m)
  /\ \A u \in User : ToCome(listed[u]) \subseteq banner[u] /\ banner[u] \subseteq listed[u]

MeetingsInv ==
  /\ ProcShape /\ members \subseteq User /\ MeetingsTyped
  /\ \A h \in Handler : MeetingRequest(h)
  /\ ReadOnce /\ FlagStands /\ BannersRight

---------------------------------------------------------------------------
(* What a step may do to a row: schedule it, end it, make it due or flag   *)
(* it; the rest of the row and the other rows stay.                        *)
Rewritten(m, state, due, reminded) ==
  /\ meeting' \in [Meeting -> MeetingRecord]
  /\ meeting'[m].state = state /\ meeting'[m].due = due /\ meeting'[m].reminded = reminded
  /\ \A n \in Meeting : n # m => meeting'[n] = meeting[n]

(* Ending, timing and flagging change one field of a row.                  *)
LEMMA OneFieldRewritten ==
  ASSUME meeting \in [Meeting -> MeetingRecord], NEW m \in Meeting
  PROVE  /\ meeting' = [meeting EXCEPT ![m].state = "gone"] =>
              Rewritten(m, "gone", meeting[m].due, meeting[m].reminded)
         /\ meeting' = [meeting EXCEPT ![m].due = TRUE] =>
              Rewritten(m, meeting[m].state, TRUE, meeting[m].reminded)
         /\ meeting' = [meeting EXCEPT ![m].reminded = TRUE] =>
              Rewritten(m, meeting[m].state, meeting[m].due, TRUE)
<1>1. PICK r \in MeetingRecord : r = meeting[m]
  OBVIOUS
<1>2. /\ [r EXCEPT !.state = "gone"] =
           [state |-> "gone", by |-> r.by, due |-> r.due, reminded |-> r.reminded]
      /\ [r EXCEPT !.due = TRUE] =
           [state |-> r.state, by |-> r.by, due |-> TRUE, reminded |-> r.reminded]
      /\ [r EXCEPT !.reminded = TRUE] =
           [state |-> r.state, by |-> r.by, due |-> r.due, reminded |-> TRUE]
  <2>1. [r EXCEPT !.state = "gone"] =
          [state |-> "gone", by |-> r.by, due |-> r.due, reminded |-> r.reminded]
    BY DEF MeetingRecord
  <2>2. PICK b : b = TRUE
    OBVIOUS
  <2>3. [r EXCEPT !.due = b] =
          [state |-> r.state, by |-> r.by, due |-> b, reminded |-> r.reminded]
    BY DEF MeetingRecord
  <2>4. [r EXCEPT !.reminded = b] =
          [state |-> r.state, by |-> r.by, due |-> r.due, reminded |-> b]
    BY DEF MeetingRecord
  <2>5. QED BY <2>1, <2>2, <2>3, <2>4
<1>3. ASSUME NEW state \in {"none", "scheduled", "gone"}, NEW due \in BOOLEAN,
             NEW reminded \in BOOLEAN, NEW by \in User \cup {None},
             meeting' = [meeting EXCEPT ![m] =
                           [state |-> state, by |-> by, due |-> due, reminded |-> reminded]]
      PROVE  Rewritten(m, state, due, reminded)
  <2>1. PICK q : q = [state |-> state, by |-> by, due |-> due, reminded |-> reminded]
    OBVIOUS
  <2>2. q \in MeetingRecord
    BY <2>1 DEF MeetingRecord
  <2>3. q.state = state /\ q.due = due /\ q.reminded = reminded
    BY <2>1
  <2>4. meeting' = [meeting EXCEPT ![m] = q]
    BY <1>3, <2>1
  <2>5. QED BY <2>2, <2>3, <2>4 DEF Rewritten
<1>4. /\ r.state \in {"none", "scheduled", "gone"} /\ r.by \in User \cup {None}
      /\ r.due \in BOOLEAN /\ r.reminded \in BOOLEAN
  BY DEF MeetingRecord
<1>5. ASSUME meeting' = [meeting EXCEPT ![m].state = "gone"]
      PROVE  Rewritten(m, "gone", meeting[m].due, meeting[m].reminded)
  <2>1. Rewritten(m, "gone", r.due, r.reminded)
    BY <1>1, <1>2, <1>3, <1>4, <1>5
  <2>2. QED BY <1>1, <2>1
<1>6. ASSUME meeting' = [meeting EXCEPT ![m].due = TRUE]
      PROVE  Rewritten(m, meeting[m].state, TRUE, meeting[m].reminded)
  <2>1. Rewritten(m, r.state, TRUE, r.reminded)
    BY <1>1, <1>2, <1>3, <1>4, <1>6
  <2>2. QED BY <1>1, <2>1
<1>7. ASSUME meeting' = [meeting EXCEPT ![m].reminded = TRUE]
      PROVE  Rewritten(m, meeting[m].state, meeting[m].due, TRUE)
  <2>1. Rewritten(m, r.state, r.due, TRUE)
    BY <1>1, <1>2, <1>3, <1>4, <1>7
  <2>2. QED BY <1>1, <2>1
<1>8. QED BY <1>5, <1>6, <1>7

(* Scheduling fills a row in.                                              *)
LEMMA ScheduleRewritten ==
  ASSUME meeting \in [Meeting -> MeetingRecord], NEW m \in Meeting, NEW by \in User,
         meeting' = [meeting EXCEPT ![m].state = "scheduled", ![m].by = by]
  PROVE  Rewritten(m, "scheduled", meeting[m].due, meeting[m].reminded)
<1>1. PICK r \in MeetingRecord : r = meeting[m]
  OBVIOUS
<1>2. PICK p : p = [r EXCEPT !.state = "scheduled"]
  OBVIOUS
<1>3. PICK q : q = [p EXCEPT !.by = by]
  OBVIOUS
<1>4. q = [state |-> "scheduled", by |-> by, due |-> r.due, reminded |-> r.reminded]
  BY <1>2, <1>3 DEF MeetingRecord
<1>5. q \in MeetingRecord /\ q.state = "scheduled" /\ q.due = r.due /\ q.reminded = r.reminded
  BY <1>4 DEF MeetingRecord
<1>6. meeting' = [meeting EXCEPT ![m] = q]
  BY <1>1, <1>2, <1>3
<1>7. QED BY <1>1, <1>5, <1>6 DEF Rewritten

(* A request moves on, and what the others are about to tell stays.        *)
LEMMA TellingKept ==
  ASSUME ProcShape, NEW h \in Handler, NEW pc, NEW u, NEW ref, NEW seen,
         Moved(h, pc, u, ref, seen), NEW told, ~At(h, told), NEW m
  PROVE  Telling(told, m) => Telling(told, m)'
BY DEF Telling, Moved, At

(* The banner through every step: who changes what is upcoming tells the   *)
(* members, or dies and is noted.                                          *)
LEMMA BannerStep ==
  ASSUME MeetingsInv, MeetingsNext
  PROVE  BannersRight'
<1> USE DEF MeetingsInv, MeetingsTyped
<1>1. ASSUME UNCHANGED <<listed, banner>>, members' \subseteq members,
             relist \cup unheard \subseteq (relist \cup unheard)',
             \A m \in Meeting :
               /\ meeting[m].due => meeting'[m].due
               /\ m \in Upcoming' => m \in Upcoming \/ Telling("scheduleTell", m)'
               /\ m \in Scheduled => m \in Scheduled' \/ Telling("cancelTell", m)'
               /\ Telling("scheduleTell", m) => Telling("scheduleTell", m)'
               /\ Telling("cancelTell", m) => Telling("cancelTell", m)'
      PROVE  BannersRight'
  BY <1>1 DEF BannersRight, ToCome
<1>2. ASSUME NEW h \in Handler, NEW pc, NEW u, NEW ref, NEW seen, Moved(h, pc, u, ref, seen),
             ~At(h, "scheduleTell"), ~At(h, "cancelTell"),
             UNCHANGED <<listed, banner, members>>,
             relist \cup unheard \subseteq (relist \cup unheard)',
             \A m \in Meeting : /\ meeting'[m].state = meeting[m].state
                                /\ meeting'[m].due = meeting[m].due
      PROVE  BannersRight'
  <2>1. \A m \in Meeting : /\ Telling("scheduleTell", m) => Telling("scheduleTell", m)'
                           /\ Telling("cancelTell", m) => Telling("cancelTell", m)'
    BY <1>2, TellingKept
  <2>2. Upcoming' = Upcoming /\ Scheduled' = Scheduled
    BY <1>2 DEF Upcoming, Scheduled
  <2>3. QED BY <1>1, <1>2, <2>1, <2>2
<1>3. ASSUME NEW h \in Handler,
             \/ TellScheduled(h) \/ TellCancelled(h) \/ TellReminded(h)
             \/ MeetingsDie(h) /\ proc[h].pc \in {"scheduleTell", "cancelTell"}
      PROVE  BannersRight'
  <2>1. members' \subseteq (relist \cup unheard)' /\ UNCHANGED <<listed, banner, meeting>>
    BY <1>3 DEF TellScheduled, TellCancelled, TellReminded, MeetingsDie, Die, Announce, Finish,
                GotoWith
  <2>2. QED BY <2>1 DEF BannersRight, ToCome
<1>4. ASSUME NEW h \in Handler, NEW m \in Meeting, NEW pc, NEW u, NEW seen,
             Moved(h, pc, u, m, seen), ~At(h, "scheduleTell"), ~At(h, "cancelTell"),
             UNCHANGED <<listed, banner, members, relist, unheard>>,
             \/ pc = "scheduleTell" /\ Rewritten(m, "scheduled", meeting[m].due, meeting[m].reminded)
             \/ pc = "cancelTell" /\ Rewritten(m, "gone", meeting[m].due, meeting[m].reminded)
      PROVE  BannersRight'
  <2>1. Telling(pc, m)'
    BY <1>4 DEF Telling, Moved, At
  <2>2. \A n \in Meeting : /\ Telling("scheduleTell", n) => Telling("scheduleTell", n)'
                           /\ Telling("cancelTell", n) => Telling("cancelTell", n)'
    BY <1>4, TellingKept
  <2>3. \A n \in Meeting : /\ meeting[n].due => meeting'[n].due
                           /\ n \in Upcoming' => n \in Upcoming \/ Telling("scheduleTell", n)'
                           /\ n \in Scheduled => n \in Scheduled' \/ Telling("cancelTell", n)'
    BY <1>4, <2>1 DEF Rewritten, Upcoming, Scheduled
  <2>4. QED BY <1>1, <1>4, <2>2, <2>3
<1>5. ASSUME NEW h \in Handler, Schedule(h) PROVE BannersRight'
  <2>1. PICK m \in Meeting :
          /\ meeting' = [meeting EXCEPT ![m].state = "scheduled", ![m].by = proc[h].user]
          /\ proc' = [proc EXCEPT ![h].pc = "scheduleTell", ![h].ref = m]
    BY <1>5 DEF Schedule
  <2>2. Moved(h, "scheduleTell", proc[h].user, m, proc[h].seen) /\ proc[h].user \in User
    BY <1>5, <2>1, RefMoves DEF Schedule, At, MeetingRequest
  <2>3. Rewritten(m, "scheduled", meeting[m].due, meeting[m].reminded)
    BY <2>1, <2>2, ScheduleRewritten
  <2>4. QED BY <1>4, <1>5, <2>2, <2>3 DEF Schedule, At
<1>6. ASSUME NEW h \in Handler, Cancel(h) PROVE BannersRight'
  <2>1. /\ Moved(h, "cancelTell", proc[h].user, proc[h].ref, proc[h].seen)
        /\ proc[h].ref \in Meeting /\ UNCHANGED members
    BY <1>6, GotoMoves DEF Cancel, At, MeetingRequest
  <2>2. Rewritten(proc[h].ref, "gone", meeting[proc[h].ref].due, meeting[proc[h].ref].reminded)
    BY <1>6, <2>1, OneFieldRewritten DEF Cancel
  <2>3. QED BY <1>4, <1>6, <2>1, <2>2 DEF Cancel, At
<1>7. ASSUME NEW h \in Handler, Flag(h) PROVE BannersRight'
  <2>1. PICK m \in Meeting :
          /\ meeting' = [meeting EXCEPT ![m].reminded = TRUE]
          /\ proc' = [proc EXCEPT ![h].pc = "remind", ![h].ref = m]
    BY <1>7 DEF Flag
  <2>2. Moved(h, "remind", proc[h].user, m, proc[h].seen)
    BY <2>1, RefMoves
  <2>3. Rewritten(m, meeting[m].state, meeting[m].due, TRUE)
    BY <2>1, OneFieldRewritten
  <2>4. QED BY <1>2, <1>7, <2>2, <2>3 DEF Flag, At, Rewritten
<1>8. ASSUME NEW h \in Handler,
             \/ \E u \in User : BeginSchedule(h, u) \/ \E m \in Meeting : BeginCancel(h, u, m)
             \/ BeginFireDue(h) \/ CancelLost(h) \/ FlagLost(h) \/ Remind(h) \/ RemindLost(h)
             \/ MeetingsDie(h) /\ proc[h].pc \notin {"scheduleTell", "cancelTell"}
      PROVE  BannersRight'
  <2>1. /\ UNCHANGED <<listed, banner, members, meeting>>
        /\ relist \cup unheard \subseteq (relist \cup unheard)'
        /\ ~At(h, "scheduleTell") /\ ~At(h, "cancelTell")
    BY <1>8 DEF BeginSchedule, BeginCancel, BeginFireDue, CancelLost, FlagLost, Remind, RemindLost,
                MeetingsDie, Die, Begin, Goto, Finish, At, meetingsVars
  <2>2. \E pc, u, ref, seen : Moved(h, pc, u, ref, seen)
    <3>1. \/ \E pc, u, ref, seen : Begin(h, pc, u, ref, seen)
          \/ Finish(h)
          \/ Goto(h, "remindTell")
      BY <1>8 DEF BeginSchedule, BeginCancel, BeginFireDue, CancelLost, FlagLost, Remind,
                  RemindLost, MeetingsDie, Die
    <3>2. QED BY <3>1, BeginMoves, FinishMoves, GotoMoves
  <2>3. QED BY <1>2, <2>1, <2>2
<1>9. ASSUME NEW m \in Meeting, TimeComes(m) PROVE BannersRight'
  <2>1. Rewritten(m, meeting[m].state, TRUE, meeting[m].reminded)
    BY <1>9, OneFieldRewritten DEF TimeComes
  <2>2. UNCHANGED <<listed, banner, members, relist, unheard, proc>>
    BY <1>9 DEF TimeComes, requestVars
  <2>3. QED BY <1>1, <2>1, <2>2 DEF Rewritten, Upcoming, Scheduled, Telling, At
<1>10. ASSUME NEW u \in User, FetchMeetings(u) \/ Draw(u) PROVE BannersRight'
  <2>1. UNCHANGED <<meeting, members, proc>>
    BY <1>10 DEF FetchMeetings, Draw, requestVars
  <2>2. Upcoming' = Upcoming /\ Scheduled' = Scheduled /\ Upcoming \subseteq Scheduled
    BY <2>1 DEF Upcoming, Scheduled
  <2>3. \A pc, m : Telling(pc, m)' <=> Telling(pc, m)
    BY <2>1 DEF Telling, At
  <2>4. \A v \in User : v # u => listed'[v] = listed[v] /\ banner'[v] = banner[v]
    BY <1>10 DEF FetchMeetings, Draw
  <2>5. \A v \in User : v # u => (v \in relist' \cup unheard' <=> v \in relist \cup unheard)
    BY <1>10 DEF FetchMeetings, Draw
  <2>6. u \in members => u \in (relist \cup unheard)' \/ listed'[u] = Scheduled
                        \/ (listed'[u] = listed[u] /\ u \notin relist \cup unheard)
    BY <1>10 DEF FetchMeetings, Draw, Scheduled
  <2>7. ToCome(listed[u])' \subseteq banner'[u] /\ banner'[u] \subseteq listed'[u]
    BY <1>10, <2>1 DEF FetchMeetings, Draw, ToCome, Scheduled, BannersRight
  <2>8. QED BY <2>1, <2>2, <2>3, <2>4, <2>5, <2>6, <2>7 DEF BannersRight, ToCome
<1>11. ASSUME NEW u \in User, RemoveFromChannel(u), UNCHANGED meetingsVars
      PROVE  BannersRight'
  BY <1>1, <1>11 DEF RemoveFromChannel, meetingsVars, Upcoming, Scheduled, Telling, At
<1>12. QED
  BY <1>3, <1>5, <1>6, <1>7, <1>8, <1>9, <1>10, <1>11 DEF MeetingsNext

(* Every step keeps meetings, polls for what is due and pages right.       *)
LEMMA MeetingsStep ==
  ASSUME MeetingsInv, MeetingsNext
  PROVE  MeetingsInv'
<1> DEFINE Rest == /\ ProcShape /\ members \subseteq User /\ MeetingsTyped
                   /\ \A g \in Handler : MeetingRequest(g)
                   /\ ReadOnce /\ FlagStands
<1> USE DEF MeetingsInv, Polling
<1>1. ASSUME NEW h \in Handler, NEW pc \in {"idle", "schedule", "cancel"},
             NEW u, NEW ref, NEW seen, Moved(h, pc, u, ref, seen),
             pc \in {"schedule", "cancel"} => u \in User, pc = "cancel" => ref \in Meeting,
             UNCHANGED <<meeting, reminders, listed, banner, readTwice, members>>
      PROVE  Rest'
  BY <1>1 DEF Moved, MeetingsTyped, MeetingRequest, ReadOnce, HasRead, HasReminded, FlagStands
<1>2. ASSUME NEW h \in Handler, NEW u \in User, BeginSchedule(h, u) PROVE Rest'
  <2>1. Moved(h, "schedule", u, None, None) /\ UNCHANGED members
    BY <1>2, BeginMoves DEF BeginSchedule
  <2>2. QED BY <1>1, <1>2, <2>1 DEF BeginSchedule, meetingsVars
<1>3. ASSUME NEW h \in Handler, NEW u \in User, NEW m \in Meeting, BeginCancel(h, u, m)
      PROVE  Rest'
  <2>1. Moved(h, "cancel", u, m, None) /\ UNCHANGED members
    BY <1>3, BeginMoves DEF BeginCancel
  <2>2. QED BY <1>1, <1>3, <2>1 DEF BeginCancel, meetingsVars
<1>4. ASSUME NEW h \in Handler,
             \/ TellScheduled(h) \/ TellCancelled(h) \/ CancelLost(h) \/ FlagLost(h)
             \/ RemindLost(h) \/ MeetingsDie(h)
      PROVE  Rest'
  <2>1. Moved(h, "idle", None, None, None) /\ UNCHANGED members
    BY <1>4, FinishMoves
       DEF TellScheduled, TellCancelled, CancelLost, FlagLost, RemindLost, MeetingsDie, Die
  <2>2. UNCHANGED <<meeting, reminders, listed, banner, readTwice>>
    BY <1>4 DEF TellScheduled, TellCancelled, CancelLost, FlagLost, RemindLost, MeetingsDie,
                meetingsVars
  <2>3. QED BY <1>1, <2>1, <2>2
<1>5. ASSUME NEW h \in Handler, NEW m \in Meeting, NEW state, NEW due,
             NEW pc \in {"scheduleTell", "cancelTell"}, NEW u \in User, NEW seen,
             Moved(h, pc, u, m, seen), Rewritten(m, state, due, meeting[m].reminded),
             meeting[m].due => due, UNCHANGED <<reminders, listed, banner, readTwice, members>>
      PROVE  Rest'
  <2> USE <1>5 DEF Moved, Rewritten
  <2>1. MeetingsTyped' /\ \A g \in Handler : MeetingRequest(g)'
    BY DEF MeetingsTyped, MeetingRequest
  <2>2. ReadOnce' /\ FlagStands'
    BY DEF ReadOnce, HasRead, HasReminded, FlagStands
  <2>3. QED BY <2>1, <2>2
<1>6. ASSUME NEW h \in Handler, Schedule(h) PROVE Rest'
  <2>1. PICK m \in Meeting :
          /\ meeting' = [meeting EXCEPT ![m].state = "scheduled", ![m].by = proc[h].user]
          /\ proc' = [proc EXCEPT ![h].pc = "scheduleTell", ![h].ref = m]
    BY <1>6 DEF Schedule
  <2>2. Moved(h, "scheduleTell", proc[h].user, m, proc[h].seen) /\ proc[h].user \in User
    BY <1>6, <2>1, RefMoves DEF Schedule, At, MeetingRequest
  <2>3. Rewritten(m, "scheduled", meeting[m].due, meeting[m].reminded)
    BY <2>1, <2>2, ScheduleRewritten DEF MeetingsTyped
  <2>4. QED BY <1>5, <1>6, <2>2, <2>3 DEF Schedule
<1>7. ASSUME NEW h \in Handler, Cancel(h) PROVE Rest'
  <2>1. /\ Moved(h, "cancelTell", proc[h].user, proc[h].ref, proc[h].seen) /\ UNCHANGED members
        /\ proc[h].ref \in Meeting /\ proc[h].user \in User
    BY <1>7, GotoMoves DEF Cancel, At, MeetingRequest
  <2>2. Rewritten(proc[h].ref, "gone", meeting[proc[h].ref].due, meeting[proc[h].ref].reminded)
    BY <1>7, <2>1, OneFieldRewritten DEF Cancel, MeetingsTyped
  <2>3. QED BY <1>5, <1>7, <2>1, <2>2 DEF Cancel
<1>8. ASSUME NEW h \in Handler, BeginFireDue(h) PROVE Rest'
  <2>1. PICK batch \in SUBSET Due :
          /\ Begin(h, "fire", None, None, batch) /\ UNCHANGED <<meeting, reminders, listed, banner>>
          /\ readTwice' = readTwice \cup {m \in batch : \E g \in Handler : HasRead(g, m)}
    BY <1>8 DEF BeginFireDue, HasRead
  <2>2. Moved(h, "fire", None, None, batch) /\ proc[h].pc = "idle" /\ UNCHANGED members
    BY <2>1, BeginMoves
  <2>3. batch \in SUBSET Meeting /\ \A m \in batch : meeting[m].due /\ ~meeting[m].reminded
    BY DEF Due, Scheduled
  <2> USE <2>1, <2>2, <2>3 DEF Moved
  <2>4. MeetingsTyped' /\ \A g \in Handler : MeetingRequest(g)'
    BY DEF MeetingsTyped, MeetingRequest
  <2>5. FlagStands'
    BY DEF FlagStands
  <2>6. ReadOnce'
    <3>1. SUFFICES ASSUME NEW m \in Meeting, m \notin readTwice', NEW g \in Handler, HasRead(g, m)'
                   PROVE  /\ \A k \in Handler : HasRead(k, m)' => k = g
                          /\ meeting'[m].due /\ (reminders'[m] = 0 \/ HasReminded(g, m)')
                          /\ meeting'[m].reminded =>
                               proc'[g].pc \in {"remind", "remindTell"} /\ proc'[g].ref = m
      BY DEF ReadOnce
    <3>2. CASE m \in batch
      <4>1. \A k \in Handler : ~HasRead(k, m)
        BY <3>1, <3>2
      <4>2. \A k \in Handler : HasRead(k, m)' => k = h
        BY <4>1 DEF HasRead
      <4>3. reminders[m] = 0
        BY <3>1, <3>2 DEF FlagStands
      <4>4. QED BY <3>1, <3>2, <4>2, <4>3
    <3>3. CASE m \notin batch
      <4>1. \A k \in Handler : HasRead(k, m)' => k # h /\ HasRead(k, m)
        BY <3>3 DEF HasRead
      <4>2. QED BY <3>1, <4>1 DEF ReadOnce, HasReminded
    <3>4. QED BY <3>2, <3>3
  <2>7. QED BY <2>4, <2>5, <2>6
<1>9. ASSUME NEW h \in Handler, Flag(h) PROVE Rest'
  <2>1. PICK m \in Meeting :
          /\ At(h, "fire") /\ m \in proc[h].seen
          /\ meeting' = [meeting EXCEPT ![m].reminded = TRUE]
          /\ proc' = [proc EXCEPT ![h].pc = "remind", ![h].ref = m]
          /\ UNCHANGED <<members, reminders, listed, banner, readTwice>>
    BY <1>9 DEF Flag
  <2>2. Rewritten(m, meeting[m].state, meeting[m].due, TRUE)
    BY <2>1, OneFieldRewritten DEF MeetingsTyped
  <2>3. Moved(h, "remind", proc[h].user, m, proc[h].seen)
    BY <2>1, RefMoves
  <2>4. /\ meeting'[m].reminded /\ meeting'[m].due = meeting[m].due
        /\ \A n \in Meeting : n # m => meeting'[n] = meeting[n]
    BY <2>2 DEF Rewritten
  <2> USE <2>1, <2>3, <2>4 DEF Moved, At
  <2>5. MeetingsTyped'
    BY <2>2 DEF MeetingsTyped, Rewritten
  <2>6. \A g \in Handler : MeetingRequest(g)'
    <3>1. \A g \in Handler : proc[g].pc \in {"remind", "remindTell"} /\ g # h =>
            meeting'[proc[g].ref].reminded
      BY DEF MeetingRequest
    <3>2. QED BY <3>1 DEF MeetingRequest
  <2>7. FlagStands'
    BY DEF ReadOnce, HasRead, FlagStands
  <2>8. ReadOnce'
    <3>1. \A g \in Handler, n \in Meeting : HasRead(g, n)' <=> HasRead(g, n)
      BY DEF HasRead
    <3>2. SUFFICES ASSUME NEW n \in Meeting \ readTwice', NEW g \in Handler, HasRead(g, n)'
                   PROVE  /\ \A k \in Handler : HasRead(k, n)' => k = g
                          /\ meeting'[n].due /\ (reminders'[n] = 0 \/ HasReminded(g, n)')
                          /\ meeting'[n].reminded =>
                               proc'[g].pc \in {"remind", "remindTell"} /\ proc'[g].ref = n
      BY DEF ReadOnce
    <3>3. /\ \A k \in Handler : HasRead(k, n) => k = g
          /\ meeting[n].due /\ (reminders[n] = 0 \/ HasReminded(g, n))
          /\ meeting[n].reminded => proc[g].pc \in {"remind", "remindTell"} /\ proc[g].ref = n
      BY <3>1, <3>2 DEF ReadOnce
    <3>4. reminders[n] = 0 \/ HasReminded(g, n)'
      BY <3>3 DEF HasReminded
    <3>5. CASE n = m
      <4>1. g = h
        BY <3>3, <3>5 DEF HasRead
      <4>2. QED BY <3>1, <3>3, <3>4, <3>5, <4>1
    <3>6. CASE n # m
      <4>1. meeting'[n] = meeting[n] /\ (g = h => ~meeting[n].reminded)
        BY <3>3, <3>6
      <4>2. QED BY <3>1, <3>3, <3>4, <4>1
    <3>7. QED BY <3>5, <3>6
  <2>9. QED BY <2>5, <2>6, <2>7, <2>8
<1>10. ASSUME NEW h \in Handler, Remind(h) PROVE Rest'
  <2>1. PICK m \in Meeting : m = proc[h].ref /\ m \in proc[h].seen /\ meeting[m].reminded
    BY <1>10 DEF Remind, At, MeetingRequest
  <2>2. Moved(h, "remindTell", proc[h].user, m, proc[h].seen) /\ UNCHANGED members
    BY <1>10, <2>1, GotoMoves DEF Remind
  <2>3. /\ reminders' = [reminders EXCEPT ![m] = reminders[m] + 1]
        /\ proc[h].pc = "remind" /\ UNCHANGED <<meeting, listed, banner, readTwice>>
    BY <1>10, <2>1 DEF Remind, At
  <2> USE <2>1, <2>2, <2>3 DEF Moved
  <2>4. MeetingsTyped' /\ \A g \in Handler : MeetingRequest(g)'
    BY DEF MeetingsTyped, MeetingRequest
  <2>5. FlagStands'
    BY DEF FlagStands, ReadOnce, HasRead, HasReminded, MeetingsTyped
  <2>6. ReadOnce'
    BY DEF ReadOnce, HasRead, HasReminded, MeetingsTyped
  <2>7. QED BY <2>4, <2>5, <2>6
<1>11. ASSUME NEW h \in Handler, TellReminded(h) PROVE Rest'
  <2>1. PICK m \in Meeting : m = proc[h].ref /\ m \in proc[h].seen /\ proc[h].pc = "remindTell"
    BY <1>11 DEF TellReminded, At, MeetingRequest
  <2>2. PICK pc, u, ref, seen :
          /\ pc \in {"idle", "fire"} /\ Moved(h, pc, u, ref, seen) /\ UNCHANGED members
          /\ pc = "fire" => seen = proc[h].seen \ {m}
    <3>1. CASE proc[h].seen \ {m} = {}
      BY <1>11, <2>1, <3>1, FinishMoves DEF TellReminded
    <3>2. CASE proc[h].seen \ {m} # {}
      BY <1>11, <2>1, <3>2, GotoWithMoves DEF TellReminded
    <3>3. QED BY <3>1, <3>2
  <2>3. UNCHANGED <<meeting, reminders, listed, banner, readTwice>>
    BY <1>11 DEF TellReminded
  <2> USE <2>1, <2>2, <2>3 DEF Moved
  <2>4. MeetingsTyped' /\ \A g \in Handler : MeetingRequest(g)'
    BY DEF MeetingsTyped, MeetingRequest
  <2>5. FlagStands' /\ ReadOnce'
    BY DEF FlagStands, ReadOnce, HasRead, HasReminded
  <2>6. QED BY <2>4, <2>5
<1>12. ASSUME NEW m \in Meeting, TimeComes(m) PROVE Rest'
  <2>1. Rewritten(m, meeting[m].state, TRUE, meeting[m].reminded)
    BY <1>12, OneFieldRewritten DEF TimeComes, MeetingsTyped
  <2> USE <1>12, <2>1 DEF TimeComes, requestVars, Rewritten
  <2>2. ProcShape' /\ MeetingsTyped' /\ \A g \in Handler : MeetingRequest(g)'
    BY DEF ProcShape, MeetingsTyped, MeetingRequest
  <2>3. ReadOnce' /\ FlagStands'
    BY DEF ReadOnce, HasRead, HasReminded, FlagStands
  <2>4. QED BY <2>2, <2>3
<1>13. ASSUME NEW u \in User, FetchMeetings(u) \/ Draw(u) PROVE Rest'
  <2>1. MeetingsTyped'
    BY <1>13 DEF FetchMeetings, Draw, MeetingsTyped, Scheduled, ToCome
  <2>2. UNCHANGED <<meeting, reminders, readTwice, proc, members>>
    BY <1>13 DEF FetchMeetings, Draw, requestVars
  <2>3. QED
    BY <2>1, <2>2 DEF ProcShape, MeetingRequest, ReadOnce, HasRead, HasReminded, FlagStands
<1>14. ASSUME NEW u \in User, RemoveFromChannel(u), UNCHANGED meetingsVars PROVE Rest'
  BY <1>14 DEF RemoveFromChannel, meetingsVars, ProcShape, MeetingsTyped, MeetingRequest, ReadOnce,
               HasRead, HasReminded, FlagStands
<1>15. Rest'
  <2> HIDE DEF Rest
  <2>1. QED
    BY <1>2, <1>3, <1>4, <1>6, <1>7, <1>8, <1>9, <1>10, <1>11, <1>12, <1>13, <1>14 DEF MeetingsNext
<1>16. QED BY <1>15, BannerStep

(* Meetings, polls for what is due and pages fit together in every         *)
(* reachable state.                                                        *)
THEOREM MeetingsInvariant == MeetingsSpec => []MeetingsInv
<1>1. RequestsInit /\ MeetingsInit => MeetingsInv
  <2> SUFFICES ASSUME RequestsInit, MeetingsInit PROVE MeetingsInv
    OBVIOUS
  <2>1. ProcShape /\ \A h \in Handler : proc[h].pc = "idle"
    BY InitShape
  <2>2. MeetingsTyped
    BY DEF MeetingsInit, MeetingsTyped, MeetingRecord
  <2>3. ReadOnce /\ FlagStands /\ BannersRight
    BY <2>1 DEF MeetingsInit, ReadOnce, HasRead, Polling, FlagStands, BannersRight, Upcoming,
                Scheduled, ToCome, RequestsInit
  <2>4. QED
    BY <2>1, <2>2, <2>3 DEF MeetingsInv, MeetingRequest, Polling, RequestsInit
<1>2. MeetingsInv /\ [MeetingsNext]_<<requestVars, meetingsVars>> => MeetingsInv'
  <2>1. ASSUME MeetingsInv, UNCHANGED <<requestVars, meetingsVars>> PROVE MeetingsInv'
    BY <2>1 DEF requestVars, meetingsVars, MeetingsInv, ProcShape, MeetingsTyped, MeetingRequest,
                ReadOnce, HasRead, HasReminded, FlagStands, BannersRight, Upcoming, Scheduled,
                ToCome, Telling, At
  <2>2. QED BY <2>1, MeetingsStep
<1>3. QED BY <1>1, <1>2, PTL DEF MeetingsSpec

(* A reminder is posted at most once, and for a meeting that is due, but   *)
(* for meetings two overlapping polls had both read                        *)
(* (meetings.service.ts:114-135).                                          *)
THEOREM RemindedOnceAlways == MeetingsSpec => []RemindedOnce
<1>1. MeetingsInv => RemindedOnce
  BY DEF MeetingsInv, FlagStands, RemindedOnce
<1>2. QED BY <1>1, MeetingsInvariant, PTL

(* The banner of a member shows the meetings to come and none that was     *)
(* cancelled, or an announcement or a fetch is on the way, unless his page *)
(* missed an announcement (AppShell.tsx:192-194).                          *)
THEOREM BannerShowsUpcomingAlways == MeetingsSpec => []BannerShowsUpcoming
<1>1. MeetingsInv => BannerShowsUpcoming
  BY DEF MeetingsInv, BannersRight, BannerShowsUpcoming, ToCome, Upcoming, Scheduled
<1>2. QED BY <1>1, MeetingsInvariant, PTL

RequestsCounted == requests \in 0 .. MaxRequests
Readers(m) == {h \in Handler : HasRead(h, m) /\ ~HasReminded(h, m)}
RemindersFit == \A m \in Meeting : Fits(reminders[m], Readers(m), requests)

(* No more reminders are posted for a meeting than polls were started.     *)
LEMMA RemindersStep ==
  ASSUME MeetingsInv, MeetingsNext, RequestsCounted, RemindersFit, relist \cup unheard \subseteq User,
         readTwice \subseteq Meeting
  PROVE  /\ RequestsCounted' /\ RemindersFit'
         /\ (relist \cup unheard)' \subseteq User /\ readTwice' \subseteq Meeting
<1> DEFINE Rest == /\ RequestsCounted /\ RemindersFit
                   /\ relist \cup unheard \subseteq User /\ readTwice \subseteq Meeting
<1> USE DEF MeetingsInv, RequestsCounted
<1>0. requests \in Nat /\ members \subseteq User /\ ProcShape
  BY RequestsAssumption
<1>1. ASSUME UNCHANGED reminders, requests' \in {requests, requests + 1},
             \A m \in Meeting : Readers(m)' \subseteq Readers(m)
      PROVE  RemindersFit'
  BY <1>1, FitsKept DEF RemindersFit
<1>2. ASSUME NEW h \in Handler, NEW pc, NEW u, NEW ref, NEW seen,
             Moved(h, pc, u, ref, seen), pc \notin Polling
      PROVE  \A m \in Meeting : Readers(m)' \subseteq Readers(m)
  BY <1>2 DEF Moved, Readers, HasRead, HasReminded
<1>3. ASSUME UNCHANGED proc
      PROVE  \A m \in Meeting : Readers(m)' \subseteq Readers(m)
  BY <1>3 DEF Readers, HasRead, HasReminded
<1>4. ASSUME NEW h \in Handler,
             \/ \E u \in User : BeginSchedule(h, u)
             \/ \E u \in User, m \in Meeting : BeginCancel(h, u, m)
      PROVE  Rest'
  <2>1. PICK pc, u, ref : /\ Begin(h, pc, u, ref, None) /\ pc \in {"schedule", "cancel"}
                          /\ UNCHANGED meetingsVars
    BY <1>4 DEF BeginSchedule, BeginCancel
  <2>2. Moved(h, pc, u, ref, None) /\ requests' = requests + 1 /\ requests < MaxRequests
    BY <1>0, <2>1, BeginMoves DEF Begin
  <2>3. RemindersFit'
    BY <1>1, <1>2, <2>1, <2>2 DEF meetingsVars, Polling
  <2>4. QED BY <1>0, <2>1, <2>2, <2>3, RequestsAssumption DEF meetingsVars
<1>5. ASSUME NEW h \in Handler,
             \/ TellScheduled(h) \/ TellCancelled(h) \/ CancelLost(h) \/ FlagLost(h)
             \/ RemindLost(h) \/ MeetingsDie(h)
      PROVE  Rest'
  <2>1. Finish(h) /\ UNCHANGED <<reminders, readTwice>>
    BY <1>5 DEF TellScheduled, TellCancelled, CancelLost, FlagLost, RemindLost, MeetingsDie, Die,
                meetingsVars
  <2>2. Moved(h, "idle", None, None, None) /\ UNCHANGED requests
    BY <1>0, <2>1, FinishMoves DEF Finish
  <2>3. RemindersFit'
    BY <1>1, <1>2, <2>1, <2>2 DEF Polling
  <2>4. proc[h].pc \in {"cancel", "cancelTell"} => proc[h].user \in User
    BY DEF MeetingRequest
  <2>5. (relist \cup unheard)' \subseteq User
    BY <1>0, <1>5, <2>4 DEF TellScheduled, TellCancelled, CancelLost, FlagLost, RemindLost,
                            MeetingsDie, Announce, At, meetingsVars
  <2>6. QED BY <2>1, <2>2, <2>3, <2>5
<1>6. ASSUME NEW h \in Handler, Schedule(h) \/ Cancel(h) PROVE Rest'
  <2>1. /\ \E pc, ref : Moved(h, pc, proc[h].user, ref, proc[h].seen) /\ pc \notin Polling
        /\ UNCHANGED <<requests, reminders, relist, unheard, readTwice>>
    <3>1. CASE Schedule(h)
      <4>1. PICK m \in Meeting : proc' = [proc EXCEPT ![h].pc = "scheduleTell", ![h].ref = m]
        BY <3>1 DEF Schedule
      <4>2. Moved(h, "scheduleTell", proc[h].user, m, proc[h].seen)
        BY <1>0, <4>1, RefMoves
      <4>3. "scheduleTell" \notin Polling
        BY DEF Polling
      <4>4. QED BY <3>1, <4>2, <4>3 DEF Schedule
    <3>2. CASE Cancel(h)
      <4>1. Moved(h, "cancelTell", proc[h].user, proc[h].ref, proc[h].seen)
        BY <1>0, <3>2, GotoMoves DEF Cancel
      <4>2. "cancelTell" \notin Polling
        BY DEF Polling
      <4>3. QED BY <3>2, <4>1, <4>2 DEF Cancel, Goto
    <3>3. QED BY <1>6, <3>1, <3>2
  <2>2. RemindersFit'
    BY <1>1, <1>2, <2>1
  <2>3. QED BY <2>1, <2>2
<1>7. ASSUME NEW h \in Handler, BeginFireDue(h) PROVE Rest'
  <2>1. PICK batch \in SUBSET Due :
          /\ Begin(h, "fire", None, None, batch) /\ UNCHANGED <<reminders, relist, unheard>>
          /\ readTwice' \subseteq readTwice \cup batch
    BY <1>7 DEF BeginFireDue
  <2>2. Moved(h, "fire", None, None, batch) /\ requests' = requests + 1 /\ requests < MaxRequests
    BY <1>0, <2>1, BeginMoves DEF Begin
  <2>3. ASSUME NEW m \in Meeting PROVE Fits(reminders[m], Readers(m), requests)'
    <3>1. Readers(m)' \subseteq Readers(m) \cup {h}
      BY <2>2 DEF Moved, Readers, HasRead, HasReminded
    <3>2. PICK S : S = Readers(m)'
      OBVIOUS
    <3>3. PICK T : T = S \ {h} /\ T \subseteq Readers(m)
      BY <3>1, <3>2
    <3>4. Fits(reminders[m], T, requests) /\ Fits(reminders[m], T, requests + 1)
      BY <3>3, FitsKept DEF RemindersFit
    <3>5. Fits(reminders[m], S, requests + 1)
      <4>1. S = T \/ S = T \cup {h}
        BY <3>3
      <4>2. QED BY <3>4, <4>1, FitsKept
    <3>6. QED BY <2>1, <2>2, <3>2, <3>5
  <2>4. batch \subseteq Meeting
    BY DEF Due, Scheduled
  <2>5. QED BY <1>0, <2>1, <2>2, <2>3, <2>4, RequestsAssumption DEF RemindersFit
<1>8. ASSUME NEW h \in Handler, Flag(h) PROVE Rest'
  <2>1. PICK m \in Meeting :
          /\ At(h, "fire") /\ proc' = [proc EXCEPT ![h].pc = "remind", ![h].ref = m]
          /\ UNCHANGED <<requests, reminders, relist, readTwice, unheard>>
    BY <1>8 DEF Flag
  <2>2. Moved(h, "remind", proc[h].user, m, proc[h].seen)
    BY <1>0, <2>1, RefMoves
  <2>3. \A n \in Meeting : Readers(n)' \subseteq Readers(n)
    BY <2>1, <2>2 DEF At, Moved, Readers, HasRead, HasReminded, Polling
  <2>4. RemindersFit'
    BY <1>1, <2>1, <2>3
  <2>5. QED BY <2>1, <2>4
<1>9. ASSUME NEW h \in Handler, Remind(h) PROVE Rest'
  <2>1. PICK m \in Meeting : m = proc[h].ref /\ m \in proc[h].seen
    BY <1>9 DEF Remind, At, MeetingRequest
  <2>2. Moved(h, "remindTell", proc[h].user, m, proc[h].seen) /\ UNCHANGED requests
    BY <1>0, <1>9, <2>1, GotoMoves DEF Remind, Goto
  <2>3. /\ reminders' = [reminders EXCEPT ![m] = reminders[m] + 1]
        /\ proc[h].pc = "remind" /\ UNCHANGED <<readTwice, relist, unheard>>
    BY <1>9, <2>1 DEF Remind, At
  <2>4. ASSUME NEW n \in Meeting PROVE Fits(reminders[n], Readers(n), requests)'
    <3>1. CASE n = m
      <4>1. h \in Readers(m) /\ Readers(m)' \subseteq Readers(m) \ {h} /\ reminders'[m] = reminders[m] + 1
        BY <2>1, <2>2, <2>3 DEF Moved, Readers, HasRead, HasReminded, Polling, MeetingsTyped
      <4>2. PICK k, S, T : k = reminders[m] + 1 /\ S = Readers(m) \ {h} /\ T = Readers(m)'
        OBVIOUS
      <4>3. Fits(k, S, requests)
        BY <4>1, <4>2, FitsKept DEF RemindersFit
      <4>4. Fits(k, T, requests)
        BY <4>1, <4>2, <4>3, FitsKept
      <4>5. QED BY <2>2, <3>1, <4>1, <4>2, <4>4
    <3>2. CASE n # m
      <4>1. Readers(n)' \subseteq Readers(n) /\ reminders'[n] = reminders[n]
        BY <2>1, <2>2, <2>3, <3>2
           DEF Moved, Readers, HasRead, HasReminded, Polling, MeetingsTyped
      <4>2. QED BY <2>2, <4>1, FitsKept DEF RemindersFit
    <3>3. QED BY <3>1, <3>2
  <2>5. QED BY <1>0, <2>2, <2>3, <2>4 DEF RemindersFit
<1>10. ASSUME NEW h \in Handler, TellReminded(h) PROVE Rest'
  <2>1. PICK m \in Meeting : m = proc[h].ref /\ m \in proc[h].seen /\ proc[h].pc = "remindTell"
    BY <1>10 DEF TellReminded, At, MeetingRequest
  <2>2. PICK pc, u, ref, seen :
          /\ pc \in {"idle", "fire"} /\ Moved(h, pc, u, ref, seen) /\ UNCHANGED requests
          /\ pc = "fire" => seen = proc[h].seen \ {m}
    <3>1. CASE proc[h].seen \ {m} = {}
      BY <1>0, <1>10, <2>1, <3>1, FinishMoves DEF TellReminded, Finish
    <3>2. CASE proc[h].seen \ {m} # {}
      BY <1>0, <1>10, <2>1, <3>2, GotoWithMoves DEF TellReminded, GotoWith
    <3>3. QED BY <3>1, <3>2
  <2>3. \A n \in Meeting : Readers(n)' \subseteq Readers(n)
    BY <2>1, <2>2 DEF Moved, Readers, HasRead, HasReminded, Polling
  <2>4. UNCHANGED <<reminders, readTwice>> /\ (relist \cup unheard)' \subseteq User
    BY <1>0, <1>10 DEF TellReminded, Announce
  <2>5. RemindersFit'
    BY <1>1, <2>2, <2>3, <2>4
  <2>6. QED BY <2>2, <2>4, <2>5
<1>11. ASSUME \/ \E m \in Meeting : TimeComes(m)
              \/ \E u \in User : FetchMeetings(u) \/ Draw(u)
              \/ \E u \in User : RemoveFromChannel(u) /\ UNCHANGED meetingsVars
      PROVE  Rest'
  <2>1. UNCHANGED <<proc, requests, reminders, readTwice>>
    BY <1>11 DEF TimeComes, FetchMeetings, Draw, RemoveFromChannel, meetingsVars, requestVars
  <2>2. (relist \cup unheard)' \subseteq relist \cup unheard
    BY <1>11 DEF TimeComes, FetchMeetings, Draw, RemoveFromChannel, meetingsVars, requestVars
  <2>3. RemindersFit'
    BY <1>1, <1>3, <2>1
  <2>4. QED BY <2>1, <2>2, <2>3
<1>12. Rest'
  <2> HIDE DEF Rest
  <2>1. QED BY <1>4, <1>5, <1>6, <1>7, <1>8, <1>9, <1>10, <1>11 DEF MeetingsNext
<1>13. QED BY <1>12

(* Meetings, the banners and the reminders have their types in every       *)
(* reachable state.                                                        *)
LEMMA MeetingsTypeCorrect == MeetingsSpec => []MeetingsTypeOK
<1> DEFINE Rest == /\ RequestsCounted /\ RemindersFit
                   /\ relist \cup unheard \subseteq User /\ readTwice \subseteq Meeting
<1>1. RequestsInit /\ MeetingsInit => Rest
  <2> SUFFICES ASSUME RequestsInit, MeetingsInit PROVE Rest
    OBVIOUS
  <2>1. ASSUME NEW m \in Meeting PROVE Fits(reminders[m], Readers(m), requests)
    <3>1. Readers(m) = {} /\ reminders[m] = 0 /\ requests = 0
      BY InitShape DEF MeetingsInit, RequestsInit, Readers, HasRead, Polling
    <3>2. QED BY <3>1, FS_EmptySet DEF Fits
  <2>2. QED BY <2>1, RequestsAssumption DEF MeetingsInit, RequestsInit, RequestsCounted, RemindersFit
<1>2. ASSUME MeetingsInv, Rest, [MeetingsNext]_<<requestVars, meetingsVars>> PROVE Rest'
  <2>1. CASE MeetingsNext
    BY <1>2, <2>1, RemindersStep
  <2>2. CASE UNCHANGED <<requestVars, meetingsVars>>
    <3>1. \A m \in Meeting : Readers(m)' = Readers(m)
      BY <2>2 DEF requestVars, meetingsVars, Readers, HasRead, HasReminded
    <3>2. RemindersFit'
      BY <1>2, <2>2, <3>1 DEF requestVars, meetingsVars, RemindersFit
    <3>3. QED BY <1>2, <2>2, <3>2 DEF requestVars, meetingsVars, RequestsCounted
  <2>3. QED BY <1>2, <2>1, <2>2
<1>3. MeetingsInv /\ Rest => MeetingsTypeOK
  <2> SUFFICES ASSUME MeetingsInv, Rest PROVE MeetingsTypeOK
    OBVIOUS
  <2>1. \A m \in Meeting : reminders[m] \in 0 .. MaxRequests
    <3>1. TAKE m \in Meeting
    <3>2. reminders[m] <= requests /\ reminders[m] \in Nat
      BY FitsKept DEF RemindersFit, Fits
    <3>3. QED BY <3>2, RequestsAssumption DEF RequestsCounted
  <2>2. QED BY <2>1 DEF MeetingsInv, MeetingsTyped, MeetingsTypeOK
<1>4. QED BY <1>1, <1>2, <1>3, MeetingsInvariant, PTL DEF MeetingsSpec

---------------------------------------------------------------------------
(* The time clock.                                                         *)

LastKind(log) == IF log = <<>> THEN None ELSE log[Len(log)].kind

ClockTyped ==
  /\ now \in 0 .. MaxTime /\ events \in [User -> Seq(EventRecord)]
  /\ clockShown \in [User -> Statuses]
  /\ clockFetch \in [User -> Statuses \cup {"none", "asked"}]
  /\ doubled \subseteq User /\ clockBehind \subseteq User

(* Rows are stamped by one clock, so a log is in the order of its times.   *)
LogsOrdered ==
  \A u \in User : \A i \in DOMAIN events[u] :
    /\ events[u][i].at <= now
    /\ \A j \in DOMAIN events[u] : j <= i => events[u][j].at <= events[u][i].at

ClockRequest(h) ==
  /\ proc[h].pc \in {"idle", "clock", "clockTell", "clockMe", "clockShow"}
  /\ proc[h].pc # "idle" => proc[h].user \in User
  /\ proc[h].pc = "clock" => proc[h].seen \in ClockKind
  /\ proc[h].pc = "clockShow" => proc[h].seen \in Statuses

(* The only action of a user that was checked and not yet appended still   *)
(* fits his status.                                                        *)
ActionFits ==
  \A u \in User \ doubled : \A h \in Handler : Acting(h, u) =>
    /\ proc[h].seen \in Offered(StatusAfter(LastKind(events[u])))
    /\ \A g \in Handler : Acting(g, u) => g = h

(* An event of the user is between its row and its broadcast.              *)
Untold(u) == \E h \in Handler : proc[h].pc = "clockTell" /\ proc[h].user = u
Current(u, status) == status = StatusAfter(LastKind(events[u])) \/ Untold(u)

(* What a widget shows, and what a fetch on its way to it was read with.   *)
WidgetCurrent ==
  \A u \in User \ clockBehind :
    /\ clockFetch[u] = "none" => Current(u, clockShown[u])
    /\ clockFetch[u] \in Statuses => Current(u, clockFetch[u])

TimeclockInv ==
  /\ ProcShape /\ ClockTyped /\ LogsOrdered
  /\ \A h \in Handler : ClockRequest(h)
  /\ ActionFits /\ ClockSequence /\ WidgetCurrent

---------------------------------------------------------------------------
(* Up to after the last possible time, the last event is the last of all.  *)
LEMMA LastEvent ==
  ASSUME NEW log \in Seq(EventRecord)
  PROVE  KindBefore(log, MaxTime + 1) = LastKind(log)
<1>1. Len(log) \in Nat /\ (Len(log) = 0 <=> log = <<>>)
  OBVIOUS
<1>2. ASSUME NEW j \in 1 .. Len(log) PROVE log[j].at \in 0 .. MaxTime
  <2>1. log[j] \in EventRecord
    OBVIOUS
  <2>2. QED BY <2>1 DEF EventRecord
<1>3. {j \in 1 .. Len(log) : log[j].at < MaxTime + 1} = 1 .. Len(log)
  BY <1>2, TimeclockAssumption
<1>4. Cardinality(1 .. Len(log)) = Len(log)
  BY <1>1, FS_Interval
<1>5. QED BY <1>1, <1>3, <1>4 DEF KindBefore, KindAt, CountBefore, LastKind

(* Appending an event makes its kind the last, and changes nothing else.   *)
LEMMA AppendedLast ==
  ASSUME NEW log \in Seq(EventRecord), NEW e \in EventRecord
  PROVE  /\ Append(log, e) \in Seq(EventRecord) /\ LastKind(Append(log, e)) = e.kind
         /\ DOMAIN Append(log, e) = DOMAIN log \cup {Len(log) + 1}
         /\ Append(log, e)[Len(log) + 1] = e
         /\ \A i \in DOMAIN log : Append(log, e)[i] = log[i]
BY DEF LastKind

(* What the service accepts in a status is what the widget offers in it.   *)
LEMMA TablesAgree ==
  ASSUME NEW status \in Statuses, NEW kind \in ClockKind
  PROVE  status \in ValidFrom(kind) <=> kind \in Offered(status)
BY DEF Statuses, ClockKind, ValidFrom, Offered

(* Every step keeps logs, requests and widgets right.                      *)
LEMMA TimeclockStep ==
  ASSUME TimeclockInv, TimeclockNext
  PROVE  TimeclockInv'
<1> USE DEF TimeclockInv
<1>0. /\ \A u \in User : Status(u) = StatusAfter(LastKind(events[u]))
      /\ \A kind : StatusAfter(kind) \in Statuses
  BY LastEvent DEF Status, ClockTyped, StatusAfter, Statuses
<1>1. ASSUME NEW h \in Handler, NEW u \in User, NEW kind \in ClockKind, BeginAct(h, u, kind)
      PROVE  TimeclockInv'
  <2>1. Moved(h, "clock", u, None, kind) /\ proc[h].pc = "idle"
    BY <1>1, BeginMoves DEF BeginAct
  <2>2. /\ doubled \subseteq doubled' /\ doubled' \subseteq User
        /\ u \notin doubled' => \A g \in Handler : ~Acting(g, u)
        /\ UNCHANGED <<now, events, clockShown, clockFetch, clockBehind>>
    BY <1>1 DEF BeginAct, Acting, ClockTyped
  <2>3. kind \in Offered(StatusAfter(LastKind(events[u])))
    BY <1>0, <1>1, TablesAgree DEF BeginAct
  <2> USE <2>1, <2>2, <2>3 DEF Moved
  <2>4. ProcShape' /\ ClockTyped' /\ LogsOrdered' /\ WidgetCurrent'
    BY DEF ClockTyped, LogsOrdered, WidgetCurrent, Current, Untold
  <2>5. \A g \in Handler : ClockRequest(g)'
    BY DEF ClockRequest
  <2>6. ActionFits'
    BY DEF ActionFits, Acting
  <2>7. ClockSequence'
    BY DEF ClockSequence
  <2>8. QED BY <2>4, <2>5, <2>6, <2>7
<1>2. ASSUME NEW h \in Handler, Act(h) PROVE TimeclockInv'
  <2>1. PICK u \in User, kind \in ClockKind :
          /\ u = proc[h].user /\ kind = proc[h].seen /\ proc[h].pc = "clock"
          /\ UNCHANGED <<now, clockShown, clockFetch, doubled, clockBehind>>
    BY <1>2 DEF Act, At, ClockRequest
  <2>2. PICK e : e = [at |-> now, kind |-> kind]
    OBVIOUS
  <2>3. e \in EventRecord /\ e.kind = kind /\ e.at = now
    BY <2>2 DEF EventRecord, ClockTyped
  <2>4. Moved(h, "clockTell", u, proc[h].ref, kind)
    BY <1>2, <2>1, GotoMoves DEF Act
  <2>5. PICK log \in Seq(EventRecord) : log = events[u]
    BY DEF ClockTyped
  <2>6. /\ events' \in [User -> Seq(EventRecord)] /\ events'[u] = Append(log, e)
        /\ \A v \in User : v # u => events'[v] = events[v]
    BY <1>2, <2>1, <2>2, <2>3, <2>5, AppendedLast DEF Act, ClockTyped
  <2>7. /\ DOMAIN events'[u] = DOMAIN log \cup {Len(log) + 1}
        /\ events'[u][Len(log) + 1] = e
        /\ \A i \in DOMAIN log : events'[u][i] = log[i]
    BY <2>3, <2>6, AppendedLast
  <2>8. ProcShape' /\ ClockTyped' /\ WidgetCurrent'
    <3>1. ProcShape' /\ ClockTyped'
      BY <2>1, <2>4, <2>6 DEF Moved, ClockTyped
    <3>2. Untold(u)' /\ \A v \in User : v # u => (Untold(v) => Untold(v)')
      BY <2>1, <2>4 DEF Moved, Untold
    <3>3. QED BY <2>1, <2>6, <3>1, <3>2 DEF WidgetCurrent, Current
  <2>9. LogsOrdered'
    <3>1. DOMAIN log = 1 .. Len(log) /\ Len(log) \in Nat
      OBVIOUS
    <3>2. ASSUME NEW i \in DOMAIN events'[u]
          PROVE  /\ events'[u][i].at <= now
                 /\ \A j \in DOMAIN events'[u] : j <= i => events'[u][j].at <= events'[u][i].at
      BY <2>3, <2>5, <2>7, <3>1 DEF LogsOrdered, ClockTyped
    <3>3. QED BY <2>1, <2>6, <3>2 DEF LogsOrdered
  <2>10. \A g \in Handler : ClockRequest(g)'
    BY <2>1, <2>4 DEF Moved, ClockRequest
  <2>11. ActionFits'
    <3>1. \A g \in Handler, v \in User : Acting(g, v)' =>
            g # h /\ Acting(g, v) /\ proc'[g].seen = proc[g].seen
      BY <2>4 DEF Moved, Acting
    <3>2. \A g \in Handler : u \notin doubled /\ Acting(g, u) => g = h
      BY <2>1 DEF ActionFits, Acting
    <3>3. QED BY <2>1, <2>6, <3>1, <3>2 DEF ActionFits
  <2>12. ClockSequence'
    <3>1. SUFFICES ASSUME NEW v \in User \ doubled, NEW i \in 1 .. Len(events'[v])
                   PROVE  events'[v][i].kind \in
                            Offered(StatusAfter(IF i = 1 THEN None ELSE events'[v][i - 1].kind))
      BY <2>1 DEF ClockSequence
    <3>2. CASE v # u
      BY <2>6, <3>1, <3>2 DEF ClockSequence
    <3>3. CASE v = u /\ i \in DOMAIN log
      <4>1. i \in 1 .. Len(log) /\ (i # 1 => i - 1 \in DOMAIN log)
        BY <3>3
      <4>2. log[i].kind \in Offered(StatusAfter(IF i = 1 THEN None ELSE log[i - 1].kind))
        BY <2>5, <3>1, <3>3, <4>1 DEF ClockSequence
      <4>3. QED BY <2>7, <3>3, <4>1, <4>2
    <3>4. CASE v = u /\ i = Len(log) + 1
      <4>1. kind \in Offered(StatusAfter(LastKind(log)))
        BY <2>1, <2>5, <3>1, <3>4 DEF ActionFits, Acting
      <4>2. LastKind(log) = IF i = 1 THEN None ELSE events'[u][i - 1].kind
        <5>1. CASE log = <<>>
          BY <3>4, <5>1 DEF LastKind
        <5>2. CASE log # <<>>
          <6>1. Len(log) \in DOMAIN log /\ i # 1 /\ i - 1 = Len(log)
            BY <3>4, <5>2
          <6>2. QED BY <2>7, <5>2, <6>1 DEF LastKind
        <5>3. QED BY <5>1, <5>2
      <4>3. QED BY <2>3, <2>7, <3>4, <4>1, <4>2
    <3>5. i \in DOMAIN events'[v]
      BY <2>6, <3>1
    <3>6. QED BY <2>7, <3>2, <3>3, <3>4, <3>5
  <2>13. QED BY <2>8, <2>9, <2>10, <2>11, <2>12
<1>3. ASSUME NEW h \in Handler, NEW pc \in {"idle", "clockMe", "clockShow"}, NEW u, NEW ref, NEW seen,
             Moved(h, pc, u, ref, seen), pc # "idle" => u \in User, pc = "clockShow" => seen \in Statuses,
             UNCHANGED <<now, events, doubled>>, ClockTyped', WidgetCurrent'
      PROVE  TimeclockInv'
  <2> USE <1>3 DEF Moved
  <2>1. LogsOrdered' /\ ClockSequence'
    BY DEF LogsOrdered, ClockSequence
  <2>2. \A g \in Handler : ClockRequest(g)'
    BY DEF ClockRequest
  <2>3. ActionFits'
    BY DEF ActionFits, Acting
  <2>4. QED BY <2>1, <2>2, <2>3
<1>4. ASSUME NEW h \in Handler, AnswerMe(h) PROVE TimeclockInv'
  <2>1. Moved(h, "clockShow", proc[h].user, proc[h].ref, Status(proc[h].user))
    BY <1>4, GotoWithMoves DEF AnswerMe
  <2>2. proc[h].user \in User
    BY <1>4 DEF AnswerMe, At, ClockRequest
  <2>3. ClockTyped' /\ WidgetCurrent'
    BY <1>4, <2>1 DEF AnswerMe, At, timeclockVars, ClockTyped, WidgetCurrent, Current, Untold, Moved
  <2>4. QED BY <1>0, <1>3, <1>4, <2>1, <2>2, <2>3 DEF AnswerMe, timeclockVars
<1>5. ASSUME NEW h \in Handler, ShowAnswer(h) PROVE TimeclockInv'
  <2>1. Moved(h, "idle", None, None, None)
    BY <1>5, FinishMoves DEF ShowAnswer
  <2>2. proc[h].user \in User /\ proc[h].seen \in Statuses
    BY <1>5 DEF ShowAnswer, At, ClockRequest
  <2>3. \A v \in User : Untold(v)' <=> Untold(v)
    BY <1>5, <2>1 DEF ShowAnswer, At, Untold, Moved
  <2>4. ClockTyped' /\ WidgetCurrent'
    BY <1>0, <1>5, <2>2, <2>3 DEF ShowAnswer, ClockTyped, WidgetCurrent, Current
  <2>5. QED BY <1>3, <1>5, <2>1, <2>4 DEF ShowAnswer
<1>6. ASSUME NEW h \in Handler, ActDies(h) PROVE TimeclockInv'
  <2>1. Moved(h, "idle", None, None, None)
    BY <1>6, FinishMoves DEF ActDies, Die
  <2>2. \A v \in User \ clockBehind' : Untold(v) => Untold(v)'
    BY <1>6, <2>1 DEF ActDies, Untold, Moved
  <2>3. ClockTyped' /\ WidgetCurrent'
    BY <1>6, <2>2 DEF ActDies, ClockTyped, ClockRequest, WidgetCurrent, Current
  <2>4. QED BY <1>3, <1>6, <2>1, <2>3 DEF ActDies
<1>10. ASSUME NEW h \in Handler, TellClock(h) PROVE TimeclockInv'
  <2>1. Moved(h, "clockMe", proc[h].user, proc[h].ref, proc[h].seen)
    BY <1>10, GotoMoves DEF TellClock
  <2>2. proc[h].user \in User
    BY <1>10 DEF TellClock, At, ClockRequest
  <2>3. \A v \in User \ {proc[h].user} : Untold(v) => Untold(v)'
    BY <2>1 DEF Untold, Moved
  <2>4. ClockTyped' /\ WidgetCurrent'
    BY <1>10, <2>2, <2>3 DEF TellClock, ClockTyped, WidgetCurrent, Current, Statuses
  <2>5. QED BY <1>3, <1>10, <2>1, <2>2, <2>4 DEF TellClock
<1>7. ASSUME Tick PROVE TimeclockInv'
  <2>1. now' \in 0 .. MaxTime /\ now <= now' /\ ClockTyped'
    BY <1>7, TimeclockAssumption DEF Tick, ClockTyped
  <2>2. LogsOrdered'
    <3>1. ASSUME NEW u \in User, NEW i \in DOMAIN events[u] PROVE events[u][i].at \in Int
      <4>1. events[u] \in Seq(EventRecord)
        BY DEF ClockTyped
      <4>2. events[u][i] \in EventRecord
        BY <4>1
      <4>3. QED BY <4>2 DEF EventRecord
    <3>2. QED BY <1>7, <2>1, <3>1 DEF Tick, LogsOrdered, ClockTyped
  <2>3. QED
    BY <1>7, <2>1, <2>2
       DEF Tick, requestVars, ProcShape, ClockRequest, ActionFits, Acting, ClockSequence,
           WidgetCurrent, Current, Untold
<1>8. ASSUME NEW u \in User, ReadClock(u) \/ TakeClock(u) PROVE TimeclockInv'
  <2>1. UNCHANGED <<now, events, doubled, requestVars>>
    BY <1>8 DEF ReadClock, TakeClock
  <2>2. \A v \in User : Untold(v)' <=> Untold(v)
    BY <2>1 DEF requestVars, Untold
  <2>3. ASSUME ReadClock(u) PROVE ClockTyped' /\ WidgetCurrent'
    <3>1. PICK s \in Statuses : s = StatusAfter(LastKind(events[u])) /\ s = Status(u)
      BY <1>0
    <3>2. clockFetch' = [clockFetch EXCEPT ![u] = s] /\ UNCHANGED <<clockShown, clockBehind>>
      BY <2>3, <3>1 DEF ReadClock
    <3>3. clockFetch'[u] = s /\ s # "none" /\ \A v \in User : v # u => clockFetch'[v] = clockFetch[v]
      BY <3>2 DEF ClockTyped, Statuses
    <3>4. ClockTyped'
      BY <2>1, <3>2 DEF ClockTyped
    <3>5. ASSUME NEW v \in User, v # u
          PROVE  /\ (clockFetch[v] = "none" => Current(v, clockShown[v]))' <=>
                      (clockFetch[v] = "none" => Current(v, clockShown[v]))
                 /\ (clockFetch[v] \in Statuses => Current(v, clockFetch[v]))' <=>
                      (clockFetch[v] \in Statuses => Current(v, clockFetch[v]))
      BY <2>1, <2>2, <3>2, <3>3, <3>5 DEF Current
    <3>6. (clockFetch[u] = "none" => Current(u, clockShown[u]))'
      BY <3>3
    <3>7. (clockFetch[u] \in Statuses => Current(u, clockFetch[u]))'
      BY <2>1, <3>1, <3>3 DEF Current
    <3>8. ASSUME NEW v \in User, v \notin clockBehind'
          PROVE  /\ (clockFetch[v] = "none" => Current(v, clockShown[v]))'
                 /\ (clockFetch[v] \in Statuses => Current(v, clockFetch[v]))'
      <4>1. CASE v = u
        BY <3>6, <3>7, <3>8, <4>1 DEF Current
      <4>2. CASE v # u
        BY <3>2, <3>5, <3>8, <4>2 DEF Current, WidgetCurrent
      <4>3. QED BY <4>1, <4>2
    <3>9. WidgetCurrent'
      BY <3>8 DEF WidgetCurrent, Current
    <3>10. QED BY <3>4, <3>9
  <2>4. ASSUME TakeClock(u) PROVE ClockTyped' /\ WidgetCurrent'
    <3>1. PICK s \in Statuses : s = clockFetch[u]
      BY <2>4 DEF TakeClock
    <3>2. /\ clockFetch' = [clockFetch EXCEPT ![u] = "none"] /\ clockShown' = [clockShown EXCEPT ![u] = s]
          /\ clockBehind' = IF s = StatusAfter(LastKind(events[u])) THEN clockBehind \ {u} ELSE clockBehind
      BY <1>0, <2>4, <3>1 DEF TakeClock
    <3>3. /\ clockFetch'[u] = "none" /\ clockShown'[u] = s /\ "none" \notin Statuses
          /\ \A v \in User : v # u => clockFetch'[v] = clockFetch[v] /\ clockShown'[v] = clockShown[v]
      BY <3>2 DEF ClockTyped, Statuses
    <3>4. ClockTyped'
      BY <2>1, <3>1, <3>2 DEF ClockTyped
    <3>5. u \notin clockBehind' => Current(u, s)'
      BY <2>1, <2>2, <3>1, <3>2 DEF WidgetCurrent, Current
    <3>6. \A v \in User : v # u => (v \in clockBehind' <=> v \in clockBehind)
      BY <3>2
    <3>7. ASSUME NEW v \in User, v # u
          PROVE  /\ (clockFetch[v] = "none" => Current(v, clockShown[v]))' <=>
                      (clockFetch[v] = "none" => Current(v, clockShown[v]))
                 /\ (clockFetch[v] \in Statuses => Current(v, clockFetch[v]))' <=>
                      (clockFetch[v] \in Statuses => Current(v, clockFetch[v]))
      BY <2>1, <2>2, <3>3, <3>7 DEF Current
    <3>8. u \notin clockBehind' => (clockFetch[u] = "none" => Current(u, clockShown[u]))'
      BY <2>1, <3>3, <3>5 DEF Current
    <3>9. (clockFetch[u] \in Statuses => Current(u, clockFetch[u]))'
      BY <3>3
    <3>10. ASSUME NEW v \in User, v \notin clockBehind'
          PROVE  /\ (clockFetch[v] = "none" => Current(v, clockShown[v]))'
                 /\ (clockFetch[v] \in Statuses => Current(v, clockFetch[v]))'
      <4>1. CASE v = u
        BY <3>8, <3>9, <3>10, <4>1 DEF Current
      <4>2. CASE v # u
        BY <3>6, <3>7, <3>10, <4>2 DEF Current, WidgetCurrent
      <4>3. QED BY <4>1, <4>2
    <3>11. WidgetCurrent'
      BY <3>10 DEF WidgetCurrent, Current
    <3>12. QED BY <3>4, <3>11
  <2>5. ClockTyped' /\ WidgetCurrent'
    BY <1>8, <2>3, <2>4
  <2>6. QED
    BY <2>1, <2>5
       DEF requestVars, ProcShape, LogsOrdered, ClockRequest, ActionFits, Acting, ClockSequence
<1>9. QED
  BY <1>1, <1>2, <1>4, <1>5, <1>6, <1>7, <1>8, <1>10 DEF TimeclockNext

(* Logs, actions under way and widgets fit together in every reachable     *)
(* state.                                                                  *)
THEOREM TimeclockInvariant == TimeclockSpec => []TimeclockInv
<1>1. RequestsInit /\ TimeclockInit => TimeclockInv
  <2> SUFFICES ASSUME RequestsInit, TimeclockInit PROVE TimeclockInv
    OBVIOUS
  <2>1. ProcShape /\ \A h \in Handler : proc[h].pc = "idle"
    BY InitShape
  <2>2. ClockTyped
    BY TimeclockAssumption DEF TimeclockInit, ClockTyped, Statuses
  <2>3. StatusAfter(LastKind(<<>>)) = "off"
    BY TimeclockAssumption DEF StatusAfter, LastKind, ClockKind
  <2>4. LogsOrdered /\ ClockSequence /\ WidgetCurrent
    BY <2>3 DEF TimeclockInit, LogsOrdered, ClockSequence, WidgetCurrent, Current, Statuses
  <2>5. QED
    BY <2>1, <2>2, <2>4 DEF TimeclockInv, ClockRequest, ActionFits, Acting
<1>2. TimeclockInv /\ [TimeclockNext]_<<requestVars, timeclockVars>> => TimeclockInv'
  <2>1. ASSUME TimeclockInv, UNCHANGED <<requestVars, timeclockVars>> PROVE TimeclockInv'
    BY <2>1 DEF requestVars, timeclockVars, TimeclockInv, ProcShape, ClockTyped, LogsOrdered,
                ClockRequest, ActionFits, Acting, ClockSequence, WidgetCurrent, Current, Untold
  <2>2. QED BY <2>1, TimeclockStep
<1>3. QED BY <1>1, <1>2, PTL DEF TimeclockSpec

(* Times and statuses have their types, and every log is in the order of   *)
(* its times.                                                              *)
THEOREM TimeclockTypeCorrect == TimeclockSpec => []TimeclockTypeOK
<1>1. ASSUME TimeclockInv PROVE TimeclockTypeOK
  <2>1. ASSUME NEW u \in User, NEW i \in 1 .. Len(events[u])
        PROVE  events[u][i] \in EventRecord /\ (i > 1 => events[u][i - 1].at <= events[u][i].at)
    <3>1. events[u] \in Seq(EventRecord) /\ i \in DOMAIN events[u]
      BY <1>1 DEF TimeclockInv, ClockTyped
    <3>2. i > 1 => i - 1 \in DOMAIN events[u] /\ i - 1 <= i
      BY <3>1
    <3>3. QED BY <1>1, <3>1, <3>2 DEF TimeclockInv, LogsOrdered
  <2>2. QED BY <1>1, <2>1 DEF TimeclockInv, ClockTyped, Statuses, TimeclockTypeOK
<1>2. QED BY <1>1, TimeclockInvariant, PTL

(* The log of a user is a legal sequence of clock events, but for users    *)
(* who acted twice at once (timeclock.service.ts:56-70).                   *)
THEOREM ClockSequenceAlways == TimeclockSpec => []ClockSequence
<1>1. TimeclockInv => ClockSequence
  BY DEF TimeclockInv
<1>2. QED BY <1>1, TimeclockInvariant, PTL

(* A widget with no fetch and no event of its user under way offers what    *)
(* the service accepts, but for those that were not told or took an old    *)
(* answer (Timeclock.tsx:76-120, timeclock.service.ts:28-33).              *)
THEOREM WidgetOffersLegalActionsAlways == TimeclockSpec => []WidgetOffersLegalActions
<1>1. ASSUME TimeclockInv PROVE WidgetOffersLegalActions
  <2>1. SUFFICES ASSUME NEW u \in User \ clockBehind, clockFetch[u] = "none", ~Untold(u)
                 PROVE  Offered(clockShown[u]) = {kind \in ClockKind : Status(u) \in ValidFrom(kind)}
    BY DEF WidgetOffersLegalActions, Untold, At
  <2>2. clockShown[u] = Status(u) /\ Status(u) \in Statuses
    BY <1>1, <2>1, LastEvent DEF TimeclockInv, ClockTyped, WidgetCurrent, Current, Status
  <2>3. Offered(Status(u)) \subseteq ClockKind
    BY <2>2 DEF Offered, Statuses, ClockKind
  <2>4. QED BY <2>2, <2>3, TablesAgree
<1>2. QED BY <1>1, TimeclockInvariant, PTL

---------------------------------------------------------------------------
(* The totals of the time clock.  Both walks are recursive functions over  *)
(* the events of a log; what they have booked after the i-th event is the  *)
(* number of units of time up to its cursor, by induction over i.          *)

(* A log as the service keeps it.                                          *)
Ordered(log) ==
  /\ log \in Seq(EventRecord)
  /\ \A i, j \in 1 .. Len(log) : j <= i => log[j].at <= log[i].at

(* What a log is made of.                                                  *)
LEMMA EventTyped ==
  ASSUME NEW log, Ordered(log)
  PROVE  /\ Len(log) \in Nat
         /\ \A j \in 1 .. Len(log) : log[j].at \in Nat /\ log[j].kind \in ClockKind
<1>1. log \in Seq(EventRecord)
  BY DEF Ordered
<1>2. Len(log) \in Nat /\ \A j \in 1 .. Len(log) : log[j] \in EventRecord
  BY <1>1
<1>3. QED BY <1>2, TimeclockAssumption DEF EventRecord

(* The first i events of a log lie before t, the others do not.            *)
Splits(log, t, i) ==
  /\ i \in 0 .. Len(log)
  /\ i > 0 => log[i].at < t
  /\ i < Len(log) => log[i + 1].at >= t

(* What splits a log is how many of its events lie before the time.        *)
LEMMA SplitIsCount ==
  ASSUME NEW log, Ordered(log), NEW t \in Nat, NEW i, Splits(log, t, i)
  PROVE  CountBefore(log, t) = i
<1>1. \A j \in 1 .. Len(log) : log[j].at \in Nat
  BY EventTyped
<1>2. {j \in 1 .. Len(log) : log[j].at < t} = 1 .. i
  BY <1>1 DEF Ordered, Splits
<1>3. Cardinality(1 .. i) = i
  <2>1. i \in Nat
    BY EventTyped DEF Splits
  <2>2. QED BY <2>1, FS_Interval
<1>4. QED BY <1>2, <1>3 DEF CountBefore

(* The events before a time are the first of the log.                      *)
LEMMA CountSplits ==
  ASSUME NEW log, Ordered(log), NEW t \in Nat
  PROVE  Splits(log, t, CountBefore(log, t))
<1>1. Len(log) \in Nat /\ \A j \in 1 .. Len(log) : log[j].at \in Nat
  BY EventTyped
<1> DEFINE Upto(m, i) == /\ i \in 0 .. m /\ (i > 0 => log[i].at < t)
                         /\ i < m => log[i + 1].at >= t
           S == {m \in Nat : m <= Len(log) => \E i \in Nat : Upto(m, i)}
<1>2. 0 \in S
  <2>1. Upto(0, 0)
    OBVIOUS
  <2>2. QED BY <2>1
<1>3. ASSUME NEW m \in Nat, m \in S PROVE m + 1 \in S
  <2>1. SUFFICES ASSUME m + 1 <= Len(log) PROVE \E i \in Nat : Upto(m + 1, i)
    OBVIOUS
  <2>2. PICK i \in Nat : Upto(m, i)
    BY <1>1, <1>3, <2>1
  <2>3. CASE i < m \/ log[m + 1].at >= t
    <3>1. Upto(m + 1, i)
      BY <2>2, <2>3
    <3>2. QED BY <3>1
  <2>4. CASE i = m /\ log[m + 1].at < t
    <3>1. Upto(m + 1, m + 1)
      BY <2>4
    <3>2. QED BY <3>1
  <2>5. log[m + 1].at \in Nat
    BY <1>1, <2>1
  <2>6. i < m \/ i = m
    BY <2>2
  <2>7. QED
    <3> HIDE DEF Upto, S
    <3>1. log[m + 1].at >= t \/ log[m + 1].at < t
      BY <2>5
    <3>2. QED BY <2>3, <2>4, <2>6, <3>1
<1>4. PICK i \in Nat : Upto(Len(log), i)
  <2>1. Len(log) \in S
    <3> HIDE DEF S
    <3>1. QED BY <1>1, <1>2, <1>3, Induction
  <2>2. QED BY <1>1, <2>1
<1>5. Splits(log, t, i)
  BY <1>4 DEF Splits
<1>6. QED BY <1>5, SplitIsCount

(* Between two events the first of them is the last before any time.       *)
LEMMA Stretch ==
  ASSUME NEW log, Ordered(log), NEW c \in Nat, NEW e \in Nat, NEW i \in 0 .. Len(log),
         i > 0 => log[i].at <= c, i < Len(log) => log[i + 1].at >= e,
         NEW t \in c .. e - 1
  PROVE  KindBefore(log, t + 1) = KindAt(log, i)
<1>1. \A j \in 1 .. Len(log) : log[j].at \in Nat
  BY EventTyped
<1>2. Splits(log, t + 1, i)
  BY <1>1 DEF Splits
<1>3. QED BY <1>2, SplitIsCount DEF KindBefore

(* A time lies in one day, between its midnights.                         *)
LEMMA DayIs ==
  ASSUME NEW t \in Nat
  PROVE  /\ Day(t) \in Nat
         /\ \A d \in Nat : Day(t) = d <=> StartOfDay(d) <= t /\ t < StartOfDay(d + 1)
BY TimeclockAssumption DEF Day, StartOfDay

(* Days follow each other.                                                *)
LEMMA DaysFollow ==
  ASSUME NEW d \in Nat
  PROVE  /\ StartOfDay(d) \in Nat /\ StartOfDay(d) < StartOfDay(d + 1)
         /\ Day(StartOfDay(d)) = d
         /\ \A c \in Nat : c <= d => StartOfDay(c) <= StartOfDay(d)
BY TimeclockAssumption DEF Day, StartOfDay

(* How much of [c, e) lies in day d.                                       *)
InDay(c, e, d) ==
  LET a == IF c > StartOfDay(d) THEN c ELSE StartOfDay(d)
      b == Least(e, StartOfDay(d + 1))
  IN IF a < b THEN b - a ELSE 0

(* An empty stretch has no units.                                          *)
LEMMA NoUnits ==
  ASSUME NEW log, NEW c \in Nat, NEW d, NEW status
  PROVE  Cardinality(Units(log, c, c, d, status)) = 0
<1>1. Units(log, c, c, d, status) = {}
  BY DEF Units
<1>2. QED BY <1>1, FS_EmptySet

(* Over a stretch of one status the units of a day grow by its part of it. *)
LEMMA StretchAdds ==
  ASSUME NEW log, Ordered(log), NEW from \in Nat, NEW c \in Nat, NEW e \in Nat, from <= c, c <= e,
         NEW i \in 0 .. Len(log),
         i > 0 => log[i].at <= c, i < Len(log) => log[i + 1].at >= e,
         NEW d \in Nat, NEW status
  PROVE  /\ Cardinality(Units(log, from, c, d, status)) \in Nat
         /\ Cardinality(Units(log, from, e, d, status)) =
              Cardinality(Units(log, from, c, d, status)) +
                (IF StatusAfter(KindAt(log, i)) = status THEN InDay(c, e, d) ELSE 0)
<1> DEFINE a == IF c > StartOfDay(d) THEN c ELSE StartOfDay(d)
           b == Least(e, StartOfDay(d + 1))
           Old == Units(log, from, c, d, status)
           New == IF StatusAfter(KindAt(log, i)) = status THEN a .. b - 1 ELSE {}
<1>0. /\ StartOfDay(d) \in Nat /\ StartOfDay(d + 1) \in Nat
      /\ b = IF e < StartOfDay(d + 1) THEN e ELSE StartOfDay(d + 1)
  <2>1. d + 1 \in Nat
    OBVIOUS
  <2>2. QED BY <2>1, DaysFollow DEF Least
<1>1. a \in Nat /\ b \in Nat /\ c <= a /\ b <= e
  BY <1>0
<1>2. \A t \in c .. e - 1 : StatusAfter(KindBefore(log, t + 1)) = StatusAfter(KindAt(log, i))
  BY Stretch
<1>3. \A t \in c .. e - 1 : Day(t) = d <=> t \in a .. b - 1
  <2>1. TAKE t \in c .. e - 1
  <2>2. t \in Nat /\ c <= t /\ t < e
    OBVIOUS
  <2>3. Day(t) = d <=> StartOfDay(d) <= t /\ t < StartOfDay(d + 1)
    BY <2>2, DayIs
  <2>4. t \in a .. b - 1 <=> a <= t /\ t < b
    <3> HIDE DEF a, b
    <3>1. QED BY <1>1, <2>2
  <2>5. (a <= t <=> StartOfDay(d) <= t) /\ (t < b <=> t < StartOfDay(d + 1))
    BY <1>0, <2>2
  <2>6. QED BY <2>3, <2>4, <2>5
<1>4. Units(log, from, e, d, status) = Old \cup New
  <2> HIDE DEF a, b
  <2>1. \A t : t \in from .. e - 1 <=> t \in from .. c - 1 \/ t \in c .. e - 1
    OBVIOUS
  <2>2. \A t \in a .. b - 1 : t \in c .. e - 1
    BY <1>1
  <2>3. QED BY <1>2, <1>3, <2>1, <2>2 DEF Units
<1>5. Old \cap New = {} /\ IsFiniteSet(Old) /\ Cardinality(Old) \in Nat
  <2>1. Old \subseteq from .. c - 1
    BY DEF Units
  <2>2. IsFiniteSet(Old)
    <3>1. c - 1 \in Int /\ from \in Int
      OBVIOUS
    <3>2. IsFiniteSet(from .. c - 1)
      BY <3>1, FS_Interval
    <3>3. QED BY <2>1, <3>2, FS_Subset
  <2>3. \A t \in New : t >= c
    <3> HIDE DEF a, b
    <3>1. QED BY <1>1
  <2>4. Old \cap New = {}
    BY <2>1, <2>3
  <2>5. QED BY <2>2, <2>4, FS_CardinalityType
<1>6. IsFiniteSet(New) /\ Cardinality(New) = IF StatusAfter(KindAt(log, i)) = status THEN InDay(c, e, d) ELSE 0
  <2> HIDE DEF a, b
  <2>1. IsFiniteSet(a .. b - 1) /\ Cardinality(a .. b - 1) = IF a < b THEN b - a ELSE 0
    <3>1. a \in Int /\ b - 1 \in Int
      BY <1>1
    <3>2. IsFiniteSet(a .. b - 1) /\ Cardinality(a .. b - 1) = IF a > b - 1 THEN 0 ELSE b - 1 - a + 1
      BY <3>1, FS_Interval
    <3>3. QED BY <1>1, <3>2
  <2>2. InDay(c, e, d) = IF a < b THEN b - a ELSE 0
    BY DEF InDay, a, b
  <2>3. QED BY <2>1, <2>2, FS_EmptySet
<1>7. Cardinality(Old \cup New) = Cardinality(Old) + Cardinality(New)
  <2> HIDE DEF Old, New
  <2>1. Cardinality(Old \cup New) = Cardinality(Old) + Cardinality(New) - Cardinality({})
    BY <1>5, <1>6, FS_Union
  <2>2. QED BY <1>5, <1>6, <2>1, FS_EmptySet, FS_CardinalityType
<1>8. QED BY <1>4, <1>5, <1>6, <1>7

(* What a stretch does to the record of a day.                             *)
LEMMA Tallied ==
  ASSUME NEW w, NEW p, NEW f, NEW l, NEW status, NEW a, NEW b, NEW x, NEW y,
         x = (IF status = "working" THEN b - a ELSE 0), y = (IF status = "break" THEN b - a ELSE 0)
  PROVE  Tally([worked |-> w, pause |-> p, firstIn |-> f, lastOut |-> l], status, a, b) =
           [worked |-> w + x, pause |-> p + y, firstIn |-> f, lastOut |-> l]
<1>1. PICK r : r = [worked |-> w, pause |-> p, firstIn |-> f, lastOut |-> l]
  OBVIOUS
<1>2. Tally(r, status, a, b) = [r EXCEPT !.worked = @ + x, !.pause = @ + y]
  BY DEF Tally
<1>3. PICK q : q = [r EXCEPT !.worked = @ + x]
  OBVIOUS
<1>4. q = [worked |-> w + x, pause |-> p, firstIn |-> f, lastOut |-> l]
  BY <1>1, <1>3
<1>5. [q EXCEPT !.pause = @ + y] = [worked |-> w + x, pause |-> p + y, firstIn |-> f, lastOut |-> l]
  BY <1>4
<1>6. [r EXCEPT !.worked = @ + x, !.pause = @ + y] = [q EXCEPT !.pause = @ + y]
  BY <1>1, <1>3
<1>7. QED BY <1>1, <1>2, <1>5, <1>6

(* Each day has booked what was worked and rested of it up to c.           *)
DayBooked(r, log, from, c, d) ==
  r = [worked |-> Cardinality(Units(log, from, c, d, "working")),
       pause  |-> Cardinality(Units(log, from, c, d, "break")),
       firstIn |-> r.firstIn, lastOut |-> r.lastOut]
DaysBooked(days, log, from, c) ==
  /\ days = [d \in DOMAIN days |-> days[d]] /\ DOMAIN days \subseteq Nat
  /\ \A d \in DOMAIN days : DayBooked(days[d], log, from, c, d)

(* A stretch is booked on the days it lies in.                             *)
LEMMA IntervalBooked ==
  ASSUME NEW log, Ordered(log), NEW from \in Nat, NEW c \in Nat, NEW e \in Nat, from <= c, c <= e,
         NEW i \in 0 .. Len(log),
         i > 0 => log[i].at <= c, i < Len(log) => log[i + 1].at >= e,
         NEW days, DaysBooked(days, log, from, c)
  PROVE  /\ DaysBooked(AddInterval(days, StatusAfter(KindAt(log, i)), c, e), log, from, e)
         /\ DOMAIN AddInterval(days, StatusAfter(KindAt(log, i)), c, e) = DOMAIN days
<1>1. PICK s, new : s = StatusAfter(KindAt(log, i)) /\ new = AddInterval(days, s, c, e)
  OBVIOUS
<1>2. new = [d \in DOMAIN days |-> new[d]] /\ DOMAIN new = DOMAIN days
  BY <1>1 DEF AddInterval
<1>3. ASSUME NEW d \in DOMAIN days PROVE DayBooked(new[d], log, from, e, d)
  <2>1. d \in Nat /\ DayBooked(days[d], log, from, c, d)
    BY DEF DaysBooked
  <2>2. PICK w, p, f, l : /\ w = Cardinality(Units(log, from, c, d, "working"))
                          /\ p = Cardinality(Units(log, from, c, d, "break"))
                          /\ days[d] = [worked |-> w, pause |-> p, firstIn |-> f, lastOut |-> l]
    BY <2>1 DEF DayBooked
  <2>3. /\ w \in Nat
        /\ Cardinality(Units(log, from, e, d, "working")) = w + (IF s = "working" THEN InDay(c, e, d) ELSE 0)
    BY <1>1, <2>1, <2>2, StretchAdds
  <2>4. /\ p \in Nat
        /\ Cardinality(Units(log, from, e, d, "break")) = p + (IF s = "break" THEN InDay(c, e, d) ELSE 0)
    BY <1>1, <2>1, <2>2, StretchAdds
  <2>5. PICK a \in Nat, b \in Nat :
          /\ InDay(c, e, d) = IF a < b THEN b - a ELSE 0
          /\ new[d] = IF a < b THEN Tally(days[d], s, a, b) ELSE days[d]
    <3>1. d + 1 \in Nat
      BY <2>1
    <3>2. StartOfDay(d) \in Nat /\ StartOfDay(d + 1) \in Nat
      BY <2>1, <3>1, DaysFollow
    <3>3. PICK a, b : /\ a = IF c > StartOfDay(d) THEN c ELSE StartOfDay(d)
                      /\ b = Least(e, StartOfDay(d + 1))
      OBVIOUS
    <3>4. a \in Nat /\ b \in Nat
      BY <3>2, <3>3 DEF Least
    <3>5. InDay(c, e, d) = IF a < b THEN b - a ELSE 0
      BY <3>3 DEF InDay
    <3>6. new[d] = IF a < b THEN Tally(days[d], s, a, b) ELSE days[d]
      BY <1>1, <3>3 DEF AddInterval
    <3>7. QED BY <3>4, <3>5, <3>6
  <2>6. new[d] = [worked |-> w + (IF s = "working" THEN InDay(c, e, d) ELSE 0),
                  pause |-> p + (IF s = "break" THEN InDay(c, e, d) ELSE 0),
                  firstIn |-> f, lastOut |-> l]
    <3>1. CASE a < b
      <4>1. PICK x, y : /\ x = (IF s = "working" THEN b - a ELSE 0)
                        /\ y = (IF s = "break" THEN b - a ELSE 0)
        OBVIOUS
      <4>2. Tally(days[d], s, a, b) = [worked |-> w + x, pause |-> p + y, firstIn |-> f, lastOut |-> l]
        BY <2>2, <4>1, Tallied
      <4>3. new[d] = Tally(days[d], s, a, b) /\ InDay(c, e, d) = b - a
        BY <2>5, <3>1
      <4>4. QED BY <4>1, <4>2, <4>3
    <3>2. CASE ~(a < b)
      BY <2>2, <2>3, <2>4, <2>5, <3>2
    <3>3. QED BY <3>1, <3>2
  <2>7. QED BY <2>3, <2>4, <2>6 DEF DayBooked
<1>4. QED BY <1>1, <1>2, <1>3 DEF DaysBooked

(* Marking the first clock-in and the last clock-out books nothing.        *)
LEMMA MarkBooks ==
  ASSUME NEW log, NEW from, NEW c, NEW e, NEW days, DaysBooked(days, log, from, c)
  PROVE  DaysBooked(MarkInOut(days, e), log, from, c) /\ DOMAIN MarkInOut(days, e) = DOMAIN days
<1>1. PICK x : x = Day(e.at)
  OBVIOUS
<1>2. PICK new : new = MarkInOut(days, e)
  OBVIOUS
<1>3. new = [d \in DOMAIN days |-> new[d]] /\ DOMAIN new = DOMAIN days
  BY <1>2 DEF MarkInOut
<1>4. ASSUME NEW d \in DOMAIN days PROVE DayBooked(new[d], log, from, c, d)
  <2>1. DayBooked(days[d], log, from, c, d)
    BY DEF DaysBooked
  <2>2. CASE d # x
    <3>1. new[d] = days[d]
      BY <1>1, <1>2, <2>2 DEF MarkInOut
    <3>2. QED BY <2>1, <3>1
  <2>3. CASE d = x
    <3>1. PICK f, l : new[d] = [days[d] EXCEPT !.firstIn = f, !.lastOut = l]
      BY <1>1, <1>2, <2>3 DEF MarkInOut
    <3>2. PICK w, p, g, k : /\ w = Cardinality(Units(log, from, c, d, "working"))
                            /\ p = Cardinality(Units(log, from, c, d, "break"))
                            /\ days[d] = [worked |-> w, pause |-> p, firstIn |-> g, lastOut |-> k]
      BY <2>1 DEF DayBooked
    <3>3. PICK r : r = [days[d] EXCEPT !.firstIn = f]
      OBVIOUS
    <3>4. r = [worked |-> w, pause |-> p, firstIn |-> f, lastOut |-> k]
      BY <3>2, <3>3
    <3>5. [r EXCEPT !.lastOut = l] = [worked |-> w, pause |-> p, firstIn |-> f, lastOut |-> l]
      BY <3>4
    <3>6. new[d] = [r EXCEPT !.lastOut = l]
      BY <3>1, <3>3
    <3>7. QED BY <3>2, <3>5, <3>6 DEF DayBooked
  <2>4. QED BY <2>2, <2>3
<1>5. QED BY <1>2, <1>3, <1>4 DEF DaysBooked

(* The walk over a log as Walk defines it, for either total, up to the     *)
(* n-th event.                                                             *)
Walked(byDay, w, log, from, zero, n) ==
  [i \in CountBefore(log, from) .. n |->
     IF i = CountBefore(log, from)
       THEN [sum |-> zero, cursor |-> from, status |-> StatusAfter(KindAt(log, i))]
       ELSE [sum |-> IF byDay THEN AddEvent(w[i - 1].sum, w[i - 1].status, w[i - 1].cursor, log[i])
                              ELSE AddStretch(w[i - 1].sum, w[i - 1].status, w[i - 1].cursor, log[i]),
             cursor |-> log[i].at, status |-> StatusAfter(log[i].kind)]]

(* The walk exists: it is defined by recursion on the events.              *)
LEMMA WalkExists ==
  ASSUME NEW log, NEW from, NEW zero, NEW byDay \in BOOLEAN, CountBefore(log, from) \in 0 .. Len(log),
         Len(log) \in Nat
  PROVE  \E w : w = Walked(byDay, w, log, from, zero, Len(log))
<1>1. PICK k \in Nat : k = CountBefore(log, from)
  OBVIOUS
<1> DEFINE S == {m \in Nat : \E w : w = Walked(byDay, w, log, from, zero, k + m)}
<1>2. 0 \in S
  <2>1. PICK w : w = [i \in k .. k |-> [sum |-> zero, cursor |-> from, status |-> StatusAfter(KindAt(log, i))]]
    OBVIOUS
  <2>2. w = Walked(byDay, w, log, from, zero, k + 0)
    BY <1>1, <2>1 DEF Walked
  <2>3. QED BY <2>2
<1>3. ASSUME NEW m \in Nat, m \in S PROVE m + 1 \in S
  <2>1. PICK w : w = Walked(byDay, w, log, from, zero, k + m)
    BY <1>3
  <2>2. PICK next : next = Walked(byDay, w, log, from, zero, k + (m + 1))
    OBVIOUS
  <2>3. PICK v : v = [i \in k .. k + (m + 1) |-> IF i <= k + m THEN w[i] ELSE next[i]]
    OBVIOUS
  <2>4. ASSUME NEW i \in k .. k + (m + 1)
        PROVE  v[i] = Walked(byDay, v, log, from, zero, k + (m + 1))[i]
    <3>1. CASE i = k
      BY <1>1, <2>1, <2>3, <3>1 DEF Walked
    <3>2. CASE i # k
      <4>1. i - 1 \in k .. k + m /\ v[i - 1] = w[i - 1]
        BY <1>1, <2>3, <3>2
      <4>2. Walked(byDay, v, log, from, zero, k + (m + 1))[i] = next[i]
        BY <1>1, <2>2, <3>2, <4>1 DEF Walked
      <4>3. i <= k + m => w[i] = next[i]
        <5>1. SUFFICES ASSUME i \in k .. k + m PROVE w[i] = next[i]
          BY <3>2
        <5>2. Walked(byDay, w, log, from, zero, k + m)[i] = Walked(byDay, w, log, from, zero, k + (m + 1))[i]
          BY <1>1, <5>1 DEF Walked
        <5>3. QED BY <2>1, <2>2, <5>2
      <4>4. v[i] = next[i]
        BY <2>3, <4>3
      <4>5. QED BY <4>2, <4>4
    <3>3. QED BY <3>1, <3>2
  <2>5. v = Walked(byDay, v, log, from, zero, k + (m + 1))
    <3>1. PICK u : u = Walked(byDay, v, log, from, zero, k + (m + 1))
      OBVIOUS
    <3>2. u = [i \in k .. k + (m + 1) |-> u[i]]
      BY <1>1, <3>1 DEF Walked
    <3>3. \A i \in k .. k + (m + 1) : v[i] = u[i]
      BY <2>4, <3>1
    <3>4. QED BY <2>3, <3>1, <3>2, <3>3
  <2>6. QED BY <2>5
<1>4. Len(log) - k \in S
  <2> HIDE DEF S
  <2>1. QED BY <1>1, <1>2, <1>3, Induction
<1>5. k + (Len(log) - k) = Len(log)
  BY <1>1
<1>6. QED BY <1>4, <1>5

(* What Walk returns is the end of such a walk.                            *)
LEMMA WalkIs ==
  ASSUME NEW log, NEW from, NEW zero, CountBefore(log, from) \in 0 .. Len(log), Len(log) \in Nat
  PROVE  /\ \E w : /\ w = Walked(TRUE, w, log, from, zero, Len(log))
                   /\ Walk(log, from, zero, AddEvent) = w[Len(log)]
         /\ \E w : /\ w = Walked(FALSE, w, log, from, zero, Len(log))
                   /\ Walk(log, from, zero, AddStretch) = w[Len(log)]
<1>1. PICK v : v = CHOOSE w : w = Walked(TRUE, w, log, from, zero, Len(log))
  OBVIOUS
<1>2. v = Walked(TRUE, v, log, from, zero, Len(log))
  BY <1>1, WalkExists
<1>3. Walk(log, from, zero, AddEvent) = v[Len(log)]
  BY <1>1 DEF Walk, Walked
<1>4. PICK u : u = CHOOSE w : w = Walked(FALSE, w, log, from, zero, Len(log))
  OBVIOUS
<1>5. u = Walked(FALSE, u, log, from, zero, Len(log))
  BY <1>4, WalkExists
<1>6. Walk(log, from, zero, AddStretch) = u[Len(log)]
  BY <1>4 DEF Walk, Walked
<1>7. QED BY <1>2, <1>3, <1>5, <1>6

(* Where a walk from a time on stands after the i-th event.                *)
Cursor(log, from, i) == IF i = CountBefore(log, from) THEN from ELSE log[i].at

(* The cursor stands at the last event, not before the start of the walk.  *)
LEMMA Cursors ==
  ASSUME NEW log, Ordered(log), NEW from \in Nat, NEW i \in CountBefore(log, from) .. Len(log)
  PROVE  /\ CountBefore(log, from) \in 0 .. Len(log)
         /\ Cursor(log, from, i) \in Nat /\ from <= Cursor(log, from, i)
         /\ i > 0 => log[i].at <= Cursor(log, from, i)
         /\ i < Len(log) => /\ Cursor(log, from, i + 1) = log[i + 1].at
                            /\ Cursor(log, from, i) <= log[i + 1].at
<1>1. PICK k : k = CountBefore(log, from)
  OBVIOUS
<1>2. k \in 0 .. Len(log) /\ (k > 0 => log[k].at < from) /\ (k < Len(log) => log[k + 1].at >= from)
  BY <1>1, CountSplits DEF Splits
<1>3. Len(log) \in Nat /\ \A j \in 1 .. Len(log) : log[j].at \in Nat
  BY EventTyped
<1>4. \A j \in 1 .. Len(log) : j > k => log[j].at >= from
  BY <1>2, <1>3 DEF Ordered
<1>5. i < Len(log) => log[i + 1].at >= from /\ (i > 0 => log[i].at <= log[i + 1].at)
  BY <1>1, <1>2, <1>3, <1>4 DEF Ordered
<1>6. QED BY <1>1, <1>2, <1>3, <1>4, <1>5 DEF Cursor

(* After the last event the days have booked all that lies before it: by   *)
(* induction over the events.                                              *)
LEMMA HistoryWalk ==
  ASSUME NEW log, Ordered(log), NEW from \in Nat, NEW zero, DaysBooked(zero, log, from, from)
  PROVE  \E end :
           /\ end = Walk(log, from, zero, AddEvent)
           /\ end.cursor = Cursor(log, from, Len(log)) /\ end.status = StatusAfter(KindAt(log, Len(log)))
           /\ DaysBooked(end.sum, log, from, end.cursor) /\ DOMAIN end.sum = DOMAIN zero
<1>1. PICK k, n : k = CountBefore(log, from) /\ n = Len(log)
  OBVIOUS
<1>2. k \in Nat /\ n \in Nat /\ k <= n
  BY <1>1, CountSplits, EventTyped DEF Splits
<1>3. PICK w : w = Walked(TRUE, w, log, from, zero, n) /\ Walk(log, from, zero, AddEvent) = w[n]
  <2>1. CountBefore(log, from) \in 0 .. Len(log) /\ Len(log) \in Nat
    BY <1>1, <1>2
  <2>2. QED BY <1>1, <2>1, WalkIs
<1> DEFINE Right(i) == /\ w[i].cursor = Cursor(log, from, i) /\ w[i].status = StatusAfter(KindAt(log, i))
                       /\ DaysBooked(w[i].sum, log, from, w[i].cursor) /\ DOMAIN w[i].sum = DOMAIN zero
           S == {m \in Nat : k + m <= n => Right(k + m)}
<1>4. 0 \in S
  <2>1. w[k] = [sum |-> zero, cursor |-> from, status |-> StatusAfter(KindAt(log, k))]
    BY <1>1, <1>2, <1>3 DEF Walked
  <2>2. Cursor(log, from, k) = from
    BY <1>1 DEF Cursor
  <2>3. Right(k)
    BY <2>1, <2>2
  <2>4. k + 0 = k
    BY <1>2
  <2> HIDE DEF Right
  <2>5. QED BY <2>3, <2>4
<1>5. ASSUME NEW m \in Nat, m \in S PROVE m + 1 \in S
  <2>1. SUFFICES ASSUME k + (m + 1) <= n PROVE Right(k + (m + 1))
    OBVIOUS
  <2>2. PICK i \in Nat : i = k + m /\ i + 1 = k + (m + 1) /\ i < n
    BY <1>2, <2>1
  <2>3. Right(i)
    <3>1. Right(k + m)
      BY <1>2, <1>5, <2>1
    <3> HIDE DEF Right
    <3>2. QED BY <2>2, <3>1
  <2>4. PICK days : days = AddInterval(w[i].sum, w[i].status, w[i].cursor, log[i + 1].at)
    OBVIOUS
  <2>5. w[i + 1] = [sum |-> MarkInOut(days, log[i + 1]), cursor |-> log[i + 1].at,
                    status |-> StatusAfter(log[i + 1].kind)]
    <3>1. i + 1 \in k .. n /\ i + 1 # k /\ (i + 1) - 1 = i
      BY <1>2, <2>2
    <3>2. w[i + 1] = Walked(TRUE, w, log, from, zero, n)[i + 1]
      BY <1>3
    <3>3. Walked(TRUE, w, log, from, zero, n)[i + 1] =
            [sum |-> AddEvent(w[i].sum, w[i].status, w[i].cursor, log[i + 1]),
             cursor |-> log[i + 1].at, status |-> StatusAfter(log[i + 1].kind)]
      BY <1>1, <3>1 DEF Walked
    <3>4. AddEvent(w[i].sum, w[i].status, w[i].cursor, log[i + 1]) = MarkInOut(days, log[i + 1])
      BY <2>4 DEF AddEvent
    <3>5. QED BY <3>2, <3>3, <3>4
  <2>6. DaysBooked(days, log, from, log[i + 1].at) /\ DOMAIN days = DOMAIN zero
    <3>1. i \in CountBefore(log, from) .. Len(log) /\ i \in 0 .. Len(log) /\ i < Len(log)
      BY <1>1, <1>2, <2>2
    <3>2. PICK c, e : c = Cursor(log, from, i) /\ e = log[i + 1].at
      OBVIOUS
    <3>3. /\ c \in Nat /\ e \in Nat /\ from <= c /\ c <= e
          /\ i > 0 => log[i].at <= c
      BY <3>1, <3>2, Cursors, EventTyped
    <3>4. DaysBooked(w[i].sum, log, from, c) /\ w[i].cursor = c /\ w[i].status = StatusAfter(KindAt(log, i))
      BY <2>3, <3>2
    <3>5. log[i + 1].at >= e
      BY <3>2, <3>3
    <3>6. /\ DaysBooked(AddInterval(w[i].sum, StatusAfter(KindAt(log, i)), c, e), log, from, e)
          /\ DOMAIN AddInterval(w[i].sum, StatusAfter(KindAt(log, i)), c, e) = DOMAIN w[i].sum
      BY <3>1, <3>3, <3>4, <3>5, IntervalBooked
    <3>7. QED BY <2>3, <2>4, <3>2, <3>4, <3>6
  <2>7. DaysBooked(MarkInOut(days, log[i + 1]), log, from, log[i + 1].at)
        /\ DOMAIN MarkInOut(days, log[i + 1]) = DOMAIN zero
    BY <2>6, MarkBooks
  <2>8. Cursor(log, from, i + 1) = log[i + 1].at /\ KindAt(log, i + 1) = log[i + 1].kind
    <3>1. i \in CountBefore(log, from) .. Len(log) /\ i < Len(log) /\ i + 1 # 0
      BY <1>1, <1>2, <2>2
    <3>2. Cursor(log, from, i + 1) = log[i + 1].at
      BY <3>1, Cursors
    <3>3. QED BY <3>1, <3>2 DEF KindAt
  <2>9. QED BY <2>2, <2>5, <2>7, <2>8
<1>6. Right(n)
  <2>1. n - k \in S
    <3> HIDE DEF S
    <3>1. QED BY <1>2, <1>4, <1>5, Induction
  <2>2. k + (n - k) = n
    BY <1>2
  <2> HIDE DEF Right
  <2>3. QED BY <1>2, <2>1, <2>2
<1>7. QED BY <1>1, <1>3, <1>6

(* A walk over events up to now ends no later.                             *)
LEMMA EndCursor ==
  ASSUME NEW log, Ordered(log), NEW from \in Nat, from <= now, now \in Nat,
         \A j \in 1 .. Len(log) : log[j].at <= now
  PROVE  LET c == Cursor(log, from, Len(log))
         IN  c \in Nat /\ from <= c /\ c <= now /\ (Len(log) > 0 => log[Len(log)].at <= c)
<1>1. Len(log) \in Nat /\ CountBefore(log, from) \in 0 .. Len(log)
  BY EventTyped, CountSplits DEF Splits
<1>2. Len(log) \in CountBefore(log, from) .. Len(log)
  BY <1>1
<1>3. Cursor(log, from, Len(log)) <= now
  BY <1>1 DEF Cursor
<1>4. QED BY <1>2, <1>3, Cursors

(* The totals of one day up to c.                                          *)
Booked(log, from, c, d) ==
  [worked |-> Cardinality(Units(log, from, c, d, "working")),
   pause  |-> Cardinality(Units(log, from, c, d, "break"))]

(* A stretch within a day adds all of it.                                  *)
LEMMA StretchBooked ==
  ASSUME NEW log, Ordered(log), NEW d \in Nat, NEW c \in Nat, NEW e \in Nat,
         StartOfDay(d) <= c, c <= e, e < StartOfDay(d + 1),
         NEW i \in 0 .. Len(log),
         i > 0 => log[i].at <= c, i < Len(log) => log[i + 1].at >= e
  PROVE  Tally(Booked(log, StartOfDay(d), c, d), StatusAfter(KindAt(log, i)), c, e) =
           Booked(log, StartOfDay(d), e, d)
<1>1. StartOfDay(d) \in Nat /\ StartOfDay(d + 1) \in Nat
  <2>1. d + 1 \in Nat
    OBVIOUS
  <2>2. QED BY <2>1, DaysFollow
<1>2. InDay(c, e, d) = e - c
  BY <1>1 DEF InDay, Least
<1>3. PICK s, x, y : /\ s = StatusAfter(KindAt(log, i))
                     /\ x = (IF s = "working" THEN e - c ELSE 0)
                     /\ y = (IF s = "break" THEN e - c ELSE 0)
  OBVIOUS
<1>4. PICK w, p : Booked(log, StartOfDay(d), c, d) = [worked |-> w, pause |-> p]
                  /\ w = Cardinality(Units(log, StartOfDay(d), c, d, "working"))
                  /\ p = Cardinality(Units(log, StartOfDay(d), c, d, "break"))
  BY DEF Booked
<1>5. Cardinality(Units(log, StartOfDay(d), e, d, "working")) = w + x
  BY <1>1, <1>2, <1>3, <1>4, StretchAdds
<1>6. Cardinality(Units(log, StartOfDay(d), e, d, "break")) = p + y
  BY <1>1, <1>2, <1>3, <1>4, StretchAdds
<1>7. Tally([worked |-> w, pause |-> p], s, c, e) = [worked |-> w + x, pause |-> p + y]
  <2>1. PICK r : r = [worked |-> w, pause |-> p]
    OBVIOUS
  <2>2. PICK q : q = [r EXCEPT !.worked = @ + x]
    OBVIOUS
  <2>3. q = [worked |-> w + x, pause |-> p]
    BY <2>1, <2>2
  <2>4. [q EXCEPT !.pause = @ + y] = [worked |-> w + x, pause |-> p + y]
    BY <2>3
  <2>5. [r EXCEPT !.worked = @ + x, !.pause = @ + y] = [q EXCEPT !.pause = @ + y]
    BY <2>1, <2>2
  <2>6. Tally(r, s, c, e) = [r EXCEPT !.worked = @ + x, !.pause = @ + y]
    BY <1>3 DEF Tally
  <2>7. QED BY <2>1, <2>4, <2>5, <2>6
<1>8. Booked(log, StartOfDay(d), e, d) = [worked |-> w + x, pause |-> p + y]
  BY <1>5, <1>6 DEF Booked
<1>9. QED BY <1>3, <1>4, <1>7, <1>8

(* After the last event of the day the sum has what lies before it.        *)
LEMMA MeWalk ==
  ASSUME NEW log, Ordered(log), NEW d \in Nat, \A j \in 1 .. Len(log) : log[j].at < StartOfDay(d + 1)
  PROVE  \E end :
           /\ end = Walk(log, StartOfDay(d), [worked |-> 0, pause |-> 0], AddStretch)
           /\ end.cursor = Cursor(log, StartOfDay(d), Len(log))
           /\ end.status = StatusAfter(KindAt(log, Len(log)))
           /\ end.sum = Booked(log, StartOfDay(d), end.cursor, d)
<1>0. PICK from \in Nat : from = StartOfDay(d)
  BY DaysFollow
<1>1. PICK k, n : k = CountBefore(log, from) /\ n = Len(log)
  OBVIOUS
<1>2. k \in Nat /\ n \in Nat /\ k <= n
  BY <1>1, CountSplits, EventTyped DEF Splits
<1>3. PICK w : /\ w = Walked(FALSE, w, log, from, [worked |-> 0, pause |-> 0], n)
               /\ Walk(log, from, [worked |-> 0, pause |-> 0], AddStretch) = w[n]
  <2>1. CountBefore(log, from) \in 0 .. Len(log) /\ Len(log) \in Nat
    BY <1>1, <1>2
  <2>2. QED BY <1>1, <2>1, WalkIs
<1> DEFINE Right(i) == /\ w[i].cursor = Cursor(log, from, i) /\ w[i].status = StatusAfter(KindAt(log, i))
                       /\ w[i].sum = Booked(log, from, w[i].cursor, d)
           S == {m \in Nat : k + m <= n => Right(k + m)}
<1>4. 0 \in S
  <2>1. w[k] = [sum |-> [worked |-> 0, pause |-> 0], cursor |-> from, status |-> StatusAfter(KindAt(log, k))]
    BY <1>1, <1>2, <1>3 DEF Walked
  <2>2. Cursor(log, from, k) = from
    BY <1>1 DEF Cursor
  <2>3. Booked(log, from, from, d) = [worked |-> 0, pause |-> 0]
    BY NoUnits DEF Booked
  <2>4. Right(k)
    BY <2>1, <2>2, <2>3
  <2>5. k + 0 = k
    BY <1>2
  <2> HIDE DEF Right
  <2>6. QED BY <2>4, <2>5
<1>5. ASSUME NEW m \in Nat, m \in S PROVE m + 1 \in S
  <2>1. SUFFICES ASSUME k + (m + 1) <= n PROVE Right(k + (m + 1))
    OBVIOUS
  <2>2. PICK i \in Nat : i = k + m /\ i + 1 = k + (m + 1) /\ i < n
    BY <1>2, <2>1
  <2>3. Right(i)
    <3>1. Right(k + m)
      BY <1>2, <1>5, <2>1
    <3> HIDE DEF Right
    <3>2. QED BY <2>2, <3>1
  <2>4. w[i + 1] = [sum |-> Tally(w[i].sum, w[i].status, w[i].cursor, log[i + 1].at),
                    cursor |-> log[i + 1].at, status |-> StatusAfter(log[i + 1].kind)]
    <3>1. i + 1 \in k .. n /\ i + 1 # k /\ (i + 1) - 1 = i
      BY <1>2, <2>2
    <3>2. w[i + 1] = Walked(FALSE, w, log, from, [worked |-> 0, pause |-> 0], n)[i + 1]
      BY <1>3
    <3>3. QED BY <1>1, <3>1, <3>2 DEF Walked, AddStretch
  <2>5. w[i + 1].sum = Booked(log, from, log[i + 1].at, d)
    <3>1. i \in CountBefore(log, from) .. Len(log) /\ i \in 0 .. Len(log) /\ i < Len(log)
      BY <1>1, <1>2, <2>2
    <3>2. PICK c, e : c = Cursor(log, from, i) /\ e = log[i + 1].at
      OBVIOUS
    <3>3. /\ c \in Nat /\ e \in Nat /\ from <= c /\ c <= e /\ e < StartOfDay(d + 1)
          /\ i > 0 => log[i].at <= c
      BY <3>1, <3>2, Cursors, EventTyped
    <3>4. log[i + 1].at >= e
      BY <3>2, <3>3
    <3>5. Tally(Booked(log, from, c, d), StatusAfter(KindAt(log, i)), c, e) = Booked(log, from, e, d)
      BY <1>0, <3>1, <3>3, <3>4, StretchBooked
    <3>6. QED BY <2>3, <2>4, <3>2, <3>5
  <2>6. Cursor(log, from, i + 1) = log[i + 1].at /\ KindAt(log, i + 1) = log[i + 1].kind
    <3>1. i \in CountBefore(log, from) .. Len(log) /\ i < Len(log) /\ i + 1 # 0
      BY <1>1, <1>2, <2>2
    <3>2. Cursor(log, from, i + 1) = log[i + 1].at
      BY <3>1, Cursors
    <3>3. QED BY <3>1, <3>2 DEF KindAt
  <2>7. QED BY <2>2, <2>4, <2>5, <2>6
<1>6. Right(n)
  <2>1. n - k \in S
    <3> HIDE DEF S
    <3>1. QED BY <1>2, <1>4, <1>5, Induction
  <2>2. k + (n - k) = n
    BY <1>2
  <2> HIDE DEF Right
  <2>3. QED BY <1>2, <2>1, <2>2
<1>7. QED BY <1>0, <1>1, <1>3, <1>6

(* The totals of ordered logs add up.                                      *)
LEMMA OrderedAddUp ==
  ASSUME events \in [User -> Seq(EventRecord)], LogsOrdered, now \in Nat
  PROVE  TotalsAddUp
<1>1. SUFFICES ASSUME NEW u \in User
               PROVE  /\ \A d \in DOMAIN History(u) :
                           /\ History(u)[d].worked = Cardinality(Units(events[u], RangeStart, now, d, "working"))
                           /\ History(u)[d].pause = Cardinality(Units(events[u], RangeStart, now, d, "break"))
                      /\ Me(u).worked = History(u)[Day(now)].worked
                      /\ Me(u).pause = History(u)[Day(now)].pause
  BY DEF TotalsAddUp
<1>2. PICK log, n, today, from, start :
        /\ log = events[u] /\ n = Len(log) /\ today = Day(now) /\ from = RangeStart
        /\ start = StartOfDay(today)
  OBVIOUS
<1>3. Ordered(log) /\ \A j \in 1 .. Len(log) : log[j].at <= now
  <2>1. log \in Seq(EventRecord) /\ DOMAIN log = 1 .. Len(log)
    BY <1>2
  <2>2. QED BY <1>2, <2>1 DEF Ordered, LogsOrdered
<1>4. /\ today \in Nat /\ start \in Nat /\ start <= now /\ now < StartOfDay(today + 1)
      /\ from \in Nat /\ from <= start /\ Day(from) \in Nat /\ Day(from) <= today
  <2>1. today \in Nat /\ start \in Nat /\ start <= now /\ now < StartOfDay(today + 1)
    BY <1>2, DayIs, DaysFollow
  <2>2. PICK first \in Nat : from = StartOfDay(first) /\ first <= today
    <3>1. CASE today + 1 > HistoryDays
      <4>1. today + 1 - HistoryDays \in Nat /\ today + 1 - HistoryDays <= today
        BY <2>1, <3>1, TimeclockAssumption
      <4>2. QED BY <1>2, <3>1, <4>1 DEF RangeStart
    <3>2. CASE ~(today + 1 > HistoryDays)
      <4>1. StartOfDay(0) = 0
        BY TimeclockAssumption DEF StartOfDay
      <4>2. QED BY <1>2, <2>1, <3>2, <4>1 DEF RangeStart
    <3>3. QED BY <3>1, <3>2
  <2>3. QED BY <1>2, <2>1, <2>2, DaysFollow
<1>5. n \in Nat /\ Len(log) \in 0 .. Len(log)
  BY <1>2, <1>3, EventTyped
<1>6. DaysBooked(History(u), log, from, now) /\ DOMAIN History(u) = Day(from) .. today
  <2>1. PICK zero : zero = [d \in Day(from) .. today |->
                             [worked |-> 0, pause |-> 0, firstIn |-> None, lastOut |-> None]]
    OBVIOUS
  <2>2. DaysBooked(zero, log, from, from) /\ DOMAIN zero = Day(from) .. today
    BY <1>4, <2>1, NoUnits DEF DaysBooked, DayBooked
  <2>3. PICK end : /\ end = Walk(log, from, zero, AddEvent)
                   /\ end.cursor = Cursor(log, from, n) /\ end.status = StatusAfter(KindAt(log, n))
                   /\ DaysBooked(end.sum, log, from, end.cursor) /\ DOMAIN end.sum = DOMAIN zero
    BY <1>2, <1>3, <1>4, <2>2, HistoryWalk
  <2>4. History(u) = AddInterval(end.sum, end.status, end.cursor, now)
    BY <1>2, <2>1, <2>3 DEF History
  <2>5. PICK c \in Nat : c = end.cursor /\ from <= c /\ c <= now /\ (n > 0 => log[n].at <= c)
    BY <1>2, <1>3, <1>4, <1>5, <2>3, EndCursor
  <2>6. QED BY <1>2, <1>3, <1>4, <1>5, <2>2, <2>3, <2>4, <2>5, IntervalBooked
<1>7. Me(u) = Booked(log, start, now, today)
  <2>1. PICK end : /\ end = Walk(log, start, [worked |-> 0, pause |-> 0], AddStretch)
                   /\ end.cursor = Cursor(log, start, n) /\ end.status = StatusAfter(KindAt(log, n))
                   /\ end.sum = Booked(log, start, end.cursor, today)
    <3>1. \A j \in 1 .. Len(log) : log[j].at < StartOfDay(today + 1)
      <4>1. StartOfDay(today + 1) \in Nat /\ now \in Nat /\ now < StartOfDay(today + 1)
        <5>1. today + 1 \in Nat
          BY <1>4
        <5>2. QED BY <1>4, <5>1, DaysFollow
      <4>2. QED BY <1>3, <4>1, EventTyped
    <3>2. QED BY <1>2, <1>3, <1>4, <3>1, MeWalk
  <2>2. Me(u) = Tally(end.sum, end.status, end.cursor, now)
    BY <1>2, <2>1 DEF Me
  <2>3. PICK c \in Nat : c = end.cursor /\ start <= c /\ c <= now /\ (n > 0 => log[n].at <= c)
    BY <1>2, <1>3, <1>4, <1>5, <2>1, EndCursor
  <2>4. QED BY <1>2, <1>3, <1>4, <1>5, <2>1, <2>2, <2>3, StretchBooked
<1>8. \A status : Units(log, start, now, today, status) = Units(log, from, now, today, status)
  <2>1. \A t \in Nat : t < now /\ Day(t) = today => t >= start
    BY <1>2, <1>4, DayIs
  <2>2. QED BY <1>4, <2>1 DEF Units
<1>9. QED
  <2>1. today \in DOMAIN History(u)
    BY <1>4, <1>6
  <2>2. \A d \in DOMAIN History(u) : DayBooked(History(u)[d], log, from, now, d)
    BY <1>6 DEF DaysBooked
  <2>3. \A d \in DOMAIN History(u) :
          /\ History(u)[d].worked = Cardinality(Units(log, from, now, d, "working"))
          /\ History(u)[d].pause = Cardinality(Units(log, from, now, d, "break"))
    BY <2>2 DEF DayBooked
  <2>4. /\ Me(u).worked = Cardinality(Units(log, from, now, today, "working"))
        /\ Me(u).pause = Cardinality(Units(log, from, now, today, "break"))
    BY <1>7, <1>8 DEF Booked
  <2>5. QED BY <1>2, <2>1, <2>3, <2>4

(* The day totals count every unit of time once, in its own day, "intervals *)
(* spanning midnight are split across day buckets"                         *)
(* (timeclock.service.ts:113-114), whatever the log, and me() agrees with  *)
(* the history of today.                                                   *)
THEOREM TotalsAddUpAlways == TimeclockSpec => []TotalsAddUp
<1>1. TimeclockInv => TotalsAddUp
  <2> SUFFICES ASSUME TimeclockInv PROVE TotalsAddUp
    OBVIOUS
  <2>1. now \in Nat
    BY TimeclockAssumption DEF TimeclockInv, ClockTyped
  <2>2. QED BY <2>1, OrderedAddUp DEF TimeclockInv, ClockTyped
<1>2. QED BY <1>1, TimeclockInvariant, PTL

---------------------------------------------------------------------------
(* Tasks and events.                                                       *)

(* What the requests about tasks and events carry.                         *)
PlannerRequest(h) ==
  LET r == proc[h] IN
  /\ r.pc \in {"idle", "refreshTasks", "refreshEvents"} \cup TaskPcs \cup EventPcs
  /\ IF r.pc = "idle" THEN r.user = None ELSE r.user \in User
  /\ r.pc \in TaskPcs => r.ref \in Task
  /\ r.pc \in EventPcs => r.ref \in Event
  /\ r.pc = "addTask" => r.seen.who \in SUBSET User
  /\ r.pc = "respond" => r.seen.is \in {"accepted", "declined"}

PlannerTyped == ProcShape /\ PlannerTypeOK /\ \A h \in Handler : PlannerRequest(h)

PageLists == [tasks : SUBSET (Task \X BOOLEAN), events : SUBSET (Event \X [User -> Reply])]

(* What is to be listed has the type of what a page lists.                 *)
LEMMA ListingTyped ==
  ASSUME PlannerTypeOK, NEW u \in User
  PROVE  MyTasks(u) \in SUBSET (Task \X BOOLEAN) /\ Calendar \in SUBSET (Event \X [User -> Reply])
<1>1. \A t \in Task : task[t].done \in BOOLEAN
  BY DEF PlannerTypeOK, TaskRecord
<1>2. \A e \in Event : event[e].reply \in [User -> Reply]
  BY DEF PlannerTypeOK, CalendarRecord
<1>3. MyTasks(u) \in SUBSET (Task \X BOOLEAN)
  BY <1>1 DEF Mine, MyTasks
<1>4. Calendar \in SUBSET (Event \X [User -> Reply])
  BY <1>2 DEF Calendar
<1>5. QED BY <1>3, <1>4

(* A page fetches one of its lists; the other stays.                       *)
LEMMA ListFetched ==
  ASSUME PlannerTypeOK, NEW u \in User, NEW list \in List, Fetch(u, list)
  PROVE  /\ planned' \in [User -> PageLists]
         /\ \A v \in User : v # u => planned'[v] = planned[v]
         /\ planned'[u].tasks = (IF list = "tasks" THEN MyTasks(u) ELSE planned[u].tasks)
         /\ planned'[u].events = (IF list = "tasks" THEN planned[u].events ELSE Calendar)
<1>1. PICK r \in PageLists : r = planned[u]
  BY DEF PlannerTypeOK, PageLists
<1>2. PICK ts, es : ts = MyTasks(u) /\ es = Calendar
  OBVIOUS
<1>3. ts \in SUBSET (Task \X BOOLEAN) /\ es \in SUBSET (Event \X [User -> Reply])
  BY <1>2, ListingTyped
<1>4. PICK q : q = IF list = "tasks" THEN [r EXCEPT !.tasks = ts] ELSE [r EXCEPT !.events = es]
  OBVIOUS
<1>5. /\ q \in PageLists
      /\ q.tasks = (IF list = "tasks" THEN ts ELSE r.tasks)
      /\ q.events = (IF list = "tasks" THEN r.events ELSE es)
  BY <1>3, <1>4 DEF PageLists
<1>6. planned' = [planned EXCEPT ![u] = q]
  BY <1>1, <1>2, <1>4 DEF Fetch
<1>7. QED BY <1>1, <1>2, <1>5, <1>6 DEF PlannerTypeOK, PageLists

(* Tasks, events, their lists and the requests about them keep their types. *)
LEMMA PlannerTypes ==
  ASSUME PlannerTyped, PlannerNext
  PROVE  PlannerTyped'
<1>0. ProcShape /\ PlannerTypeOK
  BY DEF PlannerTyped
<1>1. ASSUME NEW h \in Handler, NEW pc, NEW u, NEW ref, NEW seen, Moved(h, pc, u, ref, seen),
             PlannerRequest(h)', PlannerTypeOK'
      PROVE  PlannerTyped'
  BY <1>1 DEF PlannerTyped, PlannerRequest, Moved
<1>2. ASSUME UNCHANGED plannerVars PROVE PlannerTypeOK'
  BY <1>0, <1>2 DEF plannerVars, PlannerTypeOK
<1>3. ASSUME NEW h \in Handler, NEW u \in User, NEW t \in Task,
             \/ \E a \in User \cup {None}, shared \in BOOLEAN : BeginAddTask(h, u, t, a, shared)
             \/ BeginToggle(h, u, t) \/ BeginRemoveTask(h, u, t)
      PROVE  PlannerTyped'
  <2>1. PICK pc, seen : /\ Begin(h, pc, u, t, seen) /\ UNCHANGED plannerVars
                        /\ pc \in TaskPcs
                        /\ pc = "addTask" => seen.who \in SUBSET User
    <3>1. ASSUME NEW a \in User \cup {None}, NEW shared \in BOOLEAN, BeginAddTask(h, u, t, a, shared)
          PROVE  \E seen : /\ Begin(h, "addTask", u, t, seen) /\ UNCHANGED plannerVars
                           /\ seen.who \in SUBSET User
      <4>1. PICK seen : seen = Body({a} \ {None}, IF shared THEN "shared" ELSE "personal")
        OBVIOUS
      <4>2. seen.who = {a} \ {None}
        BY <4>1 DEF Body
      <4>3. seen.who \in SUBSET User
        BY <4>2
      <4>4. QED BY <3>1, <4>1, <4>3 DEF BeginAddTask
    <3>2. ASSUME BeginToggle(h, u, t)
          PROVE  \E seen : Begin(h, "toggle", u, t, seen) /\ UNCHANGED plannerVars
      BY <3>2 DEF BeginToggle
    <3>3. ASSUME BeginRemoveTask(h, u, t)
          PROVE  Begin(h, "removeTask", u, t, None) /\ UNCHANGED plannerVars
      BY <3>3 DEF BeginRemoveTask
    <3>4. QED BY <1>3, <3>1, <3>2, <3>3 DEF TaskPcs
  <2>2. Moved(h, pc, u, t, seen)
    BY <1>0, <2>1, BeginMoves
  <2>3. PlannerRequest(h)'
    BY <2>1, <2>2 DEF PlannerRequest, Moved, TaskPcs, EventPcs
  <2>4. QED BY <1>1, <1>2, <2>1, <2>2, <2>3
<1>4. ASSUME NEW h \in Handler, NEW u \in User, NEW e \in Event,
             \/ \E guests \in {{}, User} : BeginCreateEvent(h, u, e, guests)
             \/ \E status \in {"accepted", "declined"} : BeginRespond(h, u, e, status)
             \/ BeginRemoveEvent(h, u, e)
      PROVE  PlannerTyped'
  <2>1. PICK pc, seen : /\ Begin(h, pc, u, e, seen) /\ UNCHANGED plannerVars
                        /\ pc \in EventPcs
                        /\ pc = "respond" => seen.is \in {"accepted", "declined"}
    BY <1>4 DEF BeginCreateEvent, BeginRespond, BeginRemoveEvent, Body, EventPcs
  <2>2. Moved(h, pc, u, e, seen)
    BY <1>0, <2>1, BeginMoves
  <2>3. PlannerRequest(h)'
    BY <2>1, <2>2 DEF PlannerRequest, Moved, TaskPcs, EventPcs
  <2>4. QED BY <1>1, <1>2, <2>1, <2>2, <2>3
<1>5. ASSUME NEW h \in Handler, ToRefresh(h), PlannerTypeOK', proc[h].pc # "idle"
      PROVE  PlannerTyped'
  <2>1. PICK pc \in {"refreshTasks", "refreshEvents"} :
          Moved(h, pc, proc[h].user, proc[h].ref, proc[h].seen)
    BY <1>0, <1>5, GotoMoves DEF ToRefresh, RefreshOf
  <2>2. PlannerRequest(h)'
    BY <1>5, <2>1 DEF PlannerRequest, PlannerTyped, Moved, TaskPcs, EventPcs
  <2>3. QED BY <1>1, <1>5, <2>1, <2>2
<1>6. ASSUME NEW h \in Handler, AddTask(h) \/ UpdateTask(h) \/ RemoveTask(h) PROVE PlannerTyped'
  <2>1. PICK t, u : t = proc[h].ref /\ u = proc[h].user
    OBVIOUS
  <2>2. t \in Task /\ u \in User /\ PlannerRequest(h)
    BY <1>6, <2>1 DEF AddTask, UpdateTask, RemoveTask, At, PlannerTyped, PlannerRequest, TaskPcs, EventPcs
  <2>3. task' \in [Task -> TaskRecord]
    <3>1. CASE AddTask(h)
      <4>1. PICK who, a, s : /\ who = proc[h].seen.who
                             /\ a = (IF who = {} THEN None ELSE CHOOSE x \in who : TRUE)
                             /\ s = (proc[h].seen.is = "shared")
        OBVIOUS
      <4>2. who \in SUBSET User /\ s \in BOOLEAN
        BY <2>2, <3>1, <4>1 DEF AddTask, At, PlannerRequest
      <4>3. a \in User \cup {None}
        BY <4>1, <4>2
      <4>4. task' = [task EXCEPT ![t] = [state |-> "open", creator |-> u, done |-> FALSE,
                                         assignee |-> a, shared |-> s]]
        BY <2>1, <3>1, <4>1 DEF AddTask
      <4>5. [state |-> "open", creator |-> u, done |-> FALSE, assignee |-> a, shared |-> s] \in TaskRecord
        BY <2>2, <4>2, <4>3 DEF TaskRecord
      <4>6. QED BY <1>0, <4>4, <4>5 DEF PlannerTypeOK
    <3>2. CASE UpdateTask(h)
      <4>1. PICK d \in BOOLEAN : d = (proc[h].seen.is = "done")
        OBVIOUS
      <4>2. task' = [task EXCEPT ![t].done = d]
        BY <2>1, <3>2, <4>1 DEF UpdateTask
      <4>3. QED BY <1>0, <2>2, <4>2 DEF PlannerTypeOK, TaskRecord
    <3>3. CASE RemoveTask(h)
      BY <1>0, <2>1, <2>2, <3>3 DEF RemoveTask, PlannerTypeOK, TaskRecord
    <3>4. QED BY <1>6, <3>1, <3>2, <3>3
  <2>4. UNCHANGED <<event, planned>> /\ unseen' \subseteq unseen \cup (User \X List) /\ ToRefresh(h)
    BY <1>6 DEF AddTask, UpdateTask, RemoveTask, Behind, List
  <2>5. PlannerTypeOK'
    BY <1>0, <2>3, <2>4 DEF PlannerTypeOK
  <2>6. proc[h].pc # "idle"
    BY <1>6 DEF AddTask, UpdateTask, RemoveTask, At
  <2>7. QED BY <1>5, <2>4, <2>5, <2>6
<1>7. ASSUME NEW h \in Handler, CreateEvent(h) \/ Respond(h) \/ RemoveEvent(h) PROVE PlannerTyped'
  <2>1. PICK e, u : e = proc[h].ref /\ u = proc[h].user
    OBVIOUS
  <2>2. e \in Event /\ u \in User /\ PlannerRequest(h)
    BY <1>7, <2>1 DEF CreateEvent, Respond, RemoveEvent, At, PlannerTyped, PlannerRequest, TaskPcs, EventPcs
  <2>3. PICK q : q = event[e]
    OBVIOUS
  <2>4. q \in CalendarRecord /\ (q.state # "none" => q.reply[q.creator] # "none")
    BY <1>0, <2>2, <2>3 DEF PlannerTypeOK
  <2>5. PICK r : /\ event' = [event EXCEPT ![e] = r] /\ r \in CalendarRecord
                 /\ r.state # "none" => r.reply[r.creator] # "none"
    <3>1. CASE CreateEvent(h)
      <4>1. PICK who, re : /\ who = proc[h].seen.who
                           /\ re = [v \in User |-> IF v = u THEN "accepted"
                                       ELSE IF v \in who THEN "pending" ELSE "none"]
        OBVIOUS
      <4>2. event' = [event EXCEPT ![e] = [state |-> "open", creator |-> u, reply |-> re]]
        BY <2>1, <3>1, <4>1 DEF CreateEvent
      <4>3. re \in [User -> Reply] /\ re[u] = "accepted"
        BY <2>2, <4>1 DEF Reply
      <4>4. PICK r : r = [state |-> "open", creator |-> u, reply |-> re]
        OBVIOUS
      <4>5. r \in CalendarRecord /\ r.reply[r.creator] # "none"
        BY <2>2, <4>3, <4>4 DEF CalendarRecord
      <4>6. QED BY <4>2, <4>4, <4>5
    <3>2. CASE Respond(h)
      <4>1. PICK s : s = proc[h].seen.is
        OBVIOUS
      <4>2. /\ event' = [event EXCEPT ![e].reply[u] = s] /\ s \in {"accepted", "declined"}
            /\ q.state = "open"
        BY <2>1, <2>2, <2>3, <3>2, <4>1 DEF Respond, At, PlannerRequest
      <4>3. PICK re : re = [q.reply EXCEPT ![u] = s]
        OBVIOUS
      <4>4. re \in [User -> Reply] /\ q.creator \in User \cup {None} /\ q.reply \in [User -> Reply]
        BY <2>4, <4>2, <4>3 DEF CalendarRecord, Reply
      <4>5. re[q.creator] # "none"
        BY <2>2, <2>4, <4>2, <4>3, <4>4, RequestsAssumption
      <4>6. PICK r : r = [q EXCEPT !.reply = re]
        OBVIOUS
      <4>7. r \in CalendarRecord /\ r.reply[r.creator] # "none"
        BY <2>4, <4>4, <4>5, <4>6 DEF CalendarRecord
      <4>8. event' = [event EXCEPT ![e] = r]
        BY <2>3, <4>2, <4>3, <4>6
      <4>9. QED BY <4>7, <4>8
    <3>3. CASE RemoveEvent(h)
      <4>1. event' = [event EXCEPT ![e].state = "gone"] /\ q.state = "open"
        BY <2>1, <2>3, <3>3 DEF RemoveEvent
      <4>2. PICK r : r = [q EXCEPT !.state = "gone"]
        OBVIOUS
      <4>3. r \in CalendarRecord /\ r.reply[r.creator] # "none"
        BY <2>4, <4>1, <4>2 DEF CalendarRecord
      <4>4. event' = [event EXCEPT ![e] = r]
        BY <2>3, <4>1, <4>2
      <4>5. QED BY <4>3, <4>4
    <3>4. QED BY <1>7, <3>1, <3>2, <3>3
  <2>6. UNCHANGED <<task, planned>> /\ unseen' \subseteq unseen \cup (User \X List) /\ ToRefresh(h)
    BY <1>7 DEF CreateEvent, Respond, RemoveEvent, Behind, List
  <2>7. PlannerTypeOK'
    BY <1>0, <2>2, <2>5, <2>6 DEF PlannerTypeOK
  <2>8. proc[h].pc # "idle"
    BY <1>7 DEF CreateEvent, Respond, RemoveEvent, At
  <2>9. QED BY <1>5, <2>6, <2>7, <2>8
<1>8. ASSUME NEW h \in Handler, Swallow(h) PROVE PlannerTyped'
  BY <1>2, <1>5, <1>8 DEF Swallow, TaskPcs, EventPcs
<1>9. ASSUME NEW u \in User, NEW list \in List, Fetch(u, list), unseen' \subseteq unseen,
             UNCHANGED <<task, event>>
      PROVE  PlannerTypeOK'
  BY <1>0, <1>9, ListFetched DEF PlannerTypeOK, PageLists
<1>10. ASSUME NEW h \in Handler, Refresh(h) PROVE PlannerTyped'
  <2>1. PICK list \in List : \E u :
          /\ u = proc[h].user /\ Fetch(u, list) /\ unseen' = unseen \ {<<u, list>>}
          /\ proc[h].pc # "idle" /\ Finish(h) /\ UNCHANGED <<task, event>>
    BY <1>10 DEF Refresh, At, List
  <2>2. proc[h].user \in User
    BY <2>1 DEF PlannerTyped, PlannerRequest
  <2>3. PlannerTypeOK'
    BY <1>9, <2>1, <2>2
  <2>4. Moved(h, "idle", None, None, None)
    BY <1>0, <2>1, FinishMoves
  <2>5. PlannerRequest(h)'
    BY <2>4 DEF PlannerRequest, Moved, TaskPcs, EventPcs
  <2>6. QED BY <1>1, <2>3, <2>4, <2>5
<1>11. ASSUME UNCHANGED proc, PlannerTypeOK' PROVE PlannerTyped'
  BY <1>11 DEF PlannerTyped, ProcShape, PlannerRequest
<1>12. ASSUME NEW u \in User,
              \/ \E list \in List : OpenPlanner(u, list)
              \/ RemoveFromChannel(u) /\ UNCHANGED plannerVars
       PROVE  PlannerTyped'
  BY <1>2, <1>9, <1>11, <1>12 DEF OpenPlanner, RemoveFromChannel, requestVars
<1>13. ASSUME NEW h \in Handler, TasksNext(h) \/ CalendarNext(h) PROVE PlannerTyped'
  BY <1>3, <1>4, <1>6, <1>7, <1>13 DEF TasksNext, CalendarNext
<1>14. QED BY <1>8, <1>10, <1>12, <1>13 DEF PlannerNext

(* At the start there are neither tasks nor events nor requests.           *)
LEMMA PlannerStarts ==
  ASSUME RequestsInit, PlannerInit
  PROVE  PlannerTyped
<1>1. ProcShape /\ \A h \in Handler : proc[h].pc = "idle" /\ proc[h].user = None
  BY InitShape
<1>2. task \in [Task -> TaskRecord]
  BY DEF PlannerInit, TaskRecord
<1>3. event \in [Event -> CalendarRecord] /\ \A e \in Event : event[e].state = "none"
  BY DEF PlannerInit, CalendarRecord, Reply
<1>4. PlannerTypeOK
  BY <1>2, <1>3 DEF PlannerInit, PlannerTypeOK
<1>5. QED BY <1>1, <1>4 DEF PlannerTyped, PlannerRequest, TaskPcs, EventPcs

(* Tasks, events and their lists have their types in every reachable state. *)
LEMMA PlannerTypeCorrect == PlannerSpec => []PlannerTypeOK
<1>1. RequestsInit /\ PlannerInit => PlannerTyped
  BY PlannerStarts
<1>2. PlannerTyped /\ [PlannerNext]_<<requestVars, plannerVars>> => PlannerTyped'
  <2>1. ASSUME PlannerTyped, UNCHANGED <<requestVars, plannerVars>> PROVE PlannerTyped'
    BY <2>1 DEF requestVars, plannerVars, PlannerTyped, ProcShape, PlannerTypeOK, PlannerRequest
  <2>2. QED BY <2>1, PlannerTypes
<1>3. PlannerTyped => PlannerTypeOK
  BY DEF PlannerTyped
<1>4. QED BY <1>1, <1>2, <1>3, PTL DEF PlannerSpec

(* A page shows one of its lists as it is, or a call of its user about     *)
(* that list is under way.                                                 *)
Shows(u, list) ==
  IF list = "tasks" THEN planned[u].tasks = MyTasks(u) ELSE planned[u].events = Calendar
Busy(h, u, list) ==
  /\ proc[h].user = u
  /\ proc[h].pc \in IF list = "tasks" THEN TaskPcs \cup {"refreshTasks"}
                                     ELSE EventPcs \cup {"refreshEvents"}
ListsRight ==
  \A u \in User, list \in List :
    Shows(u, list) \/ <<u, list>> \in unseen \/ \E h \in Handler : Busy(h, u, list)

(* Every step keeps what a user did in his lists, or on its way there.     *)
LEMMA PlannerStep ==
  ASSUME PlannerTyped, ListsRight, PlannerNext
  PROVE  ListsRight'
<1>0. ProcShape /\ PlannerTypeOK /\ \A h \in Handler : PlannerRequest(h)
  BY DEF PlannerTyped
<1>1. ASSUME NEW h \in Handler, NEW pc, NEW u, NEW ref, NEW seen,
             Begin(h, pc, u, ref, seen), UNCHANGED plannerVars
      PROVE  ListsRight'
  <2>1. Moved(h, pc, u, ref, seen) /\ proc[h].pc = "idle"
    BY <1>0, <1>1, BeginMoves
  <2>2. \A g \in Handler, v \in User, list \in List : Busy(g, v, list) => Busy(g, v, list)'
    BY <1>0, <2>1, RequestsAssumption DEF Moved, Busy, PlannerRequest
  <2>3. \A v \in User, list \in List : Shows(v, list)' <=> Shows(v, list)
    BY <1>1 DEF plannerVars, Shows, MyTasks, Mine, Calendar
  <2>4. QED BY <1>1, <2>2, <2>3 DEF plannerVars, ListsRight
<1>2. ASSUME NEW h \in Handler, ToRefresh(h), UNCHANGED planned,
             \/ proc[h].pc \in TaskPcs /\ UNCHANGED event
             \/ proc[h].pc \in EventPcs /\ UNCHANGED task,
             Behind(proc[h].user) \/ UNCHANGED plannerVars
      PROVE  ListsRight'
  <2>1. Moved(h, RefreshOf(proc[h].pc), proc[h].user, proc[h].ref, proc[h].seen)
    BY <1>0, <1>2, GotoMoves DEF ToRefresh
  <2>2. \A g \in Handler, v \in User, list \in List : Busy(g, v, list) => Busy(g, v, list)'
    BY <1>2, <2>1 DEF Moved, Busy, RefreshOf, TaskPcs, EventPcs
  <2>3. UNCHANGED task => \A v \in User : MyTasks(v)' = MyTasks(v)
    BY DEF MyTasks, Mine
  <2>4. UNCHANGED event => Calendar' = Calendar
    BY DEF Calendar
  <2>5. ASSUME NEW v \in User, NEW list \in List, v # proc[h].user
        PROVE  (Shows(v, list) => Shows(v, list)' \/ <<v, list>> \in unseen')
               /\ (<<v, list>> \in unseen => <<v, list>> \in unseen')
    <3>1. CASE Behind(proc[h].user)
      BY <1>2, <2>5, <3>1 DEF Behind, Shows, List
    <3>2. CASE UNCHANGED plannerVars
      BY <2>3, <2>4, <3>2 DEF plannerVars, Shows
    <3>3. QED BY <1>2, <3>1, <3>2
  <2>6. ASSUME NEW u \in User, NEW list \in List, u = proc[h].user
        PROVE  (Shows(u, list) => Shows(u, list)' \/ Busy(h, u, list)')
               /\ (<<u, list>> \in unseen => <<u, list>> \in unseen')
    <3>1. Shows(u, list) => Shows(u, list)' \/ Busy(h, u, list)
      <4>1. CASE list = "tasks"
        BY <1>2, <2>3, <2>6, <4>1 DEF Shows, Busy
      <4>2. CASE list = "events"
        BY <1>2, <2>4, <2>6, <4>2 DEF Shows, Busy
      <4>3. QED BY <4>1, <4>2 DEF List
    <3>2. <<u, list>> \in unseen => <<u, list>> \in unseen'
      BY <1>2 DEF Behind, plannerVars
    <3>3. QED BY <2>2, <2>6, <3>1, <3>2
  <2>7. QED BY <2>2, <2>5, <2>6 DEF ListsRight
<1>3. ASSUME NEW u \in User, NEW list \in List, Fetch(u, list), unseen' = unseen \ {<<u, list>>},
             UNCHANGED <<task, event>>,
             \A g \in Handler, v \in User, l \in List :
               Busy(g, v, l) => Busy(g, v, l)' \/ (v = u /\ l = list)
      PROVE  ListsRight'
  <2>1. \A v \in User : MyTasks(v)' = MyTasks(v) /\ Calendar' = Calendar
    BY <1>3 DEF MyTasks, Mine, Calendar
  <2>2. Shows(u, list)'
    BY <1>0, <1>3, <2>1, ListFetched DEF Shows
  <2>3. ASSUME NEW v \in User, NEW l \in List, v # u \/ l # list
        PROVE  (Shows(v, l) => Shows(v, l)') /\ (<<v, l>> \in unseen => <<v, l>> \in unseen')
    BY <1>0, <1>3, <2>1, <2>3, ListFetched DEF Shows, List
  <2>4. QED BY <1>3, <2>2, <2>3 DEF ListsRight
<1>4. ASSUME NEW h \in Handler, Refresh(h) PROVE ListsRight'
  <2>1. PICK list \in List :
          /\ proc[h].pc = (IF list = "tasks" THEN "refreshTasks" ELSE "refreshEvents")
          /\ Fetch(proc[h].user, list) /\ unseen' = unseen \ {<<proc[h].user, list>>}
          /\ Finish(h) /\ UNCHANGED <<task, event>>
    BY <1>4 DEF Refresh, At
  <2>2. Moved(h, "idle", None, None, None) /\ proc[h].user \in User
    BY <1>0, <2>1, FinishMoves DEF PlannerRequest
  <2>3. \A g \in Handler, v \in User, l \in List :
          Busy(g, v, l) => Busy(g, v, l)' \/ (v = proc[h].user /\ l = list)
    BY <2>1, <2>2 DEF Moved, Busy, List, TaskPcs, EventPcs
  <2>4. QED BY <1>3, <2>1, <2>2, <2>3
<1>5. ASSUME NEW u \in User, NEW list \in List, OpenPlanner(u, list) PROVE ListsRight'
  <2>1. \A g \in Handler, v \in User, l \in List : Busy(g, v, l) => Busy(g, v, l)'
    BY <1>5 DEF OpenPlanner, requestVars, Busy
  <2>2. QED BY <1>3, <1>5, <2>1 DEF OpenPlanner
<1>6. ASSUME UNCHANGED <<proc, plannerVars>> PROVE ListsRight'
  <2>1. /\ \A u \in User, list \in List : Shows(u, list)' <=> Shows(u, list)
        /\ \A h \in Handler, u \in User, list \in List : Busy(h, u, list)' <=> Busy(h, u, list)
        /\ unseen' = unseen
    BY <1>6 DEF plannerVars, Shows, Busy, MyTasks, Mine, Calendar
  <2>2. QED BY <2>1 DEF ListsRight
<1>7. ASSUME NEW h \in Handler,
             AddTask(h) \/ UpdateTask(h) \/ RemoveTask(h) \/ CreateEvent(h) \/ Respond(h)
             \/ RemoveEvent(h) \/ Swallow(h)
      PROVE  ListsRight'
  <2>1. ToRefresh(h) /\ UNCHANGED planned /\ (Behind(proc[h].user) \/ UNCHANGED plannerVars)
    BY <1>7 DEF AddTask, UpdateTask, RemoveTask, CreateEvent, Respond, RemoveEvent, Swallow,
                plannerVars
  <2>2. \/ proc[h].pc \in TaskPcs /\ UNCHANGED event
        \/ proc[h].pc \in EventPcs /\ UNCHANGED task
    BY <1>7 DEF AddTask, UpdateTask, RemoveTask, CreateEvent, Respond, RemoveEvent, Swallow,
                plannerVars, At, TaskPcs, EventPcs
  <2>3. QED BY <1>2, <2>1, <2>2
<1>8. ASSUME NEW h \in Handler, TasksNext(h) \/ CalendarNext(h) \/ Swallow(h) PROVE ListsRight'
  <2>1. ASSUME NEW u \in User, NEW t \in Task,
               \/ \E a \in User \cup {None}, shared \in BOOLEAN : BeginAddTask(h, u, t, a, shared)
               \/ BeginToggle(h, u, t) \/ BeginRemoveTask(h, u, t)
        PROVE  ListsRight'
    BY <1>1, <2>1 DEF BeginAddTask, BeginToggle, BeginRemoveTask
  <2>2. ASSUME NEW u \in User, NEW e \in Event,
               \/ \E guests \in {{}, User} : BeginCreateEvent(h, u, e, guests)
               \/ \E status \in {"accepted", "declined"} : BeginRespond(h, u, e, status)
               \/ BeginRemoveEvent(h, u, e)
        PROVE  ListsRight'
    BY <1>1, <2>2 DEF BeginCreateEvent, BeginRespond, BeginRemoveEvent
  <2>3. QED BY <1>7, <1>8, <2>1, <2>2 DEF TasksNext, CalendarNext
<1>9. QED
  BY <1>4, <1>5, <1>6, <1>8 DEF PlannerNext, RemoveFromChannel

(* Everything a user did himself is in the two lists of his page once his   *)
(* calls are through (TasksModal.tsx:19-38, CalendarModal.tsx:30-50), for  *)
(* any members, tasks, events and requests.                                *)
THEOREM PlannerListedAlways == PlannerSpec => []PlannerListed
<1>1. RequestsInit /\ PlannerInit => PlannerTyped /\ ListsRight
  <2> SUFFICES ASSUME RequestsInit, PlannerInit PROVE PlannerTyped /\ ListsRight
    OBVIOUS
  <2>1. PlannerTyped
    BY PlannerStarts
  <2>2. \A u \in User, list \in List : Shows(u, list)
    BY DEF PlannerInit, Shows, MyTasks, Mine, Calendar
  <2>3. QED BY <2>1, <2>2 DEF ListsRight
<1>2. PlannerTyped /\ ListsRight /\ [PlannerNext]_<<requestVars, plannerVars>>
        => (PlannerTyped /\ ListsRight)'
  <2>1. ASSUME PlannerTyped, ListsRight, UNCHANGED <<requestVars, plannerVars>>
        PROVE  (PlannerTyped /\ ListsRight)'
    <3>1. PlannerTyped'
      BY <2>1 DEF requestVars, plannerVars, PlannerTyped, ProcShape, PlannerTypeOK, PlannerRequest
    <3>2. ListsRight'
      <4>1. /\ \A u \in User, list \in List : Shows(u, list)' <=> Shows(u, list)
            /\ \A h \in Handler, u \in User, list \in List : Busy(h, u, list)' <=> Busy(h, u, list)
            /\ unseen' = unseen
        BY <2>1 DEF requestVars, plannerVars, Shows, Busy, MyTasks, Mine, Calendar
      <4>2. QED BY <2>1, <4>1 DEF ListsRight
    <3>3. QED BY <3>1, <3>2
  <2>2. QED BY <2>1, PlannerStep, PlannerTypes
<1>3. ListsRight => PlannerListed
  <2> SUFFICES ASSUME ListsRight, NEW u \in User, NEW list \in List
               PROVE  \/ planned[u][list] = Listing(u)[list] \/ <<u, list>> \in unseen
                      \/ \E h \in Handler : Busy(h, u, list)
    BY DEF PlannerListed, Busy
  <2>1. CASE list = "tasks"
    BY <2>1 DEF ListsRight, Shows, Listing
  <2>2. CASE list = "events"
    BY <2>2 DEF ListsRight, Shows, Listing
  <2>3. QED BY <2>1, <2>2 DEF List
<1>4. QED BY <1>1, <1>2, <1>3, PTL DEF PlannerSpec

---------------------------------------------------------------------------
(* The channel's note.                                                     *)

EditorShape(r) ==
  r = [open |-> r.open, loaded |-> r.loaded, busy |-> r.busy, base |-> r.base,
       content |-> r.content]

(* What an editor holds, and what a save sends, has all of the text it was *)
(* based on.                                                               *)
NotesInv ==
  /\ ProcShape
  /\ editor = [u \in User |-> editor[u]] /\ \A u \in User : EditorShape(editor[u])
  /\ \A u \in User : editor[u].base \subseteq editor[u].content
  /\ \A h \in Handler : proc[h].pc = "saveNote" => proc[h].ref \subseteq proc[h].seen
  /\ EditsKept

(* An editor whose base and content stay, or are replaced by a pair of     *)
(* which the second has all of the first.                                  *)
Edited(u) ==
  /\ editor' = [v \in User |-> editor'[v]]
  /\ EditorShape(editor'[u]) /\ editor'[u].base \subseteq editor'[u].content
  /\ \A v \in User : v # u => editor'[v] = editor[v]

(* Every change of an editor is of this kind.                              *)
LEMMA EditorChanges ==
  ASSUME NotesInv, NEW u \in User
  PROVE  /\ \A b : editor' = [editor EXCEPT ![u].open = b] => Edited(u)
         /\ \A b : editor' = [editor EXCEPT ![u].busy = b] => Edited(u)
         /\ \A text : Load(u, text) => Edited(u)
         /\ editor' = [editor EXCEPT ![u].content = editor[u].content \cup {u}] => Edited(u)
         /\ editor' = [editor EXCEPT ![u] = Closed] => Edited(u)
<1> USE DEF NotesInv
<1>1. PICK r : r = editor[u]
  OBVIOUS
<1>2. PICK o, l, y, b, c : o = r.open /\ l = r.loaded /\ y = r.busy /\ b = r.base /\ c = r.content
  OBVIOUS
<1>3. r = [open |-> o, loaded |-> l, busy |-> y, base |-> b, content |-> c] /\ b \subseteq c
  BY <1>1, <1>2 DEF EditorShape
<1>4. ASSUME NEW o1, NEW l1, NEW y1, NEW b1, NEW c1, b1 \subseteq c1,
             editor' = [editor EXCEPT ![u] =
               [open |-> o1, loaded |-> l1, busy |-> y1, base |-> b1, content |-> c1]]
      PROVE  Edited(u)
  <2>1. PICK q : q = [open |-> o1, loaded |-> l1, busy |-> y1, base |-> b1, content |-> c1]
    OBVIOUS
  <2>2. EditorShape(q) /\ q.base = b1 /\ q.content = c1
    BY <2>1 DEF EditorShape
  <2>3. editor' = [editor EXCEPT ![u] = q]
    BY <1>4, <2>1
  <2>4. editor'[u] = q /\ (\A v \in User : v # u => editor'[v] = editor[v])
    BY <2>3
  <2>5. editor' = [v \in User |-> editor'[v]]
    BY <2>3
  <2>6. QED BY <1>4, <2>2, <2>4, <2>5 DEF Edited
<1>5. ASSUME NEW x, editor' = [editor EXCEPT ![u].open = x] PROVE Edited(u)
  <2>1. [r EXCEPT !.open = x] = [open |-> x, loaded |-> l, busy |-> y, base |-> b, content |-> c]
    BY <1>3
  <2>2. QED BY <1>1, <1>3, <1>4, <1>5, <2>1
<1>6. ASSUME NEW x, editor' = [editor EXCEPT ![u].busy = x] PROVE Edited(u)
  <2>1. [r EXCEPT !.busy = x] = [open |-> o, loaded |-> l, busy |-> x, base |-> b, content |-> c]
    BY <1>3
  <2>2. QED BY <1>1, <1>3, <1>4, <1>6, <2>1
<1>7. ASSUME NEW text, Load(u, text) PROVE Edited(u)
  <2>1. PICK t : t = TRUE
    OBVIOUS
  <2>2. PICK r1 : r1 = [r EXCEPT !.open = t]
    OBVIOUS
  <2>3. PICK r2 : r2 = [r1 EXCEPT !.loaded = t]
    OBVIOUS
  <2>4. PICK r3 : r3 = [r2 EXCEPT !.base = text]
    OBVIOUS
  <2>5. PICK r4 : r4 = [r3 EXCEPT !.content = text]
    OBVIOUS
  <2>6. r1 = [open |-> t, loaded |-> l, busy |-> y, base |-> b, content |-> c]
    BY <1>3, <2>2
  <2>7. r2 = [open |-> t, loaded |-> t, busy |-> y, base |-> b, content |-> c]
    BY <2>3, <2>6
  <2>8. r3 = [open |-> t, loaded |-> t, busy |-> y, base |-> text, content |-> c]
    BY <2>4, <2>7
  <2>9. r4 = [open |-> t, loaded |-> t, busy |-> y, base |-> text, content |-> text]
    BY <2>5, <2>8
  <2>10. editor' = [editor EXCEPT ![u] = r4]
    BY <1>1, <1>7, <2>1, <2>2, <2>3, <2>4, <2>5 DEF Load
  <2>11. QED BY <1>4, <2>9, <2>10
<1>8. ASSUME editor' = [editor EXCEPT ![u].content = editor[u].content \cup {u}] PROVE Edited(u)
  <2>1. PICK d : d = c \cup {u}
    OBVIOUS
  <2>2. [r EXCEPT !.content = d] = [open |-> o, loaded |-> l, busy |-> y, base |-> b, content |-> d]
    BY <1>3
  <2>3. b \subseteq d /\ editor' = [editor EXCEPT ![u] = [r EXCEPT !.content = d]]
    BY <1>1, <1>2, <1>3, <1>8, <2>1
  <2>4. QED BY <1>4, <2>2, <2>3
<1>9. ASSUME editor' = [editor EXCEPT ![u] = Closed] PROVE Edited(u)
  BY <1>4, <1>9 DEF Closed
<1>10. QED BY <1>5, <1>6, <1>7, <1>8, <1>9

(* A save takes nobody's edit away as long as the note is still the one    *)
(* its editor was given (NotesModal.tsx:6).                                *)
THEOREM EditsKeptAlways == NotesSpec => []EditsKept
<1>1. RequestsInit /\ NotesInit => NotesInv
  BY InitShape DEF NotesInit, Closed, NotesInv, EditorShape, EditsKept
<1>2. ASSUME NotesInv, NotesNext PROVE NotesInv'
  <2> USE <1>2 DEF NotesInv
  <2>1. ASSUME NEW u \in User, Edited(u) \/ UNCHANGED editor, UNCHANGED <<proc, taken>>
        PROVE  NotesInv'
    BY <2>1 DEF Edited, ProcShape, EditsKept
  <2>2. ASSUME NEW u \in User, EditorStep(u) PROVE NotesInv'
    <3>1. Edited(u) \/ UNCHANGED editor
      BY <2>2, EditorChanges DEF EditorStep, OpenEditor, FetchNote, Write, CloseEditor
    <3>2. QED
      BY <2>1, <2>2, <3>1
         DEF EditorStep, OpenEditor, FetchNote, Write, CloseEditor, requestVars
  <2>3. ASSUME NEW u \in User, RemoveFromChannel(u), UNCHANGED notesVars PROVE NotesInv'
    BY <2>1, <2>3 DEF RemoveFromChannel, notesVars
  <2>4. ASSUME NEW u \in User, NEW h \in Handler, BeginSave(h, u) PROVE NotesInv'
    <3>1. Moved(h, "saveNote", u, editor[u].base, editor[u].content)
      BY <2>4, BeginMoves DEF BeginSave
    <3>2. Edited(u) /\ UNCHANGED taken
      BY <2>4, EditorChanges DEF BeginSave
    <3>3. QED BY <3>1, <3>2 DEF Moved, Edited, EditsKept
  <2>5. ASSUME NEW h \in Handler, SaveNote(h) PROVE NotesInv'
    <3>1. Moved(h, "readNote", proc[h].user, proc[h].ref, proc[h].seen) /\ UNCHANGED editor
      BY <2>5, GotoMoves DEF SaveNote
    <3>2. taken' = {}
      BY <2>5 DEF SaveNote, At, EditsKept
    <3>3. QED BY <3>1, <3>2 DEF Moved, EditsKept
  <2>6. ASSUME NEW h \in Handler, ReadNote(h) PROVE NotesInv'
    <3>1. Moved(h, "noteAnswer", proc[h].user, proc[h].ref, note) /\ UNCHANGED <<editor, taken>>
      BY <2>6, GotoWithMoves DEF ReadNote, notesVars
    <3>2. QED BY <3>1 DEF Moved, EditsKept
  <2>7. ASSUME NEW h \in Handler, TakeNote(h) \/ SaveFails(h) PROVE NotesInv'
    <3>1. Moved(h, "idle", None, None, None) /\ UNCHANGED taken
      BY <2>7, FinishMoves DEF TakeNote, SaveFails, Die
    <3>2. UNCHANGED editor \/ \E u \in User : Edited(u)
      <4>1. CASE proc[h].user \in User
        BY <2>7, <4>1, EditorChanges DEF TakeNote, SaveFails
      <4>2. CASE proc[h].user \notin User
        BY <2>7, <4>2 DEF TakeNote, SaveFails
      <4>3. QED BY <4>1, <4>2
    <3>3. QED BY <3>1, <3>2 DEF Moved, Edited, EditsKept
  <2>8. QED BY <2>2, <2>3, <2>4, <2>5, <2>6, <2>7 DEF NotesNext
<1>3. ASSUME NotesInv, UNCHANGED <<requestVars, notesVars>> PROVE NotesInv'
  BY <1>3 DEF requestVars, notesVars, NotesInv, ProcShape, EditsKept
<1>4. NotesInv => EditsKept
  BY DEF NotesInv
<1>5. QED BY <1>1, <1>2, <1>3, <1>4, PTL DEF NotesSpec

(* What a save carries: the text the editor was given and the one it has.  *)
NoteRequest(h) ==
  LET r == proc[h] IN
  /\ r.pc \in {"idle", "saveNote", "readNote", "noteAnswer"}
  /\ r.pc # "idle" => r.user \in User
  /\ r.pc \in {"saveNote", "noteAnswer"} => r.seen \in Text

NotesTyped == ProcShape /\ NotesTypeOK /\ \A h \in Handler : NoteRequest(h)

(* The note, its copies and editors keep their types.                      *)
LEMMA NotesTypes ==
  ASSUME NotesTyped, NotesNext
  PROVE  NotesTyped'
<1>0. ProcShape /\ NotesTypeOK
  BY DEF NotesTyped
<1>1. ASSUME NEW h \in Handler, NEW pc, NEW u, NEW ref, NEW seen, Moved(h, pc, u, ref, seen),
             NoteRequest(h)', NotesTypeOK'
      PROVE  NotesTyped'
  BY <1>1 DEF NotesTyped, NoteRequest, Moved
<1>2. ASSUME UNCHANGED proc, NotesTypeOK' PROVE NotesTyped'
  BY <1>2 DEF NotesTyped, ProcShape, NoteRequest
<1>3. ASSUME NEW u \in User, NEW text \in Text, Load(u, text) PROVE editor' \in [User -> EditorRecord]
  BY <1>0, <1>3 DEF Load, NotesTypeOK, EditorRecord
<1>4. ASSUME NEW u \in User, OpenEditor(u) PROVE NotesTyped'
  <2>1. editor' \in [User -> EditorRecord]
    <3>1. CASE copy[u] = None
      <4>1. editor' = [editor EXCEPT ![u].open = TRUE]
        BY <1>4, <3>1 DEF OpenEditor
      <4>2. QED BY <1>0, <4>1 DEF NotesTypeOK, EditorRecord
    <3>2. CASE copy[u] # None
      BY <1>0, <1>3, <1>4, <3>2 DEF OpenEditor, NotesTypeOK
    <3>3. QED BY <3>1, <3>2
  <2>2. UNCHANGED <<note, copy, taken, proc>>
    BY <1>4 DEF OpenEditor, requestVars
  <2>3. QED BY <1>0, <1>2, <2>1, <2>2 DEF NotesTypeOK
<1>5. ASSUME NEW u \in User, FetchNote(u) PROVE NotesTyped'
  <2>1. note \in Text
    BY <1>0 DEF NotesTypeOK
  <2>2. editor' \in [User -> EditorRecord]
    BY <1>0, <1>3, <1>5, <2>1 DEF FetchNote, NotesTypeOK
  <2>3. copy' \in [User -> Text \cup {None}] /\ UNCHANGED <<note, taken, proc>>
    BY <1>0, <1>5, <2>1 DEF FetchNote, requestVars, NotesTypeOK
  <2>4. QED BY <1>0, <1>2, <2>2, <2>3 DEF NotesTypeOK
<1>6. ASSUME NEW u \in User, Write(u) PROVE NotesTyped'
  <2>1. PICK c : c = editor[u].content \cup {u}
    OBVIOUS
  <2>2. editor' = [editor EXCEPT ![u].content = c] /\ c \in Text
    BY <1>0, <1>6, <2>1 DEF Write, NotesTypeOK, EditorRecord, Text
  <2>3. editor' \in [User -> EditorRecord]
    BY <1>0, <2>2 DEF NotesTypeOK, EditorRecord
  <2>4. UNCHANGED <<note, copy, taken, proc>>
    BY <1>6 DEF Write, requestVars
  <2>5. QED BY <1>0, <1>2, <2>3, <2>4 DEF NotesTypeOK
<1>7. Closed \in EditorRecord
  BY DEF Closed, EditorRecord, Text
<1>8. ASSUME NEW u \in User, CloseEditor(u) PROVE NotesTyped'
  BY <1>0, <1>2, <1>7, <1>8 DEF CloseEditor, requestVars, NotesTypeOK
<1>9. ASSUME NEW u \in User, NEW h \in Handler, BeginSave(h, u) PROVE NotesTyped'
  <2>1. PICK ref, seen : ref = editor[u].base /\ seen = editor[u].content
    OBVIOUS
  <2>2. seen \in Text
    BY <1>0, <2>1 DEF NotesTypeOK, EditorRecord
  <2>3. Moved(h, "saveNote", u, ref, seen)
    BY <1>0, <1>9, <2>1, BeginMoves DEF BeginSave
  <2>4. NoteRequest(h)'
    BY <2>2, <2>3 DEF NoteRequest, Moved
  <2>5. editor' = [editor EXCEPT ![u].busy = TRUE] /\ UNCHANGED <<note, copy, taken>>
    BY <1>9 DEF BeginSave
  <2>6. NotesTypeOK'
    BY <1>0, <2>5 DEF NotesTypeOK, EditorRecord
  <2>7. QED BY <1>1, <2>3, <2>4, <2>6
<1>10. ASSUME NEW h \in Handler, SaveNote(h) PROVE NotesTyped'
  <2>1. PICK seen, u : seen = proc[h].seen /\ u = proc[h].user
    OBVIOUS
  <2>2. seen \in Text /\ u \in User
    BY <1>10, <2>1 DEF SaveNote, At, NotesTyped, NoteRequest
  <2>3. Moved(h, "readNote", u, proc[h].ref, seen)
    BY <1>0, <1>10, <2>1, GotoMoves DEF SaveNote
  <2>4. NoteRequest(h)'
    BY <2>2, <2>3 DEF NoteRequest, Moved
  <2>5. note' = seen /\ taken' \subseteq taken \cup note /\ UNCHANGED <<copy, editor>>
    BY <1>10, <2>1 DEF SaveNote
  <2>6. NotesTypeOK'
    BY <1>0, <2>2, <2>5 DEF NotesTypeOK, Text
  <2>7. QED BY <1>1, <2>3, <2>4, <2>6
<1>11. ASSUME NEW h \in Handler, ReadNote(h) PROVE NotesTyped'
  <2>1. Moved(h, "noteAnswer", proc[h].user, proc[h].ref, note) /\ UNCHANGED notesVars
    BY <1>0, <1>11, GotoWithMoves DEF ReadNote
  <2>2. proc[h].user \in User /\ note \in Text
    BY <1>0, <1>11 DEF ReadNote, At, NotesTyped, NoteRequest, NotesTypeOK
  <2>3. NoteRequest(h)'
    BY <2>1, <2>2 DEF NoteRequest, Moved
  <2>4. NotesTypeOK'
    BY <1>0, <2>1 DEF NotesTypeOK, notesVars
  <2>5. QED BY <1>1, <2>1, <2>3, <2>4
<1>12. ASSUME NEW h \in Handler, TakeNote(h) \/ SaveFails(h) PROVE NotesTyped'
  <2>1. PICK seen, u : seen = proc[h].seen /\ u = proc[h].user
    OBVIOUS
  <2>2. u \in User
    BY <1>12, <2>1 DEF TakeNote, SaveFails, Die, At, NotesTyped, NoteRequest
  <2>3. Moved(h, "idle", None, None, None)
    BY <1>0, <1>12, FinishMoves DEF TakeNote, SaveFails, Die
  <2>4. NoteRequest(h)'
    BY <2>3 DEF NoteRequest, Moved
  <2>5. NotesTypeOK'
    <3>1. CASE TakeNote(h)
      <4>1. seen \in Text
        BY <2>1, <3>1 DEF TakeNote, At, NotesTyped, NoteRequest
      <4>2. QED BY <1>0, <1>7, <2>1, <2>2, <3>1, <4>1 DEF TakeNote, NotesTypeOK
    <3>2. CASE SaveFails(h)
      <4>1. editor' = [editor EXCEPT ![u].busy = FALSE] /\ UNCHANGED <<note, copy, taken>>
        BY <2>1, <3>2 DEF SaveFails
      <4>2. QED BY <1>0, <4>1 DEF NotesTypeOK, EditorRecord
    <3>3. QED BY <1>12, <3>1, <3>2
  <2>6. QED BY <1>1, <2>3, <2>4, <2>5
<1>13. ASSUME NEW u \in User, RemoveFromChannel(u), UNCHANGED notesVars PROVE NotesTyped'
  BY <1>0, <1>2, <1>13 DEF RemoveFromChannel, notesVars, NotesTypeOK
<1>14. QED
  BY <1>4, <1>5, <1>6, <1>8, <1>9, <1>10, <1>11, <1>12, <1>13 DEF NotesNext, EditorStep

(* The note, its copies and editors have their types in every reachable     *)
(* state.                                                                  *)
LEMMA NotesTypeCorrect == NotesSpec => []NotesTypeOK
<1>1. RequestsInit /\ NotesInit => NotesTyped
  <2> SUFFICES ASSUME RequestsInit, NotesInit PROVE NotesTyped
    OBVIOUS
  <2>1. ProcShape /\ \A h \in Handler : proc[h].pc = "idle"
    BY InitShape
  <2>2. NotesTypeOK
    BY DEF NotesInit, NotesTypeOK, Closed, EditorRecord, Text
  <2>3. QED BY <2>1, <2>2 DEF NotesTyped, NoteRequest
<1>2. NotesTyped /\ [NotesNext]_<<requestVars, notesVars>> => NotesTyped'
  <2>1. ASSUME NotesTyped, UNCHANGED <<requestVars, notesVars>> PROVE NotesTyped'
    BY <2>1 DEF requestVars, notesVars, NotesTyped, ProcShape, NotesTypeOK, NoteRequest
  <2>2. QED BY <2>1, NotesTypes
<1>3. NotesTyped => NotesTypeOK
  BY DEF NotesTyped
<1>4. QED BY <1>1, <1>2, <1>3, PTL DEF NotesSpec

---------------------------------------------------------------------------
(* Broadcasts.                                                             *)

(* n counts the channels in which the announcement of u stands, or fewer   *)
(* of them when a send of his failed halfway.                              *)
CountsPosted(u, n) ==
  n <= Cardinality(posted[u]) /\ (u \in cutShort \/ n = Cardinality(posted[u]))

(* What each program counter knows: the channels still to come hold no     *)
(* announcement, but for the one just posted to and not counted yet.       *)
Sending(h) ==
  LET r == proc[h] IN
  /\ r.pc \in {"idle", "next", "post", "sent"}
  /\ r.pc = "idle" => r.user = None
  /\ r.pc # "idle" => r.user \in User /\ shownSent[r.user] = None
  /\ r.pc \in {"next", "post"} =>
       posted[r.user] \cap r.ref = {} /\ CountsPosted(r.user, counted[r.user])
  /\ r.pc = "post" => r.seen \in r.ref
  /\ r.pc = "sent" =>
       /\ posted[r.user] \cap (r.ref \ {r.seen}) = {}
       /\ CountsPosted(r.user, counted[r.user] + 1)

BroadcastInv ==
  /\ ProcShape
  /\ posted = [u \in User |-> posted[u]] /\ \A u \in User : IsFiniteSet(posted[u])
  /\ counted \in [User -> Nat] /\ shownSent = [u \in User |-> shownSent[u]]
  /\ \A h \in Handler : Sending(h)
  /\ \A g, h \in Handler : proc[g].user = proc[h].user /\ proc[g].user \in User => g = h
  /\ \A u \in User : shownSent[u] # None => CountsPosted(u, shownSent[u])

(* A step of one broadcast whose user stays its own, and which touches     *)
(* nothing of the others.                                                  *)
LEMMA OwnBroadcast ==
  ASSUME BroadcastInv, NEW h \in Handler, NEW pc, NEW u \in User, NEW ref, NEW seen,
         Moved(h, pc, u, ref, seen), proc[h].user = u \/ \A g \in Handler : proc[g].user # u,
         pc # "idle",
         posted' = [v \in User |-> posted'[v]], IsFiniteSet(posted'[u]),
         counted' \in [User -> Nat], shownSent' = [v \in User |-> shownSent'[v]],
         shownSent'[u] = None, Sending(h)',
         \A v \in User : v # u => /\ posted'[v] = posted[v] /\ counted'[v] = counted[v]
                                 /\ shownSent'[v] = shownSent[v] /\ (v \in cutShort <=> v \in cutShort')
  PROVE  BroadcastInv'
<1>1. ProcShape'
  BY DEF Moved
<1>2. \A g \in Handler : Sending(g)'
  <2> SUFFICES ASSUME NEW g \in Handler, g # h PROVE Sending(g)'
    OBVIOUS
  <2>1. proc'[g] = proc[g] /\ proc[g].user # u
    BY DEF Moved, BroadcastInv
  <2>2. Sending(g)
    BY DEF BroadcastInv
  <2>3. QED BY <2>1, <2>2 DEF Sending, CountsPosted
<1>3. \A g, k \in Handler : proc'[g].user = proc'[k].user /\ proc'[g].user \in User => g = k
  BY DEF Moved, BroadcastInv
<1>4. \A v \in User : shownSent'[v] # None => CountsPosted(v, shownSent[v])'
  BY DEF BroadcastInv, CountsPosted
<1>5. \A v \in User : IsFiniteSet(posted'[v])
  BY DEF BroadcastInv
<1>6. QED BY <1>1, <1>2, <1>3, <1>4, <1>5 DEF BroadcastInv

(* The answer, or none, ends a broadcast and shows a count.                *)
LEMMA BroadcastEnds ==
  ASSUME BroadcastInv, NEW h \in Handler, NEW n, NEW u \in User, u = proc[h].user, Finish(h),
         shownSent' = [shownSent EXCEPT ![u] = n],
         UNCHANGED <<posted, counted>>, CountsPosted(u, n)',
         cutShort' = cutShort \/ cutShort' = cutShort \cup {u}
  PROVE  BroadcastInv'
<1>1. Moved(h, "idle", None, None, None)
  BY FinishMoves DEF BroadcastInv
<1>2. \A g \in Handler : Sending(g)'
  <2>1. Sending(h)'
    BY <1>1 DEF Moved, Sending
  <2>2. ASSUME NEW g \in Handler, g # h PROVE Sending(g)'
    <3>1. proc'[g] = proc[g] /\ proc[g].user # u /\ Sending(g)
      BY <1>1, <2>2 DEF Moved, BroadcastInv
    <3>2. QED BY <1>1, <3>1 DEF Sending, CountsPosted, BroadcastInv
  <2>3. QED BY <2>1, <2>2
<1>3. \A v \in User : shownSent'[v] # None => CountsPosted(v, shownSent[v])'
  <2> SUFFICES ASSUME NEW v \in User, shownSent'[v] # None PROVE CountsPosted(v, shownSent[v])'
    OBVIOUS
  <2>1. CASE v = u
    <3>1. shownSent'[v] = n
      BY <2>1 DEF BroadcastInv
    <3>2. QED BY <2>1, <3>1 DEF CountsPosted
  <2>2. CASE v # u
    <3>1. shownSent'[v] = shownSent[v] /\ (v \in cutShort <=> v \in cutShort')
      BY <2>2 DEF BroadcastInv
    <3>2. QED BY <3>1 DEF BroadcastInv, CountsPosted
  <2>3. QED BY <2>1, <2>2
<1>4. ProcShape' /\ \A g, k \in Handler : proc'[g].user = proc'[k].user /\ proc'[g].user \in User => g = k
  BY <1>1, RequestsAssumption DEF Moved, BroadcastInv
<1>5. QED BY <1>2, <1>3, <1>4 DEF BroadcastInv

(* Every step of the broadcasts keeps the invariant.                       *)
LEMMA BroadcastStep ==
  ASSUME BroadcastInv, BroadcastNext
  PROVE  BroadcastInv'
<1>1. ASSUME NEW h \in Handler, NEW u \in User, NEW picked, BeginBroadcast(h, u, picked)
      PROVE  BroadcastInv'
  <2>1. Moved(h, "next", u, picked, None) /\ \A g \in Handler : proc[g].user # u
    BY <1>1, BeginMoves DEF BeginBroadcast, BroadcastInv
  <2>2. /\ posted' = [v \in User |-> posted'[v]] /\ posted'[u] = {} /\ IsFiniteSet(posted'[u])
        /\ counted' \in [User -> Nat] /\ counted'[u] = 0
        /\ shownSent' = [v \in User |-> shownSent'[v]] /\ shownSent'[u] = None
        /\ \A v \in User : v # u => /\ posted'[v] = posted[v] /\ counted'[v] = counted[v]
                                    /\ shownSent'[v] = shownSent[v]
                                    /\ (v \in cutShort <=> v \in cutShort')
    BY <1>1, FS_EmptySet DEF BeginBroadcast, BroadcastInv
  <2>3. Sending(h)'
    BY <2>1, <2>2, FS_EmptySet DEF Moved, Sending, CountsPosted
  <2>4. QED BY <2>1, <2>2, <2>3, OwnBroadcast
<1>2. ASSUME NEW h \in Handler, NEW c, CheckTarget(h, c) PROVE BroadcastInv'
  <2>1. Sending(h) /\ proc[h].pc = "next" /\ c \in proc[h].ref
    BY <1>2 DEF CheckTarget, At, BroadcastInv
  <2>2. UNCHANGED broadcastVars /\ ProcShape
    BY <1>2 DEF CheckTarget, BroadcastInv
  <2>3. \/ Moved(h, "post", proc[h].user, proc[h].ref, c)
        \/ Moved(h, "next", proc[h].user, RestAfter(h, c), proc[h].seen)
    <3>1. CASE <<proc[h].user, c>> \in postable
      <4>1. GotoWith(h, "post", c)
        BY <1>2, <3>1 DEF CheckTarget, GotoWith
      <4>2. QED BY <2>2, <4>1, GotoWithMoves
    <3>2. CASE <<proc[h].user, c>> \notin postable
      BY <1>2, <2>1, <2>2, <3>2, RefAloneMoves DEF CheckTarget
    <3>3. QED BY <3>1, <3>2
  <2>4. Sending(h)' /\ proc'[h].user \in User
    BY <2>1, <2>2, <2>3 DEF Moved, Sending, CountsPosted, broadcastVars, RestAfter
  <2>5. PICK u \in User : u = proc[h].user
    BY <2>1 DEF Sending
  <2>6. shownSent'[u] = None /\ IsFiniteSet(posted'[u])
    BY <2>1, <2>2, <2>5 DEF Sending, broadcastVars, BroadcastInv
  <2>7. /\ UNCHANGED <<posted, counted, shownSent, cutShort>>
        /\ posted = [v \in User |-> posted[v]] /\ counted \in [User -> Nat]
        /\ shownSent = [v \in User |-> shownSent[v]]
    BY <2>2 DEF broadcastVars, BroadcastInv
  <2>8. QED BY <2>3, <2>4, <2>5, <2>6, <2>7, OwnBroadcast
<1>3. ASSUME NEW h \in Handler, PostTarget(h) PROVE BroadcastInv'
  <2>1. PICK u : u = proc[h].user
    OBVIOUS
  <2>2. Moved(h, "sent", u, proc[h].ref, proc[h].seen)
    BY <1>3, <2>1, GotoMoves DEF PostTarget, BroadcastInv
  <2>3. Sending(h) /\ u \in User /\ proc[h].pc = "post" /\ shownSent[u] = None
    BY <1>3, <2>1 DEF PostTarget, At, BroadcastInv, Sending
  <2>4. /\ posted' = [posted EXCEPT ![u] = posted[u] \cup {proc[h].seen}]
        /\ UNCHANGED <<counted, shownSent, cutShort>>
    BY <1>3, <2>1 DEF PostTarget
  <2>5. /\ posted' = [v \in User |-> posted'[v]] /\ posted'[u] = posted[u] \cup {proc[h].seen}
        /\ \A v \in User : v # u => posted'[v] = posted[v]
    BY <2>3, <2>4 DEF BroadcastInv
  <2>6. proc[h].seen \notin posted[u] /\ IsFiniteSet(posted[u])
    BY <2>1, <2>3 DEF Sending, BroadcastInv
  <2>7. /\ IsFiniteSet(posted'[u]) /\ Cardinality(posted'[u]) = Cardinality(posted[u]) + 1
        /\ Cardinality(posted[u]) \in Nat
    BY <2>5, <2>6, FS_AddElement, FS_CardinalityType
  <2>8. Sending(h)'
    BY <2>1, <2>2, <2>3, <2>4, <2>5, <2>7 DEF Moved, Sending, CountsPosted, BroadcastInv
  <2>9. QED BY <2>1, <2>2, <2>3, <2>4, <2>5, <2>7, <2>8, OwnBroadcast DEF BroadcastInv
<1>4. ASSUME NEW h \in Handler, SendFails(h) \/ CountTarget(h) PROVE BroadcastInv'
  <2>1. PICK u : u = proc[h].user
    OBVIOUS
  <2>2. Moved(h, "next", u, RestAfter(h, proc[h].seen), None)
    BY <1>4, <2>1, AllMoves DEF SendFails, CountTarget, NextTarget, BroadcastInv
  <2>3. Sending(h) /\ u \in User /\ proc[h].pc \in {"post", "sent"} /\ shownSent[u] = None
    BY <1>4, <2>1 DEF SendFails, CountTarget, At, BroadcastInv, Sending
  <2>4. UNCHANGED <<posted, shownSent>>
    BY <1>4 DEF SendFails, CountTarget
  <2>5. \/ proc[h].pc = "post" /\ UNCHANGED <<counted, cutShort>>
        \/ proc[h].pc = "sent" /\ counted' = [counted EXCEPT ![u] = counted[u] + 1] /\ UNCHANGED cutShort
        \/ proc[h].pc = "sent" /\ cutShort' = cutShort \cup {u} /\ UNCHANGED counted
    BY <1>4, <2>1 DEF SendFails, CountTarget, At
  <2>6. /\ counted' \in [User -> Nat] /\ Cardinality(posted[u]) \in Nat /\ counted[u] \in Nat
        /\ \A v \in User : v # u => counted'[v] = counted[v] /\ (v \in cutShort <=> v \in cutShort')
    <3>1. counted \in [User -> Nat] /\ counted[u] \in Nat /\ IsFiniteSet(posted[u])
      BY <2>3 DEF BroadcastInv
    <3>2. Cardinality(posted[u]) \in Nat
      BY <3>1, FS_CardinalityType
    <3>3. QED BY <2>3, <2>5, <3>1, <3>2
  <2>7. posted[u] \cap RestAfter(h, proc[h].seen) = {} /\ CountsPosted(u, counted[u])'
    <3>1. CASE proc[h].pc = "post" /\ UNCHANGED <<counted, cutShort>>
      BY <2>1, <2>3, <2>4, <3>1 DEF Sending, CountsPosted, RestAfter
    <3>2. CASE proc[h].pc = "sent" /\ counted' = [counted EXCEPT ![u] = counted[u] + 1] /\ UNCHANGED cutShort
      <4>1. counted'[u] = counted[u] + 1
        BY <2>3, <3>2 DEF BroadcastInv
      <4>2. QED BY <2>1, <2>3, <2>4, <3>2, <4>1 DEF Sending, CountsPosted, RestAfter
    <3>3. CASE proc[h].pc = "sent" /\ cutShort' = cutShort \cup {u} /\ UNCHANGED counted
      BY <2>1, <2>3, <2>4, <2>6, <3>3 DEF Sending, CountsPosted, RestAfter
    <3>4. QED BY <2>5, <3>1, <3>2, <3>3
  <2>8. Sending(h)'
    BY <2>2, <2>3, <2>4, <2>7 DEF Moved, Sending
  <2>9. QED BY <2>1, <2>2, <2>3, <2>4, <2>6, <2>8, OwnBroadcast DEF BroadcastInv
<1>5. ASSUME NEW h \in Handler, ShowSent(h) PROVE BroadcastInv'
  <2>1. PICK u : u = proc[h].user
    OBVIOUS
  <2>2. u \in User /\ CountsPosted(u, counted[u])
    BY <1>5, <2>1 DEF ShowSent, At, BroadcastInv, Sending
  <2>3. UNCHANGED <<posted, counted, cutShort>> /\ Finish(h)
    BY <1>5 DEF ShowSent
  <2>4. PICK n : n = counted[u]
    OBVIOUS
  <2>5. CountsPosted(u, n)' /\ shownSent' = [shownSent EXCEPT ![u] = n]
    BY <1>5, <2>1, <2>2, <2>3, <2>4 DEF ShowSent, CountsPosted
  <2>6. QED BY <2>1, <2>2, <2>3, <2>5, BroadcastEnds
<1>6. ASSUME NEW h \in Handler, ShowNone(h) PROVE BroadcastInv'
  <2>1. PICK u \in User : u = proc[h].user
    BY <1>6 DEF ShowNone, Die, At, BroadcastInv, Sending
  <2>2. Cardinality(posted[u]) \in Nat
    BY FS_CardinalityType DEF BroadcastInv
  <2>3. UNCHANGED <<posted, counted>> /\ cutShort' = cutShort \cup {u}
    BY <1>6, <2>1 DEF ShowNone
  <2>4. CountsPosted(u, 0)'
    BY <2>2, <2>3 DEF CountsPosted
  <2>5. QED BY <1>6, <2>1, <2>3, <2>4, BroadcastEnds DEF ShowNone, Die
<1>7. ASSUME NEW u, NEW c, ChangePostable(u, c) PROVE BroadcastInv'
  BY <1>7 DEF ChangePostable, requestVars, BroadcastInv, ProcShape, Sending, CountsPosted
<1>8. QED BY <1>1, <1>2, <1>3, <1>4, <1>5, <1>6, <1>7 DEF BroadcastNext

(* Every broadcast counts what it posted, in every reachable state.         *)
LEMMA BroadcastInvariant == BroadcastSpec => []BroadcastInv
<1>1. RequestsInit /\ BroadcastInit => BroadcastInv
  <2> SUFFICES ASSUME RequestsInit, BroadcastInit PROVE BroadcastInv
    OBVIOUS
  <2>1. ProcShape /\ \A h \in Handler : proc[h].pc = "idle" /\ proc[h].user = None
    BY InitShape
  <2>2. QED BY <2>1, FS_EmptySet, RequestsAssumption DEF BroadcastInit, BroadcastInv, Sending
<1>2. ASSUME BroadcastInv, [BroadcastNext]_<<requestVars, broadcastVars>> PROVE BroadcastInv'
  <2>1. CASE BroadcastNext
    BY <1>2, <2>1, BroadcastStep
  <2>2. CASE UNCHANGED <<requestVars, broadcastVars>>
    BY <1>2, <2>2 DEF requestVars, broadcastVars, BroadcastInv, ProcShape, Sending, CountsPosted
  <2>3. QED BY <1>2, <2>1, <2>2
<1>3. QED BY <1>1, <1>2, PTL DEF BroadcastSpec

(* The count shown for a broadcast claims no conversation the announcement *)
(* is not in, and every one it is in unless a send or the answer failed    *)
(* (broadcast.service.ts:17-31, BroadcastModal.tsx:40-57).                 *)
THEOREM SentCountRightAlways == BroadcastSpec => []SentCountRight
<1>1. BroadcastInv => SentCountRight
  BY DEF BroadcastInv, CountsPosted, SentCountRight
<1>2. QED BY <1>1, BroadcastInvariant, PTL

(* What a broadcast carries, and where its announcements may stand.        *)
TargetsTyped ==
  /\ postable \subseteq User \X Target /\ posted \in [User -> SUBSET Target] /\ cutShort \subseteq User
  /\ shownSent \in [User -> Nat \cup {None}]
  /\ \A u \in User : counted[u] <= Cardinality(posted[u])
  /\ \A h \in Handler : /\ proc[h].pc \in {"next", "post", "sent"} => proc[h].ref \subseteq Target
                        /\ proc[h].pc \in {"post", "sent"} => proc[h].seen \in Target

(* Announcements stand in channels that were picked.                       *)
LEMMA TargetsStep ==
  ASSUME BroadcastInv, TargetsTyped, BroadcastNext
  PROVE  TargetsTyped'
<1>0. ProcShape /\ \A h \in Handler : proc[h].pc # "idle" => proc[h].user \in User
  BY DEF BroadcastInv, Sending
<1>1. ASSUME NEW h \in Handler, NEW u \in User, NEW picked \in SUBSET Target, BeginBroadcast(h, u, picked)
      PROVE  TargetsTyped'
  <2>1. Moved(h, "next", u, picked, None)
    BY <1>0, <1>1, BeginMoves DEF BeginBroadcast
  <2>2. /\ posted' \in [User -> SUBSET Target] /\ cutShort' \subseteq User /\ UNCHANGED postable
        /\ shownSent' \in [User -> Nat \cup {None}]
    BY <1>1 DEF BeginBroadcast, TargetsTyped
  <2>3. \A v \in User : counted'[v] <= Cardinality(posted'[v])
    BY <1>1, FS_EmptySet DEF BeginBroadcast, TargetsTyped, BroadcastInv
  <2>4. QED BY <2>1, <2>2, <2>3 DEF TargetsTyped, Moved
<1>2. ASSUME NEW h \in Handler, NEW c \in Target, CheckTarget(h, c) PROVE TargetsTyped'
  <2>1. UNCHANGED broadcastVars /\ proc[h].pc = "next"
    BY <1>2 DEF CheckTarget, At
  <2>2. \/ Moved(h, "post", proc[h].user, proc[h].ref, c)
        \/ Moved(h, "next", proc[h].user, RestAfter(h, c), proc[h].seen)
    <3>1. CASE <<proc[h].user, c>> \in postable
      <4>1. GotoWith(h, "post", c)
        BY <1>2, <3>1 DEF CheckTarget, GotoWith
      <4>2. QED BY <1>0, <4>1, GotoWithMoves
    <3>2. CASE <<proc[h].user, c>> \notin postable
      BY <1>0, <1>2, <2>1, <3>2, RefAloneMoves DEF CheckTarget
    <3>3. QED BY <3>1, <3>2
  <2>3. QED BY <2>1, <2>2 DEF TargetsTyped, Moved, RestAfter, broadcastVars
<1>3. ASSUME NEW h \in Handler, PostTarget(h) PROVE TargetsTyped'
  <2>1. PICK u, c : u = proc[h].user /\ c = proc[h].seen
    OBVIOUS
  <2>2. u \in User /\ c \in Target /\ proc[h].ref \subseteq Target
    BY <1>0, <1>3, <2>1 DEF PostTarget, At, TargetsTyped
  <2>3. Moved(h, "sent", u, proc[h].ref, c)
    BY <1>0, <1>3, <2>1, GotoMoves DEF PostTarget
  <2>4. posted' = [posted EXCEPT ![u] = @ \cup {c}] /\ UNCHANGED <<postable, cutShort>>
    BY <1>3, <2>1 DEF PostTarget
  <2>5. posted' \in [User -> SUBSET Target]
    BY <2>2, <2>4 DEF TargetsTyped
  <2>6. \A v \in User : counted'[v] <= Cardinality(posted'[v])
    <3>1. UNCHANGED counted /\ posted'[u] = posted[u] \cup {c} /\ \A v \in User : v # u => posted'[v] = posted[v]
      BY <1>3, <2>2, <2>4 DEF PostTarget, TargetsTyped
    <3>2. IsFiniteSet(posted[u]) /\ counted[u] \in Nat
      BY <2>2 DEF BroadcastInv
    <3>3. /\ Cardinality(posted[u]) \in Nat /\ Cardinality(posted'[u]) \in Nat
          /\ Cardinality(posted[u]) <= Cardinality(posted'[u])
      <4>1. PICK S, T : S = posted[u] /\ T = posted[u] \cup {c}
        OBVIOUS
      <4>2. IsFiniteSet(T) /\ (Cardinality(T) = Cardinality(S) \/ Cardinality(T) = Cardinality(S) + 1)
        BY <3>2, <4>1, FS_AddElement
      <4>3. Cardinality(S) \in Nat
        BY <3>2, <4>1, FS_CardinalityType
      <4>4. QED BY <3>1, <4>1, <4>2, <4>3
    <3>4. counted[u] <= Cardinality(posted[u])
      BY <2>2 DEF TargetsTyped
    <3>5. counted'[u] <= Cardinality(posted'[u])
      BY <3>1, <3>2, <3>3, <3>4
    <3>6. \A v \in User : v # u => counted'[v] <= Cardinality(posted'[v])
      BY <3>1 DEF TargetsTyped
    <3>7. QED BY <3>5, <3>6
  <2>7. UNCHANGED shownSent
    BY <1>3 DEF PostTarget
  <2>8. QED BY <2>2, <2>3, <2>4, <2>5, <2>6, <2>7 DEF TargetsTyped, Moved
<1>4. ASSUME NEW h \in Handler, SendFails(h) \/ CountTarget(h) PROVE TargetsTyped'
  <2>1. Moved(h, "next", proc[h].user, RestAfter(h, proc[h].seen), None)
    BY <1>0, <1>4, AllMoves DEF SendFails, CountTarget, NextTarget
  <2>2. proc[h].pc \in {"post", "sent"} /\ proc[h].user \in User
    BY <1>0, <1>4 DEF SendFails, CountTarget, At
  <2>3. UNCHANGED <<postable, posted>> /\ cutShort' \subseteq cutShort \cup {proc[h].user}
    BY <1>4 DEF SendFails, CountTarget
  <2>4. \A v \in User : counted'[v] <= Cardinality(posted'[v])
    <3>1. PICK u : u = proc[h].user
      OBVIOUS
    <3>2. \/ UNCHANGED counted
          \/ proc[h].pc = "sent" /\ counted' = [counted EXCEPT ![u] = counted[u] + 1]
      BY <1>4, <3>1 DEF SendFails, CountTarget, At
    <3>3. proc[h].pc = "sent" => counted[u] + 1 <= Cardinality(posted[u])
      BY <3>1 DEF BroadcastInv, Sending, CountsPosted
    <3>4. QED BY <2>2, <2>3, <3>1, <3>2, <3>3 DEF TargetsTyped, BroadcastInv
  <2>5. UNCHANGED shownSent
    BY <1>4 DEF SendFails, CountTarget
  <2>6. QED BY <2>1, <2>2, <2>3, <2>4, <2>5 DEF TargetsTyped, Moved, RestAfter
<1>5. ASSUME NEW h \in Handler, ShowSent(h) \/ ShowNone(h) PROVE TargetsTyped'
  <2>1. Moved(h, "idle", None, None, None) /\ proc[h].user \in User
    BY <1>0, <1>5, FinishMoves DEF ShowSent, ShowNone, Die, At
  <2>2. UNCHANGED <<postable, posted, counted>> /\ cutShort' \subseteq cutShort \cup {proc[h].user}
    BY <1>5 DEF ShowSent, ShowNone
  <2>3. PICK u \in User, n \in Nat : u = proc[h].user /\ shownSent' = [shownSent EXCEPT ![u] = n]
    BY <1>5, <2>1 DEF ShowSent, ShowNone, BroadcastInv
  <2>4. shownSent' \in [User -> Nat \cup {None}]
    BY <2>3 DEF TargetsTyped
  <2>5. QED BY <2>1, <2>2, <2>4 DEF TargetsTyped, Moved
<1>6. ASSUME NEW u \in User, NEW c \in Target, ChangePostable(u, c) PROVE TargetsTyped'
  BY <1>6 DEF ChangePostable, requestVars, TargetsTyped
<1>7. QED BY <1>1, <1>2, <1>3, <1>4, <1>5, <1>6 DEF BroadcastNext

(* Announcements, counts and what the modals show have their types.        *)
LEMMA BroadcastTypeCorrect == BroadcastSpec => []BroadcastTypeOK
<1>1. RequestsInit /\ BroadcastInit => TargetsTyped
  <2> SUFFICES ASSUME RequestsInit, BroadcastInit PROVE TargetsTyped
    OBVIOUS
  <2>1. \A h \in Handler : proc[h].pc = "idle"
    BY InitShape
  <2>2. QED BY <2>1, FS_EmptySet DEF BroadcastInit, TargetsTyped
<1>2. BroadcastInv /\ TargetsTyped /\ [BroadcastNext]_<<requestVars, broadcastVars>> => TargetsTyped'
  <2>1. ASSUME TargetsTyped, UNCHANGED <<requestVars, broadcastVars>> PROVE TargetsTyped'
    BY <2>1 DEF requestVars, broadcastVars, TargetsTyped
  <2>2. QED BY <2>1, TargetsStep
<1>3. BroadcastInv /\ TargetsTyped => BroadcastTypeOK
  <2> SUFFICES ASSUME BroadcastInv, TargetsTyped PROVE BroadcastTypeOK
    OBVIOUS
  <2>1. ASSUME NEW u \in User, NEW n \in Nat, n <= Cardinality(posted[u])
        PROVE  n \in 0 .. Cardinality(Target)
    <3>1. posted[u] \in SUBSET Target
      BY DEF TargetsTyped
    <3>2. /\ Cardinality(posted[u]) \in Nat /\ Cardinality(Target) \in Nat
          /\ Cardinality(posted[u]) <= Cardinality(Target)
      BY <3>1, FS_Subset, FS_CardinalityType, BroadcastAssumption
    <3>3. QED BY <2>1, <3>2
  <2>2. counted \in [User -> 0 .. Cardinality(Target)]
    BY <2>1 DEF BroadcastInv, TargetsTyped
  <2>3. shownSent \in [User -> (0 .. Cardinality(Target)) \cup {None}]
    <3>1. ASSUME NEW u \in User PROVE shownSent[u] \in (0 .. Cardinality(Target)) \cup {None}
      <4>1. shownSent[u] # None => shownSent[u] \in Nat /\ shownSent[u] <= Cardinality(posted[u])
        BY DEF BroadcastInv, CountsPosted, TargetsTyped
      <4>2. QED BY <2>1, <4>1
    <3>2. QED BY <3>1 DEF TargetsTyped
  <2>4. QED BY <2>2, <2>3 DEF BroadcastTypeOK, TargetsTyped
<1>4. QED BY <1>1, <1>2, <1>3, BroadcastInvariant, PTL DEF BroadcastSpec
=============================================================================
