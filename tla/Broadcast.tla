----------------------------- MODULE Broadcast -----------------------------
(***************************************************************************)
(* BroadcastService: one announcement to many channels, one after the       *)
(* other, skipping those that fail, and the count the modal shows for it.    *)
(* A send posts the message first and may fail after that.                  *)
(***************************************************************************)
EXTENDS Requests

CONSTANTS Target

ASSUME BroadcastAssumption == IsFiniteSet(Target)

VARIABLES postable, \* <<user, channel>>: who may post where
          posted,   \* channels in which the announcement of each user stands
          counted,  \* the count the handler of each user has reached
          shownSent, \* the count each modal shows, None before the answer
          cutShort  \* history: users whose send or answer failed halfway

broadcastVars == <<postable, posted, counted, shownSent, cutShort>>

BroadcastTypeOK ==
  /\ postable \subseteq User \X Target /\ posted \in [User -> SUBSET Target]
  /\ counted \in [User -> 0..Cardinality(Target)]
  /\ shownSent \in [User -> 0..Cardinality(Target) \cup {None}] /\ cutShort \subseteq User

BroadcastInit ==
  /\ postable = User \X Target /\ posted = [u \in User |-> {}]
  /\ counted = [u \in User |-> 0] /\ shownSent = [u \in User |-> None] /\ cutShort = {}

(* The modal offers the channels of the sidebar that are not archived, and  *)
(* is busy until the answer; a user has one at a time.                      *)
BeginBroadcast(h, u, picked) ==
  /\ picked # {} /\ \A g \in Handler : proc[g].user # u
  /\ Begin(h, "next", u, picked, None)
  /\ posted' = [posted EXCEPT ![u] = {}] /\ counted' = [counted EXCEPT ![u] = 0]
  /\ shownSent' = [shownSent EXCEPT ![u] = None] /\ cutShort' = cutShort \ {u}
  /\ UNCHANGED postable

RestAfter(h, c) == proc[h].ref \ {c}

(* requirePostable lets the send through, or the channel is skipped. *)
CheckTarget(h, c) ==
  /\ At(h, "next") /\ c \in proc[h].ref
  /\ proc' = IF <<proc[h].user, c>> \in postable
             THEN [proc EXCEPT ![h].pc = "post", ![h].seen = c]
             ELSE [proc EXCEPT ![h].ref = RestAfter(h, c)]
  /\ UNCHANGED <<requests, members, broadcastVars>>

PostTarget(h) ==
  LET u == proc[h].user IN
  /\ At(h, "post") /\ posted' = [posted EXCEPT ![u] = @ \cup {proc[h].seen}]
  /\ Goto(h, "sent") /\ UNCHANGED <<postable, counted, shownSent, cutShort>>

NextTarget(h) ==
  /\ proc' = [proc EXCEPT ![h].pc = "next", ![h].seen = None, ![h].ref = RestAfter(h, proc[h].seen)]
  /\ UNCHANGED <<requests, members>>

(* A send that fails before it has posted is skipped like one not allowed. *)
SendFails(h) ==
  /\ At(h, "post") /\ NextTarget(h)
  /\ UNCHANGED <<postable, posted, counted, shownSent, cutShort>>

(* The rest of a send passes, or fails with the message posted. *)
CountTarget(h) ==
  /\ At(h, "sent") /\ NextTarget(h)
  /\ \/ counted' = [counted EXCEPT ![proc[h].user] = @ + 1] /\ UNCHANGED cutShort
     \/ cutShort' = cutShort \cup {proc[h].user} /\ UNCHANGED counted
  /\ UNCHANGED <<postable, posted, shownSent>>

ShowSent(h) ==
  /\ At(h, "next") /\ proc[h].ref = {}
  /\ shownSent' = [shownSent EXCEPT ![proc[h].user] = counted[proc[h].user]]
  /\ Finish(h) /\ UNCHANGED <<postable, posted, counted, cutShort>>

(* Whatever becomes of a request that gets no answer, the modal shows 0. *)
ShowNone(h) ==
  /\ Die(h)
  /\ shownSent' = [shownSent EXCEPT ![proc[h].user] = 0] /\ cutShort' = cutShort \cup {proc[h].user}
  /\ UNCHANGED <<postable, posted, counted>>

(* Memberships, posting rules and archiving change at any time. *)
ChangePostable(u, c) ==
  /\ postable' = IF <<u, c>> \in postable THEN postable \ {<<u, c>>} ELSE postable \cup {<<u, c>>}
  /\ UNCHANGED <<posted, counted, shownSent, cutShort, requestVars>>

BroadcastNext ==
  \/ \E h \in Handler :
       \/ \E u \in User, picked \in SUBSET Target : BeginBroadcast(h, u, picked)
       \/ \E c \in Target : CheckTarget(h, c)
       \/ PostTarget(h) \/ SendFails(h) \/ CountTarget(h) \/ ShowSent(h) \/ ShowNone(h)
  \/ \E u \in User, c \in Target : ChangePostable(u, c)

BroadcastSpec == RequestsInit /\ BroadcastInit /\ [][BroadcastNext]_<<requestVars, broadcastVars>>

(* The modal never claims a conversation the announcement is not in, and    *)
(* claims every one it is in unless a send failed with its message posted    *)
(* or the answer was lost (broadcast.service.ts:17-31,                       *)
(* BroadcastModal.tsx:40-57).                                               *)
SentCountRight ==
  \A u \in User :
    shownSent[u] # None => /\ shownSent[u] <= Cardinality(posted[u])
                           /\ u \in cutShort \/ shownSent[u] = Cardinality(posted[u])
=============================================================================
