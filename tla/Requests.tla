------------------------------ MODULE Requests ------------------------------
(***************************************************************************)
(* What the smaller services of the API have in common: a request is       *)
(* checked, and its later statements run one await at a time, interleaved  *)
(* with those of other requests; a request may die at any await.  Nothing  *)
(* is locked in between.  What a request has read it keeps, as ref (the    *)
(* row it is about) and seen (what the row said).                          *)
(*                                                                         *)
(* One channel stands for those the requests are about: requireMembership  *)
(* looks its members up, and members may be removed at any time.           *)
(***************************************************************************)
EXTENDS Naturals, FiniteSets

CONSTANTS User,        \* members of the workspace
          Handler,     \* requests under way at the same time
          MaxRequests, \* bound on the requests of a behaviour
          None

ASSUME RequestsAssumption ==
  /\ IsFiniteSet(User) /\ MaxRequests \in Nat /\ None \notin User \cup Handler

VARIABLES proc,     \* the requests under way
          requests, \* how many were made
          members   \* the members of the channel

requestVars == <<proc, requests, members>>

Idle == [pc |-> "idle", user |-> None, ref |-> None, seen |-> None]

RequestsInit ==
  /\ proc = [h \in Handler |-> Idle] /\ requests = 0 /\ members = User

At(h, pc) == proc[h].pc = pc

(* A request that passed its checks. *)
Begin(h, pc, u, ref, seen) ==
  /\ At(h, "idle") /\ requests < MaxRequests
  /\ requests' = requests + 1
  /\ proc' = [proc EXCEPT ![h] = [pc |-> pc, user |-> u, ref |-> ref, seen |-> seen]]
  /\ UNCHANGED members

Goto(h, pc) ==
  proc' = [proc EXCEPT ![h].pc = pc] /\ UNCHANGED <<requests, members>>

GotoWith(h, pc, seen) ==
  /\ proc' = [proc EXCEPT ![h].pc = pc, ![h].seen = seen]
  /\ UNCHANGED <<requests, members>>

Finish(h) == proc' = [proc EXCEPT ![h] = Idle] /\ UNCHANGED <<requests, members>>

(* A call that is answered by one statement, whose check is part of it. *)
Answer == /\ requests < MaxRequests /\ requests' = requests + 1
          /\ UNCHANGED <<proc, members>>

(* A request dies at an await, with its process or its database. *)
Die(h) == ~At(h, "idle") /\ Finish(h)

RemoveFromChannel(u) ==
  /\ u \in members /\ members' = members \ {u} /\ UNCHANGED <<proc, requests>>

AllIdle == \A h \in Handler : At(h, "idle")
=============================================================================
