------------------------------- MODULE Typing -------------------------------
(***************************************************************************)
(* The typing indicator of one channel.  The Redis hash is written, read    *)
(* and pruned by three statements of updateTyping, and the list read goes   *)
(* to the pages of the channel.  Nobody is asked whether he is a member.    *)
(***************************************************************************)
EXTENDS Requests

VARIABLES typing,      \* the typing hash: users, each fresh or expired
          typingShown, \* users the last TypingUpdate named
          outdated     \* history: updates crossed, died or were never made

typingVars == <<typing, typingShown, outdated>>

TypingTypeOK ==
  /\ typing \in [User -> {"no", "fresh", "expired"}] /\ typingShown \subseteq User
  /\ outdated \in BOOLEAN

TypingInit ==
  /\ typing = [u \in User |-> "no"] /\ typingShown = {} /\ outdated = FALSE

(* updateTyping writes the field, reads the hash, prunes and broadcasts.   *)
BeginTyping(h, u, on) ==
  /\ Begin(h, "typingWrite", u, None, IF on THEN {u} ELSE {})
  /\ outdated' = ~AllIdle /\ UNCHANGED <<typing, typingShown>>

WriteTyping(h) ==
  /\ At(h, "typingWrite")
  /\ typing' = [typing EXCEPT ![proc[h].user] =
                 IF proc[h].seen = {} THEN "no" ELSE "fresh"]
  /\ Goto(h, "typingRead") /\ UNCHANGED <<typingShown, outdated>>

ReadTyping(h) ==
  /\ At(h, "typingRead")
  /\ proc' = [proc EXCEPT ![h].pc = "typingPrune", ![h].seen = {u \in User : typing[u] = "fresh"},
                          ![h].ref = {u \in User : typing[u] = "expired"}]
  /\ UNCHANGED <<requests, members, typingVars>>

(* Fields that had expired are pruned, renewed in between or not. *)
PruneTyping(h) ==
  /\ At(h, "typingPrune")
  /\ typing' = [u \in User |-> IF u \in proc[h].ref THEN "no" ELSE typing[u]]
  /\ Goto(h, "typingTell") /\ UNCHANGED <<typingShown, outdated>>

TellTyping(h) ==
  /\ At(h, "typingTell") /\ typingShown' = proc[h].seen
  /\ Finish(h) /\ UNCHANGED <<typing, outdated>>

ExpireTyping(u) ==
  /\ typing[u] = "fresh" /\ typing' = [typing EXCEPT ![u] = "expired"]
  /\ UNCHANGED <<typingShown, outdated, requestVars>>

(* A key of a channel in which nobody typed for 30 s goes as a whole. *)
DropTypingKey ==
  /\ \A u \in User : typing[u] # "fresh"
  /\ \E u \in User : typing[u] = "expired"
  /\ typing' = [u \in User |-> "no"] /\ outdated' = TRUE
  /\ UNCHANGED <<typingShown, requestVars>>

TypingDies(h) ==
  /\ Die(h) /\ outdated' = TRUE
  /\ UNCHANGED <<typing, typingShown>>

UpdateTyping(h) == WriteTyping(h) \/ ReadTyping(h) \/ PruneTyping(h) \/ TellTyping(h)

TypingNext ==
  \/ \E h \in Handler :
       \/ \E u \in User, on \in BOOLEAN : BeginTyping(h, u, on)
       \/ UpdateTyping(h) \/ TypingDies(h)
  \/ \E u \in User : ExpireTyping(u)
  \/ DropTypingKey

TypingSpec == RequestsInit /\ TypingInit /\ [][TypingNext]_<<requestVars, typingVars>>

(* The indicator names the users in the hash once no update is under way,  *)
(* fresh or not yet pruned, unless the last update crossed another one, or  *)
(* died, or the whole key expired (chat.gateway.ts:149-179).                *)
TypingShownRight ==
  AllIdle /\ ~outdated => typingShown = {u \in User : typing[u] # "no"}
=============================================================================
