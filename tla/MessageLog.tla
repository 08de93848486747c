---------------------------- MODULE MessageLog ----------------------------
(***************************************************************************)
(* What posting to a channel promises a client, whatever happens to the    *)
(* HTTP calls that carry it.  A client names each message with a key (its  *)
(* clientMsgId) and may send the same key again: the channel keeps one     *)
(* entry per key for ever, an entry is announced to the channel at most    *)
(* once, and a call is answered only for a key that is in the log.         *)
(***************************************************************************)

CONSTANTS Key,  \* the client message ids
          Id    \* the ids of stored messages

VARIABLES log,       \* the set of entries [key, id]
          announced, \* the ids broadcast to the channel
          answered   \* the keys some client holds a success answer for

Entry == [key : Key, id : Id]

KeysOf(entries) == {e.key : e \in entries}
IdsOf(entries)  == {e.id : e \in entries}

LogInit == log = {} /\ announced = {} /\ answered = {}

(* The key's only entry is appended, with a fresh id. *)
Store(k, id) ==
  /\ k \notin KeysOf(log)
  /\ id \notin IdsOf(log)
  /\ log' = log \cup {[key |-> k, id |-> id]}
  /\ UNCHANGED <<announced, answered>>

(* The call that stored the entry broadcasts it and answers its client. *)
Publish(e) ==
  /\ e \in log
  /\ e.id \notin announced
  /\ announced' = announced \cup {e.id}
  /\ answered' = answered \cup {e.key}
  /\ UNCHANGED log

(* A repeated call is answered with the entry that is already there. *)
AnswerAgain(k) ==
  /\ k \in KeysOf(log)
  /\ answered' = answered \cup {k}
  /\ UNCHANGED <<log, announced>>

LogNext ==
  \/ \E k \in Key, id \in Id : Store(k, id)
  \/ \E e \in log : Publish(e)
  \/ \E k \in Key : AnswerAgain(k)

logVars == <<log, announced, answered>>

LogSpec == LogInit /\ [][LogNext]_logVars
===========================================================================
