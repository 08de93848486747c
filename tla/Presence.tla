------------------------------ MODULE Presence ------------------------------
(***************************************************************************)
(* Connections and the online key of ChatGateway.                           *)
(*                                                                         *)
(* handleConnection and handleDisconnect are awaited by nobody: the second  *)
(* may run while the first is still on its way, and those of two sockets of *)
(* one user interleave.  The online key lives in Redis with a TTL that a    *)
(* timer per socket renews; a PresenceUpdate is sent when a handler thinks  *)
(* the user's status flipped.  A connection is used once: a client that     *)
(* comes back is another one.                                              *)
(***************************************************************************)
EXTENDS Requests

CONSTANTS Connection

VARIABLES conn,       \* where handleConnection stands for each connection
          leave,      \* where handleDisconnect stands
          owner,      \* the user of each connection
          timers,     \* connections whose timer runs
          onlineKey,  \* users with presence:online in Redis
          told,       \* users the last PresenceUpdate called online
          crossed,    \* history: users who connected while one of their sockets was being counted out
          leaked,     \* history: users with a timer nobody will clear
          stopped     \* history: a process died with its sockets and timers

presenceVars == <<conn, leave, owner, timers, onlineKey, told, crossed, leaked, stopped>>

PresenceTypeOK ==
  /\ conn \in [Connection -> {"new", "joined", "online", "offline", "set", "setOffline",
                              "up"}]
  /\ leave \in [Connection -> {"no", "dropped", "last", "deleted", "done"}]
  /\ owner \in [Connection -> User \cup {None}]
  /\ timers \subseteq Connection /\ onlineKey \cup told \subseteq User
  /\ crossed \cup leaked \subseteq User /\ stopped \in BOOLEAN

PresenceInit ==
  /\ conn = [s \in Connection |-> "new"] /\ leave = [s \in Connection |-> "no"]
  /\ owner = [s \in Connection |-> None] /\ timers = {} /\ onlineKey = {} /\ told = {}
  /\ crossed = {} /\ leaked = {} /\ stopped = FALSE

(* What fetchSockets counts: the sockets in the user's room. *)
Sockets(u) == {s \in Connection : owner[s] = u /\ conn[s] # "new" /\ leave[s] = "no"}

(* The handshake passed; the socket enters the rooms of its user.  A        *)
(* disconnection that has counted already will take the user's key, or call *)
(* him offline, all the same.                                              *)
Connect(s, u) ==
  /\ conn[s] = "new" /\ Answer
  /\ conn' = [conn EXCEPT ![s] = "joined"] /\ owner' = [owner EXCEPT ![s] = u]
  /\ crossed' = IF \E t \in Connection : owner[t] = u /\ leave[t] \in {"last", "deleted"}
                THEN crossed \cup {u} ELSE crossed
  /\ UNCHANGED <<leave, timers, onlineKey, told, leaked, stopped>>

LookUpKey(s) ==
  /\ conn[s] = "joined"
  /\ conn' = [conn EXCEPT ![s] = IF owner[s] \in onlineKey THEN "online" ELSE "offline"]
  /\ UNCHANGED <<leave, owner, timers, onlineKey, told, crossed, leaked, stopped, requestVars>>

SetKey(s) ==
  /\ conn[s] \in {"online", "offline"}
  /\ conn' = [conn EXCEPT ![s] = IF @ = "online" THEN "set" ELSE "setOffline"]
  /\ onlineKey' = onlineKey \cup {owner[s]}
  /\ UNCHANGED <<leave, owner, timers, told, crossed, leaked, stopped, requestVars>>

(* The timer starts; a socket that has dropped leaves it running. *)
FinishConnect(s) ==
  /\ conn[s] \in {"set", "setOffline"}
  /\ conn' = [conn EXCEPT ![s] = "up"] /\ timers' = timers \cup {s}
  /\ told' = IF conn[s] = "setOffline" THEN told \cup {owner[s]} ELSE told
  /\ leaked' = IF leave[s] # "no" THEN leaked \cup {owner[s]} ELSE leaked
  /\ UNCHANGED <<leave, owner, onlineKey, crossed, stopped, requestVars>>

(* The socket drops, at any moment; its timer, if it has one, is cleared. *)
Drop(s) ==
  /\ conn[s] # "new" /\ leave[s] = "no"
  /\ leave' = [leave EXCEPT ![s] = "dropped"] /\ timers' = timers \ {s}
  /\ UNCHANGED <<conn, owner, onlineKey, told, crossed, leaked, stopped, requestVars>>

(* Defect: every disconnection ends the user's presence. *)
CountNone(s) ==
  /\ leave[s] = "dropped" /\ leave' = [leave EXCEPT ![s] = "last"]
  /\ UNCHANGED <<conn, owner, timers, onlineKey, told, crossed, leaked, stopped, requestVars>>

CountSockets(s) ==
  /\ leave[s] = "dropped"
  /\ leave' = [leave EXCEPT ![s] = IF Sockets(owner[s]) = {} THEN "last" ELSE "done"]
  /\ UNCHANGED <<conn, owner, timers, onlineKey, told, crossed, leaked, stopped, requestVars>>

DeleteKey(s) ==
  /\ leave[s] = "last" /\ leave' = [leave EXCEPT ![s] = "deleted"]
  /\ onlineKey' = onlineKey \ {owner[s]}
  /\ UNCHANGED <<conn, owner, timers, told, crossed, leaked, stopped, requestVars>>

TellOffline(s) ==
  /\ leave[s] = "deleted" /\ leave' = [leave EXCEPT ![s] = "done"]
  /\ told' = told \ {owner[s]}
  /\ UNCHANGED <<conn, owner, timers, onlineKey, crossed, leaked, stopped, requestVars>>

(* Every 25 s of the key's 60 s. *)
RenewKey(s) ==
  /\ s \in timers /\ owner[s] \notin onlineKey /\ onlineKey' = onlineKey \cup {owner[s]}
  /\ UNCHANGED <<conn, leave, owner, timers, told, crossed, leaked, stopped, requestVars>>

ExpireKey(u) ==
  /\ u \in onlineKey /\ \A s \in Connection : owner[s] = u =>
       s \notin timers /\ (conn[s] \in {"set", "setOffline"} => leave[s] # "no")
  /\ onlineKey' = onlineKey \ {u}
  /\ UNCHANGED <<conn, leave, owner, timers, told, crossed, leaked, stopped, requestVars>>

(* The process stops: its handlers, sockets and timers go, the key stays. *)
Stop ==
  /\ ~stopped /\ stopped' = TRUE /\ timers' = {}
  /\ conn' = [s \in Connection |-> IF conn[s] = "new" THEN "new" ELSE "up"]
  /\ leave' = [s \in Connection |-> IF conn[s] = "new" THEN "no" ELSE "done"]
  /\ UNCHANGED <<owner, onlineKey, told, crossed, leaked, requestVars>>

---------------------------------------------------------------------------
HandleConnection(s) == LookUpKey(s) \/ SetKey(s) \/ FinishConnect(s)
HandleDisconnect(s) == CountSockets(s) \/ DeleteKey(s) \/ TellOffline(s)

PresenceNext ==
  \/ \E s \in Connection :
       \/ \E u \in User : Connect(s, u)
       \/ HandleConnection(s) \/ Drop(s) \/ HandleDisconnect(s) \/ RenewKey(s)
  \/ \E u \in User : ExpireKey(u)
  \/ Stop

PresenceSpec == RequestsInit /\ PresenceInit /\ [][PresenceNext]_<<requestVars, presenceVars>>

(* "Only flip to offline when the user's last socket (across all nodes) is *)
(* gone" (chat.gateway.ts:96): once the handlers of a user are through, he  *)
(* has the online key and is called online exactly while he is connected.   *)
(* Named exceptions: a new connection slipped between the count and the     *)
(* last statement of a disconnection, a socket dropped before its timer     *)
(* started, the process died.                                              *)
PresenceRight ==
  \A u \in User :
    (\A s \in Connection : owner[s] = u => conn[s] = "up" /\ leave[s] \in {"no", "done"}) =>
      \/ u \in crossed \cup leaked \/ stopped
      \/ /\ u \in onlineKey <=> Sockets(u) # {}
         /\ u \in told <=> Sockets(u) # {}
=============================================================================
