---------------------------- MODULE PeopleProofs ----------------------------
(***************************************************************************)
(* What people see of each other is right for any number of them: the      *)
(* typing indicator and presence of the gateway, accounts with their       *)
(* invitations and password links, a profile, a channel on the pages of    *)
(* its members, the list and the badges of one page; and then the           *)
(* workspace of all the smaller components together, of which a behaviour   *)
(* moves one.                                                              *)
(***************************************************************************)
EXTENDS ToolsProofs, MCWorkspace

---------------------------------------------------------------------------
(* The typing indicator.                                                   *)

InHash == {u \in User : typing[u] # "no"}

(* What an update that no other one crossed has read: the users in the     *)
(* hash, those still fresh and those to be pruned.                         *)
UpdateKnows(h) ==
  /\ proc[h].pc = "typingPrune" =>
       InHash = proc[h].seen \cup proc[h].ref /\ proc[h].seen \cap proc[h].ref = {}
  /\ proc[h].pc = "typingTell" => proc[h].seen = InHash

TypingInv ==
  /\ ProcShape /\ typing \in [User -> {"no", "fresh", "expired"}]
  /\ ~outdated => /\ \A h \in Handler : UpdateKnows(h)
                  /\ \A g, h \in Handler : At(g, "idle") \/ At(h, "idle") \/ g = h
  /\ TypingShownRight

(* A step of an update that nothing crossed, and that is not its last one. *)
LEMMA UpdateMoves ==
  ASSUME TypingInv, NEW h \in Handler, NEW pc, NEW u, NEW ref, NEW seen,
         Moved(h, pc, u, ref, seen), pc # "idle", proc[h].pc # "idle", UNCHANGED outdated,
         typing' \in [User -> {"no", "fresh", "expired"}], ~outdated => UpdateKnows(h)'
  PROVE  TypingInv'
<1>1. ProcShape' /\ ~AllIdle'
  BY DEF Moved, AllIdle, At
<1>2. ASSUME ~outdated PROVE \A g, k \in Handler : At(g, "idle")' \/ At(k, "idle")' \/ g = k
  BY <1>2 DEF Moved, TypingInv, At
<1>3. ASSUME ~outdated, NEW g \in Handler PROVE UpdateKnows(g)'
  <2>1. CASE g = h
    BY <1>3, <2>1
  <2>2. CASE g # h
    BY <1>3, <2>2 DEF Moved, TypingInv, At, UpdateKnows
  <2>3. QED BY <2>1, <2>2
<1>4. QED BY <1>1, <1>2, <1>3 DEF TypingInv, TypingShownRight

(* Every step of the indicator keeps the invariant.                        *)
LEMMA TypingStep ==
  ASSUME TypingInv, TypingNext
  PROVE  TypingInv'
<1>0. ProcShape /\ typing \in [User -> {"no", "fresh", "expired"}]
  BY DEF TypingInv
<1>1. ASSUME NEW h \in Handler, NEW u \in User, NEW on \in BOOLEAN, BeginTyping(h, u, on)
      PROVE  TypingInv'
  <2>1. Moved(h, "typingWrite", u, None, IF on THEN {u} ELSE {})
    BY <1>0, <1>1, BeginMoves DEF BeginTyping
  <2>2. outdated' = ~AllIdle /\ UNCHANGED <<typing, typingShown>>
    BY <1>1 DEF BeginTyping
  <2>3. QED BY <1>0, <2>1, <2>2 DEF Moved, AllIdle, At, TypingInv, UpdateKnows, TypingShownRight
<1>2. ASSUME NEW h \in Handler, WriteTyping(h) PROVE TypingInv'
  <2>1. Moved(h, "typingRead", proc[h].user, proc[h].ref, proc[h].seen) /\ proc[h].pc # "idle"
    BY <1>0, <1>2, GotoMoves DEF WriteTyping, At
  <2>2. typing' \in [User -> {"no", "fresh", "expired"}] /\ UNCHANGED outdated
    BY <1>0, <1>2 DEF WriteTyping
  <2>3. QED BY <2>1, <2>2, UpdateMoves DEF Moved, UpdateKnows
<1>3. ASSUME NEW h \in Handler, ReadTyping(h) PROVE TypingInv'
  <2> DEFINE Fresh == {u \in User : typing[u] = "fresh"}
             Expired == {u \in User : typing[u] = "expired"}
  <2>1. Moved(h, "typingPrune", proc[h].user, Expired, Fresh) /\ proc[h].pc # "idle"
    BY <1>0, <1>3, AllMoves DEF ReadTyping, At
  <2>2. UNCHANGED typingVars
    BY <1>3 DEF ReadTyping
  <2>3. UpdateKnows(h)'
    BY <1>0, <2>1, <2>2 DEF Moved, UpdateKnows, InHash, typingVars
  <2>4. QED BY <1>0, <2>1, <2>2, <2>3, UpdateMoves DEF typingVars
<1>4. ASSUME NEW h \in Handler, PruneTyping(h) PROVE TypingInv'
  <2>1. Moved(h, "typingTell", proc[h].user, proc[h].ref, proc[h].seen) /\ proc[h].pc = "typingPrune"
    BY <1>0, <1>4, GotoMoves DEF PruneTyping, At
  <2>2. typing' = [v \in User |-> IF v \in proc[h].ref THEN "no" ELSE typing[v]] /\ UNCHANGED outdated
    BY <1>4 DEF PruneTyping
  <2>3. ~outdated => UpdateKnows(h)'
    BY <2>1, <2>2 DEF Moved, TypingInv, UpdateKnows, InHash
  <2>4. typing' \in [User -> {"no", "fresh", "expired"}]
    BY <1>0, <2>2
  <2>5. QED BY <2>1, <2>2, <2>3, <2>4, UpdateMoves
<1>5. ASSUME NEW h \in Handler, TellTyping(h) PROVE TypingInv'
  <2>1. Moved(h, "idle", None, None, None)
    BY <1>0, <1>5, FinishMoves DEF TellTyping
  <2>2. proc[h].pc = "typingTell" /\ typingShown' = proc[h].seen /\ UNCHANGED <<typing, outdated>>
    BY <1>5 DEF TellTyping, At
  <2>3. QED BY <1>0, <2>1, <2>2 DEF Moved, AllIdle, At, TypingInv, UpdateKnows, TypingShownRight, InHash
<1>6. ASSUME NEW u \in User, ExpireTyping(u) PROVE TypingInv'
  <2>1. typing' = [typing EXCEPT ![u] = "expired"] /\ typing[u] = "fresh"
    BY <1>6 DEF ExpireTyping
  <2>2. InHash' = InHash /\ typing' \in [User -> {"no", "fresh", "expired"}]
    BY <1>0, <2>1 DEF InHash
  <2>3. UNCHANGED <<proc, outdated, typingShown>>
    BY <1>6 DEF ExpireTyping, requestVars
  <2>4. QED BY <2>2, <2>3 DEF TypingInv, UpdateKnows, TypingShownRight, InHash, AllIdle, At, ProcShape
<1>7. ASSUME DropTypingKey PROVE TypingInv'
  BY <1>7 DEF DropTypingKey, requestVars, TypingInv, ProcShape, TypingShownRight
<1>8. ASSUME NEW h \in Handler, TypingDies(h) PROVE TypingInv'
  <2>1. Moved(h, "idle", None, None, None) /\ outdated' = TRUE /\ UNCHANGED typing
    BY <1>0, <1>8, FinishMoves DEF TypingDies, Die
  <2>2. QED BY <2>1 DEF Moved, TypingInv, TypingShownRight
<1>9. QED BY <1>1, <1>2, <1>3, <1>4, <1>5, <1>6, <1>7, <1>8 DEF TypingNext, UpdateTyping

(* The indicator names the users in the hash once no update is under way,  *)
(* unless the last one crossed another, died, or the key expired           *)
(* (chat.gateway.ts:149-179).                                              *)
THEOREM TypingShownAlways == TypingSpec => []TypingShownRight
<1>1. RequestsInit /\ TypingInit => TypingInv
  <2> SUFFICES ASSUME RequestsInit, TypingInit PROVE TypingInv
    OBVIOUS
  <2>1. ProcShape /\ \A h \in Handler : proc[h].pc = "idle"
    BY InitShape
  <2>2. QED BY <2>1 DEF TypingInit, TypingInv, TypingShownRight, UpdateKnows, At
<1>2. ASSUME TypingInv, [TypingNext]_<<requestVars, typingVars>> PROVE TypingInv'
  <2>1. CASE TypingNext
    BY <1>2, <2>1, TypingStep
  <2>2. CASE UNCHANGED <<requestVars, typingVars>>
    BY <1>2, <2>2 DEF requestVars, typingVars, TypingInv, ProcShape, UpdateKnows, InHash, At,
                      TypingShownRight, AllIdle
  <2>3. QED BY <1>2, <2>1, <2>2
<1>3. TypingInv => TypingShownRight
  BY DEF TypingInv
<1>4. QED BY <1>1, <1>2, <1>3, PTL DEF TypingSpec

(* The types an update of the indicator keeps: it names users.             *)
TypingTyped ==
  /\ ProcShape /\ TypingTypeOK
  /\ \A h \in Handler : /\ proc[h].pc = "typingWrite" => proc[h].user \in User
                       /\ proc[h].pc \in {"typingPrune", "typingTell"} => proc[h].seen \subseteq User

(* The hash and the indicator have their types in every reachable state.   *)
LEMMA TypingTypeCorrect == TypingSpec => []TypingTypeOK
<1>1. RequestsInit /\ TypingInit => TypingTyped
  BY InitShape DEF TypingInit, TypingTyped, TypingTypeOK
<1>2. ASSUME TypingTyped, [TypingNext]_<<requestVars, typingVars>> PROVE TypingTyped'
  <2>1. ASSUME NEW h \in Handler, NEW u \in User, NEW on \in BOOLEAN, BeginTyping(h, u, on)
        PROVE  TypingTyped'
    <3>1. Moved(h, "typingWrite", u, None, IF on THEN {u} ELSE {})
      BY <1>2, <2>1, BeginMoves DEF BeginTyping, TypingTyped
    <3>2. outdated' \in BOOLEAN
      BY <2>1, Zenon DEF BeginTyping
    <3>3. QED BY <1>2, <2>1, <3>1, <3>2 DEF BeginTyping, Moved, TypingTyped, TypingTypeOK
  <2>2. ASSUME NEW h \in Handler, WriteTyping(h) PROVE TypingTyped'
    <3>1. Moved(h, "typingRead", proc[h].user, proc[h].ref, proc[h].seen)
      BY <1>2, <2>2, GotoMoves DEF WriteTyping, TypingTyped
    <3>2. QED BY <1>2, <2>2, <3>1 DEF WriteTyping, At, Moved, TypingTyped, TypingTypeOK
  <2>3. ASSUME NEW h \in Handler, ReadTyping(h) PROVE TypingTyped'
    <3>1. PICK S \in SUBSET User, R \in SUBSET User :
            proc' = [proc EXCEPT ![h].pc = "typingPrune", ![h].seen = S, ![h].ref = R]
      BY <2>3 DEF ReadTyping
    <3>2. Moved(h, "typingPrune", proc[h].user, R, S)
      BY <1>2, <3>1, AllMoves DEF TypingTyped
    <3>3. QED BY <1>2, <2>3, <3>2 DEF ReadTyping, Moved, typingVars, TypingTyped, TypingTypeOK
  <2>4. ASSUME NEW h \in Handler, PruneTyping(h) PROVE TypingTyped'
    <3>1. Moved(h, "typingTell", proc[h].user, proc[h].ref, proc[h].seen)
      BY <1>2, <2>4, GotoMoves DEF PruneTyping, TypingTyped
    <3>2. QED BY <1>2, <2>4, <3>1 DEF PruneTyping, At, Moved, TypingTyped, TypingTypeOK
  <2>5. ASSUME NEW h \in Handler, TellTyping(h) \/ TypingDies(h) PROVE TypingTyped'
    <3>1. Moved(h, "idle", None, None, None)
      BY <1>2, <2>5, FinishMoves DEF TellTyping, TypingDies, Die, TypingTyped
    <3>2. QED BY <1>2, <2>5, <3>1 DEF TellTyping, TypingDies, At, Moved, TypingTyped, TypingTypeOK
  <2>6. ASSUME (\E u \in User : ExpireTyping(u)) \/ DropTypingKey PROVE TypingTyped'
    BY <1>2, <2>6 DEF ExpireTyping, DropTypingKey, requestVars, ProcShape, TypingTyped, TypingTypeOK
  <2>7. CASE UNCHANGED <<requestVars, typingVars>>
    BY <1>2, <2>7 DEF requestVars, typingVars, ProcShape, TypingTyped, TypingTypeOK
  <2>8. QED BY <1>2, <2>1, <2>2, <2>3, <2>4, <2>5, <2>6, <2>7 DEF TypingNext, UpdateTyping
<1>3. TypingTyped => TypingTypeOK
  BY DEF TypingTyped
<1>4. QED BY <1>1, <1>2, <1>3, PTL DEF TypingSpec

---------------------------------------------------------------------------
(* Presence.                                                               *)

SocketsOf(u) == {s \in Connection : owner[s] = u}

(* The named exceptions, and the socket that dropped before its handler    *)
(* was through: when that one ends it leaves a timer.                      *)
Excused(u) ==
  \/ u \in crossed \cup leaked \/ stopped
  \/ \E s \in SocketsOf(u) : conn[s] # "up" /\ leave[s] # "no"

LeavesAlone(u) ==
  \A s \in SocketsOf(u) : leave[s] \in {"last", "deleted"} => \A t \in SocketsOf(u) : leave[t] # "no"
TimersRun(u) ==
  \A s \in SocketsOf(u) : s \in timers <=> conn[s] = "up" /\ leave[s] = "no"
KeySet(u) ==
  \A s \in SocketsOf(u) : conn[s] \in {"set", "setOffline", "up"} /\ leave[s] = "no" => u \in onlineKey
KeyHasReason(u) ==
  u \in onlineKey => \E s \in SocketsOf(u) : leave[s] \in {"no", "dropped", "last"}
WillBeTold(u) ==
  (u \in onlineKey \/ \E s \in SocketsOf(u) : conn[s] \in {"online", "set", "up"} /\ leave[s] = "no") =>
    u \in told \/ \E s \in SocketsOf(u) : conn[s] = "setOffline"
ToldHasReason(u) ==
  u \in told => \E s \in SocketsOf(u) : leave[s] # "done"
KeyDeleted(u) ==
  \A s \in SocketsOf(u) : leave[s] = "deleted" => u \notin onlineKey

Present(u) ==
  /\ LeavesAlone(u) /\ TimersRun(u) /\ KeySet(u) /\ KeyHasReason(u) /\ WillBeTold(u)
  /\ ToldHasReason(u) /\ KeyDeleted(u)

PresenceInv ==
  /\ PresenceTypeOK
  /\ \A s \in Connection : /\ conn[s] = "new" => leave[s] = "no" /\ owner[s] = None /\ s \notin timers
                           /\ conn[s] # "new" => owner[s] \in User
  /\ \A u \in User : Excused(u) \/ Present(u)

(* A step of socket s, whose user is u from then on, tells nothing of the  *)
(* other users.                                                            *)
Alone(s, u) ==
  /\ owner'[s] = u /\ owner[s] \in {u, None} /\ conn'[s] # "new" /\ UNCHANGED stopped
  /\ \A t \in Connection \ {s} : /\ conn'[t] = conn[t] /\ leave'[t] = leave[t] /\ owner'[t] = owner[t]
                                 /\ (t \in timers' <=> t \in timers)
  /\ \A v \in User \ {u} : /\ v \in onlineKey' <=> v \in onlineKey
                           /\ v \in told' <=> v \in told
                           /\ v \in (crossed \cup leaked)' <=> v \in crossed \cup leaked

(* It is enough to look at that user.                                      *)
LEMMA OneUser ==
  ASSUME PresenceInv, NEW s \in Connection, NEW u \in User, Alone(s, u), PresenceTypeOK',
         Excused(u)' \/ Present(u)'
  PROVE  PresenceInv'
<1>1. ASSUME NEW t \in Connection
      PROVE  /\ conn'[t] = "new" => leave'[t] = "no" /\ owner'[t] = None /\ t \notin timers'
             /\ conn'[t] # "new" => owner'[t] \in User
  BY DEF PresenceInv, Alone
<1>2. ASSUME NEW v \in User, v # u PROVE Excused(v)' \/ Present(v)'
  <2>1. s \notin SocketsOf(v) /\ SocketsOf(v)' = SocketsOf(v) /\ s \notin SocketsOf(v)'
    BY <1>2, RequestsAssumption DEF Alone, SocketsOf
  <2>2. \A t \in SocketsOf(v) :
          conn'[t] = conn[t] /\ leave'[t] = leave[t] /\ (t \in timers' <=> t \in timers)
    BY <2>1 DEF Alone, SocketsOf
  <2>3. /\ (v \in onlineKey' <=> v \in onlineKey) /\ (v \in told' <=> v \in told)
        /\ (v \in (crossed \cup leaked)' <=> v \in crossed \cup leaked) /\ stopped' = stopped
    BY <1>2 DEF Alone
  <2>4. Excused(v) => Excused(v)'
    BY <2>1, <2>2, <2>3 DEF Excused
  <2>5. Present(v) => Present(v)'
    <3>1. LeavesAlone(v) => LeavesAlone(v)'
      BY <2>1, <2>2 DEF LeavesAlone
    <3>2. TimersRun(v) => TimersRun(v)'
      BY <2>1, <2>2 DEF TimersRun
    <3>3. KeySet(v) => KeySet(v)'
      BY <2>1, <2>2, <2>3 DEF KeySet
    <3>4. KeyHasReason(v) => KeyHasReason(v)'
      BY <2>1, <2>2, <2>3 DEF KeyHasReason
    <3>5. WillBeTold(v) => WillBeTold(v)'
      BY <2>1, <2>2, <2>3 DEF WillBeTold
    <3>6. ToldHasReason(v) => ToldHasReason(v)'
      BY <2>1, <2>2, <2>3 DEF ToldHasReason
    <3>7. KeyDeleted(v) => KeyDeleted(v)'
      BY <2>1, <2>2, <2>3 DEF KeyDeleted
    <3>8. QED BY <3>1, <3>2, <3>3, <3>4, <3>5, <3>6, <3>7 DEF Present
  <2>6. QED BY <1>2, <2>4, <2>5 DEF PresenceInv
<1>3. QED BY <1>1, <1>2 DEF PresenceInv

(* A handler, a drop or a timer of socket s: what it does, for the user of *)
(* the socket alone.                                                       *)
LEMMA SocketStep ==
  ASSUME PresenceInv, NEW s \in Connection,
         HandleConnection(s) \/ Drop(s) \/ HandleDisconnect(s) \/ RenewKey(s)
  PROVE  PresenceInv'
<1>0. PICK u : u = owner[s]
  OBVIOUS
<1>1. u \in User /\ conn[s] # "new"
  BY <1>0
     DEF HandleConnection, LookUpKey, SetKey, FinishConnect, Drop, HandleDisconnect, CountSockets,
         DeleteKey, TellOffline, RenewKey, PresenceInv
<1>2. PresenceTypeOK' /\ Alone(s, u)
  <2> USE <1>0, <1>1 DEF PresenceInv, PresenceTypeOK, Alone
  <2>1. CASE LookUpKey(s)
    BY <2>1 DEF LookUpKey
  <2>2. CASE SetKey(s)
    BY <2>2 DEF SetKey
  <2>3. CASE FinishConnect(s)
    BY <2>3 DEF FinishConnect
  <2>4. CASE Drop(s)
    BY <2>4 DEF Drop
  <2>5. CASE CountSockets(s)
    BY <2>5 DEF CountSockets
  <2>6. CASE DeleteKey(s)
    BY <2>6 DEF DeleteKey
  <2>7. CASE TellOffline(s)
    BY <2>7 DEF TellOffline
  <2>8. CASE RenewKey(s)
    BY <2>8 DEF RenewKey
  <2>9. QED BY <2>1, <2>2, <2>3, <2>4, <2>5, <2>6, <2>7, <2>8 DEF HandleConnection, HandleDisconnect
<1>3. SUFFICES ASSUME ~Excused(u)' PROVE Present(u)'
  BY <1>1, <1>2, OneUser
<1>4. /\ s \in SocketsOf(u) /\ SocketsOf(u)' = SocketsOf(u) /\ UNCHANGED owner
      /\ \A t \in SocketsOf(u) \ {s} :
           conn'[t] = conn[t] /\ leave'[t] = leave[t] /\ (t \in timers' <=> t \in timers)
  BY <1>0, <1>2
     DEF Alone, SocketsOf, HandleConnection, LookUpKey, SetKey, FinishConnect, Drop, HandleDisconnect,
         CountSockets, DeleteKey, TellOffline, RenewKey
<1>5. ~Excused(u) /\ Present(u)
  <2>1. Excused(u) => Excused(u)'
    BY <1>0, <1>1, <1>4
       DEF Excused, HandleConnection, LookUpKey, SetKey, FinishConnect, Drop, HandleDisconnect,
           CountSockets, DeleteKey, TellOffline, RenewKey, PresenceInv, PresenceTypeOK
  <2>2. QED BY <1>1, <1>3, <2>1 DEF PresenceInv
<1> USE <1>4 DEF Present
<1>6. conn[s] = "up" \/ leave[s] = "no"
  BY <1>5 DEF Excused
<1>7. conn \in [Connection -> {"new", "joined", "online", "offline", "set", "setOffline", "up"}] /\
      leave \in [Connection -> {"no", "dropped", "last", "deleted", "done"}]
  BY DEF PresenceInv, PresenceTypeOK
<1>8. CASE LookUpKey(s)
  <2>1. /\ UNCHANGED <<leave, timers, onlineKey, told>> /\ conn[s] = "joined"
        /\ conn'[s] = IF u \in onlineKey THEN "online" ELSE "offline"
    BY <1>0, <1>7, <1>8 DEF LookUpKey
  <2>2. QED
    BY <1>5, <1>6, <2>1
       DEF LeavesAlone, TimersRun, KeySet, KeyHasReason, WillBeTold, ToldHasReason, KeyDeleted
<1>9. CASE SetKey(s)
  <2>1. /\ UNCHANGED <<leave, timers, told>> /\ conn[s] \in {"online", "offline"}
        /\ conn'[s] = IF conn[s] = "online" THEN "set" ELSE "setOffline"
        /\ onlineKey' = onlineKey \cup {u}
    BY <1>0, <1>7, <1>9 DEF SetKey
  <2>2. QED
    BY <1>5, <1>6, <2>1
       DEF LeavesAlone, TimersRun, KeySet, KeyHasReason, WillBeTold, ToldHasReason, KeyDeleted
<1>10. CASE FinishConnect(s)
  <2>1. /\ UNCHANGED <<leave, onlineKey>> /\ conn[s] \in {"set", "setOffline"}
        /\ conn'[s] = "up" /\ s \in timers'
        /\ told' = IF conn[s] = "setOffline" THEN told \cup {u} ELSE told
    BY <1>0, <1>7, <1>10 DEF FinishConnect
  <2>2. QED
    BY <1>5, <1>6, <2>1
       DEF LeavesAlone, TimersRun, KeySet, KeyHasReason, WillBeTold, ToldHasReason, KeyDeleted
<1>11. CASE Drop(s)
  <2>1. /\ UNCHANGED <<conn, onlineKey, told>> /\ leave[s] = "no" /\ leave'[s] = "dropped"
        /\ s \notin timers'
    BY <1>0, <1>7, <1>11 DEF Drop
  <2>2. conn[s] = "up"
    BY <1>3, <2>1 DEF Excused
  <2>3. QED
    BY <1>5, <1>6, <2>1, <2>2
       DEF LeavesAlone, TimersRun, KeySet, KeyHasReason, WillBeTold, ToldHasReason, KeyDeleted
<1>12. CASE CountSockets(s)
  <2>1. /\ UNCHANGED <<conn, onlineKey, timers, told>> /\ leave[s] = "dropped" /\ conn[s] = "up"
        /\ leave'[s] = IF Sockets(u) = {} THEN "last" ELSE "done"
    BY <1>0, <1>6, <1>7, <1>12 DEF CountSockets
  <2>2. Sockets(u) = {t \in SocketsOf(u) : leave[t] = "no"}
    BY <1>1, RequestsAssumption DEF Sockets, SocketsOf, PresenceInv
  <2>3. QED
    BY <1>5, <2>1, <2>2
       DEF LeavesAlone, TimersRun, KeySet, KeyHasReason, WillBeTold, ToldHasReason, KeyDeleted
<1>13. CASE DeleteKey(s)
  <2>1. /\ UNCHANGED <<conn, timers, told>> /\ leave[s] = "last" /\ conn[s] = "up"
        /\ leave'[s] = "deleted" /\ onlineKey' = onlineKey \ {u}
    BY <1>0, <1>6, <1>7, <1>13 DEF DeleteKey
  <2>2. QED
    BY <1>5, <2>1
       DEF LeavesAlone, TimersRun, KeySet, KeyHasReason, WillBeTold, ToldHasReason, KeyDeleted
<1>14. CASE TellOffline(s)
  <2>1. /\ UNCHANGED <<conn, timers, onlineKey>> /\ leave[s] = "deleted" /\ conn[s] = "up"
        /\ leave'[s] = "done" /\ told' = told \ {u}
    BY <1>0, <1>6, <1>7, <1>14 DEF TellOffline
  <2>2. QED
    BY <1>5, <2>1
       DEF LeavesAlone, TimersRun, KeySet, KeyHasReason, WillBeTold, ToldHasReason, KeyDeleted
<1>15. CASE RenewKey(s)
  BY <1>0, <1>5, <1>15 DEF RenewKey, TimersRun, KeySet
<1>16. QED
  BY <1>8, <1>9, <1>10, <1>11, <1>12, <1>13, <1>14, <1>15 DEF HandleConnection, HandleDisconnect

(* Every step of the gateway keeps the invariant.                          *)
LEMMA PresenceStep ==
  ASSUME PresenceInv, PresenceNext
  PROVE  PresenceInv'
<1>1. ASSUME NEW s \in Connection, NEW u \in User, Connect(s, u) PROVE PresenceInv'
  <2>1. PresenceTypeOK' /\ Alone(s, u)
    BY <1>1 DEF Connect, PresenceInv, PresenceTypeOK, Alone
  <2>2. /\ owner[s] = None /\ leave'[s] = "no" /\ conn'[s] = "joined" /\ s \notin timers'
        /\ UNCHANGED <<onlineKey, told, leaked, stopped, leave, timers>>
        /\ crossed \subseteq crossed' /\ conn[s] = "new"
    BY <1>1 DEF Connect, PresenceInv, PresenceTypeOK
  <2>3. /\ SocketsOf(u)' = SocketsOf(u) \cup {s} /\ s \notin SocketsOf(u)
        /\ \A t \in SocketsOf(u) : conn'[t] = conn[t]
    BY <2>1, <2>2, RequestsAssumption DEF Alone, SocketsOf
  <2>4. Excused(u) => Excused(u)'
    BY <2>2, <2>3 DEF Excused
  <2>5. ASSUME Present(u), ~Excused(u)' PROVE Present(u)'
    <3>1. \A t \in SocketsOf(u) : leave[t] \notin {"last", "deleted"}
      BY <1>1, <2>5 DEF Connect, Excused, SocketsOf
    <3>2. QED
      BY <2>2, <2>3, <2>5, <3>1
         DEF Present, LeavesAlone, TimersRun, KeySet, KeyHasReason, WillBeTold, ToldHasReason, KeyDeleted
  <2>6. QED BY <2>1, <2>4, <2>5, OneUser DEF PresenceInv
<1>2. ASSUME NEW u \in User, ExpireKey(u) PROVE PresenceInv'
  <2>1. /\ UNCHANGED <<conn, leave, owner, timers, told, crossed, leaked, stopped>>
        /\ onlineKey' = onlineKey \ {u} /\ u \in onlineKey
        /\ \A s \in SocketsOf(u) : s \notin timers /\ (conn[s] \in {"set", "setOffline"} => leave[s] # "no")
    BY <1>2 DEF ExpireKey, SocketsOf
  <2>2. \A v : SocketsOf(v)' = SocketsOf(v) /\ (Excused(v)' <=> Excused(v))
    BY <2>1 DEF SocketsOf, Excused
  <2>3. ASSUME NEW v \in User, v # u, Present(v) PROVE Present(v)'
    BY <2>1, <2>2, <2>3
       DEF Present, LeavesAlone, TimersRun, KeySet, KeyHasReason, WillBeTold, ToldHasReason, KeyDeleted
  <2>4. ASSUME Present(u), ~Excused(u) PROVE Present(u)'
    <3>1. \A s \in SocketsOf(u) : conn[s] \notin {"set", "setOffline"} /\ ~(conn[s] = "up" /\ leave[s] = "no")
      BY <2>1, <2>4 DEF Excused, Present, TimersRun
    <3>2. QED
      BY <2>1, <2>2, <2>4, <3>1
         DEF Present, LeavesAlone, TimersRun, KeySet, KeyHasReason, WillBeTold, ToldHasReason, KeyDeleted
  <2>5. PresenceTypeOK'
    BY <2>1 DEF PresenceInv, PresenceTypeOK
  <2>6. QED BY <2>1, <2>2, <2>3, <2>4, <2>5 DEF PresenceInv
<1>3. ASSUME Stop PROVE PresenceInv'
  BY <1>3 DEF Stop, PresenceInv, PresenceTypeOK, Excused
<1>4. QED BY <1>1, <1>2, <1>3, SocketStep DEF PresenceNext

(* What the invariant says once the handlers of a user are through.        *)
LEMMA PresentIsRight ==
  PresenceInv => PresenceRight
<1> SUFFICES ASSUME PresenceInv, NEW u \in User,
                    \A s \in Connection : owner[s] = u => conn[s] = "up" /\ leave[s] \in {"no", "done"},
                    ~(u \in crossed \cup leaked), ~stopped
             PROVE  (u \in onlineKey <=> Sockets(u) # {}) /\ (u \in told <=> Sockets(u) # {})
  BY DEF PresenceRight
<1>1. Sockets(u) = {t \in SocketsOf(u) : leave[t] = "no"}
  BY RequestsAssumption DEF Sockets, SocketsOf, PresenceInv
<1>2. Present(u)
  <2>1. ASSUME NEW s \in SocketsOf(u), conn[s] # "up" /\ leave[s] # "no" PROVE FALSE
    BY <2>1 DEF SocketsOf
  <2>2. QED BY <2>1 DEF PresenceInv, Excused
<1>3. \A s \in SocketsOf(u) : conn[s] = "up" /\ leave[s] \in {"no", "done"}
  BY DEF SocketsOf
<1>4. QED BY <1>1, <1>2, <1>3 DEF Present, KeySet, KeyHasReason, WillBeTold, ToldHasReason

(* What presence rests on holds in every reachable state.                  *)
LEMMA PresenceInvariant == PresenceSpec => []PresenceInv
<1>1. PresenceInit => PresenceInv
  <2> SUFFICES ASSUME PresenceInit PROVE PresenceInv
    OBVIOUS
  <2>1. \A u \in User : SocketsOf(u) = {}
    BY RequestsAssumption DEF PresenceInit, SocketsOf
  <2>2. QED
    BY <2>1
       DEF PresenceInit, PresenceInv, PresenceTypeOK, Present, LeavesAlone, TimersRun, KeySet,
           KeyHasReason, WillBeTold, ToldHasReason, KeyDeleted
<1>2. ASSUME PresenceInv, [PresenceNext]_<<requestVars, presenceVars>> PROVE PresenceInv'
  <2>1. CASE PresenceNext
    BY <1>2, <2>1, PresenceStep
  <2>2. CASE UNCHANGED <<requestVars, presenceVars>>
    BY <1>2, <2>2
       DEF presenceVars, PresenceInv, PresenceTypeOK, Excused, Present, SocketsOf, LeavesAlone,
           TimersRun, KeySet, KeyHasReason, WillBeTold, ToldHasReason, KeyDeleted
  <2>3. QED BY <1>2, <2>1, <2>2
<1>3. QED BY <1>1, <1>2, PTL DEF PresenceSpec

(* A user whose handlers are through has the online key, and is called     *)
(* online, exactly while he has a socket, but for the named exceptions     *)
(* (chat.gateway.ts:62-108).                                               *)
THEOREM PresenceRightAlways == PresenceSpec => []PresenceRight
BY PresenceInvariant, PresentIsRight, PTL

(* Sockets, timers and the presence key have their types in every          *)
(* reachable state.                                                        *)
LEMMA PresenceTypeCorrect == PresenceSpec => []PresenceTypeOK
<1>1. PresenceInv => PresenceTypeOK
  BY DEF PresenceInv
<1>2. QED BY <1>1, PresenceInvariant, PTL

---------------------------------------------------------------------------
(* Accounts: invitations and password links.                               *)

InviteShape(r) == r = [state |-> r.state, email |-> r.email, role |-> r.role, expired |-> r.expired]
InvitesShaped  == invite = [i \in Invite |-> invite[i]] /\ \A i \in Invite : InviteShape(invite[i])

(* What a request that resets a password knows: nobody else holds its link. *)
ResetKnows(h) ==
  proc[h].pc = "reset" =>
    /\ proc[h].ref \in ResetLink /\ proc[h].user \in User
    /\ \A u \in User : resetLink[u] = proc[h].ref => u = proc[h].user

(* An invitation that took effect is open to nobody, a password link that  *)
(* did is held by nobody, and no link by two.                              *)
Spent ==
  /\ \A i \in Invite : used[i] # 0 => invite[i].state \in {"accepted", "revoked"}
  /\ \A u \in User : resetLink[u] # None =>
       /\ used[resetLink[u]] = 0
       /\ \A v \in User : resetLink[v] = resetLink[u] => v = u

(* A link that no two requests held at once is used by its holder alone.   *)
HeldAlone ==
  \A l \in (Invite \cup ResetLink) \ heldTwice :
    used[l] \in {0, 1} /\ \A h \in Holders(l) : used[l] = 0 /\ Holders(l) = {h}

LinksInv ==
  /\ ProcShape /\ InvitesShaped
  /\ resetLink \in [User -> ResetLink \cup {None}] /\ used \in [Invite \cup ResetLink -> Nat]
  /\ \A h \in Handler : (proc[h].pc = "accept" => proc[h].ref \in Invite) /\ ResetKnows(h)
  /\ Spent /\ HeldAlone

(* An invitation changes to a state, its email and role stay.              *)
Restated(i, state) ==
  /\ InvitesShaped' /\ \A j \in Invite \ {i} : invite'[j] = invite[j]
  /\ i \in Invite => /\ invite'[i].state = state /\ invite'[i].email = invite[i].email
                      /\ invite'[i].role = invite[i].role

(* One field of an invitation is rewritten.                                *)
LEMMA InviteRewritten ==
  ASSUME InvitesShaped, NEW i, NEW x
  PROVE  /\ invite' = [invite EXCEPT ![i].state = x] => Restated(i, x)
         /\ invite' = [invite EXCEPT ![i].expired = x] => Restated(i, invite[i].state)
<1>1. PICK r : r = invite[i]
  OBVIOUS
<1>2. PICK s, e, o, x0 : s = r.state /\ e = r.email /\ o = r.role /\ x0 = r.expired
  OBVIOUS
<1>3. i \in Invite => r = [state |-> s, email |-> e, role |-> o, expired |-> x0]
  BY <1>1, <1>2 DEF InvitesShaped, InviteShape
<1>4. ASSUME invite' = [invite EXCEPT ![i].state = x] PROVE Restated(i, x)
  <2>1. PICK q : q = [r EXCEPT !.state = x]
    OBVIOUS
  <2>2. i \in Invite => q = [state |-> x, email |-> e, role |-> o, expired |-> x0]
    BY <1>3, <2>1
  <2>3. i \in Invite => InviteShape(q) /\ q.state = x /\ q.email = e /\ q.role = o
    BY <2>2 DEF InviteShape
  <2>4. invite' = [invite EXCEPT ![i] = q]
    BY <1>1, <1>4, <2>1
  <2>5. QED BY <1>1, <1>2, <2>3, <2>4 DEF Restated, InvitesShaped
<1>5. ASSUME invite' = [invite EXCEPT ![i].expired = x] PROVE Restated(i, invite[i].state)
  <2>1. PICK q : q = [r EXCEPT !.expired = x]
    OBVIOUS
  <2>2. i \in Invite => q = [state |-> s, email |-> e, role |-> o, expired |-> x]
    BY <1>3, <2>1
  <2>3. i \in Invite => InviteShape(q) /\ q.state = s /\ q.email = e /\ q.role = o
    BY <2>2 DEF InviteShape
  <2>4. invite' = [invite EXCEPT ![i] = q]
    BY <1>1, <1>5, <2>1
  <2>5. QED BY <1>1, <1>2, <2>3, <2>4 DEF Restated, InvitesShaped
<1>6. QED BY <1>4, <1>5

(* A step that takes no link and gives none out.                           *)
LEMMA LinksQuiet ==
  ASSUME LinksInv, NEW h \in Handler, NEW pc, NEW u, NEW ref, NEW seen, Moved(h, pc, u, ref, seen),
         pc \notin {"accept", "reset"}, UNCHANGED <<resetLink, used, heldTwice>>, InvitesShaped',
         \A i \in Invite : invite[i].state \in {"accepted", "revoked"} =>
                            invite'[i].state \in {"accepted", "revoked"}
  PROVE  LinksInv'
<1>1. \A g \in Handler : (proc'[g].pc = "accept" => proc'[g].ref \in Invite) /\ ResetKnows(g)'
  BY DEF Moved, LinksInv, ResetKnows
<1>2. Spent'
  BY DEF LinksInv, Spent
<1>3. HeldAlone'
  <2>1. \A l : Holders(l)' \subseteq Holders(l)
    BY DEF Moved, Holders
  <2>2. QED BY <2>1 DEF LinksInv, HeldAlone
<1>4. QED BY <1>1, <1>2, <1>3 DEF LinksInv, Moved

(* A request takes hold of a link that is not spent.                       *)
LEMMA LinkTaken ==
  ASSUME LinksInv, NEW h \in Handler, NEW pc \in {"accept", "reset"}, NEW u, NEW ref \in Invite \cup ResetLink,
         NEW seen, Begin(h, pc, u, ref, seen), Hold(ref), UNCHANGED <<invite, resetLink, used>>,
         used[ref] = 0, pc = "accept" => ref \in Invite, ResetKnows(h)'
  PROVE  LinksInv'
<1>1. Moved(h, pc, u, ref, seen) /\ proc[h].pc = "idle"
  BY BeginMoves DEF LinksInv
<1>2. \A g \in Handler : (proc'[g].pc = "accept" => proc'[g].ref \in Invite) /\ ResetKnows(g)'
  BY <1>1 DEF Moved, LinksInv, ResetKnows
<1>3. HeldAlone'
  <2>1. \A l : Holders(l)' = IF l = ref THEN Holders(l) \cup {h} ELSE Holders(l)
    BY <1>1 DEF Moved, Holders
  <2>2. heldTwice' = IF Holders(ref) # {} THEN heldTwice \cup {ref} ELSE heldTwice
    BY DEF Hold
  <2>3. QED BY <2>1, <2>2 DEF LinksInv, HeldAlone
<1>4. QED BY <1>1, <1>2, <1>3 DEF LinksInv, Moved, Spent, InvitesShaped

(* The holder of a link uses it.                                           *)
LEMMA LinkUsed ==
  ASSUME LinksInv, NEW h \in Handler, NEW l \in Invite \cup ResetLink, l = proc[h].ref, Finish(h),
         proc[h].pc \in {"accept", "reset"}, Use(l), UNCHANGED heldTwice, InvitesShaped',
         resetLink' \in [User -> ResetLink \cup {None}],
         \A u \in User : resetLink'[u] \in {resetLink[u], None} /\ resetLink'[u] # l,
         \A i \in Invite : i = l \/ invite[i].state \in {"accepted", "revoked"} =>
                            invite'[i].state \in {"accepted", "revoked"}
  PROVE  LinksInv'
<1>1. Moved(h, "idle", None, None, None)
  BY FinishMoves DEF LinksInv
<1>2. /\ used' \in [Invite \cup ResetLink -> Nat] /\ used'[l] = used[l] + 1
      /\ \A k \in (Invite \cup ResetLink) \ {l} : used'[k] = used[k]
  BY DEF Use, LinksInv
<1>3. \A g \in Handler : (proc'[g].pc = "accept" => proc'[g].ref \in Invite) /\ ResetKnows(g)'
  BY <1>1, AccountsAssumption DEF Moved, LinksInv, ResetKnows
<1>4. Spent'
  <2>1. \A i \in Invite : used'[i] # 0 => invite'[i].state \in {"accepted", "revoked"}
    BY <1>2 DEF LinksInv, Spent
  <2>2. ASSUME NEW u \in User, resetLink'[u] # None
        PROVE  used'[resetLink'[u]] = 0 /\ \A v \in User : resetLink'[v] = resetLink'[u] => v = u
    BY <1>2, <2>2 DEF LinksInv, Spent
  <2>3. QED BY <2>1, <2>2 DEF Spent
<1>5. HeldAlone'
  <2>1. \A k : Holders(k)' = Holders(k) \ {h}
    BY <1>1 DEF Moved, Holders
  <2>2. h \in Holders(l) /\ \A k : k # l => h \notin Holders(k)
    BY DEF Holders
  <2>3. ASSUME l \notin heldTwice PROVE used'[l] = 1 /\ Holders(l)' = {}
    BY <1>2, <2>1, <2>2, <2>3 DEF LinksInv, HeldAlone
  <2>4. QED BY <1>2, <2>1, <2>2, <2>3 DEF LinksInv, HeldAlone
<1>6. QED BY <1>1, <1>2, <1>3, <1>4, <1>5 DEF LinksInv, Moved

(* A step that changes no link but the states of invitations, and takes    *)
(* none back.                                                              *)
LEMMA LinksUnmoved ==
  ASSUME LinksInv, UNCHANGED <<proc, resetLink, used, heldTwice>>, InvitesShaped',
         \A i \in Invite : invite'[i].state = invite[i].state
  PROVE  LinksInv'
<1>1. ProcShape' /\ \A h \in Handler : (proc'[h].pc = "accept" => proc'[h].ref \in Invite) /\ ResetKnows(h)'
  BY DEF LinksInv, ProcShape, ResetKnows
<1>2. Spent'
  BY DEF LinksInv, Spent
<1>3. HeldAlone'
  BY DEF LinksInv, HeldAlone, Holders
<1>4. QED BY <1>1, <1>2, <1>3 DEF LinksInv

(* Every step of the accounts keeps the links' invariant.                  *)
LEMMA LinksStep ==
  ASSUME LinksInv, AccountsNext
  PROVE  LinksInv'
<1>0. ProcShape /\ InvitesShaped
  BY DEF LinksInv
<1>1. ASSUME NEW h \in Handler, NEW pc, NEW u, NEW ref, NEW seen, Begin(h, pc, u, ref, seen),
             pc \notin {"accept", "reset"}, UNCHANGED accountsVars
      PROVE  LinksInv'
  BY <1>0, <1>1, BeginMoves, LinksQuiet DEF accountsVars, InvitesShaped
<1>2. ASSUME NEW h \in Handler, RegisterPage(h) \/ AdminModal(h) \/ InvitePeopleModal(h) PROVE LinksInv'
  BY <1>1, <1>2
     DEF RegisterPage, BeginRegister, AdminModal, BeginSetRole, BeginSetActive, InvitePeopleModal,
         BeginInvite, BeginRevoke
<1>3. ASSUME NEW h \in Handler, NEW pc, Goto(h, pc), pc \notin {"accept", "reset"}, UNCHANGED accountsVars
      PROVE  LinksInv'
  BY <1>0, <1>3, GotoMoves, LinksQuiet DEF accountsVars, InvitesShaped
<1>4. ASSUME NEW h \in Handler, Finish(h), UNCHANGED <<invite, resetLink, used, heldTwice>>
      PROVE  LinksInv'
  BY <1>0, <1>4, FinishMoves, LinksQuiet DEF InvitesShaped
<1>5. ASSUME NEW h \in Handler,
             CountMembers(h) \/ Register(h) \/ FindInvite(h) \/ AcceptLost(h) \/ SetRole(h)
               \/ SetActive(h) \/ (Die(h) /\ UNCHANGED accountsVars)
      PROVE  LinksInv'
  BY <1>3, <1>4, <1>5
     DEF CountMembers, Register, FindInvite, AcceptLost, SetRole, SetActive, Die, accountsVars, histories
<1>6. ASSUME NEW h \in Handler, MintInvite(h) PROVE LinksInv'
  <2>1. PICK i \in Invite : /\ invite[i].state = "unused"
                            /\ invite' = [invite EXCEPT ![i] =
                                 [state |-> "pending", email |-> proc[h].ref, role |-> proc[h].seen,
                                  expired |-> FALSE]]
    BY <1>6 DEF MintInvite
  <2>2. PICK q : q = [state |-> "pending", email |-> proc[h].ref, role |-> proc[h].seen, expired |-> FALSE]
    OBVIOUS
  <2>3. InviteShape(q) /\ invite' = [invite EXCEPT ![i] = q]
    BY <2>1, <2>2 DEF InviteShape
  <2>4. InvitesShaped' /\ \A j \in Invite \ {i} : invite'[j] = invite[j]
    BY <1>0, <2>3 DEF InvitesShaped, InviteShape
  <2>5. Moved(h, "idle", None, None, None) /\ UNCHANGED <<resetLink, used, heldTwice>>
    BY <1>0, <1>6, FinishMoves DEF MintInvite, histories
  <2>6. QED BY <2>1, <2>4, <2>5, LinksQuiet
<1>7. ASSUME NEW h \in Handler, RevokeInvite(h) PROVE LinksInv'
  <2>1. Restated(proc[h].ref, "revoked")
    BY <1>0, <1>7, InviteRewritten DEF RevokeInvite
  <2>2. Moved(h, "idle", None, None, None) /\ UNCHANGED <<resetLink, used, heldTwice>>
    BY <1>0, <1>7, FinishMoves DEF RevokeInvite, histories
  <2>3. QED BY <2>1, <2>2, LinksQuiet DEF Restated
<1>8. ASSUME NEW i \in Invite, Expire(i) PROVE LinksInv'
  <2>1. PICK x : x = TRUE
    OBVIOUS
  <2>2. Restated(i, invite[i].state)
    BY <1>0, <1>8, <2>1, InviteRewritten DEF Expire
  <2>3. UNCHANGED <<proc, resetLink, used, heldTwice>>
    BY <1>8 DEF Expire, histories, requestVars
  <2>4. QED
    BY <2>2, <2>3, LinksUnmoved DEF Restated
<1>9. ASSUME NEW h \in Handler, SignupPage(h) PROVE LinksInv'
  <2>1. PICK i \in Invite : BeginAccept(h, i)
    BY <1>9 DEF SignupPage
  <2>2. used[i] = 0
    BY <2>1 DEF BeginAccept, Valid, LinksInv, Spent
  <2>3. PICK e, seen : Begin(h, "accept", e, i, seen)
    BY <2>1 DEF BeginAccept
  <2>4. ResetKnows(h)'
    BY <1>0, <2>3, BeginMoves DEF Moved, ResetKnows
  <2>5. QED BY <2>1, <2>2, <2>3, <2>4, LinkTaken DEF BeginAccept
<1>10. ASSUME NEW h \in Handler, ResetPasswordPage(h) PROVE LinksInv'
  <2>1. PICK e \in User : BeginReset(h, e)
    BY <1>10 DEF ResetPasswordPage
  <2>2. PICK l : l = resetLink[e]
    OBVIOUS
  <2>3. l \in ResetLink /\ used[l] = 0 /\ \A u \in User : resetLink[u] = l => u = e
    BY <2>1, <2>2 DEF BeginReset, LinksInv, Spent
  <2>4. Begin(h, "reset", e, l, None) /\ Hold(l) /\ UNCHANGED <<invite, resetLink, used>>
    BY <2>1, <2>2 DEF BeginReset
  <2>5. ResetKnows(h)'
    BY <1>0, <2>3, <2>4, BeginMoves DEF Moved, ResetKnows
  <2>6. QED BY <2>3, <2>4, <2>5, LinkTaken
<1>11. ASSUME NEW h \in Handler, Accept(h) PROVE LinksInv'
  <2>1. PICK i : i = proc[h].ref
    OBVIOUS
  <2>2. i \in Invite /\ proc[h].pc = "accept"
    BY <1>11, <2>1 DEF Accept, At, LinksInv
  <2>3. PICK x : x = (IF invite[i].state = "revoked" THEN invite[i].state ELSE "accepted")
    OBVIOUS
  <2>4. x \in {"accepted", "revoked"} /\ Restated(i, x)
    BY <1>0, <1>11, <2>1, <2>3, InviteRewritten DEF Accept
  <2>5. Use(i) /\ Finish(h) /\ UNCHANGED <<resetLink, heldTwice>>
    BY <1>11, <2>1 DEF Accept
  <2>6. \A u \in User : resetLink[u] # i
    BY <2>2, AccountsAssumption DEF LinksInv, Restated
  <2>7. QED BY <2>1, <2>2, <2>4, <2>5, <2>6, LinkUsed DEF Restated, LinksInv
<1>12. ASSUME NEW h \in Handler, ResetPassword(h) PROVE LinksInv'
  <2>1. PICK l, u : l = proc[h].ref /\ u = proc[h].user
    OBVIOUS
  <2>2. /\ l \in ResetLink /\ u \in User /\ proc[h].pc = "reset"
        /\ \A v \in User : resetLink[v] = l => v = u
    BY <1>12, <2>1 DEF ResetPassword, At, LinksInv, ResetKnows
  <2>3. Use(l) /\ Finish(h) /\ UNCHANGED <<invite, heldTwice>> /\ resetLink' = [resetLink EXCEPT ![u] = None]
    BY <1>12, <2>1 DEF ResetPassword
  <2>4. /\ resetLink' \in [User -> ResetLink \cup {None}]
        /\ \A v \in User : resetLink'[v] \in {resetLink[v], None} /\ resetLink'[v] # l
    BY <2>2, <2>3, AccountsAssumption DEF LinksInv
  <2>5. QED BY <1>0, <2>1, <2>2, <2>3, <2>4, LinkUsed, AccountsAssumption DEF InvitesShaped, LinksInv, Spent
<1>13. ASSUME ForgotPasswordPage PROVE LinksInv'
  <2>1. PICK e \in User, l \in ResetLink :
          /\ used[l] = 0 /\ Holders(l) = {} /\ \A u \in User : resetLink[u] # l
          /\ resetLink' = [resetLink EXCEPT ![e] = l]
    BY <1>13 DEF ForgotPasswordPage, ForgotPassword
  <2>2. UNCHANGED <<proc, invite, used, heldTwice>>
    BY <1>13 DEF ForgotPasswordPage, ForgotPassword, Answer, histories
  <2>3. /\ resetLink' \in [User -> ResetLink \cup {None}] /\ resetLink'[e] = l
        /\ \A u \in User \ {e} : resetLink'[u] = resetLink[u]
    BY <2>1 DEF LinksInv
  <2>4. Spent'
    BY <2>1, <2>2, <2>3 DEF LinksInv, Spent
  <2>5. \A h \in Handler : ResetKnows(h)'
    <3> SUFFICES ASSUME NEW h \in Handler, proc[h].pc = "reset", NEW u \in User, resetLink'[u] = proc[h].ref
                 PROVE  u = proc[h].user /\ proc[h].ref \in ResetLink
      BY <2>2, <2>3 DEF ResetKnows, LinksInv
    <3>1. proc[h].ref # l
      BY <2>1 DEF Holders
    <3>2. QED BY <2>1, <2>3, <3>1 DEF ResetKnows, LinksInv
  <2>6. QED BY <2>2, <2>3, <2>4, <2>5 DEF LinksInv, ProcShape, InvitesShaped, HeldAlone, Holders
<1>14. QED
  BY <1>2, <1>5, <1>6, <1>7, <1>8, <1>9, <1>10, <1>11, <1>12, <1>13 DEF AccountsNext

(* Links are spent once and held by those the accounts say, in every       *)
(* reachable state.                                                        *)
LEMMA LinksInvariant == AccountsSpec => []LinksInv
<1>1. RequestsInit /\ AccountsInit => LinksInv
  <2> SUFFICES ASSUME RequestsInit, AccountsInit PROVE LinksInv
    OBVIOUS
  <2>1. ProcShape /\ \A h \in Handler : proc[h].pc = "idle"
    BY InitShape
  <2>2. InvitesShaped
    <3>1. PICK q : q = [state |-> "unused", email |-> None, role |-> None, expired |-> FALSE]
      OBVIOUS
    <3>2. invite = [i \in Invite |-> q] /\ InviteShape(q)
      BY <3>1 DEF AccountsInit, InviteShape
    <3>3. QED BY <3>2 DEF InvitesShaped
  <2>3. QED
    BY <2>1, <2>2 DEF AccountsInit, LinksInv, ResetKnows, Spent, HeldAlone, Holders
<1>2. ASSUME LinksInv, [AccountsNext]_<<requestVars, accountsVars>> PROVE LinksInv'
  <2>1. CASE AccountsNext
    BY <1>2, <2>1, LinksStep
  <2>2. CASE UNCHANGED <<requestVars, accountsVars>>
    <3>1. UNCHANGED <<proc, invite, resetLink, used, heldTwice>>
      BY <2>2 DEF requestVars, accountsVars
    <3>2. InvitesShaped'
      BY <1>2, <3>1 DEF LinksInv, InvitesShaped
    <3>3. QED BY <1>2, <3>1, <3>2, LinksUnmoved
  <2>3. QED BY <1>2, <2>1, <2>2
<1>3. QED BY <1>1, <1>2, PTL DEF AccountsSpec

(* An invitation and a password link take effect at most once, unless two  *)
(* requests had found it valid before either wrote                         *)
(* (workspace-invites.service.ts:157, auth.service.ts:57-64).              *)
THEOREM LinksUsedOnceAlways == AccountsSpec => []LinksUsedOnce
<1>1. LinksInv => LinksUsedOnce
  BY DEF LinksInv, HeldAlone, LinksUsedOnce
<1>2. QED BY <1>1, LinksInvariant, PTL

---------------------------------------------------------------------------
(* Accounts: the owner.                                                    *)

RowShape(r) == r = [state |-> r.state, role |-> r.role]
RowsShaped ==
  /\ account = [u \in User |-> account[u]]
  /\ \A u \in User : RowShape(account[u]) /\ (account[u].state = "none" => account[u].role = None)

(* What each request that will write a row knows of the workspace: only    *)
(* one that met no row at all makes its user the owner, and nobody becomes *)
(* the target of a role change who is, or can become, the owner.           *)
WriteKnows(h) ==
  LET r == proc[h] IN
  /\ r.pc \in {"registerTx", "registerOwner", "registerMember", "accept"} => r.user \in User
  /\ r.pc \in {"registerMember", "invite", "mint", "accept"} => Rows # {}
  /\ r.pc \in {"invite", "mint"} => r.ref \in User /\ r.seen \in {"admin", "member"}
  /\ r.pc \in {"accept", "revoke"} => r.ref \in Invite /\ invite[r.ref].state # "unused"
  /\ r.pc = "setRole" => r.ref \in Rows \ Owners /\ r.seen \in {"admin", "member"}
  /\ r.pc = "setActive" => r.ref \in Rows /\ r.seen \in {"active", "deactivated"}

InvitesKnow ==
  \A i \in Invite : invite[i].state # "unused" =>
    invite[i].email \in User /\ invite[i].role \in {"admin", "member"} /\ Rows # {}

OwnerStands ==
  /\ readmitted \subseteq Rows
  /\ Rows # {} /\ ~firsts =>
       IF readmitted = {} THEN \E o \in User : Owners = {o} ELSE Owners = {}

OwnersInv ==
  /\ ProcShape /\ InvitesShaped /\ RowsShaped /\ firsts \in BOOLEAN
  /\ \A h \in Handler : WriteKnows(h)
  /\ InvitesKnow /\ OwnerStands

(* One row is written with a state and a role.                             *)
LEMMA RowWritten ==
  ASSUME RowsShaped, NEW e \in User, NEW state, NEW role, state # "none",
         \/ account' = [account EXCEPT ![e] = [state |-> state, role |-> role]]
         \/ account' = [account EXCEPT ![e].state = state] /\ role = account[e].role
         \/ account' = [account EXCEPT ![e].role = role] /\ state = account[e].state
  PROVE  /\ RowsShaped' /\ Rows' = Rows \cup {e}
         /\ Owners' = IF role = "owner" THEN Owners \cup {e} ELSE Owners \ {e}
<1>1. PICK r : r = account[e]
  OBVIOUS
<1>2. PICK s, o : s = r.state /\ o = r.role
  OBVIOUS
<1>3. r = [state |-> s, role |-> o]
  BY <1>1, <1>2 DEF RowsShaped, RowShape
<1>4. PICK q : q = [state |-> state, role |-> role]
  OBVIOUS
<1>5. account' = [account EXCEPT ![e] = q]
  <2>1. CASE account' = [account EXCEPT ![e] = [state |-> state, role |-> role]]
    BY <1>4, <2>1
  <2>2. CASE account' = [account EXCEPT ![e].state = state] /\ role = account[e].role
    <3>1. [r EXCEPT !.state = state] = [state |-> state, role |-> o]
      BY <1>3
    <3>2. QED BY <1>1, <1>2, <1>4, <2>2, <3>1
  <2>3. CASE account' = [account EXCEPT ![e].role = role] /\ state = account[e].state
    <3>1. [r EXCEPT !.role = role] = [state |-> s, role |-> role]
      BY <1>3
    <3>2. QED BY <1>1, <1>2, <1>4, <2>3, <3>1
  <2>4. QED BY <2>1, <2>2, <2>3
<1>6. RowShape(q) /\ q.state = state /\ q.role = role
  BY <1>4 DEF RowShape
<1>7. /\ account' = [u \in User |-> account'[u]] /\ account'[e] = q
      /\ \A u \in User \ {e} : account'[u] = account[u]
  BY <1>5 DEF RowsShaped
<1>8. QED BY <1>6, <1>7 DEF RowsShaped, RowShape, Rows, Owners

(* A request moves; no row is lost, none becomes the owner's, and what its *)
(* own next step and the invitations need holds again.                     *)
LEMMA OwnersCarried ==
  ASSUME OwnersInv, NEW h \in Handler, NEW pc, NEW u, NEW ref, NEW seen, Moved(h, pc, u, ref, seen),
         RowsShaped', InvitesShaped', firsts' \in BOOLEAN, WriteKnows(h)', OwnerStands',
         Rows \subseteq Rows', Rows \cap Owners' \subseteq Owners,
         \A i \in Invite : invite[i].state # "unused" => invite'[i].state # "unused",
         InvitesKnow'
  PROVE  OwnersInv'
<1>1. \A g \in Handler : WriteKnows(g)'
  <2> SUFFICES ASSUME NEW g \in Handler, g # h PROVE WriteKnows(g)'
    OBVIOUS
  <2>1. proc'[g] = proc[g] /\ WriteKnows(g)
    BY DEF Moved, OwnersInv
  <2>2. QED BY <2>1 DEF WriteKnows
<1>2. QED BY <1>1 DEF OwnersInv, Moved

(* A step that writes no row and no invitation.                            *)
LEMMA OwnersQuiet ==
  ASSUME OwnersInv, NEW h \in Handler, NEW pc, NEW u, NEW ref, NEW seen, Moved(h, pc, u, ref, seen),
         UNCHANGED <<account, invite, firsts, readmitted>>, WriteKnows(h)'
  PROVE  OwnersInv'
<1>1. Rows' = Rows /\ Owners' = Owners
  BY DEF Rows, Owners
<1>2. RowsShaped' /\ InvitesShaped' /\ firsts' \in BOOLEAN
  BY DEF OwnersInv, RowsShaped, InvitesShaped
<1>3. OwnerStands' /\ InvitesKnow'
  BY <1>1 DEF OwnersInv, OwnerStands, InvitesKnow
<1>4. QED BY <1>1, <1>2, <1>3, OwnersCarried

(* A step that touches no request, row or invitation.                      *)
LEMMA OwnersUnmoved ==
  ASSUME OwnersInv, UNCHANGED <<proc, account, invite, firsts, readmitted>>
  PROVE  OwnersInv'
<1>1. Rows' = Rows /\ Owners' = Owners
  BY DEF Rows, Owners
<1>2. ProcShape' /\ InvitesShaped' /\ RowsShaped' /\ firsts' \in BOOLEAN
  BY DEF OwnersInv, ProcShape, InvitesShaped, RowsShaped
<1>3. \A h \in Handler : WriteKnows(h)'
  BY <1>1 DEF OwnersInv, WriteKnows
<1>4. QED BY <1>1, <1>2, <1>3 DEF OwnersInv, InvitesKnow, OwnerStands

(* Every step of the accounts keeps the owners' invariant.                 *)
LEMMA OwnersStep ==
  ASSUME OwnersInv, AccountsNext
  PROVE  OwnersInv'
<1>0. ProcShape /\ InvitesShaped /\ RowsShaped
  BY DEF OwnersInv
<1>1. ASSUME NEW h \in Handler, NEW pc, NEW u, NEW ref, NEW seen, Begin(h, pc, u, ref, seen),
             UNCHANGED <<account, invite, firsts, readmitted>>,
             pc \in {"registerTx", "accept"} => u \in User, pc \notin {"registerOwner", "registerMember", "mint"},
             pc \in {"invite", "accept"} => Rows # {},
             pc = "invite" => ref \in User /\ seen \in {"admin", "member"},
             pc \in {"accept", "revoke"} => ref \in Invite /\ invite[ref].state # "unused",
             pc = "setRole" => ref \in Rows \ Owners /\ seen \in {"admin", "member"},
             pc = "setActive" => ref \in Rows /\ seen \in {"active", "deactivated"}
      PROVE  OwnersInv'
  <2>1. Moved(h, pc, u, ref, seen)
    BY <1>0, <1>1, BeginMoves
  <2>2. Rows' = Rows /\ Owners' = Owners
    BY <1>1 DEF Rows, Owners
  <2>3. WriteKnows(h)'
    BY <1>1, <2>1, <2>2 DEF Moved, WriteKnows
  <2>4. QED BY <1>1, <2>1, <2>3, OwnersQuiet
<1>2. ASSUME NEW u \in User, IsAdmin(u) PROVE Rows # {}
  <2>1. account[u].role \in {"owner", "admin"} /\ (account[u].state = "none" => account[u].role = None)
    BY <1>0, <1>2 DEF IsAdmin, RowsShaped
  <2>2. None \notin {"owner", "admin"}
    BY AccountsAssumption DEF Role
  <2>3. QED BY <2>1, <2>2 DEF Rows
<1>3. ASSUME NEW h \in Handler, RegisterPage(h) \/ ResetPasswordPage(h) PROVE OwnersInv'
  BY <1>1, <1>3 DEF RegisterPage, BeginRegister, ResetPasswordPage, BeginReset, accountsVars
<1>4. ASSUME NEW h \in Handler, SignupPage(h) PROVE OwnersInv'
  <2>1. PICK i \in Invite : BeginAccept(h, i)
    BY <1>4 DEF SignupPage
  <2>2. invite[i].state # "unused" /\ invite[i].email \in User /\ Rows # {}
    BY <2>1 DEF BeginAccept, Valid, OwnersInv, InvitesKnow
  <2>3. QED BY <1>1, <2>1, <2>2 DEF BeginAccept
<1>5. ASSUME NEW h \in Handler, InvitePeopleModal(h) PROVE OwnersInv'
  BY <1>1, <1>2, <1>5 DEF InvitePeopleModal, BeginInvite, BeginRevoke, accountsVars
<1>6. ASSUME NEW h \in Handler, AdminModal(h) PROVE OwnersInv'
  BY <1>1, <1>6 DEF AdminModal, BeginSetRole, BeginSetActive, accountsVars
<1>7. ASSUME NEW h \in Handler, NEW pc, Goto(h, pc), UNCHANGED <<account, invite, firsts, readmitted>>,
             \/ pc = "registerOwner" /\ proc[h].pc = "registerTx"
             \/ pc = "registerMember" /\ proc[h].pc = "registerTx" /\ Rows # {}
             \/ pc = "mint" /\ proc[h].pc = "invite"
      PROVE  OwnersInv'
  <2>1. Moved(h, pc, proc[h].user, proc[h].ref, proc[h].seen)
    BY <1>0, <1>7, GotoMoves
  <2>2. Rows' = Rows /\ Owners' = Owners
    BY <1>7 DEF Rows, Owners
  <2>3. WriteKnows(h)
    BY DEF OwnersInv
  <2>4. WriteKnows(h)'
    BY <1>7, <2>1, <2>2, <2>3 DEF Moved, WriteKnows
  <2>5. QED BY <1>7, <2>1, <2>4, OwnersQuiet
<1>8. ASSUME NEW h \in Handler, Finish(h) PROVE Moved(h, "idle", None, None, None) /\ WriteKnows(h)'
  <2>1. Moved(h, "idle", None, None, None)
    BY <1>0, <1>8, FinishMoves
  <2>2. QED BY <2>1 DEF Moved, WriteKnows
<1>9. ASSUME NEW h \in Handler, CountMembers(h) \/ FindInvite(h) PROVE OwnersInv'
  BY <1>7, <1>8, <1>9, OwnersQuiet DEF CountMembers, FindInvite, At, accountsVars
<1>10. ASSUME NEW h \in Handler, AcceptLost(h) \/ ResetPassword(h) \/ (Die(h) /\ UNCHANGED accountsVars)
       PROVE  OwnersInv'
  BY <1>8, <1>10, OwnersQuiet DEF AcceptLost, ResetPassword, Die, accountsVars
<1>11. ASSUME NEW h \in Handler, Register(h) PROVE OwnersInv'
  <2>1. PICK e : e = proc[h].user
    OBVIOUS
  <2>2. /\ e \in User /\ proc[h].pc \in {"registerOwner", "registerMember"}
        /\ proc[h].pc = "registerMember" => Rows # {}
    BY <1>11, <2>1 DEF Register, At, OwnersInv, WriteKnows
  <2>3. /\ Moved(h, "idle", None, None, None) /\ WriteKnows(h)' /\ UNCHANGED <<invite, readmitted>>
        /\ InvitesShaped'
    BY <1>0, <1>8, <1>11 DEF Register, InvitesShaped
  <2>4. CASE e \in Rows
    <3>1. (account' = account \/ account' = [account EXCEPT ![e].state = "active"]) /\ UNCHANGED firsts
      BY <1>11, <2>1, <2>4 DEF Register
    <3>2. RowsShaped' /\ Rows' = Rows /\ Owners' = Owners
      <4>1. CASE account' = account
        BY <1>0, <4>1 DEF RowsShaped, Rows, Owners
      <4>2. CASE account' = [account EXCEPT ![e].state = "active"]
        <5>1. PICK o : o = account[e].role
          OBVIOUS
        <5>2. /\ RowsShaped' /\ Rows' = Rows \cup {e}
              /\ Owners' = IF o = "owner" THEN Owners \cup {e} ELSE Owners \ {e}
          BY <1>0, <2>2, <4>2, <5>1, RowWritten
        <5>3. o = "owner" <=> e \in Owners
          BY <2>2, <5>1 DEF Owners
        <5>4. QED BY <2>4, <5>2, <5>3
      <4>3. QED BY <3>1, <4>1, <4>2
    <3>3. OwnerStands' /\ InvitesKnow' /\ firsts' \in BOOLEAN
      BY <2>3, <3>1, <3>2 DEF OwnersInv, OwnerStands, InvitesKnow
    <3>4. QED BY <2>3, <3>2, <3>3, OwnersCarried
  <2>5. CASE e \notin Rows
    <3>1. PICK o : o = IF proc[h].pc = "registerOwner" THEN "owner" ELSE "member"
      OBVIOUS
    <3>2. account' = [account EXCEPT ![e] = [state |-> "active", role |-> o]]
      BY <1>11, <2>1, <2>5, <3>1 DEF Register, At
    <3>3. /\ RowsShaped' /\ Rows' = Rows \cup {e}
          /\ Owners' = IF o = "owner" THEN Owners \cup {e} ELSE Owners \ {e}
      BY <1>0, <2>2, <3>2, RowWritten
    <3>4. firsts' = (firsts \/ (proc[h].pc = "registerOwner" /\ Rows # {}))
      BY <1>11, <2>1, <2>5 DEF Register, At
    <3>5. e \notin Owners /\ Owners \subseteq Rows
      <4>1. \A u \in User : account[u].state = "none" => account[u].role # "owner"
        BY <1>0, AccountsAssumption DEF RowsShaped, Role
      <4>2. QED BY <2>5, <4>1 DEF Rows, Owners
    <3>6. OwnerStands'
      BY <2>2, <2>3, <3>1, <3>3, <3>4, <3>5 DEF OwnersInv, OwnerStands
    <3>7. InvitesKnow' /\ firsts' \in BOOLEAN
      BY <2>3, <3>3, <3>4 DEF OwnersInv, InvitesKnow
    <3>8. QED BY <2>3, <2>5, <3>3, <3>6, <3>7, OwnersCarried
  <2>6. QED BY <2>4, <2>5
<1>12. ASSUME NEW h \in Handler, MintInvite(h) PROVE OwnersInv'
  <2>1. PICK i \in Invite : /\ invite[i].state = "unused"
                            /\ invite' = [invite EXCEPT ![i] =
                                 [state |-> "pending", email |-> proc[h].ref, role |-> proc[h].seen,
                                  expired |-> FALSE]]
    BY <1>12 DEF MintInvite
  <2>2. PICK q : q = [state |-> "pending", email |-> proc[h].ref, role |-> proc[h].seen, expired |-> FALSE]
    OBVIOUS
  <2>3. InviteShape(q) /\ invite' = [invite EXCEPT ![i] = q]
    BY <2>1, <2>2 DEF InviteShape
  <2>4. InvitesShaped' /\ invite'[i] = q /\ \A j \in Invite \ {i} : invite'[j] = invite[j]
    BY <1>0, <2>3 DEF InvitesShaped, InviteShape
  <2>5. q.state = "pending" /\ q.email = proc[h].ref /\ q.role = proc[h].seen
    BY <2>2
  <2>6. proc[h].ref \in User /\ proc[h].seen \in {"admin", "member"} /\ Rows # {}
    BY <1>12 DEF MintInvite, At, OwnersInv, WriteKnows
  <2>7. UNCHANGED <<account, firsts, readmitted>> /\ Moved(h, "idle", None, None, None) /\ WriteKnows(h)'
    BY <1>8, <1>12 DEF MintInvite, histories
  <2>8. Rows' = Rows /\ Owners' = Owners /\ RowsShaped'
    BY <1>0, <2>7 DEF Rows, Owners, RowsShaped
  <2>9. InvitesKnow' /\ OwnerStands' /\ firsts' \in BOOLEAN
    BY <2>4, <2>5, <2>6, <2>7, <2>8 DEF OwnersInv, InvitesKnow, OwnerStands
  <2>10. QED BY <2>4, <2>5, <2>7, <2>8, <2>9, OwnersCarried
<1>13. ASSUME NEW h \in Handler, RevokeInvite(h) PROVE OwnersInv'
  <2>1. Restated(proc[h].ref, "revoked")
    BY <1>0, <1>13, InviteRewritten DEF RevokeInvite
  <2>2. UNCHANGED <<account, firsts, readmitted>> /\ Moved(h, "idle", None, None, None) /\ WriteKnows(h)'
    BY <1>8, <1>13 DEF RevokeInvite, histories
  <2>3. Rows' = Rows /\ Owners' = Owners /\ RowsShaped'
    BY <1>0, <2>2 DEF Rows, Owners, RowsShaped
  <2>4. InvitesKnow'
    <3>1. proc[h].ref \in Invite /\ invite[proc[h].ref].state # "unused"
      BY <1>13 DEF RevokeInvite, At, OwnersInv, WriteKnows
    <3>2. QED BY <2>1, <2>3, <3>1 DEF OwnersInv, InvitesKnow, Restated
  <2>5. \A i \in Invite : invite[i].state # "unused" => invite'[i].state # "unused"
    BY <2>1 DEF Restated
  <2>6. OwnerStands' /\ firsts' \in BOOLEAN
    BY <2>2, <2>3 DEF OwnersInv, OwnerStands
  <2>7. QED BY <2>1, <2>2, <2>3, <2>4, <2>5, <2>6, OwnersCarried DEF Restated
<1>14. ASSUME NEW i \in Invite, Expire(i) PROVE OwnersInv'
  <2>1. PICK x : x = TRUE
    OBVIOUS
  <2>2. Restated(i, invite[i].state)
    BY <1>0, <1>14, <2>1, InviteRewritten DEF Expire
  <2>3. UNCHANGED <<proc, account, firsts, readmitted>>
    BY <1>14 DEF Expire, histories, requestVars
  <2>4. Rows' = Rows /\ Owners' = Owners /\ RowsShaped' /\ ProcShape'
    BY <1>0, <2>3 DEF Rows, Owners, RowsShaped, ProcShape
  <2>5. InvitesKnow' /\ \A h \in Handler : WriteKnows(h)'
    BY <2>2, <2>3, <2>4 DEF OwnersInv, InvitesKnow, WriteKnows, Restated
  <2>6. OwnerStands' /\ firsts' \in BOOLEAN
    BY <2>3, <2>4 DEF OwnersInv, OwnerStands
  <2>7. QED BY <2>2, <2>4, <2>5, <2>6 DEF OwnersInv, Restated
<1>15. ASSUME NEW h \in Handler, Accept(h) PROVE OwnersInv'
  <2>1. PICK e, i : e = proc[h].user /\ i = proc[h].ref
    OBVIOUS
  <2>2. e \in User /\ i \in Invite /\ Rows # {} /\ invite[i].state # "unused"
    BY <1>15, <2>1 DEF Accept, At, OwnersInv, WriteKnows
  <2>3. PICK o : o = invite[i].role
    OBVIOUS
  <2>4. o \in {"admin", "member"}
    BY <2>2, <2>3 DEF OwnersInv, InvitesKnow
  <2>5. account' = [account EXCEPT ![e] = [state |-> "active", role |-> o]]
    BY <1>15, <2>1, <2>3 DEF Accept
  <2>6. RowsShaped' /\ Rows' = Rows \cup {e} /\ Owners' = Owners \ {e}
    BY <1>0, <2>2, <2>4, <2>5, RowWritten
  <2>7. PICK x : x = (IF invite[i].state = "revoked" THEN invite[i].state ELSE "accepted")
    OBVIOUS
  <2>8. x # "unused" /\ Restated(i, x)
    BY <1>0, <1>15, <2>1, <2>7, InviteRewritten DEF Accept
  <2>9. /\ Moved(h, "idle", None, None, None) /\ WriteKnows(h)' /\ UNCHANGED firsts
        /\ readmitted' = IF e \in Owners THEN readmitted \cup {e} ELSE readmitted
    BY <1>8, <1>15, <2>1 DEF Accept
  <2>10. InvitesKnow' /\ \A j \in Invite : invite[j].state # "unused" => invite'[j].state # "unused"
    BY <2>2, <2>6, <2>8 DEF OwnersInv, InvitesKnow, Restated
  <2>11. OwnerStands' /\ firsts' \in BOOLEAN
    BY <2>2, <2>6, <2>9 DEF OwnersInv, OwnerStands
  <2>12. QED BY <2>6, <2>8, <2>9, <2>10, <2>11, OwnersCarried DEF Restated
<1>16. ASSUME NEW h \in Handler, SetRole(h) \/ SetActive(h) PROVE OwnersInv'
  <2>1. PICK e, x : e = proc[h].ref /\ x = proc[h].seen
    OBVIOUS
  <2>2. /\ Moved(h, "idle", None, None, None) /\ WriteKnows(h)' /\ UNCHANGED <<invite, firsts, readmitted>>
        /\ InvitesShaped'
    BY <1>0, <1>8, <1>16 DEF SetRole, SetActive, histories, InvitesShaped
  <2>3. RowsShaped' /\ Rows' = Rows /\ Owners' = Owners
    <3>1. CASE SetRole(h)
      <4>1. e \in Rows \ Owners /\ x \in {"admin", "member"} /\ account' = [account EXCEPT ![e].role = x]
        BY <2>1, <3>1 DEF SetRole, At, OwnersInv, WriteKnows
      <4>2. PICK s : s = account[e].state
        OBVIOUS
      <4>3. e \in User /\ s # "none"
        BY <4>1, <4>2 DEF Rows
      <4>4. RowsShaped' /\ Rows' = Rows \cup {e} /\ Owners' = Owners \ {e}
        BY <1>0, <4>1, <4>2, <4>3, RowWritten
      <4>5. QED BY <4>1, <4>4
    <3>2. CASE SetActive(h)
      <4>1. e \in Rows /\ x \in {"active", "deactivated"} /\ account' = [account EXCEPT ![e].state = x]
        BY <2>1, <3>2 DEF SetActive, At, OwnersInv, WriteKnows
      <4>2. PICK o : o = account[e].role
        OBVIOUS
      <4>3. e \in User /\ (o = "owner" <=> e \in Owners)
        BY <4>1, <4>2 DEF Rows, Owners
      <4>4. /\ RowsShaped' /\ Rows' = Rows \cup {e}
            /\ Owners' = IF o = "owner" THEN Owners \cup {e} ELSE Owners \ {e}
        BY <1>0, <4>1, <4>2, <4>3, RowWritten
      <4>5. QED BY <4>1, <4>3, <4>4
    <3>3. QED BY <1>16, <3>1, <3>2
  <2>4. OwnerStands' /\ InvitesKnow' /\ firsts' \in BOOLEAN
    BY <2>2, <2>3 DEF OwnersInv, OwnerStands, InvitesKnow
  <2>5. QED BY <2>2, <2>3, <2>4, OwnersCarried
<1>17. ForgotPasswordPage => OwnersInv'
  BY OwnersUnmoved DEF ForgotPasswordPage, ForgotPassword, Answer, histories
<1>18. QED
  BY <1>3, <1>4, <1>5, <1>6, <1>9, <1>10, <1>11, <1>12, <1>13, <1>14, <1>15, <1>16, <1>17 DEF AccountsNext

(* What requests and invitations know of the owner holds in every          *)
(* reachable state.                                                        *)
LEMMA OwnersInvariant == AccountsSpec => []OwnersInv
<1>1. RequestsInit /\ AccountsInit => OwnersInv
  <2> SUFFICES ASSUME RequestsInit, AccountsInit PROVE OwnersInv
    OBVIOUS
  <2>1. ProcShape /\ \A h \in Handler : proc[h].pc = "idle"
    BY InitShape
  <2>2. PICK q : q = [state |-> "unused", email |-> None, role |-> None, expired |-> FALSE]
    OBVIOUS
  <2>3. invite = [i \in Invite |-> q] /\ InviteShape(q) /\ q.state = "unused"
    BY <2>2 DEF AccountsInit, InviteShape
  <2>4. RowsShaped /\ (Rows # {} => \E o \in User : Owners = {o})
    BY AccountsAssumption DEF AccountsInit, RowsShaped, RowShape, Rows, Owners, Role
  <2>5. QED
    BY <2>1, <2>3, <2>4 DEF AccountsInit, OwnersInv, InvitesShaped, WriteKnows, InvitesKnow, OwnerStands
<1>2. ASSUME OwnersInv, [AccountsNext]_<<requestVars, accountsVars>> PROVE OwnersInv'
  <2>1. CASE AccountsNext
    BY <1>2, <2>1, OwnersStep
  <2>2. CASE UNCHANGED <<requestVars, accountsVars>>
    BY <1>2, <2>2, OwnersUnmoved DEF requestVars, accountsVars
  <2>3. QED BY <1>2, <2>1, <2>2
<1>3. QED BY <1>1, <1>2, PTL DEF AccountsSpec

(* A workspace with people in it has exactly one owner, except two         *)
(* registrations that both met it empty, and an owner who returned through *)
(* an invitation (auth.service.ts:131-132, admin.service.ts:69).           *)
THEOREM OneOwnerAlways == AccountsSpec => []OneOwner
<1>1. OwnersInv => OneOwner
  BY FS_EmptySet, FS_Singleton DEF OwnersInv, OwnerStands, OneOwner
<1>2. QED BY <1>1, OwnersInvariant, PTL

(* Nobody's link took effect more often than requests were made.           *)
UsesFit == \A l \in Invite \cup ResetLink : Fits(used[l], Holders(l), requests)

RowsTyped ==
  /\ account \in [User -> AccountRecord]
  /\ \A u \in User : account[u].state = "none" <=> account[u].role = None

(* What the other invariants of the accounts leave open of their types.     *)
AccountsTyped ==
  /\ RequestsCounted /\ UsesFit /\ heldTwice \subseteq Invite \cup ResetLink
  /\ RowsTyped /\ invite \in [Invite -> InviteRecord]

(* Every step keeps a link within the requests that may use it.            *)
LEMMA UsesStep ==
  ASSUME LinksInv, OwnersInv, RequestsCounted, UsesFit, heldTwice \subseteq Invite \cup ResetLink, AccountsNext
  PROVE  RequestsCounted' /\ UsesFit' /\ heldTwice' \subseteq Invite \cup ResetLink
<1> DEFINE Rest == RequestsCounted /\ UsesFit /\ heldTwice \subseteq Invite \cup ResetLink
<1>0. requests \in Nat /\ requests \in 0 .. MaxRequests /\ MaxRequests \in Nat /\ ProcShape
  BY RequestsAssumption DEF RequestsCounted, LinksInv
<1>1. ASSUME UNCHANGED <<used, heldTwice>>, requests' = requests \/ (requests' = requests + 1 /\ requests < MaxRequests),
             \A l : Holders(l)' \subseteq Holders(l)
      PROVE  Rest'
  <2>1. UsesFit'
    BY <1>1, FitsKept DEF UsesFit
  <2>2. QED BY <1>0, <1>1, <2>1 DEF RequestsCounted
<1>2. ASSUME NEW h \in Handler, NEW pc, NEW u, NEW ref, NEW seen, Moved(h, pc, u, ref, seen),
             pc \notin {"accept", "reset"}
      PROVE  \A l : Holders(l)' \subseteq Holders(l)
  BY <1>2 DEF Moved, Holders
<1>3. ASSUME NEW h \in Handler, NEW pc, NEW u, NEW ref, NEW seen, Begin(h, pc, u, ref, seen),
             pc \notin {"accept", "reset"}, UNCHANGED accountsVars
      PROVE  Rest'
  <2>1. Moved(h, pc, u, ref, seen) /\ requests' = requests + 1 /\ requests < MaxRequests
    BY <1>0, <1>3, BeginMoves DEF Begin
  <2>2. QED BY <1>1, <1>2, <1>3, <2>1 DEF accountsVars
<1>4. ASSUME NEW h \in Handler, RegisterPage(h) \/ AdminModal(h) \/ InvitePeopleModal(h) PROVE Rest'
  BY <1>3, <1>4
     DEF RegisterPage, BeginRegister, AdminModal, BeginSetRole, BeginSetActive, InvitePeopleModal,
         BeginInvite, BeginRevoke
<1>5. ASSUME NEW h \in Handler, NEW pc, Goto(h, pc), pc \notin {"accept", "reset"}, UNCHANGED accountsVars
      PROVE  Rest'
  <2>1. UNCHANGED requests /\ Moved(h, pc, proc[h].user, proc[h].ref, proc[h].seen)
    BY <1>0, <1>5, GotoMoves DEF Goto
  <2>2. QED BY <1>1, <1>2, <1>5, <2>1 DEF accountsVars
<1>6. ASSUME NEW h \in Handler, Finish(h), UNCHANGED <<used, heldTwice>> PROVE Rest'
  <2>1. UNCHANGED requests /\ Moved(h, "idle", None, None, None)
    BY <1>0, <1>6, FinishMoves DEF Finish
  <2>2. QED BY <1>1, <1>2, <1>6, <2>1
<1>7. ASSUME NEW h \in Handler,
             CountMembers(h) \/ Register(h) \/ FindInvite(h) \/ MintInvite(h) \/ RevokeInvite(h)
               \/ AcceptLost(h) \/ SetRole(h) \/ SetActive(h) \/ (Die(h) /\ UNCHANGED accountsVars)
      PROVE  Rest'
  BY <1>5, <1>6, <1>7
     DEF CountMembers, Register, FindInvite, MintInvite, RevokeInvite, AcceptLost, SetRole, SetActive,
         Die, accountsVars, histories
<1>8. ASSUME NEW h \in Handler, NEW pc, NEW u, NEW ref \in Invite \cup ResetLink, NEW seen,
             Begin(h, pc, u, ref, seen), Hold(ref), UNCHANGED used
      PROVE  Rest'
  <2>1. Moved(h, pc, u, ref, seen) /\ requests' = requests + 1 /\ requests < MaxRequests
    BY <1>0, <1>8, BeginMoves DEF Begin
  <2>2. ASSUME NEW l \in Invite \cup ResetLink PROVE Fits(used[l], Holders(l), requests)'
    <3>1. PICK S, T : S = Holders(l)' /\ T = S \ {h}
      OBVIOUS
    <3>2. T \subseteq Holders(l)
      BY <2>1, <3>1 DEF Moved, Holders
    <3>3. Fits(used[l], T, requests) /\ Fits(used[l], T, requests + 1)
      BY <3>2, FitsKept DEF UsesFit
    <3>4. Fits(used[l], S, requests + 1)
      <4>1. S = T \/ S = T \cup {h}
        BY <3>1
      <4>2. QED BY <3>3, <4>1, FitsKept
    <3>5. QED BY <1>8, <2>1, <3>1, <3>4
  <2>3. heldTwice' \subseteq Invite \cup ResetLink
    BY <1>8 DEF Hold
  <2>4. QED BY <1>0, <2>1, <2>2, <2>3 DEF UsesFit, RequestsCounted
<1>9. ASSUME NEW h \in Handler, SignupPage(h) PROVE Rest'
  BY <1>8, <1>9 DEF SignupPage, BeginAccept
<1>10. ASSUME NEW h \in Handler, ResetPasswordPage(h) PROVE Rest'
  <2>1. PICK e \in User : BeginReset(h, e)
    BY <1>10 DEF ResetPasswordPage
  <2>2. PICK l : l = resetLink[e]
    OBVIOUS
  <2>3. l \in ResetLink /\ Begin(h, "reset", e, l, None) /\ Hold(l) /\ UNCHANGED used
    BY <2>1, <2>2 DEF BeginReset, LinksInv
  <2>4. QED BY <1>8, <2>3
<1>11. ASSUME NEW h \in Handler, Accept(h) \/ ResetPassword(h) PROVE Rest'
  <2>1. PICK l : l = proc[h].ref
    OBVIOUS
  <2>2. /\ l \in Invite \cup ResetLink /\ proc[h].pc \in {"accept", "reset"}
        /\ used' = [used EXCEPT ![l] = used[l] + 1] /\ Finish(h) /\ UNCHANGED heldTwice
    BY <1>11, <2>1 DEF Accept, ResetPassword, Use, At, LinksInv, ResetKnows
  <2>3. UNCHANGED requests /\ Moved(h, "idle", None, None, None)
    BY <1>0, <2>2, FinishMoves DEF Finish
  <2>4. ASSUME NEW k \in Invite \cup ResetLink PROVE Fits(used[k], Holders(k), requests)'
    <3>1. CASE k = l
      <4>1. h \in Holders(l) /\ Holders(l)' \subseteq Holders(l) \ {h} /\ used'[l] = used[l] + 1
        BY <2>1, <2>2, <2>3 DEF Moved, Holders, LinksInv
      <4>2. PICK n, S, T : n = used[l] + 1 /\ S = Holders(l) \ {h} /\ T = Holders(l)'
        OBVIOUS
      <4>3. Fits(n, S, requests)
        BY <2>2, <4>1, <4>2, FitsKept DEF UsesFit
      <4>4. Fits(n, T, requests)
        BY <4>1, <4>2, <4>3, FitsKept
      <4>5. QED BY <2>3, <3>1, <4>1, <4>2, <4>4
    <3>2. CASE k # l
      <4>1. Holders(k)' \subseteq Holders(k) /\ used'[k] = used[k]
        BY <2>2, <2>3, <3>2 DEF Moved, Holders, LinksInv
      <4>2. QED BY <2>3, <4>1, FitsKept DEF UsesFit
    <3>3. QED BY <3>1, <3>2
  <2>5. QED BY <2>2, <2>3, <2>4 DEF UsesFit, RequestsCounted
<1>12. ASSUME UNCHANGED <<proc, used, heldTwice>>,
              requests' = requests \/ (requests' = requests + 1 /\ requests < MaxRequests)
       PROVE  Rest'
  BY <1>1, <1>12 DEF Holders
<1>13. ForgotPasswordPage \/ (\E i \in Invite : Expire(i)) => Rest'
  BY <1>12 DEF ForgotPasswordPage, ForgotPassword, Answer, Expire, histories, requestVars
<1>14. Rest'
  <2> HIDE DEF Rest
  <2>1. QED BY <1>4, <1>7, <1>9, <1>10, <1>11, <1>13 DEF AccountsNext
<1>15. QED BY <1>14

(* Every step writes rows and invitations that have their types.           *)
LEMMA AccountRowsStep ==
  ASSUME OwnersInv, RowsTyped, invite \in [Invite -> InviteRecord], AccountsNext
  PROVE  RowsTyped' /\ invite' \in [Invite -> InviteRecord]
<1> DEFINE Rest == RowsTyped /\ invite \in [Invite -> InviteRecord]
<1>0. \A h \in Handler : WriteKnows(h)
  BY DEF OwnersInv
<1>1. UNCHANGED <<account, invite>> => Rest'
  BY DEF RowsTyped
<1>2. ASSUME NEW e \in User, NEW s \in {"active", "deactivated"}, NEW o \in Role,
             UNCHANGED invite \/ invite' \in [Invite -> InviteRecord],
             \/ account' = [account EXCEPT ![e] = [state |-> s, role |-> o]]
             \/ account' = [account EXCEPT ![e].state = s] /\ e \in Rows
             \/ account' = [account EXCEPT ![e].role = o] /\ e \in Rows
      PROVE  Rest'
  BY <1>2, AccountsAssumption DEF RowsTyped, AccountRecord, Rows
<1>3. ASSUME NEW h \in Handler, Register(h) PROVE Rest'
  <2>1. PICK e : e = proc[h].user
    OBVIOUS
  <2>2. e \in User
    BY <1>0, <1>3, <2>1 DEF Register, At, WriteKnows
  <2>3. UNCHANGED invite
    BY <1>3 DEF Register
  <2>4. PICK s, o : s = "active" /\ o = (IF At(h, "registerOwner") THEN "owner" ELSE "member")
    OBVIOUS
  <2>5. o \in Role /\ s \in {"active", "deactivated"}
    BY <2>4 DEF Role
  <2>6. \/ account' = account
        \/ account' = [account EXCEPT ![e].state = s] /\ e \in Rows
        \/ account' = [account EXCEPT ![e] = [state |-> s, role |-> o]]
    BY <1>3, <2>1, <2>4 DEF Register
  <2>7. QED BY <1>1, <1>2, <2>2, <2>3, <2>5, <2>6
<1>4. ASSUME NEW h \in Handler, SetRole(h) \/ SetActive(h) PROVE Rest'
  <2>1. PICK e, x : e = proc[h].ref /\ x = proc[h].seen
    OBVIOUS
  <2>2. UNCHANGED invite
    BY <1>4 DEF SetRole, SetActive
  <2>3. CASE SetRole(h)
    <3>1. e \in Rows /\ x \in Role /\ account' = [account EXCEPT ![e].role = x]
      BY <1>0, <2>1, <2>3 DEF SetRole, At, WriteKnows, Role
    <3>2. e \in User
      BY <3>1 DEF Rows
    <3>3. QED BY <1>2, <2>2, <3>1, <3>2
  <2>4. CASE SetActive(h)
    <3>1. e \in Rows /\ x \in {"active", "deactivated"} /\ account' = [account EXCEPT ![e].state = x]
      BY <1>0, <2>1, <2>4 DEF SetActive, At, WriteKnows
    <3>2. e \in User /\ "owner" \in Role
      BY <3>1 DEF Rows, Role
    <3>3. QED BY <1>2, <2>2, <3>1, <3>2
  <2>5. QED BY <1>4, <2>3, <2>4
<1>5. ASSUME NEW i, NEW s \in {"accepted", "revoked"}, i \in Invite,
             invite' = [invite EXCEPT ![i].state = s]
      PROVE  invite' \in [Invite -> InviteRecord]
  BY <1>5 DEF InviteRecord
<1>6. ASSUME NEW h \in Handler, Accept(h) PROVE Rest'
  <2>1. PICK e, i : e = proc[h].user /\ i = proc[h].ref
    OBVIOUS
  <2>2. e \in User /\ i \in Invite /\ invite[i].state # "unused"
    BY <1>0, <1>6, <2>1 DEF Accept, At, WriteKnows
  <2>3. PICK o : o = invite[i].role
    OBVIOUS
  <2>4. o \in Role
    BY <2>2, <2>3 DEF OwnersInv, InvitesKnow, Role
  <2>5. PICK s : s = (IF invite[i].state = "revoked" THEN invite[i].state ELSE "accepted")
    OBVIOUS
  <2>6. s \in {"accepted", "revoked"} /\ invite' = [invite EXCEPT ![i].state = s]
    BY <1>6, <2>1, <2>5 DEF Accept
  <2>7. invite' \in [Invite -> InviteRecord]
    BY <1>5, <2>2, <2>6
  <2>8. account' = [account EXCEPT ![e] = [state |-> "active", role |-> o]]
    BY <1>6, <2>1, <2>3 DEF Accept
  <2>9. QED BY <1>2, <2>2, <2>4, <2>7, <2>8
<1>7. ASSUME NEW h \in Handler, RevokeInvite(h) PROVE Rest'
  <2>1. PICK i \in Invite : i = proc[h].ref
    BY <1>0, <1>7 DEF RevokeInvite, At, WriteKnows
  <2>2. invite' = [invite EXCEPT ![i].state = "revoked"] /\ UNCHANGED account
    BY <1>7, <2>1 DEF RevokeInvite
  <2>3. QED BY <1>5, <2>1, <2>2 DEF RowsTyped
<1>8. ASSUME NEW h \in Handler, MintInvite(h) PROVE Rest'
  <2>1. PICK e, o : e = proc[h].ref /\ o = proc[h].seen
    OBVIOUS
  <2>2. e \in User /\ o \in {"admin", "member"} /\ UNCHANGED account
    BY <1>0, <1>8, <2>1 DEF MintInvite, At, WriteKnows
  <2>3. PICK i \in Invite : invite' = [invite EXCEPT ![i] = [state |-> "pending", email |-> e, role |-> o,
                                                            expired |-> FALSE]]
    BY <1>8, <2>1 DEF MintInvite
  <2>4. [state |-> "pending", email |-> e, role |-> o, expired |-> FALSE] \in InviteRecord
    BY <2>2 DEF InviteRecord
  <2>5. QED BY <2>2, <2>3, <2>4 DEF RowsTyped
<1>9. ASSUME NEW i \in Invite, Expire(i) PROVE Rest'
  BY <1>9 DEF Expire, InviteRecord, RowsTyped
<1>10. ASSUME NEW h \in Handler,
              RegisterPage(h) \/ SignupPage(h) \/ ResetPasswordPage(h) \/ InvitePeopleModal(h)
                \/ AdminModal(h) \/ CountMembers(h) \/ FindInvite(h) \/ AcceptLost(h)
                \/ ResetPassword(h) \/ (Die(h) /\ UNCHANGED accountsVars)
       PROVE  Rest'
  <2>1. UNCHANGED <<account, invite>>
    BY <1>10
       DEF RegisterPage, BeginRegister, SignupPage, BeginAccept, ResetPasswordPage, BeginReset,
           InvitePeopleModal, BeginInvite, BeginRevoke, AdminModal, BeginSetRole, BeginSetActive,
           CountMembers, FindInvite, AcceptLost, ResetPassword, accountsVars
  <2>2. QED BY <1>1, <2>1
<1>11. ForgotPasswordPage => Rest'
  BY <1>1 DEF ForgotPasswordPage, ForgotPassword
<1>12. Rest'
  <2> HIDE DEF Rest
  <2>1. QED BY <1>3, <1>4, <1>6, <1>7, <1>8, <1>9, <1>10, <1>11 DEF AccountsNext
<1>13. QED BY <1>12

(* Accounts, invitations, links and their histories have their types in    *)
(* every reachable state.                                                  *)
LEMMA AccountsTypeCorrect == AccountsSpec => []AccountsTypeOK
<1>1. RequestsInit /\ AccountsInit => AccountsTyped
  <2> SUFFICES ASSUME RequestsInit, AccountsInit PROVE AccountsTyped
    OBVIOUS
  <2>1. \A h \in Handler : proc[h].pc = "idle"
    BY InitShape
  <2>2. RowsTyped
    BY AccountsAssumption DEF AccountsInit, RowsTyped, AccountRecord, Role
  <2>3. invite \in [Invite -> InviteRecord]
    BY DEF AccountsInit, InviteRecord
  <2>4. UsesFit
    <3>1. \A l : Holders(l) = {}
      BY <2>1 DEF Holders
    <3>2. Fits(0, {}, 0)
      BY FS_EmptySet DEF Fits
    <3>3. requests = 0 /\ \A l \in Invite \cup ResetLink : used[l] = 0
      BY DEF AccountsInit, RequestsInit
    <3>4. QED BY <3>1, <3>2, <3>3 DEF UsesFit
  <2>5. QED
    <3>1. RequestsCounted
      BY RequestsAssumption DEF RequestsInit, RequestsCounted
    <3>2. QED BY <2>2, <2>3, <2>4, <3>1 DEF AccountsInit, AccountsTyped
<1>2. LinksInv /\ OwnersInv /\ AccountsTyped /\ [AccountsNext]_<<requestVars, accountsVars>> => AccountsTyped'
  <2>1. ASSUME AccountsTyped, UNCHANGED <<requestVars, accountsVars>> PROVE AccountsTyped'
    BY <2>1 DEF requestVars, accountsVars, AccountsTyped, RequestsCounted, UsesFit, Holders, RowsTyped
  <2>2. QED BY <2>1, UsesStep, AccountRowsStep DEF AccountsTyped
<1>3. LinksInv /\ OwnersInv /\ AccountsTyped => AccountsTypeOK
  <2> SUFFICES ASSUME LinksInv, OwnersInv, AccountsTyped PROVE AccountsTypeOK
    OBVIOUS
  <2>1. used \in [Invite \cup ResetLink -> 0 .. MaxRequests]
    <3>1. ASSUME NEW l \in Invite \cup ResetLink PROVE used[l] \in 0 .. MaxRequests
      <4>1. used[l] \in Nat /\ used[l] <= requests /\ requests \in 0 .. MaxRequests
        BY FitsKept DEF AccountsTyped, UsesFit, RequestsCounted, LinksInv
      <4>2. QED BY <4>1, RequestsAssumption
    <3>2. QED BY <3>1 DEF LinksInv
  <2>2. readmitted \subseteq User
    BY DEF OwnersInv, OwnerStands, Rows
  <2>3. QED BY <2>1, <2>2 DEF LinksInv, OwnersInv, AccountsTyped, RowsTyped, AccountsTypeOK
<1>4. QED BY <1>1, <1>2, <1>3, LinksInvariant, OwnersInvariant, PTL DEF AccountsSpec

---------------------------------------------------------------------------
(* Profiles.                                                               *)

ProfileShape == profile = [avatar |-> profile.avatar, status |-> profile.status]

(* What a request carries has its type.                                    *)
ProfileRequest(h) ==
  proc[h].pc # "idle" =>
    proc[h].ref.text \in StatusText /\ (proc[h].pc \in {"tell", "answer"} => proc[h].seen \in ProfileRecord)

ProfileTyped == ProcShape /\ ProfileTypeOK /\ \A h \in Handler : ProfileRequest(h)

(* One avatar request at a time keeps the object behind the url: it is     *)
(* there before the url is set, and goes only before the url does.         *)
AvatarKept ==
  ~torn => /\ \A g, h \in AvatarRequests : g = h
           /\ \A h \in Handler : At(h, "url") => object
           /\ profile.avatar => object \/ \E h \in Handler : At(h, "clear")

(* A change is on its way to the other page until that page has it.        *)
DirectoryToCome ==
  ~untold => \/ stale \/ announced \/ \E h \in Handler : At(h, "broadcast") \/ At(h, "tell")
             \/ fetched = profile \/ (fetched = None /\ directory = profile)

(* One patch at a time: one that sets the status has the timer run, one    *)
(* that takes it back is on its way when there is no timer.                *)
TimerKept ==
  ~unwatched => /\ \A g, h \in Patches : g = h
                /\ \A h \in Patches : proc[h].ref.text = "focus" => timer # "none"
                /\ profile.status = "focus" =>
                     timer # "none" \/ \E h \in Patches : proc[h].ref.text # "focus"

ProfileInv ==
  /\ ProcShape /\ ProfileShape
  /\ AvatarKept /\ DirectoryToCome /\ TimerKept

(* Every step keeps the types.                                             *)
LEMMA ProfileTypes ==
  ASSUME ProfileTyped, ProfileNext
  PROVE  ProfileTyped'
<1> USE DEF ProfileTypeOK
<1>0. ProcShape /\ ProfileTypeOK
  BY DEF ProfileTyped
<1>1. ASSUME NEW h \in Handler, NEW pc, NEW u, NEW ref, NEW seen, Moved(h, pc, u, ref, seen),
             pc # "idle" => ref.text \in StatusText, pc \in {"tell", "answer"} => seen \in ProfileRecord
      PROVE  ProcShape' /\ \A g \in Handler : ProfileRequest(g)'
  BY <1>1 DEF Moved, ProfileTyped, ProfileRequest
<1>2. ASSUME NEW h \in Handler, NEW by, NEW text \in StatusText, BeginPatch(h, by, text)
      PROVE  ProcShape' /\ \A g \in Handler : ProfileRequest(g)'
  <2>1. PICK r : r = [by |-> by, text |-> text]
    OBVIOUS
  <2>2. Moved(h, "patch", None, r, None) /\ r.text = text
    BY <1>0, <1>2, <2>1, BeginMoves DEF BeginPatch
  <2>3. QED BY <1>1, <2>2
<1>3. ASSUME NEW h \in Handler, SaveModal(h) \/ StartFocus(h) \/ EndFocus(h) \/ FocusMode(h) PROVE ProfileTyped'
  <2>1. PICK text \in StatusText : \E by : BeginPatch(h, by, text)
    BY <1>0, <1>3 DEF SaveModal, StartFocus, EndFocus, FocusMode, StatusText
  <2>2. ProfileTypeOK'
    BY <1>0, <1>3, <2>1 DEF SaveModal, StartFocus, EndFocus, FocusMode, BeginPatch, Timer
  <2>3. QED BY <1>2, <2>1, <2>2 DEF ProfileTyped
<1>4. ASSUME NEW h \in Handler, ChangeAvatar(h) PROVE ProfileTyped'
  <2>1. PICK pc \in {"put", "delete"} : Begin(h, pc, None, [by |-> "modal", text |-> "none"], None)
    BY <1>4 DEF ChangeAvatar
  <2>2. PICK r : r = [by |-> "modal", text |-> "none"]
    OBVIOUS
  <2>3. Moved(h, pc, None, r, None) /\ r.text \in StatusText
    BY <1>0, <2>1, <2>2, BeginMoves DEF StatusText
  <2>4. ProfileTypeOK'
    BY <1>0, <1>4 DEF ChangeAvatar, profilePages
  <2>5. QED BY <1>1, <2>1, <2>3, <2>4 DEF ProfileTyped
<1>5. ASSUME NEW h \in Handler, NEW pc, Goto(h, pc), ProfileTypeOK', proc[h].pc # "idle",
             pc \notin {"tell", "answer"} \/ proc[h].pc = "tell"
      PROVE  ProfileTyped'
  <2>1. Moved(h, pc, proc[h].user, proc[h].ref, proc[h].seen) /\ ProfileRequest(h)
    BY <1>0, <1>5, GotoMoves DEF ProfileTyped
  <2>2. QED BY <1>1, <1>5, <2>1 DEF ProfileTyped, ProfileRequest
<1>6. ASSUME NEW h \in Handler, UpdateProfile(h) PROVE ProfileTyped'
  <2>1. PICK t : t = proc[h].ref.text
    OBVIOUS
  <2>2. t \in StatusText
    BY <1>6, <2>1 DEF UpdateProfile, At, ProfileTyped, ProfileRequest
  <2>3. profile' \in ProfileRecord
    BY <1>0, <1>6, <2>1, <2>2 DEF UpdateProfile, ProfileRecord
  <2>4. ProfileTypeOK'
    BY <1>0, <1>6, <2>3 DEF UpdateProfile, profilePages
  <2>5. QED BY <1>5, <1>6, <2>4 DEF UpdateProfile, At
<1>7. ASSUME NEW h \in Handler, SetUrl(h) PROVE ProfileTyped'
  <2>1. PICK b \in BOOLEAN : b = (proc[h].pc = "url")
    OBVIOUS
  <2>2. profile' \in ProfileRecord
    BY <1>0, <1>7, <2>1 DEF SetUrl, At, ProfileRecord
  <2>3. ProfileTypeOK'
    BY <1>0, <1>7, <2>2 DEF SetUrl, profilePages
  <2>4. QED BY <1>5, <1>7, <2>3 DEF SetUrl
<1>8. ASSUME NEW h \in Handler, PutObject(h) \/ DeleteObject(h) \/ Tell(h) PROVE ProfileTyped'
  <2>1. ProfileTypeOK'
    BY <1>0, <1>8 DEF PutObject, DeleteObject, Tell, profilePages
  <2>2. QED BY <1>5, <1>8, <2>1 DEF PutObject, DeleteObject, Tell, At
<1>9. ASSUME NEW h \in Handler, ReadProfile(h) PROVE ProfileTyped'
  <2>1. Moved(h, "tell", proc[h].user, proc[h].ref, profile) /\ ProfileRequest(h) /\ proc[h].pc = "broadcast"
    BY <1>0, <1>9, GotoWithMoves DEF ProfileTyped, ReadProfile, At
  <2>2. ProfileTypeOK'
    BY <1>0, <1>9 DEF ReadProfile, profileVars
  <2>3. QED BY <1>0, <1>1, <2>1, <2>2 DEF ProfileTyped, ProfileRequest
<1>10. ASSUME NEW h \in Handler, TakeProfile(h) \/ ProfileDies(h) PROVE ProfileTyped'
  <2>1. Moved(h, "idle", None, None, None)
    BY <1>0, <1>10, FinishMoves DEF TakeProfile, ProfileDies, Die
  <2>2. PICK t : t = proc[h].ref.text
    OBVIOUS
  <2>3. t \in StatusText /\ (proc[h].pc = "answer" => proc[h].seen \in ProfileRecord)
    BY <1>10, <2>2 DEF TakeProfile, ProfileDies, Die, At, ProfileTyped, ProfileRequest
  <2>4. \/ mine' = mine \/ mine' = [mine EXCEPT !.status = t]
        \/ proc[h].pc = "answer" /\ mine' = proc[h].seen
    BY <1>10, <2>2 DEF TakeProfile, ProfileDies, Apply, At
  <2>5. mine' \in ProfileRecord
    BY <1>0, <2>3, <2>4 DEF ProfileRecord
  <2>6. ProfileTypeOK'
    BY <1>0, <1>10, <2>5 DEF TakeProfile, ProfileDies, Apply
  <2>7. QED BY <1>1, <2>1, <2>6 DEF ProfileTyped
<1>11. ASSUME OpenModal \/ CloseModal \/ OpenDashboard \/ CloseDashboard \/ FocusTimePasses
               \/ OnUserUpdated \/ LoseEvent \/ FetchUsers \/ TakeUsers
       PROVE  ProfileTyped'
  <2>1. UNCHANGED proc
    BY <1>11
       DEF requestVars, OpenModal, CloseModal, OpenDashboard, CloseDashboard, FocusTimePasses,
           OnUserUpdated, LoseEvent, FetchUsers, TakeUsers
  <2>2. CASE OpenModal
    BY <1>0, <2>1, <2>2 DEF ProfileTyped, ProfileRequest, ProcShape, OpenModal, ProfileRecord
  <2>3. CASE CloseModal \/ LoseEvent \/ FetchUsers
    BY <1>0, <2>1, <2>3
       DEF ProfileTyped, ProfileRequest, ProcShape, CloseModal, LoseEvent, FetchUsers, profilePages
  <2>4. CASE OpenDashboard \/ CloseDashboard \/ FocusTimePasses
    <3>1. ProfileTypeOK'
      <4>1. CASE OpenDashboard
        BY <1>0, <2>1, <4>1 DEF OpenDashboard, Timer
      <4>2. CASE CloseDashboard
        <5>1. PICK b \in BOOLEAN : b = (dashboard = "due")
          OBVIOUS
        <5>2. unwatched' \in BOOLEAN
          BY <1>0, <4>2, <5>1 DEF CloseDashboard
        <5>3. dashboard' = None /\ None \notin {"running", "due"}
          BY <4>2, ProfileAssumption DEF CloseDashboard, Timer
        <5>4. QED BY <1>0, <4>2, <5>2, <5>3 DEF CloseDashboard
      <4>3. CASE FocusTimePasses
        <5>1. PICK b \in BOOLEAN : b = (dashboard # "running")
          OBVIOUS
        <5>2. unwatched' \in BOOLEAN
          BY <1>0, <4>3, <5>1 DEF FocusTimePasses
        <5>3. QED BY <1>0, <4>3, <5>2 DEF FocusTimePasses, Timer
      <4>4. QED BY <2>4, <4>1, <4>2, <4>3
    <3>2. QED BY <1>0, <2>1, <3>1 DEF ProfileTyped, ProfileRequest, ProcShape
  <2>5. CASE OnUserUpdated \/ TakeUsers
    BY <1>0, <2>1, <2>5 DEF ProfileTyped, ProfileRequest, ProcShape, OnUserUpdated, TakeUsers
  <2>6. QED BY <1>11, <2>2, <2>3, <2>4, <2>5
<1>12. QED
  BY <1>3, <1>4, <1>6, <1>7, <1>8, <1>9, <1>10, <1>11
     DEF ProfileNext, ProfileModal, HomeDashboard, ProfileController

(* The rows and pages of a profile have their types.                       *)
LEMMA ProfileTypedAlways == ProfileSpec => []ProfileTyped
<1>1. RequestsInit /\ ProfileInit => ProfileTyped
  <2> SUFFICES ASSUME RequestsInit, ProfileInit PROVE ProfileTyped
    OBVIOUS
  <2>1. ProcShape /\ \A h \in Handler : proc[h].pc = "idle"
    BY InitShape
  <2>2. ProfileTypeOK
    <3>1. PICK a \in BOOLEAN, t \in StatusText : a = FALSE /\ t = "none"
      BY DEF StatusText
    <3>2. profile = [avatar |-> a, status |-> t]
      BY <3>1 DEF ProfileInit
    <3>3. profile \in ProfileRecord
      BY <3>2 DEF ProfileRecord
    <3>4. mine \in ProfileRecord /\ directory \in ProfileRecord
      BY <3>3 DEF ProfileInit
    <3>5. dashboard = None /\ timer = "none" /\ fetched = None /\ modal = None
      BY DEF ProfileInit
    <3>6. ~object /\ ~announced /\ ~stale /\ ~torn /\ ~untold /\ ~unwatched
      BY DEF ProfileInit
    <3>7. {object, announced, stale, torn, untold, unwatched} \subseteq BOOLEAN
      BY DEF ProfileInit
    <3>8. None \notin {"running", "due"}
      BY ProfileAssumption DEF Timer
    <3>9. QED BY <3>3, <3>4, <3>5, <3>7, <3>8 DEF ProfileTypeOK, Timer
  <2>3. QED BY <2>1, <2>2 DEF ProfileTyped, ProfileRequest
<1>2. ASSUME ProfileTyped, [ProfileNext]_<<requestVars, profileVars>> PROVE ProfileTyped'
  <2>1. CASE ProfileNext
    BY <1>2, <2>1, ProfileTypes
  <2>2. CASE UNCHANGED <<requestVars, profileVars>>
    BY <1>2, <2>2
       DEF requestVars, profileVars, ProfileTyped, ProcShape, ProfileRequest, ProfileTypeOK
  <2>3. QED BY <1>2, <2>1, <2>2
<1>3. QED BY <1>1, <1>2, PTL DEF ProfileSpec

(* A profile, its copies and its timer have their types in every reachable *)
(* state.                                                                  *)
LEMMA ProfileTypeCorrect == ProfileSpec => []ProfileTypeOK
<1>1. ProfileTyped => ProfileTypeOK
  BY DEF ProfileTyped
<1>2. QED BY <1>1, ProfileTypedAlways, PTL

(* Steps that do not concern one of the three.                             *)
LEMMA ProfileQuiet ==
  ASSUME ProfileInv, NEW h \in Handler, NEW pc, NEW u, NEW ref, NEW seen, Moved(h, pc, u, ref, seen)
  PROVE  /\ /\ UNCHANGED <<object, torn>> /\ profile'.avatar = profile.avatar
            /\ proc[h].pc # "clear" /\ pc \notin {"put", "url", "delete", "clear"}
            => AvatarKept'
         /\ UNCHANGED <<profile, announced, directory, fetched, stale, untold>> /\ proc[h].pc \notin {"broadcast", "tell"}
            => DirectoryToCome'
         /\ /\ UNCHANGED <<timer, unwatched>> /\ profile'.status = profile.status
            /\ proc[h].pc # "patch" /\ pc # "patch"
            => TimerKept'
<1>1. ASSUME UNCHANGED <<object, torn>>, profile'.avatar = profile.avatar, proc[h].pc # "clear",
             pc \notin {"put", "url", "delete", "clear"}
      PROVE  AvatarKept'
  BY <1>1 DEF Moved, ProfileInv, AvatarKept, AvatarRequests, At
<1>2. ASSUME UNCHANGED <<profile, announced, directory, fetched, stale, untold>>,
             proc[h].pc \notin {"broadcast", "tell"}
      PROVE  DirectoryToCome'
  BY <1>2 DEF Moved, ProfileInv, DirectoryToCome, At
<1>3. ASSUME UNCHANGED <<timer, unwatched>>, profile'.status = profile.status,
             proc[h].pc # "patch", pc # "patch"
      PROVE  TimerKept'
  <2>1. Patches' = Patches /\ \A g \in Patches : proc'[g] = proc[g]
    BY <1>3 DEF Moved, Patches, At
  <2>2. QED BY <1>3, <2>1 DEF ProfileInv, TimerKept
<1>4. QED BY <1>1, <1>2, <1>3

(* A patch is sent: the timer and the status it carries go together.       *)
LEMMA PatchSent ==
  ASSUME ProfileInv, NEW h \in Handler, NEW by, NEW text, BeginPatch(h, by, text),
         unwatched' = (unwatched \/ Patches # {}) \/ unwatched' = TRUE,
         timer' = timer \/ (timer' = "running" /\ text = "focus") \/ (timer' = "none" /\ text = "none"),
         ~unwatched' /\ text = "focus" => timer' # "none"
  PROVE  ProfileInv'
<1>1. PICK r : r = [by |-> by, text |-> text]
  OBVIOUS
<1>2. r.text = text
  BY <1>1
<1>3. Moved(h, "patch", None, r, None) /\ proc[h].pc = "idle"
  BY <1>1, BeginMoves DEF BeginPatch, ProfileInv
<1>4. UNCHANGED <<profile, object, announced, directory, fetched, stale, torn, untold>>
  BY DEF BeginPatch
<1>5. AvatarKept' /\ DirectoryToCome' /\ ProfileShape' /\ ProcShape'
  BY <1>3, <1>4, ProfileQuiet DEF Moved, ProfileInv, ProfileShape
<1>6. TimerKept'
  <2> SUFFICES ASSUME ~unwatched' PROVE TimerKept'
    BY DEF TimerKept
  <2>1. Patches = {} /\ Patches' = {h} /\ proc'[h].ref.text = text /\ ~unwatched
    BY <1>2, <1>3 DEF Moved, Patches, At
  <2>2. profile.status = "focus" => timer # "none"
    BY <2>1 DEF ProfileInv, TimerKept
  <2>3. QED BY <1>4, <2>1, <2>2 DEF TimerKept
<1>7. QED BY <1>5, <1>6 DEF ProfileInv

(* One field of the profile is written.                                    *)
LEMMA ProfileWritten ==
  ASSUME ProfileShape, NEW x
  PROVE  /\ profile' = [profile EXCEPT !.status = x] =>
              ProfileShape' /\ profile'.status = x /\ profile'.avatar = profile.avatar
         /\ profile' = [profile EXCEPT !.avatar = x] =>
              ProfileShape' /\ profile'.avatar = x /\ profile'.status = profile.status
<1>1. PICK a, t : a = profile.avatar /\ t = profile.status
  OBVIOUS
<1>2. profile = [avatar |-> a, status |-> t]
  BY <1>1 DEF ProfileShape
<1>3. ASSUME profile' = [profile EXCEPT !.status = x]
      PROVE  ProfileShape' /\ profile'.status = x /\ profile'.avatar = profile.avatar
  <2>1. profile' = [avatar |-> a, status |-> x]
    BY <1>2, <1>3
  <2>2. QED BY <1>2, <2>1 DEF ProfileShape
<1>4. ASSUME profile' = [profile EXCEPT !.avatar = x]
      PROVE  ProfileShape' /\ profile'.avatar = x /\ profile'.status = profile.status
  <2>1. profile' = [avatar |-> x, status |-> t]
    BY <1>2, <1>4
  <2>2. QED BY <1>2, <2>1 DEF ProfileShape
<1>5. QED BY <1>3, <1>4

(* Every step of a profile keeps the invariant.                            *)
LEMMA ProfileStep ==
  ASSUME ProfileInv, ProfileNext
  PROVE  ProfileInv'
<1>0. ProcShape /\ ProfileShape
  BY DEF ProfileInv
<1>1. ASSUME NEW h \in Handler, SaveModal(h) \/ StartFocus(h) \/ EndFocus(h) \/ FocusMode(h) PROVE ProfileInv'
  <2>1. CASE SaveModal(h)
    <3>1. PICK text : /\ BeginPatch(h, "modal", text) /\ unwatched' = (unwatched \/ text = "focus" \/ Patches # {})
                      /\ timer' = timer
      BY <2>1 DEF SaveModal
    <3>2. CASE text = "focus"
      BY <3>1, <3>2, PatchSent
    <3>3. CASE text # "focus"
      BY <3>1, <3>3, PatchSent
    <3>4. QED BY <3>2, <3>3
  <2>2. CASE StartFocus(h)
    BY <2>2, PatchSent DEF StartFocus
  <2>3. CASE EndFocus(h)
    BY <2>3, PatchSent DEF EndFocus
  <2>4. CASE FocusMode(h)
    BY <2>4, PatchSent DEF FocusMode
  <2>5. QED BY <1>1, <2>1, <2>2, <2>3, <2>4
<1>2. ASSUME NEW h \in Handler, ChangeAvatar(h) PROVE ProfileInv'
  <2>1. PICK pc \in {"put", "delete"} : Begin(h, pc, None, [by |-> "modal", text |-> "none"], None)
    BY <1>2 DEF ChangeAvatar
  <2>2. PICK r : Moved(h, pc, None, r, None) /\ proc[h].pc = "idle"
    BY <1>0, <2>1, BeginMoves
  <2>3. /\ UNCHANGED <<profile, object, announced, directory, fetched, stale, timer, untold, unwatched>>
        /\ torn' = (torn \/ AvatarRequests # {})
    BY <1>2 DEF ChangeAvatar, profilePages
  <2>4. AvatarKept'
    BY <2>2, <2>3 DEF Moved, AvatarKept, AvatarRequests, At, ProfileInv
  <2>5. DirectoryToCome' /\ TimerKept'
    BY <2>1, <2>2, <2>3, ProfileQuiet
  <2>6. QED BY <2>2, <2>3, <2>4, <2>5 DEF Moved, ProfileInv, ProfileShape
<1>3. ASSUME NEW h \in Handler, UpdateProfile(h) PROVE ProfileInv'
  <2>1. Moved(h, "broadcast", proc[h].user, proc[h].ref, proc[h].seen) /\ proc[h].pc = "patch"
    BY <1>0, <1>3, GotoMoves DEF UpdateProfile, At
  <2>2. PICK t : t = proc[h].ref.text
    OBVIOUS
  <2>3. /\ UNCHANGED <<object, timer, torn, unwatched>>
        /\ profile' = [profile EXCEPT !.status = t]
    BY <1>3, <2>2 DEF UpdateProfile, profilePages
  <2>4. ProfileShape' /\ profile'.status = t /\ profile'.avatar = profile.avatar
    BY <1>0, <2>3, ProfileWritten
  <2>5. AvatarKept'
    BY <2>1, <2>3, <2>4, ProfileQuiet
  <2>6. DirectoryToCome'
    BY <2>1 DEF Moved, DirectoryToCome, At
  <2>7. TimerKept'
    BY <2>1, <2>2, <2>3, <2>4 DEF Moved, ProfileInv, TimerKept, Patches, At
  <2>8. QED BY <2>1, <2>4, <2>5, <2>6, <2>7 DEF Moved, ProfileInv
<1>4. ASSUME NEW h \in Handler, PutObject(h) \/ DeleteObject(h) PROVE ProfileInv'
  <2>1. \/ /\ Moved(h, "url", proc[h].user, proc[h].ref, proc[h].seen) /\ proc[h].pc = "put" /\ object' = TRUE
        \/ /\ Moved(h, "clear", proc[h].user, proc[h].ref, proc[h].seen) /\ proc[h].pc = "delete"
    BY <1>0, <1>4, GotoMoves DEF PutObject, DeleteObject, At
  <2>2. UNCHANGED <<profile, announced, directory, fetched, stale, timer, torn, untold, unwatched>>
    BY <1>4 DEF PutObject, DeleteObject, profilePages
  <2>3. AvatarKept'
    BY <2>1, <2>2 DEF Moved, ProfileInv, AvatarKept, AvatarRequests, At
  <2>4. DirectoryToCome' /\ TimerKept'
    BY <2>1, <2>2, ProfileQuiet
  <2>5. QED BY <2>1, <2>2, <2>3, <2>4 DEF Moved, ProfileInv, ProfileShape
<1>5. ASSUME NEW h \in Handler, SetUrl(h) PROVE ProfileInv'
  <2>1. Moved(h, "broadcast", proc[h].user, proc[h].ref, proc[h].seen) /\ proc[h].pc \in {"url", "clear"}
    BY <1>0, <1>5, GotoMoves DEF SetUrl
  <2>2. PICK b : b = (proc[h].pc = "url")
    OBVIOUS
  <2>3. UNCHANGED <<object, timer, torn, unwatched>> /\ profile' = [profile EXCEPT !.avatar = b]
    BY <1>5, <2>2 DEF SetUrl, profilePages, At
  <2>4. ProfileShape' /\ profile'.avatar = b /\ profile'.status = profile.status
    BY <1>0, <2>3, ProfileWritten
  <2>5. AvatarKept'
    BY <2>1, <2>2, <2>3, <2>4 DEF Moved, ProfileInv, AvatarKept, AvatarRequests, At
  <2>6. DirectoryToCome'
    BY <2>1 DEF Moved, DirectoryToCome, At
  <2>7. TimerKept'
    BY <2>1, <2>3, <2>4, ProfileQuiet
  <2>8. QED BY <2>1, <2>4, <2>5, <2>6, <2>7 DEF Moved, ProfileInv
<1>6. ASSUME NEW h \in Handler, ReadProfile(h) \/ Tell(h) PROVE ProfileInv'
  <2>1. \/ /\ Moved(h, "tell", proc[h].user, proc[h].ref, profile) /\ proc[h].pc = "broadcast"
        \/ /\ Moved(h, "answer", proc[h].user, proc[h].ref, proc[h].seen) /\ proc[h].pc = "tell"
           /\ announced' = TRUE
    BY <1>0, <1>6, GotoMoves, GotoWithMoves DEF ReadProfile, Tell, At
  <2>2. UNCHANGED <<profile, object, directory, fetched, stale, timer, torn, untold, unwatched>>
    BY <1>6 DEF ReadProfile, Tell, profileVars, profilePages
  <2>3. DirectoryToCome'
    BY <2>1, <2>2 DEF Moved, DirectoryToCome, At
  <2>4. AvatarKept' /\ TimerKept'
    BY <2>1, <2>2, ProfileQuiet
  <2>5. QED BY <2>1, <2>2, <2>3, <2>4 DEF Moved, ProfileInv, ProfileShape
<1>7. ASSUME NEW h \in Handler, TakeProfile(h) PROVE ProfileInv'
  <2>1. Moved(h, "idle", None, None, None) /\ proc[h].pc = "answer"
    BY <1>0, <1>7, FinishMoves DEF TakeProfile, At
  <2>2. UNCHANGED <<profile, object, announced, directory, fetched, stale, timer, torn, untold, unwatched>>
    BY <1>7 DEF TakeProfile, Apply
  <2>3. QED BY <2>1, <2>2, ProfileQuiet DEF Moved, ProfileInv, ProfileShape
<1>8. ASSUME NEW h \in Handler, ProfileDies(h) PROVE ProfileInv'
  <2>1. Moved(h, "idle", None, None, None)
    BY <1>0, <1>8, FinishMoves DEF ProfileDies, Die
  <2>2. /\ UNCHANGED <<profile, object, announced, directory, fetched, stale, timer>>
        /\ torn' = (torn \/ proc[h].pc = "clear")
        /\ untold' = (untold \/ proc[h].pc \in {"broadcast", "tell"})
        /\ unwatched' = (unwatched \/ proc[h].pc = "patch")
    BY <1>8 DEF ProfileDies, Apply, At
  <2>3. AvatarKept'
    BY <2>1, <2>2 DEF Moved, ProfileInv, AvatarKept, AvatarRequests, At
  <2>4. DirectoryToCome'
    BY <2>1, <2>2 DEF Moved, ProfileInv, DirectoryToCome, At
  <2>5. TimerKept'
    BY <2>1, <2>2 DEF Moved, ProfileInv, TimerKept, Patches, At
  <2>6. QED BY <2>1, <2>2, <2>3, <2>4, <2>5 DEF Moved, ProfileInv, ProfileShape
<1>9. ASSUME UNCHANGED requestVars,
             OpenModal \/ CloseModal \/ OpenDashboard \/ CloseDashboard \/ FocusTimePasses
               \/ OnUserUpdated \/ LoseEvent \/ FetchUsers \/ TakeUsers
      PROVE  ProfileInv'
  <2>1. UNCHANGED <<profile, object, proc, torn>>
    BY <1>9
       DEF requestVars, OpenModal, CloseModal, OpenDashboard, CloseDashboard, FocusTimePasses,
           OnUserUpdated, LoseEvent, FetchUsers, TakeUsers
  <2>2. AvatarKept' /\ ProcShape' /\ ProfileShape'
    BY <2>1 DEF ProfileInv, AvatarKept, AvatarRequests, At, ProcShape, ProfileShape
  <2>3. \/ UNCHANGED <<announced, directory, fetched, stale, untold>>
        \/ OnUserUpdated \/ LoseEvent \/ FetchUsers \/ TakeUsers
    BY <1>9 DEF OpenModal, CloseModal, OpenDashboard, CloseDashboard, FocusTimePasses
  <2>4. DirectoryToCome'
    BY <2>1, <2>3
       DEF ProfileInv, DirectoryToCome, At, OnUserUpdated, LoseEvent, FetchUsers, TakeUsers
  <2>5. (unwatched => unwatched') /\ (timer' = timer \/ timer' = "due")
    <3>1. CASE OpenModal \/ CloseModal \/ OpenDashboard \/ OnUserUpdated \/ LoseEvent \/ FetchUsers \/ TakeUsers
      <4>1. UNCHANGED <<unwatched, timer>>
        BY <3>1
           DEF OpenModal, CloseModal, OpenDashboard, OnUserUpdated, LoseEvent, FetchUsers, TakeUsers, profilePages
      <4>2. QED BY <4>1
    <3>2. CASE CloseDashboard
      BY <3>2 DEF CloseDashboard
    <3>3. CASE FocusTimePasses
      BY <3>3 DEF FocusTimePasses
    <3>4. QED BY <1>9, <3>1, <3>2, <3>3
  <2>6. TimerKept'
    BY <2>1, <2>5 DEF ProfileInv, TimerKept, Patches, At
  <2>7. QED BY <2>2, <2>4, <2>6 DEF ProfileInv
<1>10. OpenModal \/ CloseModal \/ OpenDashboard \/ CloseDashboard \/ FocusTimePasses
         \/ OnUserUpdated \/ LoseEvent \/ FetchUsers \/ TakeUsers
       => ProfileInv'
  BY <1>9
     DEF OpenModal, CloseModal, OpenDashboard, CloseDashboard, FocusTimePasses, OnUserUpdated,
         LoseEvent, FetchUsers, TakeUsers
<1>11. QED
  BY <1>1, <1>2, <1>3, <1>4, <1>5, <1>6, <1>7, <1>8, <1>10
     DEF ProfileNext, ProfileModal, HomeDashboard, ProfileController

(* A url has its object, the other page has the user as he is, and focus   *)
(* mode ends with its timer, each but for its named exceptions             *)
(* (profile.controller.ts:37-97, HomeDashboard.tsx:52).                    *)
THEOREM ProfileRightAlways == ProfileSpec => []ProfileRight
<1>1. RequestsInit /\ ProfileInit => ProfileInv
  <2> SUFFICES ASSUME RequestsInit, ProfileInit PROVE ProfileInv
    OBVIOUS
  <2>1. ProcShape /\ \A h \in Handler : proc[h].pc = "idle"
    BY InitShape
  <2>2. PICK a, t : a = FALSE /\ t = "none"
    OBVIOUS
  <2>3. profile = [avatar |-> a, status |-> t]
    BY <2>2 DEF ProfileInit
  <2>4. ProfileShape /\ profile.avatar = FALSE /\ profile.status = "none"
    BY <2>2, <2>3 DEF ProfileShape
  <2>5. QED
    BY <2>1, <2>4
       DEF ProfileInit, ProfileInv, AvatarKept, AvatarRequests, DirectoryToCome, TimerKept, Patches, At
<1>2. ASSUME ProfileInv, [ProfileNext]_<<requestVars, profileVars>> PROVE ProfileInv'
  <2>1. CASE ProfileNext
    BY <1>2, <2>1, ProfileStep
  <2>2. CASE UNCHANGED <<requestVars, profileVars>>
    BY <1>2, <2>2
       DEF requestVars, profileVars, ProfileInv, ProcShape, ProfileShape, AvatarKept, AvatarRequests,
           DirectoryToCome, TimerKept, Patches, At
  <2>3. QED BY <1>2, <2>1, <2>2
<1>3. ProfileInv /\ ProfileTyped => ProfileRight
  <2> SUFFICES ASSUME ProfileInv, ProfileTyped PROVE ProfileRight
    OBVIOUS
  <2>1. AvatarServed
    BY DEF ProfileInv, AvatarKept, AvatarServed, AvatarRequests, At
  <2>2. profile # None
    BY ProfileAssumption DEF ProfileTyped, ProfileTypeOK
  <2>3. DirectoryCurrent
    BY <2>2 DEF ProfileInv, DirectoryToCome, DirectoryCurrent, AllIdle, At
  <2>4. FocusReverts
    BY DEF ProfileInv, TimerKept, FocusReverts, AllIdle, At, Patches
  <2>5. QED BY <2>1, <2>3, <2>4 DEF ProfileRight
<1>4. QED BY <1>1, <1>2, <1>3, ProfileTypedAlways, PTL DEF ProfileSpec

---------------------------------------------------------------------------
(* One channel as its members' pages have it.                              *)

PanelEvent == [kind : {"updated", "left", "removed"}, row : Summary \cup {None}]
HasKind(s, kind) == \E i \in DOMAIN s : s[i].kind = kind

EventFits(e, u) ==
  /\ e \in PanelEvent
  /\ e.kind = "updated" => e.row \in Summary
  /\ e.kind = "left" => e = Plain("left")
  /\ e.kind = "removed" => u \notin belong
InboxFits(s, u) == s \in Seq(PanelEvent) /\ \A i \in DOMAIN s : EventFits(s[i], u)

(* What a request of the panel carries.                                    *)
PanelRequest(h) ==
  /\ proc[h].pc # "idle" => proc[h].user \in User
  /\ proc[h].pc = "update" => proc[h].ref \in Topic
  /\ proc[h].pc \in {"tellUpdate", "starAnswer"} => proc[h].seen \in Summary
  /\ proc[h].pc \in {"remove", "tellLeft"} => proc[h].ref \in User
  /\ proc[h].pc = "tellLeft" => proc[h].ref \notin belong

AnswersFit(u) ==
  /\ answers[<<u, "channels">>] \in {<<>>} \cup {<<r>> : r \in Summary \cup {None}}
  /\ answers[<<u, "members">>] \in {<<>>} \cup {<<s>> : s \in SUBSET User}
  /\ tab[u] = None => <<u, "members">> \notin unfetched /\ answers[<<u, "members">>] = <<>>

PanelShape ==
  /\ ProcShape /\ \A h \in Handler : PanelRequest(h)
  /\ ChannelPanelTypeOK
  /\ inbox = [u \in User |-> inbox[u]]
  /\ \A u \in User : InboxFits(inbox[u], u)
  /\ answers = [q \in User \X Query |-> answers[q]]
  /\ \A u \in User : AnswersFit(u)

(* The star of a user who leaves his settings alone is on all that comes to *)
(* his page from the lists.                                                *)
OwnStar(r, u) == r # None => (r.starred <=> u \in starred)
StarsHold ==
  /\ \A h \in Handler : proc[h].pc \in {"star", "tellStar", "starAnswer"} => proc[h].user \in restless
  /\ \A u \in belong \ restless :
       /\ OwnStar(shownRow[u], u)
       /\ \A r \in Summary : answers[<<u, "channels">>] = <<r>> => (r.starred <=> u \in starred)

Row(u) == IF u \in belong THEN SummaryFor(u) ELSE None

(* A page has the row as it is, or the answer that says it; or it is yet to *)
(* fetch it, or something on its way will make it.                         *)
RowHad(u) ==
  \/ answers[<<u, "channels">>] = <<Row(u)>>
  \/ answers[<<u, "channels">>] = <<>> /\ shownRow[u] = Row(u)

RowToCome(u) ==
  \/ <<u, "channels">> \in unfetched
  \/ HasKind(inbox[u], "updated") \/ HasKind(inbox[u], "left")
  \/ u \in belong /\ \E h \in Handler :
       proc[h].pc \in {"tellUpdate", "tellLeft"} \/ (proc[h].pc = "tellStar" /\ proc[h].user = u)
  \/ \E h \in Handler : proc[h].pc = "tellLeft" /\ proc[h].ref = u

(* The same of the members tab, for a page that was not cut off.           *)
TabHad(u) ==
  \/ tab[u] = None
  \/ answers[<<u, "members">>] = <<belong>>
  \/ answers[<<u, "members">>] = <<>> /\ tab[u] = belong

TabToCome(u) ==
  \/ <<u, "members">> \in unfetched
  \/ HasKind(inbox[u], "left")
  \/ \E h \in Handler : proc[h].pc = "tellLeft"

PageFollows(u) ==
  /\ RowHad(u) \/ RowToCome(u)
  /\ u \in belong \ cutOff => TabHad(u) \/ TabToCome(u)
PagesFollow == \A u \in User \ overtaken : PageFollows(u)

PanelInv == PanelShape /\ StarsHold /\ PagesFollow

(* An event is added to an inbox.                                          *)
LEMMA EventAdded ==
  ASSUME NEW s \in Seq(PanelEvent), NEW e \in PanelEvent
  PROVE  /\ s \o <<e>> = Append(s, e) /\ Append(s, e) \in Seq(PanelEvent)
         /\ \A i \in DOMAIN Append(s, e) : Append(s, e)[i] = e \/ \E j \in DOMAIN s : Append(s, e)[i] = s[j]
         /\ \A kind : HasKind(Append(s, e), kind) <=> (HasKind(s, kind) \/ e.kind = kind)
<1>1. s \o <<e>> = Append(s, e)
  OBVIOUS
<1>2. PICK t : t = Append(s, e)
  OBVIOUS
<1> t \in Seq(PanelEvent)
  BY <1>2
<1>3. /\ DOMAIN t = 1..(Len(s) + 1) /\ DOMAIN s = 1..Len(s) /\ Len(s) \in Nat
      /\ t[Len(s) + 1] = e /\ \A i \in 1..Len(s) : t[i] = s[i]
  BY <1>2
<1>4. \A i \in DOMAIN t : t[i] = e \/ \E j \in DOMAIN s : t[i] = s[j]
  BY <1>3
<1>5. \A kind : HasKind(t, kind) <=> (HasKind(s, kind) \/ e.kind = kind)
  BY <1>3 DEF HasKind
<1>6. QED BY <1>1, <1>2, <1>4, <1>5

(* The first event of an inbox is taken.                                   *)
LEMMA EventTaken ==
  ASSUME NEW s \in Seq(PanelEvent), s # <<>>
  PROVE  /\ Tail(s) \in Seq(PanelEvent) /\ Head(s) = s[1] /\ 1 \in DOMAIN s
         /\ \A i \in DOMAIN Tail(s) : \E j \in DOMAIN s : Tail(s)[i] = s[j]
         /\ \A kind : HasKind(s, kind) <=> (HasKind(Tail(s), kind) \/ Head(s).kind = kind)
<1>1. PICK t : t = Tail(s)
  OBVIOUS
<1> t \in Seq(PanelEvent)
  BY <1>1
<1>2. /\ DOMAIN t = 1..(Len(s) - 1) /\ DOMAIN s = 1..Len(s) /\ Len(s) \in Nat /\ Len(s) > 0
      /\ \A i \in 1..(Len(s) - 1) : t[i] = s[i + 1]
  BY <1>1
<1>3. PICK e : e = Head(s)
  OBVIOUS
<1>4. e = s[1]
  BY <1>3
<1>5. \A i \in DOMAIN t : \E j \in DOMAIN s : t[i] = s[j]
  BY <1>2
<1>6. ASSUME NEW kind PROVE HasKind(s, kind) <=> (HasKind(t, kind) \/ e.kind = kind)
  <2>1. ASSUME NEW i \in DOMAIN s, s[i].kind = kind, i # 1 PROVE HasKind(t, kind)
    <3>1. i - 1 \in DOMAIN t /\ t[i - 1] = s[i]
      BY <1>2, <2>1
    <3>2. QED BY <2>1, <3>1 DEF HasKind
  <2>2. ASSUME NEW i \in DOMAIN t, t[i].kind = kind PROVE HasKind(s, kind)
    BY <1>5, <2>2 DEF HasKind
  <2>3. QED BY <1>2, <1>4, <2>1, <2>2 DEF HasKind
<1>7. QED BY <1>1, <1>2, <1>3, <1>4, <1>5, <1>6

(* What the row of a channel looks like to a user.                         *)
LEMMA SummaryTyped ==
  ASSUME PanelShape, NEW u
  PROVE  SummaryFor(u) \in Summary
<1>1. PICK b \in BOOLEAN : b = (u \in starred)
  <2>1. (u \in starred) \in BOOLEAN
    OBVIOUS
  <2>2. QED BY <2>1, Zenon
<1>2. SummaryFor(u) = [topic |-> topic, members |-> belong, starred |-> b]
  BY <1>1 DEF SummaryFor
<1>3. QED BY <1>2 DEF PanelShape, ChannelPanelTypeOK, Summary

(* An event is told to some of the pages.                                  *)
LEMMA Told ==
  ASSUME PanelShape, NEW users, NEW e, Emit(users, <<e>>), belong' \subseteq belong,
         \A u \in users : EventFits(e, u)
  PROVE  /\ inbox' = [u \in User |-> inbox'[u]]
         /\ \A u \in User : InboxFits(inbox[u], u)'
         /\ \A u \in User : \A kind : HasKind(inbox'[u], kind) <=>
                HasKind(inbox[u], kind) \/ (u \in users /\ e.kind = kind)
<1>1. ASSUME NEW u \in User, u \in users
      PROVE  /\ InboxFits(inbox[u], u)'
             /\ \A kind : HasKind(inbox'[u], kind) <=> HasKind(inbox[u], kind) \/ e.kind = kind
  <2>1. PICK s \in Seq(PanelEvent) : s = inbox[u] /\ \A i \in DOMAIN s : EventFits(s[i], u)
    BY DEF PanelShape, InboxFits
  <2>2. e \in PanelEvent /\ EventFits(e, u)
    BY <1>1 DEF EventFits
  <2>3. inbox'[u] = Append(s, e)
    BY <1>1, <2>1, <2>2, EventAdded DEF Emit
  <2>4. \A i \in DOMAIN inbox'[u] : EventFits(inbox'[u][i], u)
    BY <2>1, <2>2, <2>3, EventAdded
  <2>5. QED BY <2>1, <2>2, <2>3, <2>4, EventAdded DEF InboxFits, EventFits
<1>2. ASSUME NEW u \in User, u \notin users
      PROVE  inbox'[u] = inbox[u] /\ InboxFits(inbox[u], u)'
  BY <1>2 DEF Emit, PanelShape, InboxFits, EventFits
<1>3. QED BY <1>1, <1>2 DEF Emit

(* A removal is told to the one removed and to the room.                   *)
LEMMA LeftTold ==
  ASSUME PanelShape, NEW h \in Handler, TellLeft(h)
  PROVE  /\ inbox' = [u \in User |-> inbox'[u]]
         /\ \A u \in User : InboxFits(inbox[u], u)'
         /\ \A u \in User :
              /\ HasKind(inbox[u], "updated") => HasKind(inbox'[u], "updated")
              /\ HasKind(inbox[u], "left") \/ u \in belong \/ u = proc[h].ref => HasKind(inbox'[u], "left")
              /\ \A g \in Handler : proc[g].pc = "tellLeft" /\ proc[g].ref = u => HasKind(inbox'[u], "left")
<1>1. PICK t \in User : t = proc[h].ref /\ t \notin belong
  BY DEF PanelShape, TellLeft, At, PanelRequest
<1>2. PICK left, removed \in PanelEvent : /\ left = Plain("left") /\ removed = Plain("removed")
                                          /\ left.kind = "left" /\ removed.kind = "removed"
  <2>1. PICK left, removed : left = [kind |-> "left", row |-> None] /\ removed = [kind |-> "removed", row |-> None]
    OBVIOUS
  <2>2. left \in PanelEvent /\ removed \in PanelEvent /\ left.kind = "left" /\ removed.kind = "removed"
    BY <2>1 DEF PanelEvent
  <2>3. QED BY <2>1, <2>2 DEF Plain
<1>3. inbox' = [u \in User |-> IF u = t THEN inbox[u] \o <<left, removed>>
                               ELSE IF u \in InRoom THEN Append(inbox[u], left) ELSE inbox[u]]
  BY <1>1, <1>2 DEF TellLeft
<1>4. belong' = belong
  BY DEF TellLeft, rows
<1>5. ASSUME NEW u \in User
      PROVE  /\ InboxFits(inbox[u], u)'
             /\ HasKind(inbox[u], "updated") => HasKind(inbox'[u], "updated")
             /\ HasKind(inbox[u], "left") \/ u \in InRoom \/ u = t => HasKind(inbox'[u], "left")
  <2>1. PICK s \in Seq(PanelEvent) : s = inbox[u] /\ \A i \in DOMAIN s : EventFits(s[i], u)
    BY DEF PanelShape, InboxFits
  <2>2. EventFits(left, u) /\ (u = t => EventFits(removed, u))
    BY <1>1, <1>2 DEF EventFits
  <2>3. PICK a : a = Append(s, left)
    OBVIOUS
  <2>4. a \in Seq(PanelEvent) /\ (\A i \in DOMAIN a : EventFits(a[i], u)) /\ HasKind(a, "left")
        /\ (HasKind(s, "updated") => HasKind(a, "updated"))
    BY <1>2, <2>1, <2>2, <2>3, EventAdded
  <2>5. CASE u = t
    <3>1. s \o <<left, removed>> = Append(a, removed)
      BY <2>1, <2>3
    <3>2. inbox'[u] = Append(a, removed)
      BY <1>3, <2>1, <2>5, <3>1
    <3>3. \A i \in DOMAIN inbox'[u] : EventFits(inbox'[u][i], u)
      BY <2>2, <2>4, <2>5, <3>2, EventAdded
    <3>4. QED BY <1>4, <2>1, <2>4, <3>2, <3>3, EventAdded DEF InboxFits, EventFits
  <2>6. CASE u # t /\ u \in InRoom
    BY <1>3, <1>4, <2>1, <2>3, <2>4, <2>6 DEF InboxFits, EventFits
  <2>7. CASE u # t /\ u \notin InRoom
    BY <1>3, <1>4, <2>1, <2>7 DEF InboxFits, EventFits
  <2>8. QED BY <2>5, <2>6, <2>7
<1>6. \A u \in User : u \in belong => u \in InRoom
  BY DEF InRoom
<1>7. \A u \in User, g \in Handler : proc[g].pc = "tellLeft" /\ proc[g].ref = u => u \in InRoom
  BY DEF InRoom, At
<1>8. QED BY <1>1, <1>3, <1>5, <1>6, <1>7

(* The other requests go on as they were.                                  *)
LEMMA RequestsCarried ==
  ASSUME PanelShape, NEW h \in Handler, NEW pc, NEW u, NEW ref, NEW seen, Moved(h, pc, u, ref, seen),
         belong' \subseteq belong, PanelRequest(h)'
  PROVE  ProcShape' /\ \A g \in Handler : PanelRequest(g)'
BY DEF PanelShape, Moved, PanelRequest

(* What an invalidation does to each query of each page.                   *)
LEMMA Invalidated ==
  ASSUME PanelShape, NEW u \in User, NEW queries \in SUBSET Query, Invalidate(u, queries)
  PROVE  /\ unfetched' \subseteq User \X Query
         /\ answers' = [q \in User \X Query |-> answers'[q]]
         /\ \A v \in User, query \in Query :
              /\ <<v, query>> \in unfetched' <=> <<v, query>> \in unfetched \/ (v = u /\ query \in queries)
              /\ v = u /\ query \in queries => answers'[<<v, query>>] = <<>>
              /\ ~(v = u /\ query \in queries) => answers'[<<v, query>>] = answers[<<v, query>>]
<1>1. unfetched' \subseteq User \X Query
  BY DEF Invalidate, PanelShape, ChannelPanelTypeOK
<1>2. answers' = [q \in User \X Query |-> answers'[q]]
  BY DEF Invalidate
<1>3. ASSUME NEW v \in User, NEW query \in Query
      PROVE  /\ <<v, query>> \in unfetched' <=> <<v, query>> \in unfetched \/ (v = u /\ query \in queries)
             /\ v = u /\ query \in queries => answers'[<<v, query>>] = <<>>
             /\ ~(v = u /\ query \in queries) => answers'[<<v, query>>] = answers[<<v, query>>]
  <2>1. <<v, query>> \in {u} \X queries <=> v = u /\ query \in queries
    OBVIOUS
  <2>2. <<v, query>> \in User \X Query
    OBVIOUS
  <2>3. QED BY <2>1, <2>2 DEF Invalidate
<1>4. QED BY <1>1, <1>2, <1>3

(* A fetch of the channels that is given up leaves what it should.         *)
LEMMA ChannelsGivenUp ==
  ASSUME PanelShape, NEW u \in User, Invalidate(u, {"channels"}), tab' = tab
  PROVE  \A v \in User : AnswersFit(v)'
<1>1. SUFFICES ASSUME NEW v \in User PROVE AnswersFit(v)'
  OBVIOUS
<1>2. AnswersFit(v) /\ {"channels"} \in SUBSET Query /\ "members" \in Query /\ "channels" \in Query
  BY DEF PanelShape, Query
<1>3. /\ answers'[<<v, "members">>] = answers[<<v, "members">>]
      /\ <<v, "members">> \in unfetched' <=> <<v, "members">> \in unfetched
      /\ answers'[<<v, "channels">>] = answers[<<v, "channels">>] \/ answers'[<<v, "channels">>] = <<>>
  <2>1. "members" \notin {"channels"}
    OBVIOUS
  <2>2. QED BY <1>2, <2>1, Invalidated
<1>4. QED BY <1>2, <1>3 DEF AnswersFit

(* The rows, the pages and the requests of a channel have their types.     *)
LEMMA PanelTypes ==
  ASSUME PanelShape, ChannelPanelNext
  PROVE  PanelShape' /\ belong' \subseteq belong /\ restless \subseteq restless' /\ overtaken \subseteq overtaken'
         /\ cutOff \subseteq cutOff'
<1> DEFINE Grown == /\ belong' \subseteq belong /\ restless \subseteq restless'
                    /\ overtaken \subseteq overtaken' /\ cutOff \subseteq cutOff'
           Goal == PanelShape' /\ Grown
<1>0. /\ ProcShape /\ ChannelPanelTypeOK /\ \A h \in Handler : PanelRequest(h)
      /\ inbox = [u \in User |-> inbox[u]] /\ \A u \in User : InboxFits(inbox[u], u)
      /\ answers = [q \in User \X Query |-> answers[q]] /\ \A u \in User : AnswersFit(u)
  BY DEF PanelShape
<1>1. ASSUME NEW h \in Handler, NEW u \in User, BeginMySettings(h, u) \/ BeginUpdateChannel(h, u)
                                                \/ \E t \in User : BeginRemoveMember(h, u, t)
      PROVE  Goal
  <2>1. UNCHANGED <<rows, inbox, caches, overtaken, cutOff>> /\ (restless' = restless \/ restless' = restless \cup {u})
    BY <1>1 DEF BeginMySettings, BeginUpdateChannel, BeginRemoveMember, channelPanelVars, rows, caches
  <2>2. \/ \E text \in Topic : Begin(h, "update", u, text, None)
        \/ \E ref : Begin(h, "star", u, ref, None)
        \/ \E t \in User : Begin(h, "remove", u, t, None)
    BY <1>1 DEF BeginMySettings, BeginUpdateChannel, BeginRemoveMember
  <2>3. PICK pc, ref : /\ Moved(h, pc, u, ref, None) /\ pc \in {"update", "star", "remove"}
                       /\ pc = "update" => ref \in Topic
                       /\ pc = "remove" => ref \in User
    BY <1>0, <2>2, BeginMoves
  <2>4. PanelRequest(h)'
    BY <2>1, <2>3 DEF Moved, PanelRequest
  <2>5. ProcShape' /\ \A g \in Handler : PanelRequest(g)'
    BY <2>1, <2>3, <2>4, RequestsCarried DEF rows
  <2>6. ChannelPanelTypeOK' /\ Grown
    BY <1>0, <2>1 DEF ChannelPanelTypeOK, rows, caches
  <2>7. /\ \A v \in User : InboxFits(inbox[v], v)' /\ AnswersFit(v)'
    BY <1>0, <2>1 DEF InboxFits, EventFits, AnswersFit, rows, caches
  <2>8. QED BY <1>0, <2>1, <2>5, <2>6, <2>7 DEF PanelShape, caches
<1>2. ASSUME NEW h \in Handler, UpdateTopic(h) PROVE Goal
  <2>1. PICK u \in User, t \in Topic : u = proc[h].user /\ t = proc[h].ref
    BY <1>0, <1>2 DEF UpdateTopic, At, PanelRequest
  <2>2. PICK r : r = [topic |-> t, members |-> belong, starred |-> u \in starred]
    OBVIOUS
  <2>3. r \in Summary
    <3>1. PICK b \in BOOLEAN : b = (u \in starred)
      <4>1. (u \in starred) \in BOOLEAN
        OBVIOUS
      <4>2. QED BY <4>1, Zenon
    <3>2. r = [topic |-> t, members |-> belong, starred |-> b]
      BY <2>2, <3>1
    <3>3. QED BY <1>0, <3>2 DEF Summary, ChannelPanelTypeOK
  <2>4. topic' = t /\ GotoWith(h, "tellUpdate", r) /\ UNCHANGED <<belong, starred, inbox, caches, restless, overtaken, cutOff>>
    BY <1>2, <2>1, <2>2 DEF UpdateTopic
  <2>5. Moved(h, "tellUpdate", u, t, r)
    BY <1>0, <2>1, <2>4, GotoWithMoves
  <2>6. ProcShape' /\ \A g \in Handler : PanelRequest(g)'
    <3>1. PanelRequest(h)'
      BY <2>3, <2>5 DEF Moved, PanelRequest
    <3>2. QED BY <2>4, <2>5, <3>1, RequestsCarried
  <2>7. ChannelPanelTypeOK' /\ Grown
    BY <1>0, <2>4 DEF ChannelPanelTypeOK, caches
  <2>8. /\ \A v \in User : InboxFits(inbox[v], v)' /\ AnswersFit(v)'
    BY <1>0, <2>4 DEF InboxFits, EventFits, AnswersFit, caches
  <2>9. QED BY <1>0, <2>4, <2>6, <2>7, <2>8 DEF PanelShape, caches
<1>3. ASSUME NEW h \in Handler, TellUpdate(h) PROVE Goal
  <2>1. PICK r \in Summary : r = proc[h].seen
    BY <1>0, <1>3 DEF TellUpdate, At, PanelRequest
  <2>2. PICK e : e = [kind |-> "updated", row |-> r]
    OBVIOUS
  <2>3. \A v : EventFits(e, v)
    BY <2>2 DEF EventFits, PanelEvent
  <2>4. Emit(InRoom, <<e>>) /\ UNCHANGED <<rows, caches, restless, overtaken, cutOff>>
    BY <1>3, <2>1, <2>2 DEF TellUpdate, Updated
  <2>5. inbox' = [v \in User |-> inbox'[v]] /\ \A v \in User : InboxFits(inbox[v], v)'
    BY <2>3, <2>4, Told DEF rows
  <2>6. ProcShape' /\ \A g \in Handler : PanelRequest(g)'
    <3>1. Moved(h, "idle", None, None, None)
      BY <1>0, <1>3, FinishMoves DEF TellUpdate
    <3>2. PanelRequest(h)'
      BY <3>1 DEF Moved, PanelRequest
    <3>3. QED BY <2>4, <3>1, <3>2, RequestsCarried DEF rows
  <2>7. ChannelPanelTypeOK' /\ Grown
    BY <1>0, <2>4 DEF ChannelPanelTypeOK, rows, caches
  <2>8. \A v \in User : AnswersFit(v)'
    BY <1>0, <2>4 DEF AnswersFit, caches
  <2>9. QED BY <1>0, <2>4, <2>5, <2>6, <2>7, <2>8 DEF PanelShape, caches
<1>4. ASSUME NEW h \in Handler, SetStar(h) PROVE Goal
  <2>1. PICK u \in User : u = proc[h].user
    BY <1>0, <1>4 DEF SetStar, At, PanelRequest
  <2>2. Moved(h, "tellStar", u, proc[h].ref, proc[h].seen)
    BY <1>0, <1>4, <2>1, GotoMoves DEF SetStar
  <2>3. /\ u \in belong /\ (starred' = starred \cup {u} \/ starred' = starred \ {u})
        /\ UNCHANGED <<topic, belong, inbox, caches, restless, overtaken, cutOff>>
    BY <1>4, <2>1 DEF SetStar
  <2>4. PanelRequest(h)'
    BY <2>2 DEF Moved, PanelRequest
  <2>5. ProcShape' /\ \A g \in Handler : PanelRequest(g)'
    BY <2>2, <2>3, <2>4, RequestsCarried
  <2>6. ChannelPanelTypeOK' /\ Grown
    BY <1>0, <2>3 DEF ChannelPanelTypeOK, caches
  <2>7. /\ \A v \in User : InboxFits(inbox[v], v)' /\ AnswersFit(v)'
    BY <1>0, <2>3 DEF InboxFits, EventFits, AnswersFit, caches
  <2>8. QED BY <1>0, <2>3, <2>5, <2>6, <2>7 DEF PanelShape, caches
<1>5. ASSUME NEW h \in Handler, StarLost(h) \/ RemoveLostRace(h) PROVE Goal
  <2>1. Moved(h, "idle", None, None, None) /\ UNCHANGED channelPanelVars
    BY <1>0, <1>5, FinishMoves DEF StarLost, RemoveLostRace
  <2>2. PanelRequest(h)'
    BY <2>1 DEF Moved, PanelRequest
  <2>3. ProcShape' /\ \A g \in Handler : PanelRequest(g)'
    BY <2>1, <2>2, RequestsCarried DEF channelPanelVars
  <2>4. ChannelPanelTypeOK' /\ Grown
    BY <1>0, <2>1 DEF ChannelPanelTypeOK, channelPanelVars
  <2>5. /\ \A v \in User : InboxFits(inbox[v], v)' /\ AnswersFit(v)'
    BY <1>0, <2>1 DEF InboxFits, EventFits, AnswersFit, channelPanelVars
  <2>6. QED BY <1>0, <2>1, <2>3, <2>4, <2>5 DEF PanelShape, channelPanelVars
<1>6. ASSUME NEW h \in Handler, TellStar(h) PROVE Goal
  <2>1. PICK u \in User : u = proc[h].user
    BY <1>0, <1>6 DEF TellStar, At, PanelRequest
  <2>2. PICK r \in Summary : r = SummaryFor(u)
    BY SummaryTyped
  <2>3. PICK e : e = [kind |-> "updated", row |-> r]
    OBVIOUS
  <2>4. \A v : EventFits(e, v)
    BY <2>3 DEF EventFits, PanelEvent
  <2>5. /\ Emit({u}, <<e>>) /\ GotoWith(h, "starAnswer", r)
        /\ UNCHANGED <<rows, caches, restless, overtaken, cutOff>>
    BY <1>6, <2>1, <2>2, <2>3 DEF TellStar, Updated
  <2>6. inbox' = [v \in User |-> inbox'[v]] /\ \A v \in User : InboxFits(inbox[v], v)'
    BY <2>4, <2>5, Told DEF rows
  <2>7. ProcShape' /\ \A g \in Handler : PanelRequest(g)'
    <3>1. Moved(h, "starAnswer", u, proc[h].ref, r)
      BY <1>0, <2>1, <2>5, GotoWithMoves
    <3>2. PanelRequest(h)'
      BY <3>1 DEF Moved, PanelRequest
    <3>3. QED BY <2>5, <3>1, <3>2, RequestsCarried DEF rows
  <2>8. ChannelPanelTypeOK' /\ Grown
    BY <1>0, <2>5 DEF ChannelPanelTypeOK, rows, caches
  <2>9. \A v \in User : AnswersFit(v)'
    BY <1>0, <2>5 DEF AnswersFit, caches
  <2>10. QED BY <1>0, <2>5, <2>6, <2>7, <2>8, <2>9 DEF PanelShape, caches
<1>7. ASSUME NEW h \in Handler, TakeStar(h) PROVE Goal
  <2>1. PICK u \in User, r \in Summary : u = proc[h].user /\ r = proc[h].seen
    BY <1>0, <1>7 DEF TakeStar, At, PanelRequest
  <2>2. /\ shownRow' = [shownRow EXCEPT ![u] = IF @ = None THEN None ELSE r]
        /\ overtaken' = overtaken \/ overtaken' = overtaken \cup {u}
        /\ UNCHANGED <<rows, tab, inbox, unfetched, answers, restless, cutOff>>
    BY <1>7, <2>1 DEF TakeStar
  <2>3. ProcShape' /\ \A g \in Handler : PanelRequest(g)'
    <3>1. Moved(h, "idle", None, None, None)
      BY <1>0, <1>7, FinishMoves DEF TakeStar
    <3>2. PanelRequest(h)'
      BY <3>1 DEF Moved, PanelRequest
    <3>3. QED BY <2>2, <3>1, <3>2, RequestsCarried DEF rows
  <2>4. ChannelPanelTypeOK' /\ Grown
    BY <1>0, <2>2 DEF ChannelPanelTypeOK, rows
  <2>5. /\ \A v \in User : InboxFits(inbox[v], v)' /\ AnswersFit(v)'
    BY <1>0, <2>2 DEF InboxFits, EventFits, AnswersFit, rows
  <2>6. QED BY <1>0, <2>2, <2>3, <2>4, <2>5 DEF PanelShape
<1>8. ASSUME NEW h \in Handler, DeleteRow(h) PROVE Goal
  <2>1. PICK t \in User : t = proc[h].ref
    BY <1>0, <1>8 DEF DeleteRow, At, PanelRequest
  <2>2. /\ belong' = belong \ {t} /\ starred' = starred \ {t} /\ Goto(h, "tellLeft")
        /\ UNCHANGED <<topic, inbox, caches, restless, overtaken, cutOff>>
    BY <1>8, <2>1 DEF DeleteRow
  <2>3. ProcShape' /\ \A g \in Handler : PanelRequest(g)'
    <3>1. Moved(h, "tellLeft", proc[h].user, t, proc[h].seen) /\ proc[h].user \in User
      BY <1>0, <1>8, <2>1, <2>2, GotoMoves DEF DeleteRow, At, PanelRequest
    <3>2. PanelRequest(h)'
      BY <2>2, <3>1 DEF Moved, PanelRequest
    <3>3. QED BY <2>2, <3>1, <3>2, RequestsCarried
  <2>4. ChannelPanelTypeOK' /\ Grown
    BY <1>0, <2>2 DEF ChannelPanelTypeOK, caches
  <2>5. /\ \A v \in User : InboxFits(inbox[v], v)' /\ AnswersFit(v)'
    BY <1>0, <2>2 DEF InboxFits, EventFits, AnswersFit, caches
  <2>6. QED BY <1>0, <2>2, <2>3, <2>4, <2>5 DEF PanelShape, caches
<1>9. ASSUME NEW h \in Handler, TellLeft(h) PROVE Goal
  <2>1. PICK t \in User : t = proc[h].ref /\ t \notin belong
    BY <1>0, <1>9 DEF TellLeft, At, PanelRequest
  <2>2. Goto(h, "removed") /\ UNCHANGED <<rows, caches, restless, overtaken, cutOff>>
    BY <1>9 DEF TellLeft
  <2>3. inbox' = [v \in User |-> inbox'[v]] /\ \A v \in User : InboxFits(inbox[v], v)'
    BY <1>9, <2>1, LeftTold
  <2>4. ProcShape' /\ \A g \in Handler : PanelRequest(g)'
    <3>1. Moved(h, "removed", proc[h].user, proc[h].ref, proc[h].seen) /\ proc[h].user \in User
      BY <1>0, <1>9, <2>2, GotoMoves DEF TellLeft, At, PanelRequest
    <3>2. PanelRequest(h)'
      BY <3>1 DEF Moved, PanelRequest
    <3>3. QED BY <2>2, <3>1, <3>2, RequestsCarried DEF rows
  <2>5. ChannelPanelTypeOK' /\ Grown
    BY <1>0, <2>2 DEF ChannelPanelTypeOK, rows, caches
  <2>6. \A v \in User : AnswersFit(v)'
    BY <1>0, <2>2 DEF AnswersFit, caches
  <2>7. QED BY <1>0, <2>2, <2>3, <2>4, <2>5, <2>6 DEF PanelShape, caches
<1>10. ASSUME NEW h \in Handler, PanelDies(h) PROVE Goal
  <2>1. Moved(h, "idle", None, None, None)
    BY <1>0, <1>10, FinishMoves DEF PanelDies, Die
  <2>2. UNCHANGED <<rows, inbox, caches, restless, cutOff>> /\ (overtaken' = User \/ overtaken' = overtaken)
    BY <1>10 DEF PanelDies
  <2>3. PanelRequest(h)'
    BY <2>1 DEF Moved, PanelRequest
  <2>4. ProcShape' /\ \A g \in Handler : PanelRequest(g)'
    BY <2>1, <2>2, <2>3, RequestsCarried DEF rows
  <2>5. ChannelPanelTypeOK' /\ Grown
    BY <1>0, <2>2 DEF ChannelPanelTypeOK, rows, caches
  <2>6. /\ \A v \in User : InboxFits(inbox[v], v)' /\ AnswersFit(v)'
    BY <1>0, <2>2 DEF InboxFits, EventFits, AnswersFit, rows, caches
  <2>7. QED BY <1>0, <2>2, <2>4, <2>5, <2>6 DEF PanelShape, caches
<1>11. ASSUME NEW u \in User, OnMembersChanged(u)
       PROVE  /\ shownRow' = shownRow /\ tab' = tab /\ unfetched' \subseteq User \X Query
              /\ answers' = [q \in User \X Query |-> answers'[q]] /\ \A v \in User : AnswersFit(v)'
  <2>1. PICK queries \in SUBSET Query : /\ Invalidate(u, queries) /\ UNCHANGED <<shownRow, tab>>
                                        /\ "members" \in queries => tab[u] # None
    BY <1>11 DEF OnMembersChanged, Query
  <2>2. \A v \in User : AnswersFit(v)'
    BY <1>0, <2>1, Invalidated DEF AnswersFit, Query
  <2>3. QED BY <2>1, <2>2, Invalidated
<1>12. ASSUME NEW h \in Handler, TakeRemoved(h) PROVE Goal
  <2>1. PICK u \in User : u = proc[h].user
    BY <1>0, <1>12 DEF TakeRemoved, At, PanelRequest
  <2>2. /\ OnMembersChanged(u) /\ UNCHANGED <<rows, inbox, restless, overtaken, cutOff>>
    BY <1>12, <2>1 DEF TakeRemoved
  <2>3. ProcShape' /\ \A g \in Handler : PanelRequest(g)'
    <3>1. Moved(h, "idle", None, None, None)
      BY <1>0, <1>12, FinishMoves DEF TakeRemoved
    <3>2. PanelRequest(h)'
      BY <3>1 DEF Moved, PanelRequest
    <3>3. QED BY <2>2, <3>1, <3>2, RequestsCarried DEF rows
  <2>4. ChannelPanelTypeOK' /\ Grown
    BY <1>0, <1>11, <2>2 DEF ChannelPanelTypeOK, rows
  <2>5. \A v \in User : InboxFits(inbox[v], v)'
    BY <1>0, <2>2 DEF InboxFits, EventFits, rows
  <2>6. QED BY <1>0, <1>11, <2>2, <2>3, <2>4, <2>5 DEF PanelShape
<1>13. ASSUME UNCHANGED requestVars, UNCHANGED <<rows, restless>>
       PROVE  ProcShape' /\ (\A g \in Handler : PanelRequest(g)') /\ belong' = belong
              /\ topic' = topic /\ starred' = starred /\ restless' = restless
  BY <1>0, <1>13 DEF requestVars, rows, ProcShape, PanelRequest
<1>14. ASSUME NEW u \in User, TakeEvent(u) PROVE Goal
  <2>0. PICK e : e = Head(inbox[u])
    OBVIOUS
  <2>1. PICK s \in Seq(PanelEvent) :
          /\ e = Head(s) /\ s = inbox[u] /\ s # <<>>
          /\ \A i \in DOMAIN s : EventFits(s[i], u)
    BY <1>0, <1>14, <2>0 DEF TakeEvent, InboxFits
  <2>2. EventFits(e, u)
    BY <2>1, EventTaken
  <2>3. /\ inbox' = [inbox EXCEPT ![u] = Tail(s)]
        /\ UNCHANGED <<rows, restless, overtaken, cutOff, requestVars>>
        /\ \/ e.kind = "updated" /\ OnChannelUpdated(u, e)
           \/ e.kind = "left" /\ OnMembersChanged(u)
           \/ e.kind = "removed" /\ OnRemoved(u)
    BY <1>14, <2>0, <2>1 DEF TakeEvent
  <2>4. inbox' = [v \in User |-> inbox'[v]] /\ \A v \in User : InboxFits(inbox[v], v)'
    <3>1. \A v \in User : v # u => inbox'[v] = inbox[v]
      BY <1>0, <2>3
    <3>2. inbox'[u] = Tail(s)
      BY <1>0, <2>3
    <3>3. InboxFits(inbox[u], u)'
      <4>1. Tail(s) \in Seq(PanelEvent) /\ \A i \in DOMAIN Tail(s) : EventFits(Tail(s)[i], u)
        BY <2>1, EventTaken
      <4>2. belong' = belong
        BY <2>3 DEF rows
      <4>3. QED BY <3>2, <4>1, <4>2 DEF InboxFits, EventFits
    <3>4. QED BY <1>0, <2>3, <3>1, <3>3 DEF InboxFits, EventFits, rows
  <2>5. /\ shownRow' \in [User -> Summary \cup {None}] /\ tab' \in [User -> (SUBSET User) \cup {None}]
        /\ unfetched' \subseteq User \X Query
        /\ answers' = [q \in User \X Query |-> answers'[q]] /\ \A v \in User : AnswersFit(v)'
    <3>1. CASE OnChannelUpdated(u, e) /\ e.kind = "updated"
      <4>1. PICK r \in Summary : r = e.row
        BY <2>2, <3>1 DEF EventFits
      <4>2. /\ shownRow' = [shownRow EXCEPT ![u] = IF @ = None THEN None ELSE [r EXCEPT !.starred = shownRow[u].starred]]
            /\ Invalidate(u, {"channels"}) /\ tab' = tab
        BY <3>1, <4>1 DEF OnChannelUpdated
      <4>3. shownRow[u] # None => [r EXCEPT !.starred = shownRow[u].starred] \in Summary
        BY <1>0 DEF ChannelPanelTypeOK, Summary
      <4>4. shownRow' \in [User -> Summary \cup {None}]
        BY <1>0, <4>2, <4>3 DEF ChannelPanelTypeOK
      <4>5. \A v \in User : AnswersFit(v)'
        BY <4>2, ChannelsGivenUp
      <4>6. QED BY <1>0, <4>2, <4>4, <4>5, Invalidated DEF Query, ChannelPanelTypeOK
    <3>2. CASE OnMembersChanged(u)
      BY <1>0, <1>11, <3>2 DEF ChannelPanelTypeOK
    <3>3. CASE OnRemoved(u)
      <4>1. /\ shownRow' \in [User -> Summary \cup {None}] /\ tab' \in [User -> (SUBSET User) \cup {None}]
            /\ unfetched' \subseteq User \X Query /\ answers' = [q \in User \X Query |-> answers'[q]]
        <5>0. shownRow \in [User -> Summary \cup {None}] /\ tab \in [User -> (SUBSET User) \cup {None}]
          BY <1>0 DEF ChannelPanelTypeOK
        <5>1. shownRow' \in [User -> Summary \cup {None}]
          BY <3>3, <5>0 DEF OnRemoved
        <5>4. tab' \in [User -> (SUBSET User) \cup {None}]
          BY <3>3, <5>0 DEF OnRemoved
        <5>2. unfetched' \subseteq User \X Query
          BY <1>0, <3>3 DEF OnRemoved, ChannelPanelTypeOK
        <5>3. answers' = [q \in User \X Query |-> answers'[q]]
          BY <1>0, <3>3 DEF OnRemoved
        <5>5. QED BY <5>1, <5>2, <5>3, <5>4
      <4>2. ASSUME NEW v \in User PROVE AnswersFit(v)'
        <5>1. AnswersFit(v)
          BY <1>0
        <5>2. /\ answers'[<<v, "channels">>] = answers[<<v, "channels">>]
              /\ answers'[<<v, "members">>] = IF v = u THEN <<>> ELSE answers[<<v, "members">>]
              /\ <<v, "members">> \in unfetched' => v # u /\ <<v, "members">> \in unfetched
              /\ v # u => tab'[v] = tab[v]
          BY <1>0, <3>3 DEF OnRemoved, ChannelPanelTypeOK, Query
        <5>3. QED BY <5>1, <5>2 DEF AnswersFit
      <4>3. QED BY <4>1, <4>2
    <3>4. QED BY <2>3, <3>1, <3>2, <3>3
  <2>6. QED BY <1>0, <1>13, <2>3, <2>4, <2>5 DEF PanelShape, ChannelPanelTypeOK
<1>15. ASSUME NEW u \in User, LoseEvents(u) PROVE Goal
  <2>1. /\ inbox' = [inbox EXCEPT ![u] = <<>>] /\ Invalidate(u, {"channels"})
        /\ UNCHANGED <<rows, shownRow, tab, restless, overtaken, requestVars>>
        /\ cutOff' = cutOff \/ cutOff' = cutOff \cup {u}
    BY <1>15 DEF LoseEvents
  <2>2. inbox' = [v \in User |-> inbox'[v]] /\ \A v \in User : InboxFits(inbox[v], v)'
    BY <1>0, <2>1 DEF InboxFits, EventFits, rows
  <2>3. \A v \in User : AnswersFit(v)'
    BY <2>1, ChannelsGivenUp
  <2>4. QED BY <1>0, <1>13, <2>1, <2>2, <2>3, Invalidated DEF PanelShape, ChannelPanelTypeOK, Query
<1>16. ASSUME NEW u \in User, OpenMembersTab(u) PROVE Goal
  <2>1. /\ tab' = [tab EXCEPT ![u] = {}] /\ Invalidate(u, {"members"})
        /\ UNCHANGED <<rows, shownRow, inbox, restless, overtaken, cutOff, requestVars>>
    BY <1>16 DEF OpenMembersTab
  <2>2. tab' \in [User -> (SUBSET User) \cup {None}]
    BY <1>0, <2>1 DEF ChannelPanelTypeOK
  <2>3. \A v \in User : AnswersFit(v)'
    <3>1. ASSUME NEW v \in User, v # u PROVE AnswersFit(v)'
      BY <1>0, <2>1, <3>1, Invalidated DEF AnswersFit, Query, ChannelPanelTypeOK
    <3>2. {} # None
      BY <1>0, <1>16, ChannelPanelAssumption
    <3>3. AnswersFit(u)'
      BY <1>0, <2>1, <3>2, Invalidated DEF AnswersFit, Query, ChannelPanelTypeOK
    <3>4. QED BY <3>1, <3>3
  <2>4. \A v \in User : InboxFits(inbox[v], v)'
    BY <1>0, <2>1 DEF InboxFits, EventFits, rows
  <2>5. QED BY <1>0, <1>13, <2>1, <2>2, <2>3, <2>4, Invalidated DEF PanelShape, ChannelPanelTypeOK, Query
<1>17. ASSUME NEW u \in User, NEW query \in Query, FetchFor(u, query) PROVE Goal
  <2>1. PICK a : /\ answers' = [answers EXCEPT ![<<u, query>>] = a]
                 /\ query = "channels" => a = <<IF u \in belong THEN SummaryFor(u) ELSE None>>
                 /\ query = "members" => a = IF u \in belong THEN <<belong>> ELSE <<>>
    BY <1>17 DEF FetchFor
  <2>2. /\ unfetched' = unfetched \ {<<u, query>>} /\ <<u, query>> \in unfetched
        /\ UNCHANGED <<rows, shownRow, tab, inbox, restless, overtaken, cutOff, requestVars>>
    BY <1>17 DEF FetchFor
  <2>3. \A v \in User : AnswersFit(v)'
    <3>1. \A v \in User, q \in Query : answers'[<<v, q>>] = IF v = u /\ q = query THEN a ELSE answers[<<v, q>>]
      BY <1>0, <2>1
    <3>2. /\ query = "channels" => a \in {<<r>> : r \in Summary \cup {None}}
          /\ query = "members" => a \in {<<>>} \cup {<<s>> : s \in SUBSET User}
      BY <1>0, <2>1, SummaryTyped DEF ChannelPanelTypeOK
    <3>3. QED BY <1>0, <2>2, <3>1, <3>2 DEF AnswersFit, Query
  <2>4. \A v \in User : InboxFits(inbox[v], v)'
    BY <1>0, <2>2 DEF InboxFits, EventFits, rows
  <2>5. answers' = [q \in User \X Query |-> answers'[q]]
    BY <1>0, <2>1
  <2>6. QED BY <1>0, <1>13, <2>2, <2>3, <2>4, <2>5 DEF PanelShape, ChannelPanelTypeOK
<1>18. ASSUME NEW u \in User, NEW query \in Query, TakeFetched(u, query) PROVE Goal
  <2>1. PICK a : a = answers[<<u, query>>]
    OBVIOUS
  <2>2. /\ a # <<>> /\ answers' = [answers EXCEPT ![<<u, query>>] = <<>>]
        /\ query = "channels" => shownRow' = [shownRow EXCEPT ![u] = a[1]] /\ tab' = tab
        /\ query = "members" => tab' = [tab EXCEPT ![u] = a[1]] /\ shownRow' = shownRow
        /\ UNCHANGED <<rows, inbox, unfetched, restless, overtaken, cutOff, requestVars>>
    BY <1>18, <2>1 DEF TakeFetched
  <2>3. /\ query = "channels" => a[1] \in Summary \cup {None}
        /\ query = "members" => a[1] \in SUBSET User /\ tab[u] # None
    <3>1. AnswersFit(u)
      BY <1>0
    <3>2. CASE query = "channels"
      <4>1. PICK r \in Summary \cup {None} : a = <<r>>
        BY <2>1, <2>2, <3>1, <3>2 DEF AnswersFit
      <4>2. QED BY <3>2, <4>1
    <3>3. CASE query = "members"
      <4>1. PICK s \in SUBSET User : a = <<s>>
        BY <2>1, <2>2, <3>1, <3>3 DEF AnswersFit
      <4>2. tab[u] # None
        BY <2>1, <2>2, <3>1, <3>3 DEF AnswersFit
      <4>3. QED BY <3>3, <4>1, <4>2
    <3>4. QED BY <3>2, <3>3 DEF Query
  <2>4. shownRow' \in [User -> Summary \cup {None}] /\ tab' \in [User -> (SUBSET User) \cup {None}]
    BY <1>0, <2>2, <2>3 DEF ChannelPanelTypeOK, Query
  <2>5. \A v \in User : AnswersFit(v)'
    <3>1. \A v \in User, q \in Query : answers'[<<v, q>>] = IF v = u /\ q = query THEN <<>> ELSE answers[<<v, q>>]
      BY <1>0, <2>2
    <3>2. \A v \in User : tab'[v] = None => tab[v] = None
      BY <1>0, <2>2, <2>3, ChannelPanelAssumption DEF ChannelPanelTypeOK, Query
    <3>3. QED BY <1>0, <2>2, <3>1, <3>2 DEF AnswersFit, Query
  <2>6. \A v \in User : InboxFits(inbox[v], v)'
    BY <1>0, <2>2 DEF InboxFits, EventFits, rows
  <2>7. answers' = [q \in User \X Query |-> answers'[q]]
    BY <1>0, <2>2
  <2>8. QED BY <1>0, <1>13, <2>2, <2>4, <2>5, <2>6, <2>7 DEF PanelShape, ChannelPanelTypeOK
<1>19. QED
  BY <1>1, <1>2, <1>3, <1>4, <1>5, <1>6, <1>7, <1>8, <1>9, <1>10, <1>12, <1>14, <1>15, <1>16, <1>17, <1>18
     DEF ChannelPanelNext, AboutTab, MembersTab, SettingsTab

(* No step puts a star of another's on what a user has of a channel.       *)
LEMMA StarsStep ==
  ASSUME PanelShape, StarsHold, ChannelPanelNext
  PROVE  StarsHold'
<1> DEFINE Asking == \A h \in Handler : proc[h].pc \in {"star", "tellStar", "starAnswer"} => proc[h].user \in restless
           Kept(u) == /\ OwnStar(shownRow[u], u)
                     /\ \A r \in Summary : answers[<<u, "channels">>] = <<r>> => (r.starred <=> u \in starred)
<1>0. /\ ProcShape /\ ChannelPanelTypeOK /\ (\A h \in Handler : PanelRequest(h)) /\ Asking
      /\ (\A u \in belong \ restless : Kept(u)) /\ belong' \subseteq belong /\ restless \subseteq restless'
      /\ belong \subseteq User /\ answers = [q \in User \X Query |-> answers[q]]
      /\ shownRow \in [User -> Summary \cup {None}]
  BY PanelTypes DEF PanelShape, StarsHold, ChannelPanelTypeOK
<1>1. ASSUME NEW h \in Handler, NEW pc, NEW u, NEW ref, NEW seen, Moved(h, pc, u, ref, seen),
             pc \in {"star", "tellStar", "starAnswer"} => u \in restless'
      PROVE  Asking'
  BY <1>0, <1>1 DEF Moved
<1>2. ASSUME \A u \in belong' \ restless' : u \in starred' <=> u \in starred, shownRow' = shownRow, answers' = answers
      PROVE  \A u \in belong' \ restless' : Kept(u)'
  BY <1>0, <1>2 DEF OwnStar
<1>3. ASSUME NEW h \in Handler, NEW u \in User, BeginMySettings(h, u) \/ BeginUpdateChannel(h, u)
                                                \/ \E t \in User : BeginRemoveMember(h, u, t)
      PROVE  StarsHold'
  <2>1. UNCHANGED <<starred, shownRow, answers>>
    BY <1>3 DEF BeginMySettings, BeginUpdateChannel, BeginRemoveMember, channelPanelVars, rows, caches
  <2>2. \/ \E text : Begin(h, "update", u, text, None)
        \/ (\E ref : Begin(h, "star", u, ref, None)) /\ u \in restless'
        \/ \E t : Begin(h, "remove", u, t, None)
    BY <1>3 DEF BeginMySettings, BeginUpdateChannel, BeginRemoveMember
  <2>3. PICK pc, ref : Moved(h, pc, u, ref, None) /\ pc \in {"update", "star", "remove"} /\ (pc = "star" => u \in restless')
    BY <1>0, <2>2, BeginMoves
  <2>4. Asking'
    BY <1>1, <2>3
  <2>5. QED BY <1>2, <2>1, <2>4 DEF StarsHold
<1>4. ASSUME NEW h \in Handler, UpdateTopic(h) PROVE StarsHold'
  <2>1. PICK r : GotoWith(h, "tellUpdate", r)
    BY <1>4 DEF UpdateTopic
  <2>2. UNCHANGED <<starred, shownRow, answers>>
    BY <1>4 DEF UpdateTopic, caches
  <2>3. Asking'
    BY <1>0, <1>1, <2>1, GotoWithMoves
  <2>4. QED BY <1>2, <2>2, <2>3 DEF StarsHold
<1>5. ASSUME NEW h \in Handler, TellUpdate(h) \/ StarLost(h) \/ RemoveLostRace(h) \/ PanelDies(h) PROVE StarsHold'
  <2>1. Finish(h) /\ UNCHANGED <<starred, shownRow, answers>>
    BY <1>5 DEF TellUpdate, StarLost, RemoveLostRace, PanelDies, Die, rows, caches, channelPanelVars
  <2>2. Asking'
    BY <1>0, <1>1, <2>1, FinishMoves
  <2>3. QED BY <1>2, <2>1, <2>2 DEF StarsHold
<1>6. ASSUME NEW h \in Handler, SetStar(h) PROVE StarsHold'
  <2>1. PICK u \in User : u = proc[h].user /\ u \in restless
    BY <1>0, <1>6 DEF SetStar, At, PanelRequest
  <2>2. /\ starred' = starred \cup {u} \/ starred' = starred \ {u}
        /\ UNCHANGED <<shownRow, answers>> /\ Goto(h, "tellStar")
    BY <1>6, <2>1 DEF SetStar, caches
  <2>3. Asking'
    BY <1>0, <1>1, <2>1, <2>2, GotoMoves
  <2>4. \A v \in belong' \ restless' : v \in starred' <=> v \in starred
    BY <1>0, <2>1, <2>2
  <2>5. QED BY <1>2, <2>2, <2>3, <2>4 DEF StarsHold
<1>7. ASSUME NEW h \in Handler, TellStar(h) PROVE StarsHold'
  <2>1. PICK r : GotoWith(h, "starAnswer", r)
    BY <1>7 DEF TellStar
  <2>2. proc[h].user \in restless /\ UNCHANGED <<starred, shownRow, answers>>
    BY <1>0, <1>7 DEF TellStar, At, rows, caches
  <2>3. Asking'
    BY <1>0, <1>1, <2>1, <2>2, GotoWithMoves
  <2>4. QED BY <1>2, <2>2, <2>3 DEF StarsHold
<1>8. ASSUME NEW h \in Handler, TakeStar(h) PROVE StarsHold'
  <2>1. PICK u \in User : u = proc[h].user /\ u \in restless
    BY <1>0, <1>8 DEF TakeStar, At, PanelRequest
  <2>2. UNCHANGED <<starred, answers>> /\ Finish(h) /\ \A v \in User : v # u => shownRow'[v] = shownRow[v]
    BY <1>0, <1>8, <2>1 DEF TakeStar, rows
  <2>3. Asking'
    BY <1>0, <1>1, <2>2, FinishMoves
  <2>4. \A v \in belong' \ restless' : Kept(v)'
    BY <1>0, <2>1, <2>2 DEF OwnStar
  <2>5. QED BY <2>3, <2>4 DEF StarsHold
<1>9. ASSUME NEW h \in Handler, DeleteRow(h) PROVE StarsHold'
  <2>1. PICK t : t = proc[h].ref
    OBVIOUS
  <2>2. belong' = belong \ {t} /\ starred' = starred \ {t} /\ Goto(h, "tellLeft") /\ UNCHANGED <<shownRow, answers>>
    BY <1>9, <2>1 DEF DeleteRow, caches
  <2>3. Asking'
    BY <1>0, <1>1, <2>2, GotoMoves
  <2>4. QED BY <1>2, <2>2, <2>3 DEF StarsHold
<1>10. ASSUME NEW h \in Handler, TellLeft(h) PROVE StarsHold'
  <2>1. Goto(h, "removed") /\ UNCHANGED <<starred, shownRow, answers>>
    BY <1>10 DEF TellLeft, rows, caches
  <2>2. Asking'
    BY <1>0, <1>1, <2>1, GotoMoves
  <2>3. QED BY <1>2, <2>1, <2>2 DEF StarsHold
<1>11. ASSUME NEW u \in User, NEW queries \in SUBSET Query, Invalidate(u, queries), starred' = starred,
              \A v \in User : shownRow'[v] = shownRow[v] \/ shownRow'[v] = None
                              \/ (shownRow[v] # None /\ (shownRow'[v].starred <=> shownRow[v].starred))
       PROVE  \A v \in belong' \ restless' : Kept(v)'
  <2>1. SUFFICES ASSUME NEW v \in belong' \ restless' PROVE Kept(v)'
    OBVIOUS
  <2>2. v \in User /\ Kept(v) /\ "channels" \in Query
    BY <1>0 DEF Query
  <2>3. answers'[<<v, "channels">>] = answers[<<v, "channels">>] \/ answers'[<<v, "channels">>] = <<>>
    BY <1>11, <2>2, Invalidated
  <2>4. \A r : <<r>> # <<>>
    OBVIOUS
  <2>5. QED BY <1>11, <2>2, <2>3, <2>4 DEF OwnStar
<1>12. ASSUME NEW h \in Handler, TakeRemoved(h) PROVE StarsHold'
  <2>1. PICK u \in User : u = proc[h].user
    BY <1>0, <1>12 DEF TakeRemoved, At, PanelRequest
  <2>2. PICK queries \in SUBSET Query : /\ Invalidate(u, queries) /\ UNCHANGED <<shownRow, starred>> /\ Finish(h)
    BY <1>12, <2>1 DEF TakeRemoved, OnMembersChanged, Query, rows
  <2>3. Asking'
    BY <1>0, <1>1, <2>2, FinishMoves
  <2>4. QED BY <1>11, <2>2, <2>3 DEF StarsHold
<1>13. ASSUME UNCHANGED <<proc, restless>> PROVE Asking'
  BY <1>0, <1>13
<1>14. ASSUME NEW u \in User, TakeEvent(u) PROVE StarsHold'
  <2>1. UNCHANGED <<starred, proc, restless>>
    BY <1>14 DEF TakeEvent, rows, requestVars
  <2>2. PICK e : /\ e = Head(inbox[u])
                 /\ \/ e.kind = "updated" /\ OnChannelUpdated(u, e)
                    \/ OnMembersChanged(u) \/ OnRemoved(u)
    BY <1>14 DEF TakeEvent
  <2>3. CASE e.kind = "updated" /\ OnChannelUpdated(u, e)
    <3>1. PICK s \in Seq(PanelEvent) : s = inbox[u] /\ s # <<>> /\ \A i \in DOMAIN s : EventFits(s[i], u)
      BY <1>14 DEF PanelShape, InboxFits, TakeEvent
    <3>2. EventFits(e, u)
      BY <2>2, <3>1, EventTaken
    <3>3. PICK r \in Summary : r = e.row
      BY <2>3, <3>2 DEF EventFits
    <3>4. /\ shownRow' = [shownRow EXCEPT ![u] = IF @ = None THEN None ELSE [r EXCEPT !.starred = shownRow[u].starred]]
          /\ Invalidate(u, {"channels"})
      BY <2>3, <3>3 DEF OnChannelUpdated
    <3>5. shownRow[u] = None => shownRow'[u] = None
      BY <1>0, <3>4
    <3>6. shownRow[u] # None => (shownRow'[u].starred <=> shownRow[u].starred)
      BY <1>0, <3>4 DEF Summary
    <3>7. \A v \in User : v # u => shownRow'[v] = shownRow[v]
      BY <1>0, <3>4
    <3>8. \A v \in User : shownRow'[v] = shownRow[v] \/ shownRow'[v] = None
                          \/ (shownRow[v] # None /\ (shownRow'[v].starred <=> shownRow[v].starred))
      BY <3>5, <3>6, <3>7
    <3>9. {"channels"} \in SUBSET Query
      BY DEF Query
    <3>10. QED BY <1>11, <1>13, <2>1, <3>4, <3>8, <3>9 DEF StarsHold
  <2>4. CASE OnMembersChanged(u)
    <3>1. PICK queries \in SUBSET Query : Invalidate(u, queries) /\ shownRow' = shownRow
      BY <2>4 DEF OnMembersChanged, Query
    <3>2. QED BY <1>11, <1>13, <2>1, <3>1 DEF StarsHold
  <2>5. CASE OnRemoved(u)
    <3>1. \A v \in User : (shownRow'[v] = shownRow[v] \/ shownRow'[v] = None)
                          /\ answers'[<<v, "channels">>] = answers[<<v, "channels">>]
      BY <1>0, <2>5 DEF OnRemoved, Query
    <3>2. \A v \in belong' \ restless' : Kept(v)'
      BY <1>0, <2>1, <3>1 DEF OwnStar
    <3>3. QED BY <1>13, <2>1, <3>2 DEF StarsHold
  <2>6. QED BY <2>2, <2>3, <2>4, <2>5
<1>15. ASSUME NEW u \in User, LoseEvents(u) \/ OpenMembersTab(u) PROVE StarsHold'
  <2>1. UNCHANGED <<starred, proc, restless, shownRow>>
    BY <1>15 DEF LoseEvents, OpenMembersTab, rows, requestVars
  <2>2. PICK queries \in SUBSET Query : Invalidate(u, queries)
    BY <1>15 DEF LoseEvents, OpenMembersTab, Query
  <2>3. QED BY <1>11, <1>13, <2>1, <2>2 DEF StarsHold
<1>16. ASSUME NEW u \in User, NEW query \in Query, FetchFor(u, query) PROVE StarsHold'
  <2>1. UNCHANGED <<starred, belong, proc, restless, shownRow>>
    BY <1>16 DEF FetchFor, rows, requestVars
  <2>2. PICK a : /\ answers' = [answers EXCEPT ![<<u, query>>] = a]
                 /\ query = "channels" => a = <<IF u \in belong THEN SummaryFor(u) ELSE None>>
    BY <1>16 DEF FetchFor
  <2>3. \A v \in User : answers'[<<v, "channels">>] = IF v = u /\ query = "channels" THEN a ELSE answers[<<v, "channels">>]
    BY <1>0, <2>2 DEF Query
  <2>4. SummaryFor(u).starred <=> u \in starred
    BY DEF SummaryFor
  <2>5. \A v \in belong' \ restless' : Kept(v)'
    <3>1. SUFFICES ASSUME NEW v \in belong' \ restless' PROVE Kept(v)'
      OBVIOUS
    <3>2. v \in User /\ Kept(v) /\ v \in belong
      BY <1>0
    <3>3. ASSUME NEW r \in Summary, answers'[<<v, "channels">>] = <<r>> PROVE r.starred <=> v \in starred'
      <4>1. CASE v = u /\ query = "channels"
        BY <2>1, <2>2, <2>3, <2>4, <3>2, <3>3, <4>1
      <4>2. CASE ~(v = u /\ query = "channels")
        BY <2>1, <2>3, <3>2, <3>3, <4>2
      <4>3. QED BY <4>1, <4>2
    <3>4. QED BY <2>1, <3>2, <3>3 DEF OwnStar
  <2>6. QED BY <1>13, <2>1, <2>5 DEF StarsHold
<1>17. ASSUME NEW u \in User, NEW query \in Query, TakeFetched(u, query) PROVE StarsHold'
  <2>1. UNCHANGED <<starred, proc, restless>>
    BY <1>17 DEF TakeFetched, rows, requestVars
  <2>2. PICK a : a = answers[<<u, query>>]
    OBVIOUS
  <2>3. /\ a # <<>> /\ answers' = [answers EXCEPT ![<<u, query>>] = <<>>]
        /\ query = "channels" => shownRow' = [shownRow EXCEPT ![u] = a[1]]
        /\ query = "members" => shownRow' = shownRow
    BY <1>17, <2>2 DEF TakeFetched
  <2>4. \A v \in belong' \ restless' : Kept(v)'
    <3>1. SUFFICES ASSUME NEW v \in belong' \ restless' PROVE Kept(v)'
      OBVIOUS
    <3>2. v \in User /\ Kept(v) /\ v \in belong
      BY <1>0
    <3>3. \A r : <<r>> # <<>>
      OBVIOUS
    <3>4. answers'[<<v, "channels">>] = <<>> \/ answers'[<<v, "channels">>] = answers[<<v, "channels">>]
      BY <1>0, <2>3, <3>2 DEF Query
    <3>5. OwnStar(shownRow'[v], v)
      <4>1. CASE v = u /\ query = "channels"
        <5>1. PICK r \in Summary \cup {None} : a = <<r>>
          BY <2>2, <2>3, <4>1 DEF PanelShape, AnswersFit
        <5>2. shownRow'[v] = r
          BY <1>0, <2>3, <3>2, <4>1, <5>1
        <5>3. QED BY <2>2, <3>2, <4>1, <5>1, <5>2 DEF OwnStar
      <4>2. CASE ~(v = u /\ query = "channels")
        BY <1>0, <2>3, <3>2, <4>2 DEF Query
      <4>3. QED BY <4>1, <4>2
    <3>6. QED BY <2>1, <3>2, <3>3, <3>4, <3>5 DEF OwnStar
  <2>5. QED BY <1>13, <2>1, <2>4 DEF StarsHold
<1>18. QED
  BY <1>3, <1>4, <1>5, <1>6, <1>7, <1>8, <1>9, <1>10, <1>12, <1>14, <1>15, <1>16, <1>17
     DEF ChannelPanelNext, AboutTab, MembersTab, SettingsTab

(* A page nothing happens to, while no request that is to tell it does.    *)
LEMMA PageKept ==
  ASSUME NEW u \in User, PageFollows(u), belong' = belong, Row(u)' = Row(u), cutOff \subseteq cutOff',
         \A query \in Query : /\ answers'[<<u, query>>] = answers[<<u, query>>]
                              /\ <<u, query>> \in unfetched => <<u, query>> \in unfetched',
         shownRow'[u] = shownRow[u], tab'[u] = tab[u],
         \A kind : HasKind(inbox[u], kind) => HasKind(inbox'[u], kind),
         \A g \in Handler : proc[g].pc \in {"tellUpdate", "tellStar", "tellLeft"} => proc'[g] = proc[g]
  PROVE  PageFollows(u)'
<1>1. "channels" \in Query /\ "members" \in Query
  BY DEF Query
<1>2. PICK row : row = Row(u) /\ row = Row(u)'
  OBVIOUS
<1>3. RowHad(u) => RowHad(u)'
  BY <1>1, <1>2 DEF RowHad
<1>4. RowToCome(u) => RowToCome(u)'
  BY <1>1 DEF RowToCome
<1>5. (TabHad(u) => TabHad(u)') /\ (TabToCome(u) => TabToCome(u)')
  BY <1>1 DEF TabHad, TabToCome
<1>6. QED BY <1>3, <1>4, <1>5 DEF PageFollows

(* Steps of a request that is not about to tell, on none of the rows.      *)
LEMMA PagesQuiet ==
  ASSUME PanelShape, PagesFollow, NEW h \in Handler, NEW pc, NEW u, NEW ref, NEW seen,
         Moved(h, pc, u, ref, seen), proc[h].pc \notin {"tellUpdate", "tellStar", "tellLeft"},
         UNCHANGED <<rows, inbox, caches>>, overtaken \subseteq overtaken', cutOff \subseteq cutOff'
  PROVE  PagesFollow'
<1>1. SUFFICES ASSUME NEW v \in User \ overtaken' PROVE PageFollows(v)'
  BY DEF PagesFollow
<1>2. v \in User /\ PageFollows(v) /\ UNCHANGED <<belong, starred, topic, inbox, shownRow, tab, answers, unfetched>>
  BY DEF PagesFollow, rows, caches
<1>3. Row(v)' = Row(v)
  BY <1>2 DEF Row, SummaryFor
<1>4. \A g \in Handler : proc[g].pc \in {"tellUpdate", "tellStar", "tellLeft"} => proc'[g] = proc[g]
  BY DEF Moved
<1>5. QED BY <1>2, <1>3, <1>4, PageKept

(* What the requests do to the rows, and what they tell.                   *)
LEMMA PanelRequestsStep ==
  ASSUME PanelShape, PagesFollow, NEW h \in Handler,
         \/ UpdateTopic(h) \/ TellUpdate(h) \/ SetStar(h) \/ TellStar(h) \/ TakeStar(h)
         \/ DeleteRow(h) \/ TellLeft(h),
         overtaken \subseteq overtaken', cutOff \subseteq cutOff'
  PROVE  PagesFollow'
<1>0. /\ ProcShape /\ PanelRequest(h) /\ belong \subseteq User
  BY DEF PanelShape, ChannelPanelTypeOK
<1> SUFFICES ASSUME NEW v \in User \ overtaken' PROVE PageFollows(v)'
  BY DEF PagesFollow
<1> v \in User /\ PageFollows(v)
  BY DEF PagesFollow
<1>1. CASE UpdateTopic(h)
  <2>1. PICK r : GotoWith(h, "tellUpdate", r)
    BY <1>1 DEF UpdateTopic
  <2>2. proc[h].pc = "update" /\ Moved(h, "tellUpdate", proc[h].user, proc[h].ref, r)
        /\ UNCHANGED <<belong, starred, inbox, shownRow, tab, unfetched, answers, overtaken, cutOff>>
    BY <1>0, <1>1, <2>1, GotoWithMoves DEF UpdateTopic, At, caches
  <2>3. \A g \in Handler : proc[g].pc \in {"tellUpdate", "tellStar", "tellLeft"} => proc'[g] = proc[g]
    BY <2>2 DEF Moved
  <2>4. CASE v \notin belong
    <3>1. Row(v)' = Row(v)
      BY <2>2, <2>4 DEF Row
    <3>2. QED BY <2>2, <2>3, <3>1, PageKept
  <2>5. CASE v \in belong
    <3>1. RowToCome(v)'
      BY <2>2, <2>5 DEF RowToCome, Moved
    <3>2. (TabHad(v) => TabHad(v)') /\ (TabToCome(v) => TabToCome(v)')
      BY <2>2, <2>3 DEF TabHad, TabToCome
    <3>3. QED BY <2>2, <2>5, <3>1, <3>2 DEF PageFollows
  <2>6. QED BY <2>4, <2>5
<1>2. CASE SetStar(h)
  <2>1. PICK w \in User : w = proc[h].user
    BY <1>0, <1>2 DEF SetStar, At, PanelRequest
  <2>2. /\ proc[h].pc = "star" /\ Moved(h, "tellStar", w, proc[h].ref, proc[h].seen) /\ w \in belong
        /\ UNCHANGED <<topic, belong, inbox, shownRow, tab, unfetched, answers, overtaken, cutOff>>
        /\ starred' = starred \cup {w} \/ starred' = starred \ {w}
    BY <1>0, <1>2, <2>1, GotoMoves DEF SetStar, At, caches
  <2>3. \A g \in Handler : proc[g].pc \in {"tellUpdate", "tellStar", "tellLeft"} => proc'[g] = proc[g]
    BY <2>2 DEF Moved
  <2>4. CASE v # w
    <3>1. PICK b, c \in BOOLEAN : b = (v \in starred) /\ c = (v \in starred)'
      <4>1. (v \in starred) \in BOOLEAN /\ (v \in starred)' \in BOOLEAN
        OBVIOUS
      <4>2. QED BY <4>1, Zenon
    <3>2. b <=> c
      BY <2>2, <2>4, <3>1
    <3>3. Row(v)' = Row(v)
      <4>1. b = c
        BY <3>2
      <4>2. SummaryFor(v) = [topic |-> topic, members |-> belong, starred |-> b]
        BY <3>1 DEF SummaryFor
      <4>3. SummaryFor(v)' = [topic |-> topic', members |-> belong', starred |-> c]
        BY <3>1 DEF SummaryFor
      <4>4. QED BY <2>2, <4>1, <4>2, <4>3 DEF Row
    <3>4. QED BY <2>2, <2>3, <3>3, PageKept
  <2>5. CASE v = w
    <3>1. RowToCome(v)'
      BY <2>2, <2>5 DEF RowToCome, Moved
    <3>2. (TabHad(v) => TabHad(v)') /\ (TabToCome(v) => TabToCome(v)')
      BY <2>2, <2>3 DEF TabHad, TabToCome
    <3>3. QED BY <2>2, <2>5, <3>1, <3>2 DEF PageFollows
  <2>6. QED BY <2>4, <2>5
<1>3. CASE DeleteRow(h)
  <2>1. PICK t \in User : t = proc[h].ref
    BY <1>0, <1>3 DEF DeleteRow, At, PanelRequest
  <2>2. /\ proc[h].pc = "remove" /\ Moved(h, "tellLeft", proc[h].user, t, proc[h].seen)
        /\ UNCHANGED <<topic, inbox, shownRow, tab, unfetched, answers, overtaken, cutOff>>
        /\ belong' = belong \ {t}
    BY <1>0, <1>3, <2>1, GotoMoves DEF DeleteRow, At, caches
  <2>3. proc'[h].pc = "tellLeft" /\ proc'[h].ref = t
    BY <2>2 DEF Moved
  <2>4. CASE v \in belong' \/ v = t
    <3>1. RowToCome(v)'
      BY <2>3, <2>4 DEF RowToCome
    <3>2. TabToCome(v)'
      BY <2>3 DEF TabToCome
    <3>3. QED BY <3>1, <3>2 DEF PageFollows
  <2>5. CASE v \notin belong' /\ v # t
    <3>1. v \notin belong /\ Row(v)' = None /\ Row(v) = None
      BY <2>2, <2>5 DEF Row
    <3>2. RowHad(v) => RowHad(v)'
      BY <2>2, <3>1 DEF RowHad
    <3>3. RowToCome(v) => RowToCome(v)'
      BY <2>2, <3>1 DEF RowToCome, Moved
    <3>4. QED BY <2>5, <3>2, <3>3 DEF PageFollows
  <2>6. QED BY <2>4, <2>5
<1>4. CASE TellUpdate(h)
  <2>1. PICK r \in Summary : r = proc[h].seen
    BY <1>0, <1>4 DEF TellUpdate, At, PanelRequest
  <2>2. PICK e : e = [kind |-> "updated", row |-> r]
    OBVIOUS
  <2>3. e.kind = "updated" /\ \A w : EventFits(e, w)
    BY <2>2 DEF EventFits, PanelEvent
  <2>4. /\ Emit(InRoom, <<e>>) /\ UNCHANGED <<topic, belong, starred, shownRow, tab, unfetched, answers, overtaken, cutOff>>
        /\ proc[h].pc = "tellUpdate" /\ Moved(h, "idle", None, None, None)
    BY <1>0, <1>4, <2>1, <2>2, FinishMoves DEF TellUpdate, Updated, At, rows, caches
  <2>5. \A kind : HasKind(inbox'[v], kind) <=> HasKind(inbox[v], kind) \/ (v \in InRoom /\ e.kind = kind)
    BY <2>3, <2>4, Told
  <2>6. Row(v)' = Row(v)
    BY <2>4 DEF Row, SummaryFor
  <2>7. RowHad(v) => RowHad(v)'
    BY <2>4, <2>6 DEF RowHad
  <2>8. RowToCome(v) => RowToCome(v)'
    <3>1. CASE v \in belong
      <4>1. v \in InRoom
        BY <3>1 DEF InRoom
      <4>2. HasKind(inbox'[v], "updated")
        BY <2>3, <2>5, <4>1
      <4>3. QED BY <4>2 DEF RowToCome
    <3>2. CASE v \notin belong
      <4>1. \A g \in Handler : proc[g].pc = "tellLeft" => proc'[g] = proc[g]
        BY <2>4 DEF Moved
      <4>2. QED BY <2>4, <2>5, <3>2, <4>1 DEF RowToCome
    <3>3. QED BY <3>1, <3>2
  <2>9. (TabHad(v) => TabHad(v)') /\ (TabToCome(v) => TabToCome(v)')
    <3>1. \A g \in Handler : proc[g].pc = "tellLeft" => proc'[g] = proc[g]
      BY <2>4 DEF Moved
    <3>2. QED BY <2>4, <2>5, <3>1 DEF TabHad, TabToCome
  <2>10. QED BY <2>4, <2>7, <2>8, <2>9 DEF PageFollows
<1>5. CASE TellStar(h)
  <2>1. PICK w \in User : w = proc[h].user
    BY <1>0, <1>5 DEF TellStar, At, PanelRequest
  <2>2. PICK r \in Summary : r = SummaryFor(w)
    BY SummaryTyped
  <2>3. PICK e : e = [kind |-> "updated", row |-> r]
    OBVIOUS
  <2>4. e.kind = "updated" /\ \A x : EventFits(e, x)
    BY <2>3 DEF EventFits, PanelEvent
  <2>5. /\ Emit({w}, <<e>>) /\ UNCHANGED <<topic, belong, starred, shownRow, tab, unfetched, answers, overtaken, cutOff>>
        /\ proc[h].pc = "tellStar" /\ Moved(h, "starAnswer", w, proc[h].ref, r)
    BY <1>0, <1>5, <2>1, <2>2, <2>3, GotoWithMoves DEF TellStar, Updated, At, rows, caches
  <2>6. \A kind : HasKind(inbox'[v], kind) <=> HasKind(inbox[v], kind) \/ (v \in {w} /\ e.kind = kind)
    BY <2>4, <2>5, Told
  <2>7. Row(v)' = Row(v)
    BY <2>5 DEF Row, SummaryFor
  <2>8. RowHad(v) => RowHad(v)'
    BY <2>5, <2>7 DEF RowHad
  <2>9. RowToCome(v) => RowToCome(v)'
    <3>1. CASE v = w
      BY <2>4, <2>6, <3>1 DEF RowToCome
    <3>2. CASE v # w
      <4>1. \A g \in Handler : proc[g].pc \in {"tellUpdate", "tellLeft"} \/ proc[g].user = v => g # h \/ proc[g].pc # "tellStar"
        BY <2>1, <2>5, <3>2
      <4>2. \A g \in Handler : g # h => proc'[g] = proc[g]
        BY <2>5 DEF Moved
      <4>3. QED BY <2>1, <2>5, <2>6, <3>2, <4>2 DEF RowToCome
    <3>3. QED BY <3>1, <3>2
  <2>10. (TabHad(v) => TabHad(v)') /\ (TabToCome(v) => TabToCome(v)')
    <3>1. \A g \in Handler : proc[g].pc = "tellLeft" => proc'[g] = proc[g]
      BY <2>5 DEF Moved
    <3>2. QED BY <2>5, <2>6, <3>1 DEF TabHad, TabToCome
  <2>11. QED BY <2>5, <2>8, <2>9, <2>10 DEF PageFollows
<1>6. CASE TellLeft(h)
  <2>1. /\ proc[h].pc = "tellLeft" /\ Moved(h, "removed", proc[h].user, proc[h].ref, proc[h].seen)
        /\ UNCHANGED <<topic, belong, starred, shownRow, tab, unfetched, answers, overtaken, cutOff>>
    BY <1>0, <1>6, GotoMoves DEF TellLeft, At, rows, caches
  <2>2. /\ HasKind(inbox[v], "updated") => HasKind(inbox'[v], "updated")
        /\ HasKind(inbox[v], "left") \/ v \in belong \/ v = proc[h].ref => HasKind(inbox'[v], "left")
        /\ \A g \in Handler : proc[g].pc = "tellLeft" /\ proc[g].ref = v => HasKind(inbox'[v], "left")
    BY <1>6, LeftTold
  <2>3. Row(v)' = Row(v)
    BY <2>1 DEF Row, SummaryFor
  <2>4. RowHad(v) => RowHad(v)'
    BY <2>1, <2>3 DEF RowHad
  <2>5. RowToCome(v) => RowToCome(v)'
    BY <2>1, <2>2 DEF RowToCome
  <2>6. v \in belong => TabToCome(v)'
    BY <2>2 DEF TabToCome
  <2>7. QED BY <2>1, <2>4, <2>5, <2>6 DEF PageFollows
<1>7. CASE TakeStar(h)
  <2>1. PICK w, r : w \in User /\ w = proc[h].user /\ r = proc[h].seen
    BY <1>0, <1>7 DEF TakeStar, At, PanelRequest
  <2>2. /\ shownRow' = [shownRow EXCEPT ![w] = IF @ = None THEN None ELSE r]
        /\ r # SummaryFor(w) => w \in overtaken'
        /\ UNCHANGED <<topic, belong, starred, tab, inbox, unfetched, answers, cutOff>>
        /\ proc[h].pc = "starAnswer" /\ Moved(h, "idle", None, None, None)
    BY <1>0, <1>7, <2>1, FinishMoves DEF TakeStar, At, rows
  <2>3. Row(v)' = Row(v)
    BY <2>2 DEF Row, SummaryFor
  <2>4. RowHad(v) => RowHad(v)'
    <3>1. shownRow[v] = Row(v) => shownRow'[v] = Row(v)
      BY <2>2 DEF Row, PanelShape, ChannelPanelTypeOK
    <3>2. QED BY <2>2, <2>3, <3>1 DEF RowHad
  <2>5. RowToCome(v) => RowToCome(v)'
    BY <2>2 DEF RowToCome, Moved
  <2>6. (TabHad(v) => TabHad(v)') /\ (TabToCome(v) => TabToCome(v)')
    BY <2>2 DEF TabHad, TabToCome, Moved
  <2>7. QED BY <2>2, <2>4, <2>5, <2>6 DEF PageFollows
<1>8. QED BY <1>1, <1>2, <1>3, <1>4, <1>5, <1>6, <1>7

(* What a page does with what comes to it.                                 *)
LEMMA PanelPagesStep ==
  ASSUME PanelShape, PagesFollow, NEW u \in User,
         \/ TakeEvent(u) \/ LoseEvents(u) \/ OpenMembersTab(u)
         \/ (\E h \in Handler : TakeRemoved(h) /\ proc[h].user = u)
         \/ \E query \in Query : FetchFor(u, query) \/ TakeFetched(u, query)
  PROVE  PagesFollow'
<1>0. /\ ProcShape /\ belong \subseteq User /\ inbox = [v \in User |-> inbox[v]]
      /\ shownRow \in [User -> Summary \cup {None}] /\ tab \in [User -> (SUBSET User) \cup {None}]
      /\ answers = [q \in User \X Query |-> answers[q]] /\ AnswersFit(u) /\ InboxFits(inbox[u], u)
      /\ "channels" \in Query /\ "members" \in Query
  BY DEF PanelShape, ChannelPanelTypeOK, Query
<1>1. /\ UNCHANGED <<topic, belong, starred, overtaken>> /\ cutOff \subseteq cutOff'
      /\ \A v \in User : Row(v)' = Row(v)
  <2>1. UNCHANGED <<topic, belong, starred, overtaken>> /\ cutOff \subseteq cutOff'
    BY DEF TakeEvent, LoseEvents, OpenMembersTab, TakeRemoved, FetchFor, TakeFetched, rows
  <2>2. QED BY <2>1 DEF Row, SummaryFor
<1>2. \A g \in Handler : proc[g].pc \in {"tellUpdate", "tellStar", "tellLeft"} => proc'[g] = proc[g]
  <2>1. CASE \E h \in Handler : TakeRemoved(h)
    <3>1. PICK h \in Handler : TakeRemoved(h)
      BY <2>1
    <3>2. proc[h].pc = "removed" /\ Moved(h, "idle", None, None, None)
      BY <1>0, <3>1, FinishMoves DEF TakeRemoved, At
    <3>3. QED BY <3>2 DEF Moved
  <2>2. CASE ~\E h \in Handler : TakeRemoved(h)
    <3>1. proc' = proc
      BY <2>2 DEF TakeEvent, LoseEvents, OpenMembersTab, FetchFor, TakeFetched, requestVars
    <3>2. QED BY <3>1
  <2>3. QED BY <2>1, <2>2
<1>3. ASSUME NEW v \in User \ overtaken, NEW w \in User, v # w,
             shownRow'[v] = shownRow[v], tab'[v] = tab[v], inbox'[v] = inbox[v],
             \A query \in Query : /\ answers'[<<v, query>>] = answers[<<v, query>>]
                                  /\ <<v, query>> \in unfetched => <<v, query>> \in unfetched'
      PROVE  PageFollows(v)'
  BY <1>1, <1>2, <1>3, PageKept DEF PagesFollow
(* A query is to be fetched again; what is shown may change.               *)
<1>4. ASSUME NEW queries \in SUBSET Query, Invalidate(u, queries), "channels" \in queries, tab' = tab,
             \A v \in User : v # u => shownRow'[v] = shownRow[v] /\ inbox'[v] = inbox[v],
             \/ "members" \in queries
             \/ tab[u] = None
             \/ HasKind(inbox[u], "left") => HasKind(inbox'[u], "left") \/ u \in cutOff'
      PROVE  PagesFollow'
  <2>1. ASSUME NEW v \in User \ overtaken, v # u PROVE PageFollows(v)'
    BY <1>3, <1>4, <2>1, Invalidated
  <2>2. ASSUME u \notin overtaken PROVE PageFollows(u)'
    <3>1. PageFollows(u)
      BY <2>2 DEF PagesFollow
    <3>2. RowToCome(u)'
      BY <1>0, <1>4, Invalidated DEF RowToCome
    <3>3. ASSUME "members" \notin queries, u \notin cutOff', TabHad(u) PROVE TabHad(u)'
      <4>1. answers'[<<u, "members">>] = answers[<<u, "members">>]
        BY <1>0, <1>4, <3>3, Invalidated
      <4>2. QED BY <1>1, <1>4, <3>3, <4>1 DEF TabHad
    <3>4. ASSUME "members" \notin queries, u \notin cutOff', TabToCome(u), tab[u] # None PROVE TabToCome(u)'
      <4>1. <<u, "members">> \in unfetched => <<u, "members">> \in unfetched'
        BY <1>0, <1>4, Invalidated
      <4>2. QED BY <1>2, <1>4, <3>4, <4>1 DEF TabToCome
    <3>5. "members" \in queries => TabToCome(u)'
      BY <1>0, <1>4, Invalidated DEF TabToCome
    <3>6. tab[u] = None => TabHad(u)'
      BY <1>4 DEF TabHad
    <3>7. QED BY <1>1, <3>1, <3>2, <3>3, <3>4, <3>5, <3>6 DEF PageFollows
  <2>3. QED BY <1>1, <2>1, <2>2 DEF PagesFollow
<1>5. ASSUME OnMembersChanged(u), \A v \in User : v # u => inbox'[v] = inbox[v] PROVE PagesFollow'
  <2>1. PICK queries \in SUBSET Query : /\ Invalidate(u, queries) /\ "channels" \in queries
                                        /\ tab[u] = None \/ "members" \in queries
    BY <1>5 DEF OnMembersChanged, Query
  <2>2. UNCHANGED <<shownRow, tab>>
    BY <1>5 DEF OnMembersChanged
  <2>3. QED BY <1>4, <1>5, <2>1, <2>2
<1>6. ASSUME TakeEvent(u) PROVE PagesFollow'
  <2>1. PICK s \in Seq(PanelEvent) : s = inbox[u] /\ s # <<>> /\ \A i \in DOMAIN s : EventFits(s[i], u)
    BY <1>0, <1>6 DEF TakeEvent, InboxFits
  <2>2. PICK e : e = Head(s)
    OBVIOUS
  <2>3. /\ inbox' = [inbox EXCEPT ![u] = Tail(s)]
        /\ \/ e.kind = "updated" /\ OnChannelUpdated(u, e)
           \/ e.kind = "left" /\ OnMembersChanged(u)
           \/ e.kind = "removed" /\ OnRemoved(u)
    BY <1>6, <2>1, <2>2 DEF TakeEvent
  <2>4. /\ \A v \in User : v # u => inbox'[v] = inbox[v]
        /\ \A kind : HasKind(inbox[u], kind) <=> HasKind(inbox'[u], kind) \/ e.kind = kind
    BY <1>0, <2>1, <2>2, <2>3, EventTaken
  <2>5. CASE e.kind = "updated" /\ OnChannelUpdated(u, e)
    <3>1. {"channels"} \in SUBSET Query /\ "channels" \in {"channels"} /\ Invalidate(u, {"channels"}) /\ tab' = tab
      BY <1>0, <2>5 DEF OnChannelUpdated
    <3>2. \A v \in User : v # u => shownRow'[v] = shownRow[v]
      BY <1>0, <2>5 DEF OnChannelUpdated
    <3>3. HasKind(inbox[u], "left") => HasKind(inbox'[u], "left")
      BY <2>4, <2>5
    <3>4. QED BY <1>4, <2>4, <3>1, <3>2, <3>3
  <2>6. CASE OnMembersChanged(u)
    BY <1>5, <2>4, <2>6
  <2>7. CASE e.kind = "removed" /\ OnRemoved(u)
    <3>1. u \notin belong
      <4>1. EventFits(e, u)
        BY <2>1, <2>2, EventTaken
      <4>2. QED BY <2>7, <4>1 DEF EventFits
    <3>2. ASSUME NEW v \in User \ overtaken, v # u PROVE PageFollows(v)'
      <4>1. /\ shownRow'[v] = shownRow[v] /\ tab'[v] = tab[v]
            /\ \A query \in Query : /\ answers'[<<v, query>>] = answers[<<v, query>>]
                                    /\ <<v, query>> \in unfetched => <<v, query>> \in unfetched'
        BY <1>0, <2>7, <3>2 DEF OnRemoved
      <4>2. QED BY <1>3, <2>4, <3>2, <4>1
    <3>3. ASSUME u \notin overtaken PROVE PageFollows(u)'
      <4>1. PageFollows(u) /\ Row(u)' = None /\ Row(u) = None
        BY <1>1, <3>1, <3>3 DEF PagesFollow, Row
      <4>2. shownRow'[u] = None /\ answers'[<<u, "channels">>] = answers[<<u, "channels">>]
            /\ (<<u, "channels">> \in unfetched => <<u, "channels">> \in unfetched')
        BY <1>0, <2>7 DEF OnRemoved
      <4>3. RowHad(u) => RowHad(u)'
        BY <4>1, <4>2 DEF RowHad
      <4>4. RowToCome(u) => RowToCome(u)'
        BY <1>2, <2>4, <2>7, <3>1, <4>2 DEF RowToCome
      <4>5. QED BY <1>1, <3>1, <4>1, <4>3, <4>4 DEF PageFollows
    <3>4. QED BY <1>1, <3>2, <3>3 DEF PagesFollow
  <2>8. QED BY <2>3, <2>5, <2>6, <2>7
<1>7. ASSUME LoseEvents(u) PROVE PagesFollow'
  <2>1. /\ Invalidate(u, {"channels"}) /\ tab' = tab /\ shownRow' = shownRow
        /\ \A v \in User : v # u => inbox'[v] = inbox[v]
        /\ {"channels"} \in SUBSET Query /\ "channels" \in {"channels"}
    BY <1>0, <1>7 DEF LoseEvents
  <2>2. HasKind(inbox[u], "left") => u \in cutOff'
    <3>1. PICK s \in Seq(PanelEvent) : s = inbox[u] /\ \A i \in DOMAIN s : EventFits(s[i], u)
      BY <1>0 DEF InboxFits
    <3>2. ASSUME NEW i \in DOMAIN s, s[i].kind = "left" PROVE Plain("left") \in {inbox[u][j] : j \in DOMAIN inbox[u]}
      <4>1. s[i] = Plain("left")
        BY <3>1, <3>2 DEF EventFits
      <4>2. QED BY <3>1, <4>1
    <3>3. QED BY <1>7, <3>1, <3>2 DEF HasKind, LoseEvents
  <2>3. QED BY <1>4, <2>1, <2>2
<1>8. ASSUME OpenMembersTab(u) PROVE PagesFollow'
  <2>1. /\ Invalidate(u, {"members"}) /\ shownRow' = shownRow /\ inbox' = inbox
        /\ \A v \in User : v # u => tab'[v] = tab[v]
        /\ {"members"} \in SUBSET Query /\ "members" \in {"members"} /\ "channels" \notin {"members"}
    BY <1>0, <1>8 DEF OpenMembersTab
  <2>2. ASSUME NEW v \in User \ overtaken, v # u PROVE PageFollows(v)'
    BY <1>3, <2>1, <2>2, Invalidated
  <2>3. ASSUME u \notin overtaken PROVE PageFollows(u)'
    <3>1. PageFollows(u)
      BY <2>3 DEF PagesFollow
    <3>2. answers'[<<u, "channels">>] = answers[<<u, "channels">>]
          /\ (<<u, "channels">> \in unfetched => <<u, "channels">> \in unfetched')
          /\ <<u, "members">> \in unfetched'
      BY <1>0, <2>1, Invalidated
    <3>3. RowHad(u) => RowHad(u)'
      BY <1>1, <2>1, <3>2 DEF RowHad
    <3>4. RowToCome(u) => RowToCome(u)'
      BY <1>1, <1>2, <2>1, <3>2 DEF RowToCome
    <3>5. TabToCome(u)'
      BY <3>2 DEF TabToCome
    <3>6. QED BY <3>1, <3>3, <3>4, <3>5 DEF PageFollows
  <2>4. QED BY <1>1, <2>2, <2>3 DEF PagesFollow
<1>9. ASSUME NEW query \in Query, FetchFor(u, query) PROVE PagesFollow'
  <2>1. PICK a : /\ answers' = [answers EXCEPT ![<<u, query>>] = a]
                 /\ query = "channels" => a = <<Row(u)>>
                 /\ query = "members" => a = IF u \in belong THEN <<belong>> ELSE <<>>
    BY <1>9 DEF FetchFor, Row
  <2>2. /\ unfetched' = unfetched \ {<<u, query>>} /\ UNCHANGED <<shownRow, tab, inbox>>
    BY <1>9 DEF FetchFor
  <2>3. \A v \in User, q \in Query : v # u \/ q # query =>
          /\ answers'[<<v, q>>] = answers[<<v, q>>]
          /\ <<v, q>> \in unfetched => <<v, q>> \in unfetched'
    BY <1>0, <2>1, <2>2
  <2>4. answers'[<<u, query>>] = a
    BY <1>0, <2>1
  <2>5. ASSUME NEW v \in User \ overtaken, v # u PROVE PageFollows(v)'
    BY <1>3, <2>2, <2>3, <2>5
  <2>6. ASSUME u \notin overtaken PROVE PageFollows(u)'
    <3>1. PageFollows(u)
      BY <2>6 DEF PagesFollow
    <3>2. CASE query = "channels"
      <4>1. RowHad(u)'
        BY <1>1, <2>1, <2>4, <3>2 DEF RowHad
      <4>2. (TabHad(u) => TabHad(u)') /\ (TabToCome(u) => TabToCome(u)')
        BY <1>0, <1>1, <1>2, <2>2, <2>3, <3>2 DEF TabHad, TabToCome
      <4>3. QED BY <1>1, <3>1, <4>1, <4>2 DEF PageFollows
    <3>3. CASE query = "members"
      <4>1. u \in belong => TabHad(u)'
        BY <1>1, <2>1, <2>4, <3>3 DEF TabHad
      <4>2. (RowHad(u) => RowHad(u)') /\ (RowToCome(u) => RowToCome(u)')
        BY <1>0, <1>1, <1>2, <2>2, <2>3, <3>3 DEF RowHad, RowToCome
      <4>3. QED BY <1>1, <3>1, <4>1, <4>2 DEF PageFollows
    <3>4. QED BY <3>2, <3>3 DEF Query
  <2>7. QED BY <1>1, <2>5, <2>6 DEF PagesFollow
<1>10. ASSUME NEW query \in Query, TakeFetched(u, query) PROVE PagesFollow'
  <2>1. PICK a : a = answers[<<u, query>>]
    OBVIOUS
  <2>2. /\ a # <<>> /\ answers' = [answers EXCEPT ![<<u, query>>] = <<>>]
        /\ query = "channels" => shownRow' = [shownRow EXCEPT ![u] = a[1]] /\ tab' = tab
        /\ query = "members" => tab' = [tab EXCEPT ![u] = a[1]] /\ shownRow' = shownRow
        /\ UNCHANGED <<inbox, unfetched>>
    BY <1>10, <2>1 DEF TakeFetched
  <2>3. /\ \A v \in User, q \in Query : v # u \/ q # query => answers'[<<v, q>>] = answers[<<v, q>>]
        /\ answers'[<<u, query>>] = <<>>
        /\ \A v \in User : v # u => shownRow'[v] = shownRow[v] /\ tab'[v] = tab[v]
    BY <1>0, <2>2 DEF Query
  <2>4. ASSUME NEW v \in User \ overtaken, v # u PROVE PageFollows(v)'
    BY <1>3, <2>2, <2>3, <2>4
  <2>5. ASSUME u \notin overtaken PROVE PageFollows(u)'
    <3>1. PageFollows(u)
      BY <2>5 DEF PagesFollow
    <3>2. CASE query = "channels"
      <4>1. shownRow'[u] = a[1] /\ tab' = tab
        BY <1>0, <2>2, <3>2
      <4>2. PICK row : row = Row(u) /\ row = Row(u)'
        BY <1>1
      <4>3. a = <<row>> => a[1] = row
        OBVIOUS
      <4>4. RowHad(u) => RowHad(u)'
        BY <2>1, <2>2, <2>3, <3>2, <4>1, <4>2, <4>3 DEF RowHad
      <4>5. RowToCome(u) => RowToCome(u)'
        BY <1>1, <1>2, <2>2 DEF RowToCome
      <4>6. (TabHad(u) => TabHad(u)') /\ (TabToCome(u) => TabToCome(u)')
        BY <1>0, <1>1, <1>2, <2>2, <2>3, <3>2, <4>1 DEF TabHad, TabToCome
      <4>7. QED BY <1>1, <3>1, <4>4, <4>5, <4>6 DEF PageFollows
    <3>3. CASE query = "members"
      <4>1. tab'[u] = a[1] /\ shownRow' = shownRow
        BY <1>0, <2>2, <3>3
      <4>2. a = <<belong>> => a[1] = belong
        OBVIOUS
      <4>3. tab[u] # None
        BY <1>0, <2>1, <2>2, <3>3 DEF AnswersFit
      <4>4. TabHad(u) => TabHad(u)'
        BY <1>1, <2>1, <2>2, <2>3, <3>3, <4>1, <4>2, <4>3 DEF TabHad
      <4>5. TabToCome(u) => TabToCome(u)'
        BY <1>2, <2>2 DEF TabToCome
      <4>6. (RowHad(u) => RowHad(u)') /\ (RowToCome(u) => RowToCome(u)')
        BY <1>0, <1>1, <1>2, <2>2, <2>3, <3>3, <4>1 DEF RowHad, RowToCome
      <4>7. QED BY <1>1, <3>1, <4>4, <4>5, <4>6 DEF PageFollows
    <3>4. QED BY <3>2, <3>3 DEF Query
  <2>6. QED BY <1>1, <2>4, <2>5 DEF PagesFollow
<1>11. ASSUME NEW h \in Handler, TakeRemoved(h), proc[h].user = u PROVE PagesFollow'
  <2>1. OnMembersChanged(u) /\ inbox' = inbox
    BY <1>11 DEF TakeRemoved
  <2>2. QED BY <1>5, <2>1
<1>12. QED BY <1>6, <1>7, <1>8, <1>9, <1>10, <1>11

(* The invariant of a channel's pages holds at every step.                 *)
LEMMA PanelStep ==
  ASSUME PanelInv, ChannelPanelNext
  PROVE  PanelInv'
<1>0. PanelShape /\ StarsHold /\ PagesFollow /\ ProcShape /\ \A h \in Handler : PanelRequest(h)
  BY DEF PanelInv, PanelShape
<1>1. PanelShape' /\ StarsHold' /\ overtaken \subseteq overtaken' /\ cutOff \subseteq cutOff'
  BY <1>0, PanelTypes, StarsStep
<1>2. ASSUME NEW h \in Handler, NEW u \in User, BeginMySettings(h, u) \/ BeginUpdateChannel(h, u)
                                                \/ \E t \in User : BeginRemoveMember(h, u, t)
      PROVE  PagesFollow'
  <2>1. UNCHANGED <<rows, inbox, caches>>
    BY <1>2 DEF BeginMySettings, BeginUpdateChannel, BeginRemoveMember, channelPanelVars, rows, caches
  <2>2. \E pc, ref : Begin(h, pc, u, ref, None)
    BY <1>2 DEF BeginMySettings, BeginUpdateChannel, BeginRemoveMember
  <2>3. PICK pc, ref : Moved(h, pc, u, ref, None) /\ proc[h].pc = "idle"
    BY <1>0, <2>2, BeginMoves
  <2>4. QED BY <1>0, <1>1, <2>1, <2>3, PagesQuiet
<1>3. ASSUME NEW h \in Handler, StarLost(h) \/ RemoveLostRace(h) \/ PanelDies(h) PROVE PagesFollow'
  <2>1. Moved(h, "idle", None, None, None) /\ UNCHANGED <<rows, inbox, caches>>
    BY <1>0, <1>3, FinishMoves DEF StarLost, RemoveLostRace, PanelDies, Die, channelPanelVars, rows, caches
  <2>2. CASE proc[h].pc \in {"tellUpdate", "tellStar", "tellLeft"}
    <3>1. overtaken' = User
      BY <1>3, <2>2 DEF StarLost, RemoveLostRace, PanelDies, At
    <3>2. QED BY <3>1 DEF PagesFollow
  <2>3. CASE proc[h].pc \notin {"tellUpdate", "tellStar", "tellLeft"}
    BY <1>0, <1>1, <2>1, <2>3, PagesQuiet
  <2>4. QED BY <2>2, <2>3
<1>4. ASSUME NEW h \in Handler, TakeRemoved(h) PROVE PagesFollow'
  <2>1. proc[h].user \in User
    BY <1>0, <1>4 DEF TakeRemoved, At, PanelRequest
  <2>2. QED BY <1>0, <1>4, <2>1, PanelPagesStep
<1>5. PagesFollow'
  BY <1>0, <1>1, <1>2, <1>3, <1>4, PanelRequestsStep, PanelPagesStep
     DEF ChannelPanelNext, AboutTab, MembersTab, SettingsTab
<1>6. QED BY <1>1, <1>5 DEF PanelInv

(* A channel as it is at the start.                                        *)
LEMMA PanelStarts ==
  ASSUME RequestsInit, ChannelPanelInit
  PROVE  PanelInv
<1>1. ProcShape /\ \A h \in Handler : proc[h].pc = "idle"
  BY InitShape
<1>2. /\ topic = "old" /\ belong = User /\ starred = {} /\ unfetched = {}
      /\ shownRow = [u \in User |-> SummaryFor(u)] /\ tab = [u \in User |-> None]
      /\ inbox = [u \in User |-> <<>>] /\ answers = [q \in User \X Query |-> <<>>]
      /\ restless = {} /\ overtaken = {} /\ cutOff = {}
  BY DEF ChannelPanelInit
<1>3. \A u \in User : SummaryFor(u) \in Summary /\ ~SummaryFor(u).starred
  <2>1. TAKE u \in User
  <2>2. PICK b \in BOOLEAN : b = (u \in starred) /\ ~b
    <3>1. (u \in starred) \in BOOLEAN /\ u \notin starred
      BY <1>2
    <3>2. QED BY <3>1, Zenon
  <2>3. SummaryFor(u) = [topic |-> topic, members |-> belong, starred |-> b]
    BY <2>2 DEF SummaryFor
  <2>4. QED BY <1>2, <2>2, <2>3 DEF Summary, Topic
<1>4. ChannelPanelTypeOK
  BY <1>2, <1>3 DEF ChannelPanelTypeOK, Topic
<1>5. \A u \in User : InboxFits(inbox[u], u) /\ AnswersFit(u)
  BY <1>2 DEF InboxFits, AnswersFit, Query
<1>6. PanelShape
  BY <1>1, <1>2, <1>4, <1>5 DEF PanelShape, PanelRequest
<1>7. StarsHold
  BY <1>1, <1>2, <1>3 DEF StarsHold, OwnStar, Query
<1>8. PagesFollow
  BY <1>2 DEF PagesFollow, PageFollows, RowHad, TabHad, Row, Query
<1>9. QED BY <1>6, <1>7, <1>8 DEF PanelInv

(* What the panel rests on holds in every reachable state.                 *)
LEMMA PanelInvariant == ChannelPanelSpec => []PanelInv
<1>1. RequestsInit /\ ChannelPanelInit => PanelInv
  BY PanelStarts
<1>2. ASSUME PanelInv, [ChannelPanelNext]_<<requestVars, channelPanelVars>> PROVE PanelInv'
  <2>1. CASE ChannelPanelNext
    BY <1>2, <2>1, PanelStep
  <2>2. CASE UNCHANGED <<requestVars, channelPanelVars>>
    <3>1. PanelShape'
      BY <1>2, <2>2
         DEF PanelInv, PanelShape, ProcShape, PanelRequest, ChannelPanelTypeOK, InboxFits, EventFits, AnswersFit,
             requestVars, channelPanelVars
    <3>2. StarsHold'
      BY <1>2, <2>2 DEF PanelInv, StarsHold, OwnStar, requestVars, channelPanelVars
    <3>3. PagesFollow'
      <4>1. UNCHANGED <<rows, inbox, caches, overtaken, cutOff, proc>>
        BY <2>2 DEF requestVars, channelPanelVars, rows, caches
      <4>2. \A u \in User : PageFollows(u) => PageFollows(u)'
        BY <4>1 DEF PageFollows, RowHad, RowToCome, TabHad, TabToCome, Row, SummaryFor, rows, caches
      <4>3. QED BY <1>2, <4>1, <4>2 DEF PanelInv, PagesFollow
    <3>4. QED BY <3>1, <3>2, <3>3 DEF PanelInv
  <2>3. QED BY <1>2, <2>1, <2>2
<1>3. QED BY <1>1, <1>2, PTL DEF ChannelPanelSpec

(* "broadcast payloads carry the EMITTER's per-viewer fields, which must    *)
(* not overwrite ours" (AppShell.tsx:132-134), and a page that is quiet has *)
(* the channel and its members as they are, for any number of members,     *)
(* requests and events.                                                    *)
THEOREM PanelRightAlways == ChannelPanelSpec => []PanelRight
<1>1. PanelInv => PanelRight
  <2> SUFFICES ASSUME PanelInv PROVE PanelRight
    OBVIOUS
  <2>1. StarsAreOwn
    BY DEF PanelInv, StarsHold, OwnStar, StarsAreOwn
  <2>2. PanelCurrent
    <3>1. SUFFICES ASSUME NEW u \in User \ overtaken, AllIdle, inbox[u] = <<>>, Fetched(u)
                   PROVE  /\ shownRow[u] = Row(u)
                          /\ u \in belong \ cutOff /\ tab[u] # None => tab[u] = belong
      BY DEF PanelCurrent, Row
    <3>2. PageFollows(u)
      BY DEF PanelInv, PagesFollow
    <3>3. (\A kind : ~HasKind(inbox[u], kind)) /\ \A h \in Handler : proc[h].pc = "idle"
      BY <3>1 DEF HasKind, AllIdle, At
    <3>4. \A query \in {"channels", "members"} : <<u, query>> \notin unfetched /\ answers[<<u, query>>] = <<>>
      BY <3>1 DEF Fetched, Query
    <3>5. ~RowToCome(u) /\ ~TabToCome(u)
      BY <3>3, <3>4 DEF RowToCome, TabToCome
    <3>6. \A x : <<x>> # <<>>
      OBVIOUS
    <3>7. QED BY <3>2, <3>4, <3>5, <3>6 DEF PageFollows, RowHad, TabHad
  <2>3. QED BY <2>1, <2>2 DEF PanelRight
<1>2. QED BY <1>1, PanelInvariant, PTL

(* A channel's rows, pages, stars and events have their types in every     *)
(* reachable state.                                                        *)
LEMMA ChannelPanelTypeCorrect == ChannelPanelSpec => []ChannelPanelTypeOK
<1>1. PanelInv => ChannelPanelTypeOK
  BY DEF PanelInv, PanelShape
<1>2. QED BY <1>1, PanelInvariant, PTL


---------------------------------------------------------------------------
(* One page of one user.                                                   *)

(* A notice is of a message, or of an unread one, that there is.           *)
Notice == [kind : {"new", "read", "unread", "created", "removed"}, channel : Channel, n : Nat]
NoticeFits(e) ==
  /\ e.kind \in {"new", "unread"} => last[e.channel] > 0
  /\ e.kind = "new" => e.n > 0 /\ e.n <= top[e.channel]
QueueTyped == toPage \in Seq(Notice) /\ \A i \in DOMAIN toPage : NoticeFits(toPage[i])

MarkFits(c, n) == c \in Channel /\ n \in 1 .. MaxRequests /\ n <= last[c]
DeviceRequest(h) ==
  /\ proc[h].pc \in {"idle", "mark", "echo", "channels", "unreads", "push", "tellAdded", "tellRemoved"}
  /\ proc[h].pc \in {"tellAdded", "tellRemoved"} => proc[h].ref \in Channel
  /\ proc[h].pc = "push" => proc[h].ref \in Channel /\ last[proc[h].ref] > 0
  /\ proc[h].pc = "mark" => \E n : proc[h].seen = {n} /\ MarkFits(proc[h].ref, n)
  /\ proc[h].pc = "echo" => /\ proc[h].ref \in Channel /\ proc[h].seen \subseteq {proc[h].ref}
                            /\ last[proc[h].ref] > 0
  /\ proc[h].pc = "channels" => proc[h].seen \subseteq Channel
  /\ proc[h].pc = "unreads" => \A c \in proc[h].seen : c \in Channel /\ last[c] > 0
MarksTyped == ProcShape /\ \A h \in Handler : DeviceRequest(h)

ServerTyped ==
  /\ joined \subseteq Channel /\ rooms \subseteq Channel /\ requests \in 0 .. MaxRequests
  /\ last \in [Channel -> 0 .. MaxRequests] /\ readTo \in [Channel -> 0 .. MaxRequests]
  /\ top \in [Channel -> 0 .. MaxRequests]
  /\ \A c \in Channel : readTo[c] <= last[c] /\ top[c] <= last[c] /\ last[c] <= requests

PageTyped ==
  /\ cached \subseteq Channel /\ invalid \subseteq {"channels", "unreads"}
  /\ missed \subseteq Channel /\ unaware \subseteq Channel
  /\ got \in [Channel -> 0 .. MaxRequests] /\ \A c \in Channel : got[c] <= top[c]
  /\ active \in Channel \cup {None} /\ view \in View /\ strayed \in BOOLEAN
  /\ \A c \in bold : c \in Channel /\ last[c] > 0
  /\ \A m \in marks : m = <<m[1], m[2]>> /\ MarkFits(m[1], m[2])

DeviceTyped == ServerTyped /\ PageTyped /\ MarksTyped /\ QueueTyped

(* The list: a channel that is listed and that the user is not in, or the  *)
(* reverse, is going to be told of or fetched, or is one of the exceptions. *)
ListToCome(c) ==
  \/ "channels" \in invalid \/ Fetching("channels")
  \/ \E h \in Handler : proc[h].pc \in {"tellAdded", "tellRemoved"} /\ proc[h].ref = c
  \/ \E i \in DOMAIN toPage : toPage[i].kind \in {"created", "removed"} /\ toPage[i].channel = c
ListFollows ==
  /\ \A c \in Channel \ unaware : ListToCome(c) \/ (c \in cached <=> c \in joined)
  /\ strayed \/ active \in cached \/ cached = {}

(* A badge: with nothing under way that sets it, it is what the server has, *)
(* or its channel is one of the exceptions.                                *)
BadgeToCome(c) ==
  \/ "unreads" \in invalid \/ Fetching("unreads")
  \/ \E m \in marks : m[1] = c
  \/ \E h \in Handler : proc[h].pc \in {"mark", "echo"} /\ proc[h].ref = c
  \/ \E i \in DOMAIN toPage : SetsBadge(toPage[i].kind) /\ toPage[i].channel = c
BadgesFollow ==
  \A c \in joined \ missed : BadgeToCome(c) \/ (c \in bold <=> Unread(c))

DeviceInv == DeviceTyped /\ ListFollows /\ BadgesFollow

(* A notice is put at the end of the queue.                                *)
LEMMA NoticeSent ==
  ASSUME QueueTyped, NEW kind \in {"new", "read", "unread", "created", "removed"}, NEW c \in Channel,
         NEW n \in Nat, Send(kind, c, n)
  PROVE  \E k \in DOMAIN toPage' :
           /\ toPage' \in Seq(Notice) /\ DOMAIN toPage \subseteq Nat /\ DOMAIN toPage' \subseteq Nat
           /\ toPage'[k].kind = kind /\ toPage'[k].channel = c /\ toPage'[k].n = n
           /\ \A i \in DOMAIN toPage : i < k /\ i \in DOMAIN toPage' /\ toPage'[i] = toPage[i]
           /\ \A i \in DOMAIN toPage' : i = k \/ i \in DOMAIN toPage
<1>1. PICK e \in Notice : e = [kind |-> kind, channel |-> c, n |-> n]
  BY DEF Notice
<1>2. e.kind = kind /\ e.channel = c /\ e.n = n
  BY <1>1
<1>3. toPage' = Append(toPage, e) /\ toPage \in Seq(Notice)
  BY <1>1 DEF Send, QueueTyped
<1>4. /\ toPage' \in Seq(Notice) /\ DOMAIN toPage = 1 .. Len(toPage) /\ Len(toPage) \in Nat
      /\ DOMAIN toPage' = 1 .. (Len(toPage) + 1) /\ toPage'[Len(toPage) + 1] = e
      /\ \A i \in 1 .. Len(toPage) : toPage'[i] = toPage[i]
  BY <1>3
<1>5. PICK k : k = Len(toPage) + 1
  OBVIOUS
<1>6. /\ k \in DOMAIN toPage' /\ toPage'[k] = e /\ DOMAIN toPage \subseteq Nat /\ DOMAIN toPage' \subseteq Nat
      /\ \A i \in DOMAIN toPage : i < k /\ i \in DOMAIN toPage' /\ toPage'[i] = toPage[i]
      /\ \A i \in DOMAIN toPage' : i = k \/ i \in DOMAIN toPage
  BY <1>4, <1>5
<1>7. QED BY <1>2, <1>4, <1>6

(* The first notice of the queue is taken.                                 *)
LEMMA NoticeTaken ==
  ASSUME QueueTyped, toPage # <<>>, toPage' = Tail(toPage)
  PROVE  /\ toPage' \in Seq(Notice) /\ Head(toPage) = toPage[1] /\ toPage[1] \in Notice
         /\ 1 \in DOMAIN toPage /\ NoticeFits(toPage[1])
         /\ DOMAIN toPage \subseteq Nat /\ DOMAIN toPage' \subseteq Nat
         /\ \A i \in DOMAIN toPage' : i + 1 \in DOMAIN toPage /\ toPage'[i] = toPage[i + 1]
         /\ \A i \in DOMAIN toPage : i = 1 \/ (i > 1 /\ i - 1 \in DOMAIN toPage' /\ toPage'[i - 1] = toPage[i])
<1>1. toPage \in Seq(Notice) /\ Len(toPage) \in Nat /\ Len(toPage) > 0 /\ DOMAIN toPage = 1 .. Len(toPage)
  BY DEF QueueTyped
<1>2. /\ toPage' \in Seq(Notice) /\ DOMAIN toPage' = 1 .. (Len(toPage) - 1)
      /\ \A i \in 1 .. (Len(toPage) - 1) : toPage'[i] = toPage[i + 1]
  BY <1>1
<1>3. Head(toPage) = toPage[1] /\ 1 \in DOMAIN toPage /\ toPage[1] \in Notice
  BY <1>1
<1>4. NoticeFits(toPage[1])
  BY <1>3 DEF QueueTyped
<1>5. QED BY <1>1, <1>2, <1>3, <1>4

(* Marking what is shown clears a badge only where it schedules a call.     *)
LEMMA ShownMarked ==
  ASSUME PageTyped, NEW list, MarkShown(list), active' \in Channel \cup {None}, UNCHANGED last,
         got' \in [Channel -> 0 .. MaxRequests], \A c \in Channel : got'[c] <= last[c]
  PROVE  /\ bold' \subseteq list /\ \A c \in list \ bold' : \E m \in marks' : m[1] = c
         /\ \A m \in marks : \E k \in marks' : k[1] = m[1]
         /\ \A m \in marks' : m = <<m[1], m[2]>> /\ MarkFits(m[1], m[2])'
<1>1. CASE active' # None /\ view' = "reading" /\ got'[active'] > 0
  <2>1. /\ bold' = list \ {active'}
        /\ marks' = {m \in marks : m[1] # active'} \cup {<<active', got'[active']>>}
    BY <1>1 DEF MarkShown
  <2>2. PICK k : k = <<active', got'[active']>>
    OBVIOUS
  <2>3. k \in marks' /\ k[1] = active' /\ k[2] = got'[active'] /\ k = <<k[1], k[2]>>
    BY <2>1, <2>2
  <2>4. MarkFits(k[1], k[2])'
    BY <1>1, <2>3, RequestsAssumption DEF MarkFits
  <2>5. \A m \in marks' : m = k \/ m \in marks
    BY <2>1, <2>2
  <2>6. \A m \in marks : m[1] = k[1] \/ m \in marks'
    BY <2>1, <2>3
  <2>7. \A m \in marks : MarkFits(m[1], m[2]) => MarkFits(m[1], m[2])'
    BY DEF MarkFits
  <2>8. QED BY <2>1, <2>3, <2>4, <2>5, <2>6, <2>7 DEF PageTyped
<1>2. CASE ~(active' # None /\ view' = "reading" /\ got'[active'] > 0)
  <2>1. bold' = list /\ marks' = marks
    BY <1>2 DEF MarkShown
  <2>2. \A m \in marks : MarkFits(m[1], m[2]) => MarkFits(m[1], m[2])'
    BY DEF MarkFits
  <2>3. QED BY <2>1, <2>2 DEF PageTyped
<1>3. QED BY <1>1, <1>2

(* A call the page makes of its own accord is a request like another.      *)
LEMMA StartMoves ==
  ASSUME ProcShape, NEW h \in Handler, NEW pc, NEW ref, NEW seen, Start(h, pc, ref, seen)
  PROVE  Moved(h, pc, None, ref, seen) /\ proc[h].pc = "idle" /\ UNCHANGED <<requests, members>>
BY Replaced DEF Start, At

(* What fits goes on fitting, as messages are only added.                  *)
Advances == \A c \in Channel : last[c] <= last'[c] /\ top[c] <= top'[c]
LEMMA FitsOn ==
  ASSUME ServerTyped, ServerTyped', Advances
  PROVE  /\ \A c, n : MarkFits(c, n) => MarkFits(c, n)'
         /\ \A h \in Handler : DeviceRequest(h) /\ proc'[h] = proc[h] => DeviceRequest(h)'
         /\ \A e \in Notice : NoticeFits(e) => NoticeFits(e)'
<1>1. /\ \A c \in Channel : last[c] \in Nat /\ last'[c] \in Nat /\ last[c] <= last'[c]
      /\ \A c \in Channel : top[c] \in Nat /\ top'[c] \in Nat /\ top[c] <= top'[c]
      /\ \A c \in Channel : last[c] > 0 => last'[c] > 0
  BY RequestsAssumption DEF ServerTyped, Advances
<1>2. \A c, n : MarkFits(c, n) => MarkFits(c, n)'
  BY <1>1, RequestsAssumption DEF MarkFits
<1>3. ASSUME NEW h \in Handler, DeviceRequest(h), proc'[h] = proc[h] PROVE DeviceRequest(h)'
  BY <1>1, <1>2, <1>3 DEF DeviceRequest
<1>4. \A e \in Notice : NoticeFits(e) => NoticeFits(e)'
  BY <1>1 DEF Notice, NoticeFits
<1>5. QED BY <1>2, <1>3, <1>4

(* The queue after a notice that fits has been put at its end.             *)
LEMMA QueueGrows ==
  ASSUME DeviceTyped, ServerTyped', Advances,
         NEW kind \in {"new", "read", "unread", "created", "removed"}, NEW c \in Channel, NEW n \in Nat,
         Send(kind, c, n), kind \in {"new", "unread"} => last'[c] > 0,
         kind = "new" => n > 0 /\ n <= top'[c]
  PROVE  QueueTyped'
<1>1. QueueTyped /\ ServerTyped
  BY DEF DeviceTyped
<1>2. PICK k \in DOMAIN toPage' :
           /\ toPage' \in Seq(Notice) /\ DOMAIN toPage \subseteq Nat /\ DOMAIN toPage' \subseteq Nat
           /\ toPage'[k].kind = kind /\ toPage'[k].channel = c /\ toPage'[k].n = n
           /\ \A i \in DOMAIN toPage : i < k /\ i \in DOMAIN toPage' /\ toPage'[i] = toPage[i]
           /\ \A i \in DOMAIN toPage' : i = k \/ i \in DOMAIN toPage
  BY <1>1, NoticeSent
<1>3. \A e \in Notice : NoticeFits(e) => NoticeFits(e)'
  BY <1>1, FitsOn
<1>4. PICK new : new = toPage'[k]
  OBVIOUS
<1>5. NoticeFits(new)'
  BY <1>2, <1>4 DEF NoticeFits
<1>6. \A i \in DOMAIN toPage : toPage[i] \in Notice /\ NoticeFits(toPage[i])
  BY <1>1 DEF QueueTyped
<1>7. \A i \in DOMAIN toPage' : \A e : e = toPage'[i] => NoticeFits(e)'
  BY <1>2, <1>3, <1>4, <1>5, <1>6
<1>8. QED BY <1>2, <1>7 DEF QueueTyped, NoticeFits

(* A request that moves leaves the others as they were.                    *)
LEMMA RequestTyped ==
  ASSUME MarksTyped, ServerTyped, ServerTyped', Advances, NEW h \in Handler,
         NEW pc, NEW u, NEW ref, NEW seen, Moved(h, pc, u, ref, seen), DeviceRequest(h)'
  PROVE  MarksTyped'
<1>1. \A g \in Handler : DeviceRequest(g)'
  BY FitsOn DEF MarksTyped, Moved
<1>2. QED BY <1>1 DEF MarksTyped, Moved

(* A page that does nothing has what it had.                               *)
LEMMA PageRests ==
  ASSUME ServerTyped, ServerTyped', Advances, PageTyped, UNCHANGED page, missed' \subseteq Channel,
         unaware' \subseteq Channel, invalid' \subseteq {"channels", "unreads"}
  PROVE  PageTyped'
<1>1. UNCHANGED <<cached, bold, got, active, view, marks, strayed>>
  BY DEF page
<1>2. \A m \in marks : MarkFits(m[1], m[2])'
  BY FitsOn DEF PageTyped
<1>3. \A c \in bold : last'[c] > 0
  BY RequestsAssumption DEF PageTyped, ServerTyped, Advances
<1>4. \A c \in Channel : got[c] <= top'[c]
  BY RequestsAssumption DEF PageTyped, ServerTyped, Advances
<1>5. QED BY <1>1, <1>2, <1>3, <1>4 DEF PageTyped

(* So does a queue that nothing is put into.                               *)
LEMMA QueueRests ==
  ASSUME ServerTyped, ServerTyped', Advances, QueueTyped, UNCHANGED toPage
  PROVE  QueueTyped'
<1>1. \A i \in DOMAIN toPage : NoticeFits(toPage[i])'
  <2>1. SUFFICES ASSUME NEW i \in DOMAIN toPage PROVE NoticeFits(toPage[i])'
    OBVIOUS
  <2>2. PICK e \in Notice : e = toPage[i] /\ NoticeFits(e)
    BY DEF QueueTyped
  <2>3. NoticeFits(e)'
    BY <2>2, FitsOn
  <2>4. QED BY <2>2, <2>3 DEF NoticeFits
<1>2. QED BY <1>1 DEF QueueTyped

(* What others do keeps the types.                                         *)
LEMMA OthersTyped ==
  ASSUME DeviceTyped, NEW c \in Channel,
         \/ \E kind \in {"new", "reply", "forward"} : MessageArrives(c, kind)
         \/ AddedTo(c) \/ ListChanges \/ \E h \in Handler : RemovedFrom(h, c)
  PROVE  DeviceTyped'
<1> USE RequestsAssumption
<1>0. ServerTyped /\ PageTyped /\ MarksTyped /\ QueueTyped /\ ProcShape
  BY DEF DeviceTyped, MarksTyped
<1>a. Answer \/ \E h \in Handler : \E pc \in {"push", "tellAdded", "tellRemoved"} : Begin(h, pc, None, c, {})
  BY DEF MessageArrives, AddedTo, ListChanges, RemovedFrom
<1>b. requests' = requests + 1 /\ requests < MaxRequests
  BY <1>a DEF Answer, Begin
<1>1. ServerTyped' /\ Advances
  <2>1. ASSUME NEW kind, MessageArrives(c, kind) PROVE ServerTyped' /\ Advances
    <3>1. /\ last' = [last EXCEPT ![c] = @ + 1] /\ UNCHANGED <<joined, rooms, readTo>>
          /\ top' = top \/ top' = [top EXCEPT ![c] = last'[c]]
      BY <2>1 DEF MessageArrives
    <3>2. QED BY <1>0, <1>b, <3>1 DEF ServerTyped, Advances
  <2>2. CASE AddedTo(c)
    BY <1>0, <1>b, <2>2 DEF AddedTo, ServerTyped, Advances
  <2>3. CASE ListChanges
    BY <1>0, <1>b, <2>3 DEF ListChanges, server, ServerTyped, Advances
  <2>4. ASSUME NEW h \in Handler, RemovedFrom(h, c) PROVE ServerTyped' /\ Advances
    BY <1>0, <1>b, <2>4 DEF RemovedFrom, ServerTyped, Advances
  <2>5. QED BY <2>1, <2>2, <2>3, <2>4
<1>2. PageTyped'
  <2>1. /\ UNCHANGED page /\ missed' \subseteq Channel /\ unaware' \subseteq Channel
        /\ invalid' \subseteq {"channels", "unreads"}
    BY <1>0 DEF MessageArrives, AddedTo, RemovedFrom, ListChanges, PageTyped
  <2>2. QED BY <1>0, <1>1, <2>1, PageRests
<1>3. MarksTyped'
  <2>1. CASE Answer
    <3>1. proc' = proc
      BY <2>1 DEF Answer
    <3>2. QED BY <1>0, <1>1, <3>1, FitsOn DEF MarksTyped, ProcShape
  <2>2. ASSUME NEW h \in Handler, NEW pc \in {"push", "tellAdded", "tellRemoved"},
               Begin(h, pc, None, c, {}), pc = "push" => last'[c] > 0
        PROVE  MarksTyped'
    <3>1. Moved(h, pc, None, c, {})
      BY <1>0, <2>2, BeginMoves
    <3>2. DeviceRequest(h)'
      BY <2>2, <3>1 DEF DeviceRequest, Moved
    <3>3. QED BY <1>0, <1>1, <3>1, <3>2, RequestTyped
  <2>3. ASSUME NEW kind \in {"new", "reply", "forward"}, MessageArrives(c, kind) PROVE MarksTyped'
    <3>1. last'[c] > 0
      BY <1>0, <2>3 DEF MessageArrives, ServerTyped
    <3>2. QED BY <2>1, <2>2, <2>3, <3>1 DEF MessageArrives
  <2>4. CASE AddedTo(c)
    BY <2>1, <2>2, <2>4 DEF AddedTo
  <2>5. ASSUME NEW h \in Handler, RemovedFrom(h, c) PROVE MarksTyped'
    BY <2>2, <2>5 DEF RemovedFrom
  <2>6. QED BY <2>1, <2>3, <2>4, <2>5 DEF ListChanges
<1>4. QueueTyped'
  <2>1. toPage' = toPage => QueueTyped'
    BY <1>0, <1>1, QueueRests
  <2>2. ASSUME NEW kind, MessageArrives(c, kind) PROVE QueueTyped'
    <3>1. CASE kind = "new" /\ c \in rooms
      <4>1. /\ Send("new", c, last'[c]) /\ last' = [last EXCEPT ![c] = @ + 1]
            /\ top' = [top EXCEPT ![c] = last'[c]]
        BY <2>2, <3>1 DEF MessageArrives
      <4>2. last'[c] \in Nat /\ last'[c] > 0 /\ top'[c] = last'[c]
        BY <1>0, <4>1 DEF ServerTyped
      <4>3. QED BY <1>1, <4>1, <4>2, QueueGrows
    <3>2. CASE ~(kind = "new" /\ c \in rooms)
      BY <2>1, <2>2, <3>2 DEF MessageArrives
    <3>3. QED BY <3>1, <3>2
  <2>3. QED BY <2>1, <2>2 DEF AddedTo, RemovedFrom, ListChanges
<1>5. QED BY <1>1, <1>2, <1>3, <1>4 DEF DeviceTyped

(* What is told, or lost on the way, keeps the types.                      *)
LEMMA TellingTyped ==
  ASSUME DeviceTyped, NEW h \in Handler,
         Push(h) \/ PushDies(h) \/ TellAdded(h) \/ TellRemoved(h) \/ TellDies(h)
  PROVE  DeviceTyped'
<1> USE RequestsAssumption
<1>0. ServerTyped /\ PageTyped /\ MarksTyped /\ QueueTyped /\ ProcShape /\ DeviceRequest(h)
  BY DEF DeviceTyped, MarksTyped
<1>1. /\ Finish(h) /\ UNCHANGED <<server, page, invalid, missed, requests>> /\ rooms' \subseteq rooms
      /\ proc[h].ref \in Channel /\ unaware' \subseteq unaware \cup {proc[h].ref}
  <2>1. proc[h].pc \in {"push", "tellAdded", "tellRemoved"}
    BY DEF Push, PushDies, TellAdded, TellRemoved, TellDies, At
  <2>2. proc[h].ref \in Channel
    BY <1>0, <2>1 DEF DeviceRequest
  <2>3. QED BY <2>2 DEF Push, PushDies, TellAdded, TellRemoved, TellDies, Finish, deviceVars, server, page
<1>2. ServerTyped' /\ Advances
  BY <1>0, <1>1 DEF server, ServerTyped, Advances
<1>3. MarksTyped'
  <2>1. Moved(h, "idle", None, None, None)
    BY <1>0, <1>1, FinishMoves
  <2>2. DeviceRequest(h)'
    BY <2>1 DEF DeviceRequest, Moved
  <2>3. QED BY <1>0, <1>2, <2>1, <2>2, RequestTyped
<1>4. PageTyped'
  <2>1. missed' \subseteq Channel /\ unaware' \subseteq Channel /\ invalid' \subseteq {"channels", "unreads"}
    BY <1>0, <1>1 DEF PageTyped
  <2>2. QED BY <1>0, <1>1, <1>2, <2>1, PageRests
<1>5. QueueTyped'
  <2>1. CASE Push(h)
    <3>1. Send("unread", proc[h].ref, 0) /\ last'[proc[h].ref] > 0
      BY <1>0, <1>1, <2>1 DEF Push, At, DeviceRequest, server
    <3>2. QED BY <1>1, <1>2, <3>1, QueueGrows
  <2>2. CASE TellAdded(h)
    BY <1>1, <1>2, <2>2, QueueGrows DEF TellAdded
  <2>3. CASE TellRemoved(h)
    <3>1. PICK n \in {0, 1} : Send("removed", proc[h].ref, n)
      BY <2>3 DEF TellRemoved
    <3>2. QED BY <1>1, <1>2, <3>1, QueueGrows
  <2>4. CASE PushDies(h) \/ TellDies(h)
    BY <1>0, <1>2, <2>4, QueueRests DEF PushDies, TellDies, deviceVars
  <2>5. QED BY <2>1, <2>2, <2>3, <2>4
<1>6. QED BY <1>2, <1>3, <1>4, <1>5 DEF DeviceTyped

(* The requests keep the types.                                            *)
LEMMA DeviceRequestsTyped ==
  ASSUME DeviceTyped, NEW h \in Handler,
         \/ Mark(h) \/ Echo(h) \/ MarkFails(h) \/ SendMark(h) \/ \E c \in Channel : OtherDeviceReads(h, c)
         \/ \E q \in invalid : FetchQuery(h, q)
  PROVE  DeviceTyped'
<1> USE RequestsAssumption
<1>0. ServerTyped /\ PageTyped /\ MarksTyped /\ QueueTyped /\ ProcShape /\ DeviceRequest(h)
  BY DEF DeviceTyped, MarksTyped
<1>1. ASSUME NEW pc, NEW u, NEW ref, NEW seen, Moved(h, pc, u, ref, seen), ServerTyped',
             UNCHANGED <<last, top>>, DeviceRequest(h)'
      PROVE  MarksTyped'
  <2>1. Advances
    BY <1>0, <1>1 DEF ServerTyped, Advances
  <2>2. QED BY <1>0, <1>1, <2>1, RequestTyped
<1>2. ASSUME UNCHANGED <<cached, bold, got, active, view, strayed, last, top, unaware>>,
             missed' \subseteq Channel, invalid' \subseteq invalid, marks' \subseteq marks
      PROVE  PageTyped'
  BY <1>0, <1>2 DEF PageTyped, MarkFits
<1>3. ASSUME UNCHANGED <<toPage, last, top>> PROVE QueueTyped'
  BY <1>0, <1>3 DEF QueueTyped, NoticeFits
<1>4. CASE Mark(h)
  <2>1. PICK n : proc[h].seen = {n} /\ MarkFits(proc[h].ref, n) /\ proc[h].pc = "mark"
    BY <1>0, <1>4 DEF Mark, At, DeviceRequest
  <2>2. n = CHOOSE k \in proc[h].seen : TRUE
    BY <2>1
  <2>3. /\ readTo' = [readTo EXCEPT ![proc[h].ref] = IF n > @ THEN n ELSE @]
        /\ UNCHANGED <<joined, rooms, last, top, requests>>
    BY <1>4, <2>2 DEF Mark, GotoWith
  <2>4. ServerTyped'
    BY <1>0, <2>1, <2>3 DEF ServerTyped, MarkFits
  <2>5. PICK s : s \subseteq {proc[h].ref} /\ GotoWith(h, "echo", s)
    BY <1>4 DEF Mark
  <2>6. Moved(h, "echo", proc[h].user, proc[h].ref, s)
    BY <1>0, <2>5, GotoWithMoves
  <2>7. last[proc[h].ref] > 0
    BY <1>0, <2>1 DEF MarkFits, ServerTyped
  <2>8. MarksTyped'
    BY <1>1, <2>1, <2>3, <2>4, <2>5, <2>6, <2>7 DEF DeviceRequest, Moved, MarkFits
  <2>9. PageTyped' /\ QueueTyped'
    BY <1>0, <1>2, <1>3, <1>4 DEF Mark, page, PageTyped
  <2>10. QED BY <2>4, <2>8, <2>9 DEF DeviceTyped
<1>5. CASE Echo(h)
  <2>1. /\ proc[h].pc = "echo" /\ Finish(h)
        /\ UNCHANGED <<server, rooms, invalid, page, requests, missed, unaware>>
    BY <1>5 DEF Echo, At, Finish
  <2>2. proc[h].ref \in Channel /\ last[proc[h].ref] > 0
    BY <1>0, <2>1 DEF DeviceRequest
  <2>3. ServerTyped'
    BY <1>0, <2>1 DEF server, ServerTyped
  <2>4. MarksTyped'
    BY <1>0, <1>1, <2>1, <2>3, FinishMoves DEF server, DeviceRequest, Moved
  <2>5. PageTyped'
    BY <1>0, <1>2, <2>1, <2>2 DEF page, server, PageTyped
  <2>6. PICK kind \in {"read", "unread"} : Send(kind, proc[h].ref, 0)
    BY <1>5 DEF Echo
  <2>7. QueueTyped'
    <3>1. Advances
      BY <1>0, <2>1 DEF server, ServerTyped, Advances
    <3>2. QED BY <1>0, <2>1, <2>2, <2>3, <2>6, <3>1, QueueGrows DEF server, ServerTyped
  <2>8. QED BY <2>3, <2>4, <2>5, <2>7 DEF DeviceTyped
<1>6. CASE MarkFails(h)
  <2>1. /\ proc[h].pc \in {"mark", "echo"} /\ UNCHANGED <<server, rooms, toPage, invalid, page, requests>>
        /\ missed' = missed \cup {proc[h].ref} /\ Finish(h) /\ UNCHANGED unaware
    BY <1>6 DEF MarkFails, Finish
  <2>2. proc[h].ref \in Channel
    BY <1>0, <2>1 DEF DeviceRequest, MarkFits
  <2>3. ServerTyped'
    BY <1>0, <2>1 DEF server, ServerTyped
  <2>4. MarksTyped'
    BY <1>0, <1>1, <2>1, <2>3, FinishMoves DEF server, DeviceRequest, Moved
  <2>5. PageTyped' /\ QueueTyped'
    BY <1>0, <1>2, <1>3, <2>1, <2>2 DEF page, server, PageTyped
  <2>6. QED BY <2>3, <2>4, <2>5 DEF DeviceTyped
<1>7. CASE SendMark(h)
  <2>1. PICK m \in marks : marks' = marks \ {m} /\ Start(h, "mark", m[1], {m[2]})
    BY <1>7 DEF SendMark
  <2>2. /\ UNCHANGED <<server, rooms, toPage, invalid, cached, bold, got, active, view, missed, strayed>>
        /\ UNCHANGED <<requests, unaware>>
    BY <1>7, <2>1 DEF SendMark, Start
  <2>3. ServerTyped'
    BY <1>0, <2>2 DEF server, ServerTyped
  <2>4. PICK c, n : c = m[1] /\ n = m[2]
    OBVIOUS
  <2>5. Moved(h, "mark", None, c, {n})
    BY <1>0, <2>1, <2>4, StartMoves
  <2>6. MarkFits(c, n)'
    BY <1>0, <2>1, <2>2, <2>4 DEF PageTyped, MarkFits, server
  <2>7. MarksTyped'
    <3>1. DeviceRequest(h)'
      BY <2>5, <2>6 DEF DeviceRequest, Moved, MarkFits
    <3>2. QED BY <1>1, <2>2, <2>3, <2>5, <3>1 DEF server
  <2>8. PageTyped' /\ QueueTyped'
    BY <1>0, <1>2, <1>3, <2>1, <2>2 DEF server, PageTyped
  <2>9. QED BY <2>3, <2>7, <2>8 DEF DeviceTyped
<1>8. ASSUME NEW c \in Channel, OtherDeviceReads(h, c) PROVE DeviceTyped'
  <2>1. /\ c \in joined /\ last[c] > readTo[c] /\ UNCHANGED deviceVars
        /\ requests' = requests + 1 /\ requests < MaxRequests /\ Begin(h, "mark", None, c, {last[c]})
    BY <1>8 DEF OtherDeviceReads, Unread, Begin
  <2>2. ServerTyped'
    BY <1>0, <2>1 DEF deviceVars, ServerTyped
  <2> PICK n : n = last[c]
    OBVIOUS
  <2>3. MarkFits(c, n)'
    BY <1>0, <2>1 DEF deviceVars, ServerTyped, MarkFits
  <2>4. Moved(h, "mark", None, c, {n})
    BY <1>0, <2>1, BeginMoves
  <2>5. DeviceRequest(h)'
    BY <2>3, <2>4 DEF DeviceRequest, Moved, MarkFits
  <2>6. MarksTyped'
    BY <1>1, <2>1, <2>2, <2>4, <2>5 DEF deviceVars
  <2>7. PageTyped' /\ QueueTyped'
    BY <1>0, <1>2, <1>3, <2>1 DEF deviceVars, PageTyped
  <2>8. QED BY <2>2, <2>6, <2>7 DEF DeviceTyped
<1>9. ASSUME NEW q \in invalid, FetchQuery(h, q) PROVE DeviceTyped'
  <2>1. q \in {"channels", "unreads"}
    BY <1>0 DEF PageTyped
  <2> DEFINE S == IF q = "channels" THEN joined ELSE {c \in Channel : Unread(c)}
  <2>2. /\ UNCHANGED <<server, rooms, toPage, page, requests, missed, unaware>>
        /\ invalid' = invalid \ {q} /\ Start(h, q, None, S)
    BY <1>9 DEF FetchQuery, Start
  <2>3. ServerTyped'
    BY <1>0, <2>2 DEF server, ServerTyped
  <2>4. Moved(h, q, None, None, S)
    BY <1>0, <2>2, StartMoves
  <2>5. \A c \in Channel : Unread(c) => last[c] > 0
    BY <1>0 DEF Unread, ServerTyped
  <2>6. /\ q = "channels" => proc'[h].seen \subseteq Channel
        /\ q = "unreads" => \A c \in proc'[h].seen : c \in Channel /\ last[c] > 0
    BY <1>0, <2>4, <2>5 DEF ServerTyped, Moved
  <2>7. DeviceRequest(h)'
    BY <2>1, <2>2, <2>4, <2>6 DEF DeviceRequest, Moved, server
  <2>8. MarksTyped'
    BY <1>1, <2>2, <2>3, <2>4, <2>7 DEF server
  <2>9. PageTyped' /\ QueueTyped'
    BY <1>0, <1>2, <1>3, <2>2 DEF server, page, PageTyped
  <2>10. QED BY <2>3, <2>8, <2>9 DEF DeviceTyped
<1>10. QED BY <1>4, <1>5, <1>6, <1>7, <1>8, <1>9

(* A page that has no channel to show shows none.                          *)
LEMMA FallsBack ==
  ASSUME NEW list, NEW c \in Fallback(list)
  PROVE  c \in list \/ (c = None /\ list = {})
BY DEF Fallback

(* What the page does when it has the messages and the list it has.        *)
LEMMA PageShows ==
  ASSUME ServerTyped, PageTyped, NEW list, MarkShown(list), \A c \in list : c \in Channel /\ last[c] > 0,
         UNCHANGED <<last, top>>, active' \in Channel \cup {None}, view' \in View, strayed' \in BOOLEAN,
         cached' \subseteq Channel, missed' \subseteq Channel, unaware' \subseteq Channel,
         invalid' \subseteq {"channels", "unreads"},
         got' \in [Channel -> 0 .. MaxRequests], \A c \in Channel : got'[c] <= top[c]
  PROVE  PageTyped'
<1>0. \A c \in Channel : got'[c] <= last[c]
  BY RequestsAssumption DEF ServerTyped
<1>1. bold' \subseteq list /\ \A m \in marks' : m = <<m[1], m[2]>> /\ MarkFits(m[1], m[2])'
  BY <1>0, ShownMarked
<1>2. QED BY <1>1 DEF PageTyped

(* What the page does with a notice keeps the types.                       *)
LEMMA ReceiveTyped ==
  ASSUME DeviceTyped, Receive
  PROVE  DeviceTyped'
<1> USE RequestsAssumption
<1>0. ServerTyped /\ PageTyped /\ MarksTyped /\ QueueTyped
  BY DEF DeviceTyped
<1>1. UNCHANGED <<server, rooms, strayed, requestVars>> /\ toPage # <<>> /\ toPage' = Tail(toPage)
  BY DEF Receive
<1>2. /\ toPage' \in Seq(Notice) /\ Head(toPage) = toPage[1] /\ toPage[1] \in Notice
      /\ NoticeFits(toPage[1])
      /\ \A i \in DOMAIN toPage' : i + 1 \in DOMAIN toPage /\ toPage'[i] = toPage[i + 1]
  BY <1>0, <1>1, NoticeTaken
<1>3. PICK e \in Notice : e = Head(toPage) /\ NoticeFits(e)
  BY <1>2
<1>4. e.channel \in Channel /\ e.n \in Nat
  BY <1>3 DEF Notice
<1>5. ServerTyped' /\ UNCHANGED <<last, top, joined>> /\ Advances
  BY <1>0, <1>1 DEF server, requestVars, ServerTyped, Advances
<1>6. MarksTyped'
  BY <1>0, <1>1, <1>5, FitsOn DEF MarksTyped, requestVars, ProcShape, DeviceRequest, MarkFits
<1>7. QueueTyped'
  BY <1>0, <1>2, <1>5 DEF QueueTyped, NoticeFits
<1>8. \A is : Late(e, is) => missed' \subseteq Channel
  BY <1>0, <1>4 DEF Late, PageTyped
<1>9. \A m \in marks : MarkFits(m[1], m[2])'
  BY <1>0, <1>5 DEF PageTyped, MarkFits
<1>10. CASE e.kind = "new" /\ OnMessageNew(e)
  <2>1. /\ got' = [got EXCEPT ![e.channel] = e.n] /\ UNCHANGED <<active, view, cached, invalid, strayed, unaware>>
        /\ e.n > 0 /\ e.n <= top[e.channel]
    BY <1>1, <1>3, <1>10 DEF OnMessageNew, NoticeFits
  <2>2. got' \in [Channel -> 0 .. MaxRequests] /\ \A c \in Channel : got'[c] <= top[c]
    BY <1>0, <1>4, <2>1 DEF PageTyped, ServerTyped
  <2>3. CASE e.channel = active /\ view # "away"
    <3>1. MarkShown(bold) /\ missed' \subseteq Channel
      BY <1>0, <1>4, <1>10, <2>3 DEF OnMessageNew, PageTyped
    <3>2. PageTyped'
      BY <1>0, <1>5, <2>1, <2>2, <3>1, PageShows DEF PageTyped
    <3>3. QED BY <1>5, <1>6, <1>7, <3>2 DEF DeviceTyped
  <2>4. CASE ~(e.channel = active /\ view # "away")
    <3>1. bold' = bold \cup {e.channel} /\ UNCHANGED marks /\ missed' \subseteq Channel
      BY <1>8, <1>10, <2>4 DEF OnMessageNew
    <3>2. last[e.channel] > 0
      BY <1>0, <1>4, <2>1 DEF ServerTyped
    <3>3. PageTyped'
      BY <1>0, <1>4, <1>5, <1>9, <2>1, <2>2, <3>1, <3>2 DEF PageTyped
    <3>4. QED BY <1>5, <1>6, <1>7, <3>3 DEF DeviceTyped
  <2>5. QED BY <2>3, <2>4
<1>11. CASE e.kind \in {"read", "unread"} /\ OnUnreadUpdate(e)
  <2>1. /\ bold' = IF e.kind = "unread" THEN bold \cup {e.channel} ELSE bold \ {e.channel}
        /\ UNCHANGED <<got, active, view, cached, marks, invalid, strayed, unaware>> /\ missed' \subseteq Channel
        /\ e.kind = "unread" => last[e.channel] > 0
    BY <1>1, <1>3, <1>8, <1>11 DEF OnUnreadUpdate, NoticeFits
  <2>2. PageTyped'
    BY <1>0, <1>4, <1>5, <1>9, <2>1 DEF PageTyped
  <2>3. QED BY <1>5, <1>6, <1>7, <2>2 DEF DeviceTyped
<1>12. CASE e.kind = "created" /\ OnChannelCreated(e)
  <2>1. PageTyped'
    BY <1>0, <1>1, <1>5, <1>9, <1>12 DEF OnChannelCreated, PageTyped
  <2>2. QED BY <1>5, <1>6, <1>7, <2>1 DEF DeviceTyped
<1>13. CASE e.kind = "removed" /\ OnChannelRemoved(e)
  <2>1. /\ cached' = cached \ {e.channel} /\ UNCHANGED <<got, missed, strayed>>
        /\ invalid' \subseteq {"channels", "unreads"} /\ unaware' \subseteq Channel
    BY <1>0, <1>1, <1>4, <1>13 DEF OnChannelRemoved, DropChannel, PageTyped
  <2>2. CASE e.channel = active
    <3>1. PICK c \in Fallback(cached') : Activate(c) /\ MarkShown(bold)
      BY <1>13, <2>2 DEF OnChannelRemoved
    <3>2. c \in Channel \cup {None}
      BY <1>0, <2>1, <3>1, FallsBack DEF PageTyped
    <3>3. active' = c /\ view' \in View
      BY <1>0, <3>1 DEF Activate, View, PageTyped
    <3>4. PageTyped'
      BY <1>0, <1>5, <2>1, <3>1, <3>2, <3>3, PageShows DEF PageTyped
    <3>5. QED BY <1>5, <1>6, <1>7, <3>4 DEF DeviceTyped
  <2>3. CASE e.channel # active
    <3>1. UNCHANGED <<active, view, bold, marks>>
      BY <1>13, <2>3 DEF OnChannelRemoved
    <3>2. PageTyped'
      BY <1>0, <1>5, <1>9, <2>1, <3>1 DEF PageTyped
    <3>3. QED BY <1>5, <1>6, <1>7, <3>2 DEF DeviceTyped
  <2>4. QED BY <2>2, <2>3
<1>14. QED BY <1>3, <1>10, <1>11, <1>12, <1>13 DEF Receive

(* What it does of its own accord, and with the answers it gets, too.      *)
LEMMA PageStepTyped ==
  ASSUME DeviceTyped,
         \/ \E c \in Channel : Select(c)
         \/ \E h \in Handler : TakeChannels(h) \/ TakeUnreads(h)
         \/ Reconnect \/ Look \/ FetchMessages
  PROVE  DeviceTyped'
<1> USE RequestsAssumption
<1>0. ServerTyped /\ PageTyped /\ MarksTyped /\ QueueTyped /\ ProcShape
  BY DEF DeviceTyped, MarksTyped
<1>1. ASSUME UNCHANGED <<server, requests>>, rooms' \subseteq Channel
      PROVE  ServerTyped' /\ UNCHANGED <<last, top>>
  BY <1>0, <1>1 DEF server, ServerTyped
<1>2. ASSUME UNCHANGED <<last, proc>> PROVE MarksTyped'
  BY <1>0, <1>2 DEF MarksTyped, ProcShape, DeviceRequest, MarkFits
<1>3. ASSUME UNCHANGED <<last, top, toPage>> PROVE QueueTyped'
  BY <1>0, <1>3 DEF QueueTyped, NoticeFits
<1>4. UNCHANGED last => \A m \in marks : MarkFits(m[1], m[2])'
  BY <1>0 DEF PageTyped, MarkFits
<1>5. ASSUME UNCHANGED <<last, top>>, NEW h \in Handler, Finish(h), ServerTyped' PROVE MarksTyped'
  <2>1. Moved(h, "idle", None, None, None)
    BY <1>0, <1>5, FinishMoves
  <2>2. Advances
    BY <1>0, <1>5 DEF ServerTyped, Advances
  <2>3. DeviceRequest(h)'
    BY <2>1 DEF Moved, DeviceRequest
  <2>4. QED BY <1>0, <1>5, <2>1, <2>2, <2>3, RequestTyped
<1>6. ASSUME NEW c \in Channel, Select(c) PROVE DeviceTyped'
  <2>1. /\ UNCHANGED <<server, rooms, toPage, invalid, cached, missed, unaware, proc, requests, got>>
        /\ strayed' \in BOOLEAN /\ active' = c /\ view' \in View /\ MarkShown(bold)
    BY <1>0, <1>6 DEF Select, Activate, View, PageTyped, requestVars
  <2>2. ServerTyped' /\ UNCHANGED <<last, top>>
    BY <1>0, <1>1, <2>1 DEF ServerTyped
  <2>3. PageTyped'
    BY <1>0, <2>1, <2>2, PageShows DEF PageTyped
  <2>4. QED BY <1>2, <1>3, <2>1, <2>2, <2>3 DEF DeviceTyped
<1>7. CASE FetchMessages
  <2>1. /\ UNCHANGED <<server, rooms, toPage, invalid, cached, missed, unaware, strayed, proc, requests, active, view>>
        /\ active \in Channel /\ got' = [got EXCEPT ![active] = top[active]] /\ MarkShown(bold)
    BY <1>0, <1>7 DEF FetchMessages, requestVars, ServerTyped
  <2>2. ServerTyped' /\ UNCHANGED <<last, top>>
    BY <1>0, <1>1, <2>1 DEF ServerTyped
  <2>3. got' \in [Channel -> 0 .. MaxRequests] /\ \A c \in Channel : got'[c] <= top[c]
    BY <1>0, <2>1 DEF ServerTyped, PageTyped
  <2>4. PageTyped'
    BY <1>0, <2>1, <2>2, <2>3, PageShows DEF PageTyped
  <2>5. QED BY <1>2, <1>3, <2>1, <2>2, <2>4 DEF DeviceTyped
<1>8. CASE Look
  <2>1. /\ UNCHANGED <<server, rooms, toPage, invalid, cached, missed, unaware, strayed, proc, requests, active, got>>
        /\ view' \in View /\ (MarkShown(bold) \/ UNCHANGED <<bold, marks>>)
    BY <1>8 DEF Look, requestVars
  <2>2. ServerTyped' /\ UNCHANGED <<last, top>>
    BY <1>0, <1>1, <2>1 DEF ServerTyped
  <2>3. PageTyped'
    <3>1. CASE MarkShown(bold)
      BY <1>0, <2>1, <2>2, <3>1, PageShows DEF PageTyped
    <3>2. CASE UNCHANGED <<bold, marks>>
      BY <1>0, <1>4, <2>1, <2>2, <3>2 DEF PageTyped
    <3>3. QED BY <2>1, <3>1, <3>2
  <2>4. QED BY <1>2, <1>3, <2>1, <2>2, <2>3 DEF DeviceTyped
<1>9. CASE Reconnect
  <2>1. /\ UNCHANGED <<server, page, missed, unaware, proc>> /\ requests' = requests + 1 /\ requests < MaxRequests
        /\ rooms' \subseteq Channel /\ toPage' = <<>> /\ invalid' = {"channels", "unreads"}
    BY <1>0, <1>9 DEF Reconnect, Answer, ServerTyped
  <2>2. ServerTyped' /\ UNCHANGED <<last, top>>
    BY <1>0, <2>1 DEF server, ServerTyped
  <2>3. PageTyped'
    BY <1>0, <1>4, <2>1, <2>2 DEF page, PageTyped
  <2>4. QueueTyped'
    BY <2>1 DEF QueueTyped
  <2>5. QED BY <1>2, <2>1, <2>2, <2>3, <2>4 DEF DeviceTyped
<1>10. ASSUME NEW h \in Handler, TakeChannels(h) PROVE DeviceTyped'
  <2>1. proc[h].seen \subseteq Channel
    BY <1>0, <1>10 DEF TakeChannels, At, MarksTyped, DeviceRequest
  <2>2. /\ UNCHANGED <<server, toPage, invalid, missed, requests, got>> /\ Finish(h)
        /\ cached' = proc[h].seen /\ rooms' \subseteq Channel /\ strayed' \in BOOLEAN
        /\ unaware' \subseteq Channel
    BY <1>0, <1>10 DEF TakeChannels, Finish, ServerTyped
  <2>3. ServerTyped' /\ UNCHANGED <<last, top>>
    BY <1>1, <2>2
  <2>4. PageTyped'
    <3>1. CASE active = None
      <4>1. PICK c \in Fallback(cached') : Activate(c) /\ MarkShown(bold)
        BY <1>10, <3>1 DEF TakeChannels
      <4>2. c \in Channel \cup {None}
        BY <2>1, <2>2, <4>1, FallsBack
      <4>3. active' = c /\ view' \in View
        BY <1>0, <4>1 DEF Activate, View, PageTyped
      <4>4. QED BY <1>0, <2>1, <2>2, <2>3, <4>1, <4>2, <4>3, PageShows DEF PageTyped
    <3>2. CASE active # None
      <4>1. UNCHANGED <<active, view, bold, marks>>
        BY <1>10, <3>2 DEF TakeChannels
      <4>2. QED BY <1>0, <1>4, <2>1, <2>2, <2>3, <4>1 DEF PageTyped
    <3>3. QED BY <3>1, <3>2
  <2>5. QED BY <1>3, <1>5, <2>2, <2>3, <2>4 DEF DeviceTyped
<1>11. ASSUME NEW h \in Handler, TakeUnreads(h) PROVE DeviceTyped'
  <2>1. \A c \in proc[h].seen : c \in Channel /\ last[c] > 0
    BY <1>0, <1>11 DEF TakeUnreads, At, MarksTyped, DeviceRequest
  <2>2. /\ UNCHANGED <<server, rooms, toPage, invalid, requests, got, cached, active, view, marks,
                       unaware, strayed>>
        /\ bold' = proc[h].seen /\ missed' \subseteq Channel /\ Finish(h)
    BY <1>11 DEF TakeUnreads, Finish
  <2>3. ServerTyped' /\ UNCHANGED <<last, top>>
    BY <1>0, <1>1, <2>2 DEF ServerTyped
  <2>4. PageTyped'
    BY <1>0, <1>4, <2>1, <2>2, <2>3 DEF PageTyped
  <2>5. QED BY <1>3, <1>5, <2>2, <2>3, <2>4 DEF DeviceTyped
<1>12. QED BY <1>6, <1>7, <1>8, <1>9, <1>10, <1>11

(* Every step of the page keeps the types.                                 *)
LEMMA DeviceTypes ==
  ASSUME DeviceTyped, DeviceNext
  PROVE  DeviceTyped'
BY OthersTyped, TellingTyped, DeviceRequestsTyped, ReceiveTyped, PageStepTyped, DeviceAssumption
   DEF DeviceNext

(* A fetch under way is so after a step that moves another request.        *)
LEMMA StillFetching ==
  ASSUME NEW query, NEW h \in Handler, NEW pc, NEW u, NEW ref, NEW seen, Moved(h, pc, u, ref, seen),
         proc[h].pc # query
  PROVE  Fetching(query) => Fetching(query)'
BY DEF Fetching, At, Moved

(* A channel keeps its place in the list, or what puts it right, in a step  *)
(* that moves a request and takes nothing from the queue.                  *)
LEMMA ListStillToCome ==
  ASSUME NEW h \in Handler, NEW pc, NEW u, NEW ref, NEW seen, Moved(h, pc, u, ref, seen), NEW c,
         proc[h].pc # "channels",
         proc[h].pc \in {"tellAdded", "tellRemoved"} => proc[h].ref # c \/ ListToCome(c)',
         "channels" \in invalid => "channels" \in invalid' \/ Fetching("channels")',
         \A i \in DOMAIN toPage : i \in DOMAIN toPage' /\ toPage'[i] = toPage[i]
  PROVE  ListToCome(c) => ListToCome(c)'
<1>1. Fetching("channels") => Fetching("channels")'
  BY StillFetching
<1>2. (\E g \in Handler : proc[g].pc \in {"tellAdded", "tellRemoved"} /\ proc[g].ref = c)
        => ListToCome(c)' \/ \E g \in Handler : proc'[g].pc \in {"tellAdded", "tellRemoved"} /\ proc'[g].ref = c
  BY DEF Moved
<1>3. QED BY <1>1, <1>2 DEF ListToCome

(* What leaves the list and the memberships alone, and gives up nothing    *)
(* that is to come.                                                        *)
LEMMA ListKept ==
  ASSUME ListFollows, UNCHANGED <<joined, cached, unaware, strayed>>,
         \A c \in Channel : ListToCome(c) => ListToCome(c)', active' = active \/ active' \in cached
  PROVE  ListFollows'
BY DEF ListFollows

(* The steps of others.                                                    *)
LEMMA ListUnderEvents ==
  ASSUME DeviceTyped, ListFollows, NEW c \in Channel,
         \/ \E kind \in {"new", "reply", "forward"} : MessageArrives(c, kind)
         \/ AddedTo(c) \/ ListChanges \/ \E h \in Handler : RemovedFrom(h, c)
  PROVE  ListFollows'
<1>0. ProcShape /\ QueueTyped /\ ServerTyped
  BY DEF DeviceTyped, MarksTyped
<1>1. /\ UNCHANGED <<cached, strayed, active>> /\ invalid \subseteq invalid'
      /\ \/ UNCHANGED toPage
         \/ \E n \in Nat : Send("new", c, n)
  <2>1. ASSUME NEW kind, MessageArrives(c, kind) PROVE last'[c] \in Nat
    BY <1>0, <2>1, RequestsAssumption DEF MessageArrives, ServerTyped
  <2>2. QED BY <2>1 DEF MessageArrives, AddedTo, ListChanges, RemovedFrom, page
<1>2. \A i \in DOMAIN toPage : i \in DOMAIN toPage' /\ toPage'[i] = toPage[i]
  BY <1>0, <1>1, NoticeSent
<1>3. ASSUME NEW d, Answer PROVE ListToCome(d) => ListToCome(d)'
  BY <1>1, <1>2, <1>3 DEF Answer, ListToCome, Fetching, At
<1>4. ASSUME NEW d, NEW h \in Handler, NEW pc, Begin(h, pc, None, c, {})
      PROVE  /\ ListToCome(d) => ListToCome(d)'
             /\ pc \in {"tellAdded", "tellRemoved"} => ListToCome(c)'
  <2>1. Moved(h, pc, None, c, {}) /\ proc[h].pc = "idle"
    BY <1>0, <1>4, BeginMoves
  <2>2. ListToCome(d) => ListToCome(d)'
    BY <1>1, <1>2, <2>1, ListStillToCome
  <2>3. QED BY <2>1, <2>2 DEF ListToCome, Moved
<1>5. ASSUME NEW kind, MessageArrives(c, kind) PROVE ListFollows'
  <2>1. UNCHANGED <<joined, unaware>>
    BY <1>5 DEF MessageArrives
  <2>2. \A d \in Channel : ListToCome(d) => ListToCome(d)'
    BY <1>3, <1>4, <1>5 DEF MessageArrives
  <2>3. QED BY <1>1, <2>1, <2>2, ListKept
<1>6. CASE ListChanges
  BY <1>1, <1>3, <1>6, ListKept DEF ListChanges, server
<1>7. CASE AddedTo(c)
  <2>1. joined' = joined \cup {c} /\ unaware \subseteq unaware'
    BY <1>7 DEF AddedTo
  <2>2. c \in unaware' \/ ListToCome(c)'
    BY <1>4, <1>7 DEF AddedTo
  <2>3. \A d \in Channel : ListToCome(d) => ListToCome(d)'
    BY <1>3, <1>4, <1>7 DEF AddedTo
  <2>4. QED BY <1>1, <2>1, <2>2, <2>3 DEF ListFollows
<1>8. ASSUME NEW h \in Handler, RemovedFrom(h, c) PROVE ListFollows'
  <2>1. joined' = joined \ {c} /\ unaware' = unaware
    BY <1>8 DEF RemovedFrom
  <2>2. ListToCome(c)' /\ \A d \in Channel : ListToCome(d) => ListToCome(d)'
    BY <1>4, <1>8 DEF RemovedFrom
  <2>3. QED BY <1>1, <2>1, <2>2 DEF ListFollows
<1>9. QED BY <1>5, <1>6, <1>7, <1>8

(* What is told, or lost on the way.                                       *)
LEMMA ListUnderTelling ==
  ASSUME DeviceTyped, ListFollows, NEW h \in Handler,
         Push(h) \/ PushDies(h) \/ TellAdded(h) \/ TellRemoved(h) \/ TellDies(h)
  PROVE  ListFollows'
<1> PICK ref : ref = proc[h].ref
  OBVIOUS
<1>0. ProcShape /\ QueueTyped /\ DeviceRequest(h)
  BY DEF DeviceTyped, MarksTyped
<1>1. /\ Finish(h) /\ UNCHANGED <<joined, cached, strayed, active, invalid>>
      /\ proc[h].pc \in {"push", "tellAdded", "tellRemoved"} /\ unaware \subseteq unaware'
      /\ \/ UNCHANGED toPage /\ (proc[h].pc \in {"tellAdded", "tellRemoved"} => ref \in unaware')
         \/ \E kind \in {"unread", "created", "removed"}, n \in {0, 1} :
              Send(kind, ref, n) /\ (proc[h].pc \in {"tellAdded", "tellRemoved"} => kind # "unread")
  BY DEF Push, PushDies, TellAdded, TellRemoved, TellDies, At, server, page, deviceVars
<1>2. ref \in Channel
  BY <1>0, <1>1 DEF DeviceRequest
<1>3. /\ \A i \in DOMAIN toPage : i \in DOMAIN toPage' /\ toPage'[i] = toPage[i]
      /\ proc[h].pc \in {"tellAdded", "tellRemoved"} => ref \in unaware' \/ ListToCome(ref)'
  <2>1. ASSUME NEW kind \in {"unread", "created", "removed"}, NEW n \in {0, 1}, Send(kind, ref, n)
        PROVE  /\ \A i \in DOMAIN toPage : i \in DOMAIN toPage' /\ toPage'[i] = toPage[i]
               /\ kind # "unread" => ListToCome(ref)'
    <3>1. \E k \in DOMAIN toPage' : toPage'[k].kind = kind /\ toPage'[k].channel = ref
      BY <1>0, <1>2, <2>1, NoticeSent
    <3>2. \A i \in DOMAIN toPage : i \in DOMAIN toPage' /\ toPage'[i] = toPage[i]
      BY <1>0, <1>2, <2>1, NoticeSent
    <3>3. QED BY <3>1, <3>2 DEF ListToCome
  <2>2. QED BY <1>1, <2>1
<1>4. Moved(h, "idle", None, None, None)
  BY <1>0, <1>1, FinishMoves
<1>5. \A c \in Channel \ unaware' : ListToCome(c) => ListToCome(c)'
  BY <1>1, <1>3, <1>4, ListStillToCome
<1>6. QED BY <1>1, <1>5 DEF ListFollows

(* The steps of the requests.                                              *)
LEMMA ListUnderRequests ==
  ASSUME DeviceTyped, ListFollows, NEW h \in Handler,
         \/ Mark(h) \/ Echo(h) \/ MarkFails(h) \/ SendMark(h) \/ \E c \in Channel : OtherDeviceReads(h, c)
         \/ \E q \in invalid : FetchQuery(h, q)
  PROVE  ListFollows'
<1>0. ProcShape /\ DeviceRequest(h) /\ QueueTyped
  BY DEF DeviceTyped, MarksTyped
<1>1. ASSUME UNCHANGED <<joined, cached, unaware, strayed, active, invalid>>,
             NEW pc, NEW u, NEW ref, NEW seen, Moved(h, pc, u, ref, seen),
             proc[h].pc \in {"idle", "mark", "echo"},
             \A i \in DOMAIN toPage : i \in DOMAIN toPage' /\ toPage'[i] = toPage[i]
      PROVE  ListFollows'
  BY <1>1, ListKept, ListStillToCome
<1>2. CASE Mark(h)
  <2>1. UNCHANGED <<joined, cached, toPage, unaware, strayed, active, invalid>> /\ proc[h].pc = "mark"
    BY <1>2 DEF Mark, page, At
  <2>2. PICK s : GotoWith(h, "echo", s)
    BY <1>2 DEF Mark
  <2>3. QED BY <1>0, <1>1, <2>1, <2>2, GotoWithMoves
<1>3. CASE Echo(h)
  <2>1. /\ UNCHANGED <<joined, cached, unaware, strayed, active, invalid>> /\ proc[h].pc = "echo" /\ Finish(h)
        /\ proc[h].ref \in Channel
    BY <1>0, <1>3 DEF Echo, server, page, At, DeviceRequest
  <2>2. PICK kind \in {"read", "unread"} : Send(kind, proc[h].ref, 0)
    BY <1>3 DEF Echo
  <2>3. \A i \in DOMAIN toPage : i \in DOMAIN toPage' /\ toPage'[i] = toPage[i]
    BY <1>0, <2>1, <2>2, NoticeSent
  <2>4. QED BY <1>0, <1>1, <2>1, <2>3, FinishMoves
<1>4. CASE MarkFails(h)
  <2>1. /\ UNCHANGED <<joined, cached, toPage, unaware, strayed, active, invalid>>
        /\ proc[h].pc \in {"mark", "echo"} /\ Finish(h)
    BY <1>4 DEF MarkFails, server, page
  <2>2. QED BY <1>0, <1>1, <2>1, FinishMoves
<1>5. CASE SendMark(h)
  <2>1. PICK m \in marks : Start(h, "mark", m[1], {m[2]})
    BY <1>5 DEF SendMark
  <2>2. UNCHANGED <<joined, cached, toPage, unaware, strayed, active, invalid>>
    BY <1>5 DEF SendMark, server
  <2>3. QED BY <1>0, <1>1, <2>1, <2>2, StartMoves
<1>6. ASSUME NEW c \in Channel, OtherDeviceReads(h, c) PROVE ListFollows'
  BY <1>0, <1>1, <1>6, BeginMoves DEF OtherDeviceReads, deviceVars
<1>7. ASSUME NEW q \in invalid, FetchQuery(h, q) PROVE ListFollows'
  <2> DEFINE S == IF q = "channels" THEN joined ELSE {c \in Channel : Unread(c)}
  <2>1. /\ Start(h, q, None, S) /\ invalid' = invalid \ {q}
        /\ UNCHANGED <<joined, cached, toPage, unaware, strayed, active>>
    BY <1>7 DEF FetchQuery, server, page
  <2>2. Moved(h, q, None, None, S) /\ proc[h].pc = "idle"
    BY <1>0, <2>1, StartMoves
  <2>3. q = "channels" => Fetching("channels")'
    BY <2>2 DEF Moved, Fetching, At
  <2>4. \A c \in Channel : ListToCome(c) => ListToCome(c)'
    BY <2>1, <2>2, <2>3, ListStillToCome
  <2>5. QED BY <2>1, <2>4, ListKept
<1>8. QED BY <1>2, <1>3, <1>4, <1>5, <1>6, <1>7

(* What the page does with a notice.                                       *)
LEMMA ListUnderReceive ==
  ASSUME DeviceTyped, ListFollows, Receive
  PROVE  ListFollows'
<1>0. /\ Head(toPage) = toPage[1] /\ 1 \in DOMAIN toPage
      /\ \A i \in DOMAIN toPage : i = 1 \/ (i > 1 /\ i - 1 \in DOMAIN toPage' /\ toPage'[i - 1] = toPage[i])
  <2>1. QueueTyped /\ toPage # <<>> /\ toPage' = Tail(toPage)
    BY DEF DeviceTyped, Receive
  <2>2. QED BY <2>1, NoticeTaken
<1>1. PICK e : e = Head(toPage) /\ e = toPage[1]
  BY <1>0
<1>2. UNCHANGED <<joined, strayed, proc>>
  BY DEF Receive, server, requestVars
<1>3. ASSUME NEW c, ListToCome(c), invalid \subseteq invalid',
             e.kind \in {"created", "removed"} => e.channel # c
      PROVE  ListToCome(c)'
  <2>1. ASSUME NEW i \in DOMAIN toPage, toPage[i].kind \in {"created", "removed"}, toPage[i].channel = c
        PROVE  ListToCome(c)'
    <3>1. i # 1
      BY <1>1, <1>3, <2>1
    <3>2. i - 1 \in DOMAIN toPage' /\ toPage'[i - 1] = toPage[i]
      BY <1>0, <3>1
    <3>3. QED BY <2>1, <3>2 DEF ListToCome
  <2>2. QED BY <1>2, <1>3, <2>1 DEF ListToCome, Fetching, At
<1>4. ASSUME e.kind \notin {"created", "removed"}, UNCHANGED <<active, cached, invalid, unaware>>
      PROVE  ListFollows'
  BY <1>2, <1>3, <1>4, ListKept
<1>5. CASE e.kind = "new" /\ OnMessageNew(e)
  BY <1>4, <1>5 DEF OnMessageNew
<1>6. CASE e.kind \in {"read", "unread"} /\ OnUnreadUpdate(e)
  BY <1>4, <1>6 DEF OnUnreadUpdate
<1>7. CASE e.kind = "created" /\ OnChannelCreated(e)
  BY <1>2, <1>7 DEF OnChannelCreated, ListFollows, ListToCome
<1>8. CASE e.kind = "removed" /\ OnChannelRemoved(e)
  <2>1. /\ cached' = cached \ {e.channel} /\ invalid \subseteq invalid'
        /\ unaware' = IF e.channel \in joined THEN unaware \cup {e.channel} ELSE unaware \ {e.channel}
    BY <1>8 DEF OnChannelRemoved, DropChannel
  <2>2. strayed \/ active' \in cached' \/ cached' = {}
    <3>1. CASE e.channel = active
      <4>1. PICK c \in Fallback(cached') : active' = c
        BY <1>8, <3>1 DEF OnChannelRemoved, Activate
      <4>2. QED BY <4>1, FallsBack
    <3>2. CASE e.channel # active
      <4>1. active' = active
        BY <1>8, <3>2 DEF OnChannelRemoved
      <4>2. QED BY <2>1, <3>2, <4>1 DEF ListFollows
    <3>3. QED BY <3>1, <3>2
  <2>3. ASSUME NEW c \in Channel \ unaware' PROVE ListToCome(c)' \/ (c \in cached' <=> c \in joined')
    <3>1. CASE c = e.channel
      BY <1>2, <2>1, <2>3, <3>1
    <3>2. CASE c # e.channel
      BY <1>2, <1>3, <2>1, <2>3, <3>2 DEF ListFollows
    <3>3. QED BY <3>1, <3>2
  <2>4. QED BY <1>2, <2>2, <2>3 DEF ListFollows
<1>9. QED BY <1>1, <1>5, <1>6, <1>7, <1>8 DEF Receive

(* What it does of its own accord.                                         *)
LEMMA ListUnderPage ==
  ASSUME DeviceTyped, ListFollows,
         \/ \E c \in Channel : Select(c)
         \/ \E h \in Handler : TakeChannels(h) \/ TakeUnreads(h)
         \/ Reconnect \/ Look \/ FetchMessages
  PROVE  ListFollows'
<1>0. ProcShape
  BY DEF DeviceTyped, MarksTyped
<1>1. CASE Look \/ FetchMessages
  <2>1. UNCHANGED <<joined, cached, toPage, unaware, strayed, invalid, proc, active>>
    BY <1>1 DEF Look, FetchMessages, server, requestVars
  <2>2. QED BY <2>1, ListKept DEF ListToCome, Fetching, At
<1>s. ASSUME NEW c \in Channel, Select(c) PROVE ListFollows'
  <2>1. UNCHANGED <<joined, cached, toPage, unaware, invalid, proc>> /\ active' \in cached
    BY <1>s DEF Select, Activate, server, requestVars
  <2>2. QED BY <2>1 DEF ListFollows, ListToCome, Fetching, At
<1>2. CASE Reconnect
  BY <1>2 DEF Reconnect, page, server, ListFollows, ListToCome
<1>3. ASSUME NEW h \in Handler, TakeUnreads(h) PROVE ListFollows'
  <2>1. /\ UNCHANGED <<joined, cached, toPage, unaware, strayed, invalid, active>>
        /\ proc[h].pc = "unreads" /\ Finish(h)
    BY <1>3 DEF TakeUnreads, At, server
  <2>2. QED BY <1>0, <2>1, FinishMoves, ListStillToCome, ListKept
<1>4. ASSUME NEW h \in Handler, TakeChannels(h) PROVE ListFollows'
  <2>1. /\ UNCHANGED joined /\ unaware' = {c \in Channel : (c \in cached') # (c \in joined)}
        /\ strayed' = (active \notin cached' \cup {None})
    BY <1>4 DEF TakeChannels, server
  <2>2. strayed' \/ active' \in cached' \/ cached' = {}
    <3>1. CASE active = None
      <4>1. PICK c \in Fallback(cached') : active' = c
        BY <1>4, <3>1 DEF TakeChannels, Activate
      <4>2. QED BY <4>1, FallsBack
    <3>2. CASE active # None
      <4>1. active' = active
        BY <1>4, <3>2 DEF TakeChannels
      <4>2. QED BY <2>1, <3>2, <4>1
    <3>3. QED BY <3>1, <3>2
  <2>3. \A c \in Channel \ unaware' : c \in cached' <=> c \in joined'
    BY <2>1
  <2>4. QED BY <2>2, <2>3 DEF ListFollows
<1>5. QED BY <1>1, <1>s, <1>2, <1>3, <1>4

(* Every step of the page keeps its list right.                            *)
LEMMA ListStep ==
  ASSUME DeviceTyped, ListFollows, DeviceNext
  PROVE  ListFollows'
BY ListUnderEvents, ListUnderTelling, ListUnderRequests, ListUnderReceive, ListUnderPage, DeviceAssumption
   DEF DeviceNext

(* A channel keeps its badge right in a step that neither sets it nor       *)
(* changes what the server has.                                            *)
BadgeKept(c) ==
  /\ c \in joined \ missed /\ (BadgeToCome(c) => BadgeToCome(c)')
  /\ BadgeToCome(c)' \/ ((c \in bold' <=> c \in bold) /\ (Unread(c)' <=> Unread(c)))

(* Every other channel than those needs a reason of its own.               *)
LEMMA BadgesKept ==
  ASSUME BadgesFollow,
         \A c \in joined' \ missed' :
           BadgeKept(c) \/ BadgeToCome(c)' \/ (c \in bold' <=> Unread(c)')
  PROVE  BadgesFollow'
BY DEF BadgesFollow, BadgeKept

(* A badge has what sets it still to come after a step that moves another  *)
(* request.                                                                *)
LEMMA BadgeStillToCome ==
  ASSUME NEW h \in Handler, NEW pc, NEW u, NEW ref, NEW seen, Moved(h, pc, u, ref, seen), NEW c,
         proc[h].pc # "unreads", proc[h].pc \in {"mark", "echo"} => proc[h].ref # c,
         "unreads" \in invalid => "unreads" \in invalid' \/ Fetching("unreads")',
         \A m \in marks : m[1] = c => BadgeToCome(c)' \/ \E k \in marks' : k[1] = c,
         \A i \in DOMAIN toPage : i \in DOMAIN toPage' /\ toPage'[i] = toPage[i]
  PROVE  BadgeToCome(c) => BadgeToCome(c)'
<1>1. Fetching("unreads") => Fetching("unreads")'
  BY StillFetching
<1>2. (\E g \in Handler : proc[g].pc \in {"mark", "echo"} /\ proc[g].ref = c)
        => \E g \in Handler : proc'[g].pc \in {"mark", "echo"} /\ proc'[g].ref = c
  BY DEF Moved
<1>3. QED BY <1>1, <1>2 DEF BadgeToCome

(* The steps of others.                                                    *)
LEMMA BadgesUnderEvents ==
  ASSUME DeviceTyped, BadgesFollow, NEW c \in Channel,
         \/ \E kind \in {"new", "reply", "forward"} : MessageArrives(c, kind)
         \/ AddedTo(c) \/ ListChanges \/ \E h \in Handler : RemovedFrom(h, c)
  PROVE  BadgesFollow'
<1>0. /\ UNCHANGED <<bold, marks>> /\ invalid \subseteq invalid' /\ missed \subseteq missed'
      /\ ProcShape /\ QueueTyped /\ ServerTyped /\ PageTyped
  BY DEF MessageArrives, AddedTo, RemovedFrom, ListChanges, page, DeviceTyped, MarksTyped
<1>a. Answer \/ \E h \in Handler : \E pc \in {"push", "tellAdded", "tellRemoved"} : Begin(h, pc, None, c, {})
  BY DEF MessageArrives, AddedTo, ListChanges, RemovedFrom
<1>1. ASSUME NEW d, \A i \in DOMAIN toPage : i \in DOMAIN toPage' /\ toPage'[i] = toPage[i]
      PROVE  BadgeToCome(d) => BadgeToCome(d)'
  <2>1. CASE Answer
    BY <1>0, <1>1, <2>1 DEF Answer, BadgeToCome, Fetching, At
  <2>2. ASSUME NEW h \in Handler, NEW pc, Begin(h, pc, None, c, {})
        PROVE  BadgeToCome(d) => BadgeToCome(d)'
    <3>1. Moved(h, pc, None, c, {}) /\ proc[h].pc = "idle"
      BY <1>0, <2>2, BeginMoves
    <3>2. \A m \in marks : m[1] = d => \E k \in marks' : k[1] = d
      BY <1>0
    <3>3. QED BY <1>0, <1>1, <3>1, <3>2, BadgeStillToCome
  <2>3. QED BY <1>a, <2>1, <2>2
<1>2. ASSUME NEW kind, MessageArrives(c, kind) PROVE BadgesFollow'
  <2>1. /\ joined' = joined /\ readTo' = readTo /\ last' = [last EXCEPT ![c] = @ + 1]
        /\ \/ Send("new", c, last'[c])
           \/ missed' = missed \cup {c} /\ toPage' = toPage
    BY <1>2 DEF MessageArrives
  <2>2. /\ \A i \in DOMAIN toPage : i \in DOMAIN toPage' /\ toPage'[i] = toPage[i]
        /\ c \notin missed' => \E k \in DOMAIN toPage' : toPage'[k].kind = "new" /\ toPage'[k].channel = c
    <3>1. CASE Send("new", c, last'[c])
      <4>1. last'[c] \in Nat
        BY <1>0, <2>1, RequestsAssumption DEF ServerTyped
      <4>2. QED BY <1>0, <2>1, <3>1, <4>1, NoticeSent
    <3>2. QED BY <2>1, <3>1
  <2>3. c \in missed' \/ BadgeToCome(c)'
    BY <2>2 DEF BadgeToCome, SetsBadge
  <2>4. \A d \in joined : d # c => (Unread(d)' <=> Unread(d))
    BY <1>0, <2>1 DEF Unread, ServerTyped
  <2>5. QED BY <1>0, <1>1, <2>1, <2>2, <2>3, <2>4, BadgesKept DEF BadgeKept
<1>3. CASE AddedTo(c)
  <2>1. /\ joined' = joined \cup {c} /\ UNCHANGED <<last, readTo, toPage>>
        /\ last[c] > 0 => c \in missed'
    BY <1>3 DEF AddedTo
  <2>2. \A i \in DOMAIN toPage : i \in DOMAIN toPage' /\ toPage'[i] = toPage[i]
    BY <2>1
  <2>3. ASSUME c \notin missed' PROVE c \notin bold' /\ ~Unread(c)'
    BY <1>0, <2>1, <2>3, RequestsAssumption DEF PageTyped, ServerTyped, Unread
  <2>4. \A d \in joined : Unread(d)' <=> Unread(d)
    BY <2>1 DEF Unread
  <2>5. QED BY <1>0, <1>1, <2>1, <2>2, <2>3, <2>4, BadgesKept DEF BadgeKept
<1>4. ASSUME NEW h \in Handler, RemovedFrom(h, c) PROVE BadgesFollow'
  <2>1. /\ joined' = joined \ {c} /\ last' = last /\ readTo' = [readTo EXCEPT ![c] = 0]
        /\ toPage' = toPage
    BY <1>4 DEF RemovedFrom
  <2>2. \A i \in DOMAIN toPage : i \in DOMAIN toPage' /\ toPage'[i] = toPage[i]
    BY <2>1
  <2>3. \A d \in joined' : Unread(d)' <=> Unread(d)
    BY <1>0, <2>1 DEF Unread, ServerTyped
  <2>4. QED BY <1>0, <1>1, <2>1, <2>2, <2>3, BadgesKept DEF BadgeKept
<1>5. CASE ListChanges
  <2>1. UNCHANGED <<joined, last, readTo, toPage>>
    BY <1>5 DEF ListChanges, server
  <2>2. \A i \in DOMAIN toPage : i \in DOMAIN toPage' /\ toPage'[i] = toPage[i]
    BY <2>1
  <2>3. \A d \in joined' : Unread(d)' <=> Unread(d)
    BY <2>1 DEF Unread
  <2>4. QED BY <1>0, <1>1, <2>1, <2>2, <2>3, BadgesKept DEF BadgeKept
<1>6. QED BY <1>2, <1>3, <1>4, <1>5

(* What is told, or lost on the way.                                       *)
LEMMA BadgesUnderTelling ==
  ASSUME DeviceTyped, BadgesFollow, NEW h \in Handler,
         Push(h) \/ PushDies(h) \/ TellAdded(h) \/ TellRemoved(h) \/ TellDies(h)
  PROVE  BadgesFollow'
<1> PICK ref : ref = proc[h].ref
  OBVIOUS
<1>0. ProcShape /\ QueueTyped /\ DeviceRequest(h)
  BY DEF DeviceTyped, MarksTyped
<1>1. /\ Finish(h) /\ UNCHANGED <<joined, last, readTo, bold, marks, invalid, missed>>
      /\ proc[h].pc \in {"push", "tellAdded", "tellRemoved"}
      /\ UNCHANGED toPage
         \/ \E kind \in {"unread", "created", "removed"}, n \in {0, 1} : Send(kind, ref, n)
  BY DEF Push, PushDies, TellAdded, TellRemoved, TellDies, At, server, page, deviceVars
<1>2. ref \in Channel
  BY <1>0, <1>1 DEF DeviceRequest
<1>3. \A i \in DOMAIN toPage : i \in DOMAIN toPage' /\ toPage'[i] = toPage[i]
  BY <1>0, <1>1, <1>2, NoticeSent
<1>4. Moved(h, "idle", None, None, None)
  BY <1>0, <1>1, FinishMoves
<1>5. \A c : BadgeToCome(c) => BadgeToCome(c)'
  BY <1>1, <1>3, <1>4, BadgeStillToCome
<1>6. QED BY <1>1, <1>5, BadgesKept DEF BadgeKept, Unread

(* The steps of the requests.                                              *)
LEMMA BadgesUnderRequests ==
  ASSUME DeviceTyped, BadgesFollow, NEW h \in Handler,
         \/ Mark(h) \/ Echo(h) \/ MarkFails(h) \/ SendMark(h) \/ \E c \in Channel : OtherDeviceReads(h, c)
         \/ \E q \in invalid : FetchQuery(h, q)
  PROVE  BadgesFollow'
<1>0. ProcShape /\ DeviceRequest(h) /\ QueueTyped /\ ServerTyped
  BY DEF DeviceTyped, MarksTyped
<1> PICK ref : ref = proc[h].ref
  OBVIOUS
<1>1. CASE Mark(h)
  <2>1. /\ UNCHANGED <<joined, last, toPage, invalid, bold, marks, missed>> /\ proc[h].pc = "mark"
        /\ \A c \in joined : c # ref => readTo'[c] = readTo[c]
    BY <1>0, <1>1 DEF Mark, page, At, ServerTyped
  <2>2. PICK s : GotoWith(h, "echo", s)
    BY <1>1 DEF Mark
  <2>3. Moved(h, "echo", proc[h].user, ref, s)
    BY <1>0, <2>2, GotoWithMoves
  <2>4. BadgeToCome(ref)'
    BY <2>3 DEF BadgeToCome, Moved
  <2>5. \A c \in joined : c # ref => (Unread(c)' <=> Unread(c)) /\ (BadgeToCome(c) => BadgeToCome(c)')
    BY <2>1, <2>3, BadgeStillToCome DEF Unread
  <2>6. \A c \in joined' \ missed' : BadgeKept(c) \/ BadgeToCome(c)'
    BY <2>1, <2>4, <2>5 DEF BadgeKept
  <2>7. QED BY <2>6, BadgesKept
<1>2. CASE Echo(h)
  <2>1. /\ UNCHANGED <<joined, last, readTo, invalid, bold, marks>> /\ proc[h].pc = "echo" /\ Finish(h)
        /\ missed = missed' /\ ref \in Channel
    BY <1>0, <1>2 DEF Echo, server, page, At, DeviceRequest
  <2>2. PICK kind \in {"read", "unread"} : Send(kind, ref, 0)
    BY <1>2 DEF Echo
  <2>3. /\ \A i \in DOMAIN toPage : i \in DOMAIN toPage' /\ toPage'[i] = toPage[i]
        /\ \E k \in DOMAIN toPage' : toPage'[k].kind = kind /\ toPage'[k].channel = ref
    BY <1>0, <2>1, <2>2, NoticeSent
  <2>4. BadgeToCome(ref)'
    <3>1. SetsBadge(kind)
      BY DEF SetsBadge
    <3>2. QED BY <2>3, <3>1 DEF BadgeToCome
  <2>5. Moved(h, "idle", None, None, None)
    BY <1>0, <2>1, FinishMoves
  <2>6. \A c \in joined : c # ref => (BadgeToCome(c) => BadgeToCome(c)')
    BY <2>1, <2>3, <2>5, BadgeStillToCome
  <2>7. \A c : Unread(c)' <=> Unread(c)
    BY <2>1 DEF Unread
  <2>8. \A c \in joined' \ missed' : BadgeKept(c) \/ BadgeToCome(c)'
    BY <2>1, <2>4, <2>6, <2>7 DEF BadgeKept
  <2>9. QED BY <2>8, BadgesKept
<1>3. CASE MarkFails(h)
  <2>1. /\ UNCHANGED <<joined, last, readTo, toPage, invalid, bold, marks>> /\ proc[h].pc \in {"mark", "echo"}
        /\ missed' = missed \cup {proc[h].ref} /\ Finish(h)
    BY <1>3 DEF MarkFails, server, page
  <2>2. Moved(h, "idle", None, None, None)
    BY <1>0, <2>1, FinishMoves
  <2>3. \A c \in joined : c # proc[h].ref => (BadgeToCome(c) => BadgeToCome(c)')
    BY <2>1, <2>2, BadgeStillToCome
  <2>4. QED BY <2>1, <2>3, BadgesKept DEF BadgeKept, Unread
<1>4. CASE SendMark(h)
  <2>1. PICK m \in marks : marks' = marks \ {m} /\ Start(h, "mark", m[1], {m[2]})
    BY <1>4 DEF SendMark
  <2>2. UNCHANGED <<joined, last, readTo, toPage, invalid, bold, missed>>
    BY <1>4 DEF SendMark, server
  <2>3. Moved(h, "mark", None, m[1], {m[2]}) /\ proc[h].pc = "idle"
    BY <1>0, <2>1, StartMoves
  <2>4. BadgeToCome(m[1])'
    BY <2>3 DEF BadgeToCome, Moved
  <2>5. \A c \in joined : BadgeToCome(c) => BadgeToCome(c)'
    BY <2>1, <2>2, <2>3, <2>4, BadgeStillToCome
  <2>6. QED BY <2>2, <2>5, BadgesKept DEF BadgeKept, Unread
<1>5. ASSUME NEW d \in Channel, OtherDeviceReads(h, d) PROVE BadgesFollow'
  <2>1. UNCHANGED deviceVars /\ Begin(h, "mark", None, d, {last[d]})
    BY <1>5 DEF OtherDeviceReads
  <2>2. Moved(h, "mark", None, d, {last[d]}) /\ proc[h].pc = "idle"
    BY <1>0, <2>1, BeginMoves
  <2>3. \A c \in joined : BadgeToCome(c) => BadgeToCome(c)'
    BY <2>1, <2>2, BadgeStillToCome DEF deviceVars
  <2>4. QED BY <2>1, <2>3, BadgesKept DEF BadgeKept, Unread, deviceVars
<1>6. ASSUME NEW q \in invalid, FetchQuery(h, q) PROVE BadgesFollow'
  <2> DEFINE S == IF q = "channels" THEN joined ELSE {c \in Channel : Unread(c)}
  <2>1. /\ Start(h, q, None, S) /\ UNCHANGED <<joined, last, readTo, toPage, bold, marks>>
        /\ invalid' = invalid \ {q} /\ missed' = missed
    BY <1>6 DEF FetchQuery, server, page
  <2>2. Moved(h, q, None, None, S) /\ proc[h].pc = "idle"
    BY <1>0, <2>1, StartMoves
  <2>3. CASE q = "unreads"
    <3>1. Fetching("unreads")'
      BY <2>2, <2>3 DEF Moved, Fetching, At
    <3>2. QED BY <3>1 DEF BadgesFollow, BadgeToCome
  <2>4. CASE q # "unreads"
    <3>1. \A c \in joined : BadgeToCome(c) => BadgeToCome(c)'
      BY <2>1, <2>2, <2>4, BadgeStillToCome
    <3>2. QED BY <2>1, <2>4, <3>1, BadgesKept DEF BadgeKept, Unread
  <2>5. QED BY <2>3, <2>4
<1>7. QED BY <1>1, <1>2, <1>3, <1>4, <1>5, <1>6

(* A page that shows a channel clears the badges it will mark.             *)
LEMMA BadgesShown ==
  ASSUME DeviceTyped, DeviceTyped', BadgesFollow, MarkShown(bold),
         UNCHANGED <<joined, last, readTo, toPage, invalid, missed>>,
         \A c \in joined : BadgeToCome(c) => BadgeToCome(c)' \/ \E m \in marks : m[1] = c
  PROVE  BadgesFollow'
<1>1. /\ bold' \subseteq bold /\ \A c \in bold \ bold' : \E m \in marks' : m[1] = c
      /\ \A m \in marks : \E k \in marks' : k[1] = m[1]
  BY ShownMarked DEF DeviceTyped, PageTyped, ServerTyped
<1>2. \A c : (\E m \in marks' : m[1] = c) => BadgeToCome(c)'
  BY DEF BadgeToCome
<1>3. \A c \in joined : Unread(c)' <=> Unread(c)
  BY DEF Unread
<1>4. QED BY <1>1, <1>2, <1>3, BadgesKept DEF BadgeKept

(* What the page does with a notice.                                       *)
LEMMA BadgesUnderReceive ==
  ASSUME DeviceTyped, DeviceTyped', BadgesFollow, Receive
  PROVE  BadgesFollow'
<1>0. /\ Head(toPage) = toPage[1] /\ toPage[1] \in Notice /\ 1 \in DOMAIN toPage
      /\ DOMAIN toPage \subseteq Nat /\ DOMAIN toPage' \subseteq Nat
      /\ \A i \in DOMAIN toPage : i = 1 \/ (i > 1 /\ i - 1 \in DOMAIN toPage' /\ toPage'[i - 1] = toPage[i])
  <2>1. QueueTyped /\ toPage # <<>> /\ toPage' = Tail(toPage)
    BY DEF DeviceTyped, Receive
  <2>2. QED BY <2>1, NoticeTaken
<1>1. PICK e : e = Head(toPage) /\ e = toPage[1]
  BY <1>0
<1>2. UNCHANGED <<joined, last, readTo, proc>>
  BY DEF Receive, server, requestVars
<1>3. \A c : Unread(c)' <=> Unread(c)
  BY <1>2 DEF Unread
<1>4. \A query : Fetching(query)' <=> Fetching(query)
  BY <1>2 DEF Fetching, At
<1>5. ASSUME NEW c, BadgeToCome(c), invalid \subseteq invalid', \A m \in marks : \E k \in marks' : k[1] = m[1],
             SetsBadge(e.kind) => e.channel # c
      PROVE  BadgeToCome(c)'
  <2>1. ASSUME NEW i \in DOMAIN toPage, SetsBadge(toPage[i].kind), toPage[i].channel = c
        PROVE  BadgeToCome(c)'
    <3>1. i # 1
      BY <1>1, <1>5, <2>1
    <3>2. i - 1 \in DOMAIN toPage' /\ toPage'[i - 1] = toPage[i]
      BY <1>0, <3>1
    <3>3. QED BY <2>1, <3>2 DEF BadgeToCome
  <2>2. QED BY <1>2, <1>4, <1>5, <2>1 DEF BadgeToCome
<1>6. ASSUME NEW is \in BOOLEAN, Late(e, is), e.channel \in bold' <=> is, e.channel \notin missed'
      PROVE  BadgeToCome(e.channel)' \/ (e.channel \in bold' <=> Unread(e.channel)')
  <2>1. CASE \E i \in DOMAIN toPage' : toPage'[i].channel = e.channel /\ SetsBadge(toPage'[i].kind)
    BY <2>1 DEF BadgeToCome
  <2>2. CASE ~\E i \in DOMAIN toPage' : toPage'[i].channel = e.channel /\ SetsBadge(toPage'[i].kind)
    <3>1. is = Unread(e.channel)
      <4>1. e.channel \in Channel
        BY <1>0, <1>1 DEF Notice
      <4>2. QED BY <1>6, <2>2, <4>1 DEF Late
    <3>2. QED BY <1>3, <1>6, <3>1
  <2>3. QED BY <2>1, <2>2
<1>7. \A is : Late(e, is) => missed \ {e.channel} \subseteq missed'
  BY DEF Late
<1>8. CASE e.kind = "new" /\ OnMessageNew(e)
  <2>1. UNCHANGED <<active, view, invalid>>
    BY <1>8 DEF OnMessageNew
  <2>2. CASE e.channel = active /\ view # "away"
    <3>1. MarkShown(bold) /\ missed' = IF view # "reading" THEN missed \cup {e.channel} ELSE missed
      BY <1>8, <2>2 DEF OnMessageNew
    <3>2. /\ bold' \subseteq bold /\ \A c \in bold \ bold' : \E m \in marks' : m[1] = c
          /\ \A m \in marks : \E k \in marks' : k[1] = m[1]
      BY <1>2, <3>1, ShownMarked DEF DeviceTyped, PageTyped, ServerTyped
    <3>3. \A c : (\E m \in marks' : m[1] = c) => BadgeToCome(c)'
      BY DEF BadgeToCome
    <3>4. e.channel \in missed' \/ BadgeToCome(e.channel)'
      <4>1. CASE view = "reading"
        <5>1. e.channel \in Channel /\ active # None /\ got'[e.channel] > 0
          <6>1. e.channel \in Channel /\ e.n > 0 /\ got' = [got EXCEPT ![e.channel] = e.n]
            BY <1>0, <1>1, <1>8 DEF OnMessageNew, DeviceTyped, QueueTyped, NoticeFits, Notice
          <6>2. got \in [Channel -> 0 .. MaxRequests] /\ active # None
            BY <1>0, <1>1, <2>2, DeviceAssumption DEF DeviceTyped, PageTyped, Notice
          <6>3. QED BY <6>1, <6>2
        <5>2. <<active, got'[active]>> \in marks'
          BY <2>1, <2>2, <3>1, <4>1, <5>1 DEF MarkShown
        <5>3. QED BY <2>2, <3>3, <5>2
      <4>2. CASE view # "reading"
        BY <3>1, <4>2
      <4>3. QED BY <4>1, <4>2
    <3>5. \A c : c # e.channel => (BadgeToCome(c) => BadgeToCome(c)')
      BY <1>5, <2>1, <3>2
    <3>6. missed \subseteq missed'
      BY <3>1
    <3>7. QED BY <1>2, <1>3, <3>2, <3>3, <3>4, <3>5, <3>6, BadgesKept DEF BadgeKept
  <2>3. CASE ~(e.channel = active /\ view # "away")
    <3>1. bold' = bold \cup {e.channel} /\ marks' = marks /\ Late(e, TRUE)
      BY <1>8, <2>3 DEF OnMessageNew
    <3>2. \A c : c # e.channel => (BadgeToCome(c) => BadgeToCome(c)')
      BY <1>5, <2>1, <3>1
    <3>3. QED BY <1>2, <1>3, <1>6, <1>7, <3>1, <3>2, BadgesKept DEF BadgeKept
  <2>4. QED BY <2>2, <2>3
<1>9. CASE e.kind \in {"read", "unread"} /\ OnUnreadUpdate(e)
  <2>1. /\ bold' = IF e.kind = "unread" THEN bold \cup {e.channel} ELSE bold \ {e.channel}
        /\ UNCHANGED <<marks, invalid>> /\ Late(e, e.kind = "unread")
    BY <1>9 DEF OnUnreadUpdate
  <2>2. \A c : c # e.channel => (BadgeToCome(c) => BadgeToCome(c)')
    BY <1>5, <2>1
  <2>3. e.channel \notin missed' => BadgeToCome(e.channel)' \/ (e.channel \in bold' <=> Unread(e.channel)')
    BY <1>6, <2>1
  <2>4. QED BY <1>2, <1>3, <1>7, <2>1, <2>2, <2>3, BadgesKept DEF BadgeKept
<1>10. CASE e.kind = "created" /\ OnChannelCreated(e)
  <2>1. invalid \subseteq invalid' /\ UNCHANGED <<bold, marks, missed>>
    BY <1>10 DEF OnChannelCreated
  <2>2. \A c : BadgeToCome(c) => BadgeToCome(c)'
    BY <1>5, <1>10, <2>1 DEF SetsBadge
  <2>3. QED BY <1>2, <1>3, <2>1, <2>2, BadgesKept DEF BadgeKept
<1>11. CASE e.kind = "removed" /\ OnChannelRemoved(e)
  <2>1. invalid \subseteq invalid' /\ UNCHANGED missed /\ (MarkShown(bold) \/ UNCHANGED <<bold, marks>>)
    BY <1>11 DEF OnChannelRemoved, DropChannel
  <2>2. CASE MarkShown(bold)
    <3>1. /\ bold' \subseteq bold /\ \A c \in bold \ bold' : \E m \in marks' : m[1] = c
          /\ \A m \in marks : \E k \in marks' : k[1] = m[1]
      BY <1>2, <2>2, ShownMarked DEF DeviceTyped, PageTyped, ServerTyped
    <3>2. \A c : (\E m \in marks' : m[1] = c) => BadgeToCome(c)'
      BY DEF BadgeToCome
    <3>3. \A c : BadgeToCome(c) => BadgeToCome(c)'
      BY <1>5, <1>11, <2>1, <3>1 DEF SetsBadge
    <3>4. QED BY <1>2, <1>3, <2>1, <3>1, <3>2, <3>3, BadgesKept DEF BadgeKept
  <2>3. CASE UNCHANGED <<bold, marks>>
    <3>1. \A c : BadgeToCome(c) => BadgeToCome(c)'
      BY <1>5, <1>11, <2>1, <2>3 DEF SetsBadge
    <3>2. QED BY <1>2, <1>3, <2>1, <2>3, <3>1, BadgesKept DEF BadgeKept
  <2>4. QED BY <2>1, <2>2, <2>3
<1>12. QED BY <1>1, <1>8, <1>9, <1>10, <1>11 DEF Receive

(* What it does of its own accord.                                         *)
LEMMA BadgesUnderPage ==
  ASSUME DeviceTyped, DeviceTyped', BadgesFollow,
         \/ \E c \in Channel : Select(c)
         \/ \E h \in Handler : TakeChannels(h) \/ TakeUnreads(h)
         \/ Reconnect \/ Look \/ FetchMessages
  PROVE  BadgesFollow'
<1>0. ProcShape
  BY DEF DeviceTyped, MarksTyped
<1>1. CASE (\E c \in Channel : Select(c)) \/ Look \/ FetchMessages
  <2>1. UNCHANGED <<joined, last, readTo, toPage, invalid, missed, proc>>
    BY <1>1 DEF Select, Look, FetchMessages, server, requestVars
  <2>2. \A c : BadgeToCome(c) => BadgeToCome(c)' \/ \E m \in marks : m[1] = c
    BY <2>1 DEF BadgeToCome, Fetching, At
  <2>3. MarkShown(bold) \/ UNCHANGED <<bold, marks>>
    BY <1>1 DEF Select, Look, FetchMessages
  <2>4. CASE MarkShown(bold)
    BY <2>1, <2>2, <2>4, BadgesShown
  <2>5. CASE UNCHANGED <<bold, marks>>
    BY <2>1, <2>5 DEF BadgesFollow, BadgeToCome, Fetching, At, Unread
  <2>6. QED BY <2>3, <2>4, <2>5
<1>2. CASE Reconnect
  BY <1>2 DEF Reconnect, BadgesFollow, BadgeToCome
<1>3. ASSUME NEW h \in Handler, TakeUnreads(h) PROVE BadgesFollow'
  <2>1. /\ UNCHANGED <<joined, last, readTo>> /\ bold' = proc[h].seen /\ joined \subseteq Channel
        /\ missed' = {c \in Channel : (c \in proc[h].seen) # Unread(c)}
    BY <1>3 DEF TakeUnreads, server, DeviceTyped, ServerTyped
  <2>2. \A c \in joined' \ missed' : (c \in bold') = Unread(c)
    BY <2>1
  <2>3. \A c : Unread(c)' <=> Unread(c)
    BY <2>1 DEF Unread
  <2>4. QED BY <2>2, <2>3 DEF BadgesFollow
<1>4. ASSUME NEW h \in Handler, TakeChannels(h) PROVE BadgesFollow'
  <2>1. UNCHANGED <<joined, last, readTo, toPage, invalid, missed>> /\ proc[h].pc = "channels" /\ Finish(h)
    BY <1>4 DEF TakeChannels, server, At
  <2>2. Moved(h, "idle", None, None, None)
    BY <1>0, <2>1, FinishMoves
  <2>3. /\ Fetching("unreads") => Fetching("unreads")'
        /\ \A g \in Handler : proc[g].pc \in {"mark", "echo"} => proc'[g] = proc[g]
    BY <2>1, <2>2, StillFetching DEF Moved
  <2>4. \A c : BadgeToCome(c) => BadgeToCome(c)' \/ \E m \in marks : m[1] = c
    BY <2>1, <2>3 DEF BadgeToCome
  <2>5. MarkShown(bold) \/ UNCHANGED <<bold, marks>>
    BY <1>4 DEF TakeChannels
  <2>6. CASE MarkShown(bold)
    BY <2>1, <2>4, <2>6, BadgesShown
  <2>7. CASE UNCHANGED <<bold, marks>>
    <3>1. \A c : BadgeToCome(c) => BadgeToCome(c)'
      BY <2>4, <2>7 DEF BadgeToCome
    <3>2. QED BY <2>1, <2>7, <3>1, BadgesKept DEF BadgeKept, Unread
  <2>8. QED BY <2>5, <2>6, <2>7
<1>5. QED BY <1>1, <1>2, <1>3, <1>4

(* Every step of the page keeps its badges right.                          *)
LEMMA BadgesStep ==
  ASSUME DeviceTyped, DeviceTyped', BadgesFollow, DeviceNext
  PROVE  BadgesFollow'
BY BadgesUnderEvents, BadgesUnderTelling, BadgesUnderRequests, BadgesUnderReceive, BadgesUnderPage,
   DeviceAssumption DEF DeviceNext

(* What is found of a page of one user, for any number of channels,        *)
(* requests and events: the inductive invariant.                           *)
THEOREM DeviceInvariant == DeviceSpec => []DeviceInv
<1>1. RequestsInit /\ DeviceInit => DeviceInv
  <2> SUFFICES ASSUME RequestsInit, DeviceInit PROVE DeviceInv
    OBVIOUS
  <2>1. ProcShape /\ \A h \in Handler : proc[h].pc = "idle"
    BY InitShape
  <2>2. /\ joined \subseteq Channel /\ rooms = {} /\ last = [c \in Channel |-> 0] /\ readTo = last
        /\ top = last /\ got = last /\ toPage = <<>> /\ invalid = {"channels", "unreads"} /\ requests = 0
        /\ cached = {} /\ bold = {} /\ active = None /\ marks = {} /\ missed = {}
        /\ unaware = {} /\ strayed = FALSE /\ view = "reading"
    BY DeviceAssumption DEF DeviceInit, RequestsInit
  <2>3. ServerTyped
    BY <2>2, RequestsAssumption DEF ServerTyped
  <2>4. PageTyped
    <3>1. got \in [Channel -> 0 .. MaxRequests] /\ \A c \in Channel : got[c] <= top[c]
      BY <2>2, RequestsAssumption
    <3>2. active \in Channel \cup {None} /\ view \in View
      BY <2>2 DEF View
    <3>3. (\A c \in bold : c \in Channel /\ last[c] > 0)
          /\ \A m \in marks : m = <<m[1], m[2]>> /\ MarkFits(m[1], m[2])
      BY <2>2
    <3>4. QED BY <2>2, <3>1, <3>2, <3>3 DEF PageTyped
  <2>5. MarksTyped /\ QueueTyped
    BY <2>1, <2>2 DEF MarksTyped, DeviceRequest, QueueTyped
  <2>6. ListFollows /\ BadgesFollow
    BY <2>2 DEF ListFollows, ListToCome, BadgesFollow, BadgeToCome
  <2>7. QED BY <2>3, <2>4, <2>5, <2>6 DEF DeviceInv, DeviceTyped
<1>2. ASSUME DeviceInv, [DeviceNext]_<<requestVars, deviceVars>> PROVE DeviceInv'
  <2>1. CASE DeviceNext
    BY <1>2, <2>1, DeviceTypes, ListStep, BadgesStep DEF DeviceInv
  <2>2. CASE UNCHANGED <<requestVars, deviceVars>>
    <3>1. DeviceTyped'
      BY <1>2, <2>2
         DEF DeviceInv, DeviceTyped, ServerTyped, PageTyped, MarksTyped, ProcShape, DeviceRequest, MarkFits,
             QueueTyped, NoticeFits, requestVars, deviceVars
    <3>2. ListFollows'
      BY <1>2, <2>2
         DEF DeviceInv, ListFollows, ListToCome, Fetching, At, requestVars, deviceVars
    <3>3. BadgesFollow'
      BY <1>2, <2>2
         DEF DeviceInv, BadgesFollow, BadgeToCome, Unread, Fetching, At, requestVars, deviceVars
    <3>4. QED BY <3>1, <3>2, <3>3 DEF DeviceInv
  <2>3. QED BY <1>2, <2>1, <2>2
<1>3. QED BY <1>1, <1>2, PTL DEF DeviceSpec

(* "the server only pushes unread:update for mentions/DMs, plain messages   *)
(* bold locally and the next refetch confirms" (unreads.ts:31): once it has *)
(* settled the page shows as unread what the server has as unread, but for *)
(* the exceptions missed names.                                            *)
THEOREM BadgesRightAlways == DeviceSpec => []BadgesRight
<1>1. DeviceInv => BadgesRight
  <2> SUFFICES ASSUME DeviceInv, Settled, NEW c \in joined, c \notin missed PROVE c \in bold <=> Unread(c)
    BY DEF BadgesRight
  <2>1. ~BadgeToCome(c)
    BY DEF Settled, AllIdle, At, BadgeToCome, Fetching
  <2>2. QED BY <2>1 DEF DeviceInv, BadgesFollow
<1>2. QED BY <1>1, DeviceInvariant, PTL

(* A settled page lists what the user is in and shows a channel it lists    *)
(* (AppShell.tsx:67-73, 158-169), but for the channels unaware names, whose  *)
(* coming or going the page was not told of, and a list that came without   *)
(* the active channel.                                                      *)
THEOREM ActiveListedAlways == DeviceSpec => []ActiveListed
<1>1. DeviceInv => ActiveListed
  <2> SUFFICES ASSUME DeviceInv, Settled
               PROVE  /\ cached \ unaware = joined \ unaware
                      /\ active \in cached \/ cached = {} \/ strayed
    BY DEF ActiveListed
  <2>1. \A c : ~ListToCome(c)
    BY DEF Settled, AllIdle, At, ListToCome, Fetching
  <2>2. cached \subseteq Channel /\ joined \subseteq Channel
    BY DEF DeviceInv, DeviceTyped, ServerTyped, PageTyped
  <2>3. QED BY <2>1, <2>2 DEF DeviceInv, ListFollows
<1>2. QED BY <1>1, DeviceInvariant, PTL

(* The rows of the page keep their types.                                  *)
THEOREM DeviceTypeCorrect == DeviceSpec => []DeviceTypeOK
<1>1. DeviceInv => DeviceTypeOK
  <2> SUFFICES ASSUME DeviceInv PROVE DeviceTypeOK
    OBVIOUS
  <2>1. ServerTyped /\ PageTyped
    BY DEF DeviceInv, DeviceTyped
  <2>2. \A m \in marks : m = <<m[1], m[2]>> /\ m[1] \in Channel /\ m[2] \in 1 .. MaxRequests
    BY <2>1 DEF PageTyped, MarkFits
  <2>3. marks \subseteq Channel \X (1 .. MaxRequests)
    BY <2>2
  <2>4. QED BY <2>1, <2>3 DEF ServerTyped, PageTyped, DeviceTypeOK
<1>2. QED BY <1>1, DeviceInvariant, PTL

---------------------------------------------------------------------------
(* The smaller components together.                                        *)

(* A behaviour of the workspace is one of the component in focus: what is  *)
(* proved of the components holds of the runs of the workspace.            *)
THEOREM FocusIsComponent ==
  WorkspaceSpec =>
    /\ focus = "Polls" => PollsSpec
    /\ focus = "Meetings" => MeetingsSpec
    /\ focus = "Timeclock" => TimeclockSpec
    /\ focus = "Accounts" => AccountsSpec
    /\ focus = "Presence" => PresenceSpec
    /\ focus = "Typing" => TypingSpec
    /\ focus = "Planner" => PlannerSpec
    /\ focus = "Notes" => NotesSpec
    /\ focus = "Broadcast" => BroadcastSpec
    /\ focus = "Device" => DeviceSpec
    /\ focus = "Profile" => ProfileSpec
    /\ focus = "ChannelPanel" => ChannelPanelSpec
<1>1. WorkspaceInit => /\ RequestsInit
                       /\ PollsInit
                       /\ MeetingsInit
                       /\ TimeclockInit
                       /\ AccountsInit
                       /\ PresenceInit
                       /\ TypingInit
                       /\ PlannerInit
                       /\ NotesInit
                       /\ BroadcastInit
                       /\ DeviceInit
                       /\ ProfileInit
                       /\ ChannelPanelInit
  BY DEF WorkspaceInit
<1>2. [WorkspaceNext]_workspaceVars => focus' = focus
  BY DEF WorkspaceNext, workspaceVars
<1>3. focus = "Polls" /\ [WorkspaceNext]_workspaceVars => [PollsNext]_<<requestVars, pollsVars>>
  BY DEF WorkspaceNext, workspaceVars
<1>4. focus = "Meetings" /\ [WorkspaceNext]_workspaceVars => [MeetingsNext]_<<requestVars, meetingsVars>>
  BY DEF WorkspaceNext, workspaceVars
<1>5. focus = "Timeclock" /\ [WorkspaceNext]_workspaceVars => [TimeclockNext]_<<requestVars, timeclockVars>>
  BY DEF WorkspaceNext, workspaceVars
<1>6. focus = "Accounts" /\ [WorkspaceNext]_workspaceVars => [AccountsNext]_<<requestVars, accountsVars>>
  BY DEF WorkspaceNext, workspaceVars
<1>7. focus = "Presence" /\ [WorkspaceNext]_workspaceVars => [PresenceNext]_<<requestVars, presenceVars>>
  BY DEF WorkspaceNext, workspaceVars
<1>8. focus = "Typing" /\ [WorkspaceNext]_workspaceVars => [TypingNext]_<<requestVars, typingVars>>
  BY DEF WorkspaceNext, workspaceVars
<1>9. focus = "Planner" /\ [WorkspaceNext]_workspaceVars => [PlannerNext]_<<requestVars, plannerVars>>
  BY DEF WorkspaceNext, workspaceVars
<1>10. focus = "Notes" /\ [WorkspaceNext]_workspaceVars => [NotesNext]_<<requestVars, notesVars>>
  BY DEF WorkspaceNext, workspaceVars
<1>11. focus = "Broadcast" /\ [WorkspaceNext]_workspaceVars => [BroadcastNext]_<<requestVars, broadcastVars>>
  BY DEF WorkspaceNext, workspaceVars
<1>12. WorkspaceSpec /\ focus = "Polls" => PollsSpec
  <2>1. focus = "Polls" /\ [WorkspaceNext]_workspaceVars => (focus = "Polls")'
    BY <1>2
  <2>2. QED BY <1>1, <1>3, <2>1, PTL DEF WorkspaceSpec, PollsSpec
<1>13. WorkspaceSpec /\ focus = "Meetings" => MeetingsSpec
  <2>1. focus = "Meetings" /\ [WorkspaceNext]_workspaceVars => (focus = "Meetings")'
    BY <1>2
  <2>2. QED BY <1>1, <1>4, <2>1, PTL DEF WorkspaceSpec, MeetingsSpec
<1>14. WorkspaceSpec /\ focus = "Timeclock" => TimeclockSpec
  <2>1. focus = "Timeclock" /\ [WorkspaceNext]_workspaceVars => (focus = "Timeclock")'
    BY <1>2
  <2>2. QED BY <1>1, <1>5, <2>1, PTL DEF WorkspaceSpec, TimeclockSpec
<1>15. WorkspaceSpec /\ focus = "Accounts" => AccountsSpec
  <2>1. focus = "Accounts" /\ [WorkspaceNext]_workspaceVars => (focus = "Accounts")'
    BY <1>2
  <2>2. QED BY <1>1, <1>6, <2>1, PTL DEF WorkspaceSpec, AccountsSpec
<1>16. WorkspaceSpec /\ focus = "Presence" => PresenceSpec
  <2>1. focus = "Presence" /\ [WorkspaceNext]_workspaceVars => (focus = "Presence")'
    BY <1>2
  <2>2. QED BY <1>1, <1>7, <2>1, PTL DEF WorkspaceSpec, PresenceSpec
<1>17. WorkspaceSpec /\ focus = "Typing" => TypingSpec
  <2>1. focus = "Typing" /\ [WorkspaceNext]_workspaceVars => (focus = "Typing")'
    BY <1>2
  <2>2. QED BY <1>1, <1>8, <2>1, PTL DEF WorkspaceSpec, TypingSpec
<1>18. WorkspaceSpec /\ focus = "Planner" => PlannerSpec
  <2>1. focus = "Planner" /\ [WorkspaceNext]_workspaceVars => (focus = "Planner")'
    BY <1>2
  <2>2. QED BY <1>1, <1>9, <2>1, PTL DEF WorkspaceSpec, PlannerSpec
<1>19. WorkspaceSpec /\ focus = "Notes" => NotesSpec
  <2>1. focus = "Notes" /\ [WorkspaceNext]_workspaceVars => (focus = "Notes")'
    BY <1>2
  <2>2. QED BY <1>1, <1>10, <2>1, PTL DEF WorkspaceSpec, NotesSpec
<1>20. WorkspaceSpec /\ focus = "Broadcast" => BroadcastSpec
  <2>1. focus = "Broadcast" /\ [WorkspaceNext]_workspaceVars => (focus = "Broadcast")'
    BY <1>2
  <2>2. QED BY <1>1, <1>11, <2>1, PTL DEF WorkspaceSpec, BroadcastSpec
<1>21. focus = "Profile" /\ [WorkspaceNext]_workspaceVars => [ProfileNext]_<<requestVars, profileVars>>
  BY DEF WorkspaceNext, workspaceVars
<1>22. focus = "ChannelPanel" /\ [WorkspaceNext]_workspaceVars
         => [ChannelPanelNext]_<<requestVars, channelPanelVars>>
  BY DEF WorkspaceNext, workspaceVars
<1>23. WorkspaceSpec /\ focus = "Profile" => ProfileSpec
  <2>1. focus = "Profile" /\ [WorkspaceNext]_workspaceVars => (focus = "Profile")'
    BY <1>2
  <2>2. QED BY <1>1, <1>21, <2>1, PTL DEF WorkspaceSpec, ProfileSpec
<1>24. WorkspaceSpec /\ focus = "ChannelPanel" => ChannelPanelSpec
  <2>1. focus = "ChannelPanel" /\ [WorkspaceNext]_workspaceVars => (focus = "ChannelPanel")'
    BY <1>2
  <2>2. QED BY <1>1, <1>22, <2>1, PTL DEF WorkspaceSpec, ChannelPanelSpec
<1>25. focus = "Device" /\ [WorkspaceNext]_workspaceVars => [DeviceNext]_<<requestVars, deviceVars>>
  BY DEF WorkspaceNext, workspaceVars
<1>26. WorkspaceSpec /\ focus = "Device" => DeviceSpec
  <2>1. focus = "Device" /\ [WorkspaceNext]_workspaceVars => (focus = "Device")'
    BY <1>2
  <2>2. QED BY <1>1, <1>25, <2>1, PTL DEF WorkspaceSpec, DeviceSpec
<1>27. QED
  BY <1>12, <1>13, <1>14, <1>15, <1>16, <1>17, <1>18, <1>19, <1>20, <1>23, <1>24, <1>26

(* What is not in focus never is.                                          *)
LEMMA FocusFixed ==
  WorkspaceSpec =>
    /\ focus = "Polls" \/ [](focus # "Polls")
    /\ focus = "Meetings" \/ [](focus # "Meetings")
    /\ focus = "Timeclock" \/ [](focus # "Timeclock")
    /\ focus = "Accounts" \/ [](focus # "Accounts")
    /\ focus = "Presence" \/ [](focus # "Presence")
    /\ focus = "Typing" \/ [](focus # "Typing")
    /\ focus = "Planner" \/ [](focus # "Planner")
    /\ focus = "Notes" \/ [](focus # "Notes")
    /\ focus = "Broadcast" \/ [](focus # "Broadcast")
    /\ focus = "Device" \/ [](focus # "Device")
    /\ focus = "Profile" \/ [](focus # "Profile")
    /\ focus = "ChannelPanel" \/ [](focus # "ChannelPanel")
<1>1. [WorkspaceNext]_workspaceVars =>
        /\ focus # "Polls" => (focus # "Polls")'
        /\ focus # "Meetings" => (focus # "Meetings")'
        /\ focus # "Timeclock" => (focus # "Timeclock")'
        /\ focus # "Accounts" => (focus # "Accounts")'
        /\ focus # "Presence" => (focus # "Presence")'
        /\ focus # "Typing" => (focus # "Typing")'
        /\ focus # "Planner" => (focus # "Planner")'
        /\ focus # "Notes" => (focus # "Notes")'
        /\ focus # "Broadcast" => (focus # "Broadcast")'
        /\ focus # "Device" => (focus # "Device")'
        /\ focus # "Profile" => (focus # "Profile")'
        /\ focus # "ChannelPanel" => (focus # "ChannelPanel")'
  BY DEF WorkspaceNext, workspaceVars
<1>2. QED
  <2>1. WorkspaceSpec => focus = "Polls" \/ [](focus # "Polls")
    <3>1. focus = "Polls" \/ focus # "Polls"
      OBVIOUS
    <3>2. QED BY <1>1, <3>1, PTL DEF WorkspaceSpec
  <2>2. WorkspaceSpec => focus = "Meetings" \/ [](focus # "Meetings")
    <3>1. focus = "Meetings" \/ focus # "Meetings"
      OBVIOUS
    <3>2. QED BY <1>1, <3>1, PTL DEF WorkspaceSpec
  <2>3. WorkspaceSpec => focus = "Timeclock" \/ [](focus # "Timeclock")
    <3>1. focus = "Timeclock" \/ focus # "Timeclock"
      OBVIOUS
    <3>2. QED BY <1>1, <3>1, PTL DEF WorkspaceSpec
  <2>4. WorkspaceSpec => focus = "Accounts" \/ [](focus # "Accounts")
    <3>1. focus = "Accounts" \/ focus # "Accounts"
      OBVIOUS
    <3>2. QED BY <1>1, <3>1, PTL DEF WorkspaceSpec
  <2>5. WorkspaceSpec => focus = "Presence" \/ [](focus # "Presence")
    <3>1. focus = "Presence" \/ focus # "Presence"
      OBVIOUS
    <3>2. QED BY <1>1, <3>1, PTL DEF WorkspaceSpec
  <2>6. WorkspaceSpec => focus = "Typing" \/ [](focus # "Typing")
    <3>1. focus = "Typing" \/ focus # "Typing"
      OBVIOUS
    <3>2. QED BY <1>1, <3>1, PTL DEF WorkspaceSpec
  <2>7. WorkspaceSpec => focus = "Planner" \/ [](focus # "Planner")
    <3>1. focus = "Planner" \/ focus # "Planner"
      OBVIOUS
    <3>2. QED BY <1>1, <3>1, PTL DEF WorkspaceSpec
  <2>8. WorkspaceSpec => focus = "Notes" \/ [](focus # "Notes")
    <3>1. focus = "Notes" \/ focus # "Notes"
      OBVIOUS
    <3>2. QED BY <1>1, <3>1, PTL DEF WorkspaceSpec
  <2>9. WorkspaceSpec => focus = "Broadcast" \/ [](focus # "Broadcast")
    <3>1. focus = "Broadcast" \/ focus # "Broadcast"
      OBVIOUS
    <3>2. QED BY <1>1, <3>1, PTL DEF WorkspaceSpec
  <2>10. WorkspaceSpec => focus = "Device" \/ [](focus # "Device")
    <3>1. focus = "Device" \/ focus # "Device"
      OBVIOUS
    <3>2. QED BY <1>1, <3>1, PTL DEF WorkspaceSpec
  <2>11. WorkspaceSpec => focus = "Profile" \/ [](focus # "Profile")
    <3>1. focus = "Profile" \/ focus # "Profile"
      OBVIOUS
    <3>2. QED BY <1>1, <3>1, PTL DEF WorkspaceSpec
  <2>12. WorkspaceSpec => focus = "ChannelPanel" \/ [](focus # "ChannelPanel")
    <3>1. focus = "ChannelPanel" \/ focus # "ChannelPanel"
      OBVIOUS
    <3>2. QED BY <1>1, <3>1, PTL DEF WorkspaceSpec
  <2>13. QED
    BY <2>1, <2>2, <2>3, <2>4, <2>5, <2>6, <2>7, <2>8, <2>9, <2>10, <2>11, <2>12

(* What the components that are not in focus look like throughout.         *)
Unfocused ==
  /\ focus # "Presence" => /\ \A s \in Connection : conn[s] = "new" /\ owner[s] = None
                           /\ onlineKey = {} /\ told = {}
  /\ focus # "Typing" => typingShown = {} /\ \A u \in User : typing[u] = "no"
  /\ focus # "Planner" => \A u \in User, list \in List : planned[u][list] = Listing(u)[list]
  /\ focus # "Notes" => taken = {}
  /\ focus # "Broadcast" => \A u \in User : shownSent[u] = None

(* They are as they were at the start.                                     *)
LEMMA UnfocusedStays == WorkspaceSpec => []Unfocused
<1>1. WorkspaceInit => Unfocused
  <2> SUFFICES ASSUME WorkspaceInit PROVE Unfocused
    OBVIOUS
  <2>1. \A u \in User, list \in List : planned[u][list] = Listing(u)[list]
    BY DEF WorkspaceInit, PlannerInit, Listing, MyTasks, Calendar, Mine, List
  <2>2. QED
    BY <2>1 DEF WorkspaceInit, PresenceInit, TypingInit, NotesInit, BroadcastInit, Unfocused
<1>2. ASSUME Unfocused, [WorkspaceNext]_workspaceVars PROVE Unfocused'
  <2>1. /\ focus' = focus
        /\ focus # "Presence" => UNCHANGED presenceVars
        /\ focus # "Typing" => UNCHANGED typingVars
        /\ focus # "Planner" => UNCHANGED plannerVars
        /\ focus # "Notes" => UNCHANGED notesVars
        /\ focus # "Broadcast" => UNCHANGED broadcastVars
    BY <1>2 DEF WorkspaceNext, workspaceVars
  <2>2. QED
    BY <1>2, <2>1
       DEF Unfocused, presenceVars, typingVars, plannerVars, notesVars, broadcastVars, Listing,
           MyTasks, Calendar, Mine
<1>3. QED BY <1>1, <1>2, PTL DEF WorkspaceSpec

(* What the gateway's handlers leave behind once they are through is right *)
(* for presence and for the typing indicator (chat.gateway.ts:62-108,      *)
(* 144-179).                                                               *)
THEOREM GatewayShowsRightAlways == WorkspaceSpec => []GatewayShowsRight
<1>1. Unfocused /\ focus # "Presence" => PresenceRight
  BY RequestsAssumption DEF Unfocused, PresenceRight, Sockets
<1>2. Unfocused /\ focus # "Typing" => TypingShownRight
  BY DEF Unfocused, TypingShownRight
<1>3. PresenceRight /\ TypingShownRight => GatewayShowsRight
  BY DEF GatewayShowsRight
<1>4. QED
  BY <1>1, <1>2, <1>3, FocusFixed, FocusIsComponent, UnfocusedStays, PresenceRightAlways,
     TypingShownAlways, PTL

(* What a user did with the collaboration tools is what he is shown        *)
(* (collab.controller.ts).                                                 *)
THEOREM CollabRightAlways == WorkspaceSpec => []CollabRight
<1>1. /\ Unfocused /\ focus # "Planner" => PlannerListed
      /\ Unfocused /\ focus # "Notes" => EditsKept
      /\ Unfocused /\ focus # "Broadcast" => SentCountRight
  BY DEF Unfocused, PlannerListed, EditsKept, SentCountRight
<1>2. PlannerListed /\ EditsKept /\ SentCountRight => CollabRight
  BY DEF CollabRight
<1>3. QED
  BY <1>1, <1>2, FocusFixed, FocusIsComponent, UnfocusedStays, PlannerListedAlways,
     EditsKeptAlways, SentCountRightAlways, PTL

(* A component that is not in focus keeps its types.                       *)
UnfocusedTyped ==
  /\ focus # "Polls" => PollsTypeOK
  /\ focus # "Meetings" => MeetingsTypeOK
  /\ focus # "Timeclock" => TimeclockTypeOK
  /\ focus # "Accounts" => AccountsTypeOK
  /\ focus # "Presence" => PresenceTypeOK
  /\ focus # "Typing" => TypingTypeOK
  /\ focus # "Planner" => PlannerTypeOK
  /\ focus # "Notes" => NotesTypeOK
  /\ focus # "Broadcast" => BroadcastTypeOK
  /\ focus # "Device" => DeviceTypeOK
  /\ focus # "Profile" => ProfileTypeOK
  /\ focus # "ChannelPanel" => ChannelPanelTypeOK

(* Every component starts with its types.                                  *)
LEMMA WorkspaceStarts ==
  ASSUME WorkspaceInit
  PROVE  WorkspaceTypeOK
<1>0. RequestsInit
  BY DEF WorkspaceInit
<1>1. PollsTypeOK
  BY DEF WorkspaceInit, PollsInit, PollsTypeOK, PollRecord, VoteRows
<1>2. MeetingsTypeOK
  BY RequestsAssumption DEF WorkspaceInit, MeetingsInit, MeetingsTypeOK, MeetingRecord
<1>3. TimeclockTypeOK
  <2>1. \A u \in User : events[u] = <<>> /\ DOMAIN events[u] = {}
    BY DEF WorkspaceInit, TimeclockInit
  <2>2. \A u \in User : 1 .. Len(events[u]) = {}
    BY <2>1
  <2>3. clockShown \in [User -> Statuses] /\ clockFetch \in [User -> Statuses \cup {"none", "asked"}]
    BY DEF WorkspaceInit, TimeclockInit, Statuses
  <2>4. now \in 0 .. MaxTime /\ doubled \cup clockBehind \subseteq User
    BY TimeclockAssumption DEF WorkspaceInit, TimeclockInit
  <2>5. QED BY <2>2, <2>3, <2>4 DEF TimeclockTypeOK
<1>4. AccountsTypeOK
  <2>1. RowsTyped
    BY AccountsAssumption DEF WorkspaceInit, AccountsInit, RowsTyped, AccountRecord, Role
  <2>2. invite \in [Invite -> InviteRecord] /\ used \in [Invite \cup ResetLink -> 0 .. MaxRequests]
    BY RequestsAssumption DEF WorkspaceInit, AccountsInit, InviteRecord
  <2>3. resetLink \in [User -> ResetLink \cup {None}] /\ heldTwice = {} /\ firsts = FALSE /\ readmitted = {}
    BY DEF WorkspaceInit, AccountsInit
  <2>4. QED BY <2>1, <2>2, <2>3 DEF AccountsTypeOK, RowsTyped
<1>5. PresenceTypeOK
  BY DEF WorkspaceInit, PresenceInit, PresenceTypeOK
<1>6. TypingTypeOK
  BY DEF WorkspaceInit, TypingInit, TypingTypeOK
<1>7. PlannerTypeOK
  <2>1. task \in [Task -> TaskRecord]
    BY DEF WorkspaceInit, PlannerInit, TaskRecord
  <2>2. event \in [Event -> CalendarRecord] /\ \A e \in Event : event[e].state = "none"
    BY DEF WorkspaceInit, PlannerInit, CalendarRecord, Reply
  <2>3. QED BY <2>1, <2>2 DEF WorkspaceInit, PlannerInit, PlannerTypeOK
<1>8. NotesTypeOK
  BY DEF WorkspaceInit, NotesInit, NotesTypeOK, Closed, EditorRecord, Text
<1>9. BroadcastTypeOK
  <2>1. 0 \in 0 .. Cardinality(Target)
    BY BroadcastAssumption, FS_CardinalityType
  <2>2. QED BY <2>1 DEF WorkspaceInit, BroadcastInit, BroadcastTypeOK
<1>10. DeviceTypeOK
  <2>1. /\ joined \subseteq Channel /\ last = [c \in Channel |-> 0]
        /\ top = last /\ readTo = last /\ got = last
    BY DeviceAssumption DEF WorkspaceInit, DeviceInit
  <2>2. last \in [Channel -> 0 .. MaxRequests] /\ \A c \in Channel : last[c] <= last[c]
    BY <2>1, RequestsAssumption
  <2>3. QED BY <2>1, <2>2 DEF WorkspaceInit, DeviceInit, DeviceTypeOK, View
<1>11. ProfileTypeOK
  <2>1. profile \in ProfileRecord /\ mine = profile /\ directory = profile
    BY DEF WorkspaceInit, ProfileInit, ProfileRecord, StatusText
  <2>2. dashboard = None /\ timer = "none" /\ fetched = None /\ modal = None
    BY DEF WorkspaceInit, ProfileInit
  <2>3. {object, announced, stale, torn, untold, unwatched} \subseteq BOOLEAN
    BY DEF WorkspaceInit, ProfileInit
  <2>4. None \notin {"running", "due"}
    BY ProfileAssumption DEF Timer
  <2>5. QED BY <2>1, <2>2, <2>3, <2>4 DEF ProfileTypeOK, Timer
<1>12. ChannelPanelTypeOK
  BY <1>0, PanelStarts DEF WorkspaceInit, PanelInv, PanelShape
<1>13. QED
  BY <1>1, <1>2, <1>3, <1>4, <1>5, <1>6, <1>7, <1>8, <1>9, <1>10, <1>11, <1>12
     DEF WorkspaceTypeOK

(* And keeps them, as nobody touches it.                                   *)
LEMMA UnfocusedStaysTyped == WorkspaceSpec => []UnfocusedTyped
<1>1. WorkspaceInit => UnfocusedTyped
  BY WorkspaceStarts DEF WorkspaceTypeOK, UnfocusedTyped
<1>2. ASSUME UnfocusedTyped, [WorkspaceNext]_workspaceVars PROVE UnfocusedTyped'
  <2>0. focus' = focus
    BY <1>2 DEF WorkspaceNext, workspaceVars
  <2>1. focus # "Polls" => UNCHANGED pollsVars /\ PollsTypeOK
    BY <1>2 DEF WorkspaceNext, workspaceVars, UnfocusedTyped
  <2>2. focus # "Meetings" => UNCHANGED meetingsVars /\ MeetingsTypeOK
    BY <1>2 DEF WorkspaceNext, workspaceVars, UnfocusedTyped
  <2>3. focus # "Timeclock" => UNCHANGED timeclockVars /\ TimeclockTypeOK
    BY <1>2 DEF WorkspaceNext, workspaceVars, UnfocusedTyped
  <2>4. focus # "Accounts" => UNCHANGED accountsVars /\ AccountsTypeOK
    BY <1>2 DEF WorkspaceNext, workspaceVars, UnfocusedTyped
  <2>5. focus # "Presence" => UNCHANGED presenceVars /\ PresenceTypeOK
    BY <1>2 DEF WorkspaceNext, workspaceVars, UnfocusedTyped
  <2>6. focus # "Typing" => UNCHANGED typingVars /\ TypingTypeOK
    BY <1>2 DEF WorkspaceNext, workspaceVars, UnfocusedTyped
  <2>7. focus # "Planner" => UNCHANGED plannerVars /\ PlannerTypeOK
    BY <1>2 DEF WorkspaceNext, workspaceVars, UnfocusedTyped
  <2>8. focus # "Notes" => UNCHANGED notesVars /\ NotesTypeOK
    BY <1>2 DEF WorkspaceNext, workspaceVars, UnfocusedTyped
  <2>9. focus # "Broadcast" => UNCHANGED broadcastVars /\ BroadcastTypeOK
    BY <1>2 DEF WorkspaceNext, workspaceVars, UnfocusedTyped
  <2>10. focus # "Device" => UNCHANGED deviceVars /\ DeviceTypeOK
    BY <1>2 DEF WorkspaceNext, workspaceVars, UnfocusedTyped
  <2>11. focus # "Profile" => UNCHANGED profileVars /\ ProfileTypeOK
    BY <1>2 DEF WorkspaceNext, workspaceVars, UnfocusedTyped
  <2>12. focus # "ChannelPanel" => UNCHANGED channelPanelVars /\ ChannelPanelTypeOK
    BY <1>2 DEF WorkspaceNext, workspaceVars, UnfocusedTyped
  <2>13. ASSUME UNCHANGED pollsVars, PollsTypeOK PROVE PollsTypeOK'
    BY <2>13 DEF pollsVars, PollsTypeOK
  <2>14. ASSUME UNCHANGED meetingsVars, MeetingsTypeOK PROVE MeetingsTypeOK'
    BY <2>14 DEF meetingsVars, MeetingsTypeOK
  <2>15. ASSUME UNCHANGED timeclockVars, TimeclockTypeOK PROVE TimeclockTypeOK'
    BY <2>15 DEF timeclockVars, TimeclockTypeOK
  <2>16. ASSUME UNCHANGED accountsVars, AccountsTypeOK PROVE AccountsTypeOK'
    BY <2>16 DEF accountsVars, AccountsTypeOK
  <2>17. ASSUME UNCHANGED presenceVars, PresenceTypeOK PROVE PresenceTypeOK'
    BY <2>17 DEF presenceVars, PresenceTypeOK
  <2>18. ASSUME UNCHANGED typingVars, TypingTypeOK PROVE TypingTypeOK'
    BY <2>18 DEF typingVars, TypingTypeOK
  <2>19. ASSUME UNCHANGED plannerVars, PlannerTypeOK PROVE PlannerTypeOK'
    BY <2>19 DEF plannerVars, PlannerTypeOK
  <2>20. ASSUME UNCHANGED notesVars, NotesTypeOK PROVE NotesTypeOK'
    BY <2>20 DEF notesVars, NotesTypeOK
  <2>21. ASSUME UNCHANGED broadcastVars, BroadcastTypeOK PROVE BroadcastTypeOK'
    BY <2>21 DEF broadcastVars, BroadcastTypeOK
  <2>22. ASSUME UNCHANGED deviceVars, DeviceTypeOK PROVE DeviceTypeOK'
    BY <2>22 DEF deviceVars, DeviceTypeOK
  <2>23. ASSUME UNCHANGED profileVars, ProfileTypeOK PROVE ProfileTypeOK'
    BY <2>23 DEF profileVars, ProfileTypeOK
  <2>24. ASSUME UNCHANGED channelPanelVars, ChannelPanelTypeOK PROVE ChannelPanelTypeOK'
    BY <2>24 DEF channelPanelVars, ChannelPanelTypeOK
  <2>25. QED
    BY <2>0, <2>1, <2>2, <2>3, <2>4, <2>5, <2>6, <2>7, <2>8, <2>9, <2>10, <2>11, <2>12, <2>13, <2>14, <2>15, <2>16, <2>17, <2>18, <2>19, <2>20, <2>21, <2>22, <2>23, <2>24
       DEF UnfocusedTyped
<1>3. QED BY <1>1, <1>2, PTL DEF WorkspaceSpec

(* Every component's rows keep their types and the structure named there,  *)
(* whichever one of them moves.                                            *)
THEOREM WorkspaceTypeCorrect == WorkspaceSpec => []WorkspaceTypeOK
<1>1. UnfocusedTyped =>
        /\ focus # "Polls" => PollsTypeOK
        /\ focus # "Meetings" => MeetingsTypeOK
        /\ focus # "Timeclock" => TimeclockTypeOK
        /\ focus # "Accounts" => AccountsTypeOK
        /\ focus # "Presence" => PresenceTypeOK
        /\ focus # "Typing" => TypingTypeOK
        /\ focus # "Planner" => PlannerTypeOK
        /\ focus # "Notes" => NotesTypeOK
        /\ focus # "Broadcast" => BroadcastTypeOK
        /\ focus # "Device" => DeviceTypeOK
        /\ focus # "Profile" => ProfileTypeOK
        /\ focus # "ChannelPanel" => ChannelPanelTypeOK
  BY DEF UnfocusedTyped
<1>2. WorkspaceSpec => []PollsTypeOK
  BY <1>1, FocusFixed, FocusIsComponent, UnfocusedStaysTyped, PollsTypeCorrect, PTL
<1>3. WorkspaceSpec => []MeetingsTypeOK
  BY <1>1, FocusFixed, FocusIsComponent, UnfocusedStaysTyped, MeetingsTypeCorrect, PTL
<1>4. WorkspaceSpec => []TimeclockTypeOK
  BY <1>1, FocusFixed, FocusIsComponent, UnfocusedStaysTyped, TimeclockTypeCorrect, PTL
<1>5. WorkspaceSpec => []AccountsTypeOK
  BY <1>1, FocusFixed, FocusIsComponent, UnfocusedStaysTyped, AccountsTypeCorrect, PTL
<1>6. WorkspaceSpec => []PresenceTypeOK
  BY <1>1, FocusFixed, FocusIsComponent, UnfocusedStaysTyped, PresenceTypeCorrect, PTL
<1>7. WorkspaceSpec => []TypingTypeOK
  BY <1>1, FocusFixed, FocusIsComponent, UnfocusedStaysTyped, TypingTypeCorrect, PTL
<1>8. WorkspaceSpec => []PlannerTypeOK
  BY <1>1, FocusFixed, FocusIsComponent, UnfocusedStaysTyped, PlannerTypeCorrect, PTL
<1>9. WorkspaceSpec => []NotesTypeOK
  BY <1>1, FocusFixed, FocusIsComponent, UnfocusedStaysTyped, NotesTypeCorrect, PTL
<1>10. WorkspaceSpec => []BroadcastTypeOK
  BY <1>1, FocusFixed, FocusIsComponent, UnfocusedStaysTyped, BroadcastTypeCorrect, PTL
<1>11. WorkspaceSpec => []DeviceTypeOK
  BY <1>1, FocusFixed, FocusIsComponent, UnfocusedStaysTyped, DeviceTypeCorrect, PTL
<1>12. WorkspaceSpec => []ProfileTypeOK
  BY <1>1, FocusFixed, FocusIsComponent, UnfocusedStaysTyped, ProfileTypeCorrect, PTL
<1>13. WorkspaceSpec => []ChannelPanelTypeOK
  BY <1>1, FocusFixed, FocusIsComponent, UnfocusedStaysTyped, ChannelPanelTypeCorrect, PTL
<1>14. PollsTypeOK /\ MeetingsTypeOK /\ TimeclockTypeOK /\ AccountsTypeOK
       /\ PresenceTypeOK /\ TypingTypeOK /\ PlannerTypeOK /\ NotesTypeOK
       /\ BroadcastTypeOK /\ DeviceTypeOK /\ ProfileTypeOK /\ ChannelPanelTypeOK
       => WorkspaceTypeOK
  BY DEF WorkspaceTypeOK
<1>15. QED
  BY <1>2, <1>3, <1>4, <1>5, <1>6, <1>7, <1>8, <1>9, <1>10, <1>11, <1>12, <1>13, <1>14, PTL

(* The channel loses members at most: nobody is added to it.               *)
LEMMA MembersOnlyLeave ==
  ASSUME [WorkspaceNext]_workspaceVars
  PROVE  members' \subseteq members
<1>1. ASSUME PollsNext PROVE members' \subseteq members
  BY <1>1 DEF PollsNext, BeginCreatePoll, BeginVote, PostMarker, CreatePoll,
       VoteSteps, VoteDies, ReadPoll, TakePoll, RemoveFromChannel, Begin, Goto,
       Finish, ReadVote, ClearVotes, ChangeVote, VoteLost, TellVote, ReadAnswer,
       TakeAnswer, Die, requestVars, GotoWith
<1>2. ASSUME MeetingsNext PROVE members' \subseteq members
  BY <1>2 DEF MeetingsNext, BeginSchedule, BeginCancel, Schedule, TellScheduled,
       Cancel, TellCancelled, CancelLost, BeginFireDue, Flag, FlagLost, Remind,
       RemindLost, TellReminded, MeetingsDie, TimeComes, FetchMeetings, Draw,
       RemoveFromChannel, Begin, Finish, Goto, GotoWith, Die, requestVars
<1>3. ASSUME TimeclockNext PROVE members' \subseteq members
  BY <1>3 DEF TimeclockNext, BeginAct, Act, TellClock, ActDies, AnswerMe, ShowAnswer,
       Tick, ReadClock, TakeClock, Begin, Goto, Die, GotoWith, Finish, requestVars
<1>4. ASSUME AccountsNext PROVE members' \subseteq members
  BY <1>4 DEF AccountsNext, RegisterPage, SignupPage, ResetPasswordPage,
       InvitePeopleModal, AdminModal, CountMembers, Register, FindInvite, MintInvite,
       RevokeInvite, Accept, AcceptLost, SetRole, SetActive, ResetPassword, Die,
       ForgotPasswordPage, Expire, BeginRegister, BeginAccept, BeginReset,
       BeginInvite, BeginRevoke, BeginSetRole, BeginSetActive, Goto, Finish,
       ForgotPassword, requestVars, Begin, Answer
<1>5. ASSUME PresenceNext PROVE members' \subseteq members
  BY <1>5 DEF PresenceNext, Connect, HandleConnection, Drop, HandleDisconnect,
       RenewKey, ExpireKey, Stop, Answer, LookUpKey, SetKey, FinishConnect,
       requestVars, CountSockets, DeleteKey, TellOffline
<1>6. ASSUME TypingNext PROVE members' \subseteq members
  BY <1>6 DEF TypingNext, BeginTyping, UpdateTyping, TypingDies, ExpireTyping,
       DropTypingKey, Begin, WriteTyping, ReadTyping, PruneTyping, TellTyping, Die,
       requestVars, Goto, Finish
<1>7. ASSUME PlannerNext PROVE members' \subseteq members
  <2>1. ASSUME NEW h \in Handler, TasksNext(h) PROVE members' \subseteq members
    BY <2>1 DEF TasksNext, BeginAddTask, BeginToggle, BeginRemoveTask, AddTask, UpdateTask,
         RemoveTask, ToRefresh, Finish, requestVars, Begin, Goto
  <2>2. ASSUME NEW h \in Handler, CalendarNext(h) PROVE members' \subseteq members
    BY <2>2 DEF CalendarNext, BeginCreateEvent, BeginRespond, BeginRemoveEvent, CreateEvent,
         Respond, RemoveEvent, ToRefresh, Finish, requestVars, Begin, Goto
  <2>3. QED
    BY <1>7, <2>1, <2>2
       DEF PlannerNext, Swallow, Refresh, OpenPlanner, RemoveFromChannel, ToRefresh, Finish,
           requestVars, Goto
<1>8. ASSUME NotesNext PROVE members' \subseteq members
  BY <1>8 DEF NotesNext, EditorStep, RemoveFromChannel, BeginSave, SaveNote, ReadNote,
       TakeNote, SaveFails, OpenEditor, FetchNote, Write, CloseEditor, Begin, Goto,
       GotoWith, Finish, Die, requestVars
<1>9. ASSUME BroadcastNext PROVE members' \subseteq members
  BY <1>9 DEF BroadcastNext, BeginBroadcast, CheckTarget, PostTarget, SendFails,
       CountTarget, ShowSent, ShowNone, ChangePostable, Begin, Goto, NextTarget,
       Finish, Die, requestVars
<1>10. ASSUME DeviceNext PROVE members' \subseteq members
  BY <1>10 DEF DeviceNext, MessageArrives, AddedTo, Select, OtherDeviceReads,
       RemovedFrom, Push, PushDies, TellAdded, TellRemoved, TellDies, Mark, Echo,
       MarkFails, SendMark, TakeChannels, TakeUnreads, FetchQuery, ListChanges,
       Receive, Reconnect, Look, FetchMessages, Answer, Begin, requestVars, Finish,
       GotoWith, Start
<1>11. ASSUME ProfileNext PROVE members' \subseteq members
  BY <1>11 DEF ProfileNext, ProfileModal, HomeDashboard, FocusMode, ProfileController,
       TakeProfile, ProfileDies, FocusTimePasses, OnUserUpdated, LoseEvent,
       FetchUsers, TakeUsers, OpenModal, CloseModal, SaveModal, ChangeAvatar,
       OpenDashboard, CloseDashboard, StartFocus, EndFocus, BeginPatch, UpdateProfile,
       PutObject, DeleteObject, SetUrl, ReadProfile, Tell, Finish, Die, requestVars,
       Begin, Goto, GotoWith
<1>12. ASSUME ChannelPanelNext PROVE members' \subseteq members
  BY <1>12 DEF ChannelPanelNext, AboutTab, MembersTab, SettingsTab, UpdateTopic,
       TellUpdate, SetStar, StarLost, TellStar, TakeStar, DeleteRow, RemoveLostRace,
       TellLeft, TakeRemoved, PanelDies, TakeEvent, LoseEvents, FetchFor, TakeFetched,
       BeginMySettings, OpenMembersTab, BeginRemoveMember, BeginUpdateChannel,
       GotoWith, Finish, Goto, Die, requestVars, Begin
<1>13. QED
  BY <1>1, <1>2, <1>3, <1>4, <1>5, <1>6, <1>7, <1>8, <1>9, <1>10, <1>11, <1>12
     DEF WorkspaceNext, workspaceVars, requestVars

(* What the other components out of focus look like throughout: no request *)
(* of theirs has run, and the page of Device has not fetched its lists.    *)
Untouched ==
  /\ members \subseteq User
  /\ focus # "Polls" => votes = {} /\ \A u \in User : shown[u] = {}
  /\ focus # "Meetings" => /\ \A m \in Meeting : reminders[m] = 0 /\ meeting[m].state = "none"
                           /\ \A u \in User : banner[u] = {}
  /\ focus # "Timeclock" => /\ now = 0 /\ events = [u \in User |-> <<>>]
                            /\ \A u \in User : clockShown[u] = "off"
  /\ focus # "Accounts" => Rows = {} /\ \A l \in DOMAIN used : used[l] = 0
  /\ focus # "Device" => invalid # {}
  /\ focus # "Profile" => ~profile.avatar /\ directory = profile /\ profile.status = "none"
  /\ focus # "ChannelPanel" =>
       /\ belong = User /\ \A u \in User : shownRow[u] = SummaryFor(u) /\ tab[u] = None

(* They stay so.                                                           *)
LEMMA UntouchedStays == WorkspaceSpec => []Untouched
<1>1. WorkspaceInit => Untouched
  <2> SUFFICES ASSUME WorkspaceInit PROVE Untouched
    OBVIOUS
  <2>1. votes = {} /\ \A u \in User : shown[u] = {}
    BY DEF WorkspaceInit, PollsInit
  <2>2. /\ \A m \in Meeting : reminders[m] = 0 /\ meeting[m].state = "none"
        /\ \A u \in User : banner[u] = {}
    BY DEF WorkspaceInit, MeetingsInit
  <2>3. now = 0 /\ events = [u \in User |-> <<>>] /\ \A u \in User : clockShown[u] = "off"
    BY DEF WorkspaceInit, TimeclockInit
  <2>4. focus # "Accounts" => Rows = {} /\ \A l \in DOMAIN used : used[l] = 0
    BY DEF WorkspaceInit, AccountsInit
  <2>5. invalid # {}
    BY DEF WorkspaceInit, DeviceInit
  <2>6. ~profile.avatar /\ directory = profile /\ profile.status = "none"
    BY DEF WorkspaceInit, ProfileInit
  <2>7. belong = User /\ \A u \in User : shownRow[u] = SummaryFor(u) /\ tab[u] = None
    BY DEF WorkspaceInit, ChannelPanelInit
  <2>8. members \subseteq User
    BY DEF WorkspaceInit, RequestsInit
  <2>9. QED BY <2>1, <2>2, <2>3, <2>4, <2>5, <2>6, <2>7, <2>8 DEF Untouched
<1>2. ASSUME Untouched, [WorkspaceNext]_workspaceVars PROVE Untouched'
  <2>1. /\ focus' = focus
        /\ focus # "Polls" => UNCHANGED pollsVars
        /\ focus # "Meetings" => UNCHANGED meetingsVars
        /\ focus # "Timeclock" => UNCHANGED timeclockVars
        /\ focus # "Accounts" => UNCHANGED accountsVars
        /\ focus # "Device" => UNCHANGED deviceVars
        /\ focus # "Profile" => UNCHANGED profileVars
        /\ focus # "ChannelPanel" => UNCHANGED channelPanelVars
    BY <1>2 DEF WorkspaceNext, workspaceVars
  <2>2. members' \subseteq User
    BY <1>2, MembersOnlyLeave DEF Untouched
  <2>3. QED
    BY <1>2, <2>1, <2>2
       DEF Untouched, pollsVars, meetingsVars, timeclockVars, accountsVars, deviceVars,
           profileVars, channelPanelVars, Rows, SummaryFor
<1>3. QED BY <1>1, <1>2, PTL DEF WorkspaceSpec

(* All that the run Workspace checks.                                      *)
WorkspaceRight ==
  /\ WorkspaceTypeOK
  /\ SingleChoice /\ PollShown
  /\ RemindedOnce /\ BannerShowsUpcoming
  /\ ClockSequence /\ TotalsAddUp /\ WidgetOffersLegalActions
  /\ OneOwner /\ LinksUsedOnce
  /\ GatewayShowsRight /\ CollabRight
  /\ BadgesRight /\ ActiveListed
  /\ ProfileRight /\ PanelRight

(* A component nobody touched shows what is right.                         *)
LEMMA UntouchedIsRight ==
  ASSUME Untouched
  PROVE  /\ focus # "Polls" => SingleChoice /\ PollShown
         /\ focus # "Meetings" => RemindedOnce /\ BannerShowsUpcoming
         /\ focus # "Timeclock" => ClockSequence /\ TotalsAddUp /\ WidgetOffersLegalActions
         /\ focus # "Accounts" => OneOwner /\ LinksUsedOnce
         /\ focus # "Device" => BadgesRight /\ ActiveListed
         /\ focus # "Profile" => ProfileRight
         /\ focus # "ChannelPanel" => PanelRight
<1>1. ASSUME focus # "Polls" PROVE SingleChoice /\ PollShown
  <2>1. \A p \in Poll, u \in User : Own(p, u) = {}
    BY <1>1 DEF Untouched, Own
  <2>2. SingleChoice
    BY <2>1, FS_EmptySet DEF SingleChoice
  <2>3. ASSUME NEW u \in members, NEW p \in Poll PROVE Of(p, shown[u]) = Of(p, votes)
    BY <1>1, <2>3 DEF Untouched
  <2>4. QED BY <2>2, <2>3 DEF PollShown
<1>2. ASSUME focus # "Meetings" PROVE RemindedOnce /\ BannerShowsUpcoming
  <2>1. /\ \A m \in Meeting : reminders[m] = 0 /\ meeting[m].state = "none"
        /\ \A u \in members : banner[u] = {}
    BY <1>2 DEF Untouched
  <2>2. RemindedOnce
    BY <2>1 DEF RemindedOnce
  <2>3. Upcoming = {}
    BY <2>1 DEF Upcoming, Scheduled
  <2>4. BannerShowsUpcoming
    BY <2>1, <2>3 DEF BannerShowsUpcoming
  <2>5. QED BY <2>2, <2>4
<1>3. ASSUME focus # "Timeclock" PROVE ClockSequence /\ TotalsAddUp /\ WidgetOffersLegalActions
  <2>0. now = 0 /\ events = [u \in User |-> <<>>] /\ \A u \in User : clockShown[u] = "off"
    BY <1>3 DEF Untouched
  <2>1. /\ now = 0 /\ \A u \in User : events[u] = <<>> /\ clockShown[u] = "off"
        /\ events \in [User -> Seq(EventRecord)] /\ LogsOrdered
    <3>1. \A u \in User : DOMAIN events[u] = {}
      BY <2>0
    <3>2. <<>> \in Seq(EventRecord)
      OBVIOUS
    <3>3. QED BY <2>0, <3>1, <3>2 DEF LogsOrdered
  <2>2. ClockSequence
    BY <2>1 DEF ClockSequence
  <2>3. TotalsAddUp
    BY <2>1, OrderedAddUp
  <2>4. \A u \in User : Status(u) = "off"
    <3>1. ASSUME NEW u \in User, NEW t PROVE CountBefore(events[u], t) = 0
      <4>1. {j \in 1 .. Len(events[u]) : events[u][j].at < t} = {}
        BY <2>1
      <4>2. QED BY <4>1, FS_EmptySet DEF CountBefore
    <3>2. QED
      BY <2>1, <3>1, TimeclockAssumption
         DEF Status, KindBefore, KindAt, StatusAfter, ClockKind
  <2>5. \A kind \in ClockKind : "off" \in ValidFrom(kind) <=> kind = "clock_in"
    BY DEF ClockKind, ValidFrom
  <2>6. WidgetOffersLegalActions
    BY <2>1, <2>4, <2>5 DEF WidgetOffersLegalActions, Offered, ClockKind
  <2>7. QED BY <2>2, <2>3, <2>6
<1>4. ASSUME focus # "Accounts" PROVE OneOwner /\ LinksUsedOnce
  BY <1>4 DEF Untouched, OneOwner, LinksUsedOnce
<1>5. ASSUME focus # "Device" PROVE BadgesRight /\ ActiveListed
  BY <1>5 DEF Untouched, BadgesRight, ActiveListed, Settled
<1>6. ASSUME focus # "Profile" PROVE ProfileRight
  BY <1>6 DEF Untouched, ProfileRight, AvatarServed, DirectoryCurrent, FocusReverts
<1>7. ASSUME focus # "ChannelPanel" PROVE PanelRight
  <2>1. belong = User /\ \A u \in User : shownRow[u] = SummaryFor(u) /\ tab[u] = None
    BY <1>7 DEF Untouched
  <2>2. StarsAreOwn
    <3>1. SUFFICES ASSUME NEW u \in User PROVE shownRow[u].starred = (u \in starred)
      BY <2>1 DEF StarsAreOwn
    <3>2. PICK b : b = (u \in starred)
      OBVIOUS
    <3>3. shownRow[u] = [topic |-> topic, members |-> belong, starred |-> b]
      BY <2>1, <3>2 DEF SummaryFor
    <3>4. QED BY <3>2, <3>3
  <2>3. PanelCurrent
    BY <2>1 DEF PanelCurrent
  <2>4. QED BY <2>2, <2>3 DEF PanelRight
<1>8. QED BY <1>1, <1>2, <1>3, <1>4, <1>5, <1>6, <1>7

(* Whatever the component, the budget and the numbers of users, handlers,  *)
(* rows and events: every invariant the run Workspace checks holds of the  *)
(* specification it explores.                                              *)
THEOREM WorkspaceIsRight == WorkspaceSpec => []WorkspaceRight
<1>1. Untouched =>
        /\ focus # "Polls" => SingleChoice /\ PollShown
        /\ focus # "Meetings" => RemindedOnce /\ BannerShowsUpcoming
        /\ focus # "Timeclock" => ClockSequence /\ TotalsAddUp /\ WidgetOffersLegalActions
        /\ focus # "Accounts" => OneOwner /\ LinksUsedOnce
        /\ focus # "Device" => BadgesRight /\ ActiveListed
        /\ focus # "Profile" => ProfileRight
        /\ focus # "ChannelPanel" => PanelRight
  BY UntouchedIsRight
<1>2. WorkspaceSpec => [](SingleChoice /\ PollShown)
  BY <1>1, FocusFixed, FocusIsComponent, UntouchedStays, SingleChoiceAlways, PollShownAlways, PTL
<1>3. WorkspaceSpec => [](RemindedOnce /\ BannerShowsUpcoming)
  BY <1>1, FocusFixed, FocusIsComponent, UntouchedStays, RemindedOnceAlways,
     BannerShowsUpcomingAlways, PTL
<1>4. WorkspaceSpec => [](ClockSequence /\ TotalsAddUp /\ WidgetOffersLegalActions)
  BY <1>1, FocusFixed, FocusIsComponent, UntouchedStays, ClockSequenceAlways, TotalsAddUpAlways,
     WidgetOffersLegalActionsAlways, PTL
<1>5. WorkspaceSpec => [](OneOwner /\ LinksUsedOnce)
  BY <1>1, FocusFixed, FocusIsComponent, UntouchedStays, OneOwnerAlways, LinksUsedOnceAlways, PTL
<1>6. WorkspaceSpec => [](BadgesRight /\ ActiveListed)
  BY <1>1, FocusFixed, FocusIsComponent, UntouchedStays, BadgesRightAlways, ActiveListedAlways, PTL
<1>7. WorkspaceSpec => []ProfileRight
  BY <1>1, FocusFixed, FocusIsComponent, UntouchedStays, ProfileRightAlways, PTL
<1>8. WorkspaceSpec => []PanelRight
  BY <1>1, FocusFixed, FocusIsComponent, UntouchedStays, PanelRightAlways, PTL
<1>9. /\ WorkspaceTypeOK /\ SingleChoice /\ PollShown /\ RemindedOnce /\ BannerShowsUpcoming
      /\ ClockSequence /\ TotalsAddUp /\ WidgetOffersLegalActions /\ OneOwner /\ LinksUsedOnce
      /\ GatewayShowsRight /\ CollabRight /\ BadgesRight /\ ActiveListed /\ ProfileRight
      /\ PanelRight
      => WorkspaceRight
  BY DEF WorkspaceRight
<1>10. QED
  BY <1>2, <1>3, <1>4, <1>5, <1>6, <1>7, <1>8, <1>9, WorkspaceTypeCorrect,
     GatewayShowsRightAlways, CollabRightAlways, PTL
=============================================================================
