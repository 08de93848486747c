--------------------------- MODULE SessionsProofs ---------------------------
(***************************************************************************)
(* What is proved of Sessions for any browsers, pages, tokens and          *)
(* requests: its types, that used tokens are of no use again, that an      *)
(* ended session stays ended, and that the cookie of a browser in which    *)
(* nothing went wrong is good for the next refresh.                        *)
(*                                                                         *)
(* The invariant has two halves.  TokenInv is about the server alone: what *)
(* a request knows of the token it presents.  BrowserInv is about who      *)
(* holds which token: two browsers never hold tokens of one family, a      *)
(* token that is on its way to a browser is held by nobody else, and       *)
(* whatever spoils a cookie has an answer to give that replaces it.        *)
(***************************************************************************)
EXTENDS Sessions, TLAPS

(* What a request knows of its token: program counter, operation and token *)
(* agree, the token was issued, a rotation that was granted has spent it,  *)
(* and a session that was ended is extended only by the stragglers.        *)
Knows(q) ==
  /\ q.op # "none" <=> q.pc \in Running
  /\ q.op = "none" => q.token = None
  /\ q.op # "none" => q.tab \in Tab /\ q.browser = BrowserOf[q.tab]
  /\ q.op \in {"refresh", "logout"} \/ q.pc = "issued" => q.token \in Token
  /\ q.token # None => token[q.token].row # "none"
  /\ q.pc \in {"found", "reuse"} => q.op = "refresh"
  /\ q.pc \in {"granted", "issued"} => q.op \in {"refresh", "login"}
  /\ q.op = "logout" => q.pc \in {"sent", "cleared"}
  /\ q.pc = "reuse" \/ (q.pc = "granted" /\ q.op = "refresh") =>
       token[q.token].row \in {"revoked", "deleted"}
  /\ q.op = "refresh" /\ q.pc \in {"found", "granted"} /\ token[q.token].family \in ended =>
       token[q.token].family \in stragglers

RequestsKnow == \A r \in Request : Knows(req[r])

CookiesIssued == \A b \in Browser : cookie[b] # None => token[cookie[b]].row # "none"

(* A family is named by a token that was issued; only what belongs to an   *)
(* ended session was deleted.                                              *)
FamiliesRooted ==
  /\ \A t \in Token : token[t].row # "none" => token[token[t].family].row # "none"
  /\ \A f \in ended : token[f].row # "none"
  /\ \A t \in Token : token[t].row = "deleted" => token[t].family \in ended

TokenInv ==
  /\ TypeOK /\ password <= ends
  /\ RequestsKnow /\ CookiesIssued /\ FamiliesRooted
  /\ PredecessorSpent /\ EndedSessionsStayEnded

---------------------------------------------------------------------------
Held(b) == {t \in Token : t = cookie[b] \/ \E r \in Request : req[r].browser = b /\ req[r].token = t}

Good(t) == token[t].row = "live" \/ token[t].family \in ended

Refreshing(r) == req[r].op = "refresh"

(* A session lives in one browser. *)
FamiliesApart ==
  \A a, b \in Browser : a # b =>
    \A t \in Held(a), u \in Held(b) : token[t].family # token[u].family

(* A browser in which nothing went wrong has one refresh under way, which  *)
(* its page waits for.                                                     *)
OneRefresh ==
  /\ \A r \in Request : Refreshing(r) /\ req[r].browser \notin disturbed =>
       refreshing[req[r].tab] = r
  /\ \A r, q \in Request :
       Refreshing(r) /\ Refreshing(q) /\ req[r].browser = req[q].browser
         /\ req[r].browser \notin disturbed => r = q

(* A token that was issued and not received is in no cookie and in no      *)
(* other request, and nobody else has a token of the family of a login.    *)
IssuedAlone ==
  \A r \in Request : req[r].pc = "issued" =>
    /\ \A q \in Request \ {r} :
         /\ req[q].token # req[r].token
         /\ req[r].op = "login" /\ req[q].token # None =>
              token[req[q].token].family # token[req[r].token].family
    /\ \A b \in Browser :
         /\ cookie[b] # req[r].token
         /\ req[r].op = "login" /\ cookie[b] # None =>
              token[cookie[b]].family # token[req[r].token].family

(* A refresh before its answer presents the cookie, or one of another      *)
(* family than the cookie's.                                               *)
PresentsCookie ==
  \A r \in Request :
    Refreshing(r) /\ req[r].pc \in {"sent", "found", "reuse"} /\ req[r].browser \notin disturbed =>
      \/ cookie[req[r].browser] \in {None, req[r].token}
      \/ token[cookie[req[r].browser]].family # token[req[r].token].family

(* What a browser gets is good, and a cookie that is not good will be      *)
(* replaced by the answer to a logout or to a refresh that was granted.    *)
AnswersGood ==
  \A r \in Request : req[r].pc = "issued" /\ req[r].browser \notin disturbed =>
    Good(req[r].token)

CookieGoodOrReplaced ==
  \A b \in Browser \ disturbed : cookie[b] # None =>
    \/ Good(cookie[b])
    \/ \E r \in Request : req[r].browser = b /\
         (req[r].op = "logout" \/ (Refreshing(r) /\ req[r].pc \in {"granted", "issued"}))

BrowserInv ==
  /\ FamiliesApart /\ OneRefresh /\ IssuedAlone /\ PresentsCookie /\ AnswersGood
  /\ CookieGoodOrReplaced
---------------------------------------------------------------------------
(* The server's half.                                                      *)

(* A request that is over knows nothing. *)
LEMMA OverKnows ==
  /\ NoRequest \in RequestRecord /\ Knows(NoRequest)
  /\ [NoRequest EXCEPT !.pc = "done"] \in RequestRecord /\ Knows([NoRequest EXCEPT !.pc = "done"])
<1>1. NoRequest \in RequestRecord /\ [NoRequest EXCEPT !.pc = "done"] \in RequestRecord
  BY DEF NoRequest, RequestRecord
<1>2. /\ NoRequest.pc = "idle" /\ NoRequest.op = "none" /\ NoRequest.token = None
      /\ LET q == [NoRequest EXCEPT !.pc = "done"]
         IN  q.pc = "done" /\ q.op = "none" /\ q.token = None
  BY DEF NoRequest
<1>3. QED BY <1>1, <1>2 DEF Knows, Running

(* A step that moves one request on and leaves the tokens alone. *)
LEMMA RequestStep ==
  ASSUME TokenInv, UNCHANGED <<token, password, active, ending, ends, ended, stragglers>>,
         NEW r \in Request, NEW q \in RequestRecord, Knows(q), req' = [req EXCEPT ![r] = q],
         cookie' \in [Browser -> Token \cup {None}], CookiesIssued',
         refreshing' \in [Tab -> Request \cup {None}], disturbed' \subseteq Browser
  PROVE  TokenInv'
<1> USE DEF TokenInv
<1>1. TypeOK'
  BY DEF TypeOK
<1>2. RequestsKnow'
  BY DEF RequestsKnow, Knows, TypeOK
<1>3. FamiliesRooted' /\ PredecessorSpent' /\ EndedSessionsStayEnded'
  BY DEF FamiliesRooted, PredecessorSpent, EndedSessionsStayEnded
<1>4. QED BY <1>1, <1>2, <1>3

(* What the browsers do: sending, receiving, losing, reloading. *)
LEMMA BrowserStepsKeepTokens ==
  ASSUME TokenInv,
         \/ \E r \in Request, tab \in Tab :
              SendRefresh(r, tab) \/ SendLogin(r, tab) \/ SendLogout(r, tab)
         \/ \E r \in Request : Receive(r) \/ Lose(r)
         \/ \E tab \in Tab : Reload(tab)
  PROVE  TokenInv'
<1> USE SessionsAssumption DEF TokenInv
<1>1. ASSUME NEW r \in Request, NEW tab \in Tab,
             SendRefresh(r, tab) \/ SendLogin(r, tab) \/ SendLogout(r, tab)
      PROVE  TokenInv'
  <2>1. PICK op \in {"login", "refresh", "logout"} :
          Begin(r, op, tab) /\ (op # "login" => cookie[BrowserOf[tab]] # None)
    BY <1>1 DEF SendRefresh, SendLogin, SendLogout
  <2> DEFINE q == [pc |-> "sent", op |-> op, tab |-> tab, browser |-> BrowserOf[tab],
                   token |-> cookie[BrowserOf[tab]], password |-> password]
  <2>2. q \in RequestRecord
    BY DEF RequestRecord, Running, TypeOK
  <2>3. Knows(q)
    BY <2>1 DEF Knows, Running, CookiesIssued, TypeOK
  <2>4. req' = [req EXCEPT ![r] = q]
    BY <2>1 DEF Begin
  <2>5. /\ UNCHANGED <<token, cookie, password, active, ending, ends, ended, stragglers>>
        /\ disturbed' \subseteq Browser /\ refreshing' \in [Tab -> Request \cup {None}]
    BY <1>1 DEF SendRefresh, SendLogin, SendLogout, SameAccount, Disturb, account, TypeOK
  <2> HIDE DEF q
  <2>6. cookie' \in [Browser -> Token \cup {None}] /\ CookiesIssued'
    BY <2>5 DEF TypeOK, CookiesIssued
  <2>7. QED BY <2>2, <2>3, <2>4, <2>5, <2>6, RequestStep
<1>2. ASSUME NEW r \in Request, Receive(r) \/ Lose(r) PROVE TokenInv'
  <2>1. /\ UNCHANGED <<token, password, active, ending, ends, ended, stragglers>>
        /\ req' = [req EXCEPT ![r] = [NoRequest EXCEPT !.pc = "done"]]
    BY <1>2 DEF Receive, Lose, SameAccount, Disturb, account
  <2>2. req[r].browser \in Browser
    BY <1>2 DEF Receive, Lose, RequestsKnow, Knows, Running
  <2>3. refreshing' \in [Tab -> Request \cup {None}] /\ disturbed' \subseteq Browser
    BY <1>2, <2>2 DEF Receive, Lose, Release, SameAccount, Disturb, TypeOK
  <2>4. cookie' \in [Browser -> Token \cup {None}] /\ CookiesIssued'
    <3>1. CASE Receive(r) /\ req[r].pc = "issued"
      BY <3>1, <2>1, <2>2 DEF Receive, RequestsKnow, Knows, CookiesIssued, TypeOK
    <3>2. CASE Receive(r) /\ req[r].pc = "cleared"
      BY <3>2, <2>1, <2>2 DEF Receive, CookiesIssued, TypeOK
    <3>3. CASE cookie' = cookie
      BY <3>3, <2>1 DEF CookiesIssued, TypeOK
    <3>4. QED BY <1>2, <3>1, <3>2, <3>3 DEF Receive, Lose
  <2>5. QED BY <2>1, <2>3, <2>4, OverKnows, RequestStep
<1>3. ASSUME NEW tab \in Tab, Reload(tab) PROVE TokenInv'
  <2>1. /\ UNCHANGED <<token, cookie, req, password, active, ending, ends, ended, stragglers>>
        /\ refreshing' \in [Tab -> Request \cup {None}] /\ disturbed' \subseteq Browser
    BY <1>3 DEF Reload, Disturb, account, TypeOK
  <2>2. TypeOK'
    BY <2>1 DEF TypeOK
  <2>3. QED BY <2>1, <2>2
            DEF RequestsKnow, Knows, CookiesIssued, FamiliesRooted, PredecessorSpent,
                EndedSessionsStayEnded
<1>4. QED BY <1>1, <1>2, <1>3

(* Steps of the server that write no token. *)
LEMMA ChecksKeepTokens ==
  ASSUME TokenInv, NEW r \in Request,
         \/ Find(r) \/ CheckPassword(r)
         \/ RevokePresented(r) /\ token[req[r].token].row = "deleted"
  PROVE  TokenInv'
<1> USE DEF TokenInv
<1>1. PICK pc \in {"failed", "reuse", "found", "granted"} : Goto(r, pc) /\
        (pc = "reuse" => req[r].op = "refresh" /\ token[req[r].token].row = "revoked") /\
        (pc = "found" => req[r].op = "refresh" /\ token[req[r].token].row = "live") /\
        (pc = "granted" => req[r].op = "login")
  <2>1. CASE Find(r)
    <3>1. req[r].token \in Token /\ token[req[r].token].row \in {"live", "revoked", "deleted"}
      BY <2>1, SessionsAssumption DEF Find, RequestsKnow, Knows, TypeOK, TokenRecord
    <3>2. QED BY <2>1, <3>1 DEF Find
  <2>2. CASE ~Find(r)
    BY <2>2 DEF CheckPassword, RevokePresented
  <2>3. QED BY <2>1, <2>2
<1>2. req[r].pc \in {"sent", "found"} /\ req[r].op # "logout"
  BY DEF Find, CheckPassword, RevokePresented, RequestsKnow, Knows
<1> DEFINE q == [req[r] EXCEPT !.pc = pc]
<1>3. q \in RequestRecord
  BY DEF TypeOK, RequestRecord, Running
<1>4. Knows(req[r]) /\ req[r] \in RequestRecord
  BY DEF RequestsKnow, TypeOK
<1>5. Knows(q)
  BY <1>1, <1>2, <1>4 DEF Knows, Running, EndedSessionsStayEnded, RequestRecord
<1>6. req' = [req EXCEPT ![r] = q]
  BY <1>1 DEF Goto, TypeOK
<1>7. /\ UNCHANGED <<token, cookie, refreshing, password, active, ending, ends, ended,
                     stragglers, disturbed>>
  BY DEF Find, CheckPassword, RevokePresented, SameAccount, account
<1> HIDE DEF q
<1>8. QED BY <1>3, <1>5, <1>6, <1>7, RequestStep DEF TypeOK, CookiesIssued

(* A step that revokes tokens, one at least that no request counts on. *)
LEMMA RevokingStep ==
  ASSUME TokenInv,
         UNCHANGED <<cookie, refreshing, password, active, ending, ends, ended, stragglers,
                     disturbed>>,
         token' \in [Token -> TokenRecord],
         \A t \in Token :
           /\ token'[t].family = token[t].family /\ token'[t].from = token[t].from
           /\ \/ token'[t].row = token[t].row
              \/ token[t].row \in {"live", "revoked"} /\ token'[t].row = "revoked",
         NEW r \in Request, NEW q \in RequestRecord, Knows(q)', req' = [req EXCEPT ![r] = q]
  PROVE  TokenInv'
<1> USE SessionsAssumption DEF TokenInv
<1>1. \A t \in Token : token'[t].row = "none" <=> token[t].row = "none"
  OBVIOUS
<1>2. TypeOK'
  BY <1>1 DEF TypeOK
<1>3. RequestsKnow'
  <2>1. ASSUME NEW p \in Request \ {r} PROVE Knows(req[p])'
    <3>1. req'[p] = req[p] /\ Knows(req[p]) /\ req[p] \in RequestRecord
      BY <2>1 DEF RequestsKnow, TypeOK
    <3>2. req[p].token \in Token \cup {None}
      BY <3>1 DEF RequestRecord
    <3>3. QED BY <1>1, <3>1, <3>2 DEF Knows
  <2>2. req'[r] = q
    BY DEF TypeOK
  <2>3. QED BY <2>1, <2>2 DEF RequestsKnow, Knows
<1>4. CookiesIssued' /\ FamiliesRooted'
  BY <1>1 DEF CookiesIssued, FamiliesRooted, TypeOK, TokenRecord
<1>5. PredecessorSpent'
  <2>1. \A t \in Token : token[t].from \in Token \cup {None}
    BY DEF TypeOK, TokenRecord
  <2>2. QED BY <2>1 DEF PredecessorSpent
<1>6. EndedSessionsStayEnded'
  BY DEF EndedSessionsStayEnded
<1>7. QED BY <1>2, <1>3, <1>4, <1>5, <1>6

(* Rotation, logout and the revocation of a family. *)
LEMMA RevocationsKeepTokens ==
  ASSUME TokenInv, NEW r \in Request,
         \/ RevokeFamily(r) \/ RevokeOnLogout(r)
         \/ RevokePresented(r) /\ token[req[r].token].row # "deleted"
  PROVE  TokenInv'
<1> USE SessionsAssumption DEF TokenInv
<1>1. req[r] \in RequestRecord /\ Knows(req[r])
  BY DEF RequestsKnow, TypeOK
<1>2. /\ UNCHANGED <<cookie, refreshing, password, active, ending, ends, ended, stragglers,
                     disturbed>>
  BY DEF RevokeFamily, RevokeOnLogout, RevokePresented, SameAccount, account
<1>3. token' \in [Token -> TokenRecord] /\
      \A t \in Token :
        /\ token'[t].family = token[t].family /\ token'[t].from = token[t].from
        /\ \/ token'[t].row = token[t].row
           \/ token[t].row \in {"live", "revoked"} /\ token'[t].row = "revoked"
  <2>1. CASE RevokeFamily(r)
    BY <2>1 DEF RevokeFamily, Live, TypeOK, TokenRecord
  <2>2. CASE RevokeOnLogout(r)
    BY <1>1, <2>2 DEF RevokeOnLogout, Knows, TypeOK, TokenRecord
  <2>3. CASE RevokePresented(r) /\ token[req[r].token].row # "deleted"
    <3>1. token[req[r].token].row \in {"live", "revoked"} /\ req[r].token \in Token
      BY <1>1, <2>3 DEF RevokePresented, Knows, TypeOK, TokenRecord
    <3>2. QED BY <2>3, <3>1 DEF RevokePresented, TypeOK, TokenRecord
  <2>4. QED BY <2>1, <2>2, <2>3
<1>4. PICK pc \in {"failed", "cleared", "granted"} : Goto(r, pc) /\
        (pc = "cleared" <=> req[r].op = "logout") /\
        (pc = "granted" => /\ req[r].op = "refresh" /\ req[r].pc = "found"
                           /\ token' = [token EXCEPT ![req[r].token].row = "revoked"])
  BY <1>1 DEF RevokeFamily, RevokeOnLogout, RevokePresented, Knows
<1>5. PICK q \in RequestRecord : q = [req[r] EXCEPT !.pc = pc]
  BY <1>1 DEF RequestRecord, Running
<1>6. req' = [req EXCEPT ![r] = q]
  BY <1>4, <1>5 DEF Goto, TypeOK
<1>7. Knows(q)'
  <2>1. /\ q.pc = pc /\ q.op = req[r].op /\ q.token = req[r].token /\ q.tab = req[r].tab
        /\ q.browser = req[r].browser
    BY <1>1, <1>5 DEF RequestRecord
  <2>2. req[r].op # "none" /\ req[r].pc \in Running
    BY <1>1 DEF RevokeFamily, RevokeOnLogout, RevokePresented, Knows, Running
  <2>3. CASE pc = "granted"
    <3>1. req[r].token \in Token /\ token'[req[r].token].row = "revoked"
      BY <1>1, <1>4, <2>3 DEF Knows, TypeOK, TokenRecord
    <3>2. token'[req[r].token].family = token[req[r].token].family
      BY <1>3, <3>1
    <3>3. QED BY <1>1, <1>2, <1>4, <2>1, <2>2, <2>3, <3>1, <3>2 DEF Knows, Running
  <2>4. CASE pc # "granted"
    <3>1. req[r].token # None => token'[req[r].token].row # "none"
      BY <1>1, <1>3 DEF Knows, RequestRecord
    <3>2. req[r].op \in {"refresh", "logout"}
      BY <1>1 DEF RevokeFamily, RevokeOnLogout, RevokePresented, Knows
    <3>3. QED BY <1>1, <1>4, <2>1, <2>2, <2>4, <3>1, <3>2 DEF Knows, Running
  <2>5. QED BY <2>3, <2>4
<1>8. QED BY <1>2, <1>3, <1>6, <1>7, RevokingStep

(* A fresh token, which nobody holds and no token comes from. *)
LEMMA IssueKeepsTokens ==
  ASSUME TokenInv, NEW r \in Request, NEW new \in Token, Issue(r, new)
  PROVE  TokenInv'
<1> USE SessionsAssumption DEF TokenInv
<1>1. req[r] \in RequestRecord /\ Knows(req[r]) /\ req[r].op \in {"refresh", "login"}
  BY DEF RequestsKnow, TypeOK, Issue, Knows
<1>2. UNCHANGED <<cookie, refreshing, password, active, ending, ends, ended, stragglers,
                  disturbed>>
  BY DEF Issue, SameAccount, account
<1>3. \A t \in Token \ {new} : token'[t] = token[t]
  BY DEF Issue, TypeOK
<1>4. /\ token[new].row = "none" /\ token'[new] \in TokenRecord /\ token'[new].row = "live"
      /\ \/ /\ req[r].op = "login" /\ token'[new].family = new /\ token'[new].from = None
         \/ /\ req[r].op = "refresh" /\ token'[new].family = token[req[r].token].family
            /\ token'[new].from = req[r].token
      /\ token' \in [Token -> TokenRecord] /\ token'[new].family \in Token
  BY <1>1 DEF Issue, Knows, TypeOK, TokenRecord
<1>5. req[r].op = "refresh" =>
        /\ token[req[r].token].row \in {"revoked", "deleted"} /\ req[r].token \in Token \ {new}
        /\ token[req[r].token].family \in ended => token[req[r].token].family \in stragglers
  BY <1>1, <1>4 DEF Issue, Knows
<1>6. PICK q \in RequestRecord : q = [req[r] EXCEPT !.pc = "issued", !.token = new]
  BY <1>1 DEF RequestRecord, Running
<1>7. req' = [req EXCEPT ![r] = q]
  BY <1>6 DEF Issue, TypeOK
<1>8. \A t \in Token : token[t].family \in Token \cup {None}
  BY DEF TypeOK, TokenRecord
<1>9. TypeOK'
  BY <1>2, <1>3, <1>4, <1>7 DEF TypeOK
<1>10. RequestsKnow'
  <2>1. ASSUME NEW p \in Request \ {r} PROVE Knows(req[p])'
    <3>1. req'[p] = req[p] /\ Knows(req[p]) /\ req[p].token \in Token \cup {None}
      BY <1>7, <2>1 DEF RequestsKnow, TypeOK, RequestRecord
    <3>2. req[p].token # None => req[p].token \in Token \ {new}
      BY <1>4, <3>1 DEF Knows
    <3>3. QED BY <1>2, <1>3, <3>1, <3>2 DEF Knows
  <2>2. Knows(q)'
    BY <1>1, <1>4, <1>6 DEF Knows, Running, Issue, RequestRecord
  <2>3. req'[r] = q
    BY <1>7 DEF TypeOK
  <2>4. QED BY <2>1, <2>2, <2>3 DEF RequestsKnow, Knows
<1>11. CookiesIssued'
  BY <1>2, <1>3, <1>4 DEF CookiesIssued, TypeOK
<1>12. FamiliesRooted'
  BY <1>2, <1>3, <1>4, <1>5, <1>8 DEF FamiliesRooted, TypeOK
<1>13. PredecessorSpent'
  <2>1. \A t \in Token : token[t].from \in Token \cup {None}
    BY DEF TypeOK, TokenRecord
  <2>2. QED BY <1>3, <1>4, <1>5, <2>1 DEF PredecessorSpent
<1>14. EndedSessionsStayEnded'
  BY <1>2, <1>3, <1>4, <1>5 DEF EndedSessionsStayEnded, FamiliesRooted
<1>15. QED BY <1>2, <1>9, <1>10, <1>11, <1>12, <1>13, <1>14

(* The end of all sessions. *)
LEMMA EndKeepsTokens ==
  ASSUME TokenInv, BeginEnd \/ DeleteTokens \/ Activate
  PROVE  TokenInv'
<1> USE SessionsAssumption DEF TokenInv
<1>1. CASE BeginEnd \/ Activate
  <2>1. UNCHANGED <<token, cookie, req, refreshing, ended, stragglers, disturbed>>
    BY <1>1 DEF BeginEnd, Activate
  <2>2. password' \in 0 .. MaxEnds /\ ends' \in 0 .. MaxEnds /\ password' <= ends'
    BY <1>1 DEF BeginEnd, Activate, TypeOK
  <2>3. active' \in BOOLEAN
    BY <1>1, Zenon DEF BeginEnd, Activate, TypeOK
  <2>4. ending' \in {"no", "delete"}
    BY <1>1 DEF BeginEnd, Activate, TypeOK
  <2>5. TypeOK'
    BY <2>1, <2>2, <2>3, <2>4 DEF TypeOK
  <2>6. QED BY <2>1, <2>2, <2>5
            DEF RequestsKnow, Knows, CookiesIssued, FamiliesRooted, PredecessorSpent,
                EndedSessionsStayEnded
<1>2. CASE DeleteTokens
  <2>1. /\ token' \in [Token -> TokenRecord]
        /\ \A t \in Token : /\ token'[t].family = token[t].family
                            /\ token'[t].from = token[t].from
                            /\ token'[t].row \in {"none", "deleted"}
                            /\ token'[t].row = "none" <=> token[t].row = "none"
    BY <1>2 DEF DeleteTokens, TypeOK, TokenRecord
  <2>2. /\ UNCHANGED <<cookie, refreshing, req, password, active, ends, disturbed>>
        /\ ended' = ended \cup Families /\ ending' = "no"
        /\ stragglers' = stragglers \cup {f \in Families : Extending(f) # {}}
    BY <1>2 DEF DeleteTokens
  <2>3. Families \subseteq Token /\
        \A t \in Token : token[t].row # "none" => token[t].family \in Families
    BY DEF Families, TypeOK, TokenRecord
  <2>4. TypeOK'
    BY <2>1, <2>2, <2>3 DEF TypeOK
  <2>5. RequestsKnow'
    <3>1. ASSUME NEW r \in Request PROVE Knows(req[r])'
      <4>1. req'[r] = req[r] /\ Knows(req[r]) /\ req[r].token \in Token \cup {None}
        BY <2>2 DEF RequestsKnow, TypeOK, RequestRecord
      <4>2. req[r].op = "refresh" /\ req[r].pc \in {"found", "granted"} =>
              token'[req[r].token].family \in stragglers'
        <5>1. req[r].op = "refresh" =>
                /\ token[req[r].token].family \in Families
                /\ token'[req[r].token].family = token[req[r].token].family
          BY <2>1, <2>3, <4>1 DEF Knows
        <5>2. QED BY <2>2, <5>1 DEF Extending
      <4>3. QED BY <2>1, <4>1, <4>2 DEF Knows
    <3>2. QED BY <3>1 DEF RequestsKnow
  <2>6. CookiesIssued'
    BY <2>1, <2>2 DEF CookiesIssued, TypeOK
  <2>7. FamiliesRooted'
    BY <2>1, <2>2, <2>3 DEF FamiliesRooted, Families, TypeOK, TokenRecord
  <2>8. PredecessorSpent'
    <3>1. \A t \in Token : token[t].from \in Token \cup {None}
      BY DEF TypeOK, TokenRecord
    <3>2. QED BY <2>1, <3>1 DEF PredecessorSpent
  <2>9. EndedSessionsStayEnded'
    BY <2>1 DEF EndedSessionsStayEnded
  <2>10. QED BY <2>2, <2>4, <2>5, <2>6, <2>7, <2>8, <2>9
<1>3. QED BY <1>1, <1>2

(* At first nobody has a token. *)
LEMMA InitTokenInv == Init => TokenInv
<1> SUFFICES ASSUME Init PROVE TokenInv
  OBVIOUS
<1> USE SessionsAssumption DEF Init
<1>1. NoToken \in TokenRecord /\ NoToken.row = "none" /\ NoToken.family = None
      /\ NoToken.from = None
  BY DEF NoToken, TokenRecord
<1>2. TypeOK
  BY <1>1, OverKnows DEF TypeOK
<1>3. RequestsKnow /\ password <= ends
  BY OverKnows DEF RequestsKnow
<1>4. CookiesIssued /\ FamiliesRooted /\ PredecessorSpent /\ EndedSessionsStayEnded
  BY <1>1 DEF CookiesIssued, FamiliesRooted, PredecessorSpent, EndedSessionsStayEnded
<1>5. QED BY <1>2, <1>3, <1>4 DEF TokenInv

(* Every step keeps the server's half. *)
LEMMA StepTokenInv == TokenInv /\ [Next]_vars => TokenInv'
<1> SUFFICES ASSUME TokenInv, [Next]_vars PROVE TokenInv'
  OBVIOUS
<1>1. ASSUME NEW r \in Request, Serve(r) PROVE TokenInv'
  BY <1>1, ChecksKeepTokens, RevocationsKeepTokens, IssueKeepsTokens DEF Serve
<1>2. CASE UNCHANGED vars
  BY <1>2 DEF vars, TokenInv, TypeOK, RequestsKnow, Knows, CookiesIssued, FamiliesRooted,
              PredecessorSpent, EndedSessionsStayEnded
<1>3. QED BY <1>1, <1>2, BrowserStepsKeepTokens, EndKeepsTokens DEF Next

---------------------------------------------------------------------------
(* What a step does to tokens and requests.                                *)

(* A token keeps its family, and only a token just issued becomes live. *)
LEMMA TokensMove ==
  ASSUME TokenInv, [Next]_vars, NEW t \in Token
  PROVE  /\ token[t].row # "none" => token'[t].row # "none" /\ token'[t].family = token[t].family
         /\ token'[t].row = "live" /\ token[t].row # "live" =>
              \E r \in Request : Issue(r, t)
<1> USE SessionsAssumption DEF TokenInv, TypeOK, TokenRecord
<1>1. CASE UNCHANGED token
  BY <1>1
<1>2. ASSUME NEW r \in Request, RevokeFamily(r) \/ RevokePresented(r) \/ RevokeOnLogout(r)
      PROVE  /\ token'[t].row \in {token[t].row, "revoked"} /\ token'[t].family = token[t].family
             /\ token[t].row # "none" => token'[t].row # "none"
  BY <1>2 DEF RevokeFamily, RevokePresented, RevokeOnLogout
<1>3. ASSUME NEW r \in Request, NEW new \in Token, Issue(r, new), ~UNCHANGED token
      PROVE  /\ token[t].row # "none" => token'[t] = token[t]
             /\ token'[t].row = "live" /\ token[t].row # "live" => Issue(r, t)
  <2>1. CASE t = new
    BY <1>3, <2>1 DEF Issue
  <2>2. CASE t # new
    BY <1>3, <2>2 DEF Issue
  <2>3. QED BY <2>1, <2>2
<1>4. CASE DeleteTokens
  BY <1>4 DEF DeleteTokens
<1>5. ASSUME ~UNCHANGED token
      PROVE  \/ DeleteTokens
             \/ \E r \in Request :
                  \/ RevokeFamily(r) \/ RevokePresented(r) \/ RevokeOnLogout(r)
                  \/ \E new \in Token : Issue(r, new)
  BY <1>5 DEF Next, Serve, vars, SendRefresh, SendLogin, SendLogout, Receive, Lose, Reload, Find,
              CheckPassword, BeginEnd, Activate
<1>6. QED BY <1>1, <1>2, <1>3, <1>4, <1>5

(* A rotation under way found its token live, in the step at the latest. *)
LEMMA RequestsMove ==
  ASSUME TokenInv, [Next]_vars, NEW r \in Request,
         req'[r].op = "refresh", req'[r].pc \in {"found", "granted"}
  PROVE  /\ req[r].op = "refresh" /\ req'[r].token = req[r].token /\ req[r].token \in Token
         /\ req[r].pc \in {"found", "granted"} \/ token[req[r].token].row = "live"
<1> USE SessionsAssumption DEF TokenInv, TypeOK, RequestRecord
<1>1. CASE req'[r] = req[r]
  BY <1>1 DEF RequestsKnow, Knows
<1>2. ASSUME NEW q \in Request, NEW tab \in Tab,
             SendRefresh(q, tab) \/ SendLogin(q, tab) \/ SendLogout(q, tab)
      PROVE  req'[r] = req[r]
  <2>1. PICK rec : rec.pc = "sent" /\ req' = [req EXCEPT ![q] = rec]
    BY <1>2 DEF SendRefresh, SendLogin, SendLogout, Begin
  <2>2. QED BY <2>1
<1>3. ASSUME NEW q \in Request, Receive(q) \/ Lose(q) PROVE req'[r] = req[r]
  BY <1>3 DEF Receive, Lose, NoRequest
<1>4. ASSUME NEW q \in Request, RevokeFamily(q) \/ CheckPassword(q) \/ RevokeOnLogout(q)
                                 \/ \E new \in Token : Issue(q, new)
      PROVE  req'[r] = req[r]
  <2>1. q # r => req'[r] = req[r]
    BY <1>4 DEF RevokeFamily, CheckPassword, RevokeOnLogout, Issue, Goto
  <2>2. q = r => req'[r].pc \in {"failed", "cleared", "issued"} \/ req'[r].op = "login"
    BY <1>4 DEF RevokeFamily, CheckPassword, RevokeOnLogout, Issue, Goto
  <2>3. QED BY <2>1, <2>2
<1>5. ASSUME NEW q \in Request, Find(q) \/ RevokePresented(q), q = r
      PROVE  /\ req[r].op = "refresh" /\ req'[r].token = req[r].token
             /\ req[r].pc = "found" \/ token[req[r].token].row = "live"
  <2>1. Knows(req[r])
    BY DEF RequestsKnow
  <2>2. CASE Find(q)
    <3>1. token[req[r].token].row \in {"live", "revoked", "deleted"}
      BY <2>1, <2>2, <1>5 DEF Find, Knows, TokenRecord
    <3>2. QED BY <2>2, <1>5, <3>1 DEF Find, Goto
  <2>3. CASE RevokePresented(q)
    BY <2>1, <2>3, <1>5 DEF RevokePresented, Goto, Knows
  <2>4. QED BY <1>5, <2>2, <2>3
<1>6. ASSUME NEW q \in Request, Find(q) \/ RevokePresented(q), q # r
      PROVE  req'[r] = req[r]
  BY <1>6 DEF Find, RevokePresented, Goto
<1>7. CASE UNCHANGED req
  BY <1>1, <1>7
<1>8. CASE BeginEnd \/ DeleteTokens \/ Activate \/ \E tab \in Tab : Reload(tab)
  BY <1>7, <1>8 DEF BeginEnd, DeleteTokens, Activate, Reload
<1>9. Knows(req[r])
  BY DEF RequestsKnow
<1>10. QED
  BY <1>1, <1>2, <1>3, <1>4, <1>5, <1>6, <1>7, <1>8, <1>9 DEF Next, Serve, vars, Knows

(* A family that has no live token and no rotation under way gets none. *)
LEMMA DeadFamilyStep ==
  ASSUME TokenInv, [Next]_vars, NEW f \in Token, f \in Families, Live(f) = {}, Extending(f) = {}
  PROVE  Live(f)' = {} /\ Extending(f)' = {}
<1> USE SessionsAssumption
<1>1. token[f].row # "none" /\ \A t \in Token : token[t].family = f => token[t].row # "none"
  BY DEF TokenInv, Families, FamiliesRooted, TypeOK
<1>2. ASSUME NEW t \in Token, token'[t].row = "live", token'[t].family = f PROVE FALSE
  <2>1. token[t].row # "live"
    BY <1>2, TokensMove DEF Live
  <2>2. PICK r \in Request : Issue(r, t)
    BY <1>2, <2>1, TokensMove
  <2>3. Knows(req[r]) /\ token[t].row = "none" /\ t # f
    BY <1>1, <2>2 DEF TokenInv, RequestsKnow, Issue
  <2>4. req[r].op = "refresh" /\ token'[t].family = token[req[r].token].family
    BY <1>2, <2>2, <2>3 DEF Issue, Knows, TokenInv, TypeOK
  <2>5. r \in Extending(f)
    BY <1>2, <2>2, <2>4 DEF Extending, Issue
  <2>6. QED BY <2>5
<1>3. ASSUME NEW r \in Request, req'[r].op = "refresh", req'[r].pc \in {"found", "granted"},
             token'[req'[r].token].family = f
      PROVE  FALSE
  <2>1. /\ req[r].op = "refresh" /\ req'[r].token = req[r].token /\ req[r].token \in Token
        /\ req[r].pc \in {"found", "granted"} \/ token[req[r].token].row = "live"
    BY <1>3, RequestsMove
  <2>2. token[req[r].token].row # "none"
    BY <2>1 DEF TokenInv, RequestsKnow, Knows
  <2>3. token[req[r].token].family = f
    BY <1>3, <2>1, <2>2, TokensMove
  <2>4. r \in Extending(f) \/ req[r].token \in Live(f)
    BY <2>1, <2>3 DEF Extending, Live
  <2>5. QED BY <2>4
<1>4. QED BY <1>2, <1>3 DEF Live, Extending

---------------------------------------------------------------------------
(* The browsers' half.                                                     *)

FamiliesKept ==
  \A t \in Token : token[t].row # "none" =>
    token'[t].row # "none" /\ token'[t].family = token[t].family

(* What is held is a token that was issued. *)
LEMMA HeldTokens ==
  ASSUME TokenInv
  PROVE  /\ \A b \in Browser : cookie[b] # None =>
              cookie[b] \in Token /\ token[cookie[b]].row # "none" /\ cookie[b] \in Held(b)
         /\ \A r \in Request : req[r].token # None =>
              req[r].token \in Token /\ token[req[r].token].row # "none"
         /\ \A r \in Request : req[r].op # "none" =>
              /\ req[r].browser \in Browser
              /\ req[r].token # None => req[r].token \in Held(req[r].browser)
<1> USE SessionsAssumption DEF TokenInv, TypeOK, RequestRecord
<1>1. \A r \in Request : Knows(req[r])
  BY DEF RequestsKnow
<1>2. QED BY <1>1 DEF Knows, CookiesIssued, Held

(* A step that moves no token and no cookie keeps it, as long as nothing   *)
(* is spoiled.                                                             *)
LEMMA QuietStep ==
  ASSUME TokenInv, BrowserInv, UNCHANGED <<cookie, req>>, FamiliesKept, OneRefresh',
         \A t \in Token : token[t].row # "none" /\ Good(t) => Good(t)',
         disturbed \subseteq disturbed'
  PROVE  BrowserInv'
<1> USE DEF BrowserInv
<1>0. /\ \A b \in Browser : cookie[b] # None =>
           cookie[b] \in Token /\ token[cookie[b]].row # "none"
      /\ \A r \in Request : req[r].token # None =>
           req[r].token \in Token /\ token[req[r].token].row # "none"
  BY HeldTokens
<1>1. \A b \in Browser : Held(b)' = Held(b) /\
        \A t \in Held(b) : t \in Token /\ token[t].row # "none"
  BY <1>0, SessionsAssumption DEF Held
<1>2. FamiliesApart'
  BY <1>1 DEF FamiliesApart, FamiliesKept, Held
<1>3. IssuedAlone'
  <2>1. \A r \in Request : req[r].pc = "issued" => req[r].token # None
    BY SessionsAssumption DEF TokenInv, RequestsKnow, Knows
  <2>2. QED BY <1>0, <2>1 DEF IssuedAlone, FamiliesKept
<1>4. PresentsCookie'
  <2>1. ASSUME NEW r \in Request, Refreshing(r), req[r].browser \notin disturbed,
               req[r].pc \in {"sent", "found", "reuse"}
        PROVE  \/ cookie[req[r].browser] \in {None, req[r].token}
               \/ token'[cookie[req[r].browser]].family # token'[req[r].token].family
    <3>1. /\ req[r].browser \in Browser /\ req[r].token \in Token
          /\ token[req[r].token].row # "none"
      BY <2>1, SessionsAssumption DEF Refreshing, TokenInv, RequestsKnow, Knows
    <3>2. QED BY <1>0, <2>1, <3>1 DEF PresentsCookie, FamiliesKept
  <2>2. QED BY <2>1 DEF PresentsCookie, Refreshing
<1>5. AnswersGood'
  BY SessionsAssumption DEF AnswersGood, TokenInv, RequestsKnow, Knows
<1>6. CookieGoodOrReplaced'
  BY <1>0 DEF CookieGoodOrReplaced, Refreshing
<1>7. QED BY <1>2, <1>3, <1>4, <1>5, <1>6

(* The end of all sessions, and a page that is reloaded. *)
LEMMA AccountStepsKeepBrowsers ==
  ASSUME TokenInv, BrowserInv,
         \/ BeginEnd \/ DeleteTokens \/ Activate \/ UNCHANGED vars
         \/ \E tab \in Tab : Reload(tab)
  PROVE  BrowserInv'
<1>1. UNCHANGED <<cookie, req>> /\ disturbed \subseteq disturbed'
  BY DEF BeginEnd, DeleteTokens, Activate, Reload, Disturb, vars
<1>2. FamiliesKept /\ \A t \in Token : token[t].row # "none" /\ Good(t) => Good(t)'
  <2>1. CASE UNCHANGED <<token, ended>>
    BY <2>1 DEF FamiliesKept, Good
  <2>2. CASE DeleteTokens
    BY <2>2 DEF DeleteTokens, FamiliesKept, Good, Families, TokenInv, TypeOK, TokenRecord
  <2>3. QED BY <2>1, <2>2 DEF BeginEnd, Activate, Reload, Disturb, account, vars
<1>3. OneRefresh'
  <2>1. CASE UNCHANGED <<refreshing, disturbed>>
    BY <1>1, <2>1 DEF BrowserInv, OneRefresh, Refreshing
  <2>2. ASSUME NEW tab \in Tab, Reload(tab) PROVE OneRefresh'
    <3>1. /\ refreshing' = [refreshing EXCEPT ![tab] = None]
          /\ disturbed' = disturbed \cup {BrowserOf[tab]}
      BY <2>2 DEF Reload, Disturb
    <3>2. \A r \in Request : Refreshing(r) => req[r].tab \in Tab /\ req[r].browser = BrowserOf[req[r].tab]
      BY DEF Refreshing, TokenInv, RequestsKnow, Knows
    <3>3. QED BY <1>1, <3>1, <3>2 DEF BrowserInv, OneRefresh, Refreshing, TokenInv, TypeOK
  <2>3. QED BY <2>1, <2>2 DEF BeginEnd, DeleteTokens, Activate, vars
<1>4. QED BY <1>1, <1>2, <1>3, QuietStep

(* A request moves on at the server: who holds what does not change. *)
LEMMA ServerStep ==
  ASSUME TokenInv, BrowserInv, NEW r \in Request,
         NEW pc \in {"found", "reuse", "granted", "cleared", "failed"}, Goto(r, pc),
         req[r].pc \in {"sent", "found", "reuse"},
         UNCHANGED <<cookie, refreshing, disturbed>>, FamiliesKept,
         AnswersGood', CookieGoodOrReplaced'
  PROVE  BrowserInv'
<1> USE DEF BrowserInv
<1>0. /\ \A b \in Browser : cookie[b] # None =>
           cookie[b] \in Token /\ token[cookie[b]].row # "none"
      /\ \A q \in Request : req[q].token # None =>
           req[q].token \in Token /\ token[req[q].token].row # "none"
  BY HeldTokens
<1>1. \A q \in Request :
        /\ req'[q].op = req[q].op /\ req'[q].tab = req[q].tab
        /\ req'[q].browser = req[q].browser /\ req'[q].token = req[q].token
        /\ req'[q].pc = IF q = r THEN pc ELSE req[q].pc
  BY DEF Goto, TokenInv, TypeOK, RequestRecord
<1>2. \A b \in Browser : Held(b)' = Held(b) /\
        \A t \in Held(b) : t \in Token /\ token[t].row # "none"
  <2>1. ASSUME NEW b \in Browser PROVE Held(b)' = Held(b)
    BY <1>1 DEF Held
  <2>2. QED BY <2>1, <1>0, SessionsAssumption DEF Held
<1>3. FamiliesApart'
  BY <1>2 DEF FamiliesApart, FamiliesKept
<1>4. OneRefresh'
  BY <1>1 DEF OneRefresh, Refreshing
<1>5. IssuedAlone'
  <2>1. \A q \in Request : req[q].pc = "issued" => req[q].token # None
    BY SessionsAssumption DEF TokenInv, RequestsKnow, Knows
  <2>2. QED BY <1>0, <1>1, <2>1 DEF IssuedAlone, FamiliesKept
<1>6. PresentsCookie'
  <2>1. ASSUME NEW q \in Request, Refreshing(q), req[q].browser \notin disturbed,
               req[q].pc \in {"sent", "found", "reuse"}
        PROVE  \/ cookie[req[q].browser] \in {None, req[q].token}
               \/ token'[cookie[req[q].browser]].family # token'[req[q].token].family
    <3>1. /\ req[q].browser \in Browser /\ req[q].token \in Token
          /\ token[req[q].token].row # "none"
      BY <2>1, SessionsAssumption DEF Refreshing, TokenInv, RequestsKnow, Knows
    <3>2. QED BY <1>0, <2>1, <3>1 DEF PresentsCookie, FamiliesKept
  <2>2. QED BY <1>1, <2>1 DEF PresentsCookie, Refreshing
<1>7. QED BY <1>3, <1>4, <1>5, <1>6

(* Checks spoil nothing. *)
LEMMA ChecksKeepBrowsers ==
  ASSUME TokenInv, BrowserInv, NEW r \in Request,
         \/ Find(r) \/ CheckPassword(r)
         \/ RevokePresented(r) /\ token[req[r].token].row = "deleted"
  PROVE  BrowserInv'
<1> USE SessionsAssumption
<1>1. PICK pc \in {"found", "reuse", "granted", "failed"} : Goto(r, pc)
  <2>1. CASE Find(r)
    <3>1. req[r].token \in Token /\ token[req[r].token].row \in {"live", "revoked", "deleted"}
      BY <2>1 DEF Find, TokenInv, RequestsKnow, Knows, TypeOK, TokenRecord
    <3>2. QED BY <2>1, <3>1 DEF Find
  <2>2. CASE ~Find(r)
    BY <2>2 DEF CheckPassword, RevokePresented
  <2>3. QED BY <2>1, <2>2
<1>2. /\ UNCHANGED <<token, cookie, refreshing, ended, disturbed>>
      /\ req[r].pc \in {"sent", "found"} /\ req[r].op # "logout"
  BY DEF Find, CheckPassword, RevokePresented, SameAccount, account, TokenInv, RequestsKnow, Knows
<1>3. \A q \in Request :
        /\ req'[q].op = req[q].op /\ req'[q].browser = req[q].browser
        /\ req'[q].token = req[q].token
        /\ req'[q].pc = IF q = r THEN pc ELSE req[q].pc
  BY <1>1 DEF Goto, TokenInv, TypeOK, RequestRecord
<1>4. FamiliesKept
  BY <1>2 DEF FamiliesKept
<1>5. AnswersGood' /\ CookieGoodOrReplaced'
  BY <1>2, <1>3 DEF BrowserInv, AnswersGood, CookieGoodOrReplaced, Good, Refreshing
<1>6. QED BY <1>1, <1>2, <1>4, <1>5, ServerStep

(* A revocation spoils the cookie of its own browser at most, and then the *)
(* answer that replaces it is on its way.                                  *)
LEMMA RevocationsKeepBrowsers ==
  ASSUME TokenInv, BrowserInv, NEW r \in Request,
         \/ RevokeFamily(r) \/ RevokeOnLogout(r)
         \/ RevokePresented(r) /\ token[req[r].token].row # "deleted"
  PROVE  BrowserInv'
<1> USE SessionsAssumption
<1>1. PICK pc \in {"failed", "cleared", "granted"} : Goto(r, pc) /\
        (RevokePresented(r) => pc = "granted")
  BY DEF RevokeFamily, RevokeOnLogout, RevokePresented
<1>2. UNCHANGED <<cookie, refreshing, ended, disturbed>>
  BY DEF RevokeFamily, RevokeOnLogout, RevokePresented, SameAccount, account
<1>3. /\ req[r].pc \in {"sent", "found", "reuse"} /\ req[r].op \in {"refresh", "logout"}
      /\ req[r].op = "logout" <=> RevokeOnLogout(r)
      /\ req[r].token \in Token /\ token[req[r].token].row # "none"
      /\ req[r].browser \in Browser /\ req[r].token \in Held(req[r].browser)
  <2>1. Knows(req[r])
    BY DEF TokenInv, RequestsKnow
  <2>2. /\ req[r].pc \in {"sent", "found", "reuse"} /\ req[r].op \in {"refresh", "logout"}
        /\ req[r].op = "logout" <=> RevokeOnLogout(r)
    BY <2>1 DEF RevokeFamily, RevokeOnLogout, RevokePresented, Knows
  <2>3. req[r].token # None
    BY <2>1, <2>2 DEF Knows
  <2>4. QED BY <2>2, <2>3, HeldTokens
<1>4. \A q \in Request :
        /\ req'[q].op = req[q].op /\ req'[q].browser = req[q].browser
        /\ req'[q].token = req[q].token
        /\ req'[q].pc = IF q = r THEN pc ELSE req[q].pc
  BY <1>1 DEF Goto, TokenInv, TypeOK, RequestRecord
<1>5. \A t \in Token :
        /\ token'[t].family = token[t].family
        /\ token[t].row # "none" => token'[t].row # "none"
        /\ Good(t) /\ ~Good(t)' =>
             /\ token[t].row = "live" /\ token[t].family = token[req[r].token].family
             /\ ~RevokeFamily(r) => t = req[r].token
  BY <1>2, <1>3 DEF RevokeFamily, RevokeOnLogout, RevokePresented, Live, Good, TokenInv, TypeOK,
                    TokenRecord
<1>6. FamiliesKept
  BY <1>5 DEF FamiliesKept
<1>7. AnswersGood'
  <2>1. ASSUME NEW q \in Request, req[q].pc = "issued", req[q].browser \notin disturbed,
               ~Good(req[q].token)'
        PROVE  FALSE
    <3>1. /\ Good(req[q].token) /\ q # r /\ req[q].token \in Token
          /\ req[q].op \in {"refresh", "login"}
      BY <1>3, <2>1 DEF BrowserInv, AnswersGood, TokenInv, RequestsKnow, Knows
    <3>2. req[q].browser \in Browser /\ req[q].token \in Held(req[q].browser)
      BY <3>1, HeldTokens
    <3>3. token[req[q].token].family = token[req[r].token].family /\
            (~RevokeFamily(r) => req[q].token = req[r].token)
      BY <1>4, <1>5, <2>1, <3>1
    <3>4. req[q].browser = req[r].browser
      BY <1>3, <3>2, <3>3 DEF BrowserInv, FamiliesApart
    <3>5. req[r].token # req[q].token /\ req[q].op # "login"
      BY <1>3, <2>1, <3>1, <3>3 DEF BrowserInv, IssuedAlone
    <3>6. Refreshing(q) /\ Refreshing(r)
      BY <1>3, <3>1, <3>3, <3>5 DEF Refreshing, RevokeFamily, RevokeOnLogout, TokenInv, RequestsKnow, Knows
    <3>7. QED BY <2>1, <3>1, <3>4, <3>6 DEF BrowserInv, OneRefresh
  <2>2. QED BY <1>2, <1>3, <1>4, <2>1 DEF AnswersGood
<1>8. CookieGoodOrReplaced'
  <2>1. ASSUME NEW b \in Browser \ disturbed, cookie[b] # None, ~Good(cookie[b])',
               \A q \in Request : req[q].browser = b =>
                 /\ req[q].op # "logout"
                 /\ Refreshing(q) => req'[q].pc \notin {"granted", "issued"}
        PROVE  FALSE
    <3>1. cookie[b] \in Token /\ cookie[b] \in Held(b)
      BY <2>1, HeldTokens
    <3>2. Good(cookie[b])
      BY <1>3, <1>4, <2>1 DEF BrowserInv, CookieGoodOrReplaced
    <3>3. token[cookie[b]].row = "live" /\ token[cookie[b]].family = token[req[r].token].family
      BY <1>5, <2>1, <3>1, <3>2, <1>2
    <3>4. req[r].browser = b
      BY <1>3, <3>1, <3>3 DEF BrowserInv, FamiliesApart
    <3>5. RevokeFamily(r) /\ Refreshing(r)
      BY <1>1, <1>3, <1>4, <2>1, <3>4 DEF Refreshing
    <3>6. cookie[b] = req[r].token /\ token[req[r].token].row # "live"
      BY <1>3, <2>1, <3>3, <3>4, <3>5
         DEF BrowserInv, PresentsCookie, RevokeFamily, TokenInv, RequestsKnow, Knows
    <3>7. QED BY <3>3, <3>6
  <2>2. QED BY <1>2, <1>4, <2>1 DEF CookieGoodOrReplaced, Refreshing
<1>9. QED BY <1>1, <1>2, <1>3, <1>6, <1>7, <1>8, ServerStep

(* A fresh token: a login's is of a family of its own, a refresh's of the  *)
(* family that its browser holds already.                                  *)
LEMMA IssueKeepsBrowsers ==
  ASSUME TokenInv, BrowserInv, NEW r \in Request, NEW new \in Token, Issue(r, new)
  PROVE  BrowserInv'
<1> USE SessionsAssumption
<1>1. /\ UNCHANGED <<cookie, refreshing, ended, disturbed>> /\ req[r].pc = "granted"
      /\ token[new].row = "none" /\ req[r].op \in {"refresh", "login"}
      /\ req[r].browser \in Browser
      /\ req[r].op = "refresh" => req[r].token \in Held(req[r].browser)
  BY HeldTokens DEF Issue, SameAccount, account, TokenInv, RequestsKnow, Knows
<1>2. /\ \A q \in Request \ {r} : req'[q] = req[q]
      /\ req'[r].op = req[r].op /\ req'[r].tab = req[r].tab
      /\ req'[r].browser = req[r].browser /\ req'[r].token = new /\ req'[r].pc = "issued"
  BY DEF Issue, TokenInv, TypeOK, RequestRecord
<1>3. /\ \A t \in Token \ {new} : token'[t] = token[t]
      /\ token'[new].row = "live"
      /\ req[r].op = "login" => token'[new].family = new
      /\ req[r].op = "refresh" => token'[new].family = token[req[r].token].family
  BY <1>1 DEF Issue, TokenInv, TypeOK
<1>4. /\ \A b \in Browser : cookie[b] # None =>
           cookie[b] \in Token \ {new} /\ cookie[b] \in Held(b)
      /\ \A q \in Request : req[q].token # None => req[q].token \in Token \ {new}
  BY <1>1, HeldTokens
<1>5. \A b \in Browser : \A t \in Held(b) : t \in Token \ {new} /\ token[t].family # new
  <2>1. \A b \in Browser : \A t \in Held(b) : t \in Token \ {new} /\ token[t].row # "none"
    BY <1>1, HeldTokens DEF Held
  <2>2. QED BY <1>1, <2>1 DEF TokenInv, FamiliesRooted
<1>6. FamiliesApart'
  <2>1. ASSUME NEW b \in Browser, NEW t \in Token, t \in Held(b)'
        PROVE  t \in Held(b) \/ (t = new /\ b = req[r].browser)
    BY <1>1, <1>2, <2>1 DEF Held
  <2>2. Held(req[r].browser)' \subseteq Token /\ \A b \in Browser : Held(b)' \subseteq Token
    BY DEF Held
  <2>3. QED BY <1>1, <1>3, <1>5, <2>1, <2>2 DEF BrowserInv, FamiliesApart
<1>7. OneRefresh'
  BY <1>1, <1>2 DEF BrowserInv, OneRefresh, Refreshing
<1>8. IssuedAlone'
  <2>1. \A q \in Request : req[q].token # None => token[req[q].token].family # new
    BY <1>1, HeldTokens DEF TokenInv, FamiliesRooted
  <2>2. \A b \in Browser : cookie[b] # None => token[cookie[b]].family # new
    BY <1>4, <1>5
  <2>3. \A q \in Request : req[q].pc = "issued" => req[q].token # None
    BY DEF TokenInv, RequestsKnow, Knows
  <2>4. ASSUME NEW q \in Request, req'[q].pc = "issued"
        PROVE  \A p \in Request \ {q} :
                 /\ req'[p].token # req'[q].token
                 /\ req'[q].op = "login" /\ req'[p].token # None =>
                      token'[req'[p].token].family # token'[req'[q].token].family
    <3>1. CASE q = r
      BY <1>2, <1>3, <1>4, <2>1, <3>1
    <3>2. CASE q # r
      <4>1. req[q].pc = "issued" /\ req[q].token \in Token \ {new}
        BY <1>2, <1>4, <2>3, <2>4, <3>2
      <4>2. ASSUME NEW p \in Request \ {q, r}
            PROVE  /\ req'[p].token # req'[q].token
                   /\ req'[q].op = "login" /\ req'[p].token # None =>
                        token'[req'[p].token].family # token'[req'[q].token].family
        BY <1>2, <1>3, <1>4, <3>2, <4>1 DEF BrowserInv, IssuedAlone
      <4>3. /\ req'[r].token # req'[q].token
            /\ req'[q].op = "login" =>
                 token'[req'[r].token].family # token'[req'[q].token].family
        <5>1. CASE req[r].op = "login"
          BY <1>2, <1>3, <2>1, <3>2, <4>1, <5>1
        <5>2. CASE req[r].op = "refresh"
          <6>1. req[r].token # None
            BY <1>5, <5>2, <1>1
          <6>2. QED BY <1>2, <1>3, <3>2, <4>1, <5>2, <6>1 DEF BrowserInv, IssuedAlone
        <5>3. QED BY <1>1, <5>1, <5>2
      <4>4. QED BY <4>2, <4>3
    <3>3. QED BY <3>1, <3>2
  <2>5. ASSUME NEW q \in Request, req'[q].pc = "issued", NEW b \in Browser
        PROVE  /\ cookie'[b] # req'[q].token
               /\ req'[q].op = "login" /\ cookie'[b] # None =>
                    token'[cookie'[b]].family # token'[req'[q].token].family
    <3>1. CASE q = r
      BY <1>1, <1>2, <1>3, <1>4, <2>2, <3>1
    <3>2. CASE q # r
      BY <1>1, <1>2, <1>3, <1>4, <2>3, <2>5, <3>2 DEF BrowserInv, IssuedAlone
    <3>3. QED BY <3>1, <3>2
  <2>6. QED BY <2>4, <2>5 DEF IssuedAlone
<1>9. PresentsCookie'
  <2>1. ASSUME NEW q \in Request \ {r}, Refreshing(q), req[q].browser \notin disturbed,
               req[q].pc \in {"sent", "found", "reuse"}
        PROVE  \/ cookie[req[q].browser] \in {None, req[q].token}
               \/ token'[cookie[req[q].browser]].family # token'[req[q].token].family
    <3>1. /\ req[q].browser \in Browser /\ req[q].token \in Token \ {new}
      BY <1>4, <2>1 DEF Refreshing, TokenInv, RequestsKnow, Knows
    <3>2. QED BY <1>3, <1>4, <2>1, <3>1 DEF BrowserInv, PresentsCookie
  <2>2. QED BY <1>1, <1>2, <2>1 DEF PresentsCookie, Refreshing
<1>10. AnswersGood'
  <2>1. \A q \in Request : req[q].pc = "issued" => req[q].token # None
    BY DEF TokenInv, RequestsKnow, Knows
  <2>2. QED BY <1>1, <1>2, <1>3, <1>4, <2>1 DEF BrowserInv, AnswersGood, Good
<1>11. CookieGoodOrReplaced'
  BY <1>1, <1>2, <1>3, <1>4 DEF BrowserInv, CookieGoodOrReplaced, Good, Refreshing
<1>12. QED BY <1>6, <1>7, <1>8, <1>9, <1>10, <1>11 DEF BrowserInv

(* A request presents the cookie of its browser. *)
LEMMA SendsKeepBrowsers ==
  ASSUME TokenInv, BrowserInv, NEW r \in Request, NEW tab \in Tab,
         SendRefresh(r, tab) \/ SendLogin(r, tab) \/ SendLogout(r, tab)
  PROVE  BrowserInv'
<1> USE SessionsAssumption
<1> DEFINE b == BrowserOf[tab]
<1>1. PICK op \in {"refresh", "login", "logout"} :
        /\ Begin(r, op, tab) /\ (op = "refresh" => SendRefresh(r, tab))
        /\ op # "refresh" => UNCHANGED <<refreshing, disturbed>>
  BY DEF SendRefresh, SendLogin, SendLogout, SameAccount
<1>2. /\ UNCHANGED <<token, cookie, ended>> /\ b \in Browser /\ disturbed \subseteq disturbed'
      /\ req[r].op = "none" /\ req[r].token = None
  BY DEF SendRefresh, SendLogin, SendLogout, SameAccount, Disturb, account, Begin, TokenInv,
         RequestsKnow, Knows, Running
<1>3. /\ \A q \in Request \ {r} : req'[q] = req[q]
      /\ req'[r].pc = "sent" /\ req'[r].op = op /\ req'[r].tab = tab /\ req'[r].browser = b
      /\ req'[r].token = cookie[b]
  BY <1>1 DEF Begin, TokenInv, TypeOK
<1>4. op = "refresh" =>
        /\ refreshing[tab] = None /\ refreshing' = [refreshing EXCEPT ![tab] = r]
        /\ \/ b \in disturbed'
           \/ \A q \in Request : req[q].op = "refresh" /\ req[q].browser = b => req[q].tab = tab
  BY <1>1 DEF SendRefresh, RefreshingElsewhere, Disturb
<1> HIDE DEF b
<1>5. FamiliesApart'
  <2>1. \A a \in Browser : Held(a)' \subseteq Held(a)
    BY <1>2, <1>3 DEF Held
  <2>2. QED BY <1>2, <2>1 DEF BrowserInv, FamiliesApart
<1>6. OneRefresh'
  <2>1. \A q \in Request : Refreshing(q) => req[q].tab \in Tab /\ req[q].browser = BrowserOf[req[q].tab]
    BY DEF Refreshing, TokenInv, RequestsKnow, Knows
  <2>2. CASE op = "refresh"
    <3>1. b = BrowserOf[tab] /\ refreshing \in [Tab -> Request \cup {None}]
      BY DEF b, TokenInv, TypeOK
    <3>2. ASSUME b \notin disturbed'
          PROVE  \A q \in Request : Refreshing(q) => req[q].browser # b
      BY <1>2, <1>4, <2>1, <2>2, <3>1, <3>2 DEF BrowserInv, OneRefresh, Refreshing
    <3>3. ASSUME NEW q \in Request, Refreshing(q)', req'[q].browser \notin disturbed'
          PROVE  refreshing'[req'[q].tab] = q
      <4>1. CASE q = r
        BY <1>3, <1>4, <2>2, <3>1, <4>1
      <4>2. CASE q # r
        <5>1. Refreshing(q) /\ req[q].browser \notin disturbed' /\ req'[q] = req[q]
          BY <1>3, <3>3, <4>2 DEF Refreshing
        <5>2. req[q].tab # tab
          BY <2>1, <3>1, <3>2, <5>1
        <5>3. QED BY <1>2, <1>4, <2>1, <2>2, <3>1, <5>1, <5>2 DEF BrowserInv, OneRefresh
      <4>3. QED BY <4>1, <4>2
    <3>4. ASSUME NEW q \in Request, NEW p \in Request, Refreshing(q)', Refreshing(p)',
                 req'[q].browser = req'[p].browser, req'[q].browser \notin disturbed'
          PROVE  q = p
      BY <1>2, <1>3, <3>2, <3>4 DEF BrowserInv, OneRefresh, Refreshing
    <3>5. QED BY <3>3, <3>4 DEF OneRefresh
  <2>3. CASE op # "refresh"
    BY <1>1, <1>3, <2>3 DEF BrowserInv, OneRefresh, Refreshing
  <2>4. QED BY <2>2, <2>3
<1>7. IssuedAlone'
  <2>1. \A q \in Request : req[q].pc = "issued" => req[q].token # None
    BY DEF TokenInv, RequestsKnow, Knows
  <2>2. QED BY <1>2, <1>3, <2>1 DEF BrowserInv, IssuedAlone
<1>8. PresentsCookie'
  BY <1>2, <1>3 DEF BrowserInv, PresentsCookie, Refreshing
<1>9. AnswersGood' /\ CookieGoodOrReplaced'
  BY <1>2, <1>3 DEF BrowserInv, AnswersGood, CookieGoodOrReplaced, Good, Refreshing
<1>10. QED BY <1>5, <1>6, <1>7, <1>8, <1>9 DEF BrowserInv

(* An answer brings a good token, clears the cookie or leaves it; only the *)
(* answers that leave it excuse nothing.                                   *)
LEMMA AnswersKeepBrowsers ==
  ASSUME TokenInv, BrowserInv, NEW r \in Request, Receive(r) \/ Lose(r)
  PROVE  BrowserInv'
<1> USE SessionsAssumption
<1> DEFINE b == req[r].browser
           x == req[r].token
<1>1. /\ UNCHANGED <<token, ended>> /\ disturbed \subseteq disturbed' /\ Release(r)
      /\ req' = [req EXCEPT ![r] = [NoRequest EXCEPT !.pc = "done"]]
  BY DEF Receive, Lose, SameAccount, Disturb, account
<1>2. /\ \A q \in Request \ {r} : req'[q] = req[q]
      /\ req'[r].pc = "done" /\ req'[r].op = "none" /\ req'[r].token = None
      /\ req'[r].browser = None
  BY <1>1 DEF NoRequest, TokenInv, TypeOK
<1>3. Knows(req[r]) /\ req[r].op # "none" /\ b \in Browser
  BY HeldTokens DEF Receive, Lose, TokenInv, RequestsKnow, Knows, Running
<1>4. \/ req[r].pc = "issued" /\ cookie' = [cookie EXCEPT ![b] = x] /\ Receive(r)
      \/ cookie' = [cookie EXCEPT ![b] = None]
      \/ cookie' = cookie /\ (b \in disturbed' \/ req[r].pc = "failed")
  BY DEF Receive, Lose, Disturb
<1>5. req[r].pc = "issued" => x \in Token /\ x # None /\ x \in Held(b)
  BY <1>3, HeldTokens DEF Knows
<1> HIDE DEF b, x
<1>6. cookie \in [Browser -> Token \cup {None}]
  BY DEF TokenInv, TypeOK
<1>7. FamiliesApart'
  <2>1. \A a \in Browser : Held(a)' \subseteq Held(a)
    BY <1>2, <1>4, <1>5, <1>6 DEF Held
  <2>2. QED BY <1>1, <2>1 DEF BrowserInv, FamiliesApart
<1>8. OneRefresh'
  <2>1. \A q \in Request : Refreshing(q) => req[q].tab \in Tab
    BY DEF Refreshing, TokenInv, RequestsKnow, Knows
  <2>2. QED BY <1>1, <1>2, <2>1 DEF BrowserInv, OneRefresh, Refreshing, Release
<1>9. IssuedAlone'
  <2>1. ASSUME NEW q \in Request, req'[q].pc = "issued"
        PROVE  /\ q # r /\ req'[q] = req[q] /\ req[q].pc = "issued" /\ req[q].token # None
    BY <1>2, <2>1 DEF TokenInv, RequestsKnow, Knows
  <2>2. ASSUME NEW q \in Request, req'[q].pc = "issued", NEW a \in Browser
        PROVE  /\ cookie'[a] # req[q].token
               /\ req[q].op = "login" /\ cookie'[a] # None =>
                    token[cookie'[a]].family # token[req[q].token].family
    <3>1. cookie'[a] \in {cookie[a], None} \/ (req[r].pc = "issued" /\ cookie'[a] = x)
      BY <1>4, <1>6
    <3>2. x = req[r].token /\ (req[r].pc = "issued" => x # None)
      BY <1>5 DEF x
    <3>3. QED BY <2>1, <2>2, <3>1, <3>2 DEF BrowserInv, IssuedAlone
  <2>3. QED BY <1>1, <1>2, <2>1, <2>2 DEF BrowserInv, IssuedAlone
<1>10. PresentsCookie'
  <2>1. ASSUME NEW q \in Request \ {r}, Refreshing(q), req[q].browser \notin disturbed',
               req[q].pc \in {"sent", "found", "reuse"}
        PROVE  \/ cookie'[req[q].browser] \in {None, req[q].token}
               \/ token[cookie'[req[q].browser]].family # token[req[q].token].family
    <3>1. req[q].browser \in Browser /\ req[q].token # None
      BY <2>1 DEF Refreshing, TokenInv, RequestsKnow, Knows
    <3>2. CASE cookie'[req[q].browser] \in {cookie[req[q].browser], None}
      BY <1>1, <2>1, <3>1, <3>2 DEF BrowserInv, PresentsCookie
    <3>3. CASE req[r].pc = "issued" /\ req[q].browser = b /\ cookie'[b] = x
      <4>1. ~Refreshing(r)
        BY <1>1, <2>1, <3>3 DEF b, BrowserInv, OneRefresh
      <4>2. req[r].op = "login"
        BY <1>3, <3>3, <4>1 DEF Knows, Refreshing
      <4>3. QED BY <1>5, <3>1, <3>3, <4>2 DEF x, BrowserInv, IssuedAlone
    <3>4. QED BY <1>4, <1>6, <3>1, <3>2, <3>3
  <2>2. QED BY <1>1, <1>2, <2>1 DEF PresentsCookie, Refreshing
<1>11. AnswersGood'
  BY <1>1, <1>2 DEF BrowserInv, AnswersGood, Good
<1>12. CookieGoodOrReplaced'
  <2>1. ASSUME NEW a \in Browser \ disturbed', cookie'[a] # None, ~Good(cookie'[a])
        PROVE  \E q \in Request \ {r} : req[q].browser = a /\
                 (req[q].op = "logout" \/ (Refreshing(q) /\ req[q].pc \in {"granted", "issued"}))
    <3>1. CASE cookie'[a] = cookie[a]
      <4>1. PICK q \in Request : req[q].browser = a /\
              (req[q].op = "logout" \/ (Refreshing(q) /\ req[q].pc \in {"granted", "issued"}))
        BY <1>1, <2>1, <3>1 DEF BrowserInv, CookieGoodOrReplaced
      <4>2. q # r
        <5>1. a = b => req[r].pc = "failed" \/ (req[r].pc = "issued" /\ cookie[a] = x)
          BY <1>4, <1>6, <2>1, <3>1
        <5>2. ~(a = b /\ req[r].pc = "issued")
          BY <1>3, <1>5, <2>1, <3>1, <5>1 DEF b, x, BrowserInv, IssuedAlone
        <5>3. req[r].pc = "failed" => req[r].op # "logout"
          BY <1>3 DEF Knows
        <5>4. QED BY <4>1, <5>1, <5>2, <5>3 DEF b
      <4>3. QED BY <4>1, <4>2
    <3>2. CASE cookie'[a] # cookie[a]
      <4>1. a = b /\ req[r].pc = "issued" /\ cookie'[a] = x
        BY <1>4, <1>6, <2>1, <3>2
      <4>2. Good(x)
        BY <1>1, <2>1, <4>1 DEF b, x, BrowserInv, AnswersGood
      <4>3. QED BY <2>1, <4>1, <4>2
    <3>3. QED BY <3>1, <3>2
  <2>2. QED BY <1>1, <1>2, <2>1 DEF CookieGoodOrReplaced, Good, Refreshing
<1>13. QED BY <1>7, <1>8, <1>9, <1>10, <1>11, <1>12 DEF BrowserInv

(* At first no browser holds anything. *)
LEMMA InitBrowserInv == Init => BrowserInv
<1> SUFFICES ASSUME Init PROVE BrowserInv
  OBVIOUS
<1>1. /\ \A b \in Browser : cookie[b] = None
      /\ \A r \in Request : req[r].op = "none" /\ req[r].token = None /\ req[r].pc = "idle"
  BY DEF Init, NoRequest
<1>2. \A b \in Browser : Held(b) = {}
  BY <1>1, SessionsAssumption DEF Held
<1>3. QED BY <1>1, <1>2 DEF BrowserInv, FamiliesApart, OneRefresh, IssuedAlone, PresentsCookie,
                            AnswersGood, CookieGoodOrReplaced, Refreshing

(* Every step keeps the browsers' half. *)
LEMMA StepBrowserInv == TokenInv /\ BrowserInv /\ [Next]_vars => BrowserInv'
<1> SUFFICES ASSUME TokenInv, BrowserInv, [Next]_vars PROVE BrowserInv'
  OBVIOUS
<1>1. ASSUME NEW r \in Request, Serve(r) PROVE BrowserInv'
  BY <1>1, ChecksKeepBrowsers, RevocationsKeepBrowsers, IssueKeepsBrowsers DEF Serve
<1>2. QED BY <1>1, AccountStepsKeepBrowsers, SendsKeepBrowsers, AnswersKeepBrowsers DEF Next

---------------------------------------------------------------------------
(* The theorems.                                                           *)

(* Both halves hold in every reachable state. *)
THEOREM SessionsInvariant == Spec => [](TokenInv /\ BrowserInv)
BY InitTokenInv, InitBrowserInv, StepTokenInv, StepBrowserInv, PTL DEF Spec

(* Every token, cookie and request has its form; only the tokens of one    *)
(* account are issued, each with a family.                                 *)
THEOREM SessionsTypeCorrect == Spec => []TypeOK
<1>1. TokenInv => TypeOK
  BY DEF TokenInv
<1>2. QED BY <1>1, SessionsInvariant, PTL

(* However refreshes, logouts, reuse of a token and the end of all         *)
(* sessions interleave: a replaced token is spent, and an ended session    *)
(* has a live token only if a rotation was under way when it was ended     *)
(* (auth.service.ts:172-213).                                              *)
THEOREM OldTokensDeadAlways == Spec => []OldTokensDead
<1>1. TokenInv => OldTokensDead
  BY DEF TokenInv, OldTokensDead
<1>2. QED BY <1>1, SessionsInvariant, PTL

(* A cookie is good whenever its browser is at rest, for any number of     *)
(* browsers and pages and any order of refreshes, logins and logouts       *)
(* (apps/web/src/lib/api.ts:10-27).                                        *)
THEOREM CookieStaysGoodAlways == Spec => []CookieStaysGood
<1>1. ASSUME TokenInv, BrowserInv PROVE CookieStaysGood
  <2>1. ASSUME NEW b \in Browser \ disturbed, cookie[b] # None,
               \A r \in Request : req[r].browser = b => req[r].pc \in {"idle", "done"}
        PROVE  Good(cookie[b])
    <3>1. \A r \in Request : req[r].browser = b => req[r].op = "none"
      BY <1>1, <2>1 DEF TokenInv, RequestsKnow, Knows, Running
    <3>2. QED BY <1>1, <2>1, <3>1 DEF BrowserInv, CookieGoodOrReplaced, Refreshing
  <2>2. QED BY <2>1 DEF CookieStaysGood, Good
<1>2. QED BY <1>1, SessionsInvariant, PTL

(* No step gives a token to a family that has neither a live token nor a   *)
(* rotation under way: a session that is over stays over.                  *)
THEOREM DeadFamiliesStayDeadAlways == Spec => DeadFamiliesStayDead
<1>1. TokenInv /\ [Next]_vars =>
        \A f \in Token : f \in Families /\ Live(f) = {} /\ Extending(f) = {} =>
          Live(f)' = {} /\ Extending(f)' = {}
  BY DeadFamilyStep
<1>2. QED BY <1>1, SessionsInvariant, PTL DEF Spec, DeadFamiliesStayDead
=============================================================================
