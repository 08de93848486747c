------------------------------ MODULE Sessions ------------------------------
(***************************************************************************)
(* The sessions of one account: rotating refresh tokens, the cookie that   *)
(* carries them, and the requests that read and write both.                *)
(*                                                                         *)
(* A browser keeps one cookie for all its tabs.  A tab lets at most one    *)
(* refresh run at a time, but tabs do not know of each other, a page may   *)
(* be reloaded while its refresh is being served, and answers get lost.    *)
(* On the server a refresh finds the presented token, revokes it and       *)
(* issues the next one in three separate statements, so requests overlap   *)
(* anywhere.  Signing in, signing out and the two operations that end all  *)
(* sessions (a password reset, a deactivation) run in between.             *)
(*                                                                         *)
(* Access tokens are not modelled: they expire on their own and are never  *)
(* stored.  Refresh tokens do not reach their age of 30 days.              *)
(***************************************************************************)
EXTENDS Naturals, FiniteSets

CONSTANTS Browser,    \* cookie jars
          Tab,        \* open pages
          BrowserOf,  \* the browser a tab runs in
          Token,      \* refresh tokens that may be issued
          Request,    \* HTTP calls of /auth/login, /auth/refresh and /auth/logout
          MaxEnds,    \* bound: how often all sessions are ended
          Lossy,      \* may requests be lost and pages be reloaded?
          None

ASSUME SessionsAssumption ==
  /\ BrowserOf \in [Tab -> Browser]
  /\ MaxEnds \in Nat
  /\ Lossy \in BOOLEAN
  /\ None \notin Token \cup Request

VARIABLES token,      \* the RefreshToken row of a token
          cookie,     \* the refresh_token cookie of a browser
          refreshing, \* the refresh a tab is waiting for (refreshPromise)
          req,        \* the requests
          password,   \* how often the password changed
          active,     \* User.deletedAt is null
          ending,     \* the step of the operation that ends all sessions
          ends,       \* how many of them began
          ended,      \* history: the families that existed at such an operation
          stragglers, \* history: families some request was about to extend then
          disturbed   \* history: browsers where a request was lost, a page was
                      \* reloaded, or two pages refreshed at the same time

vars == <<token, cookie, refreshing, req, password, active, ending, ends, ended, stragglers,
          disturbed>>

(* A family is named by its first token; from is the token it replaces. *)
TokenRecord == [row : {"none", "live", "revoked", "deleted"},
                family : Token \cup {None},
                from : Token \cup {None}]

Running == {"sent", "found", "reuse", "granted", "issued", "cleared", "failed"}

RequestRecord == [pc : {"idle", "done"} \cup Running,
                  op : {"none", "login", "refresh", "logout"},
                  tab : Tab \cup {None},
                  browser : Browser \cup {None},
                  token : Token \cup {None},    \* presented, and later issued
                  password : Nat]

NoToken == [row |-> "none", family |-> None, from |-> None]

NoRequest == [pc |-> "idle", op |-> "none", tab |-> None, browser |-> None,
              token |-> None, password |-> 0]

TypeOK ==
  /\ token \in [Token -> TokenRecord]
  /\ \A t \in Token : token[t].row = "none" <=> token[t].family = None
  /\ cookie \in [Browser -> Token \cup {None}]
  /\ refreshing \in [Tab -> Request \cup {None}]
  /\ req \in [Request -> RequestRecord]
  /\ password \in 0 .. MaxEnds
  /\ active \in BOOLEAN
  /\ ending \in {"no", "delete"}
  /\ ends \in 0 .. MaxEnds
  /\ ended \subseteq Token
  /\ stragglers \subseteq Token
  /\ disturbed \subseteq Browser

Init ==
  /\ token = [t \in Token |-> NoToken]
  /\ cookie = [b \in Browser |-> None]
  /\ refreshing = [t \in Tab |-> None]
  /\ req = [r \in Request |-> NoRequest]
  /\ password = 0 /\ active = TRUE
  /\ ending = "no" /\ ends = 0
  /\ ended = {} /\ stragglers = {} /\ disturbed = {}

---------------------------------------------------------------------------
Live(f) == {t \in Token : token[t].row = "live" /\ token[t].family = f}

(* The requests that passed their check and will issue a token of f. *)
Extending(f) ==
  {r \in Request : /\ req[r].op = "refresh" /\ req[r].pc \in {"found", "granted"}
                   /\ token[req[r].token].family = f}

account == <<password, active, ending, ends, ended, stragglers>>

SameAccount == UNCHANGED account /\ UNCHANGED disturbed

Disturb(b) == disturbed' = disturbed \cup {b} /\ UNCHANGED account

(* Another page of the browser is being served a refresh. *)
RefreshingElsewhere(tab) ==
  \E r \in Request : req[r].op = "refresh" /\ req[r].browser = BrowserOf[tab] /\ req[r].tab # tab

---------------------------------------------------------------------------
(* The browser.                                                            *)

Begin(r, op, tab) ==
  /\ req[r].pc = "idle"
  /\ req' = [req EXCEPT ![r] =
       [pc |-> "sent", op |-> op, tab |-> tab, browser |-> BrowserOf[tab],
        token |-> cookie[BrowserOf[tab]], password |-> password]]

(* Defect: every failing call starts a refresh of its own. *)
SendRefreshAnyway(r, tab) ==
  /\ cookie[BrowserOf[tab]] # None
  /\ Begin(r, "refresh", tab)
  /\ refreshing' = [refreshing EXCEPT ![tab] = r]
  /\ IF RefreshingElsewhere(tab) THEN Disturb(BrowserOf[tab]) ELSE SameAccount
  /\ UNCHANGED <<token, cookie>>

(* tryRefresh: one at a time in a page, with the cookie of the moment. *)
SendRefresh(r, tab) ==
  /\ refreshing[tab] = None
  /\ cookie[BrowserOf[tab]] # None
  /\ Begin(r, "refresh", tab)
  /\ refreshing' = [refreshing EXCEPT ![tab] = r]
  /\ IF RefreshingElsewhere(tab) THEN Disturb(BrowserOf[tab]) ELSE SameAccount
  /\ UNCHANGED <<token, cookie>>

(* The user signs in, with the password of the moment, or signs out. *)
SendLogin(r, tab) ==
  /\ Begin(r, "login", tab)
  /\ UNCHANGED <<token, cookie, refreshing>> /\ SameAccount

SendLogout(r, tab) ==
  /\ cookie[BrowserOf[tab]] # None
  /\ Begin(r, "logout", tab)
  /\ UNCHANGED <<token, cookie, refreshing>> /\ SameAccount

(* The page that waits for r learns that it is over. *)
Release(r) == refreshing' = [t \in Tab |-> IF refreshing[t] = r THEN None ELSE refreshing[t]]

(* Defect: only a refresh that succeeds is forgotten. *)
ReceiveKeeping(r) ==
  /\ req[r].pc \in {"issued", "cleared", "failed"}
  /\ cookie' = IF req[r].pc = "issued" THEN [cookie EXCEPT ![req[r].browser] = req[r].token]
                ELSE IF req[r].pc = "cleared" THEN [cookie EXCEPT ![req[r].browser] = None]
                ELSE cookie
  /\ req' = [req EXCEPT ![r] = [NoRequest EXCEPT !.pc = "done"]]
  /\ IF req[r].pc = "issued" THEN Release(r) ELSE UNCHANGED refreshing
  /\ UNCHANGED token /\ SameAccount

(* The answer arrives; its Set-Cookie takes effect whoever asked for it. *)
Receive(r) ==
  /\ req[r].pc \in {"issued", "cleared", "failed"}
  /\ cookie' = CASE req[r].pc = "issued"  -> [cookie EXCEPT ![req[r].browser] = req[r].token]
                 [] req[r].pc = "cleared" -> [cookie EXCEPT ![req[r].browser] = None]
                 [] req[r].pc = "failed"  -> cookie
  /\ req' = [req EXCEPT ![r] = [NoRequest EXCEPT !.pc = "done"]]
  /\ Release(r)
  /\ UNCHANGED token /\ SameAccount

(* The request, its handler or its answer is lost. *)
Lose(r) ==
  /\ Lossy
  /\ req[r].pc \in Running
  /\ req' = [req EXCEPT ![r] = [NoRequest EXCEPT !.pc = "done"]]
  /\ Release(r)
  /\ Disturb(req[r].browser)
  /\ UNCHANGED <<token, cookie>>

(* The page forgets its refresh; the server goes on serving it. *)
Reload(tab) ==
  /\ Lossy
  /\ refreshing[tab] # None
  /\ refreshing' = [refreshing EXCEPT ![tab] = None]
  /\ Disturb(BrowserOf[tab])
  /\ UNCHANGED <<token, cookie, req>>

---------------------------------------------------------------------------
(* The server.                                                             *)

Goto(r, pc) == req' = [req EXCEPT ![r].pc = pc]

(* Defect: a revoked token is good for one more refresh. *)
FindAny(r) ==
  /\ req[r].pc = "sent" /\ req[r].op = "refresh"
  /\ Goto(r, IF token[req[r].token].row = "deleted" THEN "failed" ELSE "found")
  /\ UNCHANGED <<token, cookie, refreshing>> /\ SameAccount

(* rotateRefreshToken looks the presented token up. *)
Find(r) ==
  /\ req[r].pc = "sent" /\ req[r].op = "refresh"
  /\ Goto(r, CASE token[req[r].token].row = "deleted" -> "failed"
               [] token[req[r].token].row = "revoked" -> "reuse"
               [] token[req[r].token].row = "live"    -> "found")
  /\ UNCHANGED <<token, cookie, refreshing>> /\ SameAccount

(* A revoked token was presented: its family is revoked. *)
RevokeFamily(r) ==
  /\ req[r].pc = "reuse"
  /\ token' = [t \in Token |-> IF t \in Live(token[req[r].token].family)
                               THEN [token[t] EXCEPT !.row = "revoked"] ELSE token[t]]
  /\ Goto(r, "failed")
  /\ UNCHANGED <<cookie, refreshing>> /\ SameAccount

(* The presented token is revoked, once more if need be; the update fails  *)
(* if its row has been deleted.                                            *)
RevokePresented(r) ==
  /\ req[r].pc = "found"
  /\ IF token[req[r].token].row = "deleted"
     THEN Goto(r, "failed") /\ UNCHANGED token
     ELSE Goto(r, "granted") /\ token' = [token EXCEPT ![req[r].token].row = "revoked"]
  /\ UNCHANGED <<cookie, refreshing>> /\ SameAccount

(* validateCredentials *)
CheckPassword(r) ==
  /\ req[r].pc = "sent" /\ req[r].op = "login"
  /\ Goto(r, IF active /\ req[r].password = password THEN "granted" ELSE "failed")
  /\ UNCHANGED <<token, cookie, refreshing>> /\ SameAccount

(* issueTokens: a fresh token, of the family of the presented one or, for  *)
(* a login, of a new family.                                               *)
Issue(r, new) ==
  /\ req[r].pc = "granted"
  /\ token[new].row = "none"
  /\ token' = [token EXCEPT ![new] =
       IF req[r].op = "login"
       THEN [row |-> "live", family |-> new, from |-> None]
       ELSE [row |-> "live", family |-> token[req[r].token].family, from |-> req[r].token]]
  /\ req' = [req EXCEPT ![r].pc = "issued", ![r].token = new]
  /\ UNCHANGED <<cookie, refreshing>> /\ SameAccount

(* revokeRefreshToken *)
RevokeOnLogout(r) ==
  /\ req[r].pc = "sent" /\ req[r].op = "logout"
  /\ token' = [token EXCEPT ![req[r].token].row = IF @ = "live" THEN "revoked" ELSE @]
  /\ Goto(r, "cleared")
  /\ UNCHANGED <<cookie, refreshing>> /\ SameAccount

(* A password reset or a deactivation writes the user row first. *)
BeginEnd ==
  /\ ending = "no" /\ ends < MaxEnds
  /\ ending' = "delete" /\ ends' = ends + 1
  /\ \/ password' = password + 1 /\ UNCHANGED active
     \/ active' = FALSE /\ UNCHANGED password
  /\ UNCHANGED <<token, cookie, refreshing, req, ended, stragglers, disturbed>>

Families == {token[t].family : t \in {u \in Token : token[u].row # "none"}}

(* Defect: only the sessions that are over are deleted. *)
DeleteRevokedTokens ==
  /\ ending = "delete" /\ ending' = "no"
  /\ token' = [t \in Token |-> IF token[t].row = "revoked"
                               THEN [token[t] EXCEPT !.row = "deleted"] ELSE token[t]]
  /\ ended' = ended \cup Families
  /\ stragglers' = stragglers \cup {f \in Families : Extending(f) # {}}
  /\ UNCHANGED <<cookie, refreshing, req, password, active, ends, disturbed>>

(* ... and then deletes every token of the user. *)
DeleteTokens ==
  /\ ending = "delete" /\ ending' = "no"
  /\ token' = [t \in Token |-> IF token[t].row \in {"live", "revoked"}
                               THEN [token[t] EXCEPT !.row = "deleted"] ELSE token[t]]
  /\ ended' = ended \cup Families
  /\ stragglers' = stragglers \cup {f \in Families : Extending(f) # {}}
  /\ UNCHANGED <<cookie, refreshing, req, password, active, ends, disturbed>>

(* An administrator activates the account again. *)
Activate ==
  /\ ~active
  /\ active' = TRUE
  /\ UNCHANGED <<token, cookie, refreshing, req, password, ending, ends, ended, stragglers,
                 disturbed>>

---------------------------------------------------------------------------
Serve(r) ==
  \/ Find(r) \/ RevokeFamily(r) \/ RevokePresented(r)
  \/ CheckPassword(r) \/ RevokeOnLogout(r)
  \/ \E new \in Token : Issue(r, new)

Next ==
  \/ \E r \in Request, tab \in Tab :
       SendRefresh(r, tab) \/ SendLogin(r, tab) \/ SendLogout(r, tab)
  \/ \E r \in Request : Serve(r) \/ Receive(r) \/ Lose(r)
  \/ \E tab \in Tab : Reload(tab)
  \/ BeginEnd \/ DeleteTokens \/ Activate

Spec == Init /\ [][Next]_vars

(* The server serves what it received, and the network delivers or fails.  *)
FairSpec == Spec /\ \A r \in Request : WF_vars(Serve(r) \/ Receive(r))

---------------------------------------------------------------------------
(* Properties.                                                             *)

(* A rotation never leaves the token it replaced usable, however requests  *)
(* presenting the same token, logouts and family revocations interleave    *)
(* (auth.service.ts:185-186).                                              *)
PredecessorSpent ==
  \A t \in Token : token[t].from # None => token[token[t].from].row \in {"revoked", "deleted"}

(* While no request of a browser is under way, its cookie is good for the  *)
(* next refresh, unless all sessions were ended: the one refresh that the  *)
(* failing calls of a page share (apps/web/src/lib/api.ts:10-27) is        *)
(* enough, in any order of refreshes, logins and logouts, as long as       *)
(* nothing is lost and no two pages refresh at the same time.              *)
CookieStaysGood ==
  \A b \in Browser \ disturbed :
    /\ cookie[b] # None
    /\ \A r \in Request : req[r].browser = b => req[r].pc \in {"idle", "done"}
    => token[cookie[b]].row = "live" \/ token[cookie[b]].family \in ended

(* What survives the end of all sessions was being rotated when they were  *)
(* deleted: no other request can extend a session that is gone.            *)
EndedSessionsStayEnded ==
  \A t \in Token : token[t].row = "live" /\ token[t].family \in ended =>
     token[t].family \in stragglers

(* No token that was replaced or deleted is of use again, and no session   *)
(* slips past the end of all sessions but those being rotated.             *)
OldTokensDead == PredecessorSpent /\ EndedSessionsStayEnded

(* A session that is over stays over: after a logout, a revocation of the  *)
(* family or the end of all sessions, nobody gets a token of a family that *)
(* has no live token and no rotation under way.                            *)
DeadFamiliesStayDead ==
  [][\A f \in Token : f \in Families /\ Live(f) = {} /\ Extending(f) = {}
       => Live(f)' = {} /\ Extending(f)' = {}]_vars

(* Every refresh ends for the page that waits for it: a page never waits   *)
(* on a refreshPromise that nothing will settle.                           *)
RefreshesSettle == \A t \in Tab : refreshing[t] # None ~> refreshing[t] = None

(* "Each refresh revokes the presented token and issues a new one in the   *)
(* same family" (auth.service.ts:185-186): a family has one live token.    *)
OneLiveTokenPerFamily == \A f \in Token : Cardinality(Live(f)) <= 1

=============================================================================
