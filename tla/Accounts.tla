------------------------------ MODULE Accounts ------------------------------
(***************************************************************************)
(* Who has an account and with which role: AuthService's registration and   *)
(* password reset, WorkspaceInvitesService, and the role and activity       *)
(* switches of AdminService.  An account is named by its email, which is    *)
(* unique; an account that was deactivated keeps its row and its role, and  *)
(* is revived by registering again, by an invitation, or by an admin.       *)
(*                                                                         *)
(* Everything is checked first and written later: argon2 alone takes tens   *)
(* of milliseconds between the two.  Tokens are in Sessions.                *)
(***************************************************************************)
EXTENDS Requests

CONSTANTS Invite,   \* ids of workspace_invites rows
          ResetLink \* password links that can be issued

VARIABLES account,   \* the User and WorkspaceMember rows
          invite,    \* the WorkspaceInvite rows
          resetLink, \* the password link an account holds
          used,      \* history: how often each link took effect
          heldTwice, \* history: links two requests had found valid at once
          firsts,    \* history: two registrations met an empty workspace
          readmitted \* history: owners who came back through an invitation

accountsVars == <<account, invite, resetLink, used, heldTwice, firsts, readmitted>>
histories    == <<used, heldTwice, firsts, readmitted>>

Role == {"owner", "admin", "member"}

ASSUME AccountsAssumption == Invite \cap ResetLink = {} /\ None \notin Role \cup Invite \cup ResetLink

AccountRecord == [state : {"none", "active", "deactivated"}, role : Role \cup {None}]
InviteRecord  == [state : {"unused", "pending", "accepted", "revoked"}, email : User \cup {None},
                  role : {"admin", "member", None}, expired : BOOLEAN]

AccountsTypeOK ==
  /\ account \in [User -> AccountRecord] /\ invite \in [Invite -> InviteRecord]
  /\ resetLink \in [User -> ResetLink \cup {None}]
  /\ used \in [Invite \cup ResetLink -> 0 .. MaxRequests]
  /\ heldTwice \subseteq Invite \cup ResetLink
  /\ firsts \in BOOLEAN /\ readmitted \subseteq User
  /\ \A u \in User : account[u].state = "none" <=> account[u].role = None

(* An empty workspace, or one with an owner whose colleagues are admins.   *)
AccountsInit ==
  /\ \/ account = [u \in User |-> [state |-> "none", role |-> None]]
     \/ \E owner \in User : account =
          [u \in User |-> [state |-> "active", role |-> IF u = owner THEN "owner" ELSE "admin"]]
  /\ invite = [i \in Invite |-> [state |-> "unused", email |-> None, role |-> None,
                                 expired |-> FALSE]]
  /\ resetLink = [u \in User |-> None]
  /\ used = [l \in Invite \cup ResetLink |-> 0]
  /\ heldTwice = {} /\ firsts = FALSE /\ readmitted = {}

Rows    == {u \in User : account[u].state # "none"}
Owners  == {u \in User : account[u].role = "owner"}

(* requireAdmin asks for the role alone; an access token outlives the      *)
(* account's deactivation by some minutes.                                 *)
IsAdmin(u) == account[u].role \in {"owner", "admin"}

Holders(l) == {h \in Handler : proc[h].pc \in {"accept", "reset"} /\ proc[h].ref = l}
Hold(l)    == heldTwice' = IF Holders(l) # {} THEN heldTwice \cup {l} ELSE heldTwice
Use(l)     == used' = [used EXCEPT ![l] = @ + 1]

---------------------------------------------------------------------------
(* Registration: the row found, the password hashed, then a transaction    *)
(* that counts the members it can see and inserts.                         *)
BeginRegister(h, e) ==
  /\ account[e].state # "active" /\ Begin(h, "registerTx", e, None, account[e].state)
  /\ UNCHANGED accountsVars

CountMembers(h) ==
  /\ At(h, "registerTx") /\ Goto(h, IF Rows = {} THEN "registerOwner" ELSE "registerMember")
  /\ UNCHANGED accountsVars

(* A revived account keeps its role; a new one whose email was taken       *)
(* meanwhile fails on the unique key.                                      *)
Register(h) ==
  LET e == proc[h].user  first == At(h, "registerOwner") IN
  /\ first \/ At(h, "registerMember")
  /\ IF e \in Rows
     THEN /\ account' = IF proc[h].seen = "none" THEN account
                        ELSE [account EXCEPT ![e].state = "active"]
          /\ UNCHANGED firsts
     ELSE /\ account' = [account EXCEPT ![e] =
                           [state |-> "active", role |-> IF first THEN "owner" ELSE "member"]]
          /\ firsts' = (firsts \/ (first /\ Rows # {}))
  /\ Finish(h) /\ UNCHANGED <<invite, resetLink, used, heldTwice, readmitted>>

---------------------------------------------------------------------------
Valid(i) == invite[i].state = "pending" /\ ~invite[i].expired

(* Inviting skips emails with an active account and reuses a valid invite. *)
BeginInvite(h, u, e, role) ==
  /\ IsAdmin(u) /\ account[e].state # "active"
  /\ Begin(h, "invite", u, e, role) /\ UNCHANGED accountsVars

FindInvite(h) ==
  /\ At(h, "invite")
  /\ IF \E i \in Invite : Valid(i) /\ invite[i].email = proc[h].ref
     THEN Finish(h) ELSE Goto(h, "mint")
  /\ UNCHANGED accountsVars

MintInvite(h) ==
  /\ At(h, "mint")
  /\ \E i \in Invite :
       /\ invite[i].state = "unused"
       /\ invite' = [invite EXCEPT ![i] = [state |-> "pending", email |-> proc[h].ref,
                                           role |-> proc[h].seen, expired |-> FALSE]]
  /\ Finish(h) /\ UNCHANGED <<account, resetLink, histories>>

(* Revoking marks any invite, an accepted one too. *)
BeginRevoke(h, u, i) ==
  /\ IsAdmin(u) /\ invite[i].state # "unused" /\ Begin(h, "revoke", u, i, None)
  /\ UNCHANGED accountsVars

RevokeInvite(h) ==
  /\ At(h, "revoke") /\ invite' = [invite EXCEPT ![proc[h].ref].state = "revoked"]
  /\ Finish(h) /\ UNCHANGED <<account, resetLink, histories>>

Expire(i) ==
  /\ Valid(i) /\ invite' = [invite EXCEPT ![i].expired = TRUE]
  /\ UNCHANGED <<account, resetLink, histories, requestVars>>

BeginAccept(h, i) ==
  LET e == invite[i].email IN
  /\ Valid(i) /\ account[e].state # "active"
  /\ Begin(h, "accept", e, i, account[e].state)
  /\ Hold(i) /\ UNCHANGED <<account, invite, resetLink, used, firsts, readmitted>>

(* Defect: the invite stays open. *)
AcceptLeavingOpen(h) ==
  LET e == proc[h].user  i == proc[h].ref IN
  /\ At(h, "accept") /\ ~(proc[h].seen = "none" /\ e \in Rows)
  /\ account' = [account EXCEPT ![e] = [state |-> "active", role |-> invite[i].role]]
  /\ readmitted' = IF e \in Owners THEN readmitted \cup {e} ELSE readmitted
  /\ Use(i) /\ Finish(h) /\ UNCHANGED <<invite, resetLink, heldTwice, firsts>>

(* The transaction looks at nothing again: the role of the invite wins     *)
(* over the one the account had.                                           *)
Accept(h) ==
  LET e == proc[h].user  i == proc[h].ref IN
  /\ At(h, "accept") /\ ~(proc[h].seen = "none" /\ e \in Rows)
  /\ account' = [account EXCEPT ![e] = [state |-> "active", role |-> invite[i].role]]
  /\ readmitted' = IF e \in Owners THEN readmitted \cup {e} ELSE readmitted
  /\ invite' = [invite EXCEPT ![i].state = IF @ = "revoked" THEN @ ELSE "accepted"]
  /\ Use(i) /\ Finish(h) /\ UNCHANGED <<resetLink, heldTwice, firsts>>

AcceptLost(h) ==
  /\ At(h, "accept") /\ proc[h].seen = "none" /\ proc[h].user \in Rows
  /\ Finish(h) /\ UNCHANGED accountsVars

---------------------------------------------------------------------------
(* Defect: the owner is like any other target. *)
BeginSetAnyRole(h, u, t, role) ==
  /\ IsAdmin(u) /\ t \in Rows /\ Begin(h, "setRole", u, t, role) /\ UNCHANGED accountsVars

BeginSetRole(h, u, t, role) ==
  /\ IsAdmin(u) /\ t \in Rows \ Owners /\ Begin(h, "setRole", u, t, role)
  /\ UNCHANGED accountsVars

SetRole(h) ==
  /\ At(h, "setRole") /\ account' = [account EXCEPT ![proc[h].ref].role = proc[h].seen]
  /\ Finish(h) /\ UNCHANGED <<invite, resetLink, histories>>

BeginSetActive(h, u, t, state) ==
  /\ IsAdmin(u) /\ t \in Rows \ {u} /\ Begin(h, "setActive", u, t, state)
  /\ UNCHANGED accountsVars

SetActive(h) ==
  /\ At(h, "setActive") /\ account' = [account EXCEPT ![proc[h].ref].state = proc[h].seen]
  /\ Finish(h) /\ UNCHANGED <<invite, resetLink, histories>>

---------------------------------------------------------------------------
(* A new password link replaces the one before. *)
ForgotPassword(e) ==
  /\ account[e].state = "active" /\ Answer
  /\ \E l \in ResetLink :
       /\ used[l] = 0 /\ Holders(l) = {} /\ \A u \in User : resetLink[u] # l
       /\ resetLink' = [resetLink EXCEPT ![e] = l]
  /\ UNCHANGED <<account, invite, histories>>

BeginReset(h, e) ==
  /\ resetLink[e] # None /\ Begin(h, "reset", e, resetLink[e], None)
  /\ Hold(resetLink[e]) /\ UNCHANGED <<account, invite, resetLink, used, firsts, readmitted>>

(* Whatever link the account holds by now is cleared. *)
ResetPassword(h) ==
  /\ At(h, "reset") /\ Use(proc[h].ref)
  /\ resetLink' = [resetLink EXCEPT ![proc[h].user] = None]
  /\ Finish(h) /\ UNCHANGED <<account, invite, heldTwice, firsts, readmitted>>

---------------------------------------------------------------------------
(* What the pages send. *)
RegisterPage(h) == \E e \in User : BeginRegister(h, e)
SignupPage(h) == \E i \in Invite : BeginAccept(h, i)
ForgotPasswordPage == \E e \in User : ForgotPassword(e)
ResetPasswordPage(h) == \E e \in User : BeginReset(h, e)

InvitePeopleModal(h) ==
  \E u \in User :
    \/ \E e \in User, role \in {"admin", "member"} : BeginInvite(h, u, e, role)
    \/ \E i \in Invite : BeginRevoke(h, u, i)

AdminModal(h) ==
  \E u \in User, t \in User :
    \/ \E role \in {"admin", "member"} : BeginSetRole(h, u, t, role)
    \/ \E s \in {"active", "deactivated"} : BeginSetActive(h, u, t, s)

AccountsNext ==
  \/ \E h \in Handler :
       \/ RegisterPage(h) \/ SignupPage(h) \/ ResetPasswordPage(h)
       \/ InvitePeopleModal(h) \/ AdminModal(h)
       \/ CountMembers(h) \/ Register(h) \/ FindInvite(h) \/ MintInvite(h) \/ RevokeInvite(h)
       \/ Accept(h) \/ AcceptLost(h) \/ SetRole(h) \/ SetActive(h) \/ ResetPassword(h)
       \/ Die(h) /\ UNCHANGED accountsVars
  \/ ForgotPasswordPage
  \/ \E i \in Invite : Expire(i)

AccountsSpec == RequestsInit /\ AccountsInit /\ [][AccountsNext]_<<requestVars, accountsVars>>

(* A workspace with people in it has exactly one owner: "the very first    *)
(* person to join an empty workspace becomes its owner"                    *)
(* (auth.service.ts:131-132) and nothing demotes him                       *)
(* (admin.service.ts:69), except two registrations that both met the empty *)
(* workspace, and an owner who was deactivated and returned through an     *)
(* invitation, whose role he takes.                                        *)
OneOwner ==
  Rows # {} /\ ~firsts => Cardinality(Owners) = IF readmitted = {} THEN 1 ELSE 0

(* An invitation and a password link take effect at most once, across      *)
(* revocation, deactivation and revival of the account, unless two         *)
(* requests had found it valid before either wrote                         *)
(* (workspace-invites.service.ts:157, auth.service.ts:57-64).              *)
LinksUsedOnce == \A l \in DOMAIN used \ heldTwice : used[l] <= 1
=============================================================================
