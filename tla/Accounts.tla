------------------------------ MODULE Accounts ------------------------------
(***************************************************************************)
(* Users, refresh sessions and password resets of the identity service     *)
(* (services/identity/identity/{main,service,repository,dependencies}.py). *)
(*                                                                         *)
(* The service has a single worker.  A route handler is `async def` and    *)
(* never awaits, so its body is one step; the dependencies that authorize  *)
(* the request are plain functions and run in the thread pool before it.   *)
(* An administrator's request therefore takes two steps, and others may    *)
(* come in between: Admit evaluates admin_user, the handler's own action   *)
(* consumes the admission.  Logout and change_password need no more than   *)
(* current_user, which their handlers do not rely on: one step each.       *)
(*                                                                         *)
(* A password is the number of times it was replaced.  Credentials, tokens *)
(* and links that match nothing change nothing and are not steps.          *)
(***************************************************************************)
EXTENDS Naturals, FiniteSets

CONSTANTS
  Users, Sessions, Resets,
  Root,         \* the admin `identity.cli create-admin` made first
  NoOne,        \* no session cookie is presented
  Inactive,     \* the statuses other than active, which no code tells apart
  MaxPasswords  \* bound: how often a password is replaced

ASSUME AccountsAssumption ==
  /\ Root \in Users /\ NoOne \notin Sessions /\ MaxPasswords \in Nat
  /\ "disabled" \in Inactive /\ Inactive \subseteq {"suspended", "disabled"}

VARIABLES
  user,      \* table users
  session,   \* table refresh_sessions; pw is a ghost: the password it was opened under
  reset,     \* table password_resets
  admitted   \* admins with a request past admin_user, not yet handled

vars == <<user, session, reset, admitted>>

Statuses == {"active"} \cup Inactive
Absent   == [role |-> "user", status |-> "absent", mustChange |-> FALSE, pw |-> 0]
NewAdmin == [role |-> "admin", status |-> "active", mustChange |-> FALSE, pw |-> 0]
TempUser == [role |-> "user", status |-> "active", mustChange |-> TRUE, pw |-> 0]
NoSess   == [state |-> "unused", user |-> Root, family |-> NoOne, pw |-> 0]
NoReset  == [state |-> "unused", user |-> Root]

Active(u) == user[u].status = "active"
Known     == {s \in Sessions : session[s].state \in {"live", "revoked"}}
Live      == {s \in Sessions : session[s].state = "live"}
Open      == {r \in Resets : reset[r].state = "open"}

(* Rows get fresh identifiers (uuid4); which ones makes no difference. *)
UnusedSessions == {s \in Sessions : session[s].state = "unused"}
UnusedResets   == {r \in Resets : reset[r].state = "unused"}
FreshSession   == CHOOSE s \in UnusedSessions : TRUE
FreshReset     == CHOOSE r \in UnusedResets : TRUE

Init ==
  /\ user = [u \in Users |-> IF u = Root THEN NewAdmin ELSE Absent]
  /\ session = [s \in Sessions |-> NoSess]
  /\ reset = [r \in Resets |-> NoReset]
  /\ admitted = {}

-----------------------------------------------------------------------------
(* The repositories' bulk updates, as functions of the tables.             *)

Revoked(gone) ==
  [s \in Sessions |-> IF s \in gone /\ session[s].state = "live"
                      THEN [session[s] EXCEPT !.state = "revoked", !.pw = 0] ELSE session[s]]

OfUser(u)   == {s \in Sessions : session[s].user = u}
OfFamily(f) == {s \in Sessions : session[s].family = f}

Used(gone) ==
  [r \in Resets |-> IF r \in gone /\ reset[r].state = "open"
                    THEN [reset[r] EXCEPT !.state = "used"] ELSE reset[r]]

ResetsOf(u)   == {r \in Resets : reset[r].user = u}

(* AuthService._issue_tokens: a session row in a new or in the rotated family. *)
Issued(table, u, family, pw) ==
  [table EXCEPT ![FreshSession] = [state |-> "live", user |-> u, family |-> family, pw |-> pw]]

(* AuthService._create_reset_token: earlier links of the user die first. *)
NewReset(u) ==
  [Used(ResetsOf(u)) EXCEPT ![FreshReset] = [state |-> "open", user |-> u]]

NewPassword(u) == [user[u] EXCEPT !.pw = @ + 1, !.mustChange = FALSE]

-----------------------------------------------------------------------------
(* Routes anyone may call. *)

Login(u) ==
  /\ Active(u) /\ UnusedSessions # {}
  /\ session' = Issued(session, u, FreshSession, user[u].pw)
  /\ UNCHANGED <<user, reset, admitted>>

Refreshable(s) == s \in Live

(* AuthService.refresh of the token of session s, which may be an old one.  *)
(* A token that was revoked, rotated or has expired kills its whole family. *)
RotateTo(s) == Issued(Revoked({s}), session[s].user, session[s].family, user[session[s].user].pw)

Refresh(s) ==
  LET u == session[s].user IN
  /\ s \in Known
  /\ \/ /\ ~Refreshable(s) \/ ~Active(u)
        /\ session' = Revoked(OfFamily(session[s].family))
     \/ /\ Refreshable(s) /\ Active(u) /\ UnusedSessions # {}
        /\ session' = RotateTo(s)
  /\ UNCHANGED <<user, reset, admitted>>

(* request_password_reset; the e-mail may fail, the token stays valid. *)
ForgotPassword(u) ==
  /\ Active(u) /\ UnusedResets # {}
  /\ reset' = NewReset(u)
  /\ UNCHANGED <<user, session, admitted>>

\* Mutant: sessions outlive the password they were opened with.
ResetEndsNone(u) == session

(* AuthService.reset_password with the link r.  A disabled user's link is   *)
(* burnt; otherwise every link and every session of the user ends.          *)
ResetEnds(u) == Revoked(OfUser(u))

ResetPassword(r) ==
  LET u == reset[r].user IN
  /\ reset[r].state # "unused"
  /\ \/ /\ reset[r].state # "open"
        /\ UNCHANGED <<user, session, reset>>
     \/ /\ reset[r].state = "open" /\ ~Active(u)
        /\ reset' = Used({r})
        /\ UNCHANGED <<user, session>>
     \/ /\ reset[r].state = "open" /\ Active(u) /\ user[u].pw < MaxPasswords
        /\ user' = [user EXCEPT ![u] = NewPassword(u)]
        /\ reset' = Used(ResetsOf(u))
        /\ session' = ResetEnds(u)
  /\ UNCHANGED admitted

-----------------------------------------------------------------------------
(* Routes behind the dependencies.  The access token is stateless: whoever  *)
(* logged in may still hold one, whatever became of the session since, but  *)
(* the user row is read again.                                              *)

HoldsToken(u) == OfUser(u) \cap Known # {}

IsAdmin(u) == Active(u) /\ ~user[u].mustChange /\ user[u].role = "admin"

Admit(u) ==
  /\ HoldsToken(u) /\ IsAdmin(u) /\ u \notin admitted
  /\ admitted' = admitted \cup {u}
  /\ UNCHANGED <<user, session, reset>>

Done(a) == admitted' = admitted \ {a}

Logout(u, s) ==
  /\ HoldsToken(u) /\ Active(u)
  /\ session' = Revoked({s})
  /\ UNCHANGED <<user, reset, admitted>>

(* change_password: status and password are checked again; the presented    *)
(* session, if it is not revoked, survives.                                 *)
Kept(s) == {s} \cap Live

ChangePassword(u, s) ==
  LET ended == Revoked(OfUser(u) \ Kept(s)) IN
  /\ HoldsToken(u) /\ Active(u) /\ user[u].pw < MaxPasswords
  /\ user' = [user EXCEPT ![u] = NewPassword(u)]
  /\ session' = [t \in Sessions |-> IF t = s /\ session[t].user = u
                                    THEN [ended[t] EXCEPT !.pw = user[u].pw + 1] ELSE ended[t]]
  /\ UNCHANGED <<reset, admitted>>

(* create_user: a temporary password, then the set-up link. *)
CreateUser(a, u) ==
  /\ a \in admitted /\ user[u] = Absent /\ UnusedResets # {}
  /\ user' = [user EXCEPT ![u] = TempUser]
  /\ reset' = NewReset(u)
  /\ Done(a) /\ UNCHANGED <<session>>

\* Mutant: the admins left are counted whatever their status.
LastAdmin(u) ==
  /\ user[u].role = "admin" /\ Active(u)
  /\ Cardinality({v \in Users : user[v].role = "admin"}) <= 1

(* prevent_admin_lockout, evaluated in the handler's own step. *)
LastActiveAdmin(u) ==
  /\ user[u].role = "admin" /\ Active(u)
  /\ Cardinality({v \in Users : user[v].role = "admin" /\ Active(v)}) <= 1

LockoutAllows(a, u) == u # a /\ ~LastActiveAdmin(u)

AfterStatus(u, status) == IF status = "active" THEN session ELSE Revoked(OfUser(u))

UpdateStatus(a, u, status) ==
  /\ a \in admitted /\ user[u].status # "absent"
  /\ \/ /\ status = "active" \/ LockoutAllows(a, u)
        /\ user' = [user EXCEPT ![u].status = status]
        /\ session' = AfterStatus(u, status)
     \/ /\ status # "active" /\ ~LockoutAllows(a, u)
        /\ UNCHANGED <<user, session>>
  /\ Done(a) /\ UNCHANGED <<reset>>

(* delete_user is update_status to "disabled". *)
DeleteUser(a, u) == UpdateStatus(a, u, "disabled")

RevokeUserSessions(a, u) ==
  /\ a \in admitted /\ user[u].status # "absent"
  /\ session' = Revoked(OfUser(u))
  /\ Done(a) /\ UNCHANGED <<user, reset>>

-----------------------------------------------------------------------------
(* The command line, run while no handler is, and the passage of time.      *)

CreateAdmin(u) ==
  /\ user[u] = Absent
  /\ user' = [user EXCEPT ![u] = NewAdmin]
  /\ UNCHANGED <<session, reset, admitted>>

(* revoke-sessions truncates both tables: the tokens are found no more (and *)
(* access tokens die with the signing key, which is rotated after it).      *)
RevokeSessions ==
  /\ session' = [s \in Sessions |-> IF session[s].state = "unused" THEN session[s]
                                    ELSE [NoSess EXCEPT !.state = "gone"]]
  /\ reset' = [r \in Resets |-> IF reset[r].state = "unused" THEN reset[r]
                                ELSE [NoReset EXCEPT !.state = "used"]]
  /\ UNCHANGED <<user, admitted>>

(* cleanup_expired runs before a row is read: a row whose time has come is  *)
(* as good as revoked, or used, at once.                                    *)
Expire ==
  \/ \E s \in Live : /\ session' = Revoked({s})
                     /\ UNCHANGED <<user, reset, admitted>>
  \/ \E r \in Open : /\ reset' = Used({r})
                     /\ UNCHANGED <<user, session, admitted>>

Next ==
  \/ \E u \in Users :
       \/ Login(u) \/ ForgotPassword(u) \/ Admit(u) \/ CreateAdmin(u)
       \/ \E s \in Sessions \cup {NoOne} : Logout(u, s) \/ ChangePassword(u, s)
       \/ \E v \in Users :
            \/ CreateUser(u, v) \/ DeleteUser(u, v) \/ RevokeUserSessions(u, v)
            \/ \E status \in Statuses : UpdateStatus(u, v, status)
  \/ \E s \in Sessions : Refresh(s)
  \/ \E r \in Resets : ResetPassword(r)
  \/ RevokeSessions
  \/ Expire

Spec == Init /\ [][Next]_vars

-----------------------------------------------------------------------------
(* prevent_admin_lockout: whatever admins, admitted before one another's    *)
(* change, do to each other's accounts, an active admin is left.            *)
AdminRemains == \E u \in Users : user[u].role = "admin" /\ Active(u)

(* Refresh rotation is linear: at most one session of a token family can    *)
(* still be refreshed, however often old tokens come back.                  *)
RotationIsLinear == \A s, t \in Live : session[s].family = session[t].family => s = t

(* Only an active account has sessions: no interleaving of log-ins,         *)
(* refreshes and status changes leaves one to a suspended or disabled user. *)
OnlyActiveHaveSessions == \A s \in Live : Active(session[s].user)

(* "Validates a single-use reset token and revokes every active session":   *)
(* no session opened under a replaced password survives, directly or        *)
(* through rotation, except the one whose holder replaced it.               *)
OldPasswordsAreOut == \A s \in Live : session[s].pw = user[session[s].user].pw

(* At most one reset or set-up link of a user is usable: the latest.        *)
LatestLinkOnly == \A q, r \in Open : reset[q].user = reset[r].user => q = r

(* refresh, revoke_all_for_user, _create_reset_token: whatever the order of  *)
(* log-ins, replays, resets and status changes, a credential that works is   *)
(* the latest of its kind, of an active account and of its present password. *)
CredentialsAreRightful == RotationIsLinear /\ OnlyActiveHaveSessions /\ OldPasswordsAreOut /\ LatestLinkOnly
=============================================================================
