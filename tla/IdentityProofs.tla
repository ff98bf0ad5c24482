--------------------------- MODULE IdentityProofs ---------------------------
(***************************************************************************)
(* Proofs about accounts, access tokens, delegation and the tools that use *)
(* it, for every set of users, sessions, links, clients, registrations,    *)
(* calls and tickets and every token lifetime.  Each component is proved   *)
(* about by itself: Accounts, and A (AccessTokens), D (Delegation) and T   *)
(* (ToolCalls).                                                            *)
(***************************************************************************)
EXTENDS MCIdentity, Integers, FiniteSetTheorems, TLAPS

-----------------------------------------------------------------------------
(* Accounts.  Two arguments.  prevent_admin_lockout is evaluated in the    *)
(* handler's own step, so it counts the administrators as they are when    *)
(* the status is written.  Credentials are rightful because a live         *)
(* session's family is a session that was once issued (FamiliesAreUsed): a *)
(* new log-in therefore opens a family of its own, and rotation moves the  *)
(* one live member on.                                                     *)

UserRow    == [role: {"user", "admin"}, status: Statuses \cup {"absent"},
               mustChange: BOOLEAN, pw: Nat]
SessionRow == [state: {"unused", "live", "revoked", "gone"}, user: Users,
               family: Sessions \cup {NoOne}, pw: Nat]
ResetRow   == [state: {"unused", "open", "used"}, user: Users]

Types == /\ user \in [Users -> UserRow]
         /\ session \in [Sessions -> SessionRow]
         /\ reset \in [Resets -> ResetRow]

\* Every family is named by a session that was issued: a new one is unused.
FamiliesAreUsed ==
  \A s \in Known : session[s].family \in Sessions
                   /\ session[session[s].family].state # "unused"

SessionsAreRightful ==
  RotationIsLinear /\ OnlyActiveHaveSessions /\ OldPasswordsAreOut /\ FamiliesAreUsed

IInv == Types /\ AdminRemains /\ SessionsAreRightful /\ LatestLinkOnly

-----------------------------------------------------------------------------
(* Lemmas about the tables.                                                *)

\* The constants of the tables are rows.
LEMMA Rows ==
  /\ Absent \in UserRow /\ NewAdmin \in UserRow /\ TempUser \in UserRow
  /\ NoSess \in SessionRow /\ NoReset \in ResetRow
  BY AccountsAssumption DEF Absent, NewAdmin, TempUser, NoSess, NoReset, UserRow, SessionRow,
     ResetRow, Statuses

\* NoOne is not a session, and an unused row is at hand when there is one.
LEMMA Fresh ==
  /\ UnusedSessions # {} => FreshSession \in UnusedSessions
  /\ UnusedResets # {} => FreshReset \in UnusedResets
  BY DEF FreshSession, FreshReset

\* revoke_all_for_user, revoke_family, revoke: live rows of the set are revoked,
\* every other row stays as it is.
LEMMA RevokedEffect ==
  ASSUME Types, NEW gone
  PROVE  /\ Revoked(gone) \in [Sessions -> SessionRow]
         /\ \A t \in Sessions :
              IF t \in gone /\ session[t].state = "live"
              THEN /\ Revoked(gone)[t].state = "revoked"
                   /\ Revoked(gone)[t].user = session[t].user
                   /\ Revoked(gone)[t].family = session[t].family
              ELSE Revoked(gone)[t] = session[t]
  <1>1. ASSUME NEW x \in SessionRow
        PROVE  LET y == [x EXCEPT !.state = "revoked", !.pw = 0]
               IN  y \in SessionRow /\ y.state = "revoked" /\ y.user = x.user
                   /\ y.family = x.family
    BY DEF SessionRow
  <1>. QED  BY <1>1 DEF Revoked, Types

\* mark_used: open links of the set are used, every other link stays as it is.
LEMMA UsedEffect ==
  ASSUME Types, NEW gone
  PROVE  /\ Used(gone) \in [Resets -> ResetRow]
         /\ \A q \in Resets : /\ Used(gone)[q].user = reset[q].user
                              /\ Used(gone)[q].state = "open" =>
                                   reset[q].state = "open" /\ q \notin gone
  <1>1. ASSUME NEW x \in ResetRow
        PROVE  LET y == [x EXCEPT !.state = "used"]
               IN  y \in ResetRow /\ y.state = "used" /\ y.user = x.user
    BY DEF ResetRow
  <1>. QED  BY <1>1 DEF Used, Types

\* A password change touches neither the role nor the status.
LEMMA NewPasswordEffect ==
  ASSUME Types, NEW u \in Users
  PROVE  /\ NewPassword(u) \in UserRow /\ NewPassword(u).pw = user[u].pw + 1
         /\ NewPassword(u).role = user[u].role /\ NewPassword(u).status = user[u].status
  <1>. DEFINE x == user[u]
              n == x.pw + 1
  <1>1. x \in UserRow /\ n \in Nat
    BY DEF Types, UserRow
  <1>2. NewPassword(u) = [x EXCEPT !.pw = n, !.mustChange = FALSE]
    BY <1>1 DEF NewPassword
  <1>. HIDE DEF x, n
  <1>3. /\ NewPassword(u) \in UserRow /\ NewPassword(u).pw = n
        /\ NewPassword(u).role = x.role /\ NewPassword(u).status = x.status
    BY <1>1, <1>2 DEF UserRow
  <1>. QED  BY <1>3 DEF x, n

\* A status change touches the status only.
LEMMA StatusEffect ==
  ASSUME Types, NEW u \in Users, NEW status \in Statuses,
         user' = [user EXCEPT ![u].status = status]
  PROVE  /\ user' \in [Users -> UserRow] /\ user'[u].status = status
         /\ user'[u].role = user[u].role /\ user'[u].pw = user[u].pw
         /\ \A v \in Users \ {u} : user'[v] = user[v]
  <1>1. ASSUME NEW x \in UserRow
        PROVE  LET y == [x EXCEPT !.status = status]
               IN  y \in UserRow /\ y.status = status /\ y.role = x.role /\ y.pw = x.pw
    BY DEF UserRow
  <1>2. user' = [user EXCEPT ![u] = [user[u] EXCEPT !.status = status]]
    BY DEF Types
  <1>. QED  BY <1>1, <1>2 DEF Types

-----------------------------------------------------------------------------
(* Links.                                                                  *)

\* _create_reset_token leaves the new link as the user's only usable one.
LEMMA NewResetKeeps ==
  ASSUME Types, LatestLinkOnly, NEW u \in Users, UnusedResets # {}, reset' = NewReset(u)
  PROVE  reset' \in [Resets -> ResetRow] /\ LatestLinkOnly'
  <1>. DEFINE f == FreshReset
  <1>1. f \in Resets
    BY Fresh DEF UnusedResets
  <1>. HIDE DEF f
  <1>2. reset' = [Used(ResetsOf(u)) EXCEPT ![f] = [state |-> "open", user |-> u]]
    BY DEF NewReset, f
  <1>3. [state |-> "open", user |-> u] \in ResetRow
    BY DEF ResetRow
  <1>4. reset' \in [Resets -> ResetRow]
    BY <1>1, <1>2, <1>3, UsedEffect
  <1>5. ASSUME NEW q \in Resets, q # f, reset'[q].state = "open"
        PROVE  /\ reset'[q].user = reset[q].user /\ reset[q].state = "open"
               /\ reset[q].user # u
    <2>1. reset'[q] = Used(ResetsOf(u))[q]
      BY <1>1, <1>2, <1>5, UsedEffect
    <2>. QED  BY <1>5, <2>1, UsedEffect DEF ResetsOf
  <1>6. reset'[f].user = u
    BY <1>1, <1>2, UsedEffect
  <1>. QED  BY <1>4, <1>5, <1>6 DEF LatestLinkOnly, Open

\* Burning links keeps at most one.
LEMMA UsedKeeps ==
  ASSUME Types, LatestLinkOnly, NEW gone, reset' = Used(gone)
  PROVE  reset' \in [Resets -> ResetRow] /\ LatestLinkOnly'
  BY UsedEffect DEF LatestLinkOnly, Open

-----------------------------------------------------------------------------
(* Sessions.                                                               *)

\* What every handler but a log-in and a rotation does: sessions end, none opens.
Shrinks ==
  \A t \in Sessions :
    /\ session'[t].state = "unused" => session[t].state = "unused"
    /\ session'[t].state = "live" => session[t].state = "live"
    /\ session'[t].state \in {"live", "revoked"} =>
         /\ session[t].state \in {"live", "revoked"}
         /\ session'[t].user = session[t].user /\ session'[t].family = session[t].family

\* Ending sessions keeps the rest rightful when they still belong to an active
\* user under the present password.
LEMMA ShrinkKeeps ==
  ASSUME Types, SessionsAreRightful, Shrinks,
         \A t \in Sessions : session'[t].state = "live" =>
           user'[session[t].user].status = "active"
           /\ session'[t].pw = user'[session[t].user].pw
  PROVE  SessionsAreRightful'
  <1>1. RotationIsLinear'
    BY DEF SessionsAreRightful, RotationIsLinear, Live, Shrinks
  <1>2. OnlyActiveHaveSessions'
    BY DEF SessionsAreRightful, OnlyActiveHaveSessions, Live, Active, Shrinks
  <1>3. OldPasswordsAreOut'
    BY DEF SessionsAreRightful, OldPasswordsAreOut, Live, Shrinks
  <1>4. FamiliesAreUsed'
    BY DEF SessionsAreRightful, FamiliesAreUsed, Known, Shrinks
  <1>. QED  BY <1>1, <1>2, <1>3, <1>4 DEF SessionsAreRightful

\* Revoking shrinks.
LEMMA RevokedShrinks ==
  ASSUME Types, NEW gone, session' = Revoked(gone)
  PROVE  /\ Shrinks
         /\ \A t \in Sessions : session'[t].state = "live" =>
              t \notin gone /\ session'[t] = session[t]
  BY RevokedEffect DEF Shrinks

\* Revocation keeps what is rightful when every session left belongs to a user
\* whose status and password the step leaves alone.
LEMMA RevokedKeeps ==
  ASSUME Types, SessionsAreRightful, NEW gone, session' = Revoked(gone),
         \A t \in Sessions : t \notin gone /\ session[t].state = "live" =>
           /\ user'[session[t].user].status = user[session[t].user].status
           /\ user'[session[t].user].pw = user[session[t].user].pw
  PROVE  session' \in [Sessions -> SessionRow] /\ SessionsAreRightful'
  <1>1. session' \in [Sessions -> SessionRow]
    BY RevokedEffect
  <1>2. \A t \in Live : /\ user[session[t].user].status = "active"
                        /\ session[t].pw = user[session[t].user].pw
    BY DEF SessionsAreRightful, OnlyActiveHaveSessions, OldPasswordsAreOut, Active
  <1>. QED  BY <1>1, <1>2, RevokedShrinks, ShrinkKeeps DEF Live

\* _issue_tokens on a table that shrank: the new row is the only live one of its
\* family, so everything stays rightful.
LEMMA IssuedKeeps ==
  ASSUME Types, SessionsAreRightful, UNCHANGED user, UnusedSessions # {},
         NEW gone, NEW u \in Users, Active(u),
         NEW family \in Sessions,
         \/ family = FreshSession
         \/ session[family].state # "unused",
         \A t \in Live : session[t].family = family => t \in gone,
         session' = Issued(Revoked(gone), u, family, user[u].pw)
  PROVE  session' \in [Sessions -> SessionRow] /\ SessionsAreRightful'
  <1>. DEFINE f == FreshSession
              R == Revoked(gone)
              y == [state |-> "live", user |-> u, family |-> family, pw |-> user[u].pw]
  <1>1. f \in Sessions /\ session[f].state = "unused"
    BY Fresh DEF UnusedSessions
  <1>2. session' = [R EXCEPT ![f] = y]
    BY DEF Issued
  <1>3. y \in SessionRow
    BY DEF Types, UserRow, SessionRow
  <1>4. R \in [Sessions -> SessionRow]
    BY RevokedEffect
  <1>5. \A t \in Sessions : IF t \in gone /\ session[t].state = "live"
                            THEN /\ R[t].state = "revoked" /\ R[t].user = session[t].user
                                 /\ R[t].family = session[t].family
                            ELSE R[t] = session[t]
    BY RevokedEffect
  <1>6. /\ y.state = "live" /\ y.user = u /\ y.family = family /\ y.pw = user[u].pw
        /\ family = f \/ session[family].state # "unused"
    OBVIOUS
  <1>. HIDE DEF f, R, y
  <1>7. /\ session' \in [Sessions -> SessionRow] /\ session'[f] = y
        /\ \A t \in Sessions \ {f} : session'[t] = R[t]
    BY <1>1, <1>2, <1>3, <1>4
  <1>8. \A t \in Sessions \ {f} :
          /\ session'[t].state = "live" => t \notin gone /\ session'[t] = session[t]
          /\ session'[t].state \in {"live", "revoked"} =>
               /\ session[t].state \in {"live", "revoked"}
               /\ session'[t].user = session[t].user
               /\ session'[t].family = session[t].family
          /\ session[t].state # "unused" => session'[t].state # "unused"
    BY <1>5, <1>7
  <1>9. ASSUME NEW t \in Sessions, session'[t].state = "live", session'[t].family = family
        PROVE  t = f
    BY <1>8, <1>9 DEF Live
  <1>10. RotationIsLinear'
    BY <1>6, <1>7, <1>8, <1>9 DEF RotationIsLinear, SessionsAreRightful, Live
  <1>11. OnlyActiveHaveSessions'
    BY <1>6, <1>7, <1>8 DEF OnlyActiveHaveSessions, SessionsAreRightful, Live, Active
  <1>12. OldPasswordsAreOut'
    BY <1>6, <1>7, <1>8 DEF OldPasswordsAreOut, SessionsAreRightful, Live
  <1>13. FamiliesAreUsed'
    BY <1>1, <1>6, <1>7, <1>8 DEF FamiliesAreUsed, SessionsAreRightful, Known
  <1>. QED  BY <1>7, <1>10, <1>11, <1>12, <1>13 DEF SessionsAreRightful

-----------------------------------------------------------------------------
(* The steps.                                                              *)

\* A handler that leaves the users alone keeps the invariant when it keeps the
\* sessions and the links.
LEMMA SameUsers ==
  ASSUME IInv, UNCHANGED user,
         session' \in [Sessions -> SessionRow] /\ SessionsAreRightful',
         reset' \in [Resets -> ResetRow] /\ LatestLinkOnly'
  PROVE  IInv'
  BY DEF IInv, Types, AdminRemains, Active

\* The sessions stay rightful in a step that leaves them and their users alone.
LEMMA SameSessions ==
  ASSUME IInv, UNCHANGED session,
         \A t \in Live : /\ user'[session[t].user].status = user[session[t].user].status
                         /\ user'[session[t].user].pw = user[session[t].user].pw
  PROVE  session' \in [Sessions -> SessionRow] /\ SessionsAreRightful'
  <1>1. \A t \in Live : /\ user[session[t].user].status = "active"
                        /\ session[t].pw = user[session[t].user].pw
    BY DEF IInv, SessionsAreRightful, OnlyActiveHaveSessions, OldPasswordsAreOut, Active
  <1>2. Shrinks
    BY DEF Shrinks
  <1>. QED  BY <1>1, <1>2, ShrinkKeeps DEF IInv, Types, Live

\* The links stay the latest in a step that leaves them alone.
LEMMA SameLinks ==
  ASSUME IInv, UNCHANGED reset
  PROVE  reset' \in [Resets -> ResetRow] /\ LatestLinkOnly'
  BY DEF IInv, Types, LatestLinkOnly, Open

\* AuthService.login opens a family of its own.
LEMMA LoginStep ==
  ASSUME IInv, NEW u \in Users, Login(u)
  PROVE  IInv'
  <1>1. /\ Active(u) /\ UnusedSessions # {} /\ UNCHANGED <<user, reset>>
        /\ session' = Issued(session, u, FreshSession, user[u].pw)
    BY DEF Login
  <1>2. FreshSession \in Sessions /\ session[FreshSession].state = "unused"
    BY <1>1, Fresh DEF UnusedSessions
  <1>3. \A t \in Live : session[t].family # FreshSession
    BY <1>2 DEF IInv, SessionsAreRightful, FamiliesAreUsed, Known, Live
  <1>4. Revoked({}) = session
    BY DEF Revoked, IInv, Types
  <1>5. session' = Issued(Revoked({}), u, FreshSession, user[u].pw)
    BY <1>1, <1>4
  <1>6. session' \in [Sessions -> SessionRow] /\ SessionsAreRightful'
    BY <1>1, <1>2, <1>3, <1>5, IssuedKeeps DEF IInv
  <1>. QED  BY <1>1, <1>6, SameLinks, SameUsers

\* AuthService.refresh moves the one live member of a family on, or ends it.
LEMMA RefreshStep ==
  ASSUME IInv, NEW s \in Sessions, Refresh(s)
  PROVE  IInv'
  <1>. DEFINE u == session[s].user
              family == session[s].family
  <1>1. s \in Known /\ UNCHANGED <<user, reset>>
    BY DEF Refresh
  <1>2. CASE session' = Revoked(OfFamily(family))
    <2>1. session' \in [Sessions -> SessionRow] /\ SessionsAreRightful'
      BY <1>1, <1>2, RevokedKeeps DEF IInv
    <2>. QED  BY <1>1, <2>1, SameLinks, SameUsers
  <1>3. CASE s \in Live /\ Active(u) /\ UnusedSessions # {} /\ session' = RotateTo(s)
    <2>1. u \in Users /\ family \in Sessions /\ session[family].state # "unused"
      BY <1>1 DEF IInv, Types, SessionRow, SessionsAreRightful, FamiliesAreUsed
    <2>2. \A t \in Live : session[t].family = family => t \in {s}
      BY <1>3 DEF IInv, SessionsAreRightful, RotationIsLinear
    <2>3. session' = Issued(Revoked({s}), u, family, user[u].pw)
      BY <1>3 DEF RotateTo
    <2>4. session' \in [Sessions -> SessionRow] /\ SessionsAreRightful'
      BY <1>1, <1>3, <2>1, <2>2, <2>3, IssuedKeeps DEF IInv
    <2>. QED  BY <1>1, <2>4, SameLinks, SameUsers
  <1>. QED  BY <1>2, <1>3 DEF Refresh, Refreshable

\* A new password ends every session of the user but the presented one, which is
\* from then on a session of the new password.
LEMMA PasswordStep ==
  ASSUME IInv, NEW u \in Users, Active(u), user' = [user EXCEPT ![u] = NewPassword(u)],
         reset' \in [Resets -> ResetRow] /\ LatestLinkOnly',
         session' \in [Sessions -> SessionRow], Shrinks,
         \A t \in Sessions : session'[t].state = "live" =>
           \/ session[t].user = u /\ session'[t].pw = user[u].pw + 1
           \/ session[t].user # u /\ session'[t].pw = session[t].pw
  PROVE  IInv'
  <1>1. /\ user' \in [Users -> UserRow] /\ user'[u].pw = user[u].pw + 1
        /\ \A v \in Users : user'[v].role = user[v].role /\ user'[v].status = user[v].status
        /\ \A v \in Users \ {u} : user'[v] = user[v]
    BY NewPasswordEffect DEF IInv, Types
  <1>2. AdminRemains'
    BY <1>1 DEF IInv, AdminRemains, Active
  <1>3. ASSUME NEW t \in Sessions, session'[t].state = "live"
        PROVE  user'[session[t].user].status = "active"
               /\ session'[t].pw = user'[session[t].user].pw
    <2>1. t \in Live /\ session[t].user \in Users
      BY <1>3 DEF Shrinks, Live, IInv, Types, SessionRow
    <2>2. user[session[t].user].status = "active" /\ session[t].pw = user[session[t].user].pw
      BY <2>1 DEF IInv, SessionsAreRightful, OnlyActiveHaveSessions, OldPasswordsAreOut, Active
    <2>. QED  BY <1>1, <1>3, <2>1, <2>2
  <1>4. SessionsAreRightful'
    BY <1>3, ShrinkKeeps DEF IInv
  <1>. QED  BY <1>1, <1>2, <1>4 DEF IInv, Types

\* reset_password: every session of the user ends.
LEMMA ResetPasswordStep ==
  ASSUME IInv, NEW r \in Resets, ResetPassword(r)
  PROVE  IInv'
  <1>. DEFINE u == reset[r].user
  <1>1. CASE UNCHANGED <<user, session, reset>>
    BY <1>1, SameUsers, SameSessions, SameLinks
  <1>2. CASE reset' = Used({r}) /\ UNCHANGED <<user, session>>
    <2>1. reset' \in [Resets -> ResetRow] /\ LatestLinkOnly'
      BY <1>2, UsedKeeps DEF IInv
    <2>. QED  BY <1>2, <2>1, SameUsers, SameSessions
  <1>3. CASE /\ Active(u) /\ user' = [user EXCEPT ![u] = NewPassword(u)]
             /\ reset' = Used(ResetsOf(u)) /\ session' = ResetEnds(u)
    <2>1. reset' \in [Resets -> ResetRow] /\ LatestLinkOnly'
      BY <1>3, UsedKeeps DEF IInv
    <2>2. session' = Revoked(OfUser(u)) /\ u \in Users
      BY <1>3 DEF ResetEnds, IInv, Types, ResetRow
    <2>3. session' \in [Sessions -> SessionRow]
      BY <2>2, RevokedEffect DEF IInv
    <2>4. Shrinks /\ \A t \in Sessions : session'[t].state = "live" =>
                       session[t].user # u /\ session'[t].pw = session[t].pw
      BY <2>2, RevokedShrinks DEF IInv, OfUser
    <2>. QED  BY <1>3, <2>1, <2>2, <2>3, <2>4, PasswordStep
  <1>. QED  BY <1>1, <1>2, <1>3 DEF ResetPassword

\* change_password: every session of the user but the presented one ends.
LEMMA ChangePasswordStep ==
  ASSUME IInv, NEW u \in Users, NEW s \in Sessions \cup {NoOne}, ChangePassword(u, s)
  PROVE  IInv'
  <1>. DEFINE gone == OfUser(u) \ Kept(s)
              ended == Revoked(gone)
              n == user[u].pw + 1
  <1>1. /\ Active(u) /\ user' = [user EXCEPT ![u] = NewPassword(u)] /\ UNCHANGED reset
        /\ session' = [t \in Sessions |-> IF t = s /\ session[t].user = u
                                          THEN [ended[t] EXCEPT !.pw = n] ELSE ended[t]]
    BY DEF ChangePassword
  <1>2. n \in Nat
    BY DEF IInv, Types, UserRow
  <1>3. /\ ended \in [Sessions -> SessionRow]
        /\ \A t \in Sessions : IF t \in gone /\ session[t].state = "live"
                               THEN /\ ended[t].state = "revoked"
                                    /\ ended[t].user = session[t].user
                                    /\ ended[t].family = session[t].family
                               ELSE ended[t] = session[t]
    BY RevokedEffect DEF IInv
  <1>4. \A t \in Sessions : session[t].user = u /\ session[t].state = "live" /\ t # s =>
          t \in gone
    BY DEF OfUser, Kept
  <1>. HIDE DEF n, ended, gone
  <1>5. ASSUME NEW x \in SessionRow
        PROVE  LET y == [x EXCEPT !.pw = n]
               IN  /\ y \in SessionRow /\ y.pw = n /\ y.state = x.state
                   /\ y.user = x.user /\ y.family = x.family
    BY <1>2 DEF SessionRow
  <1>6. \A t \in Sessions :
          /\ session'[t] \in SessionRow /\ session'[t].state = ended[t].state
          /\ session'[t].user = ended[t].user /\ session'[t].family = ended[t].family
          /\ session'[t].pw = IF t = s /\ session[t].user = u THEN n ELSE ended[t].pw
    BY <1>1, <1>3, <1>5
  <1>7. session' \in [Sessions -> SessionRow]
    BY <1>1, <1>6
  <1>8. Shrinks
    BY <1>3, <1>6 DEF Shrinks
  <1>9. ASSUME NEW t \in Sessions, session'[t].state = "live"
        PROVE  \/ session[t].user = u /\ session'[t].pw = n
               \/ session[t].user # u /\ session'[t].pw = session[t].pw
    BY <1>3, <1>4, <1>6, <1>9
  <1>10. reset' \in [Resets -> ResetRow] /\ LatestLinkOnly'
    BY <1>1, SameLinks
  <1>. QED  BY <1>1, <1>7, <1>8, <1>9, <1>10, PasswordStep DEF n

\* A row that did not exist had no session and was no administrator: creating it
\* disturbs neither.
LEMMA CreateUserStep ==
  ASSUME IInv, NEW u \in Users, user[u] = Absent, NEW row \in {TempUser, NewAdmin},
         user' = [user EXCEPT ![u] = row], UNCHANGED session,
         reset' \in [Resets -> ResetRow] /\ LatestLinkOnly'
  PROVE  IInv'
  <1>1. /\ user' \in [Users -> UserRow] /\ user[u].status = "absent" /\ user[u].role = "user"
        /\ \A v \in Users \ {u} : user'[v] = user[v]
    BY Rows DEF IInv, Types, Absent
  <1>2. AdminRemains'
    BY <1>1 DEF IInv, AdminRemains, Active
  <1>3. \A t \in Live : session[t].user # u /\ session[t].user \in Users
    BY <1>1 DEF IInv, Types, SessionRow, SessionsAreRightful, OnlyActiveHaveSessions, Active, Live
  <1>4. session' \in [Sessions -> SessionRow] /\ SessionsAreRightful'
    BY <1>1, <1>3, SameSessions
  <1>. QED  BY <1>1, <1>2, <1>4 DEF IInv, Types

\* Whom prevent_admin_lockout lets go is no administrator, or not the last one.
LEMMA LockoutEffect ==
  ASSUME NEW a \in Users, NEW u \in Users, LockoutAllows(a, u), AdminRemains
  PROVE  \E v \in Users \ {u} : user[v].role = "admin" /\ Active(v)
  <1>. DEFINE admins == {v \in Users : user[v].role = "admin" /\ Active(v)}
  <1>1. CASE user[u].role = "admin" /\ Active(u)
    <2>1. ~(Cardinality(admins) <= 1)
      BY <1>1 DEF LockoutAllows, LastActiveAdmin
    <2>2. Cardinality({u}) = 1
      BY FS_Singleton
    <2>3. admins # {u}
      BY <2>1, <2>2
    <2>4. u \in admins
      BY <1>1
    <2>. QED  BY <2>3, <2>4
  <1>2. CASE ~(user[u].role = "admin" /\ Active(u))
    BY <1>2 DEF AdminRemains
  <1>. QED  BY <1>1, <1>2

\* update_status: leaving "active" ends the sessions, and is refused to the last
\* administrator.
LEMMA UpdateStatusStep ==
  ASSUME IInv, NEW a \in Users, NEW u \in Users, NEW status \in Statuses,
         UpdateStatus(a, u, status)
  PROVE  IInv'
  <1>1. reset' \in [Resets -> ResetRow] /\ LatestLinkOnly'
    BY SameLinks DEF UpdateStatus
  <1>2. CASE UNCHANGED <<user, session>>
    BY <1>1, <1>2, SameSessions, SameUsers
  <1>3. CASE /\ status = "active" \/ LockoutAllows(a, u)
             /\ user' = [user EXCEPT ![u].status = status]
             /\ session' = AfterStatus(u, status)
    <2>1. /\ user' \in [Users -> UserRow] /\ user'[u].status = status
          /\ user'[u].role = user[u].role /\ user'[u].pw = user[u].pw
          /\ \A v \in Users \ {u} : user'[v] = user[v]
      BY <1>3, StatusEffect DEF IInv
    <2>2. AdminRemains'
      <3>1. CASE status = "active"
        BY <2>1, <3>1 DEF IInv, AdminRemains, Active
      <3>2. CASE LockoutAllows(a, u)
        BY <2>1, <3>2, LockoutEffect DEF IInv, AdminRemains, Active
      <3>. QED  BY <1>3, <3>1, <3>2
    <2>3. \A t \in Live : session[t].user \in Users /\ Active(session[t].user)
      BY DEF IInv, Types, SessionRow, SessionsAreRightful, OnlyActiveHaveSessions, Live
    <2>4. session' \in [Sessions -> SessionRow] /\ SessionsAreRightful'
      <3>1. CASE status = "active"
        BY <1>3, <2>1, <2>3, <3>1, SameSessions DEF AfterStatus, Active
      <3>2. CASE status # "active"
        <4>1. session' = Revoked(OfUser(u))
          BY <1>3, <3>2 DEF AfterStatus
        <4>2. \A t \in Sessions : t \notin OfUser(u) /\ session[t].state = "live" =>
                /\ user'[session[t].user].status = user[session[t].user].status
                /\ user'[session[t].user].pw = user[session[t].user].pw
          BY <2>1, <2>3 DEF OfUser, Live
        <4>. QED  BY <4>1, <4>2, RevokedKeeps DEF IInv
      <3>. QED  BY <3>1, <3>2
    <2>. QED  BY <1>1, <2>1, <2>2, <2>4 DEF IInv, Types
  <1>. QED  BY <1>2, <1>3 DEF UpdateStatus

\* Revocation by log-out, by an administrator or by expiry.
LEMMA RevokeStep ==
  ASSUME IInv, NEW gone, session' = Revoked(gone), UNCHANGED <<user, reset>>
  PROVE  IInv'
  <1>1. session' \in [Sessions -> SessionRow] /\ SessionsAreRightful'
    BY RevokedKeeps DEF IInv
  <1>. QED  BY <1>1, SameLinks, SameUsers

\* revoke-sessions empties both tables.
LEMMA RevokeSessionsStep ==
  ASSUME IInv, RevokeSessions
  PROVE  IInv'
  <1>1. /\ [NoSess EXCEPT !.state = "gone"] \in SessionRow
        /\ [NoSess EXCEPT !.state = "gone"].state = "gone"
        /\ [NoReset EXCEPT !.state = "used"] \in ResetRow
        /\ [NoReset EXCEPT !.state = "used"].state = "used"
    BY AccountsAssumption DEF NoSess, NoReset, SessionRow, ResetRow
  <1>2. session' \in [Sessions -> SessionRow] /\ reset' \in [Resets -> ResetRow]
    BY <1>1 DEF RevokeSessions, IInv, Types
  <1>3. /\ \A t \in Sessions : /\ session'[t].state \in {"unused", "gone"}
                               /\ session'[t].state = "unused" => session[t].state = "unused"
        /\ \A r \in Resets : reset'[r].state # "open"
    BY <1>1 DEF RevokeSessions
  <1>4. Shrinks
    BY <1>3 DEF Shrinks
  <1>5. SessionsAreRightful'
    BY <1>3, <1>4, ShrinkKeeps DEF IInv
  <1>6. LatestLinkOnly'
    BY <1>3 DEF LatestLinkOnly, Open
  <1>. QED  BY <1>2, <1>5, <1>6, SameUsers DEF RevokeSessions

\* Every step keeps the invariant.
LEMMA Step == IInv /\ [Next]_vars => IInv'
  <1>. SUFFICES ASSUME IInv, [Next]_vars PROVE IInv'
    OBVIOUS
  <1>1. ASSUME NEW u \in Users, ForgotPassword(u)
        PROVE  IInv'
    <2>1. reset' \in [Resets -> ResetRow] /\ LatestLinkOnly'
      BY <1>1, NewResetKeeps DEF ForgotPassword, IInv
    <2>. QED  BY <1>1, <2>1, SameSessions, SameUsers DEF ForgotPassword
  <1>2. ASSUME NEW u \in Users, Admit(u)
        PROVE  IInv'
    BY <1>2, SameSessions, SameLinks, SameUsers DEF Admit
  <1>3. ASSUME NEW u \in Users, CreateAdmin(u)
        PROVE  IInv'
    BY <1>3, SameLinks, CreateUserStep DEF CreateAdmin
  <1>4. ASSUME NEW u \in Users, NEW s \in Sessions \cup {NoOne}, Logout(u, s)
        PROVE  IInv'
    BY <1>4, RevokeStep DEF Logout
  <1>5. ASSUME NEW a \in Users, NEW u \in Users, CreateUser(a, u)
        PROVE  IInv'
    <2>1. reset' \in [Resets -> ResetRow] /\ LatestLinkOnly'
      BY <1>5, NewResetKeeps DEF CreateUser, IInv
    <2>. QED  BY <1>5, <2>1, CreateUserStep DEF CreateUser
  <1>6. ASSUME NEW a \in Users, NEW u \in Users, DeleteUser(a, u)
        PROVE  IInv'
    BY <1>6, UpdateStatusStep, AccountsAssumption DEF DeleteUser, Statuses
  <1>7. ASSUME NEW a \in Users, NEW u \in Users, RevokeUserSessions(a, u)
        PROVE  IInv'
    BY <1>7, RevokeStep DEF RevokeUserSessions
  <1>8. ASSUME Expire
        PROVE  IInv'
    <2>1. ASSUME NEW s \in Live, session' = Revoked({s}), UNCHANGED <<user, reset>>
          PROVE  IInv'
      BY <2>1, RevokeStep
    <2>2. ASSUME NEW r \in Open, reset' = Used({r}), UNCHANGED <<user, session>>
          PROVE  IInv'
      <3>1. reset' \in [Resets -> ResetRow] /\ LatestLinkOnly'
        BY <2>2, UsedKeeps DEF IInv
      <3>. QED  BY <2>2, <3>1, SameSessions, SameUsers
    <2>. QED  BY <1>8, <2>1, <2>2 DEF Expire
  <1>9. CASE UNCHANGED vars
    BY <1>9, SameSessions, SameLinks, SameUsers DEF vars
  <1>. QED  BY <1>1, <1>2, <1>3, <1>4, <1>5, <1>6, <1>7, <1>8, <1>9, LoginStep, RefreshStep,
               ResetPasswordStep, ChangePasswordStep, UpdateStatusStep, RevokeSessionsStep DEF Next

\* The invariant holds in every state.
LEMMA Invariance == Spec => []IInv
  <1>1. ASSUME Init
        PROVE  IInv
    <2>1. Types
      BY <1>1, Rows DEF Init, Types
    <2>2. AdminRemains
      BY <1>1, AccountsAssumption DEF Init, AdminRemains, Active, NewAdmin
    <2>3. \A s \in Sessions : session[s].state = "unused"
      BY <1>1 DEF Init, NoSess
    <2>4. SessionsAreRightful
      BY <2>3 DEF SessionsAreRightful, RotationIsLinear, OnlyActiveHaveSessions,
         OldPasswordsAreOut, FamiliesAreUsed, Live, Known
    <2>5. LatestLinkOnly
      BY <1>1 DEF Init, NoReset, LatestLinkOnly, Open
    <2>. QED  BY <2>1, <2>2, <2>4, <2>5 DEF IInv
  <1>. QED  BY <1>1, Step, PTL DEF Spec

-----------------------------------------------------------------------------
(* The results.                                                            *)

\* prevent_admin_lockout: however the requests of administrators who suspend,
\* disable and delete one another interleave, an active administrator is left.
THEOREM AdminRemainsHolds == Spec => []AdminRemains
  <1>1. IInv => AdminRemains
    BY DEF IInv
  <1>. QED  BY <1>1, Invariance, PTL

\* refresh, revoke_all_for_user and _create_reset_token: at most one session of a
\* family can be refreshed, sessions belong to active accounts and to their
\* present password, and only a user's latest link works.
THEOREM CredentialsAreRightfulHolds == Spec => []CredentialsAreRightful
  <1>1. IInv => CredentialsAreRightful
    BY DEF IInv, SessionsAreRightful, CredentialsAreRightful
  <1>. QED  BY <1>1, Invariance, PTL

-----------------------------------------------------------------------------
(* Access tokens.  The account is not read when a token is used, so the    *)
(* argument is about time: whoever holds a token was active when the       *)
(* session token at the start of its chain was built, and every exchange   *)
(* happens before its subject token expires.                               *)

\* How long after its subject was last active a token may expire.
Life(aud) == CASE aud = "backoffice" -> SessionLife
               [] aud = "mcp" -> SessionLife + OAuthLife
               [] aud = "api" -> SessionLife + 2 * OAuthLife

TokenRow == [sub: Users, aud: {"backoffice", "mcp", "api"}, status: {"active"},
             temporary: BOOLEAN, scope: {"none", "read", "write"}, exp: Int]

TokenTypes ==
  /\ account \in [Users -> [status: {"active", "disabled"}, temporary: BOOLEAN, since: Int]]
  /\ issued \subseteq TokenRow
  /\ stream \in TokenRow \cup {A!NoToken}
  /\ clock \in Int

\* A token dates from a time at which its subject was active.
Dated(t) == /\ t.exp <= clock + Life(t.aud)
            /\ account[t.sub].status # "active" => account[t.sub].since >= t.exp - Life(t.aud)

TokensAreDated ==
  /\ \A t \in issued : Dated(t)
  /\ stream # A!NoToken => Dated(stream) /\ stream.aud = "backoffice" /\ clock <= stream.exp

TokenInv == TokenTypes /\ TokensAreDated /\ A!ServedAsEntitled

\* Who is served with a dated token that has not expired is not served late.
LEMMA NotLate ==
  ASSUME TokenTypes, NEW t \in TokenRow, Dated(t), clock <= t.exp
  PROVE  A!Lateness(t.sub) <= Life(t.aud)
  <1>1. /\ t.sub \in Users /\ t.exp \in Int /\ Life(t.aud) \in Nat
        /\ account[t.sub].since \in Int /\ clock \in Int
    BY LivesAssumption DEF TokenTypes, TokenRow, Life
  <1>. HIDE DEF Life
  <1>. QED  BY <1>1 DEF Dated, A!Lateness

\* Tokens stay dated while neither the accounts nor the clock move.
LEMMA SameTimes ==
  ASSUME UNCHANGED <<account, clock>>, NEW t, Dated(t)
  PROVE  Dated(t)'
  BY DEF Dated, Life

\* A step in which nobody is served leaves nobody badly served.
LEMMA QuietServes == A!Quiet => A!ServedAsEntitled'
  BY LivesAssumption DEF A!Quiet, A!Nobody, A!ServedAsEntitled, A!DisabledSoonOut, A!CookieDecides

\* A token that is issued for a dated chain joins the others.
LEMMA IssueKeeps ==
  ASSUME TokenInv, NEW t \in TokenRow, Dated(t), A!Issue(t), UNCHANGED <<account, stream, clock>>,
         A!Quiet
  PROVE  TokenInv'
  <1>1. issued' = issued \cup {t}
    BY DEF A!Issue
  <1>2. TokenTypes'
    BY <1>1 DEF TokenInv, TokenTypes
  <1>3. TokensAreDated'
    BY <1>1, SameTimes DEF TokenInv, TokensAreDated
  <1>. QED  BY <1>2, <1>3, QuietServes DEF TokenInv

\* Disabling dates from now; enabling asks nothing.
LEMMA UpdateStatusKeeps ==
  ASSUME TokenInv, NEW u \in Users, A!UpdateStatus(u)
  PROVE  TokenInv'
  <1>. DEFINE st  == IF account[u].status = "active" THEN "disabled" ELSE "active"
              at  == IF account[u].status = "active" THEN clock ELSE 0
              row == [account[u] EXCEPT !.status = st, !.since = at]
  <1>1. account' = [account EXCEPT ![u] = row] /\ UNCHANGED <<issued, stream, clock>> /\ A!Quiet
    BY DEF A!UpdateStatus, TokenInv, TokenTypes
  <1>2. /\ account[u] \in [status: {"active", "disabled"}, temporary: BOOLEAN, since: Int]
        /\ st \in {"active", "disabled"} /\ at \in Int /\ (st # "active" => at = clock)
    BY DEF TokenInv, TokenTypes
  <1>. HIDE DEF st, at
  <1>3. /\ row \in [status: {"active", "disabled"}, temporary: BOOLEAN, since: Int]
        /\ row.status # "active" => row.since = clock
    BY <1>2
  <1>. HIDE DEF row
  <1>4. TokenTypes'
    BY <1>1, <1>3 DEF TokenInv, TokenTypes
  <1>5. ASSUME NEW t \in TokenRow, Dated(t)
        PROVE  Dated(t)'
    <2>1. t.sub \in Users /\ t.exp \in Int /\ Life(t.aud) \in Nat /\ clock \in Int
      BY LivesAssumption DEF TokenInv, TokenTypes, TokenRow, Life
    <2>2. account'[t.sub] = IF t.sub = u THEN row ELSE account[t.sub]
      BY <1>1, <2>1 DEF TokenInv, TokenTypes
    <2>3. Life(t.aud)' = Life(t.aud)
      BY DEF Life
    <2>. HIDE DEF Life
    <2>. QED  BY <1>1, <1>3, <1>5, <2>1, <2>2, <2>3 DEF Dated
  <1>6. TokensAreDated'
    BY <1>1, <1>5 DEF TokenInv, TokenTypes, TokensAreDated
  <1>. QED  BY <1>1, <1>4, <1>6, QuietServes DEF TokenInv

\* A change of password changes no status.
LEMMA ChangePasswordKeeps ==
  ASSUME TokenInv, NEW u \in Users, A!ChangePassword(u)
  PROVE  TokenInv'
  <1>. DEFINE row == [account[u] EXCEPT !.temporary = FALSE]
  <1>1. account' = [account EXCEPT ![u] = row] /\ UNCHANGED <<issued, stream, clock>> /\ A!Quiet
    BY DEF A!ChangePassword, TokenInv, TokenTypes
  <1>2. account[u] \in [status: {"active", "disabled"}, temporary: BOOLEAN, since: Int]
    BY DEF TokenInv, TokenTypes
  <1>3. /\ row \in [status: {"active", "disabled"}, temporary: BOOLEAN, since: Int]
        /\ row.status = account[u].status /\ row.since = account[u].since
    BY <1>2
  <1>. HIDE DEF row
  <1>4. TokenTypes'
    BY <1>1, <1>3 DEF TokenInv, TokenTypes
  <1>5. ASSUME NEW t \in TokenRow, Dated(t)
        PROVE  Dated(t)'
    <2>1. t.sub \in Users
      BY DEF TokenRow
    <2>2. /\ account'[t.sub].status = account[t.sub].status
          /\ account'[t.sub].since = account[t.sub].since
      BY <1>1, <1>3, <2>1 DEF TokenInv, TokenTypes
    <2>3. Life(t.aud)' = Life(t.aud)
      BY DEF Life
    <2>. HIDE DEF Life
    <2>. QED  BY <1>1, <1>5, <2>2, <2>3 DEF Dated
  <1>6. TokensAreDated'
    BY <1>1, <1>5 DEF TokenInv, TokenTypes, TokensAreDated
  <1>. QED  BY <1>1, <1>4, <1>6, QuietServes DEF TokenInv

\* build_access_claims reads the account: the token dates from now.
LEMMA BuildKeeps ==
  ASSUME TokenInv, NEW u \in Users, A!BuildAccessClaims(u)
  PROVE  TokenInv'
  <1>. DEFINE t == [sub |-> u, aud |-> "backoffice", status |-> account[u].status,
                    temporary |-> account[u].temporary, scope |-> "none",
                    exp |-> clock + SessionLife]
  <1>1. /\ account[u].status = "active" /\ A!Issue(t) /\ UNCHANGED <<account, stream, clock>>
        /\ A!Quiet
    BY DEF A!BuildAccessClaims
  <1>2. account[u].temporary \in BOOLEAN /\ clock \in Int /\ clock + SessionLife \in Int
    BY LivesAssumption DEF TokenInv, TokenTypes
  <1>3. t \in TokenRow
    BY <1>1, <1>2 DEF TokenRow
  <1>4. t.sub = u /\ t.aud = "backoffice" /\ t.exp = clock + SessionLife
    OBVIOUS
  <1>. HIDE DEF t
  <1>5. Life(t.aud) = SessionLife
    BY <1>4 DEF Life
  <1>. HIDE DEF Life
  <1>6. Dated(t)
    BY <1>1, <1>2, <1>4, <1>5, LivesAssumption DEF Dated
  <1>. QED  BY <1>1, <1>3, <1>6, IssueKeeps

\* token_exchange happens before its subject token expires, so the new token is
\* at most one lifetime further from the last time its subject was active.
LEMMA ExchangeKeeps ==
  ASSUME TokenInv, NEW t \in issued, NEW aud \in {"mcp", "api"}, NEW scope \in {"read", "write"},
         A!TokenExchange(t, aud, scope)
  PROVE  TokenInv'
  <1>. DEFINE e == clock + OAuthLife
              y == [t EXCEPT !.aud = aud, !.scope = scope, !.exp = e]
  <1>1. /\ A!NotExpired(t) /\ t.aud = (IF aud = "mcp" THEN "backoffice" ELSE "mcp")
        /\ A!Issue(y) /\ UNCHANGED <<account, stream, clock>> /\ A!Quiet
    BY DEF A!TokenExchange, A!VerifySubjectToken
  <1>2. /\ t \in TokenRow /\ Dated(t) /\ clock <= t.exp /\ clock \in Int /\ e \in Int
        /\ e = clock + OAuthLife /\ t.exp \in Int /\ t.sub \in Users
        /\ account[t.sub].since \in Int
    BY <1>1, LivesAssumption DEF TokenInv, TokenTypes, TokensAreDated, TokenRow, A!NotExpired
  <1>. HIDE DEF e
  <1>3. y \in TokenRow /\ y.aud = aud /\ y.exp = e /\ y.sub = t.sub
    BY <1>2 DEF TokenRow
  <1>4. Life(aud) = Life(t.aud) + OAuthLife /\ Life(t.aud) \in Int
    BY <1>1, LivesAssumption DEF Life
  <1>. HIDE DEF y, Life
  <1>5. Dated(y)
    <2>1. y.exp <= clock + Life(aud)
      <3>1. OAuthLife <= Life(aud)
        BY LivesAssumption DEF Life
      <3>2. Life(aud) \in Int
        BY <1>4, LivesAssumption
      <3>. QED  BY <1>2, <1>3, <3>1, <3>2, LivesAssumption
    <2>2. ASSUME account[t.sub].status # "active"
          PROVE  account[t.sub].since >= y.exp - Life(aud)
      <3>1. account[t.sub].since >= t.exp - Life(t.aud)
        BY <1>2, <2>2 DEF Dated
      <3>. QED  BY <1>2, <1>3, <1>4, <3>1, LivesAssumption
    <2>. QED  BY <1>3, <2>1, <2>2 DEF Dated
  <1>. QED  BY <1>1, <1>3, <1>5, IssueKeeps

\* A request is served on a token that has not expired, as the cookie's user if
\* there is a cookie.
LEMMA RequestKeeps ==
  ASSUME TokenInv, NEW cookie \in issued \cup {A!NoToken}, NEW bearer \in issued \cup {A!NoToken},
         NEW operational \in BOOLEAN, NEW csrf \in BOOLEAN, NEW scope \in {"read", "write"},
         A!Request(cookie, bearer, operational, scope, csrf)
  PROVE  TokenInv'
  <1>. DEFINE forged == scope = "write" /\ ~csrf
              token == A!Extracted(cookie, bearer)
  <1>1. UNCHANGED <<account, issued, stream, clock>>
    BY DEF A!Request
  <1>2. TokenTypes' /\ TokensAreDated'
    BY <1>1, SameTimes DEF TokenInv, TokenTypes, TokensAreDated
  <1>3. ASSUME NEW t \in issued \cup {A!NoToken}, t # A!NoToken, clock <= t.exp
        PROVE  A!Lateness(t.sub) <= Life(t.aud)
    BY <1>3, NotLate DEF TokenInv, TokenTypes, TokensAreDated
  <1>4. CASE A!Authentic(token) /\ A!RequireCsrf(cookie, forged)
             /\ A!Served("staff", token.sub, cookie, forged)
    <2>1. /\ token \in issued \cup {A!NoToken} /\ token # A!NoToken /\ clock <= token.exp
          /\ token.aud = "backoffice" /\ (cookie # A!NoToken => token = cookie /\ ~forged)
          /\ (cookie = A!NoToken => cookie.sub = "none")
      BY <1>4 DEF A!Authentic, A!Extracted, A!RequireCsrf, A!NoToken
    <2>2. A!Lateness(token.sub) <= SessionLife
      BY <1>3, <2>1 DEF Life
    <2>. HIDE DEF token, forged
    <2>3. /\ last'.way = "staff" /\ last'.as = token.sub /\ last'.cookie = cookie.sub
          /\ last'.forged = forged /\ last'.late = A!Lateness(token.sub)
      BY <1>4 DEF A!Served
    <2>4. A!ServedAsEntitled'
      BY <2>1, <2>2, <2>3 DEF A!ServedAsEntitled, A!DisabledSoonOut, A!CookieDecides
    <2>. QED  BY <1>2, <2>4 DEF TokenInv
  <1>5. CASE A!ScopedInstead(cookie, bearer, scope)
             /\ A!Served("delegated", bearer.sub, cookie, forged)
    <2>1. /\ bearer # A!NoToken /\ clock <= bearer.exp /\ bearer.aud = "api"
          /\ cookie.sub = "none"
      BY <1>5 DEF A!ScopedInstead, A!Scoped, A!NoToken
    <2>2. A!Lateness(bearer.sub) <= SessionLife + 2 * OAuthLife
      BY <1>3, <2>1 DEF Life
    <2>. HIDE DEF token, forged
    <2>3. /\ last'.way = "delegated" /\ last'.cookie = "none"
          /\ last'.late = A!Lateness(bearer.sub)
      BY <1>5, <2>1 DEF A!Served
    <2>4. A!ServedAsEntitled'
      BY <2>1, <2>2, <2>3 DEF A!ServedAsEntitled, A!DisabledSoonOut, A!CookieDecides
    <2>. QED  BY <1>2, <2>4 DEF TokenInv
  <1>. QED  BY <1>4, <1>5 DEF A!Request

\* A stream delivers until its token expires, and the clock waits for its end.
LEMMA StreamKeeps ==
  ASSUME TokenInv,
         \/ A!Deliver \/ A!CloseStream \/ A!Tick
         \/ \E t \in issued : A!OpenStream(t) \/ A!Discard(t)
  PROVE  TokenInv'
  <1>1. CASE A!Deliver
    <2>1. /\ UNCHANGED <<account, issued, stream, clock>> /\ stream # A!NoToken
          /\ A!Served("stream", stream.sub, stream, FALSE)
      BY <1>1 DEF A!Deliver
    <2>2. TokenTypes' /\ TokensAreDated'
      BY <2>1, SameTimes DEF TokenInv, TokenTypes, TokensAreDated
    <2>3. A!Lateness(stream.sub) <= SessionLife
      BY <2>1, NotLate DEF TokenInv, TokenTypes, TokensAreDated, Life
    <2>4. /\ last'.way = "stream" /\ last'.as = last'.cookie /\ last'.forged = FALSE
          /\ last'.late = A!Lateness(stream.sub)
      BY <2>1 DEF A!Served
    <2>5. A!ServedAsEntitled'
      BY <2>3, <2>4 DEF A!ServedAsEntitled, A!DisabledSoonOut, A!CookieDecides
    <2>. QED  BY <2>2, <2>5 DEF TokenInv
  <1>2. CASE A!CloseStream
    <2>1. UNCHANGED <<account, issued, clock>> /\ stream' = A!NoToken /\ A!Quiet
      BY <1>2 DEF A!CloseStream
    <2>2. TokenTypes' /\ TokensAreDated'
      BY <2>1, SameTimes DEF TokenInv, TokenTypes, TokensAreDated
    <2>. QED  BY <2>1, <2>2, QuietServes DEF TokenInv
  <1>3. CASE A!Tick
    <2>1. /\ UNCHANGED <<account, issued, stream>> /\ clock' = clock + 1 /\ clock \in Int
          /\ (stream = A!NoToken \/ clock < stream.exp) /\ A!Quiet
      BY <1>3 DEF A!Tick, A!NoneOverdue, TokenInv, TokenTypes
    <2>2. ASSUME NEW t \in TokenRow, Dated(t)
          PROVE  Dated(t)'
      <3>1. t.exp \in Int /\ Life(t.aud) \in Nat /\ Life(t.aud)' = Life(t.aud)
        BY LivesAssumption DEF TokenRow, Life
      <3>. HIDE DEF Life
      <3>. QED  BY <2>1, <2>2, <3>1 DEF Dated
    <2>3. stream # A!NoToken => clock' <= stream.exp
      BY <2>1 DEF TokenInv, TokenTypes, TokenRow
    <2>4. TokenTypes' /\ TokensAreDated'
      BY <2>1, <2>2, <2>3 DEF TokenInv, TokenTypes, TokensAreDated
    <2>. QED  BY <2>1, <2>4, QuietServes DEF TokenInv
  <1>4. ASSUME NEW t \in issued, A!OpenStream(t)
        PROVE  TokenInv'
    <2>1. /\ UNCHANGED <<account, issued, clock>> /\ stream' = t /\ A!Quiet
          /\ t.aud = "backoffice" /\ clock <= t.exp
      BY <1>4 DEF A!OpenStream, A!Authentic
    <2>2. TokenTypes' /\ TokensAreDated'
      BY <2>1, SameTimes DEF TokenInv, TokenTypes, TokensAreDated
    <2>. QED  BY <2>1, <2>2, QuietServes DEF TokenInv
  <1>5. ASSUME NEW t \in issued, A!Discard(t)
        PROVE  TokenInv'
    <2>1. UNCHANGED <<account, stream, clock>> /\ issued' = issued \ {t} /\ A!Quiet
      BY <1>5 DEF A!Discard
    <2>2. TokenTypes' /\ TokensAreDated'
      BY <2>1, SameTimes DEF TokenInv, TokenTypes, TokensAreDated
    <2>. QED  BY <2>1, <2>2, QuietServes DEF TokenInv
  <1>. QED  BY <1>1, <1>2, <1>3, <1>4, <1>5

\* verify_access_token, token_exchange, _operational_principal: with a cookie
\* one is served as its user, and nobody is served longer after being disabled
\* than the chain of tokens lives, whatever is exchanged, streamed or re-enabled.
THEOREM ServedAsEntitledHolds == A!TokenSpec => []ServedAsEntitled
  <1>1. ASSUME A!TokenInit
        PROVE  TokenInv
    <2>1. TokenTypes /\ TokensAreDated
      BY <1>1 DEF A!TokenInit, TokenTypes, TokensAreDated
    <2>2. A!ServedAsEntitled
      BY <1>1, LivesAssumption DEF A!TokenInit, A!Nobody, A!ServedAsEntitled, A!DisabledSoonOut,
         A!CookieDecides
    <2>. QED  BY <2>1, <2>2 DEF TokenInv
  <1>2. ASSUME TokenInv, [A!TokenNext]_A!tokenVars
        PROVE  TokenInv'
    <2>1. CASE UNCHANGED A!tokenVars
      <3>1. UNCHANGED <<account, issued, stream, last, clock>>
        BY <2>1 DEF A!tokenVars
      <3>2. TokenTypes' /\ TokensAreDated'
        BY <1>2, <3>1, SameTimes DEF TokenInv, TokenTypes, TokensAreDated
      <3>3. A!ServedAsEntitled'
        BY <1>2, <3>1 DEF TokenInv, A!ServedAsEntitled, A!DisabledSoonOut, A!CookieDecides
      <3>. QED  BY <3>2, <3>3 DEF TokenInv
    <2>. QED  BY <1>2, <2>1, UpdateStatusKeeps, ChangePasswordKeeps, BuildKeeps, ExchangeKeeps,
                 RequestKeeps, StreamKeeps DEF A!TokenNext
  <1>3. TokenInv => ServedAsEntitled
    BY DEF TokenInv, ServedAsEntitled
  <1>. QED  BY <1>1, <1>2, <1>3, PTL DEF A!TokenSpec

-----------------------------------------------------------------------------
(* Delegation.  A code is open only while nobody tried it, and consume     *)
(* burns it at the first attempt.                                          *)

CodeRow == [state: {"open", "used"}, client: Clients, user: Users, scopes: Asked,
            resource: D!Resources, tried: Nat, redeemed: Nat]

CodesBurn ==
  \A x \in Codes : code[x] # D!NoCode =>
    /\ code[x] \in CodeRow
    /\ code[x].state = "open" => code[x].tried = 0 /\ code[x].redeemed = 0
    /\ code[x].redeemed > 0 => code[x].tried = 1

CodeInv == code \in [Codes -> CodeRow \cup {D!NoCode}] /\ CodesBurn /\ D!ScopesNeverGrow

\* A step that edits one code and adds no token.
LEMMA OneCodeKeeps ==
  ASSUME CodeInv, NEW x \in Codes, NEW y \in CodeRow, code' = [code EXCEPT ![x] = y],
         y.state = "open" => y.tried = 0 /\ y.redeemed = 0,
         y.redeemed > 0 => y.tried = 1
  PROVE  code' \in [Codes -> CodeRow \cup {D!NoCode}] /\ CodesBurn'
  <1>1. /\ code' \in [Codes -> CodeRow \cup {D!NoCode}] /\ code'[x] = y
        /\ \A z \in Codes \ {x} : code'[z] = code[z]
    BY DEF CodeInv
  <1>. QED  BY <1>1 DEF CodeInv, CodesBurn

\* Every step keeps the codes burning and the scopes shrinking.
LEMMA DelegationStep ==
  ASSUME CodeInv, [D!Next]_D!vars
  PROVE  CodeInv'
  <1>0. ASSUME NEW x \in Codes, code[x].state = "open"
        PROVE  code[x] \in CodeRow /\ code[x].tried = 0 /\ code[x].redeemed = 0
    BY <1>0 DEF CodeInv, CodesBurn, D!NoCode
  <1>1. ASSUME NEW c \in Clients, NEW u \in Users, NEW scopes \in Asked,
               NEW resource \in D!Resources, NEW x \in Codes,
               D!Authorize(c, u, scopes, resource, x)
        PROVE  CodeInv'
    <2>. DEFINE y == D!NewCode(c, u, scopes, resource)
    <2>1. code' = [code EXCEPT ![x] = y] /\ UNCHANGED tokens
      BY <1>1 DEF D!Authorize
    <2>2. y \in CodeRow /\ y.tried = 0 /\ y.redeemed = 0 /\ ~(y.redeemed > 0)
      BY DEF D!NewCode, CodeRow
    <2>. HIDE DEF y
    <2>3. code' \in [Codes -> CodeRow \cup {D!NoCode}] /\ CodesBurn'
      BY <2>1, <2>2, OneCodeKeeps
    <2>. QED  BY <2>1, <2>3 DEF CodeInv, D!ScopesNeverGrow
  <1>2. ASSUME NEW t, tokens' = tokens \cup {t}, t.scopes \subseteq t.granted, t.sub = t.root
        PROVE  D!ScopesNeverGrow'
    BY <1>2 DEF CodeInv, D!ScopesNeverGrow
  <1>3. ASSUME NEW c \in Clients, NEW scopes \in Asked, NEW resource \in D!Resources,
               D!ClientCredentials(c, scopes, resource)
        PROVE  CodeInv'
    <2>1. tokens' = tokens \cup {D!Token(c, c, scopes, resource, c, scopes)} /\ UNCHANGED code
      BY <1>3 DEF D!ClientCredentials
    <2>2. D!ScopesNeverGrow'
      BY <1>2, <2>1 DEF D!Token
    <2>. QED  BY <2>1, <2>2 DEF CodeInv, CodesBurn
  <1>4. ASSUME NEW c \in Clients, NEW scopes \in Asked, NEW resource \in D!Resources,
               NEW source \in tokens \cup {D!SessionToken(u) : u \in Users},
               D!TokenExchange(c, source, scopes, resource)
        PROVE  CodeInv'
    <2>1. /\ tokens' = tokens \cup {D!Token(source.sub, c, scopes, resource, source.root,
                                            source.granted)}
          /\ UNCHANGED code /\ scopes \subseteq source.scopes
      BY <1>4 DEF D!TokenExchange, D!Exchangeable
    <2>2. source.scopes \subseteq source.granted /\ source.sub = source.root
      BY DEF CodeInv, D!ScopesNeverGrow, D!SessionToken, D!Token
    <2>3. D!ScopesNeverGrow'
      BY <1>2, <2>1, <2>2 DEF D!Token
    <2>. QED  BY <2>1, <2>3 DEF CodeInv, CodesBurn
  <1>5. ASSUME NEW c \in Clients, NEW x \in Codes, NEW matches \in BOOLEAN,
               D!ExchangeCode(c, x, matches)
        PROVE  CodeInv'
    <2>. DEFINE row == code[x]
                good == matches /\ row.client = c
                n == row.tried + 1
                m == IF good THEN row.redeemed + 1 ELSE row.redeemed
                y == [row EXCEPT !.state = "used", !.tried = n, !.redeemed = m]
    <2>1. row.state = "open" /\ row \in CodeRow
      BY <1>0, <1>5 DEF D!ExchangeCode
    <2>2. code' = [code EXCEPT ![x] = y]
      BY <1>5 DEF D!ExchangeCode, D!Burnt, CodeInv
    <2>3. n = 1 /\ m \in Nat
      BY <1>0, <2>1
    <2>4. y \in CodeRow /\ y.state = "used" /\ y.tried = n
      <3>. HIDE DEF n, m, row
      <3>. QED  BY <2>1, <2>3 DEF CodeRow
    <2>5. code' \in [Codes -> CodeRow \cup {D!NoCode}] /\ CodesBurn'
      <3>. HIDE DEF y
      <3>. QED  BY <2>2, <2>3, <2>4, OneCodeKeeps
    <2>6. \/ UNCHANGED tokens
          \/ tokens' = tokens \cup {D!Token(row.user, c, row.scopes, row.resource, row.user,
                                            row.scopes)}
      BY <1>5 DEF D!ExchangeCode
    <2>7. D!ScopesNeverGrow'
      <3>1. CASE UNCHANGED tokens
        BY <3>1 DEF CodeInv, D!ScopesNeverGrow
      <3>. QED  BY <1>2, <2>6, <3>1 DEF D!Token
    <2>. QED  BY <2>5, <2>7 DEF CodeInv
  <1>6. ASSUME NEW x \in Codes, D!CodeExpires(x)
        PROVE  CodeInv'
    <2>. DEFINE row == code[x]
                y == [row EXCEPT !.state = "used"]
    <2>1. row \in CodeRow /\ row.tried = 0 /\ row.redeemed = 0
      BY <1>0, <1>6 DEF D!CodeExpires
    <2>2. code' = [code EXCEPT ![x] = y] /\ UNCHANGED tokens
      BY <1>6 DEF D!CodeExpires, CodeInv
    <2>3. y \in CodeRow /\ y.tried = 0 /\ y.redeemed = 0 /\ ~(y.redeemed > 0)
      BY <2>1 DEF CodeRow
    <2>. HIDE DEF y, row
    <2>4. code' \in [Codes -> CodeRow \cup {D!NoCode}] /\ CodesBurn'
      BY <2>2, <2>3, OneCodeKeeps
    <2>. QED  BY <2>2, <2>4 DEF CodeInv, D!ScopesNeverGrow
  <1>7. CASE UNCHANGED D!vars
    BY <1>7 DEF D!vars, CodeInv, CodesBurn, D!ScopesNeverGrow
  <1>. QED  BY <1>1, <1>3, <1>4, <1>5, <1>6, <1>7 DEF D!Next

\* consume, token_exchange: whatever the clients register, a code yields at most
\* one token and none after a failed attempt, and along every chain of exchanges
\* a token allows no more than was consented to, to the person who consented.
THEOREM TokensAreEarnedHolds == D!Spec => []TokensAreEarned
  <1>1. ASSUME D!Init
        PROVE  CodeInv
    BY <1>1 DEF D!Init, CodeInv, CodesBurn, D!ScopesNeverGrow
  <1>2. CodeInv => TokensAreEarned
    BY DEF CodeInv, CodesBurn, TokensAreEarned, D!TokensAreEarned, D!OneTokenPerCode
  <1>. QED  BY <1>1, <1>2, DelegationStep, PTL DEF D!Spec

-----------------------------------------------------------------------------
(* Tool calls.  A call that writes is sent once: its only request is on    *)
(* the wire, was handled, or was lost.                                     *)

Writes  == {"create", "update"}
CallRow == [pc: {"ready", "waiting", "ok", "error"}, tool: {"check", "products"} \cup Writes,
            target: Tickets \cup {T!AnyTicket}, status: T!Statuses, attempt: Nat,
            sub: Users, for: Users]
Refusal == [pc |-> "refused"]
TicketRow == [status: T!Statuses, owner: Users, call: Calls, by: SUBSET Calls]

CallTypes ==
  /\ call \in [Calls -> CallRow \cup {T!NoCall, Refusal}]
  /\ wire \subseteq [call: Calls, attempt: Nat, locked: BOOLEAN]
  /\ ticket \in [Tickets -> TicketRow \cup {T!NoTicket}]

\* A call acts for its caller, and one that writes makes one attempt.
CallsOnce ==
  \A k \in Calls : call[k] \in CallRow =>
    /\ call[k].sub = call[k].for
    /\ call[k].tool = "update" => call[k].target \in Tickets
    /\ call[k].tool \in Writes => /\ call[k].attempt <= 1
                                  /\ call[k].pc = "ready" <=> call[k].attempt = 0

\* A request belongs to a call that sent it, and holds a row lock only for an
\* update that its caller may make.
RequestOnce(r) ==
  /\ call[r.call] \in CallRow /\ r.attempt > 0 /\ r.attempt <= call[r.call].attempt
  /\ r.locked => /\ call[r.call].tool = "update"
                 /\ ticket[call[r.call].target] # T!NoTicket
                 /\ \/ call[r.call].sub \in Admins
                    \/ ticket[call[r.call].target].owner = call[r.call].sub

WireOnce == \A r \in wire : RequestOnce(r)

\* A ticket that a call filed is the end of the call's only request.
FiledOnce(t) ==
  LET k == ticket[t].call IN
  /\ call[k] \in CallRow /\ call[k].tool = "create" /\ call[k].pc # "ready"
  /\ call[k].for = ticket[t].owner
  /\ \A r \in wire : r.call # k
  /\ \A c \in ticket[t].by : call[c] \in CallRow /\ call[c].for \in Admins \cup {ticket[t].owner}

TicketsOnce ==
  /\ \A t \in Tickets : ticket[t] # T!NoTicket => FiledOnce(t)
  /\ T!OneTicketPerCall

\* What a call reports as done is done.
DoneIsDone ==
  \A k \in Calls : call[k] \in CallRow /\ call[k].pc = "ok" =>
    /\ call[k].tool = "create" =>
         \E t \in Tickets : ticket[t] # T!NoTicket /\ ticket[t].call = k
    /\ call[k].tool = "update" =>
         ticket[call[k].target] # T!NoTicket /\ k \in ticket[call[k].target].by

CallInv == CallTypes /\ CallsOnce /\ WireOnce /\ TicketsOnce /\ DoneIsDone

\* What every step but a call and a send does to a call.
Carries(k) ==
  IF call[k] \in CallRow
  THEN /\ call'[k] \in CallRow /\ call'[k].tool = call[k].tool
       /\ call'[k].target = call[k].target /\ call'[k].status = call[k].status
       /\ call'[k].attempt = call[k].attempt /\ call'[k].sub = call[k].sub
       /\ call'[k].for = call[k].for
       /\ call[k].tool \in Writes => (call'[k].pc = "ready" <=> call[k].pc = "ready")
  ELSE call'[k] = call[k]

\* What every step does to a ticket.
Holds(t) ==
  ticket[t] # T!NoTicket =>
    /\ ticket'[t] # T!NoTicket /\ ticket'[t].owner = ticket[t].owner
    /\ ticket'[t].call = ticket[t].call /\ ticket[t].by \subseteq ticket'[t].by

\* The three shapes of a call are apart.
LEMMA CallShapes ==
  /\ T!NoCall \notin CallRow /\ Refusal \notin CallRow /\ T!NoTicket \notin TicketRow
  /\ \A x \in CallRow : x.pc \notin {"unused", "refused"}
  <1>1. /\ \A x \in CallRow : x.pc \notin {"unused", "refused"}
        /\ T!NoCall.pc = "unused" /\ Refusal.pc = "refused"
    BY DEF CallRow, T!NoCall, Refusal
  <1>2. (\A x \in TicketRow : x.status # "none") /\ T!NoTicket.status = "none"
    BY DEF TicketRow, T!NoTicket, T!Statuses
  <1>. QED  BY <1>1, <1>2

WithPc(k, p) == [call EXCEPT ![k].pc = p]

\* A new outcome of a call that waits.
LEMMA PcEdit ==
  ASSUME CallInv, NEW k \in Calls, call[k] \in CallRow, call[k].pc = "waiting",
         NEW p \in {"ready", "ok", "error"}, call' = WithPc(k, p),
         call[k].tool \in Writes => p # "ready"
  PROVE  /\ call' \in [Calls -> CallRow \cup {T!NoCall, Refusal}]
         /\ \A c \in Calls : Carries(c)
         /\ call'[k].pc = p /\ \A c \in Calls \ {k} : call'[c] = call[c]
  <1>. DEFINE x == call[k]
              y == [x EXCEPT !.pc = p]
  <1>1. call' = [call EXCEPT ![k] = y]
    BY DEF CallInv, CallTypes, WithPc
  <1>2. /\ y \in CallRow /\ y.pc = p /\ y.tool = x.tool /\ y.target = x.target
        /\ y.status = x.status /\ y.attempt = x.attempt /\ y.sub = x.sub /\ y.for = x.for
    BY DEF CallRow
  <1>. HIDE DEF y
  <1>3. /\ call' \in [Calls -> CallRow \cup {T!NoCall, Refusal}] /\ call'[k] = y
        /\ \A c \in Calls \ {k} : call'[c] = call[c]
    BY <1>1, <1>2 DEF CallInv, CallTypes
  <1>4. Carries(k)
    BY <1>2, <1>3 DEF Carries
  <1>5. \A c \in Calls \ {k} : Carries(c)
    BY <1>3 DEF Carries
  <1>. QED  BY <1>2, <1>3, <1>4, <1>5

\* A call that writes and waits has spent its attempt: nothing sends it again.
LEMMA RetrySpent ==
  ASSUME CallInv, NEW k \in Calls, call[k] \in CallRow, call[k].pc = "waiting",
         NEW outcome \in {"ok", "error"}
  PROVE  /\ T!RetryOr(k, outcome) \in {"ready", outcome}
         /\ call[k].tool \in Writes => T!RetryOr(k, outcome) = outcome
  <1>1. T!RetryOr(k, outcome) \in {"ready", outcome}
    BY DEF T!RetryOr
  <1>2. ASSUME call[k].tool \in Writes
        PROVE  T!RetryOr(k, outcome) = outcome
    <2>1. call[k].attempt = 1
      BY <1>2 DEF CallInv, CallsOnce, CallRow
    <2>2. T!Attempts(call[k].tool) = 1
      BY <1>2 DEF T!Attempts, Writes
    <2>. QED  BY <2>1, <2>2 DEF T!RetryOr
  <1>. QED  BY <1>1, <1>2

\* An answer ends the attempt that waits for it, or changes no call.
LEMMA AnswerCarries ==
  ASSUME CallInv, NEW r \in wire, NEW http \in {200, 403, 404, 503}, T!Answer(r, http)
  PROVE  /\ wire' = wire \ {r}
         /\ call' \in [Calls -> CallRow \cup {T!NoCall, Refusal}]
         /\ \A c \in Calls : Carries(c)
         /\ \A c \in Calls : call[c] \in CallRow /\ call'[c].pc = "ok" =>
              call[c].pc = "ok" \/ (c = r.call /\ http = 200)
  <1>. DEFINE k == r.call
  <1>1. k \in Calls /\ call[k] \in CallRow /\ wire' = wire \ {r}
    BY DEF CallInv, CallTypes, WireOnce, RequestOnce, T!Answer
  <1>2. CASE call[k].pc = "waiting" /\ call' = [call EXCEPT ![k].pc = T!Outcome(k, http)]
    <2>1. PICK p \in {"ready", "ok", "error"} :
            /\ call' = WithPc(k, p) /\ (p = "ok" => http = 200)
            /\ call[k].tool \in Writes => p # "ready"
      <3>1. call' = WithPc(k, T!Outcome(k, http))
        BY <1>2 DEF WithPc
      <3>2. PICK p : p = T!Outcome(k, http)
        OBVIOUS
      <3>3. T!RetryOr(k, "error") \in {"ready", "error"}
        BY <1>1, <1>2, RetrySpent
      <3>4. call[k].tool \in Writes => T!RetryOr(k, "error") = "error"
        BY <1>1, <1>2, RetrySpent
      <3>5. /\ p \in {"ready", "ok", "error"} /\ (p = "ok" => http = 200)
            /\ call[k].tool \in Writes => p # "ready"
        BY <3>2, <3>3, <3>4 DEF T!Outcome
      <3>. QED  BY <3>1, <3>2, <3>5
    <2>2. /\ call' \in [Calls -> CallRow \cup {T!NoCall, Refusal}]
          /\ \A c \in Calls : Carries(c)
          /\ call'[k].pc = p /\ \A c \in Calls \ {k} : call'[c] = call[c]
      BY <1>1, <1>2, <2>1, PcEdit
    <2>. QED  BY <1>1, <2>1, <2>2
  <1>3. CASE UNCHANGED call
    BY <1>1, <1>3 DEF Carries, CallInv, CallTypes
  <1>. QED  BY <1>2, <1>3 DEF T!Answer

\* Calls that carry on and tickets that hold keep the invariant, when requests
\* only leave the wire, the callers who change a ticket may, and every new
\* success of a write is an update that was made.
LEMMA HeldKeeps ==
  ASSUME CallInv, call' \in [Calls -> CallRow \cup {T!NoCall, Refusal}],
         \A c \in Calls : Carries(c), wire' \subseteq wire,
         ticket' \in [Tickets -> TicketRow \cup {T!NoTicket}], \A t \in Tickets : Holds(t),
         \A t \in Tickets : ticket[t] = T!NoTicket => ticket'[t] = T!NoTicket,
         \A t \in Tickets : ticket[t] # T!NoTicket =>
           \A c \in ticket'[t].by \ ticket[t].by :
             call[c] \in CallRow /\ call[c].for \in Admins \cup {ticket[t].owner},
         \A c \in Calls : call[c] \in CallRow /\ call'[c].pc = "ok" =>
           \/ call[c].pc = "ok" \/ call[c].tool \notin Writes
           \/ /\ call[c].tool = "update" /\ ticket'[call[c].target] # T!NoTicket
              /\ c \in ticket'[call[c].target].by
  PROVE  CallInv'
  <1>0. /\ \A c \in Calls : call'[c] \in CallRow <=> call[c] \in CallRow
        /\ wire \subseteq [call: Calls, attempt: Nat, locked: BOOLEAN]
        /\ ticket \in [Tickets -> TicketRow \cup {T!NoTicket}]
    BY DEF Carries, CallInv, CallTypes
  <1>1. CallTypes'
    BY DEF CallInv, CallTypes
  <1>2. CallsOnce'
    BY <1>0 DEF CallInv, CallsOnce, Carries
  <1>3. ASSUME NEW r \in wire
        PROVE  RequestOnce(r)'
    <2>1. RequestOnce(r) /\ r.call \in Calls
      BY <1>0 DEF CallInv, WireOnce
    <2>2. call[r.call].tool = "update" => call[r.call].target \in Tickets
      BY <2>1 DEF CallInv, CallsOnce, RequestOnce
    <2>. QED  BY <1>0, <2>1, <2>2 DEF RequestOnce, Carries, Holds
  <1>4. ASSUME NEW t \in Tickets, ticket[t] # T!NoTicket
        PROVE  FiledOnce(t)'
    <2>1. FiledOnce(t) /\ ticket[t] \in TicketRow /\ Holds(t) /\ ticket'[t] \in TicketRow
      BY <1>0, <1>4 DEF CallInv, TicketsOnce, Holds
    <2>2. ticket[t].call \in Calls /\ ticket[t].by \subseteq Calls /\ ticket'[t].by \subseteq Calls
      BY <2>1 DEF TicketRow
    <2>3. ticket'[t].call = ticket[t].call /\ ticket'[t].owner = ticket[t].owner
      BY <1>4, <2>1 DEF Holds
    <2>4. \A c \in ticket'[t].by :
            call[c] \in CallRow /\ call[c].for \in Admins \cup {ticket[t].owner}
      BY <1>4, <2>1 DEF FiledOnce
    <2>5. \A c \in ticket'[t].by :
            call'[c] \in CallRow /\ call'[c].for \in Admins \cup {ticket'[t].owner}
      BY <2>2, <2>3, <2>4 DEF Carries
    <2>. QED  BY <1>0, <2>1, <2>2, <2>3, <2>5 DEF FiledOnce, Carries, Writes
  <1>5. TicketsOnce'
    BY <1>4 DEF CallInv, TicketsOnce, T!OneTicketPerCall, T!Filed, Holds
  <1>6. ASSUME NEW c \in Calls, call'[c] \in CallRow, call'[c].pc = "ok"
        PROVE  /\ call'[c].tool = "create" =>
                    \E t \in Tickets : ticket'[t] # T!NoTicket /\ ticket'[t].call = c
               /\ call'[c].tool = "update" =>
                    ticket'[call'[c].target] # T!NoTicket /\ c \in ticket'[call'[c].target].by
    <2>1. call[c] \in CallRow /\ call'[c].tool = call[c].tool /\ call'[c].target = call[c].target
      BY <1>0, <1>6 DEF Carries
    <2>2. call[c].tool = "update" => call[c].target \in Tickets
      BY <2>1 DEF CallInv, CallsOnce
    <2>. QED  BY <1>6, <2>1, <2>2 DEF CallInv, DoneIsDone, Holds, Writes
  <1>7. DoneIsDone'
    BY <1>6 DEF DoneIsDone
  <1>8. WireOnce'
    BY <1>3 DEF WireOnce
  <1>. QED  BY <1>1, <1>2, <1>5, <1>7, <1>8 DEF CallInv

\* The same where no ticket changes.
LEMMA CarriesKeeps ==
  ASSUME CallInv, call' \in [Calls -> CallRow \cup {T!NoCall, Refusal}],
         \A c \in Calls : Carries(c), wire' \subseteq wire, UNCHANGED ticket,
         \A c \in Calls : call[c] \in CallRow /\ call'[c].pc = "ok" =>
           call[c].pc = "ok" \/ call[c].tool \notin Writes
  PROVE  CallInv'
  <1>1. ticket' \in [Tickets -> TicketRow \cup {T!NoTicket}] /\ \A t \in Tickets : Holds(t)
    BY DEF CallInv, CallTypes, Holds
  <1>. QED  BY <1>1, HeldKeeps

\* Invoke starts a call that nobody has seen yet.
LEMMA InvokeStep ==
  ASSUME CallInv, NEW k \in Calls, NEW q \in T!Requests, NEW u \in Users, NEW scopes,
         T!Invoke(k, q, u, scopes)
  PROVE  CallInv'
  <1>. DEFINE go == [pc |-> "ready", tool |-> q.tool, target |-> q.target, status |-> q.status,
                     attempt |-> 0, sub |-> u, for |-> u]
  <1>1. call[k] = T!NoCall /\ UNCHANGED <<wire, ticket>>
    BY DEF T!Invoke
  <1>2. /\ q.tool \in {"create", "products", "stock_write", "check", "update"}
        /\ q.target \in Tickets \cup {T!AnyTicket} /\ q.status \in T!Statuses
        /\ q.tool = "update" => q.target \in Tickets
    BY DEF T!Requests, T!Statuses
  <1>3. PICK y : /\ call' = [call EXCEPT ![k] = y]
                 /\ y = Refusal \/ (y = go /\ q.tool # "stock_write")
    BY DEF T!Invoke, T!Subject, Refusal
  <1>4. y # Refusal =>
          /\ y \in CallRow /\ y.sub = y.for /\ y.pc = "ready" /\ y.attempt = 0
          /\ y.tool = "update" => y.target \in Tickets
    BY <1>2, <1>3 DEF CallRow, Writes
  <1>. HIDE DEF go
  <1>5. /\ call' \in [Calls -> CallRow \cup {T!NoCall, Refusal}] /\ call'[k] = y
        /\ \A c \in Calls \ {k} : call'[c] = call[c]
        /\ call[k] \notin CallRow
    BY <1>1, <1>3, <1>4, CallShapes DEF CallInv, CallTypes
  <1>6. CallTypes'
    BY <1>1, <1>5 DEF CallInv, CallTypes
  <1>7. CallsOnce'
    BY <1>4, <1>5, CallShapes DEF CallInv, CallsOnce
  <1>8. WireOnce'
    <2>1. \A r \in wire : r.call \in Calls
      BY DEF CallInv, CallTypes
    <2>. QED  BY <1>1, <1>5, <2>1 DEF CallInv, WireOnce, RequestOnce
  <1>9. ASSUME NEW t \in Tickets, ticket[t] # T!NoTicket
        PROVE  FiledOnce(t)'
    <2>1. FiledOnce(t) /\ ticket[t] \in TicketRow
      BY <1>9 DEF CallInv, CallTypes, TicketsOnce
    <2>2. ticket[t].call \in Calls /\ ticket[t].by \subseteq Calls
      BY <2>1 DEF TicketRow
    <2>. QED  BY <1>1, <1>5, <2>1, <2>2 DEF FiledOnce
  <1>10. TicketsOnce'
    BY <1>1, <1>9 DEF CallInv, TicketsOnce, T!OneTicketPerCall, T!Filed
  <1>11. DoneIsDone'
    BY <1>1, <1>4, <1>5, CallShapes DEF CallInv, DoneIsDone
  <1>. QED  BY <1>6, <1>7, <1>8, <1>10, <1>11 DEF CallInv

\* Send puts the request of the next attempt on the wire.
LEMMA SendStep ==
  ASSUME CallInv, NEW k \in Calls, T!Send(k)
  PROVE  CallInv'
  <1>. DEFINE x == call[k]
              n == x.attempt + 1
              y == [x EXCEPT !.pc = "waiting", !.attempt = n]
              new == [call |-> k, attempt |-> n, locked |-> FALSE]
  <1>1. x.pc = "ready" /\ x \in CallRow
    BY DEF T!Send, CallInv, CallTypes, T!NoCall, Refusal
  <1>2. n \in Nat /\ n > 0 /\ n >= x.attempt /\ (x.attempt = 0 => n = 1)
    BY <1>1 DEF CallRow
  <1>3. call' = [call EXCEPT ![k] = y] /\ wire' = wire \cup {new} /\ UNCHANGED ticket
    BY DEF T!Send, CallInv, CallTypes
  <1>4. x.tool \in Writes => x.attempt = 0
    BY <1>1 DEF CallInv, CallsOnce
  <1>5. CallsOnce => x.sub = x.for /\ (x.tool = "update" => x.target \in Tickets)
    BY <1>1 DEF CallsOnce
  <1>. HIDE DEF n
  <1>6. /\ y \in CallRow /\ y.pc = "waiting" /\ y.attempt = n /\ y.tool = x.tool
        /\ y.target = x.target /\ y.sub = x.sub /\ y.for = x.for
    BY <1>1, <1>2 DEF CallRow
  <1>7. /\ new \in [call: Calls, attempt: Nat, locked: BOOLEAN] /\ new.call = k
        /\ new.attempt = n /\ new.locked = FALSE
    BY <1>2
  <1>. HIDE DEF y, new
  <1>8. /\ call' \in [Calls -> CallRow \cup {T!NoCall, Refusal}] /\ call'[k] = y
        /\ \A c \in Calls \ {k} : call'[c] = call[c]
    BY <1>3, <1>6 DEF CallInv, CallTypes
  <1>9. CallTypes'
    BY <1>3, <1>7, <1>8 DEF CallInv, CallTypes
  <1>10. CallsOnce'
    <2>1. /\ y.sub = y.for /\ (y.tool = "update" => y.target \in Tickets)
          /\ y.tool \in Writes => y.attempt = 1
      BY <1>2, <1>4, <1>5, <1>6 DEF CallInv
    <2>. QED  BY <1>6, <1>8, <2>1 DEF CallInv, CallsOnce
  <1>11. WireOnce'
    <2>1. ASSUME NEW r \in wire
          PROVE  RequestOnce(r)'
      <3>1. r.call \in Calls /\ r.attempt \in Nat /\ RequestOnce(r)
        BY DEF CallInv, CallTypes, WireOnce
      <3>2. CASE r.call # k
        BY <1>3, <1>8, <3>1, <3>2 DEF RequestOnce
      <3>3. CASE r.call = k
        <4>1. x.attempt \in Nat /\ r.attempt <= n
          BY <1>1, <1>2, <3>1, <3>3 DEF RequestOnce, CallRow
        <4>. QED  BY <1>3, <1>6, <1>8, <3>1, <3>3, <4>1 DEF RequestOnce
      <3>. QED  BY <3>2, <3>3
    <2>2. ASSUME NEW r, r = new
          PROVE  RequestOnce(r)'
      BY <1>2, <1>6, <1>7, <1>8, <2>2 DEF RequestOnce
    <2>. QED  BY <1>3, <2>1, <2>2 DEF WireOnce
  <1>12. ASSUME NEW t \in Tickets, ticket[t] # T!NoTicket
         PROVE  FiledOnce(t)'
    <2>1. FiledOnce(t) /\ ticket[t] \in TicketRow
      BY <1>12 DEF CallInv, CallTypes, TicketsOnce
    <2>2. ticket[t].call \in Calls /\ ticket[t].by \subseteq Calls /\ ticket[t].call # k
      BY <1>1, <2>1 DEF TicketRow, FiledOnce
    <2>. QED  BY <1>3, <1>6, <1>7, <1>8, <1>1, <2>1, <2>2 DEF FiledOnce
  <1>13. TicketsOnce'
    BY <1>3, <1>12 DEF CallInv, TicketsOnce, T!OneTicketPerCall, T!Filed
  <1>14. DoneIsDone'
    BY <1>3, <1>6, <1>8 DEF CallInv, DoneIsDone
  <1>. QED  BY <1>9, <1>10, <1>11, <1>13, <1>14 DEF CallInv

\* A connection that breaks, a request or an answer that is lost, a database
\* that fails, a read: no ticket changes, and no write is reported as done.
LEMMA UnwrittenStep ==
  ASSUME CallInv,
         \/ \E k \in Calls : T!Disconnected(k)
         \/ \E r \in wire : T!Lost(r) \/ T!DatabaseFails(r) \/ T!Read(r)
  PROVE  CallInv'
  <1>1. ASSUME NEW k \in Calls, T!Disconnected(k)
        PROVE  CallInv'
    <2>1. call[k].pc = "waiting" /\ call[k] \in CallRow /\ UNCHANGED <<wire, ticket>>
      BY <1>1 DEF T!Disconnected, CallInv, CallTypes, T!NoCall, Refusal
    <2>2. PICK p : call' = WithPc(k, p) /\ p \in {T!RetryOr(k, "error"), "error"}
      BY <1>1 DEF T!Disconnected, WithPc
    <2>3. p \in {"ready", "error"} /\ (call[k].tool \in Writes => p # "ready")
      BY <2>1, <2>2, RetrySpent
    <2>4. /\ call' \in [Calls -> CallRow \cup {T!NoCall, Refusal}]
          /\ \A c \in Calls : Carries(c)
          /\ call'[k].pc = p /\ \A c \in Calls \ {k} : call'[c] = call[c]
      BY <2>1, <2>2, <2>3, PcEdit
    <2>. QED  BY <2>1, <2>3, <2>4, CarriesKeeps
  <1>2. ASSUME NEW r \in wire, T!Lost(r)
        PROVE  CallInv'
    <2>1. wire' \subseteq wire /\ UNCHANGED <<call, ticket>>
      BY <1>2 DEF T!Lost
    <2>2. (\A c \in Calls : Carries(c)) /\ call' \in [Calls -> CallRow \cup {T!NoCall, Refusal}]
      BY <2>1 DEF Carries, CallInv, CallTypes
    <2>. QED  BY <2>1, <2>2, CarriesKeeps
  <1>3. ASSUME NEW r \in wire, T!DatabaseFails(r)
        PROVE  CallInv'
    <2>1. T!Answer(r, 503) /\ UNCHANGED ticket
      BY <1>3 DEF T!DatabaseFails
    <2>. QED  BY <2>1, AnswerCarries, CarriesKeeps
  <1>4. ASSUME NEW r \in wire, T!Read(r)
        PROVE  CallInv'
    <2>1. PICK http \in {200, 403, 404} : T!Answer(r, http)
      BY <1>4 DEF T!Read
    <2>2. UNCHANGED ticket /\ call[r.call].tool \notin Writes
      BY <1>4 DEF T!Read, Writes
    <2>3. /\ wire' = wire \ {r}
          /\ call' \in [Calls -> CallRow \cup {T!NoCall, Refusal}]
          /\ \A c \in Calls : Carries(c)
          /\ \A c \in Calls : call[c] \in CallRow /\ call'[c].pc = "ok" =>
               call[c].pc = "ok" \/ c = r.call
      BY <2>1, AnswerCarries
    <2>. QED  BY <2>2, <2>3, CarriesKeeps
  <1>. QED  BY <1>1, <1>2, <1>3, <1>4

\* update_status locks the row of a caller who may change it, or answers.
LEMMA LockStep ==
  ASSUME CallInv, NEW r \in wire, T!LockAndCheck(r)
  PROVE  CallInv'
  <1>. DEFINE k == call[r.call]
              new == [r EXCEPT !.locked = TRUE]
  <1>1. UNCHANGED ticket /\ k.tool = "update"
    BY DEF T!LockAndCheck
  <1>2. CASE /\ ticket[k.target] # T!NoTicket /\ T!Authorized(k, k.target)
             /\ wire' = (wire \ {r}) \cup {new} /\ UNCHANGED call
    <2>1. r \in [call: Calls, attempt: Nat, locked: BOOLEAN] /\ RequestOnce(r)
      BY DEF CallInv, CallTypes, WireOnce
    <2>2. /\ new \in [call: Calls, attempt: Nat, locked: BOOLEAN] /\ new.call = r.call
          /\ new.attempt = r.attempt
      BY <2>1
    <2>. HIDE DEF new
    <2>3. CallTypes'
      BY <1>1, <1>2, <2>2 DEF CallInv, CallTypes
    <2>4. CallsOnce' /\ DoneIsDone'
      BY <1>1, <1>2 DEF CallInv, CallsOnce, DoneIsDone
    <2>5. ASSUME NEW q, q = new
          PROVE  RequestOnce(q)'
      BY <1>1, <1>2, <2>1, <2>2, <2>5 DEF RequestOnce, T!Authorized
    <2>6. ASSUME NEW q \in wire
          PROVE  RequestOnce(q)'
      BY <1>1, <1>2 DEF CallInv, WireOnce, RequestOnce
    <2>7. WireOnce'
      BY <1>2, <2>5, <2>6 DEF WireOnce
    <2>8. \A q \in wire' : \E p \in wire : q.call = p.call
      BY <1>2, <2>2
    <2>9. ASSUME NEW t \in Tickets, ticket[t] # T!NoTicket
          PROVE  FiledOnce(t)'
      <3>1. FiledOnce(t)
        BY <2>9 DEF CallInv, TicketsOnce
      <3>. QED  BY <1>1, <1>2, <2>8, <3>1 DEF FiledOnce
    <2>10. TicketsOnce'
      BY <1>1, <2>9 DEF CallInv, TicketsOnce, T!OneTicketPerCall, T!Filed
    <2>. QED  BY <2>3, <2>4, <2>7, <2>10 DEF CallInv
  <1>3. CASE T!Answer(r, 404) \/ T!Answer(r, 403)
    <2>1. PICK http \in {404, 403} : T!Answer(r, http)
      BY <1>3
    <2>2. /\ wire' = wire \ {r}
          /\ call' \in [Calls -> CallRow \cup {T!NoCall, Refusal}]
          /\ \A c \in Calls : Carries(c)
          /\ \A c \in Calls : call[c] \in CallRow /\ call'[c].pc = "ok" => call[c].pc = "ok"
      BY <2>1, AnswerCarries
    <2>. QED  BY <1>1, <2>2, CarriesKeeps
  <1>. QED  BY <1>2, <1>3 DEF T!LockAndCheck

\* update_status writes the ticket under its lock and answers.
LEMMA CommitStep ==
  ASSUME CallInv, NEW r \in wire, T!CommitUpdate(r)
  PROVE  CallInv'
  <1>. DEFINE k == call[r.call]
              t == k.target
              old == ticket[t]
              y == [old EXCEPT !.status = k.status, !.by = @ \cup {r.call}]
  <1>1. /\ r.call \in Calls /\ k \in CallRow /\ k.tool = "update" /\ old # T!NoTicket
        /\ k.sub \in Admins \/ old.owner = k.sub
    BY DEF CallInv, CallTypes, WireOnce, RequestOnce, T!CommitUpdate
  <1>2. t \in Tickets /\ k.sub = k.for
    BY <1>1 DEF CallInv, CallsOnce
  <1>3. old \in TicketRow
    BY <1>1, <1>2 DEF CallInv, CallTypes
  <1>4. k.status \in T!Statuses
    BY <1>1 DEF CallRow
  <1>5. y \in TicketRow /\ y.owner = old.owner /\ y.call = old.call /\ y.by = old.by \cup {r.call}
    BY <1>1, <1>3, <1>4 DEF TicketRow
  <1>6. ticket' = [ticket EXCEPT ![t] = y]
    BY <1>2 DEF T!CommitUpdate, CallInv, CallTypes
  <1>7. /\ wire' = wire \ {r}
        /\ call' \in [Calls -> CallRow \cup {T!NoCall, Refusal}]
        /\ \A c \in Calls : Carries(c)
        /\ \A c \in Calls : call[c] \in CallRow /\ call'[c].pc = "ok" =>
             call[c].pc = "ok" \/ c = r.call
    BY AnswerCarries DEF T!CommitUpdate
  <1>. HIDE DEF y
  <1>8. /\ ticket' \in [Tickets -> TicketRow \cup {T!NoTicket}] /\ ticket'[t] = y
        /\ \A u \in Tickets \ {t} : ticket'[u] = ticket[u]
    BY <1>2, <1>5, <1>6 DEF CallInv, CallTypes
  <1>9. y # T!NoTicket
    BY <1>5, CallShapes
  <1>. HIDE DEF t, k
  <1>10. /\ \A u \in Tickets : Holds(u)
         /\ \A u \in Tickets : ticket[u] = T!NoTicket => ticket'[u] = T!NoTicket
    BY <1>1, <1>2, <1>5, <1>8, <1>9 DEF Holds
  <1>11. \A u \in Tickets : ticket[u] # T!NoTicket =>
           \A c \in ticket'[u].by \ ticket[u].by :
             call[c] \in CallRow /\ call[c].for \in Admins \cup {ticket[u].owner}
    <2>1. call[r.call] \in CallRow /\ call[r.call].for \in Admins \cup {old.owner}
      BY <1>1, <1>2 DEF k
    <2>. QED  BY <1>5, <1>8, <2>1
  <1>12. \A c \in Calls : call[c] \in CallRow /\ call'[c].pc = "ok" =>
           \/ call[c].pc = "ok" \/ call[c].tool \notin Writes
           \/ /\ call[c].tool = "update" /\ ticket'[call[c].target] # T!NoTicket
              /\ c \in ticket'[call[c].target].by
    BY <1>1, <1>5, <1>7, <1>8, <1>9 DEF k, t
  <1>. QED  BY <1>7, <1>8, <1>10, <1>11, <1>12, HeldKeeps

\* A Back Office user moves a ticket: its owner and its calls stay.
LEMMA BackOfficeStep ==
  ASSUME CallInv, NEW t \in Tickets, NEW status \in T!Statuses, T!BackOfficeUpdate(t, status)
  PROVE  CallInv'
  <1>. DEFINE old == ticket[t]
              y == [old EXCEPT !.status = status]
  <1>1. old \in TicketRow /\ UNCHANGED <<call, wire>> /\ ticket' = [ticket EXCEPT ![t] = y]
    BY DEF T!BackOfficeUpdate, CallInv, CallTypes
  <1>2. y \in TicketRow /\ y.owner = old.owner /\ y.call = old.call /\ y.by = old.by
    BY <1>1 DEF TicketRow
  <1>. HIDE DEF y
  <1>3. /\ ticket' \in [Tickets -> TicketRow \cup {T!NoTicket}] /\ ticket'[t] = y
        /\ \A u \in Tickets \ {t} : ticket'[u] = ticket[u]
    BY <1>1, <1>2 DEF CallInv, CallTypes
  <1>4. y # T!NoTicket /\ old # T!NoTicket
    BY <1>1, <1>2, CallShapes
  <1>5. /\ \A u \in Tickets : Holds(u)
        /\ \A u \in Tickets : ticket[u] = T!NoTicket => ticket'[u] = T!NoTicket
    BY <1>2, <1>3, <1>4 DEF Holds
  <1>6. (\A c \in Calls : Carries(c)) /\ call' \in [Calls -> CallRow \cup {T!NoCall, Refusal}]
    BY <1>1 DEF Carries, CallInv, CallTypes
  <1>7. \A u \in Tickets : ticket'[u].by = ticket[u].by
    BY <1>2, <1>3
  <1>. QED  BY <1>1, <1>3, <1>5, <1>6, <1>7, HeldKeeps

\* create files a ticket for the only request its call ever sends.
LEMMA CreateStep ==
  ASSUME CallInv, NEW r \in wire, NEW t \in Tickets, T!Create(r, t)
  PROVE  CallInv'
  <1>. DEFINE c == r.call
              k == call[c]
              y == [status |-> "open", owner |-> k.sub, call |-> c, by |-> {}]
  <1>1. /\ c \in Calls /\ k \in CallRow /\ k.tool = "create" /\ ticket[t] = T!NoTicket
        /\ r.attempt = 1 /\ ~r.locked /\ k.attempt = 1 /\ k.pc # "ready" /\ k.sub = k.for
        /\ r \in [call: Calls, attempt: Nat, locked: BOOLEAN]
    <2>1. /\ c \in Calls /\ RequestOnce(r) /\ r \in [call: Calls, attempt: Nat, locked: BOOLEAN]
          /\ k.tool = "create" /\ ticket[t] = T!NoTicket
      BY DEF CallInv, CallTypes, WireOnce, T!Create
    <2>2. k \in CallRow /\ r.attempt > 0 /\ r.attempt <= k.attempt /\ ~r.locked
      BY <2>1 DEF RequestOnce
    <2>3. k.attempt <= 1 /\ (k.pc = "ready" <=> k.attempt = 0) /\ k.sub = k.for
      BY <2>1, <2>2 DEF CallInv, CallsOnce, Writes
    <2>4. k.attempt \in Nat /\ r.attempt \in Nat
      BY <2>1, <2>2 DEF CallRow
    <2>. QED  BY <2>1, <2>2, <2>3, <2>4
  <1>2. ASSUME NEW q \in wire, q.call = c
        PROVE  q = r
    <2>1. RequestOnce(q) /\ q \in [call: Calls, attempt: Nat, locked: BOOLEAN]
      BY DEF CallInv, CallTypes, WireOnce
    <2>2. q.attempt = 1 /\ ~q.locked
      BY <1>1, <1>2, <2>1 DEF RequestOnce
    <2>. QED  BY <1>1, <1>2, <2>1, <2>2
  <1>3. ASSUME NEW u \in Tickets, ticket[u] # T!NoTicket
        PROVE  ticket[u].call # c
    <2>1. FiledOnce(u)
      BY <1>3 DEF CallInv, TicketsOnce
    <2>. QED  BY <2>1 DEF FiledOnce
  <1>4. /\ y \in TicketRow /\ y.owner = k.sub /\ y.call = c /\ y.by = {} /\ k.sub \in Users
    BY <1>1 DEF TicketRow, T!Statuses, CallRow
  <1>5. ticket' = [ticket EXCEPT ![t] = y] /\ T!Answer(r, 200)
    BY DEF T!Create
  <1>6. /\ wire' = wire \ {r}
        /\ call' \in [Calls -> CallRow \cup {T!NoCall, Refusal}]
        /\ \A d \in Calls : Carries(d)
        /\ \A d \in Calls : call[d] \in CallRow /\ call'[d].pc = "ok" =>
             call[d].pc = "ok" \/ d = c
    BY <1>5, AnswerCarries
  <1>. HIDE DEF y, k, c
  <1>7. /\ ticket' \in [Tickets -> TicketRow \cup {T!NoTicket}] /\ ticket'[t] = y
        /\ \A u \in Tickets \ {t} : ticket'[u] = ticket[u]
    BY <1>4, <1>5 DEF CallInv, CallTypes
  <1>8. y # T!NoTicket /\ \A d \in Calls : call'[d] \in CallRow <=> call[d] \in CallRow
    BY <1>4, <1>6, CallShapes DEF Carries
  <1>9. CallTypes'
    BY <1>6, <1>7 DEF CallInv, CallTypes
  <1>10. CallsOnce'
    BY <1>6, <1>8 DEF CallInv, CallsOnce, Carries
  <1>11. ASSUME NEW q \in wire
         PROVE  RequestOnce(q)'
    <2>1. RequestOnce(q) /\ q.call \in Calls
      BY DEF CallInv, CallTypes, WireOnce
    <2>2. call[q.call].tool = "update" => call[q.call].target \in Tickets
      BY <2>1 DEF CallInv, CallsOnce, RequestOnce
    <2>. QED  BY <1>1, <1>6, <1>7, <1>8, <2>1, <2>2 DEF RequestOnce, Carries
  <1>12. WireOnce'
    BY <1>6, <1>11 DEF WireOnce
  <1>13. /\ call'[c] \in CallRow /\ call'[c].tool = "create" /\ call'[c].pc # "ready"
         /\ call'[c].for = y.owner
    BY <1>1, <1>4, <1>6 DEF Carries, Writes, k
  <1>14. \A q \in wire' : q.call # c
    BY <1>2, <1>6
  <1>15. ASSUME NEW u \in Tickets, ticket'[u] # T!NoTicket
         PROVE  FiledOnce(u)'
    <2>1. CASE u = t
      BY <1>4, <1>7, <1>13, <1>14, <2>1 DEF FiledOnce
    <2>2. CASE u # t
      <3>1. FiledOnce(u) /\ ticket[u] \in TicketRow /\ ticket'[u] = ticket[u]
        BY <1>7, <1>15, <2>2 DEF CallInv, CallTypes, TicketsOnce
      <3>2. ticket[u].call \in Calls /\ ticket[u].by \subseteq Calls
        BY <3>1 DEF TicketRow
      <3>. QED  BY <1>6, <1>8, <3>1, <3>2 DEF FiledOnce, Carries, Writes
    <2>. QED  BY <2>1, <2>2
  <1>16. TicketsOnce'
    BY <1>3, <1>4, <1>7, <1>15 DEF CallInv, TicketsOnce, T!OneTicketPerCall, T!Filed
  <1>17. DoneIsDone'
    <2>1. ASSUME NEW d \in Calls, call'[d] \in CallRow, call'[d].pc = "ok"
          PROVE  /\ call'[d].tool = "create" =>
                      \E u \in Tickets : ticket'[u] # T!NoTicket /\ ticket'[u].call = d
                 /\ call'[d].tool = "update" =>
                      ticket'[call'[d].target] # T!NoTicket /\ d \in ticket'[call'[d].target].by
      <3>1. CASE d = c
        BY <1>4, <1>7, <1>8, <1>13, <3>1
      <3>2. CASE d # c
        <4>1. /\ call[d] \in CallRow /\ call[d].pc = "ok" /\ call'[d].tool = call[d].tool
              /\ call'[d].target = call[d].target
          BY <1>6, <1>8, <2>1, <3>2 DEF Carries
        <4>2. call[d].tool = "update" => call[d].target \in Tickets
          BY <4>1 DEF CallInv, CallsOnce
        <4>. QED  BY <1>1, <1>7, <4>1, <4>2 DEF CallInv, DoneIsDone
      <3>. QED  BY <3>1, <3>2
    <2>. QED  BY <2>1 DEF DoneIsDone
  <1>. QED  BY <1>9, <1>10, <1>12, <1>16, <1>17 DEF CallInv

\* Every step keeps the invariant of the tool calls.
LEMMA CallStep ==
  ASSUME CallInv, [T!Next]_T!vars
  PROVE  CallInv'
  <1>1. CASE UNCHANGED T!vars
    BY <1>1 DEF T!vars, CallInv, CallTypes, CallsOnce, WireOnce, RequestOnce, TicketsOnce,
                FiledOnce, T!OneTicketPerCall, T!Filed, DoneIsDone
  <1>2. CASE T!Next
    BY <1>2, InvokeStep, SendStep, UnwrittenStep, LockStep, CommitStep, CreateStep,
       BackOfficeStep DEF T!Next
  <1>. QED  BY <1>1, <1>2

\* request, _raise_for_status, _authorize_delegated: whatever is lost or late on
\* the wire, a create files at most one ticket, a call reports only what was
\* committed, and only the owner or an admin moves a ticket through a tool.
THEOREM CallsAreHonestHolds == T!Spec => []CallsAreHonest
  <1>1. ASSUME T!Init
        PROVE  CallInv
    BY <1>1, CallShapes DEF T!Init, CallInv, CallTypes, CallsOnce, WireOnce, TicketsOnce,
                T!OneTicketPerCall, T!Filed, DoneIsDone
  <1>2. ASSUME CallInv
        PROVE  CallsAreHonest
    <2>1. T!OneTicketPerCall
      BY <1>2 DEF CallInv, TicketsOnce
    <2>2. ASSUME NEW k \in T!Started
          PROVE  k \in Calls /\ call[k] \in CallRow
      BY <1>2 DEF T!Started, CallInv, CallTypes, T!NoCall, Refusal
    <2>3. T!ReportedIsDone
      BY <1>2, <2>2 DEF CallInv, DoneIsDone, T!ReportedIsDone, T!Filed
    <2>4. T!ActsForPrincipal
      BY <1>2 DEF CallInv, TicketsOnce, FiledOnce, T!ActsForPrincipal, T!Filed
    <2>. QED  BY <2>1, <2>3, <2>4 DEF CallsAreHonest, T!CallsAreHonest
  <1>. QED  BY <1>1, <1>2, CallStep, PTL DEF T!Spec

-----------------------------------------------------------------------------
(* The composition.                                                        *)

\* Accounts, delegation, tools and tokens side by side: each is its own
\* specification, with the others at rest, so what is proved of each holds of
\* all of them together.
THEOREM IdentityParts ==
  MCSpec => /\ Spec /\ D!Spec /\ T!Spec /\ A!TokenSpec
            /\ [](AdminRemains /\ CredentialsAreRightful /\ ServedAsEntitled
                  /\ TokensAreEarned /\ CallsAreHonest)
  <1>1. MCInit => Init /\ D!Init /\ T!Init /\ A!TokenInit
    BY DEF MCInit
  <1>2. [MCNext]_allVars => [Next]_vars
    BY DEF MCNext, allVars
  <1>3. [MCNext]_allVars => [D!Next]_(D!vars)
    BY DEF MCNext, allVars, codeVars, D!vars
  <1>4. [MCNext]_allVars => [T!Next]_(T!vars)
    BY DEF MCNext, allVars, toolVars, T!vars
  <1>5. [MCNext]_allVars => [A!TokenNext]_(A!tokenVars)
    BY DEF MCNext, allVars, tokenVars, A!tokenVars
  <1>6. MCSpec => Spec /\ D!Spec /\ T!Spec /\ A!TokenSpec
    BY <1>1, <1>2, <1>3, <1>4, <1>5, PTL DEF MCSpec, Spec, D!Spec, T!Spec, A!TokenSpec
  <1>. QED
    BY <1>6, AdminRemainsHolds, CredentialsAreRightfulHolds, ServedAsEntitledHolds,
       TokensAreEarnedHolds, CallsAreHonestHolds, PTL
=============================================================================
