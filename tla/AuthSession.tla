---------------------------- MODULE AuthSession ----------------------------
(***************************************************************************)
(* The backend's sessions of one user, a shop owner: login, refresh and    *)
(* logout (services/api/src/http/routes/auth.ts, services/tokenService.ts, *)
(* services/userService.ts), the administrator's status of the merchant    *)
(* (http/routes/admin.ts) and the settlement that makes a merchant active  *)
(* (http/routes/billing.ts).                                               *)
(*                                                                         *)
(* A request is handled by a chain of awaits, one action for each          *)
(* statement that reads or writes the rows below. The row of user_session  *)
(* is its refresh token. Access tokens, which no row records, roles,       *)
(* portals, tenants and the thirty days after which a refresh token        *)
(* expires are left out: nothing below lives so long. The one-time code    *)
(* that precedes a login is module Otp's.                                  *)
(***************************************************************************)
EXTENDS Naturals, FiniteSets

CONSTANTS
  Requests,   \* requests in flight at the same time
  Tokens,     \* refresh tokens the random generator may return
  NoToken,    \* the absence of one
  MaxAdmin    \* bound on status changes and settlements

ASSUME TokensAssumption == IsFiniteSet(Tokens) /\ NoToken \notin Tokens
ASSUME RequestsAssumption == IsFiniteSet(Requests)
ASSUME AdminAssumption == MaxAdmin \in Nat

VARIABLES
  user,         \* app_user.status, "none" before the first login
  merchant,     \* merchant.status; "active" stands for trial, past_due, ... too
  issued,       \* refresh tokens that have a row in user_session
  live,         \* those of them whose revoked_at is NULL
  h,            \* per request: where its handler stands, and what it holds
  late,         \* history: tokens issued while the user was suspended
  logins,       \* history: sessions issued by logins
  doubles,      \* history: rotations of a session that was revoked already
  disturbed,    \* history: something crossed the last change of status
  interrupted,  \* history: a suspension died before it revoked
  admin         \* status changes and settlements so far

rows == <<user, merchant, issued, live>>
history == <<late, logins, doubles, disturbed, interrupted>>
vars == <<rows, h, history, admin>>

LoginSteps == {"login", "create"}
RefreshSteps == {"find", "user", "rotate"}
AdminSteps == {"merchant", "status", "revoke"}
Steps == {"idle", "issue", "logout", "ok", "failed"}
           \cup LoginSteps \cup RefreshSteps \cup AdminSteps
Handler == [at : Steps, token : Tokens \cup {NoToken}, suspend : BOOLEAN]
Idle == [at |-> "idle", token |-> NoToken, suspend |-> FALSE]

TypeOK ==
  /\ user \in {"none", "active", "suspended"}
  /\ merchant \in {"none", "active", "suspended"}
  /\ issued \in SUBSET Tokens
  /\ live \in SUBSET issued
  /\ h \in [Requests -> Handler]
  /\ late \in SUBSET issued
  /\ logins \in Nat
  /\ doubles \in Nat
  /\ disturbed \in BOOLEAN
  /\ interrupted \in BOOLEAN
  /\ admin \in 0 .. MaxAdmin

Init ==
  /\ user = "none"
  /\ merchant = "none"
  /\ issued = {}
  /\ live = {}
  /\ h = [r \in Requests |-> Idle]
  /\ late = {}
  /\ logins = 0
  /\ doubles = 0
  /\ disturbed = FALSE
  /\ interrupted = FALSE
  /\ admin = 0

-----------------------------------------------------------------------------
(* Helpers.                                                                *)

Goto(r, step) == h' = [h EXCEPT ![r] = [@ EXCEPT !.at = step]]
Fail(r) == Goto(r, "failed")
Busy(r) == h[r].at \notin {"idle", "ok", "failed"}
Administers(r) == h[r].at \in AdminSteps
Rotating == {r \in Requests : h[r].at = "issue" /\ h[r].token # NoToken}

\* Bound: a request that may issue a token starts while one is left for it.
MayIssue(r) == h[r].at \in LoginSteps \cup RefreshSteps \cup {"issue"}
Room ==
  Cardinality(issued) + Cardinality({r \in Requests : MayIssue(r)})
    < Cardinality(Tokens)

-----------------------------------------------------------------------------
(* POST /auth/otp/verify, once verifyOtp has consumed the code.            *)

BeginLogin(r) ==
  /\ h[r].at = "idle"
  /\ Room
  /\ h' = [h EXCEPT ![r] = [Idle EXCEPT !.at = "login"]]
  /\ UNCHANGED <<rows, history, admin>>

\* findOrCreateUser: the status decides when it is read.
LoginReadUser(r) ==
  /\ h[r].at = "login"
  /\ Goto(r, CASE user = "none" -> "create"
               [] user = "active" -> "issue"
               [] user = "suspended" -> "failed")
  /\ UNCHANGED <<rows, history, admin>>

\* One transaction inserts user, tenant, member, merchant and referral; the
\* mobile is unique, so of two first logins one fails.
LoginCreate(r) ==
  /\ h[r].at = "create"
  /\ IF user = "none"
     THEN user' = "active" /\ merchant' = "active" /\ Goto(r, "issue")
     ELSE Fail(r) /\ UNCHANGED <<user, merchant>>
  /\ UNCHANGED <<issued, live, history, admin>>

\* issueSession: INSERT INTO user_session.
Issue(r) ==
  /\ h[r].at = "issue"
  /\ \E t \in Tokens \ issued :
       /\ issued' = issued \cup {t}
       /\ live' = live \cup {t}
       /\ h' = [h EXCEPT ![r] = [@ EXCEPT !.at = "ok", !.token = t]]
       /\ late' = IF user = "suspended" THEN late \cup {t} ELSE late
  /\ logins' = IF h[r].token = NoToken THEN logins + 1 ELSE logins
  /\ UNCHANGED <<user, merchant, doubles, disturbed, interrupted, admin>>

-----------------------------------------------------------------------------
(* POST /auth/refresh and POST /auth/logout.                               *)

BeginRefresh(r, t) ==
  /\ h[r].at = "idle"
  /\ t \in issued
  /\ Room
  /\ h' = [h EXCEPT ![r] = [Idle EXCEPT !.at = "find", !.token = t]]
  /\ UNCHANGED <<rows, history, admin>>

\* findLiveSession.
RefreshFind(r) ==
  /\ h[r].at = "find"
  /\ Goto(r, IF h[r].token \in live THEN "user" ELSE "failed")
  /\ UNCHANGED <<rows, history, admin>>

\* getUserById.
RefreshReadUser(r) ==
  /\ h[r].at = "user"
  /\ Goto(r, IF user = "active" THEN "rotate" ELSE "failed")
  /\ UNCHANGED <<rows, history, admin>>

\* Mutant: a refresh issues a session and leaves the old one live.
RotateKeepsOld(r) ==
  /\ h[r].at = "rotate"
  /\ Goto(r, "issue")
  /\ UNCHANGED <<rows, history, admin>>

\* rotateSession revokes the old session by id, live or not, and issues.
Rotate(r) ==
  /\ h[r].at = "rotate"
  /\ live' = live \ {h[r].token}
  /\ doubles' = IF h[r].token \in live THEN doubles ELSE doubles + 1
  /\ Goto(r, "issue")
  /\ UNCHANGED <<user, merchant, issued, late, logins, disturbed, interrupted, admin>>

BeginLogout(r, t) ==
  /\ h[r].at = "idle"
  /\ t \in issued
  /\ h' = [h EXCEPT ![r] = [Idle EXCEPT !.at = "logout", !.token = t]]
  /\ UNCHANGED <<rows, history, admin>>

\* revokeSession.
Logout(r) ==
  /\ h[r].at = "logout"
  /\ live' = live \ {h[r].token}
  /\ Goto(r, "ok")
  /\ UNCHANGED <<user, merchant, issued, history, admin>>

\* The answer leaves, and the request is over.
Answer(r) ==
  /\ h[r].at \in {"ok", "failed"}
  /\ h' = [h EXCEPT ![r] = Idle]
  /\ UNCHANGED <<rows, history, admin>>

-----------------------------------------------------------------------------
(* PATCH /admin/merchants/:id/status.                                      *)

BeginStatus(r, suspend) ==
  /\ h[r].at = "idle"
  /\ admin < MaxAdmin
  /\ admin' = admin + 1
  /\ h' = [h EXCEPT ![r] = [Idle EXCEPT !.at = "merchant", !.suspend = suspend]]
  /\ disturbed' = \E q \in Requests : Administers(q)
  /\ UNCHANGED <<rows, late, logins, doubles, interrupted>>

StatusMerchant(r) ==
  /\ h[r].at = "merchant"
  /\ IF merchant = "none"
     THEN Fail(r) /\ UNCHANGED merchant
     ELSE /\ merchant' = IF h[r].suspend THEN "suspended" ELSE "active"
          /\ Goto(r, "status")
  /\ UNCHANGED <<user, issued, live, history, admin>>

\* Mutant: the account is suspended and its sessions are left alone.
StatusUserOnly(r) ==
  /\ h[r].at = "status"
  /\ user' = IF h[r].suspend THEN "suspended" ELSE "active"
  /\ Goto(r, "ok")
  /\ UNCHANGED <<merchant, issued, live, history, admin>>

\* Mutant: reactivating a merchant forgets the account.
StatusUserKeepsSuspended(r) ==
  /\ h[r].at = "status"
  /\ user' = IF h[r].suspend THEN "suspended" ELSE user
  /\ Goto(r, IF h[r].suspend THEN "revoke" ELSE "ok")
  /\ UNCHANGED <<merchant, issued, live, history, admin>>

StatusUser(r) ==
  /\ h[r].at = "status"
  /\ user' = IF h[r].suspend THEN "suspended" ELSE "active"
  /\ Goto(r, IF h[r].suspend THEN "revoke" ELSE "ok")
  /\ UNCHANGED <<merchant, issued, live, history, admin>>

\* revokeAllSessions.
StatusRevoke(r) ==
  /\ h[r].at = "revoke"
  /\ live' = {}
  /\ interrupted' = FALSE
  /\ Goto(r, "ok")
  /\ UNCHANGED <<user, merchant, issued, late, logins, doubles, disturbed, admin>>

\* settleSubscriptionPayment: one transaction, which knows nothing of app_user.
Settle ==
  /\ merchant # "none"
  /\ admin < MaxAdmin
  /\ admin' = admin + 1
  /\ merchant' = "active"
  /\ disturbed' = (disturbed \/ merchant = "suspended"
                             \/ \E r \in Requests : Administers(r))
  /\ UNCHANGED <<user, issued, live, h, late, logins, doubles, interrupted>>

\* The process dies: every request in flight ends without an answer.
Crash ==
  /\ \E r \in Requests : Busy(r)
  /\ h' = [r \in Requests |->
             IF Busy(r) THEN [Idle EXCEPT !.at = "failed"] ELSE h[r]]
  /\ disturbed' = (disturbed \/ \E r \in Requests : Administers(r))
  /\ interrupted' = (interrupted \/ \E r \in Requests : h[r].at = "revoke")
  /\ UNCHANGED <<rows, late, logins, doubles, admin>>

-----------------------------------------------------------------------------
(* Specification.                                                          *)

Login(r) == BeginLogin(r) \/ LoginReadUser(r) \/ LoginCreate(r) \/ Issue(r)
Refresh(r) ==
  \/ \E t \in Tokens : BeginRefresh(r, t)
  \/ RefreshFind(r) \/ RefreshReadUser(r) \/ Rotate(r)
SignOff(r) == (\E t \in Tokens : BeginLogout(r, t)) \/ Logout(r)
Status(r) ==
  \/ \E suspend \in BOOLEAN : BeginStatus(r, suspend)
  \/ StatusMerchant(r) \/ StatusUser(r) \/ StatusRevoke(r)

Next ==
  \/ \E r \in Requests :
       Login(r) \/ Refresh(r) \/ SignOff(r) \/ Status(r) \/ Answer(r)
  \/ Settle
  \/ Crash

Spec == Init /\ [][Next]_vars

-----------------------------------------------------------------------------
(* Properties.                                                             *)

\* While a user is suspended and every suspension has got as far as its
\* revocation, a session is live only if its login or refresh had read the
\* user before the suspension and issued after it. (admin.ts writes the
\* status before it revokes; the other order would leave more.)
SuspendedIsShutOut ==
  /\ user = "suspended"
  /\ ~interrupted
  /\ \A r \in Requests : h[r].at # "revoke"
  => live \subseteq late

\* Sessions do not multiply: those that are live or about to replace one are
\* no more than the logins, plus one for each refresh that rotated a session
\* another request had revoked since it was looked up.
SessionBudget ==
  Cardinality(live) + Cardinality(Rotating) <= logins + doubles

\* The merchant and the account are suspended together, unless two status
\* changes overlapped, one died half-way, or a settlement came in between.
StatusesAgree ==
  ~disturbed /\ (\A r \in Requests : ~Administers(r))
    => (merchant = "suspended" <=> user = "suspended")
=============================================================================
