--------------------------- MODULE SessionProofs ---------------------------
(***************************************************************************)
(* Theorems about AuthSession and ClientSession, for any requests, tokens  *)
(* and tabs and any number of logins, refreshes, administrator's changes,  *)
(* settlements and deaths of the process.                                  *)
(***************************************************************************)
EXTENDS ClientSession, FiniteSetTheorems, TLAPS

-----------------------------------------------------------------------------
(* Handlers.                                                               *)

\* Moving a handler changes nothing but its position.
LEMMA GotoEffect ==
  ASSUME TypeOK, NEW r \in Requests, NEW step \in Steps, Goto(r, step)
  PROVE  /\ h' \in [Requests -> Handler]
         /\ h'[r].at = step
         /\ h'[r].token = h[r].token
         /\ h'[r].suspend = h[r].suspend
         /\ \A q \in Requests \ {r} : h'[q] = h[q]
<1>1. h[r] \in Handler
  BY DEF TypeOK
<1>2. [h[r] EXCEPT !.at = step] \in Handler
  BY <1>1 DEF Handler
<1> QED BY <1>1, <1>2 DEF TypeOK, Goto, Handler

\* A handler that is replaced leaves the others alone.
LEMMA BecomeEffect ==
  ASSUME TypeOK, NEW r \in Requests, NEW state \in Handler,
         h' = [h EXCEPT ![r] = state]
  PROVE  /\ h' \in [Requests -> Handler]
         /\ h'[r] = state
         /\ \A q \in Requests \ {r} : h'[q] = h[q]
BY DEF TypeOK

\* What a handler may begin with.
LEMMA IdleHandlers ==
  /\ Idle \in Handler
  /\ [Idle EXCEPT !.at = "login"] \in Handler
  /\ [Idle EXCEPT !.at = "failed"] \in Handler
  /\ \A t \in Tokens : /\ [Idle EXCEPT !.at = "find", !.token = t] \in Handler
                       /\ [Idle EXCEPT !.at = "logout", !.token = t] \in Handler
  /\ \A suspend \in BOOLEAN :
       [Idle EXCEPT !.at = "merchant", !.suspend = suspend] \in Handler
BY DEF Idle, Handler, Steps, LoginSteps, RefreshSteps, AdminSteps

-----------------------------------------------------------------------------
(* Type correctness.                                                       *)

LEMMA TypeInit == Init => TypeOK
<1> SUFFICES ASSUME Init PROVE TypeOK
  OBVIOUS
<1>1. h \in [Requests -> Handler]
  BY IdleHandlers DEF Init
<1>2. admin \in 0 .. MaxAdmin
  BY AdminAssumption DEF Init
<1>3. logins \in Nat /\ doubles \in Nat
  BY DEF Init
<1> QED BY <1>1, <1>2, <1>3 DEF Init, TypeOK

LEMMA TypeNext == TypeOK /\ [Next]_vars => TypeOK'
<1> SUFFICES ASSUME TypeOK, [Next]_vars PROVE TypeOK'
  OBVIOUS
<1> USE AdminAssumption
<1>1. ASSUME NEW r \in Requests, Login(r) PROVE TypeOK'
  <2>1. CASE BeginLogin(r)
    BY <2>1, IdleHandlers, BecomeEffect DEF BeginLogin, rows, history, TypeOK
  <2>2. CASE LoginReadUser(r)
    <3>1. \E step \in Steps : Goto(r, step)
      BY <2>2 DEF LoginReadUser, TypeOK, Steps, LoginSteps
    <3> QED BY <2>2, <3>1, GotoEffect DEF LoginReadUser, rows, history, TypeOK
  <2>3. CASE LoginCreate(r)
    <3>1. \E step \in Steps : Goto(r, step)
      BY <2>3 DEF LoginCreate, Fail, Steps
    <3>2. h' \in [Requests -> Handler]
      BY <3>1, GotoEffect
    <3>3. UNCHANGED <<issued, live, late, logins, doubles, disturbed, interrupted, admin>>
      BY <2>3 DEF LoginCreate, history
    <3>4. user' \in {"none", "active", "suspended"} /\ merchant' \in {"none", "active", "suspended"}
      BY <2>3 DEF LoginCreate, TypeOK
    <3> QED BY <3>2, <3>3, <3>4 DEF TypeOK
  <2>4. CASE Issue(r)
    <3>1. PICK t \in Tokens \ issued :
            /\ issued' = issued \cup {t}
            /\ live' = live \cup {t}
            /\ h' = [h EXCEPT ![r] = [@ EXCEPT !.at = "ok", !.token = t]]
            /\ late' = IF user = "suspended" THEN late \cup {t} ELSE late
      BY <2>4 DEF Issue
    <3>2. h[r] \in Handler
      BY DEF TypeOK
    <3>3. [h[r] EXCEPT !.at = "ok", !.token = t] \in Handler
      BY <3>2 DEF Handler, Steps
    <3>4. h' \in [Requests -> Handler]
      BY <3>1, <3>3, BecomeEffect
    <3>5. logins' \in Nat
      BY <2>4 DEF Issue, TypeOK
    <3>6. UNCHANGED <<user, merchant, doubles, disturbed, interrupted, admin>>
      BY <2>4 DEF Issue
    <3>7. issued' \in SUBSET Tokens /\ live' \in SUBSET issued' /\ late' \in SUBSET issued'
      BY <3>1 DEF TypeOK
    <3> QED BY <3>4, <3>5, <3>6, <3>7 DEF TypeOK
  <2> QED BY <1>1, <2>1, <2>2, <2>3, <2>4 DEF Login
<1>2. ASSUME NEW r \in Requests, Refresh(r) PROVE TypeOK'
  <2>1. CASE \E t \in Tokens : BeginRefresh(r, t)
    BY <2>1, IdleHandlers, BecomeEffect DEF BeginRefresh, rows, history, TypeOK
  <2>2. CASE RefreshFind(r)
    <3>1. \E step \in Steps : Goto(r, step)
      BY <2>2 DEF RefreshFind, Steps, RefreshSteps
    <3> QED BY <2>2, <3>1, GotoEffect DEF RefreshFind, rows, history, TypeOK
  <2>3. CASE RefreshReadUser(r)
    <3>1. \E step \in Steps : Goto(r, step)
      BY <2>3 DEF RefreshReadUser, Steps, RefreshSteps
    <3> QED BY <2>3, <3>1, GotoEffect DEF RefreshReadUser, rows, history, TypeOK
  <2>4. CASE Rotate(r)
    <3>1. h' \in [Requests -> Handler]
      BY <2>4, GotoEffect DEF Rotate, Steps
    <3>2. doubles' \in Nat
      BY <2>4 DEF Rotate, TypeOK
    <3>3. UNCHANGED <<user, merchant, issued, late, logins, disturbed, interrupted, admin>>
      BY <2>4 DEF Rotate
    <3>4. live' \in SUBSET issued
      BY <2>4 DEF Rotate, TypeOK
    <3> QED BY <3>1, <3>2, <3>3, <3>4 DEF TypeOK
  <2> QED BY <1>2, <2>1, <2>2, <2>3, <2>4 DEF Refresh
<1>3. ASSUME NEW r \in Requests, SignOff(r) PROVE TypeOK'
  <2>1. CASE \E t \in Tokens : BeginLogout(r, t)
    BY <2>1, IdleHandlers, BecomeEffect DEF BeginLogout, rows, history, TypeOK
  <2>2. CASE Logout(r)
    <3>1. h' \in [Requests -> Handler]
      BY <2>2, GotoEffect DEF Logout, Steps
    <3> QED BY <2>2, <3>1 DEF Logout, history, TypeOK
  <2> QED BY <1>3, <2>1, <2>2 DEF SignOff
<1>4. ASSUME NEW r \in Requests, Status(r) PROVE TypeOK'
  <2>1. ASSUME NEW suspend \in BOOLEAN, BeginStatus(r, suspend) PROVE TypeOK'
    <3>1. h' \in [Requests -> Handler]
      BY <2>1, IdleHandlers, BecomeEffect DEF BeginStatus
    <3>2. admin' \in 0 .. MaxAdmin
      BY <2>1 DEF BeginStatus, TypeOK
    <3>3. disturbed' \in BOOLEAN
      BY <2>1 DEF BeginStatus
    <3>4. UNCHANGED <<user, merchant, issued, live, late, logins, doubles, interrupted>>
      BY <2>1 DEF BeginStatus, rows
    <3> QED BY <3>1, <3>2, <3>3, <3>4 DEF TypeOK
  <2>2. CASE StatusMerchant(r)
    <3>1. \E step \in Steps : Goto(r, step)
      BY <2>2 DEF StatusMerchant, Fail, Steps, AdminSteps
    <3>2. h' \in [Requests -> Handler]
      BY <3>1, GotoEffect
    <3>3. merchant' \in {"none", "active", "suspended"}
      BY <2>2 DEF StatusMerchant, TypeOK
    <3>4. UNCHANGED <<user, issued, live, late, logins, doubles, disturbed, interrupted, admin>>
      BY <2>2 DEF StatusMerchant, history
    <3> QED BY <3>2, <3>3, <3>4 DEF TypeOK
  <2>3. CASE StatusUser(r)
    <3>1. \E step \in Steps : Goto(r, step)
      BY <2>3 DEF StatusUser, Steps, AdminSteps
    <3>2. h' \in [Requests -> Handler]
      BY <3>1, GotoEffect
    <3>3. user' \in {"none", "active", "suspended"}
      BY <2>3 DEF StatusUser
    <3>4. UNCHANGED <<merchant, issued, live, late, logins, doubles, disturbed, interrupted, admin>>
      BY <2>3 DEF StatusUser, history
    <3> QED BY <3>2, <3>3, <3>4 DEF TypeOK
  <2>4. CASE StatusRevoke(r)
    <3>1. h' \in [Requests -> Handler]
      BY <2>4, GotoEffect DEF StatusRevoke, Steps
    <3> QED BY <2>4, <3>1 DEF StatusRevoke, TypeOK
  <2> QED BY <1>4, <2>1, <2>2, <2>3, <2>4 DEF Status
<1>5. ASSUME NEW r \in Requests, Answer(r) PROVE TypeOK'
  BY <1>5, IdleHandlers, BecomeEffect DEF Answer, rows, history, TypeOK
<1>6. CASE Settle
  BY <1>6 DEF Settle, TypeOK
<1>7. CASE Crash
  <2>1. h' \in [Requests -> Handler]
    BY <1>7, IdleHandlers DEF Crash, TypeOK
  <2>2. disturbed' \in BOOLEAN /\ interrupted' \in BOOLEAN
    BY <1>7 DEF Crash, TypeOK
  <2> QED BY <1>7, <2>1, <2>2 DEF Crash, rows, TypeOK
<1>8. CASE UNCHANGED vars
  BY <1>8 DEF vars, rows, history, TypeOK
<1> QED BY <1>1, <1>2, <1>3, <1>4, <1>5, <1>6, <1>7, <1>8 DEF Next

\* Rows, histories and the handlers' memory stay well typed.
THEOREM TypeCorrect == Spec => []TypeOK
<1> QED BY TypeInit, TypeNext, PTL DEF Spec

-----------------------------------------------------------------------------
(* Where a handler stands after each action.                               *)

\* Nobody but r moves.
Moves(r) == \A q \in Requests \ {r} : h'[q] = h[q]

\* In an action of a request other than Status, r neither comes to nor leaves
\* a statement of an administrator, and neither status changes, but for the
\* first login's.
LEMMA UserEffect ==
  ASSUME TypeOK, NEW r \in Requests,
         Login(r) \/ Refresh(r) \/ SignOff(r) \/ Answer(r)
  PROVE  /\ Moves(r)
         /\ ~Administers(r) /\ ~Administers(r)'
         /\ UNCHANGED <<disturbed, interrupted>>
         /\ \/ UNCHANGED <<user, merchant>>
            \/ user = "none" /\ user' = "active" /\ merchant' = "active"
<1> USE DEF Moves, Administers, AdminSteps, LoginSteps, RefreshSteps
<1>1. CASE BeginLogin(r)
  BY <1>1, IdleHandlers, BecomeEffect DEF BeginLogin, rows, history, Idle
<1>2. CASE LoginReadUser(r)
  <2>1. \E step \in {"create", "issue", "failed"} : Goto(r, step)
    BY <1>2 DEF LoginReadUser, TypeOK
  <2> QED BY <1>2, <2>1, GotoEffect DEF LoginReadUser, Steps, rows, history
<1>3. CASE LoginCreate(r)
  <2>1. \E step \in {"issue", "failed"} : Goto(r, step)
    BY <1>3 DEF LoginCreate, Fail
  <2> QED BY <1>3, <2>1, GotoEffect DEF LoginCreate, Steps, history
<1>4. CASE Issue(r)
  <2>1. PICK t \in Tokens \ issued :
          h' = [h EXCEPT ![r] = [@ EXCEPT !.at = "ok", !.token = t]]
    BY <1>4 DEF Issue
  <2>2. h'[r].at = "ok" /\ Moves(r)
    BY <2>1 DEF TypeOK, Handler
  <2> QED BY <1>4, <2>2 DEF Issue
<1>5. CASE \E t \in Tokens : BeginRefresh(r, t)
  <2>1. PICK t \in Tokens : h' = [h EXCEPT ![r] = [Idle EXCEPT !.at = "find", !.token = t]]
    BY <1>5 DEF BeginRefresh
  <2>2. h'[r].at = "find" /\ Moves(r)
    BY <2>1, IdleHandlers, BecomeEffect DEF Idle
  <2> QED BY <1>5, <2>2 DEF BeginRefresh, rows, history
<1>6. CASE RefreshFind(r)
  <2>1. \E step \in {"user", "failed"} : Goto(r, step)
    BY <1>6 DEF RefreshFind
  <2> QED BY <1>6, <2>1, GotoEffect DEF RefreshFind, Steps, rows, history
<1>7. CASE RefreshReadUser(r)
  <2>1. \E step \in {"rotate", "failed"} : Goto(r, step)
    BY <1>7 DEF RefreshReadUser
  <2> QED BY <1>7, <2>1, GotoEffect DEF RefreshReadUser, Steps, rows, history
<1>8. CASE Rotate(r)
  BY <1>8, GotoEffect DEF Rotate, Steps
<1>9. CASE \E t \in Tokens : BeginLogout(r, t)
  <2>1. PICK t \in Tokens : h' = [h EXCEPT ![r] = [Idle EXCEPT !.at = "logout", !.token = t]]
    BY <1>9 DEF BeginLogout
  <2>2. h'[r].at = "logout" /\ Moves(r)
    BY <2>1, IdleHandlers, BecomeEffect DEF Idle
  <2> QED BY <1>9, <2>2 DEF BeginLogout, rows, history
<1>10. CASE Logout(r)
  BY <1>10, GotoEffect DEF Logout, Steps, history
<1>11. CASE Answer(r)
  BY <1>11, IdleHandlers, BecomeEffect DEF Answer, rows, history, Idle
<1> QED
  BY <1>1, <1>2, <1>3, <1>4, <1>5, <1>6, <1>7, <1>8, <1>9, <1>10, <1>11
     DEF Login, Refresh, SignOff

-----------------------------------------------------------------------------
(* SuspendedIsShutOut is inductive.                                        *)

LEMMA ShutOutNext ==
  TypeOK /\ SuspendedIsShutOut /\ [Next]_vars => SuspendedIsShutOut'
<1> SUFFICES ASSUME TypeOK, SuspendedIsShutOut, [Next]_vars,
                    user' = "suspended", ~interrupted',
                    \A q \in Requests : h'[q].at # "revoke"
             PROVE  live' \subseteq late'
  BY DEF SuspendedIsShutOut
<1>1. ASSUME NEW r \in Requests, Login(r) \/ Refresh(r) \/ SignOff(r) \/ Answer(r)
      PROVE  live' \subseteq late'
  <2>1. user = "suspended" /\ ~interrupted /\ \A q \in Requests : h[q].at # "revoke"
    BY <1>1, UserEffect DEF Moves, Administers, AdminSteps
  <2>2. live \subseteq late
    BY <2>1 DEF SuspendedIsShutOut
  <2>3. UNCHANGED <<live, late>> \/ (live' \subseteq live /\ late' = late) \/ Issue(r)
    BY <1>1 DEF Login, Refresh, SignOff, BeginLogin, LoginReadUser, LoginCreate,
                BeginRefresh, RefreshFind, RefreshReadUser, Rotate, BeginLogout, Logout,
                Answer, rows, history
  <2> QED BY <2>1, <2>2, <2>3 DEF Issue
<1>2. ASSUME NEW r \in Requests, Status(r) PROVE live' \subseteq late'
  <2>1. CASE StatusRevoke(r)
    BY <2>1 DEF StatusRevoke
  <2>2. CASE StatusUser(r)
    <3>1. h[r].suspend
      BY <2>2 DEF StatusUser
    <3>2. h'[r].at = "revoke"
      BY <2>2, <3>1, GotoEffect DEF StatusUser, Steps, AdminSteps
    <3> QED BY <3>2
  <2>3. CASE StatusMerchant(r)
    <3>1. \E step \in {"failed", "status"} : Goto(r, step)
      BY <2>3 DEF StatusMerchant, Fail
    <3>2. \A q \in Requests : h[q].at # "revoke"
      BY <2>3, <3>1, GotoEffect DEF StatusMerchant, Steps, AdminSteps
    <3> QED BY <2>3, <3>2 DEF StatusMerchant, history, SuspendedIsShutOut
  <2>4. ASSUME NEW suspend \in BOOLEAN, BeginStatus(r, suspend) PROVE live' \subseteq late'
    <3>1. \A q \in Requests : h[q].at # "revoke"
      BY <2>4, IdleHandlers, BecomeEffect DEF BeginStatus
    <3> QED BY <2>4, <3>1 DEF BeginStatus, rows, SuspendedIsShutOut
  <2> QED BY <1>2, <2>1, <2>2, <2>3, <2>4 DEF Status
<1>3. CASE Settle
  BY <1>3 DEF Settle, SuspendedIsShutOut
<1>4. CASE Crash
  BY <1>4 DEF Crash, rows, SuspendedIsShutOut
<1>5. CASE UNCHANGED vars
  BY <1>5 DEF vars, rows, history, SuspendedIsShutOut
<1> QED BY <1>1, <1>2, <1>3, <1>4, <1>5 DEF Next

\* SuspendedIsShutOut, of any requests: once every suspension under way has
\* revoked, whoever is still signed in was issued a session after the
\* suspension, by a login or a refresh that had read the user before it.
THEOREM SuspendedIsShutOutHolds == Spec => []SuspendedIsShutOut
<1>1. Init => SuspendedIsShutOut
  BY DEF Init, SuspendedIsShutOut
<1> QED BY <1>1, TypeCorrect, ShutOutNext, PTL DEF Spec

-----------------------------------------------------------------------------
(* StatusesAgree. While nothing disturbed the last change of status, one   *)
(* request administers at most; what it has written is what it will write. *)

Agree == merchant = "suspended" <=> user = "suspended"
Meant(r) == IF h[r].suspend THEN "suspended" ELSE "active"

StatusInv ==
  /\ user = "none" <=> merchant = "none"
  /\ merchant = "none" => \A r \in Requests : h[r].at # "status"
  /\ ~disturbed =>
       /\ \A q, r \in Requests : Administers(q) /\ Administers(r) => q = r
       /\ \A r \in Requests : h[r].at = "status" => merchant = Meant(r)
       /\ (\A r \in Requests : h[r].at \notin {"merchant", "status"}) => Agree

LEMMA StatusNext == TypeOK /\ StatusInv /\ [Next]_vars => StatusInv'
<1> SUFFICES ASSUME TypeOK, StatusInv, [Next]_vars PROVE StatusInv'
  OBVIOUS
<1>1. ASSUME NEW r \in Requests, Login(r) \/ Refresh(r) \/ SignOff(r) \/ Answer(r)
      PROVE  StatusInv'
  <2>1. /\ Moves(r) /\ ~Administers(r) /\ ~Administers(r)'
        /\ UNCHANGED disturbed
        /\ \/ UNCHANGED <<user, merchant>>
           \/ user = "none" /\ user' = "active" /\ merchant' = "active"
    BY <1>1, UserEffect
  <2>2. \A q \in Requests : /\ Administers(q)' <=> Administers(q)
                            /\ h'[q].at = "status" <=> h[q].at = "status"
                            /\ h'[q].at = "merchant" <=> h[q].at = "merchant"
                            /\ h[q].at = "status" => Meant(q)' = Meant(q)
    BY <2>1 DEF Moves, Administers, AdminSteps, Meant
  <2>3. CASE UNCHANGED <<user, merchant>>
    BY <2>1, <2>2, <2>3 DEF StatusInv, Agree
  <2>4. CASE user = "none" /\ user' = "active" /\ merchant' = "active"
    <3>2. \A q \in Requests : h[q].at # "status"
      BY <2>4 DEF StatusInv
    <3> QED BY <2>1, <2>2, <2>4, <3>2 DEF StatusInv, Agree
  <2> QED BY <2>1, <2>3, <2>4
<1>2. ASSUME NEW r \in Requests, Status(r) PROVE StatusInv'
  <2>1. ASSUME NEW suspend \in BOOLEAN, BeginStatus(r, suspend) PROVE StatusInv'
    <3>1. h'[r].at = "merchant" /\ Moves(r)
      BY <2>1, IdleHandlers, BecomeEffect DEF BeginStatus, Moves, Idle
    <3>2. UNCHANGED <<user, merchant>> /\ (~disturbed' => \A q \in Requests : ~Administers(q))
      BY <2>1 DEF BeginStatus, rows
    <3> QED BY <3>1, <3>2 DEF StatusInv, Moves, Administers, AdminSteps
  <2>2. CASE StatusMerchant(r)
    <3>1. h[r].at = "merchant" /\ UNCHANGED <<user, disturbed>>
      BY <2>2 DEF StatusMerchant, history
    <3>2. CASE merchant = "none"
      <4>1. h'[r].at = "failed" /\ Moves(r) /\ UNCHANGED merchant
        BY <2>2, <3>2, GotoEffect DEF StatusMerchant, Fail, Moves, Steps
      <4> QED BY <3>1, <3>2, <4>1 DEF StatusInv, Moves, Administers, AdminSteps, Agree, Meant
    <3>3. CASE merchant # "none"
      <4>1. merchant' = Meant(r) /\ Goto(r, "status")
        BY <2>2, <3>3 DEF StatusMerchant, Meant
      <4>2. h'[r].at = "status" /\ Moves(r) /\ Meant(r)' = Meant(r)
        BY <4>1, GotoEffect DEF Moves, Steps, AdminSteps, Meant
      <4> QED BY <3>1, <3>3, <4>1, <4>2 DEF StatusInv, Moves, Administers, AdminSteps, Meant
    <3> QED BY <3>2, <3>3
  <2>3. CASE StatusUser(r)
    <3>1. h[r].at = "status" /\ user' = Meant(r) /\ UNCHANGED <<merchant, disturbed>>
      BY <2>3 DEF StatusUser, Meant, history
    <3>2. h'[r].at \in {"revoke", "ok"} /\ Moves(r)
      BY <2>3, GotoEffect DEF StatusUser, Moves, Steps, AdminSteps
    <3>3. merchant # "none" => (user' = "none" <=> merchant' = "none")
      BY <3>1 DEF Meant
    <3>4. merchant # "none"
      BY <3>1 DEF StatusInv
    <3> QED BY <3>1, <3>2, <3>3, <3>4 DEF StatusInv, Moves, Administers, AdminSteps, Agree, Meant
  <2>4. CASE StatusRevoke(r)
    <3>1. h[r].at = "revoke" /\ UNCHANGED <<user, merchant, disturbed>>
      BY <2>4 DEF StatusRevoke
    <3>2. h'[r].at = "ok" /\ Moves(r)
      BY <2>4, GotoEffect DEF StatusRevoke, Moves, Steps
    <3> QED BY <3>1, <3>2 DEF StatusInv, Moves, Administers, AdminSteps, Agree, Meant
  <2> QED BY <1>2, <2>1, <2>2, <2>3, <2>4 DEF Status
<1>3. CASE Settle
  <2>1. user # "none"
    BY <1>3 DEF Settle, StatusInv
  <2> QED BY <1>3, <2>1 DEF Settle, StatusInv, Administers, AdminSteps, Agree
<1>4. CASE Crash
  BY <1>4 DEF Crash, rows, StatusInv, Administers, AdminSteps, Agree, Busy, Idle
<1>5. CASE UNCHANGED vars
  BY <1>5 DEF vars, rows, history, StatusInv, Administers, AdminSteps, Agree, Meant
<1> QED BY <1>1, <1>2, <1>3, <1>4, <1>5 DEF Next

\* StatusesAgree, of any requests: the merchant and the account are suspended
\* together, unless a settlement, a crash or a second change came between.
THEOREM StatusesAgreeHolds == Spec => []StatusesAgree
<1>1. Init => StatusInv
  BY DEF Init, StatusInv, Administers, AdminSteps, Agree, Idle
<1>2. StatusInv => StatusesAgree
  BY DEF StatusInv, StatusesAgree, Administers, AdminSteps, Agree
<1> QED BY <1>1, <1>2, TypeCorrect, StatusNext, PTL DEF Spec

-----------------------------------------------------------------------------
(* SessionBudget is inductive, given that a login holds no token yet: it    *)
(* must not count as a request that replaces a session.                     *)

LoginToken == \A r \in Requests : h[r].at \in LoginSteps => h[r].token = NoToken
BudgetInv == LoginToken /\ SessionBudget

\* The sets that are counted are finite.
LEMMA Counts ==
  ASSUME TypeOK
  PROVE  /\ IsFiniteSet(live) /\ Cardinality(live) \in Nat
         /\ IsFiniteSet(Rotating) /\ Cardinality(Rotating) \in Nat
<1>1. live \in SUBSET Tokens /\ Rotating \in SUBSET Requests
  BY DEF TypeOK, Rotating
<1> QED BY <1>1, TokensAssumption, RequestsAssumption, FS_Subset, FS_CardinalityType

\* The budget is kept where sessions and rotations only go.
LEMMA BudgetShrinks ==
  ASSUME TypeOK, SessionBudget, live' \subseteq live, Rotating' \subseteq Rotating,
         UNCHANGED <<logins, doubles>>
  PROVE  SessionBudget'
<1>1. /\ Cardinality(live') \in Nat /\ Cardinality(live') <= Cardinality(live)
      /\ Cardinality(Rotating') \in Nat /\ Cardinality(Rotating') <= Cardinality(Rotating)
  BY Counts, FS_Subset, FS_CardinalityType
<1>2. logins \in Nat /\ doubles \in Nat
  BY DEF TypeOK
<1> QED BY <1>1, <1>2, Counts DEF SessionBudget

\* A request that goes anywhere but to its INSERT rotates nothing.
LEMMA Elsewhere ==
  ASSUME TypeOK, NEW r \in Requests, Moves(r), h'[r].at # "issue" \/ h'[r].token = NoToken
  PROVE  Rotating' \subseteq Rotating
BY DEF Moves, Rotating

LEMMA BudgetNext == TypeOK /\ BudgetInv /\ [Next]_vars => BudgetInv'
<1> SUFFICES ASSUME TypeOK, BudgetInv, [Next]_vars PROVE BudgetInv'
  OBVIOUS
<1> USE DEF LoginSteps
<1>1. ASSUME NEW r \in Requests, Login(r) PROVE BudgetInv'
  <2>1. CASE BeginLogin(r)
    <3>1. h'[r].at = "login" /\ h'[r].token = NoToken /\ Moves(r)
      BY <2>1, IdleHandlers, BecomeEffect DEF BeginLogin, Idle, Moves
    <3>2. UNCHANGED <<live, logins, doubles>>
      BY <2>1 DEF BeginLogin, rows, history
    <3> QED BY <3>1, <3>2, Elsewhere, BudgetShrinks DEF BudgetInv, LoginToken, Moves
  <2>2. CASE LoginReadUser(r)
    <3>1. h[r].at = "login" /\ \E step \in {"create", "issue", "failed"} : Goto(r, step)
      BY <2>2 DEF LoginReadUser, TypeOK
    <3>2. h'[r].token = NoToken /\ Moves(r)
      BY <3>1, GotoEffect DEF Steps, Moves, BudgetInv, LoginToken
    <3>3. UNCHANGED <<live, logins, doubles>>
      BY <2>2 DEF LoginReadUser, rows, history
    <3> QED BY <3>2, <3>3, Elsewhere, BudgetShrinks DEF BudgetInv, LoginToken, Moves
  <2>3. CASE LoginCreate(r)
    <3>1. h[r].at = "create" /\ \E step \in {"issue", "failed"} : Goto(r, step)
      BY <2>3 DEF LoginCreate, Fail
    <3>2. h'[r].token = NoToken /\ Moves(r)
      BY <3>1, GotoEffect DEF Steps, Moves, BudgetInv, LoginToken
    <3>3. UNCHANGED <<live, logins, doubles>>
      BY <2>3 DEF LoginCreate, history
    <3> QED BY <3>2, <3>3, Elsewhere, BudgetShrinks DEF BudgetInv, LoginToken, Moves
  <2>4. CASE Issue(r)
    <3>1. PICK t \in Tokens \ issued :
            /\ live' = live \cup {t}
            /\ h' = [h EXCEPT ![r] = [@ EXCEPT !.at = "ok", !.token = t]]
      BY <2>4 DEF Issue
    <3>2. h'[r].at = "ok" /\ Moves(r)
      BY <3>1 DEF TypeOK, Handler, Moves
    <3>3. Rotating' = Rotating \ {r}
      BY <3>2 DEF Rotating, Moves
    <3>4. t \notin live
      BY DEF TypeOK
    <3>5. Cardinality(live') = Cardinality(live) + 1
      BY <3>1, <3>4, Counts, FS_AddElement
    <3>6. CASE h[r].token = NoToken
      <4>1. r \notin Rotating /\ logins' = logins + 1 /\ doubles' = doubles
        BY <2>4, <3>6 DEF Rotating, Issue
      <4>2. Cardinality(Rotating') = Cardinality(Rotating)
        BY <3>3, <4>1, Counts, FS_RemoveElement
      <4>3. logins \in Nat /\ doubles \in Nat
        BY DEF TypeOK
      <4>4. SessionBudget'
        BY <3>5, <4>1, <4>2, <4>3, Counts DEF BudgetInv, SessionBudget
      <4> QED BY <3>2, <4>4 DEF BudgetInv, LoginToken, Moves
    <3>7. CASE h[r].token # NoToken
      <4>1. r \in Rotating /\ logins' = logins /\ doubles' = doubles
        BY <2>4, <3>7 DEF Rotating, Issue
      <4>2. Cardinality(Rotating') = Cardinality(Rotating) - 1
        BY <3>3, <4>1, Counts, FS_RemoveElement
      <4>3. logins \in Nat /\ doubles \in Nat
        BY DEF TypeOK
      <4>4. SessionBudget'
        BY <3>5, <4>1, <4>2, <4>3, Counts DEF BudgetInv, SessionBudget
      <4> QED BY <3>2, <4>4 DEF BudgetInv, LoginToken, Moves
    <3> QED BY <3>6, <3>7
  <2> QED BY <1>1, <2>1, <2>2, <2>3, <2>4 DEF Login
<1>2. ASSUME NEW r \in Requests, Refresh(r) PROVE BudgetInv'
  <2>1. ASSUME NEW t \in Tokens, BeginRefresh(r, t) PROVE BudgetInv'
    <3>1. h'[r].at = "find" /\ Moves(r)
      BY <2>1, IdleHandlers, BecomeEffect DEF BeginRefresh, Idle, Moves
    <3>2. UNCHANGED <<live, logins, doubles>>
      BY <2>1 DEF BeginRefresh, rows, history
    <3> QED BY <3>1, <3>2, Elsewhere, BudgetShrinks DEF BudgetInv, LoginToken, Moves
  <2>2. CASE RefreshFind(r)
    <3>1. \E step \in {"user", "failed"} : Goto(r, step)
      BY <2>2 DEF RefreshFind
    <3>2. h'[r].at \in {"user", "failed"} /\ Moves(r)
      BY <3>1, GotoEffect DEF Steps, RefreshSteps, Moves
    <3>3. UNCHANGED <<live, logins, doubles>>
      BY <2>2 DEF RefreshFind, rows, history
    <3> QED BY <3>2, <3>3, Elsewhere, BudgetShrinks DEF BudgetInv, LoginToken, Moves
  <2>3. CASE RefreshReadUser(r)
    <3>1. \E step \in {"rotate", "failed"} : Goto(r, step)
      BY <2>3 DEF RefreshReadUser
    <3>2. h'[r].at \in {"rotate", "failed"} /\ Moves(r)
      BY <3>1, GotoEffect DEF Steps, RefreshSteps, Moves
    <3>3. UNCHANGED <<live, logins, doubles>>
      BY <2>3 DEF RefreshReadUser, rows, history
    <3> QED BY <3>2, <3>3, Elsewhere, BudgetShrinks DEF BudgetInv, LoginToken, Moves
  <2>4. CASE Rotate(r)
    <3>1. h[r].at = "rotate" /\ Goto(r, "issue") /\ live' = live \ {h[r].token}
          /\ logins' = logins
      BY <2>4 DEF Rotate
    <3>2. h'[r].at = "issue" /\ Moves(r)
      BY <3>1, GotoEffect DEF Steps, Moves
    <3>3. r \notin Rotating /\ Rotating' \in {Rotating, Rotating \cup {r}}
      BY <3>1, <3>2 DEF Rotating, Moves
    <3>4. Cardinality(Rotating') <= Cardinality(Rotating) + 1 /\ Cardinality(Rotating') \in Nat
      BY <3>3, Counts, FS_AddElement
    <3>5. logins \in Nat /\ doubles \in Nat
      BY DEF TypeOK
    <3>6. CASE h[r].token \in live
      <4>1. doubles' = doubles
        BY <2>4, <3>6 DEF Rotate
      <4>2. Cardinality(live \ {h[r].token}) = Cardinality(live) - 1
        BY <3>6, Counts, FS_RemoveElement
      <4>3. Cardinality(live') = Cardinality(live) - 1 /\ doubles' = doubles
        BY <3>1, <4>1, <4>2
      <4>4. SessionBudget'
        BY <3>1, <3>4, <3>5, <4>3, Counts DEF BudgetInv, SessionBudget
      <4> QED BY <3>2, <4>4 DEF BudgetInv, LoginToken, Moves
    <3>7. CASE h[r].token \notin live
      <4>1. live' = live /\ doubles' = doubles + 1
        BY <2>4, <3>1, <3>7 DEF Rotate
      <4>2. SessionBudget'
        BY <3>1, <3>4, <3>5, <4>1, Counts DEF BudgetInv, SessionBudget
      <4> QED BY <3>2, <4>2 DEF BudgetInv, LoginToken, Moves
    <3> QED BY <3>6, <3>7
  <2> QED BY <1>2, <2>1, <2>2, <2>3, <2>4 DEF Refresh
<1>3. ASSUME NEW r \in Requests, SignOff(r) \/ Answer(r) PROVE BudgetInv'
  <2>1. ASSUME NEW t \in Tokens, BeginLogout(r, t) PROVE BudgetInv'
    <3>1. h'[r].at = "logout" /\ Moves(r)
      BY <2>1, IdleHandlers, BecomeEffect DEF BeginLogout, Idle, Moves
    <3>2. UNCHANGED <<live, logins, doubles>>
      BY <2>1 DEF BeginLogout, rows, history
    <3> QED BY <3>1, <3>2, Elsewhere, BudgetShrinks DEF BudgetInv, LoginToken, Moves
  <2>2. CASE Logout(r)
    <3>1. h'[r].at = "ok" /\ Moves(r)
      BY <2>2, GotoEffect DEF Logout, Steps, Moves
    <3>2. live' \subseteq live /\ UNCHANGED <<logins, doubles>>
      BY <2>2 DEF Logout, history
    <3> QED BY <3>1, <3>2, Elsewhere, BudgetShrinks DEF BudgetInv, LoginToken, Moves
  <2>3. CASE Answer(r)
    <3>1. h'[r].at = "idle" /\ Moves(r)
      BY <2>3, IdleHandlers, BecomeEffect DEF Answer, Idle, Moves
    <3>2. UNCHANGED <<live, logins, doubles>>
      BY <2>3 DEF Answer, rows, history
    <3> QED BY <3>1, <3>2, Elsewhere, BudgetShrinks DEF BudgetInv, LoginToken, Moves
  <2> QED BY <1>3, <2>1, <2>2, <2>3 DEF SignOff
<1>4. ASSUME NEW r \in Requests, Status(r) PROVE BudgetInv'
  <2>1. h'[r].at \in {"merchant", "status", "revoke", "ok", "failed"} /\ Moves(r)
    <3>1. CASE \E suspend \in BOOLEAN : BeginStatus(r, suspend)
      <4>1. PICK suspend \in BOOLEAN :
              h' = [h EXCEPT ![r] = [Idle EXCEPT !.at = "merchant", !.suspend = suspend]]
        BY <3>1 DEF BeginStatus
      <4> QED BY <4>1, IdleHandlers, BecomeEffect DEF Idle, Moves
    <3>2. CASE StatusMerchant(r)
      <4>1. \E step \in {"failed", "status"} : Goto(r, step)
        BY <3>2 DEF StatusMerchant, Fail
      <4> QED BY <4>1, GotoEffect DEF Steps, AdminSteps, Moves
    <3>3. CASE StatusUser(r)
      <4>1. \E step \in {"revoke", "ok"} : Goto(r, step)
        BY <3>3 DEF StatusUser
      <4> QED BY <4>1, GotoEffect DEF Steps, AdminSteps, Moves
    <3>4. CASE StatusRevoke(r)
      BY <3>4, GotoEffect DEF StatusRevoke, Steps, Moves
    <3> QED BY <1>4, <3>1, <3>2, <3>3, <3>4 DEF Status
  <2>2. live' \subseteq live /\ UNCHANGED <<logins, doubles>>
    BY <1>4 DEF Status, BeginStatus, StatusMerchant, StatusUser, StatusRevoke, rows, history
  <2> QED BY <2>1, <2>2, Elsewhere, BudgetShrinks DEF BudgetInv, LoginToken, Moves
<1>5. CASE Settle
  <2>1. UNCHANGED <<h, live, logins, doubles>>
    BY <1>5 DEF Settle
  <2> QED BY <2>1, BudgetShrinks DEF BudgetInv, LoginToken, Rotating
<1>6. CASE Crash
  <2>1. UNCHANGED <<live, logins, doubles>>
    BY <1>6 DEF Crash, rows
  <2>2. \A r \in Requests : h'[r] = h[r] \/ h'[r] = [Idle EXCEPT !.at = "failed"]
    BY <1>6 DEF Crash
  <2>3. [Idle EXCEPT !.at = "failed"].at = "failed"
    BY DEF Idle
  <2>4. Rotating' \subseteq Rotating /\ LoginToken'
    BY <2>2, <2>3 DEF Rotating, LoginToken, BudgetInv
  <2> QED BY <2>1, <2>4, BudgetShrinks DEF BudgetInv
<1>7. CASE UNCHANGED vars
  <2>1. UNCHANGED <<h, live, logins, doubles>>
    BY <1>7 DEF vars, rows, history
  <2> QED BY <2>1, BudgetShrinks DEF BudgetInv, LoginToken, Rotating
<1> QED BY <1>1, <1>2, <1>3, <1>4, <1>5, <1>6, <1>7 DEF Next

\* SessionBudget, of any requests and tokens: no interleaving of refreshes,
\* logins and sign-outs makes more sessions than logins, but for the rotations
\* of a session that was revoked under the refresh.
THEOREM SessionBudgetHolds == Spec => []SessionBudget
<1>1. Init => BudgetInv
  <2> SUFFICES ASSUME Init PROVE BudgetInv
    OBVIOUS
  <2>1. live = {} /\ Rotating = {} /\ logins = 0 /\ doubles = 0 /\ LoginToken
    BY DEF Init, Rotating, LoginToken, Idle, LoginSteps
  <2> QED BY <2>1, FS_EmptySet DEF BudgetInv, SessionBudget
<1>2. BudgetInv => SessionBudget
  BY DEF BudgetInv
<1> QED BY <1>1, <1>2, TypeCorrect, BudgetNext, PTL DEF Spec

-----------------------------------------------------------------------------
(* The composition implements AuthSession: whatever the tabs, the network  *)
(* and dying processes do, the backend only takes steps of its own.        *)

LEMMA CStep == TypeOK /\ [CNext]_cvars => [Next]_vars
<1> SUFFICES ASSUME TypeOK, [CNext]_cvars PROVE [Next]_vars
  OBVIOUS
<1>1. ASSUME NEW b \in Tabs, Open(b) \/ SignIn(b) \/ Refreshes(b) \/ SignOut(b) \/ Close(b)
      PROVE  [Next]_vars
  <2>1. \/ UNCHANGED vars
        \/ \E r \in Requests : BeginLogin(r)
        \/ \E r \in Requests, t \in issued : BeginRefresh(r, t) \/ BeginLogout(r, t)
    BY <1>1 DEF Open, SignIn, Refreshes, SignOut, Close, BeginRefresh, BeginLogout
  <2>2. issued \subseteq Tokens
    BY DEF TypeOK
  <2> QED BY <2>1, <2>2 DEF Next, Login, Refresh, SignOff
<1>2. ASSUME NEW r \in Requests, Receive(r) \/ AnswerNobody(r) \/ NetworkFails(r)
      PROVE  [Next]_vars
  BY <1>2 DEF Receive, AnswerNobody, NetworkFails, Next
<1>3. CASE Backend
  BY <1>3 DEF Backend, Next, Login, Refresh, SignOff
<1>4. CASE BackendCrash
  BY <1>4 DEF BackendCrash, Next
<1>5. CASE UNCHANGED cvars
  BY <1>5 DEF cvars
<1> QED BY <1>1, <1>2, <1>3, <1>4, <1>5 DEF CNext

\* Every behaviour of tabs and backend is a behaviour of AuthSession, so that
\* the theorems above hold of it.
THEOREM Implementation == CSpec => Spec
<1>1. CInit => Init
  BY DEF CInit
<1>2. TypeOK /\ [CNext]_cvars => TypeOK'
  BY CStep, TypeNext
<1> QED BY <1>1, <1>2, TypeInit, CStep, PTL DEF CSpec, Spec

-----------------------------------------------------------------------------
(* BrowserAgrees. While calls take turns one tab is open at most, and one   *)
(* request has a caller; how far that one got says which session is live.   *)

Refreshing == {"restore", "api"}

\* Where the request of a call may stand, and what the browser stores then.
InStep(r, c) ==
  /\ screen[c.tab] # "closed"
  /\ c.kind = "login" => /\ h[r].at \in LoginSteps \cup {"issue", "ok", "failed"}
                         /\ stored = NoToken
  /\ c.kind \in Refreshing => /\ h[r].at \in RefreshSteps \cup {"issue", "ok", "failed"}
                              /\ stored # NoToken
                              /\ h[r].at \in RefreshSteps => h[r].token = stored
  /\ c.kind = "api" => screen[c.tab] = "in"
  /\ c.kind = "logout" => h[r].at \in {"logout", "ok", "failed"} /\ stored = NoToken

TurnsInv ==
  /\ \A b, c \in Tabs : screen[b] # "closed" /\ screen[c] # "closed" => b = c
  /\ \A b \in Tabs : screen[b] # "closed" => mem[b] = stored
  /\ \A b \in Tabs : screen[b] = "out" => stored = NoToken
  /\ \A r, q \in Requests : call[r] # {} /\ call[q] # {} => r = q
  /\ \A r \in Requests : \A c, d \in call[r] : c = d
  /\ \A r \in Requests : \A c \in call[r] : InStep(r, c)
  /\ \A r \in Requests : call[r] = {} => h[r].at \in {"idle", "ok", "failed"} \cup AdminSteps

\* The sessions that are live while r is at work for its caller.
Due(r, c) ==
  CASE h[r].at \in RefreshSteps -> {stored}
    [] h[r].at = "logout" \/ (h[r].at = "ok" /\ c.kind # "logout") -> {h[r].token}
    [] OTHER -> {}

LiveInv ==
  /\ user # "suspended"
  /\ user = "none" => issued = {} /\ \A r \in Requests : h[r].at # "issue"
  /\ \A r \in Requests : call[r] = {} => h[r].at = "idle"
  /\ (\A r \in Requests : call[r] = {}) => live = {stored} \ {NoToken}
  /\ \A r \in Requests : \A c \in call[r] :
       /\ live = Due(r, c)
       /\ c.kind # "login" => h[r].at # "failed"

BrowserInv == ~crossed => TurnsInv /\ (admin = 0 => LiveInv)

\* What a tab makes of an answer.
LEMMA TakeEffect ==
  ASSUME CTypeOK, NEW c \in Calls, NEW ok \in BOOLEAN, NEW t \in Tokens \cup {NoToken},
         Take(c, ok, t)
  PROVE  /\ screen' \in [Tabs -> {"closed", "out", "loading", "in"}]
         /\ mem' \in [Tabs -> Tokens \cup {NoToken}]
         /\ stored' \in Tokens \cup {NoToken}
         /\ \A b \in Tabs \ {c.tab} : screen'[b] = screen[b] /\ mem'[b] = mem[b]
         /\ mem[c.tab] = stored => mem'[c.tab] = stored'
         /\ c.kind = "logout" => stored' = NoToken /\ screen'[c.tab] = "out"
         /\ c.kind = "login" /\ ok => stored' = t /\ screen'[c.tab] = "in"
         /\ c.kind = "login" /\ ~ok => stored' = stored /\ screen'[c.tab] = screen[c.tab]
         /\ c.kind \in Refreshing => stored' = IF ok THEN t ELSE NoToken
         /\ c.kind = "restore" => screen'[c.tab] = IF ok THEN "in" ELSE "out"
         /\ c.kind = "api" => screen'[c.tab] = screen[c.tab]
<1>1. c.tab \in Tabs /\ c.kind \in {"login", "api", "restore", "logout"}
  BY DEF Calls, Kinds
<1>2. /\ screen \in [Tabs -> {"closed", "out", "loading", "in"}]
      /\ mem \in [Tabs -> Tokens \cup {NoToken}]
      /\ stored \in Tokens \cup {NoToken}
  BY DEF CTypeOK
<1>3. PICK s \in {"out", "in", screen[c.tab]} :
        /\ screen' = [screen EXCEPT ![c.tab] = s]
        /\ c.kind = "logout" => s = "out"
        /\ c.kind = "restore" => s = IF ok THEN "in" ELSE "out"
        /\ c.kind = "login" /\ ok => s = "in"
        /\ c.kind = "login" /\ ~ok => s = screen[c.tab]
        /\ c.kind = "api" => s = screen[c.tab]
  BY <1>1 DEF Take
<1>4. CASE c.kind = "login" /\ ~ok
  <2>1. UNCHANGED <<mem, stored>>
    BY <1>4 DEF Take
  <2> QED BY <1>1, <1>2, <1>3, <1>4, <2>1 DEF Refreshing
<1>5. CASE ~(c.kind = "login" /\ ~ok)
  <2>1. PICK m \in Tokens \cup {NoToken} :
          /\ mem' = [mem EXCEPT ![c.tab] = m] /\ stored' = m
          /\ c.kind = "logout" => m = NoToken
          /\ c.kind # "logout" => m = IF ok THEN t ELSE NoToken
    BY <1>1, <1>5 DEF Take, SetTokens
  <2> QED BY <1>1, <1>2, <1>3, <1>5, <2>1 DEF Refreshing
<1> QED BY <1>4, <1>5

LEMMA CTypeNext == CTypeOK /\ [CNext]_cvars => CTypeOK'
<1> SUFFICES ASSUME CTypeOK, [CNext]_cvars PROVE CTypeOK'
  OBVIOUS
<1>1. TypeOK'
  BY CStep, TypeNext DEF CTypeOK
<1>2. /\ screen \in [Tabs -> {"closed", "out", "loading", "in"}]
      /\ mem \in [Tabs -> Tokens \cup {NoToken}]
      /\ stored \in Tokens \cup {NoToken}
      /\ call \in [Requests -> SUBSET Calls]
      /\ crossed \in BOOLEAN
      /\ faults \in 0 .. MaxFaults /\ MaxFaults \in Nat
      /\ NoToken \in Tokens \cup {NoToken}
  BY FaultsAssumption DEF CTypeOK
<1>3. ASSUME NEW b \in Tabs, NEW r \in Requests, NEW kind \in Kinds, Await(b, r, kind)
      PROVE  /\ call' \in [Requests -> SUBSET Calls] /\ crossed' \in BOOLEAN
             /\ faults' \in 0 .. MaxFaults
  <2>1. {[tab |-> b, kind |-> kind]} \in SUBSET Calls
    BY DEF Calls
  <2> QED BY <1>2, <1>3, <2>1 DEF Await
<1>4. ASSUME NEW b \in Tabs, Open(b) PROVE CTypeOK'
  <2>1. /\ screen' \in [Tabs -> {"closed", "out", "loading", "in"}]
        /\ mem' \in [Tabs -> Tokens \cup {NoToken}] /\ stored' = stored
    BY <1>2, <1>4 DEF Open
  <2>2. /\ call' \in [Requests -> SUBSET Calls] /\ crossed' \in BOOLEAN
        /\ faults' \in 0 .. MaxFaults
    BY <1>2, <1>3, <1>4 DEF Open, Kinds
  <2> QED BY <1>1, <1>2, <2>1, <2>2 DEF CTypeOK
<1>5. ASSUME NEW b \in Tabs, SignIn(b) \/ Refreshes(b) PROVE CTypeOK'
  <2>1. /\ call' \in [Requests -> SUBSET Calls] /\ crossed' \in BOOLEAN
        /\ faults' \in 0 .. MaxFaults
    BY <1>3, <1>5 DEF SignIn, Refreshes, Kinds
  <2>2. UNCHANGED <<screen, mem, stored>>
    BY <1>5 DEF SignIn, Refreshes
  <2> QED BY <1>1, <1>2, <2>1, <2>2 DEF CTypeOK
<1>6. ASSUME NEW b \in Tabs, SignOut(b) PROVE CTypeOK'
  <2>1. mem' = [mem EXCEPT ![b] = NoToken] /\ stored' = NoToken
    BY <1>6 DEF SignOut
  <2>2. screen' \in [Tabs -> {"closed", "out", "loading", "in"}]
    BY <1>2, <1>6 DEF SignOut
  <2>3. /\ call' \in [Requests -> SUBSET Calls] /\ crossed' \in BOOLEAN
        /\ faults' \in 0 .. MaxFaults
    BY <1>2, <1>3, <1>6 DEF SignOut, Kinds
  <2> QED BY <1>1, <1>2, <2>1, <2>2, <2>3 DEF CTypeOK
<1>7. ASSUME NEW b \in Tabs, Close(b) PROVE CTypeOK'
  <2>1. /\ screen' \in [Tabs -> {"closed", "out", "loading", "in"}]
        /\ mem' \in [Tabs -> Tokens \cup {NoToken}]
        /\ UNCHANGED <<stored, faults>>
    BY <1>2, <1>7 DEF Close
  <2>2. call' \in [Requests -> SUBSET Calls]
    BY <1>2, <1>7 DEF Close
  <2>3. crossed' \in BOOLEAN
    BY <1>2, <1>7 DEF Close
  <2> QED BY <1>1, <1>2, <2>1, <2>2, <2>3 DEF CTypeOK
<1>8. ASSUME NEW r \in Requests, Receive(r) \/ NetworkFails(r) PROVE CTypeOK'
  <2>1. h[r].token \in Tokens \cup {NoToken}
    BY DEF CTypeOK, TypeOK, Handler
  <2>2. \E c \in Calls, ok \in BOOLEAN, t \in Tokens \cup {NoToken} : Take(c, ok, t)
    BY <1>2, <1>8, <2>1 DEF Receive, NetworkFails
  <2>3. /\ screen' \in [Tabs -> {"closed", "out", "loading", "in"}]
        /\ mem' \in [Tabs -> Tokens \cup {NoToken}]
        /\ stored' \in Tokens \cup {NoToken}
    BY <2>2, TakeEffect
  <2>4. call' \in [Requests -> SUBSET Calls]
    BY <1>2, <1>8 DEF Receive, NetworkFails
  <2>5. crossed' \in BOOLEAN /\ faults' \in 0 .. MaxFaults
    <3>1. CASE Receive(r)
      BY <1>2, <3>1 DEF Receive
    <3>2. CASE NetworkFails(r)
      BY <1>2, <3>2 DEF NetworkFails
    <3> QED BY <1>8, <3>1, <3>2
  <2> QED BY <1>1, <2>3, <2>4, <2>5 DEF CTypeOK
<1>9. ASSUME (\E r \in Requests : AnswerNobody(r)) \/ Backend PROVE CTypeOK'
  <2>1. UNCHANGED <<screen, mem, stored, call, crossed, faults>>
    BY <1>9 DEF AnswerNobody, Backend, browser
  <2> QED BY <1>1, <1>2, <2>1 DEF CTypeOK
<1>10. CASE BackendCrash
  <2>1. UNCHANGED <<screen, mem, stored, call>>
    BY <1>10 DEF BackendCrash
  <2>2. crossed' \in BOOLEAN /\ faults' \in 0 .. MaxFaults
    BY <1>2, <1>10 DEF BackendCrash
  <2> QED BY <1>1, <1>2, <2>1, <2>2 DEF CTypeOK
<1>11. CASE UNCHANGED cvars
  <2>1. UNCHANGED <<screen, mem, stored, call, crossed, faults>>
    BY <1>11 DEF cvars, browser
  <2> QED BY <1>1, <1>2, <2>1 DEF CTypeOK
<1> QED BY <1>4, <1>5, <1>6, <1>7, <1>8, <1>9, <1>10, <1>11 DEF CNext

\* Nobody waits while nothing is in flight.
LEMMA QuietMeansNoCall ==
  ASSUME CTypeOK, TurnsInv, Quiet
  PROVE  \A r \in Requests : call[r] = {}
<1> SUFFICES ASSUME NEW r \in Requests, NEW c \in call[r] PROVE FALSE
  OBVIOUS
<1>1. InStep(r, c) /\ c.kind \in {"login", "api", "restore", "logout"} /\ h[r].at = "idle"
  BY DEF CTypeOK, TurnsInv, Calls, Kinds, Quiet
<1> QED BY <1>1 DEF InStep, LoginSteps, RefreshSteps, Refreshing

Turns == ~crossed /\ TurnsInv /\ (admin = 0 => LiveInv)

\* A call begins while nothing is in flight and no other tab is open.
LEMMA CallBegins ==
  ASSUME CTypeOK, Turns, NEW b \in Tabs, NEW r \in Requests, NEW kind \in Kinds,
         NEW state \in Handler, h' = [h EXCEPT ![r] = state], state.at \notin {"failed", "issue"},
         Alone(b), Await(b, r, kind),
         \A t \in Tabs \ {b} : screen'[t] = screen[t],
         mem'[b] = stored', screen'[b] = "out" => stored' = NoToken,
         UNCHANGED <<user, issued, live, admin>>,
         InStep(r, [tab |-> b, kind |-> kind])',
         admin = 0 => live = Due(r, [tab |-> b, kind |-> kind])'
  PROVE  BrowserInv'
<1> DEFINE mine == [tab |-> b, kind |-> kind]
<1>1. /\ h'[r] = state /\ \A q \in Requests \ {r} : h'[q] = h[q] /\ h[q].at = "idle"
  BY BecomeEffect DEF CTypeOK, Alone, Quiet
<1>2. \A q \in Requests : call[q] = {}
  BY QuietMeansNoCall DEF Turns, Alone
<1>3. call'[r] = {mine} /\ \A q \in Requests \ {r} : call'[q] = {}
  BY <1>2 DEF CTypeOK, Await
<1>4. \A t \in Tabs \ {b} : screen'[t] = "closed"
  BY DEF Alone
<1>5. TurnsInv'
  <2>1. \A q \in Requests : \A c \in call'[q] : q = r /\ c = mine
    BY <1>3
  <2>2. \A q \in Requests : \A c \in call'[q] : InStep(q, c)'
    BY <2>1
  <2> QED BY <1>1, <1>3, <1>4, <2>1, <2>2 DEF TurnsInv
<1>6. ASSUME admin' = 0 PROVE LiveInv'
  <2>1. admin = 0 /\ LiveInv
    BY <1>6 DEF Turns
  <2>2. \A q \in Requests : \A c \in call'[q] :
          /\ live' = Due(q, c)'
          /\ c.kind # "login" => h'[q].at # "failed"
    BY <1>1, <1>3, <2>1
  <2>3. user' = "none" => issued' = {} /\ \A q \in Requests : h'[q].at # "issue"
    BY <1>1, <2>1 DEF LiveInv
  <2>4. \A q \in Requests : call'[q] = {} => h'[q].at = "idle"
    BY <1>1, <1>3
  <2>5. ~ \A q \in Requests : call'[q] = {}
    BY <1>3
  <2>6. user' # "suspended"
    BY <2>1 DEF LiveInv
  <2> QED BY <2>2, <2>3, <2>4, <2>5, <2>6 DEF LiveInv
<1> QED BY <1>5, <1>6 DEF BrowserInv

\* A request that its caller waits for goes on.
LEMMA CallGoesOn ==
  ASSUME CTypeOK, Turns, NEW r \in Requests, call[r] # {}, Moves(r), UNCHANGED browser,
         \A c \in call[r] : InStep(r, c)',
         UNCHANGED admin,
         admin = 0 => /\ user' # "suspended"
                      /\ user' = "none" => issued' = {} /\ \A q \in Requests : h'[q].at # "issue"
                      /\ \A c \in call[r] : /\ live' = Due(r, c)'
                                            /\ c.kind # "login" => h'[r].at # "failed"
  PROVE  BrowserInv'
<1>1. UNCHANGED <<screen, mem, stored, call>>
  BY DEF browser
<1>2. \A q \in Requests \ {r} : h'[q] = h[q] /\ call[q] = {}
  BY DEF Turns, TurnsInv, Moves
<1>3. TurnsInv'
  <2>1. \A q \in Requests : \A c \in call'[q] : InStep(q, c)'
    BY <1>1, <1>2
  <2> QED BY <1>1, <1>2, <2>1 DEF Turns, TurnsInv
<1>4. ASSUME admin' = 0 PROVE LiveInv'
  <2>1. admin = 0 /\ LiveInv
    BY <1>4 DEF Turns
  <2>2. \A q \in Requests : call'[q] = {} => h'[q].at = "idle"
    BY <1>1, <1>2, <2>1 DEF LiveInv
  <2>3. \A q \in Requests : \A c \in call'[q] :
          /\ live' = Due(q, c)'
          /\ c.kind # "login" => h'[q].at # "failed"
    BY <1>1, <1>2, <2>1
  <2>4. ~ \A q \in Requests : call'[q] = {}
    BY <1>1
  <2> QED BY <2>1, <2>2, <2>3, <2>4 DEF LiveInv
<1> QED BY <1>3, <1>4 DEF BrowserInv

\* A request nobody waits for is an administrator's.
LEMMA OthersGoOn ==
  ASSUME CTypeOK, Turns, UNCHANGED <<screen, mem, stored, call>>, admin' # 0,
         \A r \in Requests : IF call[r] = {}
                             THEN h'[r].at \in {"idle", "ok", "failed"} \cup AdminSteps
                             ELSE h'[r] = h[r]
  PROVE  BrowserInv'
<1>1. \A r \in Requests : \A c \in call[r] : InStep(r, c) => InStep(r, c)'
  BY DEF InStep
<1>2. TurnsInv'
  BY <1>1 DEF Turns, TurnsInv
<1> QED BY <1>2 DEF BrowserInv

\* The browser's own steps.
LEMMA TabsNext ==
  ASSUME CTypeOK, Turns, ~crossed', NEW b \in Tabs,
         Open(b) \/ SignIn(b) \/ Refreshes(b) \/ SignOut(b) \/ Close(b)
  PROVE  BrowserInv'
<1>1. /\ screen \in [Tabs -> {"closed", "out", "loading", "in"}]
      /\ mem \in [Tabs -> Tokens \cup {NoToken}]
      /\ stored \in Tokens \cup {NoToken}
      /\ call \in [Requests -> SUBSET Calls]
      /\ TypeOK /\ live \subseteq Tokens
  BY DEF CTypeOK, TypeOK
<1>2. ASSUME Quiet
      PROVE  /\ \A q \in Requests : call[q] = {}
             /\ admin = 0 => live = {stored} \ {NoToken}
  BY <1>2, QuietMeansNoCall DEF Turns, LiveInv
\* When a step leaves the backend alone and nobody waits.
<1>3. ASSUME UNCHANGED vars, \A q \in Requests : call[q] = {} /\ call'[q] = {},
             \A t, u \in Tabs : screen'[t] # "closed" /\ screen'[u] # "closed" => t = u,
             \A t \in Tabs : screen'[t] # "closed" => mem'[t] = stored',
             \A t \in Tabs : screen'[t] = "out" => stored' = NoToken,
             stored' = stored
      PROVE  BrowserInv'
  <2>1. UNCHANGED <<user, issued, live, h, admin>>
    BY <1>3 DEF vars, rows
  <2>2. TurnsInv'
    BY <1>3, <2>1 DEF Turns, TurnsInv
  <2>3. admin' = 0 => LiveInv'
    BY <1>3, <2>1 DEF Turns, LiveInv
  <2> QED BY <2>2, <2>3 DEF BrowserInv
<1>4. ASSUME NEW r \in Requests, NEW kind \in Kinds, Await(b, r, kind)
      PROVE  Alone(b) /\ Quiet /\ \A t \in Tabs \ {b} : screen[t] = "closed"
  BY <1>4 DEF Await, Alone
<1>5. CASE Open(b) /\ stored = NoToken
  <2>1. /\ mem' = [mem EXCEPT ![b] = stored] /\ stored' = stored
        /\ screen' = [screen EXCEPT ![b] = "out"] /\ UNCHANGED <<vars, call>>
        /\ Alone(b)
    BY <1>5 DEF Open
  <2>2. mem'[b] = stored' /\ screen'[b] = "out" /\ stored' = NoToken
    BY <1>1, <1>5, <2>1
  <2>3. \A t \in Tabs \ {b} : screen'[t] = "closed"
    BY <1>1, <2>1 DEF Alone
  <2>4. \A q \in Requests : call[q] = {} /\ call'[q] = {}
    BY <1>2, <2>1 DEF Alone
  <2> QED BY <1>3, <2>1, <2>2, <2>3, <2>4
<1>6. CASE Open(b) /\ stored # NoToken
  <2>1. /\ mem' = [mem EXCEPT ![b] = stored] /\ stored' = stored
        /\ screen' = [screen EXCEPT ![b] = "loading"]
    BY <1>6 DEF Open
  <2>2. PICK r \in Requests : BeginRefresh(r, stored) /\ Await(b, r, "restore")
    BY <1>6 DEF Open
  <2> DEFINE state == [Idle EXCEPT !.at = "find", !.token = stored]
  <2>3. /\ h' = [h EXCEPT ![r] = state] /\ UNCHANGED <<user, issued, live, admin>>
    BY <2>2 DEF BeginRefresh, rows
  <2>4. state \in Handler /\ state.at = "find" /\ state.token = stored
    BY <1>1, <1>6, IdleHandlers DEF Idle
  <2>5. h'[r] = state
    BY <1>1, <2>3, <2>4, BecomeEffect
  <2>6. /\ mem'[b] = stored' /\ screen'[b] = "loading"
        /\ \A t \in Tabs \ {b} : screen'[t] = screen[t]
    BY <1>1, <2>1
  <2>7. InStep(r, [tab |-> b, kind |-> "restore"])'
    BY <1>6, <2>1, <2>4, <2>5, <2>6 DEF InStep, Refreshing, RefreshSteps
  <2>8. Alone(b) /\ Quiet
    BY <1>4, <2>2 DEF Kinds
  <2>9. admin = 0 => live = Due(r, [tab |-> b, kind |-> "restore"])'
    BY <1>2, <1>6, <2>1, <2>4, <2>5, <2>8 DEF Due, RefreshSteps
  <2> QED BY <2>1, <2>2, <2>3, <2>4, <2>6, <2>7, <2>8, <2>9, CallBegins DEF Kinds
<1>7. CASE SignIn(b)
  <2>1. screen[b] = "out" /\ UNCHANGED <<screen, mem, stored>>
    BY <1>7 DEF SignIn
  <2>2. PICK r \in Requests : BeginLogin(r) /\ Await(b, r, "login")
    BY <1>7 DEF SignIn
  <2> DEFINE state == [Idle EXCEPT !.at = "login"]
  <2>3. /\ h' = [h EXCEPT ![r] = state] /\ UNCHANGED <<user, issued, live, admin>>
    BY <2>2 DEF BeginLogin, rows
  <2>4. state \in Handler /\ state.at = "login"
    BY IdleHandlers DEF Idle
  <2>5. h'[r] = state
    BY <1>1, <2>3, <2>4, BecomeEffect
  <2>6. stored = NoToken /\ mem[b] = stored
    BY <2>1 DEF Turns, TurnsInv
  <2>7. InStep(r, [tab |-> b, kind |-> "login"])'
    BY <2>1, <2>4, <2>5, <2>6 DEF InStep, Refreshing, LoginSteps
  <2>8. Alone(b) /\ Quiet
    BY <1>4, <2>2 DEF Kinds
  <2>9. admin = 0 => live = Due(r, [tab |-> b, kind |-> "login"])'
    BY <1>2, <2>4, <2>5, <2>6, <2>8 DEF Due, RefreshSteps
  <2> QED BY <2>1, <2>2, <2>3, <2>4, <2>6, <2>7, <2>8, <2>9, CallBegins DEF Kinds
<1>8. CASE Refreshes(b)
  <2>1. screen[b] = "in" /\ mem[b] # NoToken /\ UNCHANGED <<screen, mem, stored>>
    BY <1>8 DEF Refreshes
  <2>2. PICK r \in Requests : BeginRefresh(r, mem[b]) /\ Await(b, r, "api")
    BY <1>8 DEF Refreshes
  <2>3. mem[b] = stored /\ mem[b] \in Tokens
    BY <1>1, <2>1 DEF Turns, TurnsInv
  <2> DEFINE state == [Idle EXCEPT !.at = "find", !.token = mem[b]]
  <2>4. /\ h' = [h EXCEPT ![r] = state] /\ UNCHANGED <<user, issued, live, admin>>
    BY <2>2 DEF BeginRefresh, rows
  <2>5. state \in Handler /\ state.at = "find" /\ state.token = stored
    BY <2>3, IdleHandlers DEF Idle
  <2>6. h'[r] = state
    BY <1>1, <2>4, <2>5, BecomeEffect
  <2>7. InStep(r, [tab |-> b, kind |-> "api"])'
    <3>1. /\ h'[r].at = "find" /\ h'[r].token = stored' /\ screen'[b] = "in"
          /\ stored' # NoToken
      BY <2>1, <2>3, <2>5, <2>6
    <3> QED BY <3>1 DEF InStep, Refreshing, RefreshSteps
  <2>8. Alone(b) /\ Quiet
    BY <1>4, <2>2 DEF Kinds
  <2>9. admin = 0 => live = Due(r, [tab |-> b, kind |-> "api"])'
    <3>1. h'[r].at = "find" /\ stored' = stored /\ stored # NoToken
      BY <2>1, <2>3, <2>5, <2>6
    <3> QED BY <1>2, <2>8, <3>1 DEF Due, RefreshSteps
  <2>10. mem'[b] = stored' /\ screen'[b] = "in" /\ \A t \in Tabs \ {b} : screen'[t] = screen[t]
    BY <2>1, <2>3
  <2> QED BY <2>2, <2>4, <2>5, <2>7, <2>8, <2>9, <2>10, CallBegins DEF Kinds
<1>9. CASE SignOut(b) /\ mem[b] = NoToken
  <2>1. /\ screen[b] = "in" /\ mem' = [mem EXCEPT ![b] = NoToken] /\ stored' = NoToken
        /\ screen' = [screen EXCEPT ![b] = "out"] /\ UNCHANGED <<vars, call>>
    BY <1>9 DEF SignOut
  <2>2. stored = NoToken
    BY <1>9, <2>1 DEF Turns, TurnsInv
  <2>3. UNCHANGED <<user, issued, live, h, admin>>
    BY <2>1 DEF vars, rows
  <2>4. \A t \in Tabs \ {b} : screen'[t] = screen[t]
    BY <1>1, <2>1
  <2>5. screen'[b] = "out" /\ mem'[b] = NoToken
    BY <1>1, <2>1
  <2>6. ASSUME NEW r \in Requests, NEW c \in call[r] PROVE InStep(r, c)' /\ Due(r, c)' = Due(r, c)
    <3>1. InStep(r, c) /\ c.tab \in Tabs
      BY <1>1 DEF Turns, TurnsInv, Calls
    <3>2. c.kind # "api" /\ c.kind # "restore"
      BY <2>2, <3>1 DEF InStep, Refreshing
    <3>3. screen'[c.tab] # "closed"
      BY <2>4, <2>5, <3>1 DEF InStep
    <3> QED BY <2>1, <2>2, <2>3, <3>1, <3>2, <3>3 DEF InStep, Due, Refreshing
  <2>7. TurnsInv'
    <3>1. \A t, u \in Tabs : screen'[t] # "closed" /\ screen'[u] # "closed" => t = u
      BY <2>1, <2>4 DEF Turns, TurnsInv
    <3>2. \A t \in Tabs : screen'[t] # "closed" => mem'[t] = stored'
      BY <2>1, <2>5, <3>1
    <3> QED BY <2>1, <2>3, <2>6, <3>1, <3>2 DEF Turns, TurnsInv
  <2>8. admin' = 0 => LiveInv'
    BY <2>1, <2>2, <2>3, <2>6 DEF Turns, LiveInv
  <2> QED BY <2>7, <2>8 DEF BrowserInv
<1>10. CASE SignOut(b) /\ mem[b] # NoToken
  <2>1. /\ screen[b] = "in" /\ mem' = [mem EXCEPT ![b] = NoToken] /\ stored' = NoToken
        /\ UNCHANGED screen
    BY <1>10 DEF SignOut
  <2>2. PICK r \in Requests : BeginLogout(r, mem[b]) /\ Await(b, r, "logout")
    BY <1>10 DEF SignOut
  <2>3. mem[b] = stored /\ mem[b] \in Tokens
    BY <1>1, <1>10, <2>1 DEF Turns, TurnsInv
  <2> DEFINE state == [Idle EXCEPT !.at = "logout", !.token = mem[b]]
  <2>4. /\ h' = [h EXCEPT ![r] = state] /\ UNCHANGED <<user, issued, live, admin>>
    BY <2>2 DEF BeginLogout, rows
  <2>5. state \in Handler /\ state.at = "logout" /\ state.token = stored
    BY <2>3, IdleHandlers DEF Idle
  <2>6. h'[r] = state
    BY <1>1, <2>4, <2>5, BecomeEffect
  <2>7. h'[r].at = "logout" /\ h'[r].token = stored
    BY <2>5, <2>6
  <2>8. InStep(r, [tab |-> b, kind |-> "logout"])'
    BY <2>1, <2>7 DEF InStep, Refreshing
  <2>9. Alone(b) /\ Quiet
    BY <1>4, <2>2 DEF Kinds
  <2>10. admin = 0 => live = Due(r, [tab |-> b, kind |-> "logout"])'
    BY <1>2, <1>10, <2>3, <2>7, <2>9 DEF Due, RefreshSteps
  <2>11. mem'[b] = stored' /\ screen'[b] = "in" /\ \A t \in Tabs \ {b} : screen'[t] = screen[t]
    BY <1>1, <2>1
  <2> QED BY <2>2, <2>4, <2>5, <2>8, <2>9, <2>10, <2>11, CallBegins DEF Kinds
<1>11. CASE Close(b)
  <2>1. /\ screen' = [screen EXCEPT ![b] = "closed"] /\ mem' = [mem EXCEPT ![b] = NoToken]
        /\ call' = [r \in Requests |-> {c \in call[r] : c.tab # b}]
        /\ UNCHANGED <<vars, stored>> /\ Quiet
    BY <1>11 DEF Close
  <2>2. \A q \in Requests : call[q] = {} /\ call'[q] = {}
    BY <1>2, <2>1
  <2>3. /\ screen'[b] = "closed"
        /\ \A t \in Tabs \ {b} : screen'[t] = screen[t] /\ mem'[t] = mem[t]
    BY <1>1, <2>1
  <2>4. /\ \A t, u \in Tabs : screen'[t] # "closed" /\ screen'[u] # "closed" => t = u
        /\ \A t \in Tabs : screen'[t] # "closed" => mem'[t] = stored'
        /\ \A t \in Tabs : screen'[t] = "out" => stored' = NoToken
    BY <2>1, <2>3 DEF Turns, TurnsInv
  <2> QED BY <1>3, <2>1, <2>2, <2>4
<1> QED BY <1>5, <1>6, <1>7, <1>8, <1>9, <1>10, <1>11

\* An answer that is taken ends the one call there is.
LEMMA ReceiveNext ==
  ASSUME CTypeOK, Turns, NEW r \in Requests, Receive(r)
  PROVE  BrowserInv'
<1>1. PICK c \in call[r] : Take(c, h[r].at = "ok", h[r].token)
  BY DEF Receive
<1> DEFINE ok == h[r].at = "ok"
<1>2. /\ h[r].at \in {"ok", "failed"} /\ h' = [h EXCEPT ![r] = Idle]
      /\ call' = [call EXCEPT ![r] = {}]
      /\ UNCHANGED <<user, issued, live, admin>>
  BY DEF Receive, Answer, rows
<1>3. /\ c \in Calls /\ ok \in BOOLEAN /\ h[r].token \in Tokens \cup {NoToken}
      /\ TypeOK /\ live \subseteq Tokens /\ c.tab \in Tabs
      /\ c.kind \in {"login", "api", "restore", "logout"}
  BY DEF CTypeOK, TypeOK, Handler, Calls, Kinds
<1>4. InStep(r, c) /\ screen[c.tab] # "closed" /\ mem[c.tab] = stored
  BY <1>3 DEF Turns, TurnsInv, InStep
<1>t. /\ \A b \in Tabs \ {c.tab} : screen'[b] = screen[b]
      /\ mem'[c.tab] = stored'
      /\ c.kind = "logout" => stored' = NoToken /\ screen'[c.tab] = "out"
      /\ c.kind = "login" /\ ok => stored' = h[r].token /\ screen'[c.tab] = "in"
      /\ c.kind = "login" /\ ~ok => stored' = stored /\ screen'[c.tab] = screen[c.tab]
      /\ c.kind \in Refreshing => stored' = IF ok THEN h[r].token ELSE NoToken
      /\ c.kind = "restore" => screen'[c.tab] = IF ok THEN "in" ELSE "out"
      /\ c.kind = "api" => screen'[c.tab] = screen[c.tab]
  BY <1>1, <1>3, <1>4, TakeEffect
<1>5. /\ h'[r].at = "idle" /\ \A q \in Requests \ {r} : h'[q] = h[q]
  BY <1>2, <1>3, IdleHandlers, BecomeEffect DEF Idle
<1>6. \A q \in Requests : call'[q] = {}
  BY <1>2 DEF CTypeOK, Turns, TurnsInv
<1>7. \A t \in Tabs \ {c.tab} : screen[t] = "closed" /\ screen'[t] = "closed"
  <2>1. \A t \in Tabs : screen[t] # "closed" => t = c.tab
    BY <1>3, <1>4 DEF Turns, TurnsInv
  <2> QED BY <1>t, <2>1
<1>8. mem'[c.tab] = stored'
  BY <1>t
<1>9. screen'[c.tab] = "out" => stored' = NoToken
  <2>1. CASE c.kind = "login"
    BY <1>t, <1>4, <2>1 DEF InStep
  <2>2. CASE c.kind = "logout"
    BY <1>t, <2>2
  <2>3. CASE c.kind = "restore"
    BY <1>t, <2>3 DEF Refreshing
  <2>4. CASE c.kind = "api"
    BY <1>t, <1>4, <2>4 DEF InStep
  <2> QED BY <1>3, <2>1, <2>2, <2>3, <2>4
<1>10. TurnsInv'
  <2>1. \A q \in Requests : h'[q].at \in {"idle", "ok", "failed"} \cup AdminSteps
    <3>1. \A q \in Requests \ {r} : call[q] = {}
      BY DEF Turns, TurnsInv
    <3> QED BY <1>5, <3>1 DEF Turns, TurnsInv
  <2>2. /\ \A t, u \in Tabs : screen'[t] # "closed" /\ screen'[u] # "closed" => t = u
        /\ \A t \in Tabs : screen'[t] # "closed" => mem'[t] = stored'
        /\ \A t \in Tabs : screen'[t] = "out" => stored' = NoToken
    BY <1>7, <1>8, <1>9
  <2> QED BY <1>6, <2>1, <2>2 DEF TurnsInv
<1>11. ASSUME admin' = 0 PROVE LiveInv'
  <2>1. LiveInv
    BY <1>2, <1>11 DEF Turns
  <2>2. live = Due(r, c) /\ (c.kind # "login" => ok)
    BY <1>2, <2>1 DEF LiveInv
  <2>3. live = IF ok /\ c.kind # "logout" THEN {h[r].token} ELSE {}
    BY <1>2, <2>2 DEF Due, RefreshSteps
  <2>4. stored' = IF ok /\ c.kind # "logout" THEN h[r].token ELSE NoToken
    <3>1. CASE c.kind = "login"
      BY <1>t, <1>4, <3>1 DEF InStep
    <3>2. CASE c.kind = "logout"
      BY <1>t, <3>2
    <3>3. CASE c.kind \in Refreshing
      BY <1>t, <3>3 DEF Refreshing
    <3> QED BY <1>3, <3>1, <3>2, <3>3 DEF Refreshing
  <2>5. live' = {stored'} \ {NoToken}
    BY <1>2, <1>3, <2>3, <2>4, TokensAssumption
  <2>6. \A q \in Requests : h'[q].at = "idle"
    <3>1. \A q \in Requests \ {r} : call[q] = {}
      BY DEF Turns, TurnsInv
    <3> QED BY <1>5, <2>1, <3>1 DEF LiveInv
  <2> QED BY <1>2, <1>6, <2>1, <2>5, <2>6 DEF LiveInv
<1> QED BY <1>10, <1>11 DEF BrowserInv

\* An answer nobody waits for is an administrator's.
LEMMA AnswerNobodyNext ==
  ASSUME CTypeOK, Turns, NEW r \in Requests, AnswerNobody(r)
  PROVE  BrowserInv'
<1>1. /\ call[r] = {} /\ h[r].at # "idle" /\ h' = [h EXCEPT ![r] = Idle]
      /\ UNCHANGED <<screen, mem, stored, call, admin>>
  BY DEF AnswerNobody, Answer, browser
<1>2. admin' # 0
  BY <1>1 DEF Turns, LiveInv
<1>3. h'[r].at = "idle" /\ \A q \in Requests \ {r} : h'[q] = h[q]
  BY <1>1, IdleHandlers, BecomeEffect DEF Idle, CTypeOK
<1>4. \A q \in Requests : IF call[q] = {}
                          THEN h'[q].at \in {"idle", "ok", "failed"} \cup AdminSteps
                          ELSE h'[q] = h[q]
  BY <1>1, <1>3 DEF Turns, TurnsInv
<1> QED BY <1>1, <1>2, <1>4, OthersGoOn

\* The steps of a login, a refresh and a logout.
LEMMA ServedNext ==
  ASSUME CTypeOK, Turns, NEW r \in Requests, UNCHANGED browser,
         \/ LoginReadUser(r) \/ LoginCreate(r) \/ Issue(r)
         \/ RefreshFind(r) \/ RefreshReadUser(r) \/ Rotate(r) \/ Logout(r)
  PROVE  BrowserInv'
<1>1. /\ TypeOK /\ live \subseteq issued /\ issued \subseteq Tokens
      /\ user \in {"none", "active", "suspended"}
      /\ UNCHANGED <<screen, mem, stored, call>>
  BY DEF CTypeOK, TypeOK, browser
<1>2. h[r].at \in {"login", "create", "issue", "find", "user", "rotate", "logout"}
  BY DEF LoginReadUser, LoginCreate, Issue, RefreshFind, RefreshReadUser, Rotate, Logout
<1>3. PICK c \in call[r] : call[r] = {c} /\ InStep(r, c)
  <2>1. call[r] # {}
    BY <1>2 DEF Turns, TurnsInv, AdminSteps
  <2>2. \A c, d \in call[r] : c = d
    BY DEF Turns, TurnsInv
  <2> QED BY <2>1, <2>2 DEF Turns, TurnsInv
<1>4. c.kind \in {"login", "api", "restore", "logout"}
  BY <1>3 DEF CTypeOK, Calls, Kinds
<1>5. admin = 0 => /\ user # "suspended" /\ (user = "none" => issued = {})
                   /\ \A q \in Requests : user = "none" => h[q].at # "issue"
                   /\ live = Due(r, c)
  BY <1>3 DEF Turns, LiveInv
\* A step that ends where InStep and LiveInv want it.
<1>6. ASSUME Moves(r), InStep(r, c)', UNCHANGED admin,
             admin = 0 => /\ user' # "suspended" /\ (user' = "none" => issued' = {})
                          /\ user' = "none" => user = "none" /\ h'[r].at # "issue"
                          /\ live' = Due(r, c)'
                          /\ c.kind # "login" => h'[r].at # "failed"
      PROVE  BrowserInv'
  <2>1. admin = 0 /\ user' = "none" => \A q \in Requests : h'[q].at # "issue"
    BY <1>5, <1>6 DEF Moves
  <2> QED BY <1>3, <1>6, <2>1, CallGoesOn
<1> USE DEF LoginSteps, RefreshSteps, Refreshing
<1>7. CASE LoginReadUser(r)
  <2>1. PICK step \in {"create", "issue", "failed"} :
          /\ Goto(r, step) /\ (step = "issue" => user = "active")
    BY <1>1, <1>7 DEF LoginReadUser
  <2>2. h'[r].at = step /\ Moves(r)
    BY <1>1, <2>1, GotoEffect DEF Steps, Moves
  <2>3. h[r].at = "login" /\ UNCHANGED <<user, issued, live, admin>>
    BY <1>7 DEF LoginReadUser, rows
  <2>4. c.kind = "login"
    BY <1>3, <1>4, <2>3 DEF InStep
  <2>5. InStep(r, c)'
    BY <1>1, <1>3, <2>2, <2>4 DEF InStep
  <2>6. admin = 0 => live' = Due(r, c)'
    BY <1>5, <2>2, <2>3, <2>4 DEF Due
  <2> QED BY <1>5, <1>6, <2>1, <2>2, <2>3, <2>4, <2>5, <2>6
<1>8. CASE LoginCreate(r)
  <2>1. PICK step \in {"issue", "failed"} :
          /\ Goto(r, step)
          /\ step = "issue" => user' = "active"
          /\ step = "failed" => user' = user
    BY <1>8 DEF LoginCreate, Fail
  <2>2. h'[r].at = step /\ Moves(r)
    BY <1>1, <2>1, GotoEffect DEF Steps, Moves
  <2>3. h[r].at = "create" /\ UNCHANGED <<issued, live, admin>>
    BY <1>8 DEF LoginCreate
  <2>4. c.kind = "login"
    BY <1>3, <1>4, <2>3 DEF InStep
  <2>5. InStep(r, c)'
    BY <1>1, <1>3, <2>2, <2>4 DEF InStep
  <2>6. admin = 0 => live' = Due(r, c)'
    BY <1>5, <2>2, <2>3, <2>4 DEF Due
  <2> QED BY <1>5, <1>6, <2>1, <2>2, <2>3, <2>4, <2>5, <2>6
<1>9. CASE Issue(r)
  <2>1. PICK t \in Tokens \ issued :
          /\ issued' = issued \cup {t} /\ live' = live \cup {t}
          /\ h' = [h EXCEPT ![r] = [h[r] EXCEPT !.at = "ok", !.token = t]]
    BY <1>9 DEF Issue
  <2>2. h[r].at = "issue" /\ UNCHANGED <<user, admin>>
    BY <1>9 DEF Issue
  <2>3. h'[r].at = "ok" /\ h'[r].token = t /\ Moves(r)
    BY <1>1, <2>1 DEF TypeOK, Handler, Moves
  <2>4. c.kind # "logout"
    BY <1>3, <2>2 DEF InStep
  <2>5. InStep(r, c)'
    BY <1>1, <1>3, <2>3, <2>4 DEF InStep
  <2>6. admin = 0 => live = {}
    BY <1>5, <2>2 DEF Due
  <2>7. admin = 0 => live' = Due(r, c)'
    BY <2>1, <2>3, <2>4, <2>6 DEF Due
  <2>8. admin = 0 => user # "none"
    BY <1>5, <2>2
  <2> QED BY <1>5, <1>6, <2>2, <2>3, <2>5, <2>7, <2>8
<1>10. CASE RefreshFind(r)
  <2>1. PICK step \in {"user", "failed"} :
          Goto(r, step) /\ (h[r].token \in live => step = "user")
    BY <1>10 DEF RefreshFind
  <2>2. h'[r].at = step /\ h'[r].token = h[r].token /\ Moves(r)
    BY <1>1, <2>1, GotoEffect DEF Steps, Moves
  <2>3. h[r].at = "find" /\ UNCHANGED <<user, issued, live, admin>>
    BY <1>10 DEF RefreshFind, rows
  <2>4. c.kind \in {"api", "restore"} /\ h[r].token = stored
    BY <1>3, <1>4, <2>3 DEF InStep
  <2>5. InStep(r, c)'
    BY <1>1, <1>3, <2>2, <2>4 DEF InStep
  <2>6. admin = 0 => live = {stored} /\ step = "user"
    BY <1>5, <2>1, <2>3, <2>4 DEF Due
  <2>7. admin = 0 => live' = Due(r, c)'
    BY <1>1, <2>2, <2>3, <2>6 DEF Due
  <2> QED BY <1>5, <1>6, <2>2, <2>3, <2>5, <2>6, <2>7
<1>11. CASE RefreshReadUser(r)
  <2>1. PICK step \in {"rotate", "failed"} :
          Goto(r, step) /\ (user = "active" => step = "rotate")
    BY <1>11 DEF RefreshReadUser
  <2>2. h'[r].at = step /\ h'[r].token = h[r].token /\ Moves(r)
    BY <1>1, <2>1, GotoEffect DEF Steps, Moves
  <2>3. h[r].at = "user" /\ UNCHANGED <<user, issued, live, admin>>
    BY <1>11 DEF RefreshReadUser, rows
  <2>4. c.kind \in {"api", "restore"} /\ h[r].token = stored
    BY <1>3, <1>4, <2>3 DEF InStep
  <2>5. InStep(r, c)'
    BY <1>1, <1>3, <2>2, <2>4 DEF InStep
  <2>6. admin = 0 => live = {stored} /\ issued # {}
    BY <1>1, <1>5, <2>3 DEF Due
  <2>7. admin = 0 => step = "rotate"
    BY <1>1, <1>5, <2>1, <2>6
  <2>8. admin = 0 => live' = Due(r, c)'
    BY <1>1, <2>2, <2>3, <2>6, <2>7 DEF Due
  <2> QED BY <1>5, <1>6, <2>2, <2>3, <2>5, <2>7, <2>8
<1>12. CASE Rotate(r)
  <2>1. /\ h[r].at = "rotate" /\ Goto(r, "issue") /\ live' = live \ {h[r].token}
        /\ UNCHANGED <<user, issued, admin>>
    BY <1>12 DEF Rotate
  <2>2. h'[r].at = "issue" /\ Moves(r)
    BY <1>1, <2>1, GotoEffect DEF Steps, Moves
  <2>3. c.kind \in {"api", "restore"} /\ h[r].token = stored
    BY <1>3, <1>4, <2>1 DEF InStep
  <2>4. InStep(r, c)'
    BY <1>1, <1>3, <2>2, <2>3 DEF InStep
  <2>5. admin = 0 => live = {stored} /\ issued # {}
    BY <1>1, <1>5, <2>1 DEF Due
  <2>6. admin = 0 => live' = Due(r, c)'
    BY <2>1, <2>2, <2>3, <2>5 DEF Due
  <2> QED BY <1>5, <1>6, <2>1, <2>2, <2>4, <2>5, <2>6
<1>13. CASE Logout(r)
  <2>1. /\ h[r].at = "logout" /\ Goto(r, "ok") /\ live' = live \ {h[r].token}
        /\ UNCHANGED <<user, issued, admin>>
    BY <1>13 DEF Logout, history
  <2>2. h'[r].at = "ok" /\ Moves(r)
    BY <1>1, <2>1, GotoEffect DEF Steps, Moves
  <2>3. c.kind = "logout"
    BY <1>3, <1>4, <2>1 DEF InStep
  <2>4. InStep(r, c)'
    BY <1>1, <1>3, <2>2, <2>3 DEF InStep
  <2>5. admin = 0 => live' = Due(r, c)'
    BY <1>5, <2>1, <2>2, <2>3 DEF Due
  <2> QED BY <1>5, <1>6, <2>1, <2>2, <2>4, <2>5
<1> QED BY <1>7, <1>8, <1>9, <1>10, <1>11, <1>12, <1>13

\* An administrator, a settlement and the death of the process.
LEMMA AdminNext ==
  ASSUME CTypeOK, Turns, ~crossed',
         \/ UNCHANGED browser /\ (Settle \/ \E r \in Requests : Status(r))
         \/ BackendCrash
  PROVE  BrowserInv'
<1>1. /\ TypeOK /\ UNCHANGED <<screen, mem, stored, call>> /\ admin \in Nat
  BY AdminAssumption DEF CTypeOK, TypeOK, browser, BackendCrash
<1>2. \A q \in Requests : call[q] # {} =>
         h[q].at \in {"login", "create", "issue", "find", "user", "rotate", "logout", "ok", "failed"}
  <2>1. ASSUME NEW q \in Requests, NEW c \in call[q]
        PROVE  h[q].at \in {"login", "create", "issue", "find", "user", "rotate", "logout",
                            "ok", "failed"}
    <3>1. InStep(q, c) /\ c.kind \in {"login", "api", "restore", "logout"}
      BY DEF CTypeOK, Turns, TurnsInv, Calls, Kinds
    <3> QED BY <3>1 DEF InStep, LoginSteps, RefreshSteps, Refreshing
  <2> QED BY <2>1
<1>3. (\E q \in Requests : h[q].at \in AdminSteps) => admin # 0
  BY <1>2 DEF Turns, LiveInv, AdminSteps
<1>4. CASE Settle
  <2>1. admin' # 0 /\ UNCHANGED h
    BY <1>1, <1>4 DEF Settle
  <2>2. \A q \in Requests : IF call[q] = {}
                            THEN h'[q].at \in {"idle", "ok", "failed"} \cup AdminSteps
                            ELSE h'[q] = h[q]
    BY <2>1 DEF Turns, TurnsInv
  <2> QED BY <1>1, <2>1, <2>2, OthersGoOn
<1>5. ASSUME NEW r \in Requests, Status(r) PROVE BrowserInv'
  <2>1. /\ h[r].at \in {"idle"} \cup AdminSteps /\ Moves(r)
        /\ h'[r].at \in {"ok", "failed"} \cup AdminSteps
        /\ admin' # 0
    <3>1. CASE \E suspend \in BOOLEAN : BeginStatus(r, suspend)
      <4>1. PICK suspend \in BOOLEAN :
              /\ h[r].at = "idle" /\ admin' = admin + 1
              /\ h' = [h EXCEPT ![r] = [Idle EXCEPT !.at = "merchant", !.suspend = suspend]]
        BY <3>1 DEF BeginStatus
      <4>2. h'[r].at = "merchant" /\ Moves(r)
        BY <1>1, <4>1, IdleHandlers, BecomeEffect DEF Idle, Moves
      <4> QED BY <1>1, <4>1, <4>2 DEF AdminSteps
    <3>2. CASE StatusMerchant(r)
      <4>1. h[r].at = "merchant" /\ \E step \in {"failed", "status"} : Goto(r, step)
        BY <3>2 DEF StatusMerchant, Fail
      <4>2. admin' = admin
        BY <3>2 DEF StatusMerchant
      <4> QED BY <1>1, <1>3, <4>1, <4>2, GotoEffect DEF Steps, AdminSteps, Moves
    <3>3. CASE StatusUser(r)
      <4>1. h[r].at = "status" /\ \E step \in {"revoke", "ok"} : Goto(r, step)
        BY <3>3 DEF StatusUser
      <4>2. admin' = admin
        BY <3>3 DEF StatusUser
      <4> QED BY <1>1, <1>3, <4>1, <4>2, GotoEffect DEF Steps, AdminSteps, Moves
    <3>4. CASE StatusRevoke(r)
      <4>1. h[r].at = "revoke" /\ Goto(r, "ok") /\ admin' = admin
        BY <3>4 DEF StatusRevoke
      <4> QED BY <1>1, <1>3, <4>1, GotoEffect DEF Steps, AdminSteps, Moves
    <3> QED BY <1>5, <3>1, <3>2, <3>3, <3>4 DEF Status
  <2>2. call[r] = {}
    BY <1>2, <2>1 DEF AdminSteps
  <2>3. \A q \in Requests : IF call[q] = {}
                            THEN h'[q].at \in {"idle", "ok", "failed"} \cup AdminSteps
                            ELSE h'[q] = h[q]
    BY <2>1, <2>2 DEF Moves, Turns, TurnsInv
  <2> QED BY <1>1, <2>1, <2>3, OthersGoOn
<1>6. CASE BackendCrash
  <2>1. /\ \E q \in Requests : Busy(q)
        /\ \A q \in Requests : Busy(q) => Administers(q)
        /\ h' = [q \in Requests |-> IF Busy(q) THEN [Idle EXCEPT !.at = "failed"] ELSE h[q]]
        /\ admin' = admin
    BY <1>6 DEF BackendCrash, Crash
  <2>2. admin' # 0
    BY <1>3, <2>1 DEF Administers
  <2>3. \A q \in Requests : IF call[q] = {}
                            THEN h'[q].at \in {"idle", "ok", "failed"} \cup AdminSteps
                            ELSE h'[q] = h[q]
    <3> SUFFICES ASSUME NEW q \in Requests
                 PROVE  IF call[q] = {}
                        THEN h'[q].at \in {"idle", "ok", "failed"} \cup AdminSteps
                        ELSE h'[q] = h[q]
      OBVIOUS
    <3>1. CASE Busy(q)
      <4>1. h'[q].at = "failed"
        BY <2>1, <3>1 DEF Idle
      <4>2. call[q] = {}
        BY <1>2, <2>1, <3>1 DEF Administers, AdminSteps
      <4> QED BY <4>1, <4>2
    <3>2. CASE ~Busy(q)
      BY <2>1, <3>2 DEF Turns, TurnsInv
    <3> QED BY <3>1, <3>2
  <2> QED BY <1>1, <2>2, <2>3, OthersGoOn
<1> QED BY <1>4, <1>5, <1>6

LEMMA BrowserNext == CTypeOK /\ BrowserInv /\ [CNext]_cvars => BrowserInv'
<1> SUFFICES ASSUME CTypeOK, BrowserInv, [CNext]_cvars, ~crossed' PROVE BrowserInv'
  BY DEF BrowserInv
<1>1. ~crossed
  BY DEF CNext, Open, SignIn, Refreshes, SignOut, Close, Await, Receive, AnswerNobody,
         NetworkFails, Backend, BackendCrash, cvars, browser
<1>2. Turns
  BY <1>1 DEF BrowserInv, Turns
<1>3. ASSUME NEW b \in Tabs, Open(b) \/ SignIn(b) \/ Refreshes(b) \/ SignOut(b) \/ Close(b)
      PROVE  BrowserInv'
  BY <1>2, <1>3, TabsNext
<1>4. ASSUME NEW r \in Requests, Receive(r) \/ AnswerNobody(r) \/ NetworkFails(r)
      PROVE  BrowserInv'
  BY <1>2, <1>4, ReceiveNext, AnswerNobodyNext DEF NetworkFails
<1>5. CASE Backend \/ BackendCrash
  BY <1>2, <1>5, ServedNext, AdminNext DEF Backend
<1>6. CASE UNCHANGED cvars
  BY <1>6 DEF cvars, browser, vars, rows, BrowserInv, TurnsInv, LiveInv, InStep, Due
<1> QED BY <1>3, <1>4, <1>5, <1>6 DEF CNext

\* BrowserAgrees, of any tabs, tokens and requests: as long as calls take turns
\* and are answered, the browser stores the one session that is live.
THEOREM BrowserAgreesHolds == CSpec => []BrowserAgrees
<1>1. CInit => CTypeOK /\ BrowserInv
  <2> SUFFICES ASSUME CInit PROVE CTypeOK /\ BrowserInv
    OBVIOUS
  <2>1. CTypeOK
    <3>1. TypeOK
      BY TypeInit DEF CInit
    <3>2. faults \in 0 .. MaxFaults /\ crossed \in BOOLEAN
      <4>1. faults = 0 /\ crossed = FALSE
        BY DEF CInit
      <4>2. faults \in 0 .. MaxFaults
        BY <4>1, FaultsAssumption
      <4> QED BY <4>1, <4>2
    <3>3. call \in [Requests -> SUBSET Calls]
      BY DEF CInit
    <3> QED BY <3>1, <3>2, <3>3 DEF CInit, CTypeOK
  <2>2. TurnsInv /\ LiveInv
    BY DEF CInit, Init, TurnsInv, LiveInv, Idle
  <2> QED BY <2>1, <2>2 DEF BrowserInv
<1>2. CTypeOK /\ BrowserInv => BrowserAgrees
  <2> SUFFICES ASSUME CTypeOK, BrowserInv, ~crossed, Quiet
               PROVE  /\ \A b \in Tabs : screen[b] # "closed" => mem[b] = stored
                      /\ admin = 0 => live = {stored} \ {NoToken}
    BY DEF BrowserAgrees
  <2>1. TurnsInv
    BY DEF BrowserInv
  <2> QED BY <2>1, QuietMeansNoCall DEF BrowserInv, TurnsInv, LiveInv
<1> QED BY <1>1, <1>2, CTypeNext, BrowserNext, PTL DEF CSpec
=============================================================================
