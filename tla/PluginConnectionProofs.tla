----------------------- MODULE PluginConnectionProofs -----------------------
(***************************************************************************)
(* Theorems about PluginConnection, for every set of requests, handshakes  *)
(* and secrets and every number of faults.                                 *)
(***************************************************************************)
EXTENDS PluginConnection, FiniteSetTheorems, SequenceTheorems, TLAPS

-----------------------------------------------------------------------------
(* Type correctness.                                                       *)

\* The records of handlers that are not running are well typed.
LEMMA IdleTypes == IdleReq \in ReqState /\ IdleCall \in CallState
  BY DEF IdleReq, ReqState, ReqStep, SiteStatus, IdleCall, CallState, CallStep

\* Moving a request's handler changes nothing but its position.
LEMMA GotoEffect ==
  ASSUME TypeOK, NEW r \in Requests, NEW step \in ReqStep, Goto(r, step)
  PROVE  /\ req' \in [Requests -> ReqState]
         /\ req'[r].at = step
         /\ req'[r].secret = req[r].secret
         /\ req'[r].status = req[r].status
         /\ req'[r].seen = req[r].seen
         /\ \A q \in Requests \ {r} : req'[q] = req[q]
<1>1. req[r] \in ReqState
  BY DEF TypeOK
<1>2. [req[r] EXCEPT !.at = step] \in ReqState
  BY <1>1 DEF ReqState
<1> QED BY <1>1, <1>2 DEF TypeOK, Goto, ReqState

\* Moving a handshake changes nothing but its position.
LEMMA CallGotoEffect ==
  ASSUME TypeOK, NEW c \in Calls, NEW step \in CallStep, CallGoto(c, step)
  PROVE  /\ call' \in [Calls -> CallState]
         /\ call'[c].at = step
         /\ \A d \in Calls \ {c} : call'[d] = call[d]
<1>1. call[c] \in CallState
  BY DEF TypeOK
<1>2. [call[c] EXCEPT !.at = step] \in CallState
  BY <1>1 DEF CallState
<1> QED BY <1>1, <1>2 DEF TypeOK, CallGoto, CallState

\* A transaction that saw all of the secrets revokes all of them, and none
\* that it did not see; what it leaves is a list of secrets.
LEMMA RevokeSeen ==
  ASSUME NEW s \in Seq(Secrets), NEW n \in Nat
  PROVE  /\ SubSeq(s, n + 1, Len(s)) \in Seq(Secrets)
         /\ Len(SubSeq(s, n + 1, Len(s))) <= Len(s)
         /\ n = Len(s) => SubSeq(s, n + 1, Len(s)) = <<>>
<1>1. Len(s) \in Nat /\ \A i \in 1 .. Len(s) : s[i] \in Secrets
  BY LenProperties, ElementOfSeq
<1>2. n = Len(s) => SubSeq(s, n + 1, Len(s)) = <<>>
  BY <1>1, SubSeqEmpty
<1>3. /\ SubSeq(s, n + 1, Len(s)) \in Seq(Secrets)
      /\ Len(SubSeq(s, n + 1, Len(s))) <= Len(s)
  <2>1. \A i \in (n + 1) .. Len(s) : s[i] \in Secrets
    BY <1>1
  <2>2. CASE n <= Len(s)
    BY <2>1, <2>2, <1>1, SubSeqProperties
  <2>3. CASE n > Len(s)
    <3>1. SubSeq(s, n + 1, Len(s)) = <<>>
      BY <2>3, <1>1, SubSeqEmpty
    <3> QED BY <3>1, <1>1, EmptySeq
  <2> QED BY <2>2, <2>3, <1>1
<1> QED BY <1>2, <1>3

\* A rotation that has not stored its secret yet has one to store.
TypeInv ==
  /\ TypeOK
  /\ \A r \in Requests : req[r].at \in {"r_revoke", "r_insert"} => req[r].secret \in Secrets

\* The initial rows and handlers are well typed.
LEMMA TypeInitially == Init => TypeInv
<1> SUFFICES ASSUME Init PROVE TypeInv
  OBVIOUS
<1>0. crossed \in BOOLEAN
  BY DEF Init
<1>1. faults \in 0 .. MaxFaults
  BY FaultsAssumption DEF Init
<1>2. req \in [Requests -> ReqState] /\ call \in [Calls -> CallState]
  BY IdleTypes DEF Init
<1>3. active \in Seq(Secrets)
  BY EmptySeq DEF Init
<1>4. \A r \in Requests : req[r].at = "idle"
  BY DEF Init, IdleReq
<1> QED
  BY <1>0, <1>1, <1>2, <1>3, <1>4
     DEF Init, TypeInv, TypeOK, SiteStatus, ConnectionStatus, PluginStatus

\* Every step keeps the rows and the handlers' memories well typed, and
\* leaves a rotation its secret.
LEMMA TypeStep == TypeInv /\ [Next]_vars => TypeInv'
<1> SUFFICES ASSUME TypeInv, [Next]_vars PROVE TypeInv'
  OBVIOUS
<1>0. TypeOK
  BY DEF TypeInv
<1>1. TypeOK'
  <2> USE <1>0 DEF SiteStatus, ConnectionStatus, PluginStatus, rows
  <2>1. ASSUME NEW s \in Secrets, StartConnection(s) PROVE TypeOK'
    <3>1. <<s>> \in Seq(Secrets)
      OBVIOUS
    <3> QED BY <2>1, <3>1 DEF StartConnection, TypeOK
  <2>2. CASE SaveSettings
    BY <2>2 DEF SaveSettings, TypeOK
  <2>3. ASSUME NEW r \in Requests, RequestArrives(r) PROVE TypeOK'
    <3>1. ASSUME NEW s \in Secrets, RotateRead(r, s) PROVE TypeOK'
      <4>1. [IdleReq EXCEPT !.at = "r_revoke", !.secret = s] \in ReqState
        BY IdleTypes DEF ReqState, ReqStep, IdleReq
      <4> QED BY <3>1, <4>1 DEF RotateRead, Begin, TypeOK
    <3>2. ASSUME NEW h \in BOOLEAN, SettingsRead(r, h) PROVE TypeOK'
      <4>1. [IdleReq EXCEPT !.at = "s_write", !.status = IF h THEN "pending" ELSE site]
              \in ReqState
        BY IdleTypes DEF ReqState, ReqStep, IdleReq, TypeOK
      <4> QED BY <3>2, <4>1 DEF SettingsRead, Begin, TypeOK
    <3>3. CASE DisconnectBegin(r)
      <4>1. [IdleReq EXCEPT !.at = "d_commit", !.seen = Len(active)] \in ReqState
        BY IdleTypes, LenProperties DEF ReqState, ReqStep, IdleReq, TypeOK
      <4> QED BY <3>3, <4>1 DEF DisconnectBegin, Begin, TypeOK
    <3> QED BY <2>3, <3>1, <3>2, <3>3 DEF RequestArrives
  <2>4. ASSUME NEW r \in Requests, RequestContinues(r) PROVE TypeOK'
    <3> USE DEF ReqStep
    <3>1. CASE RotateRevoke(r)
      BY <3>1, GotoEffect, EmptySeq DEF RotateRevoke, TypeOK
    <3>2. CASE RotateInsert(r)
      <4>1. req[r].secret \in Secrets
        BY <3>2 DEF RotateInsert, TypeInv
      <4> QED BY <3>2, <4>1, GotoEffect, AppendProperties DEF RotateInsert, TypeOK
    <3>3. CASE RotatePlugin(r)
      BY <3>3, GotoEffect DEF RotatePlugin, TypeOK
    <3>4. CASE RotateSite(r)
      BY <3>4, GotoEffect DEF RotateSite, TypeOK
    <3>5. CASE RotateAnswer(r)
      BY <3>5, IdleTypes DEF RotateAnswer, TypeOK, ReqState
    <3>6. CASE SettingsWrite(r)
      BY <3>6, IdleTypes DEF SettingsWrite, TypeOK, ReqState
    <3>7. CASE DisconnectCommit(r)
      BY <3>7, IdleTypes, RevokeSeen DEF DisconnectCommit, TypeOK, ReqState
    <3> QED BY <2>4, <3>1, <3>2, <3>3, <3>4, <3>5, <3>6, <3>7 DEF RequestContinues
  <2>5. ASSUME NEW c \in Calls, HandshakeArrives(c) PROVE TypeOK'
    <3>1. [at |-> "c_plugin", secret |-> held] \in CallState
      BY DEF CallState, CallStep, TypeOK
    <3> QED BY <2>5, <3>1 DEF HandshakeArrives, TypeOK
  <2>6. ASSUME NEW c \in Calls, CallContinues(c) PROVE TypeOK'
    BY <2>6, CallGotoEffect, IdleTypes
       DEF CallContinues, CheckPlugin, CheckSecret, Refuse, HandshakePlugin,
           HandshakeConnection, HandshakeSite, CallStep, TypeOK
  <2>7. ASSUME NEW r \in Requests, Abort(r) PROVE TypeOK'
    BY <2>7, IdleTypes, FaultsAssumption DEF Abort, TypeOK
  <2>8. ASSUME NEW c \in Calls, CallAborts(c) PROVE TypeOK'
    BY <2>8, IdleTypes, FaultsAssumption DEF CallAborts, TypeOK
  <2>9. CASE Crash
    BY <2>9, IdleTypes, FaultsAssumption DEF Crash, TypeOK
  <2>10. CASE UNCHANGED vars
    BY <2>10 DEF vars, TypeOK
  <2> QED
    BY <2>1, <2>2, <2>3, <2>4, <2>5, <2>6, <2>7, <2>8, <2>9, <2>10 DEF Next
<1>2. ASSUME NEW r \in Requests, req'[r].at \in {"r_revoke", "r_insert"}
      PROVE  req'[r].secret \in Secrets
  <2> USE <1>0, <1>2
  <2>1. CASE UNCHANGED req
    BY <2>1 DEF TypeInv
  <2>2. ASSUME NEW q \in Requests, RequestArrives(q) PROVE req'[r].secret \in Secrets
    BY <2>2 DEF RequestArrives, RotateRead, SettingsRead, DisconnectBegin, Begin,
                IdleReq, TypeInv, TypeOK
  <2>3. ASSUME NEW q \in Requests, RequestContinues(q) PROVE req'[r].secret \in Secrets
    BY <2>3, GotoEffect
       DEF RequestContinues, RotateRevoke, RotateInsert, RotatePlugin, RotateSite,
           RotateAnswer, SettingsWrite, DisconnectCommit, ReqStep, IdleReq, TypeInv, TypeOK
  <2>4. ASSUME NEW q \in Requests, Abort(q) PROVE req'[r].secret \in Secrets
    BY <2>4 DEF Abort, IdleReq, TypeInv, TypeOK
  <2>5. CASE Crash
    BY <2>5 DEF Crash, IdleReq
  <2>6. UNCHANGED req \/ Crash
          \/ \E q \in Requests : RequestArrives(q) \/ RequestContinues(q) \/ Abort(q)
    BY DEF Next, vars, StartConnection, SaveSettings, HandshakeArrives, CallContinues,
           CheckPlugin, CheckSecret, Refuse, HandshakePlugin, HandshakeConnection,
           HandshakeSite, CallAborts
  <2> QED BY <2>1, <2>2, <2>3, <2>4, <2>5, <2>6
<1> QED BY <1>1, <1>2 DEF TypeInv

LEMMA TypeInvariant == Spec => []TypeInv
  BY TypeInitially, TypeStep, PTL DEF Spec

\* Every row and every handler's memory stays well typed.
THEOREM TypeCorrect == Spec => []TypeOK
<1>1. TypeInv => TypeOK
  BY DEF TypeInv
<1> QED BY <1>1, TypeInvariant, PTL


-----------------------------------------------------------------------------
(* What holds as long as requests do not cross. Each handler is described  *)
(* by what it has reached of the next settled state; a rotation may begin  *)
(* in any state of the rows of a store that is not disconnected.           *)

Settled ==
  /\ active \in {<<>>, <<shown>>}
  /\ site = "connected"
       => plugin = "connected" /\ connection = "verified" /\ active = <<shown>>
  /\ site = "disconnected"
       => /\ connection = "revoked"
          /\ \/ plugin = "revoked" /\ active = <<>>
             \/ plugin = "pending" /\ active = <<shown>>

RequestProgress(r) ==
  /\ req[r].at = "r_revoke" => Settled \/ site # "disconnected"
  /\ req[r].at \in {"r_insert", "r_plugin", "r_site", "r_answer"} /\ site = "disconnected"
       => connection = "revoked"
  /\ req[r].at = "r_insert" => active = <<>>
  /\ req[r].at \in {"r_plugin", "r_site", "r_answer"} => active = <<req[r].secret>>
  /\ req[r].at \in {"r_site", "r_answer"} => plugin = "pending"
  /\ req[r].at = "r_answer" => site # "connected"
  /\ req[r].at = "s_write" => Settled /\ req[r].status \in {"pending", site}
  /\ req[r].at = "d_commit" => req[r].seen = Len(active)

CallProgress(c) ==
  /\ call[c].at # "idle" => site # "disconnected"
  /\ call[c].at \in {"h_plugin", "h_connection", "h_site"} => active = <<shown>>
  /\ call[c].at \in {"h_connection", "h_site"} => plugin = "connected"
  /\ call[c].at = "h_site" => connection = "verified"

Uncrossed ==
  /\ Quiet \/ NoHandshake
  /\ \A q, r \in Requests : q # r => req[q].at = "idle" \/ req[r].at = "idle"
  /\ Quiet => Settled
  /\ \A r \in Requests : RequestProgress(r)
  /\ \A c \in Calls : CallProgress(c)

\* Before the store exists nothing has happened.
Absent ==
  /\ active = <<>> /\ shown = NoSecret /\ held = NoSecret
  /\ Quiet /\ NoHandshake

ConnectionInv ==
  /\ TypeOK
  /\ site = "absent" => Absent
  /\ \A r \in Requests : req[r].at = "s_write" => req[r].status # "absent"
  /\ ~crossed => Uncrossed

\* While a request runs alone, the settled state is described by how far it
\* has come.
LEMMA RequestAlone ==
  ASSUME Uncrossed, NEW r \in Requests, req[r].at # "idle", UNCHANGED call,
         \A q \in Requests \ {r} : req'[q] = req[q],
         req'[r].at # "idle", RequestProgress(r)'
  PROVE  Uncrossed'
<1>1. NoHandshake /\ \A q \in Requests \ {r} : req[q].at = "idle"
  BY DEF Uncrossed, Quiet
<1>2. NoHandshake' /\ ~Quiet'
  BY <1>1 DEF NoHandshake, Quiet
<1>3. \A q \in Requests \ {r} : req'[q].at = "idle"
  BY <1>1
<1>4. \A q \in Requests : RequestProgress(q)'
  BY <1>3 DEF RequestProgress
<1>5. \A c \in Calls : CallProgress(c)'
  BY <1>2 DEF NoHandshake, CallProgress
<1> QED BY <1>2, <1>3, <1>4, <1>5 DEF Uncrossed

\* The request that ran alone ends, in a settled state.
LEMMA RequestEnds ==
  ASSUME TypeOK, Uncrossed, NEW r \in Requests, req[r].at # "idle", UNCHANGED call,
         req' = [req EXCEPT ![r] = IdleReq], Settled'
  PROVE  Uncrossed'
<1>1. NoHandshake /\ \A q \in Requests \ {r} : req[q].at = "idle"
  BY DEF Uncrossed, Quiet
<1>2. NoHandshake'
  BY <1>1 DEF NoHandshake
<1>3. \A q \in Requests : req'[q].at = "idle"
  BY <1>1 DEF IdleReq, TypeOK
<1>4. \A q \in Requests : RequestProgress(q)'
  BY <1>3 DEF RequestProgress
<1>5. \A c \in Calls : CallProgress(c)'
  BY <1>2 DEF NoHandshake, CallProgress
<1> QED BY <1>2, <1>3, <1>4, <1>5 DEF Uncrossed

\* A request begins when nothing else is under way.
LEMMA RequestBegins ==
  ASSUME TypeOK, Quiet, NoHandshake, NEW r \in Requests, UNCHANGED call, NEW state,
         req' = [req EXCEPT ![r] = state], state.at # "idle", RequestProgress(r)'
  PROVE  Uncrossed'
<1>1. req'[r] = state /\ \A q \in Requests \ {r} : req'[q] = req[q]
  BY DEF TypeOK
<1>2. \A q \in Requests \ {r} : req'[q].at = "idle"
  BY <1>1 DEF Quiet
<1>3. NoHandshake' /\ ~Quiet'
  BY <1>1 DEF NoHandshake, Quiet
<1>4. \A q \in Requests : RequestProgress(q)'
  BY <1>2 DEF RequestProgress
<1>5. \A c \in Calls : CallProgress(c)'
  BY <1>3 DEF NoHandshake, CallProgress
<1> QED BY <1>2, <1>3, <1>4, <1>5 DEF Uncrossed

\* Handshakes move while no request runs, from a settled state to another.
LEMMA CallsAlone ==
  ASSUME Quiet, UNCHANGED req, Settled', \A c \in Calls : CallProgress(c)'
  PROVE  Uncrossed'
<1>1. Quiet' /\ \A q \in Requests : req'[q].at = "idle"
  BY DEF Quiet
<1>2. \A q \in Requests : RequestProgress(q)'
  BY <1>1 DEF RequestProgress
<1> QED BY <1>1, <1>2 DEF Uncrossed

\* A request that begins uncrossed finds nothing under way and, if it renews
\* only part of the rows, settled rows.
LEMMA RequestArrivesUncrossed ==
  ASSUME ConnectionInv, ~crossed', NEW r \in Requests, RequestArrives(r)
  PROVE  Uncrossed'
<1> USE DEF ConnectionInv
<1>1. ASSUME NEW s \in Secrets, RotateRead(r, s) PROVE Uncrossed'
  <2> DEFINE state == [IdleReq EXCEPT !.at = "r_revoke", !.secret = s]
  <2>1. Quiet /\ NoHandshake /\ (crossed => site # "disconnected")
    BY <1>1 DEF RotateRead, Begin
  <2>2. req' = [req EXCEPT ![r] = state] /\ UNCHANGED <<rows, shown, call>>
    BY <1>1 DEF RotateRead, Begin
  <2>3. state.at = "r_revoke"
    BY DEF IdleReq
  <2>4. req'[r].at = "r_revoke"
    BY <2>2, <2>3 DEF TypeOK
  <2>5. Settled \/ site # "disconnected"
    BY <2>1 DEF Uncrossed
  <2>6. (Settled \/ site # "disconnected")'
    BY <2>2, <2>5 DEF Settled, rows
  <2>7. RequestProgress(r)'
    BY <2>4, <2>6 DEF RequestProgress
  <2> QED BY <2>1, <2>2, <2>3, <2>7, RequestBegins
<1>2. ASSUME NEW h \in BOOLEAN, SettingsRead(r, h) PROVE Uncrossed'
  <2> DEFINE state == [IdleReq EXCEPT !.at = "s_write",
                                      !.status = IF h THEN "pending" ELSE site]
  <2>1. Quiet /\ NoHandshake /\ ~crossed
    BY <1>2 DEF SettingsRead, Begin
  <2>2. req' = [req EXCEPT ![r] = state] /\ UNCHANGED <<rows, shown, call>>
    BY <1>2 DEF SettingsRead, Begin
  <2>3. state.at = "s_write" /\ state.status \in {"pending", site}
    BY DEF IdleReq
  <2>4. req'[r] = state
    BY <2>2 DEF TypeOK
  <2>5. Settled'
    BY <2>1, <2>2 DEF Uncrossed, Settled, rows
  <2>6. req'[r].at = "s_write" /\ req'[r].status \in {"pending", site'}
    BY <2>2, <2>3, <2>4 DEF rows
  <2>7. RequestProgress(r)'
    BY <2>5, <2>6 DEF RequestProgress
  <2> QED BY <2>1, <2>2, <2>3, <2>7, RequestBegins
<1>3. CASE DisconnectBegin(r)
  <2> DEFINE state == [IdleReq EXCEPT !.at = "d_commit", !.seen = Len(active)]
  <2>1. Quiet /\ NoHandshake
    BY <1>3 DEF DisconnectBegin, Begin
  <2>2. req' = [req EXCEPT ![r] = state] /\ UNCHANGED <<rows, shown, call>>
    BY <1>3 DEF DisconnectBegin, Begin
  <2>3. state.at = "d_commit" /\ state.seen = Len(active)
    BY DEF IdleReq
  <2>4. req'[r] = state
    BY <2>2 DEF TypeOK
  <2>5. req'[r].at = "d_commit" /\ req'[r].seen = Len(active')
    BY <2>2, <2>3, <2>4 DEF rows
  <2>6. RequestProgress(r)'
    BY <2>5 DEF RequestProgress
  <2> QED BY <2>1, <2>2, <2>3, <2>6, RequestBegins
<1> QED BY <1>1, <1>2, <1>3 DEF RequestArrives

\* Each further statement of a request that runs alone takes it to the next
\* position, or ends it in a settled state.
LEMMA RequestContinuesUncrossed ==
  ASSUME ConnectionInv, ~crossed', NEW r \in Requests, RequestContinues(r)
  PROVE  Uncrossed'
<1> USE DEF ConnectionInv
<1>1. Uncrossed /\ RequestProgress(r)
  BY DEF RequestContinues, RotateRevoke, RotateInsert, RotatePlugin, RotateSite,
         RotateAnswer, SettingsWrite, DisconnectCommit, Uncrossed
<1>2. CASE RotateRevoke(r)
  <2>1. /\ req'[r].at = "r_insert" /\ \A q \in Requests \ {r} : req'[q] = req[q]
        /\ req[r].at = "r_revoke"
    BY <1>2, GotoEffect DEF RotateRevoke, ReqStep
  <2>2. UNCHANGED <<site, connection, call>> /\ active' = <<>>
    BY <1>2 DEF RotateRevoke
  <2>3. site = "disconnected" => connection = "revoked"
    BY <1>1, <2>1 DEF RequestProgress, Settled
  <2>4. RequestProgress(r)'
    BY <2>1, <2>2, <2>3 DEF RequestProgress
  <2> QED BY <1>1, <2>1, <2>2, <2>4, RequestAlone
<1>3. CASE RotateInsert(r)
  <2>1. /\ req'[r].at = "r_plugin" /\ \A q \in Requests \ {r} : req'[q] = req[q]
        /\ req[r].at = "r_insert" /\ req'[r].secret = req[r].secret
    BY <1>3, GotoEffect DEF RotateInsert, ReqStep
  <2>2. UNCHANGED <<site, connection, call>> /\ active' = Append(active, req[r].secret)
    BY <1>3 DEF RotateInsert
  <2>3. active = <<>> /\ (site = "disconnected" => connection = "revoked")
    BY <1>1, <2>1 DEF RequestProgress
  <2>4. active' = <<req'[r].secret>>
    BY <2>1, <2>2, <2>3
  <2>5. RequestProgress(r)'
    BY <2>1, <2>2, <2>3, <2>4 DEF RequestProgress
  <2> QED BY <1>1, <2>1, <2>2, <2>5, RequestAlone
<1>4. CASE RotatePlugin(r)
  <2>1. /\ req'[r].at = "r_site" /\ \A q \in Requests \ {r} : req'[q] = req[q]
        /\ req[r].at = "r_plugin" /\ req'[r].secret = req[r].secret
    BY <1>4, GotoEffect DEF RotatePlugin, ReqStep
  <2>2. UNCHANGED <<site, connection, call, active>> /\ plugin' = "pending"
    BY <1>4 DEF RotatePlugin
  <2>3. RequestProgress(r)'
    BY <1>1, <2>1, <2>2 DEF RequestProgress
  <2> QED BY <1>1, <2>1, <2>2, <2>3, RequestAlone
<1>5. CASE RotateSite(r)
  <2>1. /\ req'[r].at = "r_answer" /\ \A q \in Requests \ {r} : req'[q] = req[q]
        /\ req[r].at = "r_site" /\ req'[r].secret = req[r].secret
    BY <1>5, GotoEffect DEF RotateSite, ReqStep
  <2>2. /\ UNCHANGED <<connection, call, active, plugin>>
        /\ site' = IF site = "disconnected" THEN site ELSE "pending"
    BY <1>5 DEF RotateSite
  <2>3. RequestProgress(r)'
    BY <1>1, <2>1, <2>2 DEF RequestProgress
  <2> QED BY <1>1, <2>1, <2>2, <2>3, RequestAlone
<1>6. CASE RotateAnswer(r)
  <2>1. /\ req[r].at = "r_answer" /\ shown' = req[r].secret
        /\ req' = [req EXCEPT ![r] = IdleReq] /\ UNCHANGED <<rows, call>>
    BY <1>6 DEF RotateAnswer
  <2>2. Settled'
    BY <1>1, <2>1 DEF RequestProgress, Settled, rows
  <2> QED BY <1>1, <2>1, <2>2, RequestEnds
<1>7. CASE SettingsWrite(r)
  <2>1. /\ req[r].at = "s_write" /\ site' = req[r].status
        /\ req' = [req EXCEPT ![r] = IdleReq]
        /\ UNCHANGED <<connection, plugin, active, shown, call>>
    BY <1>7 DEF SettingsWrite
  <2>2. Settled'
    BY <1>1, <2>1 DEF RequestProgress, Settled
  <2> QED BY <1>1, <2>1, <2>2, RequestEnds
<1>8. CASE DisconnectCommit(r)
  <2>1. /\ req[r].at = "d_commit" /\ site' = "disconnected" /\ plugin' = "revoked"
        /\ active' = SubSeq(active, req[r].seen + 1, Len(active))
        /\ connection' = "revoked" /\ UNCHANGED call
        /\ req' = [req EXCEPT ![r] = IdleReq]
    BY <1>8 DEF DisconnectCommit
  <2>2. req[r].seen = Len(active)
    BY <1>1, <2>1 DEF RequestProgress
  <2>3. active' = <<>>
    BY <2>1, <2>2, RevokeSeen, LenProperties DEF TypeOK
  <2>4. Settled'
    BY <2>1, <2>3 DEF Settled
  <2> QED BY <1>1, <2>1, <2>4, RequestEnds
<1> QED BY <1>2, <1>3, <1>4, <1>5, <1>6, <1>7, <1>8 DEF RequestContinues

\* Each statement of a handshake that no request runs beside keeps the rows
\* settled.
LEMMA CallContinuesUncrossed ==
  ASSUME ConnectionInv, ~crossed', NEW c \in Calls, CallContinues(c)
  PROVE  Uncrossed'
<1> USE DEF ConnectionInv
<1>1. call[c].at # "idle" /\ UNCHANGED <<req, shown, crossed>>
  BY DEF CallContinues, CheckPlugin, CheckSecret, Refuse, HandshakePlugin,
         HandshakeConnection, HandshakeSite, rows
<1>2. Quiet /\ Settled /\ \A d \in Calls : CallProgress(d)
  BY <1>1 DEF Uncrossed, NoHandshake
<1>3. site # "disconnected" /\ CallProgress(c)
  BY <1>1, <1>2 DEF CallProgress
<1>4. CASE CheckPlugin(c)
  <2>1. /\ call'[c].at = "c_secret" /\ \A d \in Calls \ {c} : call'[d] = call[d]
        /\ UNCHANGED <<rows, shown>>
    BY <1>4, CallGotoEffect DEF CheckPlugin, CallStep
  <2>2. Settled'
    BY <1>2, <2>1 DEF Settled, rows
  <2>3. \A d \in Calls : CallProgress(d)'
    BY <1>2, <1>3, <2>1 DEF CallProgress, rows
  <2> QED BY <1>1, <1>2, <2>2, <2>3, CallsAlone
<1>5. CASE CheckSecret(c)
  <2>1. /\ call'[c].at = "h_plugin" /\ \A d \in Calls \ {c} : call'[d] = call[d]
        /\ UNCHANGED <<rows, shown>> /\ active # <<>>
    BY <1>5, CallGotoEffect DEF CheckSecret, CallStep
  <2>2. Settled'
    BY <1>2, <2>1 DEF Settled, rows
  <2>3. active = <<shown>>
    BY <1>2, <2>1 DEF Settled
  <2>4. \A d \in Calls : CallProgress(d)'
    BY <1>2, <1>3, <2>1, <2>3 DEF CallProgress, rows
  <2> QED BY <1>1, <1>2, <2>2, <2>4, CallsAlone
<1>6. CASE Refuse(c)
  <2>1. /\ call'[c].at = "idle" /\ \A d \in Calls \ {c} : call'[d] = call[d]
        /\ UNCHANGED <<rows, shown>>
    BY <1>6 DEF Refuse, TypeOK, IdleCall
  <2>2. Settled'
    BY <1>2, <2>1 DEF Settled, rows
  <2>3. \A d \in Calls : CallProgress(d)'
    BY <1>2, <2>1 DEF CallProgress, rows
  <2> QED BY <1>1, <1>2, <2>2, <2>3, CallsAlone
<1>7. CASE HandshakePlugin(c)
  <2>1. /\ call'[c].at = "h_connection" /\ \A d \in Calls \ {c} : call'[d] = call[d]
        /\ UNCHANGED <<site, connection, active, shown>> /\ plugin' = "connected"
        /\ call[c].at = "h_plugin"
    BY <1>7, CallGotoEffect DEF HandshakePlugin, CallStep
  <2>2. Settled'
    BY <1>2, <1>3, <2>1 DEF Settled
  <2>3. \A d \in Calls : CallProgress(d)'
    BY <1>2, <1>3, <2>1 DEF CallProgress
  <2> QED BY <1>1, <1>2, <2>2, <2>3, CallsAlone
<1>8. CASE HandshakeConnection(c)
  <2>1. /\ call'[c].at = "h_site" /\ \A d \in Calls \ {c} : call'[d] = call[d]
        /\ UNCHANGED <<site, plugin, active, shown>> /\ connection' = "verified"
        /\ call[c].at = "h_connection"
    BY <1>8, CallGotoEffect DEF HandshakeConnection, CallStep
  <2>2. Settled'
    BY <1>2, <1>3, <2>1 DEF Settled
  <2>3. \A d \in Calls : CallProgress(d)'
    BY <1>2, <1>3, <2>1 DEF CallProgress
  <2> QED BY <1>1, <1>2, <2>2, <2>3, CallsAlone
<1>9. CASE HandshakeSite(c)
  <2>1. /\ call'[c].at = "idle" /\ \A d \in Calls \ {c} : call'[d] = call[d]
        /\ UNCHANGED <<connection, plugin, active, shown>> /\ site' = "connected"
        /\ call[c].at = "h_site"
    BY <1>9 DEF HandshakeSite, TypeOK, IdleCall
  <2>2. Settled'
    BY <1>2, <1>3, <2>1 DEF Settled, CallProgress
  <2>3. \A d \in Calls : CallProgress(d)'
    BY <1>2, <2>1 DEF CallProgress
  <2> QED BY <1>1, <1>2, <2>2, <2>3, CallsAlone
<1> QED BY <1>4, <1>5, <1>6, <1>7, <1>8, <1>9 DEF CallContinues

\* A store never becomes absent again, and until it exists only the plugin's
\* settings can be saved.
LEMMA AbsentStep ==
  ASSUME ConnectionInv, [Next]_vars, site' = "absent"
  PROVE  Absent'
<1> USE DEF ConnectionInv
<1>1. CASE site = "absent"
  <2>1. Absent
    BY <1>1
  <2>2. /\ \A r \in Requests : ~RequestArrives(r) /\ ~RequestContinues(r) /\ ~Abort(r)
        /\ \A c \in Calls : ~HandshakeArrives(c) /\ ~CallContinues(c) /\ ~CallAborts(c)
    BY <1>1, <2>1
       DEF Absent, Quiet, NoHandshake, RequestArrives, RotateRead, SettingsRead,
           DisconnectBegin, Begin, SiteExists, RequestContinues, RotateRevoke,
           RotateInsert, RotatePlugin, RotateSite, RotateAnswer, SettingsWrite,
           DisconnectCommit, Abort, HandshakeArrives, CallContinues, CheckPlugin,
           CheckSecret, Refuse, HandshakePlugin, HandshakeConnection, HandshakeSite,
           CallAborts
  <2>3. ~SaveSettings /\ \A s \in Secrets : ~StartConnection(s)
    BY <2>1 DEF Absent, SaveSettings, StartConnection
  <2>4. CASE Crash
    BY <2>1, <2>4 DEF Absent, Crash, Quiet, NoHandshake, IdleReq, IdleCall, rows
  <2>5. CASE UNCHANGED vars
    BY <2>1, <2>5 DEF Absent, vars, rows, Quiet, NoHandshake
  <2> QED BY <2>2, <2>3, <2>4, <2>5 DEF Next
<1>2. CASE site # "absent"
  <2>1. UNCHANGED site \/ site' = "pending" \/ site' = "disconnected" \/ site' = "connected"
          \/ \E r \in Requests : SettingsWrite(r)
    BY DEF Next, vars, rows, StartConnection, SaveSettings, RequestArrives, RotateRead,
           SettingsRead, DisconnectBegin, RequestContinues, RotateRevoke, RotateInsert,
           RotatePlugin, RotateSite, RotateAnswer, DisconnectCommit, Abort,
           HandshakeArrives, CallContinues, CheckPlugin, CheckSecret, Refuse,
           HandshakePlugin, HandshakeConnection, HandshakeSite, CallAborts, Crash
  <2>2. \A r \in Requests : ~SettingsWrite(r)
    BY DEF SettingsWrite
  <2> QED BY <1>2, <2>1, <2>2
<1> QED BY <1>1, <1>2

\* The status a change of settings will write is that of a store.
LEMMA WriteStep ==
  ASSUME ConnectionInv, [Next]_vars, NEW r \in Requests, req'[r].at = "s_write"
  PROVE  req'[r].status # "absent"
<1> USE DEF ConnectionInv
<1>1. CASE UNCHANGED req
  BY <1>1
<1>2. ASSUME NEW q \in Requests, RequestArrives(q) PROVE req'[r].status # "absent"
  <2>1. ASSUME NEW s \in Secrets, RotateRead(q, s) PROVE req'[r].status # "absent"
    BY <2>1 DEF RotateRead, Begin, IdleReq, TypeOK
  <2>2. ASSUME NEW h \in BOOLEAN, SettingsRead(q, h) PROVE req'[r].status # "absent"
    BY <2>2 DEF SettingsRead, Begin, SiteExists, IdleReq, TypeOK
  <2>3. CASE DisconnectBegin(q)
    BY <2>3 DEF DisconnectBegin, Begin, IdleReq, TypeOK
  <2> QED BY <1>2, <2>1, <2>2, <2>3 DEF RequestArrives
<1>3. ASSUME NEW q \in Requests, RequestContinues(q) PROVE req'[r].status # "absent"
  BY <1>3, GotoEffect
     DEF RequestContinues, RotateRevoke, RotateInsert, RotatePlugin, RotateSite,
         RotateAnswer, SettingsWrite, DisconnectCommit, ReqStep, IdleReq, TypeOK
<1>4. ASSUME NEW q \in Requests, Abort(q) PROVE req'[r].status # "absent"
  BY <1>4 DEF Abort, IdleReq, TypeOK
<1>5. CASE Crash
  BY <1>5 DEF Crash, IdleReq
<1>6. UNCHANGED req \/ Crash
        \/ \E q \in Requests : RequestArrives(q) \/ RequestContinues(q) \/ Abort(q)
  BY DEF Next, vars, StartConnection, SaveSettings, HandshakeArrives, CallContinues,
         CheckPlugin, CheckSecret, Refuse, HandshakePlugin, HandshakeConnection,
         HandshakeSite, CallAborts
<1> QED BY <1>1, <1>2, <1>3, <1>4, <1>5, <1>6

\* As long as requests do not cross, every state is settled up to what the
\* one request, or the handshakes, under way have done.
LEMMA ConnectionInvariant == Spec => []ConnectionInv
<1>1. Init => ConnectionInv
  <2> SUFFICES ASSUME Init PROVE ConnectionInv
    OBVIOUS
  <2>1. TypeOK
    BY TypeInitially DEF TypeInv
  <2>2. (\A r \in Requests : req[r].at = "idle") /\ (\A c \in Calls : call[c].at = "idle")
    BY DEF Init, IdleReq, IdleCall
  <2>3. Absent
    BY <2>2 DEF Init, Absent, Quiet, NoHandshake
  <2>4. Settled
    BY DEF Init, Settled
  <2>5. Uncrossed
    BY <2>2, <2>4 DEF Uncrossed, Quiet, NoHandshake, RequestProgress, CallProgress
  <2> QED BY <2>1, <2>2, <2>3, <2>5 DEF ConnectionInv
<1>2. ConnectionInv /\ TypeOK' /\ [Next]_vars => ConnectionInv'
  <2> SUFFICES ASSUME ConnectionInv, [Next]_vars, ~crossed' PROVE Uncrossed'
    BY AbsentStep, WriteStep DEF ConnectionInv
  <2> USE DEF ConnectionInv
  <2>1. ASSUME NEW s \in Secrets, StartConnection(s) PROVE Uncrossed'
    <3>1. Quiet /\ Settled' /\ UNCHANGED <<req, call>> /\ NoHandshake
      BY <2>1 DEF StartConnection, Absent, Settled
    <3>2. \A c \in Calls : CallProgress(c)'
      BY <3>1 DEF NoHandshake, CallProgress
    <3> QED BY <3>1, <3>2, CallsAlone
  <2>2. CASE SaveSettings
    BY <2>2 DEF SaveSettings, rows, Uncrossed, Settled, RequestProgress, CallProgress,
                Quiet, NoHandshake
  <2>3. ASSUME NEW r \in Requests, RequestArrives(r) \/ RequestContinues(r) PROVE Uncrossed'
    BY <2>3, RequestArrivesUncrossed, RequestContinuesUncrossed
  <2>4. ASSUME NEW r \in Requests, Abort(r) PROVE Uncrossed'
    BY <2>4 DEF Abort
  <2>5. ASSUME NEW c \in Calls, HandshakeArrives(c) PROVE Uncrossed'
    <3>1. /\ Quiet /\ ~crossed /\ site # "disconnected"
          /\ UNCHANGED <<rows, shown, req>>
          /\ call' = [call EXCEPT ![c] = [at |-> "c_plugin", secret |-> held]]
      BY <2>5 DEF HandshakeArrives
    <3>2. Settled /\ \A d \in Calls : CallProgress(d)
      BY <3>1 DEF Uncrossed
    <3>3. Settled'
      BY <3>1, <3>2 DEF Settled, rows
    <3>4. call'[c].at = "c_plugin" /\ \A d \in Calls \ {c} : call'[d] = call[d]
      BY <3>1 DEF TypeOK
    <3>5. \A d \in Calls : CallProgress(d)'
      BY <3>1, <3>2, <3>4 DEF CallProgress, rows
    <3> QED BY <3>1, <3>3, <3>5, CallsAlone
  <2>6. ASSUME NEW c \in Calls, CallContinues(c) PROVE Uncrossed'
    BY <2>6, CallContinuesUncrossed
  <2>7. ASSUME NEW c \in Calls, CallAborts(c) PROVE Uncrossed'
    <3>1. /\ ~crossed /\ UNCHANGED <<rows, shown, req>> /\ call[c].at # "idle"
          /\ call' = [call EXCEPT ![c] = IdleCall]
      BY <2>7 DEF CallAborts
    <3>2. Quiet /\ Settled /\ \A d \in Calls : CallProgress(d)
      BY <3>1 DEF Uncrossed, NoHandshake
    <3>3. Settled'
      BY <3>1, <3>2 DEF Settled, rows
    <3>4. call'[c].at = "idle" /\ \A d \in Calls \ {c} : call'[d] = call[d]
      BY <3>1 DEF TypeOK, IdleCall
    <3>5. \A d \in Calls : CallProgress(d)'
      BY <3>1, <3>2, <3>4 DEF CallProgress, rows
    <3> QED BY <3>1, <3>2, <3>3, <3>5, CallsAlone
  <2>8. CASE Crash
    <3>1. /\ ~crossed /\ Quiet /\ UNCHANGED <<rows, shown>>
          /\ req' = [r \in Requests |-> IdleReq] /\ call' = [c \in Calls |-> IdleCall]
      BY <2>8 DEF Crash
    <3>2. Settled'
      BY <3>1 DEF Uncrossed, Settled, rows
    <3>3. (\A r \in Requests : req'[r].at = "idle") /\ (\A c \in Calls : call'[c].at = "idle")
      BY <3>1 DEF IdleReq, IdleCall
    <3> QED
      BY <3>2, <3>3 DEF Uncrossed, Quiet, NoHandshake, RequestProgress, CallProgress
  <2>9. CASE UNCHANGED vars
    BY <2>9 DEF vars, rows, Uncrossed, Settled, RequestProgress, CallProgress,
                Quiet, NoHandshake
  <2> QED
    BY <2>1, <2>2, <2>3, <2>4, <2>5, <2>6, <2>7, <2>8, <2>9 DEF Next
<1> QED BY <1>1, <1>2, TypeCorrect, PTL DEF Spec

\* Between requests that have not crossed, the only active secret is the one
\* the merchant was shown last.
THEOREM ShownIsActiveHolds == Spec => []ShownIsActive
<1>1. ConnectionInv => ShownIsActive
  BY DEF ConnectionInv, Uncrossed, Settled, ShownIsActive
<1> QED BY <1>1, ConnectionInvariant, PTL

\* Between requests that have not crossed, a store shown as connected has
\* both connections connected and its secret active.
THEOREM ConnectedIsBackedHolds == Spec => []ConnectedIsBacked
<1>1. ConnectionInv => ConnectedIsBacked
  BY DEF ConnectionInv, Uncrossed, Settled, ConnectedIsBacked
<1> QED BY <1>1, ConnectionInvariant, PTL

\* Between requests that have not crossed, a store shown as disconnected has
\* its connection revoked, and an active secret only after a later rotation.
THEOREM DisconnectedIsRevokedHolds == Spec => []DisconnectedIsRevoked
<1>1. ConnectionInv => DisconnectedIsRevoked
  BY DEF ConnectionInv, Uncrossed, Settled, DisconnectedIsRevoked
<1> QED BY <1>1, ConnectionInvariant, PTL

-----------------------------------------------------------------------------
(* The bound on active secrets, however requests interleave: it counts the *)
(* rotations that stand between their two statements.                      *)

Inserting == {r \in Requests : req[r].at = "r_insert"}

InsertionBound == Len(active) + Cardinality(Inserting) <= Cardinality(Requests)

\* The rotations between the two statements are among the requests.
LEMMA InsertingFinite ==
  /\ IsFiniteSet(Inserting)
  /\ Cardinality(Inserting) \in Nat
  /\ Cardinality(Inserting) <= Cardinality(Requests)
  /\ Cardinality(Requests) \in Nat
<1>1. Inserting \in SUBSET Requests
  BY DEF Inserting
<1> QED BY <1>1, RequestsAssumption, FS_Subset, FS_CardinalityType

\* Nobody enters the gap and nothing is added: the bound stays.
LEMMA BoundShrinks ==
  ASSUME TypeOK, TypeOK', InsertionBound, Inserting' \subseteq Inserting,
         Len(active') <= Len(active)
  PROVE  InsertionBound'
<1>1. Len(active) \in Nat /\ Len(active') \in Nat
  BY LenProperties DEF TypeOK
<1>2. /\ Cardinality(Inserting') <= Cardinality(Inserting)
      /\ Cardinality(Inserting') \in Nat
  BY InsertingFinite, FS_Subset, FS_CardinalityType
<1> QED BY <1>1, <1>2, InsertingFinite DEF InsertionBound

\* A rotation's revocation leaves room for every request that may insert.
LEMMA BoundRestarts ==
  ASSUME active' = <<>> PROVE InsertionBound'
<1>1. Inserting' \in SUBSET Requests
  BY DEF Inserting
<1>2. Cardinality(Inserting') <= Cardinality(Requests) /\ Cardinality(Inserting') \in Nat
  BY <1>1, RequestsAssumption, FS_Subset, FS_CardinalityType
<1>3. Len(active') = 0
  BY EmptySeq
<1> QED BY <1>2, <1>3, InsertingFinite DEF InsertionBound

\* The bound holds in every reachable state.
LEMMA BoundInvariant == Spec => []InsertionBound
<1>1. Init => InsertionBound
  <2> SUFFICES ASSUME Init PROVE InsertionBound
    OBVIOUS
  <2>1. Inserting = {}
    BY DEF Init, Inserting, IdleReq
  <2>2. Len(active) = 0
    BY EmptySeq DEF Init
  <2> QED BY <2>1, <2>2, InsertingFinite, FS_EmptySet DEF InsertionBound
<1>2. ConnectionInv /\ TypeOK' /\ InsertionBound /\ [Next]_vars => InsertionBound'
  <2> SUFFICES ASSUME ConnectionInv, TypeOK', InsertionBound, [Next]_vars
               PROVE  InsertionBound'
    OBVIOUS
  <2>0. TypeOK /\ Len(active) \in Nat
    BY LenProperties DEF ConnectionInv, TypeOK
  <2>q. ASSUME UNCHANGED active,
               \A q \in Requests : req'[q] = req[q] \/ req'[q].at # "r_insert"
        PROVE  InsertionBound'
    <3>1. Inserting' \subseteq Inserting
      BY <2>q DEF Inserting
    <3> QED BY <2>q, <2>0, <3>1, BoundShrinks
  <2>1. ASSUME NEW s \in Secrets, StartConnection(s) PROVE InsertionBound'
    <3>1. Inserting' = {} /\ active' = <<s>>
      BY <2>1 DEF StartConnection, ConnectionInv, Absent, Quiet, Inserting
    <3>2. Len(active') = 1 /\ Cardinality(Inserting') = 0
      BY <3>1, FS_EmptySet
    <3>3. Cardinality(Requests) # 0
      BY RequestsAssumption, FS_EmptySet
    <3> QED BY <3>2, <3>3, InsertingFinite DEF InsertionBound
  <2>2. ASSUME NEW r \in Requests, RequestArrives(r) PROVE InsertionBound'
    BY <2>2, <2>q, <2>0
       DEF RequestArrives, RotateRead, SettingsRead, DisconnectBegin, Begin, IdleReq,
           rows, TypeOK
  <2>3. ASSUME NEW r \in Requests, RequestContinues(r) PROVE InsertionBound'
    <3>1. CASE RotateRevoke(r)
      BY <3>1, BoundRestarts DEF RotateRevoke
    <3>2. CASE RotateInsert(r)
      <4>1. /\ req'[r].at = "r_plugin" /\ \A q \in Requests \ {r} : req'[q] = req[q]
            /\ req[r].at = "r_insert"
        BY <3>2, <2>0, GotoEffect DEF RotateInsert, ReqStep
      <4>2. Inserting' = Inserting \ {r} /\ r \in Inserting
        BY <4>1 DEF Inserting
      <4>3. Cardinality(Inserting') = Cardinality(Inserting) - 1
        BY <4>2, InsertingFinite, FS_RemoveElement
      <4>4. req[r].secret \in Secrets \cup {NoSecret} /\ active \in Seq(Secrets)
        BY <2>0 DEF TypeOK, ReqState
      <4>5. Len(active') = Len(active) + 1
        BY <3>2, <4>4, AppendProperties DEF RotateInsert
      <4> QED BY <4>3, <4>5, <2>0, InsertingFinite DEF InsertionBound
    <3>3. CASE RotatePlugin(r) \/ RotateSite(r)
      BY <3>3, <2>q, <2>0, GotoEffect DEF RotatePlugin, RotateSite, ReqStep
    <3>4. CASE RotateAnswer(r) \/ SettingsWrite(r)
      BY <3>4, <2>q, <2>0 DEF RotateAnswer, SettingsWrite, rows, IdleReq, TypeOK
    <3>5. CASE DisconnectCommit(r)
      <4>1. Inserting' \subseteq Inserting
        BY <3>5, <2>0 DEF DisconnectCommit, IdleReq, TypeOK, Inserting
      <4>2. Len(active') <= Len(active)
        BY <3>5, <2>0, RevokeSeen DEF DisconnectCommit, TypeOK, ReqState
      <4> QED BY <4>1, <4>2, <2>0, BoundShrinks
    <3> QED BY <2>3, <3>1, <3>2, <3>3, <3>4, <3>5 DEF RequestContinues
  <2>4. ASSUME NEW r \in Requests, Abort(r) PROVE InsertionBound'
    BY <2>4, <2>q, <2>0 DEF Abort, IdleReq, rows, TypeOK
  <2>5. CASE Crash
    BY <2>5, <2>q DEF Crash, IdleReq, rows
  <2>6. CASE SaveSettings \/ UNCHANGED vars
    BY <2>6, <2>q DEF SaveSettings, vars, rows
  <2>7. ASSUME NEW c \in Calls, HandshakeArrives(c) \/ CallContinues(c) \/ CallAborts(c)
        PROVE  InsertionBound'
    BY <2>7, <2>q
       DEF HandshakeArrives, CallContinues, CheckPlugin, CheckSecret, Refuse,
           HandshakePlugin, HandshakeConnection, HandshakeSite, CallAborts, rows
  <2> QED BY <2>1, <2>2, <2>3, <2>4, <2>5, <2>6, <2>7 DEF Next
<1> QED BY <1>1, <1>2, TypeCorrect, ConnectionInvariant, PTL DEF Spec

\* However rotations and disconnects interleave, no more secrets are active
\* than requests ran at the same time.
THEOREM SecretBoundHolds == Spec => []SecretBound
<1>1. TypeOK /\ InsertionBound => SecretBound
  BY InsertingFinite, LenProperties DEF InsertionBound, SecretBound, TypeOK
<1> QED BY <1>1, TypeCorrect, BoundInvariant, PTL
=============================================================================
