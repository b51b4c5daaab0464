-------------------------- MODULE PluginConnection --------------------------
(***************************************************************************)
(* The life of ONE store connected in plugin mode: the rows of site,       *)
(* site_connection and plugin_connection, the signing secrets among its    *)
(* site_credential rows, the merchant requests that change them            *)
(* (services/api: services/sites.ts, http/routes/merchant.ts) and the      *)
(* plugin's handshake (http/routes/plugin.ts).                             *)
(*                                                                         *)
(* Every SQL statement issued outside a transaction is an action of its    *)
(* own. As in SiteConnection, the transaction of disconnectSite is two:    *)
(* its first UPDATE locks the credential rows it will revoke, the rest     *)
(* takes effect when it commits.                                           *)
(*                                                                         *)
(* Signature, freshness and nonce are PluginReplay's: here a request is    *)
(* signed rightly with the secret the plugin holds, and sent once. Of the  *)
(* signed endpoints only the handshake changes these rows; the others pass *)
(* the same checks and write timestamps. Sync runs cancelled by a          *)
(* disconnect, versions, names and audit rows are left out.                *)
(***************************************************************************)
EXTENDS Naturals, Sequences, FiniteSets

CONSTANTS
  Requests,   \* merchant requests the API serves at the same time
  Calls,      \* handshakes the API serves at the same time
  Secrets,    \* signing secrets; one that nobody remembers may be issued again
  NoSecret,   \* no secret
  MaxFaults   \* bound on crashes and failed statements

ASSUME RequestsAssumption == IsFiniteSet(Requests) /\ Requests # {}
ASSUME SecretsAssumption == NoSecret \notin Secrets
ASSUME FaultsAssumption == MaxFaults \in Nat

VARIABLES
  site,        \* site.status
  connection,  \* site_connection.status
  plugin,      \* plugin_connection.status
  active,      \* active plugin_signing rows of site_credential, oldest first
  shown,       \* the secret the merchant was shown last
  held,        \* the secret in the plugin's options
  req,         \* per merchant request: where its handler stands
  call,        \* per handshake: where its handler stands
  crossed,     \* history: whether requests have crossed (see Begin)
  faults       \* crashes and failed statements so far

rows == <<site, connection, plugin, active>>
vars == <<rows, shown, held, req, call, crossed, faults>>

SiteStatus == {"absent", "pending", "connected", "disconnected"}
ConnectionStatus == {"absent", "pending", "verified", "revoked"}
PluginStatus == {"absent", "pending", "connected", "revoked"}
ReqStep == {"idle", "r_revoke", "r_insert", "r_plugin", "r_site", "r_answer",
            "s_write", "d_commit"}
CallStep == {"idle", "c_plugin", "c_secret", "h_plugin", "h_connection", "h_site"}

ReqState == [at : ReqStep, secret : Secrets \cup {NoSecret}, status : SiteStatus, seen : Nat]
CallState == [at : CallStep, secret : Secrets \cup {NoSecret}]

IdleReq == [at |-> "idle", secret |-> NoSecret, status |-> "absent", seen |-> 0]
IdleCall == [at |-> "idle", secret |-> NoSecret]

TypeOK ==
  /\ site \in SiteStatus
  /\ connection \in ConnectionStatus
  /\ plugin \in PluginStatus
  /\ active \in Seq(Secrets)
  /\ shown \in Secrets \cup {NoSecret}
  /\ held \in Secrets \cup {NoSecret}
  /\ req \in [Requests -> ReqState]
  /\ call \in [Calls -> CallState]
  /\ crossed \in BOOLEAN
  /\ faults \in 0 .. MaxFaults

Init ==
  /\ site = "absent"
  /\ connection = "absent"
  /\ plugin = "absent"
  /\ active = <<>>
  /\ shown = NoSecret
  /\ held = NoSecret
  /\ req = [r \in Requests |-> IdleReq]
  /\ call = [c \in Calls |-> IdleCall]
  /\ crossed = FALSE
  /\ faults = 0

-----------------------------------------------------------------------------
(* Helpers.                                                                *)

SiteExists == site # "absent"
Quiet == \A r \in Requests : req[r].at = "idle"
NoHandshake == \A c \in Calls : call[c].at = "idle"

\* A new random secret is none that anybody still remembers.
Unused(s) ==
  /\ \A i \in 1 .. Len(active) : active[i] # s
  /\ s \notin {shown, held}
  /\ \A r \in Requests : req[r].secret # s
  /\ \A c \in Calls : call[c].secret # s

\* A disconnect that has begun holds the lock of every credential row.
SecretsLocked == \E r \in Requests : req[r].at = "d_commit"

\* Requests have crossed once a merchant request begins while another, or a
\* handshake, is under way, a handshake begins during a merchant request, or a
\* merchant request is broken off. A rotation or a disconnect that begins
\* with nothing under way sets all rows anew (a rotation those of a store that
\* is not disconnected) and ends that.
Begin(r, state, renews) ==
  /\ req[r].at = "idle"
  /\ SiteExists
  /\ req' = [req EXCEPT ![r] = state]
  /\ crossed' = (~Quiet \/ ~NoHandshake \/ (crossed /\ ~renews))

Goto(r, step) == req' = [req EXCEPT ![r] = [@ EXCEPT !.at = step]]
CallGoto(c, step) == call' = [call EXCEPT ![c] = [@ EXCEPT !.at = step]]

-----------------------------------------------------------------------------
(* POST /sites/connect/start in plugin mode: one transaction; the secret   *)
(* is in the answer.                                                       *)

StartConnection(s) ==
  /\ site = "absent"
  /\ site' = "pending"
  /\ connection' = "pending"
  /\ plugin' = "pending"
  /\ active' = <<s>>
  /\ shown' = s
  /\ UNCHANGED <<held, req, call, crossed, faults>>

\* The merchant pastes the secret into the plugin's settings.
SaveSettings ==
  /\ held # shown
  /\ held' = shown
  /\ UNCHANGED <<rows, shown, req, call, crossed, faults>>

-----------------------------------------------------------------------------
(* POST /sites/:siteId/plugin/rotate-secret: rotatePluginSigningSecret.    *)

RotateRead(r, s) ==
  /\ Unused(s)
  /\ Begin(r, [IdleReq EXCEPT !.at = "r_revoke", !.secret = s], site # "disconnected")
  /\ UNCHANGED <<rows, shown, held, call, faults>>

\* Mutant: the earlier secrets stay active.
RotateKeepsOld(r) ==
  /\ req[r].at = "r_revoke"
  /\ ~SecretsLocked
  /\ Goto(r, "r_insert")
  /\ UNCHANGED <<rows, shown, held, call, crossed, faults>>

RotateRevoke(r) ==
  /\ req[r].at = "r_revoke"
  /\ ~SecretsLocked
  /\ active' = <<>>
  /\ Goto(r, "r_insert")
  /\ UNCHANGED <<site, connection, plugin, shown, held, call, crossed, faults>>

RotateInsert(r) ==
  /\ req[r].at = "r_insert"
  /\ active' = Append(active, req[r].secret)
  /\ Goto(r, "r_plugin")
  /\ UNCHANGED <<site, connection, plugin, shown, held, call, crossed, faults>>

RotatePlugin(r) ==
  /\ req[r].at = "r_plugin"
  /\ plugin' = "pending"
  /\ Goto(r, "r_site")
  /\ UNCHANGED <<site, connection, active, shown, held, call, crossed, faults>>

\* WHERE status <> 'disconnected'.
RotateSite(r) ==
  /\ req[r].at = "r_site"
  /\ site' = IF site = "disconnected" THEN site ELSE "pending"
  /\ Goto(r, "r_answer")
  /\ UNCHANGED <<connection, plugin, active, shown, held, call, crossed, faults>>

RotateAnswer(r) ==
  /\ req[r].at = "r_answer"
  /\ shown' = req[r].secret
  /\ req' = [req EXCEPT ![r] = IdleReq]
  /\ UNCHANGED <<rows, held, call, crossed, faults>>

-----------------------------------------------------------------------------
(* PATCH /sites/:siteId: updateSiteSettings.                               *)

\* The status to write is decided from the row read before the URL is
\* validated: a changed host makes it pending.
SettingsRead(r, newHost) ==
  /\ Begin(r, [IdleReq EXCEPT !.at = "s_write",
                              !.status = IF newHost THEN "pending" ELSE site], FALSE)
  /\ UNCHANGED <<rows, shown, held, call, faults>>

SettingsWrite(r) ==
  /\ req[r].at = "s_write"
  /\ site' = req[r].status
  /\ req' = [req EXCEPT ![r] = IdleReq]
  /\ UNCHANGED <<connection, plugin, active, shown, held, call, crossed, faults>>

-----------------------------------------------------------------------------
(* POST /sites/:siteId/disconnect, DELETE /sites/:siteId: disconnectSite.  *)

DisconnectBegin(r) ==
  /\ ~SecretsLocked
  /\ Begin(r, [IdleReq EXCEPT !.at = "d_commit", !.seen = Len(active)], TRUE)
  /\ UNCHANGED <<rows, shown, held, call, faults>>

\* Mutant: the plugin_connection row is forgotten.
DisconnectForgetsPlugin(r) ==
  /\ req[r].at = "d_commit"
  /\ active' = SubSeq(active, req[r].seen + 1, Len(active))
  /\ connection' = "revoked"
  /\ site' = "disconnected"
  /\ req' = [req EXCEPT ![r] = IdleReq]
  /\ UNCHANGED <<plugin, shown, held, call, crossed, faults>>

\* A secret inserted since the transaction's first UPDATE stays active.
DisconnectCommit(r) ==
  /\ req[r].at = "d_commit"
  /\ active' = SubSeq(active, req[r].seen + 1, Len(active))
  /\ connection' = "revoked"
  /\ plugin' = "revoked"
  /\ site' = "disconnected"
  /\ req' = [req EXCEPT ![r] = IdleReq]
  /\ UNCHANGED <<shown, held, call, crossed, faults>>

-----------------------------------------------------------------------------
(* POST /plugin/handshake: verifyRequest, then three UPDATEs.              *)

\* The plugin signs with the secret it holds; the site row is read.
HandshakeArrives(c) ==
  /\ call[c].at = "idle"
  /\ held # NoSecret
  /\ site # "disconnected"
  /\ call' = [call EXCEPT ![c] = [at |-> "c_plugin", secret |-> held]]
  /\ crossed' = (crossed \/ ~Quiet)
  /\ UNCHANGED <<rows, shown, held, req, faults>>

CheckPlugin(c) ==
  /\ call[c].at = "c_plugin"
  /\ plugin # "revoked"
  /\ CallGoto(c, "c_secret")
  /\ UNCHANGED <<rows, shown, held, req, crossed, faults>>

\* getPluginSigningSecret: the newest active row, against the signature.
CheckSecret(c) ==
  /\ call[c].at = "c_secret"
  /\ active # <<>>
  /\ active[Len(active)] = call[c].secret
  /\ CallGoto(c, "h_plugin")
  /\ UNCHANGED <<rows, shown, held, req, crossed, faults>>

Refuse(c) ==
  /\ \/ call[c].at = "c_plugin" /\ plugin = "revoked"
     \/ /\ call[c].at = "c_secret"
        /\ active # <<>> => active[Len(active)] # call[c].secret
  /\ call' = [call EXCEPT ![c] = IdleCall]
  /\ UNCHANGED <<rows, shown, held, req, crossed, faults>>

HandshakePlugin(c) ==
  /\ call[c].at = "h_plugin"
  /\ plugin' = "connected"
  /\ CallGoto(c, "h_connection")
  /\ UNCHANGED <<site, connection, active, shown, held, req, crossed, faults>>

\* Mutant: the site_connection row is forgotten.
HandshakeForgetsConnection(c) ==
  /\ call[c].at = "h_connection"
  /\ CallGoto(c, "h_site")
  /\ UNCHANGED <<rows, shown, held, req, crossed, faults>>

HandshakeConnection(c) ==
  /\ call[c].at = "h_connection"
  /\ connection' = "verified"
  /\ CallGoto(c, "h_site")
  /\ UNCHANGED <<site, plugin, active, shown, held, req, crossed, faults>>

HandshakeSite(c) ==
  /\ call[c].at = "h_site"
  /\ site' = "connected"
  /\ call' = [call EXCEPT ![c] = IdleCall]
  /\ UNCHANGED <<connection, plugin, active, shown, held, req, crossed, faults>>

-----------------------------------------------------------------------------
(* Faults.                                                                 *)

\* A statement of a merchant request fails, or its answer is lost.
Abort(r) ==
  /\ req[r].at # "idle"
  /\ faults < MaxFaults
  /\ faults' = faults + 1
  /\ req' = [req EXCEPT ![r] = IdleReq]
  /\ crossed' = TRUE
  /\ UNCHANGED <<rows, shown, held, call>>

\* A statement of a handshake fails.
CallAborts(c) ==
  /\ call[c].at # "idle"
  /\ faults < MaxFaults
  /\ faults' = faults + 1
  /\ call' = [call EXCEPT ![c] = IdleCall]
  /\ UNCHANGED <<rows, shown, held, req, crossed>>

\* The API process dies.
Crash ==
  /\ faults < MaxFaults
  /\ faults' = faults + 1
  /\ req' = [r \in Requests |-> IdleReq]
  /\ call' = [c \in Calls |-> IdleCall]
  /\ crossed' = (crossed \/ ~Quiet)
  /\ UNCHANGED <<rows, shown, held>>

-----------------------------------------------------------------------------
RequestArrives(r) ==
  \/ \E s \in Secrets : RotateRead(r, s)
  \/ \E newHost \in BOOLEAN : SettingsRead(r, newHost)
  \/ DisconnectBegin(r)

RequestContinues(r) ==
  \/ RotateRevoke(r) \/ RotateInsert(r) \/ RotatePlugin(r) \/ RotateSite(r)
  \/ RotateAnswer(r)
  \/ SettingsWrite(r)
  \/ DisconnectCommit(r)

CallContinues(c) ==
  \/ CheckPlugin(c) \/ CheckSecret(c) \/ Refuse(c)
  \/ HandshakePlugin(c) \/ HandshakeConnection(c) \/ HandshakeSite(c)

Next ==
  \/ \E s \in Secrets : StartConnection(s)
  \/ SaveSettings
  \/ \E r \in Requests : RequestArrives(r) \/ RequestContinues(r) \/ Abort(r)
  \/ \E c \in Calls : HandshakeArrives(c) \/ CallContinues(c) \/ CallAborts(c)
  \/ Crash

Spec == Init /\ [][Next]_vars

-----------------------------------------------------------------------------
\* A rotation revokes, then inserts, in two statements. However rotations and
\* disconnects interleave, the secrets left active are at most as many as the
\* requests that ran at the same time.
SecretBound == Len(active) <= Cardinality(Requests)

\* Unless requests have crossed, between requests the only usable secret is
\* the one the merchant was shown last: no other is ever left active, and
\* none is shown that was not stored.
ShownIsActive ==
  Quiet /\ ~crossed => active \in {<<>>, <<shown>>}

\* Unless requests have crossed, a store shown as connected between requests
\* has both of its connection rows connected and its secret active, whatever
\* sequence of starts, rotations, changes of host, disconnects and handshakes
\* (complete, refused or failed half way) led there.
ConnectedIsBacked ==
  Quiet /\ ~crossed /\ site = "connected"
    => plugin = "connected" /\ connection = "verified" /\ active = <<shown>>

\* Unless requests have crossed, a store shown as disconnected has a revoked
\* connection; a later rotation may have given it a secret, but a plugin that
\* uses it is refused because the site is disconnected.
DisconnectedIsRevoked ==
  Quiet /\ ~crossed /\ site = "disconnected"
    => /\ connection = "revoked"
       /\ \/ plugin = "revoked" /\ active = <<>>
          \/ plugin = "pending" /\ active = <<shown>>
=============================================================================
