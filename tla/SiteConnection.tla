--------------------------- MODULE SiteConnection ---------------------------
(***************************************************************************)
(* The life of ONE store connected in woo_rest mode: the rows of site,     *)
(* site_connection, site_credential and sync_run that belong to it, the    *)
(* merchant requests that change them (services/api: services/sites.ts,    *)
(* http/routes/merchant.ts, http/routes/admin.ts) and the detached         *)
(* background syncs they start.                                            *)
(*                                                                         *)
(* Every SQL statement issued outside a transaction is an action of its    *)
(* own, because the handler awaits it and other handlers run meanwhile.    *)
(* The transaction of disconnectSite is two actions: its first statement   *)
(* fixes and locks the credential rows it will revoke, the rest takes      *)
(* effect when it commits (every later statement of it locks what it       *)
(* touches, so nothing can be observed between them).                      *)
(*                                                                         *)
(* Left out, because no control decision reads it: names, currencies,      *)
(* versions, last_error, last_synced_at, messages, counters, audit rows,   *)
(* cache invalidation and the rows of the read-model itself. Revoked       *)
(* credential rows and finished sync_run rows of a reused worker slot are  *)
(* forgotten: no statement ever reads them.                                *)
(***************************************************************************)
EXTENDS Naturals, Sequences, FiniteSets

CONSTANTS
  Requests,   \* HTTP requests the API serves at the same time
  Workers,    \* background syncs that may exist at the same time (a bound)
  Hosts,      \* hosts a store URL may point at
  MaxFaults   \* bound on process crashes and failed statements

ASSUME RequestsAssumption == IsFiniteSet(Requests)
ASSUME HostsAssumption == Hosts # {}
ASSUME FaultsAssumption == MaxFaults \in Nat

VARIABLES
  site,        \* the site row: status and the host of its url
  connection,  \* site_connection.status
  creds,       \* active woo_rest rows of site_credential, oldest first
  sealed,      \* whether site_credential has any row for this site
  req,         \* per request: where its handler stands and what it remembers
  worker,      \* per background sync: where syncWooSite stands
  run,         \* per background sync: the sync_run row it inserted
  faults       \* crashes and failed statements so far

vars == <<site, connection, creds, sealed, req, worker, run, faults>>

-----------------------------------------------------------------------------
(* The values the columns and the handlers' positions range over.          *)

SiteStatus == {"absent", "pending", "connected", "disconnected"}
ConnectionStatus == {"absent", "pending", "verified", "revoked"}
RunStatus == {"none", "running", "success", "failed", "cancelled"}

\* The order in which syncWooSite pulls a store; each entry is a value of
\* sync_run.phase.
Phases == <<"orders", "categories", "products", "customers", "coupons">>
PhaseIndex == 1 .. Len(Phases)

\* "fresh": started less than 30 minutes ago; "busy": started earlier but it
\* wrote progress within the last 30 minutes; "stale": neither.
Age == {"fresh", "busy", "stale"}

ReqStep == {"idle", "v_remote", "v_insert", "v_site", "v_connection",
            "s_write", "d_commit", "m_check"}
WorkerStep == {"idle", "start", "insert", "pull", "stamp", "rejected"}

ReqState == [at : ReqStep, host : Hosts, status : SiteStatus, seen : Nat, locks : BOOLEAN]
RunRow == [status : RunStatus, phase : PhaseIndex, age : Age]

NoHost == CHOOSE h \in Hosts : TRUE
Idle == [at |-> "idle", host |-> NoHost, status |-> "absent", seen |-> 0, locks |-> FALSE]
NoRun == [status |-> "none", phase |-> 1, age |-> "fresh"]

TypeOK ==
  /\ site \in [status : SiteStatus, host : Hosts]
  /\ connection \in ConnectionStatus
  /\ creds \in Seq(Hosts)
  /\ sealed \in BOOLEAN
  /\ req \in [Requests -> ReqState]
  /\ worker \in [Workers -> WorkerStep]
  /\ run \in [Workers -> RunRow]
  /\ faults \in 0 .. MaxFaults

Init ==
  /\ site = [status |-> "absent", host |-> NoHost]
  /\ connection = "absent"
  /\ creds = <<>>
  /\ sealed = FALSE
  /\ req = [r \in Requests |-> Idle]
  /\ worker = [w \in Workers |-> "idle"]
  /\ run = [w \in Workers |-> NoRun]
  /\ faults = 0

-----------------------------------------------------------------------------
(* Helpers.                                                                *)

\* A handler that is past its first await; a background sync that still runs.
Live(w) == worker[w] \in {"start", "insert", "pull", "stamp"}

\* The slot holds nothing a statement could still read.
FreeSlot(w) == ~Live(w) /\ run[w].status # "running"

\* siteFor: every route but connect/start first loads the site of the tenant.
SiteExists == site.status # "absent"

\* A disconnect that has run its first UPDATE holds the lock of every
\* site_credential row it found (active or not) until it commits; an UPDATE
\* of those rows waits. (One that had to wait is taken to match the rows that
\* are there when it gets the lock.)
CredsLocked == \E r \in Requests : req[r].at = "d_commit" /\ req[r].locks

\* startSiteSync: fire and forget. A sync beyond the Workers bound is one
\* that never gets to take a step.
startSiteSync ==
  \/ \E w \in Workers :
       /\ FreeSlot(w)
       /\ worker' = [worker EXCEPT ![w] = "start"]
       /\ run' = [run EXCEPT ![w] = NoRun]
  \/ /\ \A w \in Workers : ~FreeSlot(w)
     /\ UNCHANGED <<worker, run>>

\* The row of an in-flight sync, as POST /sites/:id/sync looks it up.
InFlight == \E w \in Workers : run[w].status = "running"

-----------------------------------------------------------------------------
(* POST /sites/connect/start                                               *)

StartConnection(h) ==
  /\ site.status = "absent"
  /\ site' = [status |-> "pending", host |-> h]
  /\ connection' = "pending"
  /\ UNCHANGED <<creds, sealed, req, worker, run, faults>>

-----------------------------------------------------------------------------
(* POST /sites/connect/verify: verifyWooConnection, one statement a step.  *)

\* The site row is read before the store is called; nothing looks at its
\* status, so a disconnected store may be verified again.
VerifyRead(r) ==
  /\ req[r].at = "idle"
  /\ SiteExists
  /\ req' = [req EXCEPT ![r] = [Idle EXCEPT !.at = "v_remote", !.host = site.host]]
  /\ UNCHANGED <<site, connection, creds, sealed, worker, run, faults>>

\* The store refuses the keys (or cannot be reached): the request ends.
VerifyRejected(r) ==
  /\ req[r].at = "v_remote"
  /\ req' = [req EXCEPT ![r] = Idle]
  /\ UNCHANGED <<site, connection, creds, sealed, worker, run, faults>>

\* Mutant: the earlier credentials are left active.
VerifyKeepsOldCredentials(r) ==
  /\ req[r].at = "v_remote"
  /\ ~CredsLocked
  /\ req' = [req EXCEPT ![r].at = "v_insert"]
  /\ UNCHANGED <<site, connection, creds, sealed, worker, run, faults>>

\* The store accepted the keys: the earlier credentials are revoked.
VerifyRevoke(r) ==
  /\ req[r].at = "v_remote"
  /\ ~CredsLocked
  /\ creds' = <<>>
  /\ req' = [req EXCEPT ![r].at = "v_insert"]
  /\ UNCHANGED <<site, connection, sealed, worker, run, faults>>

VerifyInsert(r) ==
  /\ req[r].at = "v_insert"
  /\ creds' = Append(creds, req[r].host)
  /\ sealed' = TRUE
  /\ req' = [req EXCEPT ![r].at = "v_site"]
  /\ UNCHANGED <<site, connection, worker, run, faults>>

VerifySite(r) ==
  /\ req[r].at = "v_site"
  /\ site' = [site EXCEPT !.status = "connected"]
  /\ req' = [req EXCEPT ![r].at = "v_connection"]
  /\ UNCHANGED <<connection, creds, sealed, worker, run, faults>>

VerifyConnection(r) ==
  /\ req[r].at = "v_connection"
  /\ connection' = "verified"
  /\ startSiteSync
  /\ req' = [req EXCEPT ![r] = Idle]
  /\ UNCHANGED <<site, creds, sealed, faults>>

-----------------------------------------------------------------------------
(* PATCH /sites/:siteId: updateSiteSettings reads the row, validates the   *)
(* URL and writes status and url back from what it read.                   *)

\* Mutant: a change of host keeps the status that was read.
SettingsReadKeepsStatus(r, h) ==
  /\ req[r].at = "idle"
  /\ SiteExists
  /\ req' = [req EXCEPT ![r] =
               [Idle EXCEPT !.at = "s_write", !.host = h, !.status = site.status]]
  /\ UNCHANGED <<site, connection, creds, sealed, worker, run, faults>>

SettingsRead(r, h) ==
  /\ req[r].at = "idle"
  /\ SiteExists
  /\ req' = [req EXCEPT ![r] =
               [Idle EXCEPT !.at = "s_write", !.host = h,
                            !.status = IF h # site.host THEN "pending" ELSE site.status]]
  /\ UNCHANGED <<site, connection, creds, sealed, worker, run, faults>>

SettingsWrite(r) ==
  /\ req[r].at = "s_write"
  /\ site' = [status |-> req[r].status, host |-> req[r].host]
  /\ req' = [req EXCEPT ![r] = Idle]
  /\ UNCHANGED <<connection, creds, sealed, worker, run, faults>>

-----------------------------------------------------------------------------
(* POST /sites/:siteId/disconnect and DELETE /sites/:siteId:               *)
(* disconnectSite, one transaction.                                        *)

\* The first UPDATE of the transaction: the rows it matches are settled here.
DisconnectBegin(r) ==
  /\ req[r].at = "idle"
  /\ SiteExists
  /\ ~CredsLocked
  /\ req' = [req EXCEPT ![r] =
               [Idle EXCEPT !.at = "d_commit", !.seen = Len(creds), !.locks = sealed]]
  /\ UNCHANGED <<site, connection, creds, sealed, worker, run, faults>>

CancelRunning(f) ==
  [w \in Workers |-> IF f[w].status = "running"
                     THEN [f[w] EXCEPT !.status = "cancelled"] ELSE f[w]]

\* Mutant: the credentials stay active.
DisconnectKeepsCredentials(r) ==
  /\ req[r].at = "d_commit"
  /\ connection' = "revoked"
  /\ run' = CancelRunning(run)
  /\ site' = [site EXCEPT !.status = "disconnected"]
  /\ req' = [req EXCEPT ![r] = Idle]
  /\ UNCHANGED <<creds, sealed, worker, faults>>

DisconnectCommit(r) ==
  /\ req[r].at = "d_commit"
  /\ creds' = SubSeq(creds, req[r].seen + 1, Len(creds))
  /\ connection' = "revoked"
  /\ run' = CancelRunning(run)
  /\ site' = [site EXCEPT !.status = "disconnected"]
  /\ req' = [req EXCEPT ![r] = Idle]
  /\ UNCHANGED <<sealed, worker, faults>>

-----------------------------------------------------------------------------
(* POST /sites/:siteId/sync and the admin's POST /sites/:id/resync.        *)

\* Mutant: runs past their 30 minutes are left alone.
SyncKeepsStale(r) ==
  /\ req[r].at = "idle"
  /\ SiteExists
  /\ req' = [req EXCEPT ![r].at = "m_check"]
  /\ UNCHANGED <<site, connection, creds, sealed, worker, run, faults>>

\* Runs started more than 30 minutes ago are cancelled first.
SyncCancelStale(r) ==
  /\ req[r].at = "idle"
  /\ SiteExists
  /\ run' = [w \in Workers |->
               IF run[w].status = "running" /\ run[w].age # "fresh"
               THEN [run[w] EXCEPT !.status = "cancelled"] ELSE run[w]]
  /\ req' = [req EXCEPT ![r].at = "m_check"]
  /\ UNCHANGED <<site, connection, creds, sealed, worker, faults>>

SyncAlreadyRunning(r) ==
  /\ req[r].at = "m_check"
  /\ InFlight
  /\ req' = [req EXCEPT ![r] = Idle]
  /\ UNCHANGED <<site, connection, creds, sealed, worker, run, faults>>

SyncStart(r) ==
  /\ req[r].at = "m_check"
  /\ ~InFlight
  /\ startSiteSync
  /\ req' = [req EXCEPT ![r] = Idle]
  /\ UNCHANGED <<site, connection, creds, sealed, faults>>

\* The administrator's resync looks for no sync in flight.
AdminResync ==
  /\ SiteExists
  /\ startSiteSync
  /\ UNCHANGED <<site, connection, creds, sealed, req, faults>>

-----------------------------------------------------------------------------
(* syncWooSite, detached from the request that started it.                 *)

\* No active credential: the conflict is thrown before any row is written.
SyncNoCredentials(w) ==
  /\ worker[w] = "start"
  /\ creds = <<>>
  /\ worker' = [worker EXCEPT ![w] = "rejected"]
  /\ UNCHANGED <<site, connection, creds, sealed, req, run, faults>>

\* Mutant: the missing credential is not noticed.
SyncReadsAnyCredentials(w) ==
  /\ worker[w] = "start"
  /\ worker' = [worker EXCEPT ![w] = "insert"]
  /\ UNCHANGED <<site, connection, creds, sealed, req, run, faults>>

\* From here on the sync works with the credential it has read, whatever
\* becomes of the row.
SyncReadCredentials(w) ==
  /\ worker[w] = "start"
  /\ creds # <<>>
  /\ worker' = [worker EXCEPT ![w] = "insert"]
  /\ UNCHANGED <<site, connection, creds, sealed, req, run, faults>>

SyncInsertRun(w) ==
  /\ worker[w] = "insert"
  /\ worker' = [worker EXCEPT ![w] = "pull"]
  /\ run' = [run EXCEPT ![w] = [status |-> "running", phase |-> 1, age |-> "fresh"]]
  /\ UNCHANGED <<site, connection, creds, sealed, req, faults>>

\* setProgress writes the row whatever its status has become.
Progress(w, p) ==
  [run[w] EXCEPT !.phase = p, !.age = IF @ = "stale" THEN "busy" ELSE @]

\* A phase is pulled to its last page. (A failure of a best-effort endpoint
\* -- brands, attributes, coupons -- is swallowed and counts as pulled.)
SyncNextPhase(w) ==
  /\ worker[w] = "pull"
  /\ run[w].phase < Len(Phases)
  /\ run' = [run EXCEPT ![w] = Progress(w, run[w].phase + 1)]
  /\ UNCHANGED <<site, connection, creds, sealed, req, worker, faults>>

\* The last phase is done: success, over whatever status the row has.
SyncSuccess(w) ==
  /\ worker[w] = "pull"
  /\ run[w].phase = Len(Phases)
  /\ run' = [run EXCEPT ![w].status = "success"]
  /\ worker' = [worker EXCEPT ![w] = "stamp"]
  /\ UNCHANGED <<site, connection, creds, sealed, req, faults>>

\* The UPDATE of site.last_synced_at ends the sync.
SyncStamp(w) ==
  /\ worker[w] = "stamp"
  /\ worker' = [worker EXCEPT ![w] = "idle"]
  /\ UNCHANGED <<site, connection, creds, sealed, req, run, faults>>

\* Mutant: the error path forgets the row.
SyncFailureUnrecorded(w) ==
  /\ worker[w] \in {"pull", "stamp"}
  /\ worker' = [worker EXCEPT ![w] = "rejected"]
  /\ UNCHANGED <<site, connection, creds, sealed, req, run, faults>>

\* Mutant: a failure starts the pull over.
SyncFailureStartsOver(w) ==
  /\ worker[w] \in {"pull", "stamp"}
  /\ run' = [run EXCEPT ![w] = Progress(w, 1)]
  /\ worker' = [worker EXCEPT ![w] = "pull"]
  /\ UNCHANGED <<site, connection, creds, sealed, req, faults>>

\* Anything thrown inside the try: the row becomes failed, again over
\* whatever status it has.
SyncFailure(w) ==
  /\ worker[w] \in {"pull", "stamp"}
  /\ run' = [run EXCEPT ![w].status = "failed"]
  /\ worker' = [worker EXCEPT ![w] = "rejected"]
  /\ UNCHANGED <<site, connection, creds, sealed, req, faults>>

-----------------------------------------------------------------------------
(* Time, faults.                                                           *)

\* Thirty minutes pass since the start, or since the last progress.
RunAges(w, a) ==
  /\ run[w].status = "running"
  /\ \/ run[w].age = "fresh" /\ a \in {"busy", "stale"}
     \/ run[w].age = "busy" /\ a = "stale"
  /\ run' = [run EXCEPT ![w].age = a]
  /\ UNCHANGED <<site, connection, creds, sealed, req, worker, faults>>

\* A statement of a request fails or its client connection is lost: what it
\* already wrote stays, except inside the transaction of a disconnect.
Abort(r) ==
  /\ req[r].at # "idle"
  /\ faults < MaxFaults
  /\ faults' = faults + 1
  /\ req' = [req EXCEPT ![r] = Idle]
  /\ UNCHANGED <<site, connection, creds, sealed, worker, run>>

\* A statement of the background sync fails where syncWooSite has no try
\* around it: before the run is inserted, or in the catch block itself.
SyncAborts(w) ==
  /\ Live(w)
  /\ faults < MaxFaults
  /\ faults' = faults + 1
  /\ worker' = [worker EXCEPT ![w] = "rejected"]
  /\ UNCHANGED <<site, connection, creds, sealed, req, run>>

\* The API process dies: requests and background syncs are gone, rows stay.
Crash ==
  /\ faults < MaxFaults
  /\ faults' = faults + 1
  /\ req' = [r \in Requests |-> Idle]
  /\ worker' = [w \in Workers |-> "idle"]
  /\ UNCHANGED <<site, connection, creds, sealed, run>>

-----------------------------------------------------------------------------
RequestContinues(r) ==
  \/ VerifyRejected(r) \/ VerifyRevoke(r) \/ VerifyInsert(r)
  \/ VerifySite(r) \/ VerifyConnection(r)
  \/ SettingsWrite(r)
  \/ DisconnectCommit(r)
  \/ SyncAlreadyRunning(r) \/ SyncStart(r)

RequestArrives(r) ==
  \/ VerifyRead(r)
  \/ \E h \in Hosts : SettingsRead(r, h)
  \/ DisconnectBegin(r)
  \/ SyncCancelStale(r)

WorkerContinues(w) ==
  \/ SyncNoCredentials(w) \/ SyncReadCredentials(w) \/ SyncInsertRun(w)
  \/ SyncNextPhase(w) \/ SyncSuccess(w) \/ SyncStamp(w) \/ SyncFailure(w)

Next ==
  \/ \E h \in Hosts : StartConnection(h)
  \/ \E r \in Requests : RequestArrives(r) \/ RequestContinues(r) \/ Abort(r)
  \/ AdminResync
  \/ \E w \in Workers : WorkerContinues(w) \/ SyncAborts(w) \/ (\E a \in Age : RunAges(w, a))
  \/ Crash

Spec == Init /\ [][Next]_vars

-----------------------------------------------------------------------------
(* Fairness. Node's event loop resumes every handler whose await settles.  *)
(* That the awaits settle is assumed of the surroundings: a call of the    *)
(* store is aborted after WOO_HTTP_TIMEOUT_MS and a store has finitely     *)
(* many pages; a statement is answered, or fails with its connection       *)
(* (db.ts sets no statement_timeout: a statement that waits for ever is    *)
(* outside this specification). Time passes for a run that nobody          *)
(* finishes, and the merchant, told that a sync is already running,        *)
(* presses the button again.                                               *)

Scheduling ==
  /\ \A r \in Requests : WF_vars(RequestContinues(r))
  /\ \A w \in Workers : WF_vars(WorkerContinues(w))

MerchantRetries ==
  /\ \A w \in Workers : WF_vars(RunAges(w, "stale"))
  /\ SF_vars(\E r \in Requests : SyncCancelStale(r))

FairSpec == Spec /\ Scheduling /\ MerchantRetries

-----------------------------------------------------------------------------
(* Properties under any interleaving.                                      *)

\* verifyWooConnection revokes, then inserts, in two statements. However the
\* verifications and disconnects interleave, the rows left active are at most
\* as many as the requests that ran at the same time; in particular one
\* request at a time leaves at most one active credential.
CredentialBound == Len(creds) <= Cardinality(Requests)

\* Every background sync writes its own outcome, over whatever a press of the
\* button or a disconnect made of its row meanwhile: without a fault a row is
\* left running or cancelled only while its sync is still on its way.
RunIsSettled ==
  faults = 0 => \A w \in Workers : run[w].status \in {"running", "cancelled"} => Live(w)

Commits(r) == req[r].at = "d_commit" /\ req'[r].at = "idle" /\ faults' = faults

\* A credential can outlive a disconnect only by a verification that had done
\* its own revoking when the disconnect took the rows: what is left active is
\* at most one credential for each OTHER request served at the time.
DisconnectBound ==
  [][\A r \in Requests : Commits(r) => Len(creds') < Cardinality(Requests)]_vars

(* Properties of a merchant who sends one request at a time (background    *)
(* syncs and administrators still interleave), as long as nothing failed.  *)

Quiet == \A r \in Requests : req[r].at = "idle"

\* Whenever no request is in progress, a store shown as connected has its
\* connection verified and exactly one active credential, bound to the host
\* its url points at.
ConnectedIsBacked ==
  Quiet /\ faults = 0 /\ site.status = "connected"
    => connection = "verified" /\ creds = <<site.host>>

\* Whenever no request is in progress, a store shown as disconnected has no
\* active credential and a revoked connection.
DisconnectedIsRevoked ==
  Quiet /\ faults = 0 /\ site.status = "disconnected"
    => connection = "revoked" /\ creds = <<>>

\* A background sync never obtains a credential of a store whose disconnect
\* has been acknowledged.
NoSyncBeginsWhenDisconnected ==
  [][\A w \in Workers :
       worker[w] = "start" /\ worker'[w] = "insert"
         => ~(Quiet /\ faults = 0 /\ site.status = "disconnected")]_vars

(* Liveness.                                                               *)

\* A background sync ends, however it ends.
SyncEnds == \A w \in Workers : Live(w) ~> ~Live(w)

\* A run whose process died never blocks the merchant's syncs for ever: it
\* is cancelled once it is 30 minutes old and the merchant asks again.
OrphanRunIsCleared ==
  \A w \in Workers :
    run[w].status = "running" /\ ~Live(w) ~> run[w].status # "running"

\* A store that stays disconnected, with no credential that outlived it, is in
\* the end shown without running progress: not by a sync that had its
\* credential before the disconnect and inserts its row after it, nor by one
\* whose process died, nor by administrators who go on asking for resyncs.
DisconnectLeavesNoRun ==
  <>[](site.status = "disconnected" /\ creds = <<>>)
    => <>[](\A w \in Workers : run[w].status # "running")
=============================================================================
