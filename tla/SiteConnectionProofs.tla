------------------------ MODULE SiteConnectionProofs ------------------------
(***************************************************************************)
(* Theorems about SiteConnection, for every set of requests, background    *)
(* syncs and hosts and every number of faults.                             *)
(***************************************************************************)
EXTENDS SiteConnection, FiniteSetTheorems, SequenceTheorems, TLAPS

-----------------------------------------------------------------------------
(* Type correctness.                                                       *)

\* The host every row starts from is one of the hosts.
LEMMA NoHostType == NoHost \in Hosts
  BY HostsAssumption DEF NoHost

\* A request that is not being served has a well-typed record.
LEMMA IdleType ==
  Idle \in ReqState
  BY NoHostType DEF Idle, ReqStep, SiteStatus, ReqState

\* A request record stays well typed when its handler takes one more step.
LEMMA MoveType ==
  ASSUME TypeOK, NEW r \in Requests, NEW a \in ReqStep
  PROVE  [req EXCEPT ![r].at = a] \in [Requests -> ReqState]
<1>1. req[r] \in ReqState
  BY DEF TypeOK
<1>2. [req[r] EXCEPT !.at = a] \in ReqState
  BY <1>1 DEF ReqState
<1> QED BY <1>2 DEF TypeOK

\* syncWooSite has five phases.
LEMMA PhasesLen == Len(Phases) = 5 /\ PhaseIndex = 1 .. 5
  BY DEF Phases, PhaseIndex

\* A background sync that has inserted no row has a well-typed empty one.
LEMMA NoRunType == NoRun \in RunRow
  BY PhasesLen DEF NoRun, RunStatus, Age, RunRow

\* Starting a background sync keeps the types of what it changes.
LEMMA StartSyncType ==
  ASSUME TypeOK, startSiteSync
  PROVE  /\ worker' \in [Workers -> WorkerStep]
         /\ run' \in [Workers -> RunRow]
<1>1. CASE \E w \in Workers : /\ FreeSlot(w)
                              /\ worker' = [worker EXCEPT ![w] = "start"]
                              /\ run' = [run EXCEPT ![w] = NoRun]
  <2> PICK w \in Workers : /\ worker' = [worker EXCEPT ![w] = "start"]
                          /\ run' = [run EXCEPT ![w] = NoRun]
    BY <1>1
  <2> QED BY NoRunType DEF TypeOK, WorkerStep
<1>2. CASE UNCHANGED <<worker, run>>
  BY <1>2 DEF TypeOK
<1> QED BY <1>1, <1>2 DEF startSiteSync

\* Revoking the first n active credentials leaves a list of credentials.
LEMMA CommitKeepsSeq ==
  ASSUME NEW s \in Seq(Hosts), NEW n \in Nat
  PROVE  /\ SubSeq(s, n + 1, Len(s)) \in Seq(Hosts)
         /\ n <= Len(s) => Len(SubSeq(s, n + 1, Len(s))) = Len(s) - n
<1>1. Len(s) \in Nat /\ \A i \in 1 .. Len(s) : s[i] \in Hosts
  BY LenProperties, ElementOfSeq
<1>2. \A i \in (n + 1) .. Len(s) : s[i] \in Hosts
  BY <1>1
<1>3. n + 1 \in Int /\ Len(s) \in Int
  BY <1>1
<1>4. /\ SubSeq(s, n + 1, Len(s)) \in Seq(Hosts)
      /\ Len(SubSeq(s, n + 1, Len(s))) =
           IF n + 1 <= Len(s) THEN Len(s) - (n + 1) + 1 ELSE 0
  BY <1>2, <1>3, SubSeqProperties
<1> QED BY <1>1, <1>4

\* The initial state is well typed.
LEMMA TypeInitially == Init => TypeOK
<1> SUFFICES ASSUME Init PROVE TypeOK
  OBVIOUS
<1>1. site \in [status : SiteStatus, host : Hosts]
  BY NoHostType DEF Init, SiteStatus
<1>2. creds \in Seq(Hosts) /\ sealed \in BOOLEAN /\ connection \in ConnectionStatus
  BY EmptySeq DEF Init, ConnectionStatus
<1>3. req \in [Requests -> ReqState] /\ run \in [Workers -> RunRow]
  BY IdleType, NoRunType DEF Init
<1>4. worker \in [Workers -> WorkerStep] /\ faults \in 0 .. MaxFaults
  BY FaultsAssumption DEF Init, WorkerStep
<1> QED BY <1>1, <1>2, <1>3, <1>4 DEF TypeOK

\* Every handler step keeps every row and every request record well typed.
THEOREM TypeCorrect == Spec => []TypeOK
<1>1. Init => TypeOK
  BY TypeInitially
<1>2. TypeOK /\ [Next]_vars => TypeOK'
  <2> SUFFICES ASSUME TypeOK, [Next]_vars PROVE TypeOK'
    OBVIOUS
  <2>1. ASSUME NEW h \in Hosts, StartConnection(h) PROVE TypeOK'
    BY <2>1 DEF TypeOK, StartConnection, SiteStatus, ConnectionStatus
  <2>2. ASSUME NEW r \in Requests, RequestArrives(r) PROVE TypeOK'
    <3>1. CASE VerifyRead(r)
      <4>1. [Idle EXCEPT !.at = "v_remote", !.host = site.host] \in ReqState
        BY IdleType DEF TypeOK, ReqState, ReqStep
      <4> QED BY <3>1, <4>1 DEF TypeOK, VerifyRead
    <3>2. ASSUME NEW h \in Hosts, SettingsRead(r, h) PROVE TypeOK'
      <4> DEFINE s == IF h # site.host THEN "pending" ELSE site.status
      <4>1. s \in SiteStatus
        BY DEF TypeOK, SiteStatus
      <4>2. [Idle EXCEPT !.at = "s_write", !.host = h, !.status = s] \in ReqState
        BY <4>1, IdleType DEF ReqState, ReqStep
      <4> QED BY <3>2, <4>2 DEF TypeOK, SettingsRead
    <3>3. CASE DisconnectBegin(r)
      <4>1. [Idle EXCEPT !.at = "d_commit", !.seen = Len(creds), !.locks = sealed] \in ReqState
        BY IdleType, LenProperties DEF TypeOK, ReqState, ReqStep
      <4> QED BY <3>3, <4>1 DEF TypeOK, DisconnectBegin
    <3>4. CASE SyncCancelStale(r)
      <4>1. req' \in [Requests -> ReqState]
        BY <3>4, MoveType DEF SyncCancelStale, ReqStep
      <4>2. run' \in [Workers -> RunRow]
        BY <3>4 DEF TypeOK, SyncCancelStale, RunStatus, RunRow
      <4> QED BY <3>4, <4>1, <4>2 DEF TypeOK, SyncCancelStale
    <3> QED BY <2>2, <3>1, <3>2, <3>3, <3>4 DEF RequestArrives
  <2>3. ASSUME NEW r \in Requests, RequestContinues(r) PROVE TypeOK'
    <3>1. CASE VerifyRejected(r)
      BY <3>1, IdleType DEF TypeOK, VerifyRejected
    <3>2. CASE VerifyRevoke(r)
      BY <3>2, MoveType, EmptySeq DEF TypeOK, VerifyRevoke, ReqStep
    <3>3. CASE VerifyInsert(r)
      <4>1. creds' \in Seq(Hosts)
        BY <3>3, AppendProperties DEF TypeOK, VerifyInsert, ReqState
      <4> QED BY <3>3, <4>1, MoveType DEF TypeOK, VerifyInsert, ReqStep
    <3>4. CASE VerifySite(r)
      BY <3>4, MoveType DEF TypeOK, VerifySite, ReqStep, SiteStatus
    <3>5. CASE VerifyConnection(r)
      BY <3>5, IdleType, StartSyncType DEF TypeOK, VerifyConnection, ConnectionStatus
    <3>6. CASE SettingsWrite(r)
      BY <3>6, IdleType DEF TypeOK, SettingsWrite, ReqState
    <3>7. CASE DisconnectCommit(r)
      <4>1. creds' \in Seq(Hosts)
        BY <3>7, CommitKeepsSeq DEF TypeOK, DisconnectCommit, ReqState
      <4>2. run' \in [Workers -> RunRow]
        BY <3>7 DEF TypeOK, DisconnectCommit, CancelRunning, RunStatus, RunRow
      <4> QED
        BY <3>7, <4>1, <4>2, IdleType DEF TypeOK, DisconnectCommit, SiteStatus, ConnectionStatus
    <3>8. CASE SyncAlreadyRunning(r)
      BY <3>8, IdleType DEF TypeOK, SyncAlreadyRunning
    <3>9. CASE SyncStart(r)
      BY <3>9, IdleType, StartSyncType DEF TypeOK, SyncStart
    <3> QED
      BY <2>3, <3>1, <3>2, <3>3, <3>4, <3>5, <3>6, <3>7, <3>8, <3>9 DEF RequestContinues
  <2>4. ASSUME NEW r \in Requests, Abort(r) PROVE TypeOK'
    BY <2>4, IdleType, FaultsAssumption DEF TypeOK, Abort
  <2>5. CASE AdminResync
    BY <2>5, StartSyncType DEF TypeOK, AdminResync
  <2>6. ASSUME NEW w \in Workers, WorkerContinues(w) PROVE TypeOK'
    <3>1. CASE SyncNoCredentials(w)
      BY <3>1 DEF TypeOK, SyncNoCredentials, WorkerStep
    <3>2. CASE SyncReadCredentials(w)
      BY <3>2 DEF TypeOK, SyncReadCredentials, WorkerStep
    <3>3. CASE SyncInsertRun(w)
      BY <3>3, PhasesLen DEF TypeOK, SyncInsertRun, WorkerStep, RunStatus, Age, RunRow
    <3>4. CASE SyncNextPhase(w)
      <4>1. Progress(w, run[w].phase + 1) \in RunRow
        <5>1. run[w] \in RunRow /\ run[w].phase + 1 \in PhaseIndex
          BY <3>4, PhasesLen DEF TypeOK, SyncNextPhase, RunRow
        <5>2. (IF run[w].age = "stale" THEN "busy" ELSE run[w].age) \in Age
          BY <5>1 DEF RunRow, Age
        <5> QED BY <5>1, <5>2 DEF Progress, RunRow
      <4> QED BY <3>4, <4>1 DEF TypeOK, SyncNextPhase
    <3>5. CASE SyncSuccess(w)
      BY <3>5 DEF TypeOK, SyncSuccess, WorkerStep, RunStatus, RunRow
    <3>6. CASE SyncStamp(w)
      BY <3>6 DEF TypeOK, SyncStamp, WorkerStep
    <3>7. CASE SyncFailure(w)
      BY <3>7 DEF TypeOK, SyncFailure, WorkerStep, RunStatus, RunRow
    <3> QED BY <2>6, <3>1, <3>2, <3>3, <3>4, <3>5, <3>6, <3>7 DEF WorkerContinues
  <2>7. ASSUME NEW w \in Workers, NEW a \in Age, RunAges(w, a) PROVE TypeOK'
    BY <2>7 DEF TypeOK, RunAges, RunRow
  <2>8. CASE Crash
    BY <2>8, IdleType, FaultsAssumption DEF TypeOK, Crash, WorkerStep
  <2>9. CASE UNCHANGED vars
    BY <2>9 DEF TypeOK, vars
  <2>10. ASSUME NEW w \in Workers, SyncAborts(w) PROVE TypeOK'
    BY <2>10, FaultsAssumption DEF TypeOK, SyncAborts, WorkerStep
  <2> QED BY <2>1, <2>2, <2>3, <2>4, <2>5, <2>6, <2>7, <2>8, <2>9, <2>10 DEF Next
<1> QED BY <1>1, <1>2, PTL DEF Spec
-----------------------------------------------------------------------------
(* The sync_run rows. RunIsSettled is not inductive: it needs to know what *)
(* the row of a sync is before and after its pull, when nothing that       *)
(* cancels running rows can touch it.                                      *)

RunMatchesWorker ==
  \A w \in Workers :
    /\ worker[w] \in {"start", "insert"} => run[w].status = "none"
    /\ worker[w] = "stamp" => run[w].status = "success"

RunInv == TypeOK /\ RunMatchesWorker /\ RunIsSettled

\* A cancellation touches only rows that are 'running', and makes none so.
LEMMA CancelKeepsRuns ==
  ASSUME RunInv, UNCHANGED <<worker, faults>>,
         \A w \in Workers :
           run'[w] = run[w] \/ (run[w].status = "running" /\ run'[w].status = "cancelled")
  PROVE  (RunMatchesWorker /\ RunIsSettled)'
  BY DEF RunInv, RunMatchesWorker, RunIsSettled, Live

\* A background sync starts in a slot whose row is not 'running', and clears it.
LEMMA StartKeepsRuns ==
  ASSUME RunInv, startSiteSync, UNCHANGED faults
  PROVE  (RunMatchesWorker /\ RunIsSettled)'
<1>1. CASE \E w \in Workers : /\ FreeSlot(w)
                              /\ worker' = [worker EXCEPT ![w] = "start"]
                              /\ run' = [run EXCEPT ![w] = NoRun]
  <2> PICK w \in Workers : /\ worker' = [worker EXCEPT ![w] = "start"]
                          /\ run' = [run EXCEPT ![w] = NoRun]
    BY <1>1
  <2> QED
    BY DEF RunInv, TypeOK, NoRun, RunMatchesWorker, RunIsSettled, Live
<1>2. CASE UNCHANGED <<worker, run>>
  BY <1>2 DEF RunInv, RunMatchesWorker, RunIsSettled, Live
<1> QED BY <1>1, <1>2 DEF startSiteSync

\* The run invariant holds in every reachable state.
LEMMA RunInvariant == Spec => []RunInv
<1>1. Init => RunMatchesWorker /\ RunIsSettled
  BY DEF Init, NoRun, RunMatchesWorker, RunIsSettled
<1>2. RunInv /\ [Next]_vars => (RunMatchesWorker /\ RunIsSettled)'
  <2> SUFFICES ASSUME RunInv, [Next]_vars
               PROVE  (RunMatchesWorker /\ RunIsSettled)'
    OBVIOUS
  <2> USE DEF RunInv
  <2> DEFINE Same == UNCHANGED <<worker, run, faults>>
  <2>0. Same => (RunMatchesWorker /\ RunIsSettled)'
    BY DEF RunMatchesWorker, RunIsSettled, Live
  <2>1. ASSUME NEW h \in Hosts, StartConnection(h) PROVE Same
    BY <2>1 DEF StartConnection
  <2>2. ASSUME NEW r \in Requests, RequestArrives(r)
        PROVE  (RunMatchesWorker /\ RunIsSettled)'
    <3>1. CASE SyncCancelStale(r)
      BY <3>1, CancelKeepsRuns DEF TypeOK, SyncCancelStale
    <3>2. CASE VerifyRead(r) \/ (\E h \in Hosts : SettingsRead(r, h)) \/ DisconnectBegin(r)
      BY <3>2, <2>0 DEF VerifyRead, SettingsRead, DisconnectBegin
    <3> QED BY <2>2, <3>1, <3>2 DEF RequestArrives
  <2>3. ASSUME NEW r \in Requests, RequestContinues(r)
        PROVE  (RunMatchesWorker /\ RunIsSettled)'
    <3>1. CASE DisconnectCommit(r)
      BY <3>1, CancelKeepsRuns DEF TypeOK, DisconnectCommit, CancelRunning
    <3>2. CASE VerifyConnection(r) \/ SyncStart(r)
      BY <3>2, StartKeepsRuns DEF VerifyConnection, SyncStart
    <3>3. CASE VerifyRejected(r) \/ VerifyRevoke(r) \/ VerifyInsert(r) \/ VerifySite(r)
                \/ SettingsWrite(r) \/ SyncAlreadyRunning(r)
      BY <3>3, <2>0
         DEF VerifyRejected, VerifyRevoke, VerifyInsert, VerifySite, SettingsWrite,
             SyncAlreadyRunning
    <3> QED BY <2>3, <3>1, <3>2, <3>3 DEF RequestContinues
  <2>4. ASSUME NEW r \in Requests, Abort(r)
        PROVE  (RunMatchesWorker /\ RunIsSettled)'
    BY <2>4, FaultsAssumption
       DEF Abort, TypeOK, RunMatchesWorker, RunIsSettled, Live
  <2>5. CASE AdminResync
    BY <2>5, StartKeepsRuns DEF AdminResync
  <2>6. ASSUME NEW w \in Workers, WorkerContinues(w)
        PROVE  (RunMatchesWorker /\ RunIsSettled)'
    <3> USE PhasesLen DEF TypeOK, RunMatchesWorker, RunIsSettled, Live
    <3>1. CASE SyncNoCredentials(w) \/ SyncReadCredentials(w)
      BY <3>1 DEF SyncNoCredentials, SyncReadCredentials
    <3>2. CASE SyncInsertRun(w)
      BY <3>2 DEF SyncInsertRun
    <3>3. CASE SyncNextPhase(w)
      BY <3>3 DEF SyncNextPhase, Progress
    <3>4. CASE SyncSuccess(w)
      BY <3>4 DEF SyncSuccess
    <3>5. CASE SyncStamp(w)
      BY <3>5 DEF SyncStamp
    <3>6. CASE SyncFailure(w)
      BY <3>6 DEF SyncFailure
    <3> QED BY <2>6, <3>1, <3>2, <3>3, <3>4, <3>5, <3>6 DEF WorkerContinues
  <2>7. ASSUME NEW w \in Workers, NEW a \in Age, RunAges(w, a)
        PROVE  (RunMatchesWorker /\ RunIsSettled)'
    BY <2>7 DEF RunAges, TypeOK, RunMatchesWorker, RunIsSettled, Live
  <2>8. CASE Crash
    BY <2>8, FaultsAssumption
       DEF Crash, TypeOK, RunMatchesWorker, RunIsSettled, Live
  <2>9. CASE UNCHANGED vars
    BY <2>9, <2>0 DEF vars
  <2>10. ASSUME NEW w \in Workers, SyncAborts(w)
         PROVE  (RunMatchesWorker /\ RunIsSettled)'
    BY <2>10, FaultsAssumption
       DEF SyncAborts, TypeOK, RunMatchesWorker, RunIsSettled, Live
  <2> QED BY <2>0, <2>1, <2>2, <2>3, <2>4, <2>5, <2>6, <2>7, <2>8, <2>9, <2>10 DEF Next
<1> QED BY <1>1, <1>2, TypeCorrect, PTL DEF Spec, RunInv

\* Without a fault, a row is left running or cancelled only while its sync is
\* on its way: every path out of syncWooSite settles the row it inserted, also
\* one that was cancelled under it.
THEOREM RunIsSettledHolds == Spec => []RunIsSettled
  BY RunInvariant, PTL DEF RunInv
-----------------------------------------------------------------------------
(* The credentials. A verification revokes every active row before it      *)
(* inserts its own, but in two statements. The bound on the active rows    *)
(* counts the requests that stand between the two. What a disconnect saw   *)
(* when it began is still there when it commits, because it holds the row  *)
(* locks; of the disconnects that overlap only one holds locks, and the    *)
(* others found no row at all. And what came after, with what is still to  *)
(* be inserted, is at most one row for each other request, because nobody  *)
(* gets past its own revoking while the rows are locked.                   *)

Inserting == {r \in Requests : req[r].at = "v_insert"}

InsertionBound == Len(creds) + Cardinality(Inserting) <= Cardinality(Requests)

CommitsAreExclusive ==
  /\ \A r \in Requests : req[r].at = "d_commit" /\ ~req[r].locks => req[r].seen = 0
  /\ \A q, r \in Requests :
       q # r /\ req[q].at = "d_commit" /\ req[r].at = "d_commit"
         => ~req[q].locks \/ ~req[r].locks

SeenIsThere == \A r \in Requests : req[r].at = "d_commit" => req[r].seen <= Len(creds)

SurvivorBound ==
  \A r \in Requests :
    req[r].at = "d_commit"
      => Len(creds) - req[r].seen + Cardinality(Inserting) < Cardinality(Requests)

CredInv ==
  /\ TypeOK
  /\ InsertionBound
  /\ ~sealed => creds = <<>>
  /\ SeenIsThere
  /\ SurvivorBound
  /\ CommitsAreExclusive

\* The requests between the two statements are among the requests.
LEMMA InsertingFinite ==
  /\ IsFiniteSet(Inserting)
  /\ Cardinality(Inserting) \in Nat
  /\ Cardinality(Inserting) <= Cardinality(Requests)
  /\ Cardinality(Requests) \in Nat
<1>1. Inserting \in SUBSET Requests
  BY DEF Inserting
<1> QED BY <1>1, RequestsAssumption, FS_Subset, FS_CardinalityType

\* Nobody enters the gap and nothing is added: the bound stays.
LEMMA BoundShrinks ==
  ASSUME TypeOK, InsertionBound, TypeOK', Inserting' \subseteq Inserting, Len(creds') <= Len(creds)
  PROVE  InsertionBound'
<1>1. Len(creds) \in Nat /\ Len(creds') \in Nat
  BY LenProperties DEF TypeOK
<1>2. /\ Cardinality(Inserting') <= Cardinality(Inserting)
      /\ Cardinality(Inserting') \in Nat
  BY InsertingFinite, FS_Subset, FS_CardinalityType
<1> QED BY <1>1, <1>2, InsertingFinite DEF InsertionBound

\* A set of requests that misses one of them is smaller than all of them.
LEMMA MissingOne ==
  ASSUME NEW S \in SUBSET Requests, NEW r \in Requests, r \notin S
  PROVE  Cardinality(S) \in Nat /\ Cardinality(S) < Cardinality(Requests)
<1>1. S \in SUBSET (Requests \ {r})
  OBVIOUS
<1>2. /\ IsFiniteSet(Requests \ {r})
      /\ Cardinality(Requests \ {r}) = Cardinality(Requests) - 1
  BY RequestsAssumption, FS_RemoveElement
<1>3. Cardinality(S) <= Cardinality(Requests \ {r}) /\ Cardinality(S) \in Nat
  BY <1>1, <1>2, FS_Subset, FS_CardinalityType
<1> QED BY <1>2, <1>3, InsertingFinite

\* Nobody enters the gap, nothing is added, no disconnect begins: what each
\* disconnect will leave does not grow.
LEMMA SurvivorsShrink ==
  ASSUME TypeOK, SurvivorBound, TypeOK', Inserting' \subseteq Inserting, Len(creds') <= Len(creds),
         \A q \in Requests : req'[q].at = "d_commit" => req'[q] = req[q]
  PROVE  SurvivorBound'
<1>1. Len(creds) \in Nat /\ Len(creds') \in Nat
  BY LenProperties DEF TypeOK
<1>2. /\ Cardinality(Inserting') <= Cardinality(Inserting)
      /\ Cardinality(Inserting') \in Nat
  BY InsertingFinite, FS_Subset, FS_CardinalityType
<1>3. \A q \in Requests : req[q].seen \in Nat
  BY DEF TypeOK, ReqState
<1> QED BY <1>1, <1>2, <1>3, InsertingFinite DEF SurvivorBound

\* A handler that stands before the commit of a disconnect leaves it without a
\* fault by committing.
LEMMA OnlyCommitEnds ==
  ASSUME TypeOK, Next, NEW r \in Requests, Commits(r)
  PROVE  DisconnectCommit(r)
<1> USE DEF Commits, TypeOK
<1>1. ASSUME NEW q \in Requests, RequestArrives(q) \/ RequestContinues(q), q # r PROVE FALSE
  BY <1>1 DEF RequestArrives, RequestContinues, VerifyRead, SettingsRead, DisconnectBegin,
       SyncCancelStale, VerifyRejected, VerifyRevoke, VerifyInsert, VerifySite, VerifyConnection,
       SettingsWrite, DisconnectCommit, SyncAlreadyRunning, SyncStart
<1>2. CASE RequestArrives(r) \/ RequestContinues(r)
  BY <1>2 DEF RequestArrives, RequestContinues, VerifyRead, SettingsRead, DisconnectBegin,
       SyncCancelStale, VerifyRejected, VerifyRevoke, VerifyInsert, VerifySite, VerifyConnection,
       SettingsWrite, SyncAlreadyRunning, SyncStart
<1>3. CASE Crash \/ (\E q \in Requests : Abort(q)) \/ (\E w \in Workers : SyncAborts(w))
  BY <1>3 DEF Crash, Abort, SyncAborts
<1>4. UNCHANGED req => FALSE
  OBVIOUS
<1>5. ASSUME NEW w \in Workers, WorkerContinues(w) PROVE FALSE
  BY <1>5, <1>4 DEF WorkerContinues, SyncNoCredentials, SyncReadCredentials, SyncInsertRun,
       SyncNextPhase, SyncSuccess, SyncStamp, SyncFailure
<1> QED
  BY <1>1, <1>2, <1>3, <1>4, <1>5 DEF Next, StartConnection, AdminResync, RunAges

\* The credential invariant holds in every reachable state.
LEMMA CredInvariant == Spec => []CredInv
<1>1. Init => CredInv
  <2> SUFFICES ASSUME Init PROVE CredInv
    OBVIOUS
  <2>1. Inserting = {}
    BY DEF Init, Inserting, Idle
  <2>2. InsertionBound
    BY <2>1, InsertingFinite, FS_EmptySet, EmptySeq DEF Init, InsertionBound
  <2>3. SeenIsThere /\ SurvivorBound /\ CommitsAreExclusive
    BY DEF Init, Idle, SeenIsThere, SurvivorBound, CommitsAreExclusive
  <2>4. ~sealed => creds = <<>>
    BY DEF Init
  <2> QED BY <2>2, <2>3, <2>4, TypeInitially DEF CredInv
<1>2. CredInv /\ TypeOK' /\ [Next]_vars => CredInv'
  <2> SUFFICES ASSUME CredInv, TypeOK', [Next]_vars PROVE CredInv'
    OBVIOUS
  <2> USE DEF CredInv
  <2>0. Len(creds) \in Nat /\ Len(creds') \in Nat
    BY LenProperties DEF TypeOK
  \* Most steps change no credential, and move one request between
  \* positions that are neither the gap nor a commit.
  <2>q. ASSUME UNCHANGED <<creds, sealed>>,
               \A q \in Requests :
                 \/ req'[q] = req[q]
                 \/ req'[q].at \notin {"v_insert", "d_commit"}
        PROVE  CredInv'
    <3>1. Inserting' \subseteq Inserting
      BY <2>q DEF Inserting
    <3>2. InsertionBound'
      BY <2>q, <2>0, <3>1, BoundShrinks
    <3>3. SurvivorBound'
      BY <2>q, <2>0, <3>1, SurvivorsShrink
    <3> QED BY <2>q, <3>2, <3>3 DEF SeenIsThere, CommitsAreExclusive
  <2>1. ASSUME NEW h \in Hosts, StartConnection(h) PROVE CredInv'
    BY <2>1, <2>q DEF StartConnection
  <2>2. ASSUME NEW r \in Requests, RequestArrives(r) PROVE CredInv'
    <3>1. CASE VerifyRead(r)
      BY <3>1, <2>q DEF VerifyRead, TypeOK, Idle
    <3>2. ASSUME NEW h \in Hosts, SettingsRead(r, h) PROVE CredInv'
      BY <3>2, <2>q DEF SettingsRead, TypeOK, Idle
    <3>3. CASE DisconnectBegin(r)
      <4>1. /\ req'[r].at = "d_commit" /\ req'[r].seen = Len(creds)
            /\ req'[r].locks = sealed
        BY <3>3 DEF DisconnectBegin, TypeOK, Idle
      <4>2. \A q \in Requests \ {r} : req'[q] = req[q]
        BY <3>3 DEF DisconnectBegin, TypeOK
      <4>3. UNCHANGED <<creds, sealed>>
        BY <3>3 DEF DisconnectBegin
      <4>4. Inserting' \subseteq Inserting
        BY <4>1, <4>2 DEF Inserting
      <4>5. InsertionBound'
        BY <4>3, <4>4, <2>0, BoundShrinks
      <4>6. SeenIsThere'
        BY <4>1, <4>2, <4>3, <2>0 DEF SeenIsThere
      <4>7. \A q \in Requests \ {r} : req[q].at = "d_commit" => ~req[q].locks
        BY <3>3 DEF DisconnectBegin, CredsLocked
      <4>8. ~sealed => Len(creds) = 0
        BY EmptySeq
      <4>9. CommitsAreExclusive'
        BY <4>1, <4>2, <4>7, <4>8 DEF CommitsAreExclusive
      <4>10. SurvivorBound'
        <5> SUFFICES ASSUME NEW q \in Requests, req'[q].at = "d_commit"
                     PROVE  Len(creds) - req'[q].seen + Cardinality(Inserting')
                              < Cardinality(Requests)
          BY <4>3 DEF SurvivorBound
        <5>1. Inserting' \in SUBSET Requests /\ r \notin Inserting'
          BY <4>1 DEF Inserting
        <5>2. CASE q = r
          BY <5>1, <5>2, <4>1, <2>0, MissingOne
        <5>3. CASE q # r
          <6>1. /\ Cardinality(Inserting') <= Cardinality(Inserting)
                /\ Cardinality(Inserting') \in Nat
            BY <4>4, InsertingFinite, FS_Subset, FS_CardinalityType
          <6>2. req'[q] = req[q] /\ req[q].seen \in Nat
            BY <4>2, <5>3 DEF TypeOK, ReqState
          <6>3. Len(creds) - req[q].seen + Cardinality(Inserting) < Cardinality(Requests)
            BY <6>2 DEF SurvivorBound
          <6> QED BY <6>1, <6>2, <6>3, <2>0, InsertingFinite
        <5> QED BY <5>2, <5>3
      <4> QED BY <4>3, <4>5, <4>6, <4>9, <4>10
    <3>4. CASE SyncCancelStale(r)
      BY <3>4, <2>q DEF SyncCancelStale, TypeOK
    <3> QED BY <2>2, <3>1, <3>2, <3>3, <3>4 DEF RequestArrives
  <2>3. ASSUME NEW r \in Requests, RequestContinues(r) PROVE CredInv'
    <3>1. CASE VerifyRejected(r)
      BY <3>1, <2>q DEF VerifyRejected, TypeOK, Idle
    <3>2. CASE VerifyRevoke(r)
      <4>1. creds' = <<>> /\ Len(creds') = 0
        BY <3>2, EmptySeq DEF VerifyRevoke
      <4>2. InsertionBound'
        <5>1. Inserting' \in SUBSET Requests
          BY DEF Inserting
        <5>2. Cardinality(Inserting') <= Cardinality(Requests) /\ Cardinality(Inserting') \in Nat
          BY <5>1, RequestsAssumption, FS_Subset, FS_CardinalityType
        <5> QED BY <4>1, <5>2, InsertingFinite DEF InsertionBound
      <4>3. \A q \in Requests : req[q].at = "d_commit" => req[q].seen = 0
        BY <3>2 DEF VerifyRevoke, CredsLocked, CommitsAreExclusive
      <4>4. \A q \in Requests : req'[q].at = "d_commit" => req'[q] = req[q]
        BY <3>2 DEF VerifyRevoke, TypeOK, ReqState
      <4>5. SeenIsThere' /\ CommitsAreExclusive'
        BY <4>1, <4>3, <4>4 DEF SeenIsThere, CommitsAreExclusive
      <4>6. SurvivorBound'
        <5> SUFFICES ASSUME NEW q \in Requests, req'[q].at = "d_commit"
                     PROVE  Len(creds') - req'[q].seen + Cardinality(Inserting')
                              < Cardinality(Requests)
          BY DEF SurvivorBound
        <5>1. req'[q].seen = 0
          BY <4>3, <4>4
        <5>2. Inserting' \in SUBSET Requests /\ q \notin Inserting'
          BY DEF Inserting
        <5>3. Cardinality(Inserting') \in Nat /\ Cardinality(Inserting') < Cardinality(Requests)
          BY <5>2, MissingOne
        <5> QED BY <4>1, <5>1, <5>3
      <4> QED BY <4>1, <4>2, <4>5, <4>6
    <3>3. CASE VerifyInsert(r)
      <4>1. Len(creds') = Len(creds) + 1 /\ sealed'
        BY <3>3, AppendProperties DEF VerifyInsert, TypeOK, ReqState
      <4>2. Inserting' = Inserting \ {r} /\ r \in Inserting
        BY <3>3 DEF VerifyInsert, TypeOK, ReqState, Inserting
      <4>3. Cardinality(Inserting') = Cardinality(Inserting) - 1
        BY <4>2, InsertingFinite, FS_RemoveElement
      <4>4. InsertionBound'
        BY <4>1, <4>3, <2>0, InsertingFinite DEF InsertionBound
      <4>5. \A q \in Requests : req'[q].at = "d_commit" => req'[q] = req[q]
        BY <3>3 DEF VerifyInsert, TypeOK, ReqState
      <4>6. SeenIsThere' /\ CommitsAreExclusive'
        BY <4>1, <4>5, <2>0
           DEF SeenIsThere, CommitsAreExclusive, TypeOK, ReqState
      <4>7. SurvivorBound'
        <5> SUFFICES ASSUME NEW q \in Requests, req'[q].at = "d_commit"
                     PROVE  Len(creds') - req'[q].seen + Cardinality(Inserting')
                              < Cardinality(Requests)
          BY DEF SurvivorBound
        <5>1. req'[q] = req[q] /\ req[q].seen \in Nat
          BY <4>5 DEF TypeOK, ReqState
        <5>2. Len(creds) - req[q].seen + Cardinality(Inserting) < Cardinality(Requests)
          BY <5>1 DEF SurvivorBound
        <5> QED BY <4>1, <4>3, <5>1, <5>2, <2>0, InsertingFinite
      <4> QED BY <4>1, <4>4, <4>6, <4>7
    <3>4. CASE VerifySite(r)
      BY <3>4, <2>q DEF VerifySite, TypeOK, ReqState
    <3>5. CASE VerifyConnection(r)
      BY <3>5, <2>q DEF VerifyConnection, TypeOK, Idle
    <3>6. CASE SettingsWrite(r)
      BY <3>6, <2>q DEF SettingsWrite, TypeOK, Idle
    <3>7. CASE DisconnectCommit(r)
      <4>1. req[r].seen \in Nat /\ req[r].seen <= Len(creds)
        BY <3>7 DEF DisconnectCommit, SeenIsThere, TypeOK, ReqState
      <4>2. Len(creds') = Len(creds) - req[r].seen
        BY <3>7, <4>1, CommitKeepsSeq DEF DisconnectCommit, TypeOK
      <4>3. \A q \in Requests : req'[q] = IF q = r THEN Idle ELSE req[q]
        BY <3>7 DEF DisconnectCommit, TypeOK
      <4>4. Inserting' \subseteq Inserting
        BY <4>3 DEF Inserting, Idle
      <4>5. InsertionBound'
        BY <4>1, <4>2, <4>4, <2>0, BoundShrinks
      <4>6. \A q \in Requests \ {r} :
              req[q].at = "d_commit" => req[q].seen = 0 \/ req[r].seen = 0
        BY <3>7 DEF DisconnectCommit, CommitsAreExclusive
      <4>7. SeenIsThere' /\ CommitsAreExclusive'
        BY <4>1, <4>2, <4>3, <4>6, <2>0
           DEF SeenIsThere, CommitsAreExclusive, Idle
      <4>8. ~sealed' => creds' = <<>>
        <5> SUFFICES ASSUME ~sealed PROVE creds' = <<>>
          BY <3>7 DEF DisconnectCommit
        <5>1. Len(creds') = 0
          BY <4>1, <4>2, EmptySeq
        <5> QED BY <5>1, EmptySeq DEF TypeOK
      <4>9. SurvivorBound'
        BY <4>1, <4>2, <4>3, <4>4, <2>0, SurvivorsShrink DEF Idle
      <4> QED BY <4>5, <4>7, <4>8, <4>9
    <3>8. CASE SyncAlreadyRunning(r)
      BY <3>8, <2>q DEF SyncAlreadyRunning, TypeOK, Idle
    <3>9. CASE SyncStart(r)
      BY <3>9, <2>q DEF SyncStart, TypeOK, Idle
    <3> QED
      BY <2>3, <3>1, <3>2, <3>3, <3>4, <3>5, <3>6, <3>7, <3>8, <3>9 DEF RequestContinues
  <2>4. ASSUME NEW r \in Requests, Abort(r) PROVE CredInv'
    BY <2>4, <2>q DEF Abort, TypeOK, Idle
  <2>5. CASE AdminResync
    BY <2>5, <2>q DEF AdminResync
  <2>6. ASSUME NEW w \in Workers, WorkerContinues(w) PROVE CredInv'
    BY <2>6, <2>q
       DEF WorkerContinues, SyncNoCredentials, SyncReadCredentials, SyncInsertRun,
           SyncNextPhase, SyncSuccess, SyncStamp, SyncFailure
  <2>7. ASSUME NEW w \in Workers, NEW a \in Age, RunAges(w, a) PROVE CredInv'
    BY <2>7, <2>q DEF RunAges
  <2>8. CASE Crash
    BY <2>8, <2>q DEF Crash, Idle
  <2>9. CASE UNCHANGED vars
    BY <2>9, <2>q DEF vars
  <2>10. ASSUME NEW w \in Workers, SyncAborts(w) PROVE CredInv'
    BY <2>10, <2>q DEF SyncAborts
  <2> QED BY <2>1, <2>2, <2>3, <2>4, <2>5, <2>6, <2>7, <2>8, <2>9, <2>10 DEF Next
<1> QED BY <1>1, <1>2, TypeCorrect, PTL DEF Spec

\* The active credentials are never more than the requests that overlap: with
\* one request at a time, at most one.
THEOREM CredentialBoundHolds == Spec => []CredentialBound
<1>1. CredInv => CredentialBound
  <2> SUFFICES ASSUME CredInv PROVE CredentialBound
    OBVIOUS
  <2>1. Len(creds) \in Nat
    BY LenProperties DEF CredInv, TypeOK
  <2> QED BY <2>1, InsertingFinite DEF CredInv, InsertionBound, CredentialBound
<1> QED BY <1>1, CredInvariant, PTL

\* What is left active by a disconnect is at most one credential for each
\* other request: with one request at a time, none.
THEOREM DisconnectBoundHolds == Spec => DisconnectBound
<1>1. CredInv /\ [Next]_vars =>
        [\A r \in Requests : Commits(r) => Len(creds') < Cardinality(Requests)]_vars
  <2> SUFFICES ASSUME CredInv, Next, NEW r \in Requests, Commits(r)
               PROVE  Len(creds') < Cardinality(Requests)
    OBVIOUS
  <2>1. DisconnectCommit(r)
    BY OnlyCommitEnds DEF CredInv
  <2>2. creds' = SubSeq(creds, req[r].seen + 1, Len(creds))
    BY <2>1 DEF DisconnectCommit
  <2>3. req[r].seen \in Nat /\ req[r].seen <= Len(creds)
    BY <2>1 DEF DisconnectCommit, CredInv, SeenIsThere, TypeOK, ReqState
  <2>4. Len(creds') = Len(creds) - req[r].seen
    BY <2>2, <2>3, CommitKeepsSeq DEF CredInv, TypeOK
  <2>5. Len(creds) - req[r].seen + Cardinality(Inserting) < Cardinality(Requests)
    BY <2>1 DEF DisconnectCommit, CredInv, SurvivorBound
  <2>6. Len(creds) \in Nat
    BY LenProperties DEF CredInv, TypeOK
  <2> QED BY <2>3, <2>4, <2>5, <2>6, InsertingFinite
<1> QED BY <1>1, CredInvariant, PTL DEF Spec, DisconnectBound
-----------------------------------------------------------------------------
(* One request at a time, no fault: what the merchant sees between         *)
(* requests. Background syncs and administrators still interleave. The     *)
(* invariant says how far each handler has got from one settled state to   *)
(* the next.                                                               *)

Settled ==
  /\ site.status = "connected" => connection = "verified" /\ creds = <<site.host>>
  /\ site.status = "disconnected" => connection = "revoked" /\ creds = <<>>

SerialCore(r) ==
  /\ site.status = "absent" => req[r].at = "idle"
  /\ req[r].at \notin {"v_insert", "v_site", "v_connection"} => Settled
  /\ req[r].at \in {"v_remote", "v_insert", "v_site", "v_connection"}
       => req[r].host = site.host
  /\ req[r].at = "v_insert" => creds = <<>>
  /\ req[r].at \in {"v_site", "v_connection"} => creds = <<site.host>>
  /\ req[r].at = "v_connection" => site.status = "connected"
  /\ req[r].at = "s_write"
       => req[r].status = IF req[r].host # site.host THEN "pending" ELSE site.status
  /\ req[r].at = "d_commit" => req[r].seen = Len(creds)

SerialInv(r) == TypeOK /\ (faults = 0 => SerialCore(r))

\* Faults are only ever counted up.
LEMMA FaultsNeverDecrease ==
  ASSUME TypeOK, [Next]_vars
  PROVE  faults' >= faults
<1> USE FaultsAssumption DEF TypeOK
<1>1. CASE Crash \/ (\E r \in Requests : Abort(r)) \/ (\E w \in Workers : SyncAborts(w))
  BY <1>1 DEF Crash, Abort, SyncAborts
<1>2. CASE UNCHANGED faults
  BY <1>2
<1>3. Next => \/ UNCHANGED faults
              \/ Crash \/ (\E r \in Requests : Abort(r)) \/ (\E w \in Workers : SyncAborts(w))
  BY DEF Next, StartConnection, AdminResync, RunAges, RequestArrives, RequestContinues,
         VerifyRead, SettingsRead, DisconnectBegin, SyncCancelStale, VerifyRejected,
         VerifyRevoke, VerifyInsert, VerifySite, VerifyConnection, SettingsWrite,
         DisconnectCommit, SyncAlreadyRunning, SyncStart, WorkerContinues,
         SyncNoCredentials, SyncReadCredentials, SyncInsertRun, SyncNextPhase,
         SyncSuccess, SyncStamp, SyncFailure
<1> QED BY <1>1, <1>2, <1>3 DEF vars

\* The only request moves from one settled state to the next.
LEMMA SerialInvariant ==
  ASSUME NEW r, Requests = {r}
  PROVE  Spec => []SerialInv(r)
<1>1. Init => SerialInv(r)
  BY TypeInitially DEF Init, SerialInv, SerialCore, Settled, Idle
<1>2. SerialInv(r) /\ TypeOK' /\ [Next]_vars => SerialInv(r)'
  <2>f. TypeOK /\ TypeOK' /\ [Next]_vars /\ faults' = 0 => faults = 0
    BY FaultsNeverDecrease DEF TypeOK
  <2> SUFFICES ASSUME TypeOK, SerialCore(r), TypeOK', [Next]_vars, faults = 0, faults' = 0
               PROVE  SerialCore(r)'
    BY <2>f DEF SerialInv
  <2> USE DEF SerialCore, Settled, SiteExists
  <2>q. ASSUME UNCHANGED <<site, connection, creds, req>> PROVE SerialCore(r)'
    BY <2>q
  <2>1. ASSUME NEW h \in Hosts, StartConnection(h) PROVE SerialCore(r)'
    BY <2>1 DEF StartConnection, TypeOK
  <2>2. ASSUME RequestArrives(r) PROVE SerialCore(r)'
    <3>1. CASE VerifyRead(r)
      BY <3>1 DEF VerifyRead, TypeOK, Idle
    <3>2. ASSUME NEW h \in Hosts, SettingsRead(r, h) PROVE SerialCore(r)'
      BY <3>2 DEF SettingsRead, TypeOK, Idle
    <3>3. CASE DisconnectBegin(r)
      BY <3>3 DEF DisconnectBegin, TypeOK, Idle
    <3>4. CASE SyncCancelStale(r)
      BY <3>4 DEF SyncCancelStale, TypeOK, ReqState
    <3> QED BY <2>2, <3>1, <3>2, <3>3, <3>4 DEF RequestArrives
  <2>3. ASSUME RequestContinues(r) PROVE SerialCore(r)'
    <3>1. CASE VerifyRejected(r)
      BY <3>1 DEF VerifyRejected, TypeOK, Idle
    <3>2. CASE VerifyRevoke(r)
      BY <3>2 DEF VerifyRevoke, TypeOK, ReqState
    <3>3. CASE VerifyInsert(r)
      <4>1. creds' = <<req[r].host>>
        BY <3>3 DEF VerifyInsert, TypeOK
      <4> QED BY <3>3, <4>1 DEF VerifyInsert, TypeOK, ReqState
    <3>4. CASE VerifySite(r)
      BY <3>4 DEF VerifySite, TypeOK, ReqState
    <3>5. CASE VerifyConnection(r)
      BY <3>5 DEF VerifyConnection, TypeOK, Idle
    <3>6. CASE SettingsWrite(r)
      BY <3>6 DEF SettingsWrite, TypeOK, ReqState, Idle
    <3>7. CASE DisconnectCommit(r)
      <4>1. creds' = <<>>
        BY <3>7, LenProperties, SubSeqEmpty DEF DisconnectCommit, TypeOK
      <4> QED BY <3>7, <4>1 DEF DisconnectCommit, TypeOK, Idle
    <3>8. CASE SyncAlreadyRunning(r)
      BY <3>8 DEF SyncAlreadyRunning, TypeOK, Idle
    <3>9. CASE SyncStart(r)
      BY <3>9 DEF SyncStart, TypeOK, Idle
    <3> QED
      BY <2>3, <3>1, <3>2, <3>3, <3>4, <3>5, <3>6, <3>7, <3>8, <3>9 DEF RequestContinues
  <2>4. CASE Abort(r) \/ Crash \/ (\E w \in Workers : SyncAborts(w))
    BY <2>4 DEF Abort, Crash, SyncAborts, TypeOK
  <2>5. CASE AdminResync
    BY <2>5, <2>q DEF AdminResync
  <2>6. ASSUME NEW w \in Workers, WorkerContinues(w) PROVE SerialCore(r)'
    BY <2>6, <2>q
       DEF WorkerContinues, SyncNoCredentials, SyncReadCredentials, SyncInsertRun,
           SyncNextPhase, SyncSuccess, SyncStamp, SyncFailure
  <2>7. ASSUME NEW w \in Workers, NEW a \in Age, RunAges(w, a) PROVE SerialCore(r)'
    BY <2>7, <2>q DEF RunAges
  <2>8. CASE UNCHANGED vars
    BY <2>8, <2>q DEF vars
  <2> QED BY <2>1, <2>2, <2>3, <2>4, <2>5, <2>6, <2>7, <2>8 DEF Next
<1> QED BY <1>1, <1>2, TypeCorrect, PTL DEF Spec

\* Between requests, a connected store is verified and has exactly one active
\* credential, bound to the host of its url.
THEOREM ConnectedIsBackedHolds ==
  ASSUME NEW r, Requests = {r}
  PROVE  Spec => []ConnectedIsBacked
<1>1. SerialInv(r) => ConnectedIsBacked
  BY DEF SerialInv, SerialCore, Settled, ConnectedIsBacked, Quiet
<1> QED BY <1>1, SerialInvariant, PTL

\* Between requests, a disconnected store has no active credential.
THEOREM DisconnectedIsRevokedHolds ==
  ASSUME NEW r, Requests = {r}
  PROVE  Spec => []DisconnectedIsRevoked
<1>1. SerialInv(r) => DisconnectedIsRevoked
  BY DEF SerialInv, SerialCore, Settled, DisconnectedIsRevoked, Quiet
<1> QED BY <1>1, SerialInvariant, PTL

\* Once a disconnect has been acknowledged, no background sync obtains a
\* credential of the store.
THEOREM NoSyncBeginsWhenDisconnectedHolds ==
  ASSUME NEW r, Requests = {r}
  PROVE  Spec => NoSyncBeginsWhenDisconnected
<1>1. SerialInv(r) /\ [Next]_vars =>
        [\A w \in Workers :
           worker[w] = "start" /\ worker'[w] = "insert"
             => ~(Quiet /\ faults = 0 /\ site.status = "disconnected")]_vars
  <2> SUFFICES ASSUME SerialInv(r), Next, NEW w \in Workers,
                      worker[w] = "start", worker'[w] = "insert",
                      Quiet, faults = 0, site.status = "disconnected"
               PROVE  FALSE
    BY DEF vars
  <2> USE DEF SerialInv, SerialCore, Settled, Quiet, TypeOK
  <2>1. creds = <<>>
    OBVIOUS
  <2>2. startSiteSync => FALSE
    BY DEF startSiteSync, NoRun
  <2>3. UNCHANGED worker => FALSE
    OBVIOUS
  <2>4. ASSUME NEW v \in Workers, WorkerContinues(v) PROVE FALSE
    BY <2>1, <2>4
       DEF WorkerContinues, SyncNoCredentials, SyncReadCredentials, SyncInsertRun,
           SyncNextPhase, SyncSuccess, SyncStamp, SyncFailure
  <2>5. CASE Crash \/ (\E v \in Workers : SyncAborts(v))
    BY <2>5 DEF Crash, SyncAborts
  <2>6. ASSUME NEW q \in Requests, RequestArrives(q) \/ RequestContinues(q) \/ Abort(q)
        PROVE FALSE
    BY <2>2, <2>3, <2>6
       DEF RequestArrives, RequestContinues, Abort, VerifyRead, SettingsRead, DisconnectBegin,
           SyncCancelStale, VerifyRejected, VerifyRevoke, VerifyInsert, VerifySite,
           VerifyConnection, SettingsWrite, DisconnectCommit, SyncAlreadyRunning, SyncStart
  <2> QED
    BY <2>2, <2>3, <2>4, <2>5, <2>6
       DEF Next, StartConnection, AdminResync, RunAges
<1> QED BY <1>1, SerialInvariant, PTL DEF Spec, NoSyncBeginsWhenDisconnected
=============================================================================
