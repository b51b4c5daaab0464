---------------------------- MODULE PluginEvents ----------------------------
(***************************************************************************)
(* The events of the WordPress plugin: captured by hooks of the shop       *)
(* (wordpress-plugin/includes/class-wcos-event-bridge.php), kept in one    *)
(* option (class-wcos-event-store.php), delivered in batches by a          *)
(* scheduled action (class-wcos-event-deliverer.php,                       *)
(* class-wcos-sync-engine.php) and recorded by the backend                 *)
(* (services/api/src/services/plugin/ingest.ts).                           *)
(*                                                                         *)
(* A PHP process serves one request of the shop, one of an administrator   *)
(* or one delivery. It reads the option once: WordPress answers every      *)
(* later get_option from the process's own copy, and update_option writes  *)
(* what the process made of that copy over whatever is stored by then.     *)
(* The envelope of an event, the signature of the call, the plugin's audit *)
(* log and the backend's (one row per event of a batch that holds          *)
(* something new), and the times of the last success are left out.         *)
(***************************************************************************)
EXTENDS Naturals, Sequences, FiniteSets

CONSTANTS
  Processes,   \* PHP processes at work at the same time
  Events,      \* events that may be captured, each once
  Keys,        \* idempotency keys
  KeyOf,       \* of an event: its type, resource and second
  MaxQueue,    \* WCOS_Event_Store::MAX_QUEUE
  MaxBatch,    \* WCOS_Event_Deliverer::MAX_BATCH
  MaxAdmin,    \* bound on changes of the settings and on clears
  MaxFaults    \* bound on failed deliveries and processes that die

ASSUME KeysAssumption == KeyOf \in [Events -> Keys]
ASSUME SizesAssumption == MaxQueue \in Nat \ {0} /\ MaxBatch \in Nat \ {0}
ASSUME BoundsAssumption == MaxAdmin \in Nat /\ MaxFaults \in Nat

VARIABLES
  configured,  \* WCOS_Settings::is_configured
  queue,       \* wcos_event_queue, oldest first
  pending,     \* scheduled deliveries that have not started
  proc,        \* per PHP process: where it stands, its copy, its batch
  recorded,    \* keys that have a row in the backend's plugin_event
  captured,    \* history: events captured
  dropped,     \* history: events the cap or an administrator discarded
  crossed,     \* history: a copy was written that was no longer current
  undriven,    \* history: events were left for which nothing is scheduled
  admin,       \* changes of the settings and clears so far
  faults       \* failures so far

history == <<captured, dropped, crossed, undriven>>
vars == <<configured, queue, pending, proc, recorded, history, admin, faults>>

Elements(s) == {s[i] : i \in 1 .. Len(s)}
Lists == Seq(Events)

Steps == {"idle", "open", "schedule", "post", "remove", "again"}
ProcState == [at : Steps, copy : Lists, batch : Lists]
Idle == [at |-> "idle", copy |-> <<>>, batch |-> <<>>]

TypeOK ==
  /\ configured \in BOOLEAN
  /\ queue \in Lists
  /\ pending \in Nat
  /\ proc \in [Processes -> ProcState]
  /\ recorded \in SUBSET Keys
  /\ captured \in SUBSET Events
  /\ dropped \in SUBSET Events
  /\ crossed \in BOOLEAN
  /\ undriven \in BOOLEAN
  /\ admin \in 0 .. MaxAdmin
  /\ faults \in 0 .. MaxFaults

Init ==
  /\ configured \in BOOLEAN
  /\ queue = <<>>
  /\ pending = 0
  /\ proc = [p \in Processes |-> Idle]
  /\ recorded = {}
  /\ captured = {}
  /\ dropped = {}
  /\ crossed = FALSE
  /\ undriven = FALSE
  /\ admin = 0
  /\ faults = 0

-----------------------------------------------------------------------------
(* WCOS_Event_Store.                                                       *)

\* What is left of a list when its first n elements are gone.
Without(s, n) == SubSeq(s, n + 1, Len(s))

\* Mutant: off by one.
SurplusLate(s) == IF Len(s) > MaxQueue + 1 THEN Len(s) - MaxQueue ELSE 0

\* add_event: append, and keep the newest MaxQueue.
Surplus(s) == IF Len(s) > MaxQueue THEN Len(s) - MaxQueue ELSE 0
Added(s, e) == Without(Append(s, e), Surplus(Append(s, e)))

\* list_events: the newest first, MaxBatch of them.
Newest(s) == [i \in 1 .. IF Len(s) < MaxBatch THEN Len(s) ELSE MaxBatch |->
                s[Len(s) + 1 - i]]

\* Mutant: the ids never match.
RemovedNone(s, e) == s

\* remove_event: what its loop keeps of the first n events.
Removed(s, e) ==
  LET kept[n \in 0 .. Len(s)] ==
        IF n = 0 THEN <<>>
        ELSE IF s[n] = e THEN kept[n - 1] ELSE Append(kept[n - 1], s[n])
  IN kept[Len(s)]

\* write: what process p made of its copy becomes the option. update_option
\* does nothing when it equals the copy.
Write(p, s) ==
  /\ queue' = IF s = proc[p].copy THEN queue ELSE s
  /\ crossed' = (crossed \/ (s # proc[p].copy /\ queue \notin {s, proc[p].copy}))

Goto(p, step) == proc' = [proc EXCEPT ![p] = [@ EXCEPT !.at = step]]
End(p) == proc' = [proc EXCEPT ![p] = Idle]

\* schedule_event_delivery: wp-cron drops an action while another is due
\* within ten minutes, Action Scheduler does not.
ScheduleDelivery ==
  /\ \/ pending' = pending + 1
     \/ pending > 0 /\ pending' = pending
  /\ undriven' = FALSE

-----------------------------------------------------------------------------
(* A request of the shop or of an administrator.                           *)

\* The first get_option of the process.
Load(p) ==
  /\ proc[p].at = "idle"
  /\ proc' = [proc EXCEPT ![p] = [at |-> "open", copy |-> queue, batch |-> <<>>]]
  /\ UNCHANGED <<configured, queue, pending, recorded, history, admin, faults>>

\* enqueue_and_schedule up to its add_event; record_test_event, which
\* schedules nothing.
Capture(p, e, test) ==
  /\ proc[p].at = "open"
  /\ e \notin captured
  /\ LET s == Added(proc[p].copy, e)
     IN /\ Write(p, s)
        /\ proc' = [proc EXCEPT ![p] = [at |-> IF test \/ ~configured THEN "open" ELSE "schedule",
                                        copy |-> s, batch |-> <<>>]]
        /\ dropped' = dropped \cup (Elements(proc[p].copy) \ Elements(s))
  /\ captured' = captured \cup {e}
  /\ undriven' = (undriven \/ test \/ ~configured)
  /\ UNCHANGED <<configured, pending, recorded, admin, faults>>

Schedule(p) ==
  /\ proc[p].at = "schedule"
  /\ ScheduleDelivery
  /\ Goto(p, "open")
  /\ UNCHANGED <<configured, queue, recorded, captured, dropped, crossed, admin, faults>>

\* handle_clear_events, post_event_clear.
Clear(p) ==
  /\ proc[p].at = "open"
  /\ admin < MaxAdmin
  /\ admin' = admin + 1
  /\ Write(p, <<>>)
  /\ dropped' = dropped \cup Elements(proc[p].copy)
  /\ proc' = [proc EXCEPT ![p] = [@ EXCEPT !.copy = <<>>]]
  /\ UNCHANGED <<configured, pending, recorded, captured, undriven, faults>>

Finish(p) ==
  /\ proc[p].at = "open"
  /\ End(p)
  /\ UNCHANGED <<configured, queue, pending, recorded, history, admin, faults>>

\* WCOS_Settings::save, WCOS_Connection::disconnect.
Configure ==
  /\ admin < MaxAdmin
  /\ admin' = admin + 1
  /\ configured' = ~configured
  /\ UNCHANGED <<queue, pending, proc, recorded, history, faults>>

-----------------------------------------------------------------------------
(* deliver_pending_events.                                                 *)

\* The scheduled action ends at once when the plugin is not configured or the
\* queue is empty.
Deliver(p) ==
  /\ proc[p].at = "idle"
  /\ pending > 0
  /\ pending' = pending - 1
  /\ IF configured /\ queue # <<>>
     THEN proc' = [proc EXCEPT ![p] =
                     [at |-> "post", copy |-> queue, batch |-> Newest(queue)]]
     ELSE UNCHANGED proc
  /\ undriven' = (undriven \/ ~configured)
  /\ UNCHANGED <<configured, queue, recorded, captured, dropped, crossed, admin, faults>>

\* ingestEvents inserts the rows one by one, ON CONFLICT DO NOTHING; the call
\* ends with all of them, or fails after some, or its answer is lost.
Record(p, n) ==
  recorded' = recorded \cup {KeyOf[proc[p].batch[i]] : i \in 1 .. n}

\* Mutant: any answer is taken for a success.
PostUnchecked(p) ==
  /\ proc[p].at = "post"
  /\ \E n \in 0 .. Len(proc[p].batch), ok \in BOOLEAN :
       /\ ok => n = Len(proc[p].batch)
       /\ ok \/ faults < MaxFaults
       /\ faults' = IF ok THEN faults ELSE faults + 1
       /\ Record(p, n)
       /\ Goto(p, "remove")
  /\ UNCHANGED <<configured, queue, pending, history, admin>>

Post(p) ==
  /\ proc[p].at = "post"
  /\ \E n \in 0 .. Len(proc[p].batch), ok \in BOOLEAN :
       /\ ok => n = Len(proc[p].batch)
       /\ ok \/ faults < MaxFaults
       /\ faults' = IF ok THEN faults ELSE faults + 1
       /\ Record(p, n)
       /\ Goto(p, IF ok THEN "remove" ELSE "again")
  /\ UNCHANGED <<configured, queue, pending, history, admin>>

\* The events of a delivered batch are removed one by one.
Remove(p) ==
  /\ proc[p].at = "remove"
  /\ proc[p].batch # <<>>
  /\ LET s == Removed(proc[p].copy, Head(proc[p].batch))
     IN /\ Write(p, s)
        /\ proc' = [proc EXCEPT ![p] = [at |-> "remove", copy |-> s, batch |-> Tail(@.batch)]]
  /\ UNCHANGED <<configured, pending, recorded, captured, dropped, undriven, admin, faults>>

RemovedAll(p) ==
  /\ proc[p].at = "remove"
  /\ proc[p].batch = <<>>
  /\ Goto(p, "again")
  /\ UNCHANGED <<configured, queue, pending, recorded, history, admin, faults>>

\* Mutant: a failed delivery is not tried again.
AgainOnSuccess(p) ==
  /\ proc[p].at = "again"
  /\ IF proc[p].copy # <<>> /\ proc[p].batch = <<>>
     THEN ScheduleDelivery ELSE UNCHANGED <<pending, undriven>>
  /\ End(p)
  /\ UNCHANGED <<configured, queue, recorded, captured, dropped, crossed, admin, faults>>

\* The next delivery is scheduled while the process's copy holds an event.
Again(p) ==
  /\ proc[p].at = "again"
  /\ IF proc[p].copy # <<>> THEN ScheduleDelivery ELSE UNCHANGED <<pending, undriven>>
  /\ End(p)
  /\ UNCHANGED <<configured, queue, recorded, captured, dropped, crossed, admin, faults>>

\* A time limit, a deployment, a server that goes down.
Die(p) ==
  /\ proc[p].at # "idle"
  /\ faults < MaxFaults
  /\ faults' = faults + 1
  /\ undriven' = (undriven \/ proc[p].at # "open")
  /\ End(p)
  /\ UNCHANGED <<configured, queue, pending, recorded, captured, dropped, crossed, admin>>

-----------------------------------------------------------------------------
(* Specification.                                                          *)

Request(p) ==
  \/ Load(p) \/ Clear(p)
  \/ \E e \in Events, test \in BOOLEAN : Capture(p, e, test)
Proceed(p) ==
  \/ Schedule(p) \/ Finish(p)
  \/ Post(p) \/ Remove(p) \/ RemovedAll(p) \/ Again(p)

Next ==
  \/ \E p \in Processes : Request(p) \/ Deliver(p) \/ Proceed(p) \/ Die(p)
  \/ Configure

Spec == Init /\ [][Next]_vars

\* A PHP process that has started runs to its end. The server keeps becoming
\* free between the requests it serves, and then starts what is due.
Fairness ==
  /\ \A p \in Processes : WF_vars(Proceed(p))
  /\ SF_vars(\E p \in Processes : Deliver(p))
FairSpec == Spec /\ Fairness

-----------------------------------------------------------------------------
(* Properties.                                                             *)

\* Unless a copy that was no longer current was written, a captured event is
\* in the queue, or the backend has its key, or it was discarded on purpose:
\* by the cap or by an administrator. Failed and repeated deliveries, and
\* processes that die between two removals, change nothing in this.
CapturedIsKept ==
  ~crossed => \A e \in captured :
    e \in Elements(queue) \/ KeyOf[e] \in recorded \/ e \in dropped

\* Whatever copies were written over one another, an event stands in the
\* queue once at most, and the queue keeps within its limit.
QueueIsASet ==
  /\ Len(queue) <= MaxQueue
  /\ \A i, j \in 1 .. Len(queue) : queue[i] = queue[j] => i = j

\* While the queue holds events, a delivery is scheduled, or a process is at
\* work that will schedule one or empty the queue, unless the events were
\* captured without scheduling or a process died in between.
Driving(p) == proc[p].at \in {"schedule", "post", "remove", "again"}
EventsAreDriven ==
  queue # <<>> /\ ~undriven => pending > 0 \/ \E p \in Processes : Driving(p)

\* In the end every event is delivered or discarded, unless nothing drives
\* the queue any more: the plugin is not configured, the events were captured
\* without scheduling, or a process died.
EventsAreDelivered == <>[](queue = <<>> \/ ~configured \/ undriven)
=============================================================================
