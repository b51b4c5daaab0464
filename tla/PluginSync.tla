----------------------------- MODULE PluginSync -----------------------------
(***************************************************************************)
(* The chunked synchronisation of the WordPress plugin                     *)
(* (wordpress-plugin/includes/class-wcos-sync-engine.php,                  *)
(* class-wcos-sync-state.php, class-wcos-sync-builder.php): the queue of   *)
(* entities and the cursors it keeps in WordPress options, the scheduled   *)
(* chunk actions that drive it, and what reaches the backend's read-model. *)
(*                                                                         *)
(* A PHP process runs one chunk action, one schedule or one disconnect;    *)
(* processes run at the same time. Each option written is an action of its *)
(* own, and the call of the backend lies between reading the queue and     *)
(* writing it. The five deletes of reset_all_cursors are one action: each  *)
(* touches another entity.                                                 *)
(*                                                                         *)
(* The catalogue does not change while it is read: item i of an entity is  *)
(* the i-th by id. A failed answer stands for a refusal, a failed ingest   *)
(* and a timeout alike; the delays, the fail count that only lengthens     *)
(* them, the run id, which labels the backend's rows, and the times of the *)
(* last success are left out.                                              *)
(***************************************************************************)
EXTENDS Naturals, Sequences, FiniteSets

CONSTANTS
  Processes,    \* PHP processes at work at the same time
  Entities,     \* what is synchronised: categories, products, ...
  Full,         \* the list of a full sync, in order
  Incremental,  \* the list of an incremental sync
  Items,        \* number of items the store has of each entity
  Limit,        \* batch_size(), the items a chunk may hold
  MaxAdmin,     \* bound on schedules and disconnects
  MaxFaults     \* bound on processes that die

ASSUME ListsAssumption == Full \in Seq(Entities) /\ Incremental \in Seq(Entities)
ASSUME ItemsAssumption == Items \in [Entities -> Nat]
ASSUME LimitAssumption == Limit \in Nat \ {0}
ASSUME BoundsAssumption == MaxAdmin \in Nat /\ MaxFaults \in Nat

VARIABLES
  configured,   \* whether WCOS_Settings has url, site, tenant and secret
  queue,        \* wcos_sync_queue, empty when its row does not exist
  cursor,       \* wcos_sync_cursor_<entity>, 0 when its row does not exist
  exists,       \* the options among these whose row exists
  pending,      \* scheduled chunk actions that have not started
  proc,         \* per PHP process: where it stands and what it has read
  synced,       \* per entity: the items in the backend's read-model
  fresh,        \* history: those ingested since the last schedule
  goal,         \* history: the list scheduled last, while it stands
  crossed,      \* history: whether a schedule was crossed (see Schedule), or a
                \* page of it came out short (see PostShort)
  interrupted,  \* history: a chunk action ended without a successor
  admin,        \* schedules and disconnects so far
  faults        \* processes that have died so far

options == <<configured, queue, cursor, exists>>
history == <<fresh, goal, crossed, interrupted>>
vars == <<options, pending, proc, synced, history, admin, faults>>

Steps == {"idle", "post", "cursor", "zero", "shift", "again",
          "s_queue", "s_chunk", "d_cursors", "d_queue"}
ProcState == [at : Steps, list : Seq(Entities), page : Nat, seen : BOOLEAN]
Idle == [at |-> "idle", list |-> <<>>, page |-> 0, seen |-> FALSE]

TypeOK ==
  /\ configured \in BOOLEAN
  /\ queue \in Seq(Entities)
  /\ cursor \in [Entities -> Nat]
  /\ exists \in SUBSET (Entities \cup {"queue"})
  /\ pending \in Nat
  /\ proc \in [Processes -> ProcState]
  /\ synced \in [Entities -> SUBSET Nat]
  /\ fresh \in [Entities -> SUBSET Nat]
  /\ goal \in Seq(Entities)
  /\ crossed \in BOOLEAN
  /\ interrupted \in BOOLEAN
  /\ admin \in 0 .. MaxAdmin
  /\ faults \in 0 .. MaxFaults

Init ==
  /\ configured = FALSE
  /\ queue = <<>>
  /\ cursor = [e \in Entities |-> 0]
  /\ exists = {}
  /\ pending = 0
  /\ proc = [p \in Processes |-> Idle]
  /\ synced = [e \in Entities |-> {}]
  /\ fresh = [e \in Entities |-> {}]
  /\ goal = <<>>
  /\ crossed = FALSE
  /\ interrupted = FALSE
  /\ admin = 0
  /\ faults = 0

-----------------------------------------------------------------------------
(* The pages of an entity.                                                 *)

\* The builder asks the store for a page of Limit + 1 items, to see whether
\* there are more than Limit, and sends the first Limit of them.
Fetched(e, page) ==
  {i \in 1 .. Items[e] : (page - 1) * (Limit + 1) < i /\ i <= page * (Limit + 1)}
HasMore(e, page) == Cardinality(Fetched(e, page)) > Limit
Sent(e, page) == {i \in Fetched(e, page) : i <= (page - 1) * (Limit + 1) + Limit}

\* The pages a full pass over an entity asks for.
Pages(e) == {page \in 1 .. Items[e] + 1 : page = 1 \/ HasMore(e, page - 1)}

-----------------------------------------------------------------------------
(* Helpers.                                                                *)

Busy(p) == proc[p].at # "idle"
OthersBusy(p) == \E q \in Processes \ {p} : Busy(q)
Goto(p, step) == proc' = [proc EXCEPT ![p] = [@ EXCEPT !.at = step]]
End(p) == proc' = [proc EXCEPT ![p] = Idle]

\* The entity a chunk action works on: the head of the queue it has read.
Entity(p) == Head(proc[p].list)

\* update_option compares with the value the process read: over a row it has
\* seen it is an UPDATE, which does nothing once the row is deleted; where it
\* saw none it inserts or overwrites.
SetCursor(p, page) ==
  IF proc[p].seen /\ Entity(p) \notin exists
  THEN UNCHANGED <<cursor, exists>>
  ELSE /\ cursor' = [cursor EXCEPT ![Entity(p)] = page]
       /\ exists' = exists \cup {Entity(p)}

\* wp-cron drops an action while another is due within ten minutes; Action
\* Scheduler does not.
ScheduleChunk ==
  \/ pending' = pending + 1
  \/ pending > 0 /\ pending' = pending

-----------------------------------------------------------------------------
(* schedule_full_sync, schedule_incremental_sync: the admin's buttons and  *)
(* the hourly cron.                                                        *)

\* Mutant: the cursors of an earlier sync are not reset.
ScheduleKeepsCursors(p, list) ==
  /\ proc[p].at = "idle"
  /\ admin < MaxAdmin
  /\ admin' = admin + 1
  /\ proc' = [proc EXCEPT ![p] = [Idle EXCEPT !.at = "s_queue", !.list = list]]
  /\ fresh' = [e \in Entities |-> {}]
  /\ goal' = <<>>
  /\ crossed' = OthersBusy(p)
  /\ UNCHANGED <<options, pending, synced, interrupted, faults>>

\* A schedule is crossed when another process works while it begins, or a
\* chunk action starts before it has written the queue.
Schedule(p, list) ==
  /\ proc[p].at = "idle"
  /\ admin < MaxAdmin
  /\ admin' = admin + 1
  /\ cursor' = [e \in Entities |-> 0]
  /\ exists' = exists \cap {"queue"}
  /\ proc' = [proc EXCEPT ![p] = [Idle EXCEPT !.at = "s_queue", !.list = list]]
  /\ fresh' = [e \in Entities |-> {}]
  /\ goal' = <<>>
  /\ crossed' = OthersBusy(p)
  /\ UNCHANGED <<configured, queue, pending, synced, interrupted, faults>>

ScheduleQueue(p) ==
  /\ proc[p].at = "s_queue"
  /\ queue' = proc[p].list
  /\ exists' = exists \cup {"queue"}
  /\ goal' = proc[p].list
  /\ Goto(p, "s_chunk")
  /\ UNCHANGED <<configured, cursor, pending, synced, fresh, crossed, interrupted,
                 admin, faults>>

ScheduleFirst(p) ==
  /\ proc[p].at = "s_chunk"
  /\ ScheduleChunk
  /\ interrupted' = FALSE
  /\ End(p)
  /\ UNCHANGED <<options, synced, fresh, goal, crossed, admin, faults>>

-----------------------------------------------------------------------------
(* run_next_chunk                                                          *)

\* An action that finds the plugin not configured, or the queue empty, ends.
ChunkSkips ==
  /\ pending > 0
  /\ ~configured \/ queue = <<>>
  /\ pending' = pending - 1
  /\ interrupted' = (interrupted \/ ~configured)
  /\ UNCHANGED <<options, proc, synced, fresh, goal, crossed, admin, faults>>

ChunkReads(p) ==
  /\ proc[p].at = "idle"
  /\ pending > 0
  /\ configured
  /\ queue # <<>>
  /\ pending' = pending - 1
  /\ LET e == Head(queue)
         page == IF cursor[e] < 1 THEN 1 ELSE cursor[e]
     IN proc' = [proc EXCEPT ![p] = [at |-> "post", list |-> queue, page |-> page,
                                     seen |-> e \in exists]]
  /\ crossed' = (crossed \/ \E q \in Processes : proc[q].at = "s_queue")
  /\ UNCHANGED <<options, synced, fresh, goal, interrupted, admin, faults>>

\* The items reach the read-model one by one, in order; ON CONFLICT makes a
\* repeated one harmless.
Ingest(e, items) ==
  /\ synced' = [synced EXCEPT ![e] = @ \cup items]
  /\ fresh' = [fresh EXCEPT ![e] = @ \cup items]

PostAnswered(p) ==
  /\ proc[p].at = "post"
  /\ Ingest(Entity(p), Sent(Entity(p), proc[p].page))
  /\ Goto(p, IF HasMore(Entity(p), proc[p].page) THEN "cursor" ELSE "zero")
  /\ UNCHANGED <<options, pending, goal, crossed, interrupted, admin, faults>>

\* The builder has fewer items than the store: none while WooCommerce is
\* inactive or the terms cannot be read, all but a coupon that cannot. So
\* short a page is the last one, and nobody is told that it is not.
PostShort(p) ==
  /\ proc[p].at = "post"
  /\ \E items \in SUBSET Sent(Entity(p), proc[p].page) : Ingest(Entity(p), items)
  /\ Goto(p, "zero")
  /\ crossed' = TRUE
  /\ UNCHANGED <<options, pending, goal, interrupted, admin, faults>>

\* Mutant: the page is passed although the answer was not ok.
PostFailsAdvances(p) ==
  /\ proc[p].at = "post"
  /\ \E last \in 0 .. Items[Entity(p)] :
       Ingest(Entity(p), {i \in Sent(Entity(p), proc[p].page) : i <= last})
  /\ Goto(p, "cursor")
  /\ UNCHANGED <<options, pending, goal, crossed, interrupted, admin, faults>>

\* Refused, failed half way, or the answer is lost: the same page again.
PostFails(p) ==
  /\ proc[p].at = "post"
  /\ \E last \in 0 .. Items[Entity(p)] :
       Ingest(Entity(p), {i \in Sent(Entity(p), proc[p].page) : i <= last})
  /\ Goto(p, "again")
  /\ UNCHANGED <<options, pending, goal, crossed, interrupted, admin, faults>>

AdvanceCursor(p) ==
  /\ proc[p].at = "cursor"
  /\ SetCursor(p, proc[p].page + 1)
  /\ Goto(p, "again")
  /\ UNCHANGED <<configured, queue, pending, synced, history, admin, faults>>

ResetCursor(p) ==
  /\ proc[p].at = "zero"
  /\ SetCursor(p, 0)
  /\ Goto(p, "shift")
  /\ UNCHANGED <<configured, queue, pending, synced, history, admin, faults>>

\* Mutant: the next entity is not scheduled.
ShiftQueueEnds(p) ==
  /\ proc[p].at = "shift"
  /\ queue' = IF "queue" \in exists THEN Tail(proc[p].list) ELSE queue
  /\ End(p)
  /\ UNCHANGED <<configured, cursor, exists, pending, synced, history, admin, faults>>

\* Mutant: the shortened queue is not written back.
ShiftQueueForgets(p) ==
  /\ proc[p].at = "shift"
  /\ Goto(p, "again")
  /\ UNCHANGED <<options, pending, synced, history, admin, faults>>

\* The queue written is the one read before the call, less its head.
ShiftQueue(p) ==
  /\ proc[p].at = "shift"
  /\ queue' = IF "queue" \in exists THEN Tail(proc[p].list) ELSE queue
  /\ IF Len(proc[p].list) > 1 THEN Goto(p, "again") ELSE End(p)
  /\ UNCHANGED <<configured, cursor, exists, pending, synced, history, admin, faults>>

ChunkAgain(p) ==
  /\ proc[p].at = "again"
  /\ ScheduleChunk
  /\ End(p)
  /\ UNCHANGED <<options, synced, history, admin, faults>>

-----------------------------------------------------------------------------
(* The admin saves the settings, or disconnects.                           *)

Configure ==
  /\ ~configured
  /\ configured' = TRUE
  /\ UNCHANGED <<queue, cursor, exists, pending, proc, synced, history, admin, faults>>

\* Until the next schedule nothing is promised of the queue.
Disconnect(p) ==
  /\ proc[p].at = "idle"
  /\ admin < MaxAdmin
  /\ admin' = admin + 1
  /\ configured' = FALSE
  /\ Goto(p, "d_cursors")
  /\ goal' = <<>>
  /\ crossed' = TRUE
  /\ UNCHANGED <<queue, cursor, exists, pending, synced, fresh, interrupted, faults>>

DisconnectCursors(p) ==
  /\ proc[p].at = "d_cursors"
  /\ cursor' = [e \in Entities |-> 0]
  /\ exists' = exists \cap {"queue"}
  /\ Goto(p, "d_queue")
  /\ UNCHANGED <<configured, queue, pending, synced, history, admin, faults>>

DisconnectQueue(p) ==
  /\ proc[p].at = "d_queue"
  /\ queue' = <<>>
  /\ exists' = exists \ {"queue"}
  /\ End(p)
  /\ UNCHANGED <<configured, cursor, pending, synced, history, admin, faults>>

-----------------------------------------------------------------------------
\* A PHP process is killed: by a time limit, a fatal error, a restart.
Die(p) ==
  /\ Busy(p)
  /\ faults < MaxFaults
  /\ faults' = faults + 1
  /\ interrupted' = TRUE
  /\ End(p)
  /\ UNCHANGED <<options, pending, synced, fresh, goal, crossed, admin>>

-----------------------------------------------------------------------------
ChunkContinues(p) ==
  PostAnswered(p) \/ AdvanceCursor(p) \/ ResetCursor(p) \/ ShiftQueue(p) \/ ChunkAgain(p)

OtherContinues(p) ==
  ScheduleQueue(p) \/ ScheduleFirst(p) \/ DisconnectCursors(p) \/ DisconnectQueue(p)

Next ==
  \/ ChunkSkips
  \/ Configure
  \/ \E p \in Processes :
       \/ Schedule(p, Full) \/ Schedule(p, Incremental) \/ Disconnect(p)
       \/ ChunkReads(p) \/ ChunkContinues(p) \/ OtherContinues(p)
       \/ PostFails(p) \/ PostShort(p)
       \/ Die(p)

Spec == Init /\ [][Next]_vars

\* A PHP process goes on unless it dies, a scheduled action runs some day, and
\* a page that is sent again and again is accepted some day.
Fairness ==
  /\ WF_vars(ChunkSkips)
  /\ WF_vars(\E p \in Processes : ChunkReads(p))
  /\ \A p \in Processes :
       /\ WF_vars(AdvanceCursor(p) \/ ResetCursor(p) \/ ShiftQueue(p) \/ ChunkAgain(p))
       /\ WF_vars(OtherContinues(p))
       /\ WF_vars(PostAnswered(p) \/ PostFails(p) \/ PostShort(p))
       /\ SF_vars(PostAnswered(p))

FairSpec == Spec /\ Fairness

-----------------------------------------------------------------------------
\* A cursor never runs ahead of what the backend has: when it names a page,
\* every page before it has been ingested, in whatever order chunk actions,
\* schedules, disconnects and failures fall.
CursorIsBacked ==
  \A e \in Entities : \A page \in 1 .. Items[e] :
    page < cursor[e] => Sent(e, page) \subseteq synced[e]

\* Chunk actions may overlap, repeat and write stale queues, yet none skips a
\* page: once an entity of the list scheduled last has left the queue, every
\* page of it was ingested since that schedule, unless the schedule was crossed
\* or a page came out short.
PassedIsIngested ==
  ~crossed => \A k \in 1 .. Len(goal) :
    (\A j \in 1 .. Len(queue) : queue[j] # goal[k])
      => \A page \in Pages(goal[k]) : Sent(goal[k], page) \subseteq fresh[goal[k]]

\* A queue that is not empty never waits for nobody: a chunk action is
\* scheduled or a process is at work, unless an action was interrupted.
QueueIsDriven ==
  queue # <<>> /\ ~interrupted => pending > 0 \/ \E p \in Processes : Busy(p)

\* A queue of a configured plugin empties in the end, also when chunk actions
\* overlap and pages fail, unless an action was interrupted.
QueueDrains ==
  queue # <<>> ~> (queue = <<>> \/ interrupted \/ ~configured)

-----------------------------------------------------------------------------
(* What the documentation promises and the code does not keep.             *)

\* wordpress-plugin/README.md: "Full sync. 5. Dashboard shows synced
\* products/orders/customers/coupons". A full sync that was not crossed and
\* has emptied its queue has brought every item of the store. Violated by the
\* item a page fetches only to see whether there are more: the next page
\* begins after it.
FullSyncIsComplete ==
  ~crossed /\ goal = Full /\ queue = <<>>
    => \A k \in 1 .. Len(Full) : fresh[Full[k]] = 1 .. Items[Full[k]]
=============================================================================
