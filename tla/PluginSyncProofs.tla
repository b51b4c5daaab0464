-------------------------- MODULE PluginSyncProofs --------------------------
(***************************************************************************)
(* Theorems about PluginSync, for every number of PHP processes, every     *)
(* catalogue, batch size and pair of lists, and any number of schedules,   *)
(* disconnects and deaths.                                                 *)
(***************************************************************************)
EXTENDS PluginSync, FiniteSetTheorems, SequenceTheorems, TLAPS

-----------------------------------------------------------------------------
(* Type correctness.                                                       *)

\* A chunk action that has started works on the head of a queue.
TypeInv ==
  /\ TypeOK
  /\ \A p \in Processes :
       proc[p].at \in {"post", "cursor", "zero", "shift"} => proc[p].list # <<>>

\* What a page fetches and sends are items of the store.
LEMMA SentItems ==
  ASSUME NEW e \in Entities, NEW page \in Nat
  PROVE  Sent(e, page) \in SUBSET Nat
BY ItemsAssumption DEF Sent, Fetched

\* Moving a process changes nothing but its position.
LEMMA GotoEffect ==
  ASSUME TypeInv, NEW p \in Processes, NEW step \in Steps, Goto(p, step)
  PROVE  /\ proc' \in [Processes -> ProcState]
         /\ proc'[p].at = step
         /\ proc'[p].list = proc[p].list
         /\ proc'[p].page = proc[p].page
         /\ proc'[p].seen = proc[p].seen
         /\ \A q \in Processes \ {p} : proc'[q] = proc[q]
<1>1. proc[p] \in ProcState
  BY DEF TypeInv, TypeOK
<1>2. [proc[p] EXCEPT !.at = step] \in ProcState
  BY <1>1 DEF ProcState
<1> QED BY <1>1, <1>2 DEF TypeInv, TypeOK, Goto, ProcState

\* A process that ends has forgotten what it has read.
LEMMA EndEffect ==
  ASSUME TypeInv, NEW p \in Processes, End(p)
  PROVE  /\ proc' \in [Processes -> ProcState]
         /\ proc'[p].at = "idle"
         /\ \A q \in Processes \ {p} : proc'[q] = proc[q]
<1>1. Idle \in ProcState
  BY EmptySeq DEF Idle, ProcState, Steps
<1> QED BY <1>1 DEF TypeInv, TypeOK, End, Idle

\* Scheduling an action counts it, or finds one that counts for it.
LEMMA ScheduleChunkEffect ==
  ASSUME TypeInv, ScheduleChunk
  PROVE  pending' \in Nat /\ pending' > 0
BY DEF TypeInv, TypeOK, ScheduleChunk

\* The entity of a chunk action is the head of the list it has read.
LEMMA EntityType ==
  ASSUME TypeInv, NEW p \in Processes,
         proc[p].at \in {"post", "cursor", "zero", "shift"}
  PROVE  /\ Entity(p) \in Entities
         /\ proc[p].list \in Seq(Entities)
         /\ proc[p].list # <<>>
         /\ Tail(proc[p].list) \in Seq(Entities)
         /\ proc[p].page \in Nat
<1>1. proc[p] \in ProcState /\ proc[p].list # <<>>
  BY DEF TypeInv, TypeOK
<1>2. proc[p].list \in Seq(Entities) /\ proc[p].page \in Nat
  BY <1>1 DEF ProcState
<1>3. Head(proc[p].list) \in Entities /\ Tail(proc[p].list) \in Seq(Entities)
  BY <1>1, <1>2, HeadTailProperties
<1> QED BY <1>1, <1>2, <1>3 DEF Entity

\* Writing a cursor leaves the other cursors, and the row of the queue, alone.
LEMMA SetCursorEffect ==
  ASSUME TypeInv, NEW p \in Processes, NEW page \in Nat,
         proc[p].at \in {"cursor", "zero"}, SetCursor(p, page)
  PROVE  /\ cursor' \in [Entities -> Nat]
         /\ exists' \in SUBSET (Entities \cup {"queue"})
         /\ exists \subseteq exists'
         /\ \A e \in Entities : cursor'[e] = cursor[e] \/ (e = Entity(p) /\ cursor'[e] = page)
BY EntityType DEF TypeInv, TypeOK, SetCursor

LEMMA TypeInitially == Init => TypeInv
<1> SUFFICES ASSUME Init PROVE TypeInv
  OBVIOUS
<1>1. proc \in [Processes -> ProcState]
  BY EmptySeq DEF Init, Idle, ProcState, Steps
<1>2. \A p \in Processes : proc[p].at = "idle"
  BY DEF Init, Idle
<1>3. queue \in Seq(Entities) /\ goal \in Seq(Entities)
  BY EmptySeq DEF Init
<1>4. admin \in 0 .. MaxAdmin /\ faults \in 0 .. MaxFaults
  BY BoundsAssumption DEF Init
<1>5. /\ configured \in BOOLEAN /\ crossed \in BOOLEAN /\ interrupted \in BOOLEAN
      /\ cursor \in [Entities -> Nat]
      /\ exists \in SUBSET (Entities \cup {"queue"})
      /\ pending \in Nat
      /\ synced \in [Entities -> SUBSET Nat]
      /\ fresh \in [Entities -> SUBSET Nat]
  BY DEF Init
<1> QED BY <1>1, <1>2, <1>3, <1>4, <1>5 DEF TypeInv, TypeOK

\* What a step adds to the read-model are items of the store.
LEMMA IngestTypes ==
  ASSUME TypeInv, NEW e \in Entities, NEW items \in SUBSET Nat, Ingest(e, items)
  PROVE  /\ synced' \in [Entities -> SUBSET Nat]
         /\ fresh' \in [Entities -> SUBSET Nat]
         /\ items \subseteq synced'[e]
         /\ \A f \in Entities : synced[f] \subseteq synced'[f]
BY DEF TypeInv, TypeOK, Ingest

\* A process of its own kind takes a step; the others stay where they are.
LEMMA TypeStep == TypeInv /\ [Next]_vars => TypeInv'
<1> SUFFICES ASSUME TypeInv, [Next]_vars PROVE TypeInv'
  OBVIOUS
<1> USE DEF options, history
<1>1. CASE UNCHANGED vars
  BY <1>1 DEF vars, TypeInv, TypeOK
<1>2. CASE ChunkSkips
  BY <1>2 DEF ChunkSkips, TypeInv, TypeOK
<1>3. CASE Configure
  BY <1>3 DEF Configure, TypeInv, TypeOK
<1>4. ASSUME NEW p \in Processes, Schedule(p, Full) \/ Schedule(p, Incremental)
      PROVE  TypeInv'
  <2>1. PICK list \in Seq(Entities) : Schedule(p, list)
    BY <1>4, ListsAssumption
  <2> DEFINE new == [Idle EXCEPT !.at = "s_queue", !.list = list]
  <2>2. new \in ProcState /\ new.at = "s_queue"
    BY <2>1 DEF Idle, ProcState, Steps
  <2>3. /\ proc' \in [Processes -> ProcState]
        /\ proc'[p].at = "s_queue"
        /\ \A q \in Processes \ {p} : proc'[q] = proc[q]
    <3>1. proc' = [proc EXCEPT ![p] = new]
      BY <2>1 DEF Schedule
    <3> HIDE DEF new
    <3> QED BY <2>2, <3>1 DEF TypeInv, TypeOK
  <2>4. admin' \in 0 .. MaxAdmin
    BY <2>1, BoundsAssumption DEF Schedule, TypeInv, TypeOK
  <2>5. goal' \in Seq(Entities)
    BY <2>1, EmptySeq DEF Schedule
  <2>6. crossed' \in BOOLEAN
    BY <2>1 DEF Schedule, OthersBusy
  <2>7. /\ cursor' \in [Entities -> Nat] /\ exists' \in SUBSET (Entities \cup {"queue"})
        /\ fresh' \in [Entities -> SUBSET Nat]
    BY <2>1 DEF Schedule
  <2> QED BY <2>1, <2>3, <2>4, <2>5, <2>6, <2>7 DEF Schedule, TypeInv, TypeOK
<1>5. ASSUME NEW p \in Processes, ScheduleQueue(p) PROVE TypeInv'
  <2>1. proc[p].list \in Seq(Entities)
    BY DEF TypeInv, TypeOK, ProcState
  <2>2. Goto(p, "s_chunk") /\ "s_chunk" \in Steps
    BY <1>5 DEF ScheduleQueue, Steps
  <2>3. /\ proc' \in [Processes -> ProcState]
        /\ proc'[p].at = "s_chunk"
        /\ \A q \in Processes \ {p} : proc'[q] = proc[q]
    BY <2>2, GotoEffect
  <2> QED BY <1>5, <2>1, <2>3 DEF ScheduleQueue, TypeInv, TypeOK
<1>6. ASSUME NEW p \in Processes, ScheduleFirst(p) \/ ChunkAgain(p) PROVE TypeInv'
  <2>1. ScheduleChunk /\ End(p)
    BY <1>6 DEF ScheduleFirst, ChunkAgain
  <2>2. /\ proc' \in [Processes -> ProcState]
        /\ proc'[p].at = "idle"
        /\ \A q \in Processes \ {p} : proc'[q] = proc[q]
    BY <2>1, EndEffect
  <2>3. pending' \in Nat
    BY <2>1, ScheduleChunkEffect
  <2> QED BY <1>6, <2>2, <2>3 DEF ScheduleFirst, ChunkAgain, TypeInv, TypeOK
<1>7. ASSUME NEW p \in Processes, ChunkReads(p) PROVE TypeInv'
  <2> DEFINE page == IF cursor[Head(queue)] < 1 THEN 1 ELSE cursor[Head(queue)]
             new == [at |-> "post", list |-> queue, page |-> page,
                     seen |-> Head(queue) \in exists]
  <2>1. queue # <<>> /\ queue \in Seq(Entities) /\ Head(queue) \in Entities
    BY <1>7, HeadTailProperties DEF ChunkReads, TypeInv, TypeOK
  <2>2. page \in Nat
    BY <2>1 DEF TypeInv, TypeOK
  <2>3. (Head(queue) \in exists) \in BOOLEAN
    OBVIOUS
  <2>4. new \in ProcState /\ new.list # <<>>
    <3> HIDE DEF page
    <3> QED BY <2>1, <2>2, <2>3 DEF ProcState, Steps
  <2>5. /\ proc' \in [Processes -> ProcState]
        /\ proc'[p].list # <<>>
        /\ \A q \in Processes \ {p} : proc'[q] = proc[q]
    <3>1. proc' = [proc EXCEPT ![p] = new]
      BY <1>7 DEF ChunkReads
    <3> HIDE DEF new
    <3> QED BY <2>4, <3>1 DEF TypeInv, TypeOK
  <2>6. crossed' \in BOOLEAN /\ pending' \in Nat
    <3>1. crossed' \in BOOLEAN
      BY <1>7 DEF ChunkReads
    <3>2. pending' \in Nat
      BY <1>7 DEF ChunkReads, TypeInv, TypeOK
    <3> QED BY <3>1, <3>2
  <2> QED BY <1>7, <2>5, <2>6 DEF ChunkReads, TypeInv, TypeOK
<1>8. ASSUME NEW p \in Processes, PostAnswered(p) \/ PostFails(p) \/ PostShort(p) PROVE TypeInv'
  <2>1. proc[p].at = "post"
    BY <1>8 DEF PostAnswered, PostFails, PostShort
  <2>2. PICK items \in SUBSET Nat : Ingest(Entity(p), items)
    <3>1. Sent(Entity(p), proc[p].page) \in SUBSET Nat
      BY <2>1, EntityType, SentItems
    <3>2. \A last : {i \in Sent(Entity(p), proc[p].page) : i <= last} \in SUBSET Nat
      BY <3>1
    <3> QED BY <1>8, <3>1, <3>2 DEF PostAnswered, PostFails, PostShort
  <2>3. synced' \in [Entities -> SUBSET Nat] /\ fresh' \in [Entities -> SUBSET Nat]
    BY <2>1, <2>2, EntityType, IngestTypes
  <2>4. PICK step \in Steps : Goto(p, step)
    <3>1. PICK step \in {"cursor", "zero", "again"} : Goto(p, step)
      BY <1>8 DEF PostAnswered, PostFails, PostShort
    <3> QED BY <3>1 DEF Steps
  <2>5. /\ proc' \in [Processes -> ProcState]
        /\ proc'[p].list = proc[p].list
        /\ \A q \in Processes \ {p} : proc'[q] = proc[q]
    BY <2>4, GotoEffect
  <2>6. /\ crossed' \in BOOLEAN
        /\ UNCHANGED <<configured, queue, cursor, exists, pending, goal, interrupted,
                       admin, faults>>
    BY <1>8 DEF PostAnswered, PostFails, PostShort, TypeInv, TypeOK
  <2> QED BY <2>1, <2>3, <2>5, <2>6, EntityType DEF TypeInv, TypeOK
<1>9. ASSUME NEW p \in Processes, AdvanceCursor(p) \/ ResetCursor(p) PROVE TypeInv'
  <2>1. proc[p].at \in {"cursor", "zero"}
    BY <1>9 DEF AdvanceCursor, ResetCursor
  <2>2. PICK page \in Nat : SetCursor(p, page)
    BY <1>9, <2>1, EntityType DEF AdvanceCursor, ResetCursor
  <2>3. cursor' \in [Entities -> Nat] /\ exists' \in SUBSET (Entities \cup {"queue"})
    BY <2>1, <2>2, SetCursorEffect
  <2>4. PICK step \in Steps : Goto(p, step)
    BY <1>9 DEF AdvanceCursor, ResetCursor, Steps
  <2>5. /\ proc' \in [Processes -> ProcState]
        /\ proc'[p].list = proc[p].list
        /\ \A q \in Processes \ {p} : proc'[q] = proc[q]
    BY <2>4, GotoEffect
  <2>6. UNCHANGED <<configured, queue, pending, synced, fresh, goal, crossed,
                    interrupted, admin, faults>>
    BY <1>9 DEF AdvanceCursor, ResetCursor
  <2> QED BY <2>1, <2>3, <2>5, <2>6, EntityType DEF TypeInv, TypeOK
<1>10. ASSUME NEW p \in Processes, ShiftQueue(p) PROVE TypeInv'
  <2>1. proc[p].at = "shift"
    BY <1>10 DEF ShiftQueue
  <2>2. queue' \in Seq(Entities)
    <3>1. queue' = Tail(proc[p].list) \/ queue' = queue
      BY <1>10 DEF ShiftQueue
    <3> QED BY <2>1, <3>1, EntityType DEF TypeInv, TypeOK
  <2>3. /\ proc' \in [Processes -> ProcState]
        /\ proc'[p].at \in {"again", "idle"}
        /\ \A q \in Processes \ {p} : proc'[q] = proc[q]
    <3>1. Goto(p, "again") \/ End(p)
      BY <1>10 DEF ShiftQueue
    <3> QED BY <3>1, GotoEffect, EndEffect DEF Steps
  <2> QED BY <1>10, <2>2, <2>3 DEF ShiftQueue, TypeInv, TypeOK
<1>11. ASSUME NEW p \in Processes, Disconnect(p) \/ DisconnectCursors(p) PROVE TypeInv'
  <2>1. PICK step \in {"d_cursors", "d_queue"} : Goto(p, step)
    BY <1>11 DEF Disconnect, DisconnectCursors
  <2>2. /\ proc' \in [Processes -> ProcState]
        /\ proc'[p].at = step
        /\ \A q \in Processes \ {p} : proc'[q] = proc[q]
    BY <2>1, GotoEffect DEF Steps
  <2>3. goal' \in Seq(Entities)
    BY <1>11, EmptySeq DEF Disconnect, DisconnectCursors, TypeInv, TypeOK
  <2>4. admin' \in 0 .. MaxAdmin
    BY <1>11, BoundsAssumption DEF Disconnect, DisconnectCursors, TypeInv, TypeOK
  <2>5. cursor' \in [Entities -> Nat] /\ exists' \in SUBSET (Entities \cup {"queue"})
    BY <1>11 DEF Disconnect, DisconnectCursors, TypeInv, TypeOK
  <2>6. configured' \in BOOLEAN /\ crossed' \in BOOLEAN
    BY <1>11 DEF Disconnect, DisconnectCursors, TypeInv, TypeOK
  <2> QED BY <1>11, <2>2, <2>3, <2>4, <2>5, <2>6
          DEF Disconnect, DisconnectCursors, TypeInv, TypeOK
<1>12. ASSUME NEW p \in Processes, DisconnectQueue(p) \/ Die(p) PROVE TypeInv'
  <2>1. End(p)
    BY <1>12 DEF DisconnectQueue, Die
  <2>2. /\ proc' \in [Processes -> ProcState]
        /\ proc'[p].at = "idle"
        /\ \A q \in Processes \ {p} : proc'[q] = proc[q]
    BY <2>1, EndEffect
  <2>3. queue' \in Seq(Entities)
    BY <1>12, EmptySeq DEF DisconnectQueue, Die, TypeInv, TypeOK
  <2>4. faults' \in 0 .. MaxFaults
    BY <1>12, BoundsAssumption DEF DisconnectQueue, Die, TypeInv, TypeOK
  <2>5. exists' \in SUBSET (Entities \cup {"queue"}) /\ interrupted' \in BOOLEAN
    BY <1>12 DEF DisconnectQueue, Die, TypeInv, TypeOK
  <2> QED BY <1>12, <2>2, <2>3, <2>4, <2>5 DEF DisconnectQueue, Die, TypeInv, TypeOK
<1> QED BY <1>1, <1>2, <1>3, <1>4, <1>5, <1>6, <1>7, <1>8, <1>9, <1>10, <1>11, <1>12
        DEF Next, ChunkContinues, OtherContinues

LEMMA TypeInvariant == Spec => []TypeInv
  BY TypeInitially, TypeStep, PTL DEF Spec

\* Every option, history variable and process stays well typed.
THEOREM TypeCorrect == Spec => []TypeOK
<1>1. TypeInv => TypeOK
  BY DEF TypeInv
<1> QED BY <1>1, TypeInvariant, PTL

-----------------------------------------------------------------------------
(* The queue is driven.                                                    *)

\* A queue without a row is empty.
QueueInv ==
  /\ "queue" \notin exists => queue = <<>>
  /\ QueueIsDriven

\* Nothing follows the head of a list of one.
LEMMA LastTail ==
  ASSUME NEW s \in Seq(Entities), s # <<>>, ~(Len(s) > 1)
  PROVE  Tail(s) = <<>>
<1>1. Len(s) \in Nat /\ (Len(s) = 0 => s = <<>>)
  BY LenProperties, EmptySeq
<1>2. Tail(s) \in Seq(Entities) /\ Len(Tail(s)) = Len(s) - 1
  BY HeadTailProperties
<1>3. Len(Tail(s)) = 0
  BY <1>1, <1>2
<1> QED BY <1>2, <1>3, EmptySeq

LEMMA QueueInitially == Init => QueueInv
  BY DEF Init, QueueInv, QueueIsDriven

\* A step leaves a process at work, leaves an action scheduled, empties the
\* queue, or interrupts; only what writes the queue can do the third.
LEMMA QueueStep == TypeInv /\ QueueInv /\ [Next]_vars => QueueInv'
<1> SUFFICES ASSUME TypeInv, QueueInv, [Next]_vars PROVE QueueInv'
  OBVIOUS
<1> USE DEF options, history, QueueInv
<1>1. CASE UNCHANGED vars
  BY <1>1 DEF vars, QueueIsDriven, Busy
<1>2. CASE ChunkSkips
  BY <1>2 DEF ChunkSkips, QueueIsDriven, Busy
<1>3. CASE Configure
  BY <1>3 DEF Configure, QueueIsDriven, Busy
<1>4. ASSUME NEW p \in Processes, NEW list, Schedule(p, list) PROVE QueueInv'
  <2>1. proc'[p].at = "s_queue"
    BY <1>4 DEF Schedule, TypeInv, TypeOK, Idle
  <2>2. Busy(p)'
    BY <2>1 DEF Busy
  <2> QED BY <1>4, <2>2 DEF Schedule, QueueIsDriven
<1>5. ASSUME NEW p \in Processes, NEW step \in Steps \ {"idle"}, Goto(p, step),
             "queue" \notin exists' => queue' = <<>>
      PROVE  QueueInv'
  <2>1. Busy(p)'
    BY <1>5, GotoEffect DEF Busy
  <2> QED BY <1>5, <2>1 DEF QueueIsDriven
<1>6. ASSUME NEW p \in Processes, ScheduleQueue(p) PROVE QueueInv'
  <2>1. Goto(p, "s_chunk") /\ "queue" \in exists'
    BY <1>6 DEF ScheduleQueue
  <2> QED BY <1>5, <2>1 DEF Steps
<1>7. ASSUME NEW p \in Processes, ScheduleFirst(p) \/ ChunkAgain(p) PROVE QueueInv'
  <2>1. pending' > 0
    BY <1>7, ScheduleChunkEffect DEF ScheduleFirst, ChunkAgain
  <2> QED BY <1>7, <2>1 DEF ScheduleFirst, ChunkAgain, QueueIsDriven
<1>8. ASSUME NEW p \in Processes, ChunkReads(p) PROVE QueueInv'
  <2>1. proc'[p].at = "post"
    BY <1>8 DEF ChunkReads, TypeInv, TypeOK
  <2>2. Busy(p)'
    BY <2>1 DEF Busy
  <2> QED BY <1>8, <2>2 DEF ChunkReads, QueueIsDriven
<1>9. ASSUME NEW p \in Processes, PostAnswered(p) \/ PostFails(p) \/ PostShort(p) PROVE QueueInv'
  <2>1. PICK step \in {"cursor", "zero", "again"} : Goto(p, step)
    BY <1>9 DEF PostAnswered, PostFails, PostShort
  <2>2. UNCHANGED <<queue, exists>>
    BY <1>9 DEF PostAnswered, PostFails, PostShort
  <2> QED BY <1>5, <2>1, <2>2 DEF Steps
<1>10. ASSUME NEW p \in Processes, AdvanceCursor(p) \/ ResetCursor(p) PROVE QueueInv'
  <2>1. PICK step \in {"again", "shift"} : Goto(p, step)
    BY <1>10 DEF AdvanceCursor, ResetCursor
  <2>2. exists \subseteq exists' /\ queue' = queue
    BY <1>10 DEF AdvanceCursor, ResetCursor, SetCursor
  <2> QED BY <1>5, <2>1, <2>2 DEF Steps
<1>11. ASSUME NEW p \in Processes, ShiftQueue(p) PROVE QueueInv'
  <2>1. "queue" \notin exists' => queue' = <<>>
    BY <1>11 DEF ShiftQueue
  <2>2. CASE Len(proc[p].list) > 1
    BY <1>5, <1>11, <2>1, <2>2 DEF ShiftQueue, Steps
  <2>3. CASE ~(Len(proc[p].list) > 1)
    <3>1. proc[p].list \in Seq(Entities) /\ proc[p].list # <<>>
      BY <1>11, EntityType DEF ShiftQueue
    <3>2. Tail(proc[p].list) = <<>>
      BY <2>3, <3>1, LastTail
    <3>3. queue' = <<>>
      BY <1>11, <3>2 DEF ShiftQueue
    <3> QED BY <3>3 DEF QueueIsDriven
  <2> QED BY <2>2, <2>3
<1>12. ASSUME NEW p \in Processes, Disconnect(p) \/ DisconnectCursors(p) PROVE QueueInv'
  <2>1. PICK step \in {"d_cursors", "d_queue"} : Goto(p, step)
    BY <1>12 DEF Disconnect, DisconnectCursors
  <2>2. queue' = queue /\ ("queue" \in exists => "queue" \in exists')
    BY <1>12 DEF Disconnect, DisconnectCursors
  <2> QED BY <1>5, <2>1, <2>2 DEF Steps
<1>13. ASSUME NEW p \in Processes, DisconnectQueue(p) PROVE QueueInv'
  BY <1>13 DEF DisconnectQueue, QueueIsDriven
<1>14. ASSUME NEW p \in Processes, Die(p) PROVE QueueInv'
  BY <1>14 DEF Die, QueueIsDriven
<1> QED BY <1>1, <1>2, <1>3, <1>4, <1>6, <1>7, <1>8, <1>9, <1>10, <1>11, <1>12,
           <1>13, <1>14 DEF Next, ChunkContinues, OtherContinues

\* No interleaving of chunk actions, schedules and disconnects leaves work in
\* the queue that neither a scheduled action nor a process will take up.
THEOREM QueueIsDrivenHolds == Spec => []QueueIsDriven
<1>1. Spec => []QueueInv
  BY QueueInitially, QueueStep, TypeInvariant, PTL DEF Spec
<1>2. QueueInv => QueueIsDriven
  BY DEF QueueInv
<1> QED BY <1>1, <1>2, PTL

-----------------------------------------------------------------------------
(* A cursor is backed by what the backend has.                             *)

\* Every page of e before this one has been ingested.
Backed(e, page) ==
  \A k \in 1 .. Items[e] : k < page => Sent(e, k) \subseteq synced[e]

\* A chunk action that has read a backed cursor works on a page whose
\* predecessors are ingested; before it writes the next, on one that is itself.
CursorInv ==
  /\ \A e \in Entities : Backed(e, cursor[e])
  /\ \A p \in Processes :
       /\ proc[p].at = "post" => Backed(Entity(p), proc[p].page)
       /\ proc[p].at = "cursor" => Backed(Entity(p), proc[p].page + 1)

\* Nothing leaves the read-model, so what was backed stays so.
LEMMA BackedGrows ==
  ASSUME NEW e \in Entities, NEW page \in Nat, Backed(e, page),
         synced[e] \subseteq synced'[e]
  PROVE  Backed(e, page)'
BY DEF Backed

\* Nothing is before the first page.
LEMMA FirstIsBacked ==
  ASSUME NEW e \in Entities, NEW page \in 0 .. 1
  PROVE  Backed(e, page)
BY ItemsAssumption DEF Backed

LEMMA CursorInitially == Init => CursorInv
<1> SUFFICES ASSUME Init PROVE CursorInv
  OBVIOUS
<1>1. \A e \in Entities : cursor[e] \in 0 .. 1
  BY DEF Init
<1>2. \A p \in Processes : proc[p].at = "idle"
  BY DEF Init, Idle
<1> QED BY <1>1, <1>2, FirstIsBacked DEF CursorInv

LEMMA CursorStep == TypeInv /\ CursorInv /\ [Next]_vars => CursorInv'
<1> SUFFICES ASSUME TypeInv, CursorInv, [Next]_vars PROVE CursorInv'
  OBVIOUS
<1> USE DEF options, history
\* A step that changes no cursor and no item, and puts no process in a place
\* where the invariant speaks of it.
<1>a. ASSUME UNCHANGED <<cursor, synced>>,
             \A p \in Processes :
               proc'[p] = proc[p] \/ proc'[p].at \notin {"post", "cursor"}
      PROVE  CursorInv'
  BY <1>a DEF CursorInv, Backed, Entity
\* One that deletes every cursor.
<1>b. ASSUME cursor' = [e \in Entities |-> 0], synced' = synced,
             \A p \in Processes :
               proc'[p] = proc[p] \/ proc'[p].at \notin {"post", "cursor"}
      PROVE  CursorInv'
  <2>1. \A e \in Entities : Backed(e, cursor[e])'
    BY <1>b, ItemsAssumption DEF Backed
  <2> QED BY <1>b, <2>1 DEF CursorInv, Backed, Entity
<1>1. CASE UNCHANGED vars
  BY <1>1, <1>a DEF vars
<1>2. CASE ChunkSkips \/ Configure
  BY <1>2, <1>a DEF ChunkSkips, Configure
<1>4. ASSUME NEW p \in Processes, NEW list, Schedule(p, list) PROVE CursorInv'
  BY <1>4, <1>b DEF Schedule, TypeInv, TypeOK, Idle
<1>5. ASSUME NEW p \in Processes,
             ScheduleQueue(p) \/ ShiftQueue(p) \/ Disconnect(p) \/ DisconnectQueue(p)
               \/ Die(p) \/ ScheduleFirst(p) \/ ChunkAgain(p)
      PROVE  CursorInv'
  <2>1. UNCHANGED <<cursor, synced>>
    BY <1>5 DEF ScheduleQueue, ShiftQueue, Disconnect, DisconnectQueue, Die,
                ScheduleFirst, ChunkAgain
  <2>2. \/ End(p)
        \/ \E step \in {"s_chunk", "again", "d_cursors"} : Goto(p, step)
    BY <1>5 DEF ScheduleQueue, ShiftQueue, Disconnect, DisconnectQueue, Die,
                ScheduleFirst, ChunkAgain
  <2>3. \A q \in Processes : proc'[q] = proc[q] \/ proc'[q].at \notin {"post", "cursor"}
    BY <2>2, EndEffect, GotoEffect DEF Steps
  <2> QED BY <1>a, <2>1, <2>3
<1>6. ASSUME NEW p \in Processes, DisconnectCursors(p) PROVE CursorInv'
  <2>1. Goto(p, "d_queue")
    BY <1>6 DEF DisconnectCursors
  <2>2. \A q \in Processes : proc'[q] = proc[q] \/ proc'[q].at \notin {"post", "cursor"}
    BY <2>1, GotoEffect DEF Steps
  <2> QED BY <1>6, <1>b, <2>2 DEF DisconnectCursors
<1>7. ASSUME NEW p \in Processes, ChunkReads(p) PROVE CursorInv'
  <2> DEFINE page == IF cursor[Head(queue)] < 1 THEN 1 ELSE cursor[Head(queue)]
  <2>1. queue # <<>> /\ Head(queue) \in Entities
    BY <1>7, HeadTailProperties DEF ChunkReads, TypeInv, TypeOK
  <2>2. Backed(Head(queue), page)
    BY <2>1, FirstIsBacked DEF CursorInv
  <2>3. /\ proc'[p].at = "post" /\ proc'[p].list = queue /\ proc'[p].page = page
        /\ \A q \in Processes \ {p} : proc'[q] = proc[q]
    BY <1>7 DEF ChunkReads, TypeInv, TypeOK
  <2>4. UNCHANGED <<cursor, synced>>
    BY <1>7 DEF ChunkReads
  <2> HIDE DEF page
  <2> QED BY <2>2, <2>3, <2>4 DEF CursorInv, Backed, Entity
<1>8. ASSUME NEW p \in Processes, PostAnswered(p) \/ PostFails(p) \/ PostShort(p) PROVE CursorInv'
  <2> DEFINE e == Entity(p)
             page == proc[p].page
  <2>1. proc[p].at = "post"
    BY <1>8 DEF PostAnswered, PostFails, PostShort
  <2>2. e \in Entities /\ page \in Nat
    BY <2>1, EntityType
  <2>3. Sent(e, page) \in SUBSET Nat
    BY <2>2, SentItems
  <2>4. PICK items \in SUBSET Nat :
          Ingest(e, items) /\ (PostAnswered(p) => items = Sent(e, page))
    <3>1. CASE PostAnswered(p)
      BY <2>3, <3>1 DEF PostAnswered
    <3>2. CASE PostFails(p) /\ ~PostAnswered(p)
      <4>1. \A last : {i \in Sent(e, page) : i <= last} \in SUBSET Nat
        BY <2>3
      <4> QED BY <3>2, <4>1 DEF PostFails
    <3>3. CASE PostShort(p) /\ ~PostAnswered(p)
      BY <2>3, <3>3 DEF PostShort
    <3> QED BY <1>8, <3>1, <3>2, <3>3
  <2>5. /\ items \subseteq synced'[e]
        /\ \A f \in Entities : synced[f] \subseteq synced'[f]
    BY <2>2, <2>4, IngestTypes
  <2>6. PICK step \in {"cursor", "zero", "again"} :
          Goto(p, step) /\ (step = "cursor" => PostAnswered(p))
    BY <1>8 DEF PostAnswered, PostFails, PostShort
  <2>7. /\ proc'[p].at = step /\ proc'[p].list = proc[p].list /\ proc'[p].page = page
        /\ \A q \in Processes \ {p} : proc'[q] = proc[q]
    BY <2>6, GotoEffect DEF Steps
  <2>8. cursor' = cursor
    BY <1>8 DEF PostAnswered, PostFails, PostShort
  <2>9. \A f \in Entities : Backed(f, cursor[f])'
    BY <2>5, <2>8, BackedGrows DEF CursorInv, TypeInv, TypeOK
  <2>10. ASSUME NEW q \in Processes \ {p}
         PROVE  /\ proc'[q].at = "post" => Backed(Entity(q), proc[q].page)'
                /\ proc'[q].at = "cursor" => Backed(Entity(q), proc[q].page + 1)'
    <3>1. proc'[q] = proc[q] /\ Entity(q)' = Entity(q)
      BY <2>7 DEF Entity
    <3>2. CASE proc[q].at \in {"post", "cursor"}
      <4>1. Entity(q) \in Entities /\ proc[q].page \in Nat
        BY <3>2, EntityType
      <4> QED BY <3>1, <4>1, <2>5, BackedGrows DEF CursorInv, Backed
    <3> QED BY <3>1, <3>2
  <2>11. /\ proc'[p].at # "post"
         /\ proc'[p].at = "cursor" => Backed(Entity(p), proc[p].page + 1)'
    <3>1. proc'[p].at # "post"
      BY <2>6, <2>7
    <3>2. ASSUME proc'[p].at = "cursor"
          PROVE  Backed(Entity(p), proc[p].page + 1)'
      <4>1. Sent(e, page) \subseteq synced'[e]
        BY <2>4, <2>5, <2>6, <2>7, <3>2
      <4>2. Backed(e, page)
        BY <2>1 DEF CursorInv
      <4>3. Entity(p)' = e /\ proc'[p].page = page
        BY <2>7 DEF Entity
      <4>4. \A k \in 1 .. Items[e] : k < page + 1 => k < page \/ k = page
        BY <2>2, ItemsAssumption
      <4>5. \A k \in 1 .. Items[e] : k < page + 1 => Sent(e, k) \subseteq synced'[e]
        BY <4>1, <4>2, <4>4, <2>2, <2>5 DEF Backed
      <4> QED BY <4>3, <4>5 DEF Backed
    <3> QED BY <3>1, <3>2
  <2> QED BY <2>9, <2>10, <2>11 DEF CursorInv
<1>9. ASSUME NEW p \in Processes, AdvanceCursor(p) \/ ResetCursor(p) PROVE CursorInv'
  <2>1. proc[p].at \in {"cursor", "zero"} /\ synced' = synced
    BY <1>9 DEF AdvanceCursor, ResetCursor
  <2>2. Entity(p) \in Entities /\ proc[p].page \in Nat
    BY <2>1, EntityType
  <2>3. PICK page \in Nat : SetCursor(p, page) /\ Backed(Entity(p), page)
    <3>1. CASE AdvanceCursor(p)
      <4>1. Backed(Entity(p), proc[p].page + 1)
        BY <3>1 DEF AdvanceCursor, CursorInv
      <4> QED BY <2>2, <3>1, <4>1 DEF AdvanceCursor
    <3>2. CASE ResetCursor(p)
      BY <2>2, <3>2, FirstIsBacked DEF ResetCursor
    <3> QED BY <1>9, <3>1, <3>2
  <2>4. \A e \in Entities : cursor'[e] = cursor[e] \/ (e = Entity(p) /\ cursor'[e] = page)
    BY <2>1, <2>3, SetCursorEffect
  <2>5. \A e \in Entities : Backed(e, cursor[e])'
    BY <2>1, <2>3, <2>4 DEF CursorInv, Backed
  <2>6. PICK step \in {"again", "shift"} : Goto(p, step)
    BY <1>9 DEF AdvanceCursor, ResetCursor
  <2>7. \A q \in Processes : proc'[q] = proc[q] \/ proc'[q].at \notin {"post", "cursor"}
    BY <2>6, GotoEffect DEF Steps
  <2> QED BY <2>1, <2>5, <2>7 DEF CursorInv, Backed, Entity
<1> QED
  <2>1. \A p \in Processes : Schedule(p, Full) \/ Schedule(p, Incremental) => CursorInv'
    BY <1>4
  <2> QED BY <1>1, <1>2, <1>5, <1>6, <1>7, <1>8, <1>9, <2>1
          DEF Next, ChunkContinues, OtherContinues

\* In every interleaving, every page before a cursor has been ingested.
THEOREM CursorIsBackedHolds == Spec => []CursorIsBacked
<1>1. Spec => []CursorInv
  BY CursorInitially, CursorStep, TypeInvariant, PTL DEF Spec
<1>2. CursorInv => CursorIsBacked
  BY DEF CursorInv, CursorIsBacked, Backed
<1> QED BY <1>1, <1>2, PTL

-----------------------------------------------------------------------------
(* The pages of an entity.                                                 *)

\* A page has a successor exactly when the store has all the items it asks for.
LEMMA HasMoreMeansFull ==
  ASSUME NEW e \in Entities, NEW page \in Nat \ {0}
  PROVE  HasMore(e, page) <=> Items[e] >= page * (Limit + 1)
<1> DEFINE M == Limit + 1
           N == Items[e]
           last == page * M
           first == (page - 1) * M
<1>1. /\ M \in Nat /\ N \in Nat /\ last \in Nat /\ first \in Nat
      /\ Limit \in Nat
      /\ last = first + M
  <2>1. M \in Nat /\ N \in Nat /\ Limit \in Nat
    BY LimitAssumption, ItemsAssumption
  <2>2. \A m \in Nat : page * m \in Nat /\ (page - 1) * m \in Nat /\ page * m = (page - 1) * m + m
    OBVIOUS
  <2> QED BY <2>1, <2>2
<1>2. Fetched(e, page) = {i \in 1 .. N : first < i /\ i <= last}
  BY DEF Fetched
<1> HIDE DEF first, last, N
<1>3. CASE N >= last
  <2>1. Fetched(e, page) = (first + 1) .. last
    BY <1>1, <1>2, <1>3
  <2>2. Cardinality(Fetched(e, page)) = M
    BY <1>1, <2>1, FS_Interval
  <2> QED BY <1>1, <1>3, <2>2 DEF HasMore, last, N
<1>4. CASE N < last
  <2>1. Fetched(e, page) = (first + 1) .. N
    BY <1>1, <1>2, <1>4
  <2>2. first + 1 \in Int /\ N \in Int
    BY <1>1
  <2>3. Cardinality((first + 1) .. N)
          = IF first + 1 > N THEN 0 ELSE N - (first + 1) + 1
    BY <2>2, FS_Interval
  <2>4. N < first + (Limit + 1)
    BY <1>1, <1>4
  <2>5. (IF first + 1 > N THEN 0 ELSE N - (first + 1) + 1) \in 0 .. Limit
    BY <1>1, <2>4
  <2>6. Cardinality(Fetched(e, page)) \in 0 .. Limit
    BY <2>1, <2>3, <2>5
  <2> QED BY <1>1, <1>4, <2>6 DEF HasMore, last, N
<1> QED BY <1>1, <1>3, <1>4

\* No page after the final one is asked for.
LEMMA FinalIsLast ==
  ASSUME NEW e \in Entities, NEW page \in Nat \ {0}, ~HasMore(e, page),
         NEW k \in Pages(e)
  PROVE  k <= page
<1> SUFFICES ASSUME k > page PROVE FALSE
  BY ItemsAssumption DEF Pages
<1>1. k \in Nat /\ k - 1 \in Nat \ {0} /\ k # 1 /\ HasMore(e, k - 1)
  BY ItemsAssumption DEF Pages
<1>2. Items[e] >= (k - 1) * (Limit + 1)
  BY <1>1, HasMoreMeansFull
<1>3. (k - 1) * (Limit + 1) >= page * (Limit + 1)
  <2>1. Limit + 1 \in Nat /\ k - 1 >= page
    BY <1>1, LimitAssumption
  <2>2. \A a, b, m \in Nat : a >= b => a * m >= b * m
    OBVIOUS
  <2> QED BY <1>1, <2>1, <2>2
<1>4. Items[e] >= page * (Limit + 1)
  <2>1. \A a, b \in Nat : a * b \in Nat
    OBVIOUS
  <2> QED BY <1>1, <1>2, <1>3, <2>1, LimitAssumption, ItemsAssumption
<1> QED BY <1>4, HasMoreMeansFull

-----------------------------------------------------------------------------
(* What has left the queue has been ingested.                              *)

\* The pages of e before this one were ingested since the last schedule.
FreshBefore(e, page) ==
  \A k \in 1 .. (page - 1) : Sent(e, k) \subseteq fresh[e]

\* So were all pages of e.
Done(e) == \A page \in Pages(e) : Sent(e, page) \subseteq fresh[e]

\* The list is what is left of the goal, and what is missing is done.
Remains(list) ==
  /\ Len(list) <= Len(goal)
  /\ \A i \in 1 .. Len(list) : list[i] = goal[Len(goal) - Len(list) + i]
  /\ \A k \in 1 .. (Len(goal) - Len(list)) : Done(goal[k])

\* What a chunk action has read is behind, never ahead.
ChunkPassing(p) ==
  /\ proc[p].at \in {"post", "cursor", "zero", "shift"} => Remains(proc[p].list)
  /\ proc[p].at = "post" => proc[p].page > 0 /\ FreshBefore(Entity(p), proc[p].page)
  /\ proc[p].at = "cursor" => FreshBefore(Entity(p), proc[p].page + 1)
  /\ proc[p].at \in {"zero", "shift"} => Done(Entity(p))

\* While a schedule stands: the queue, every cursor and every chunk action.
Passing ==
  /\ Remains(queue)
  /\ \A e \in Entities : FreshBefore(e, cursor[e])
  /\ \A p \in Processes : ChunkPassing(p)

\* A schedule that is not crossed works alone until it has written the queue.
Alone ==
  \A p \in Processes : proc[p].at = "s_queue" =>
    /\ \A q \in Processes \ {p} : proc[q].at = "idle"
    /\ \A e \in Entities : cursor[e] = 0

Uncrossed ==
  /\ \A p \in Processes : proc[p].at \notin {"d_cursors", "d_queue"}
  /\ Alone
  /\ goal # <<>> => Passing

PassInv == ~crossed => Uncrossed

\* The positions of which Passing speaks.
Chunking == {"post", "cursor", "zero", "shift"}

\* While the goal stands, the items ingested since only grow.
Grows == goal' = goal /\ \A e \in Entities : fresh[e] \subseteq fresh'[e]

LEMMA FreshGrows ==
  ASSUME Grows, NEW e \in Entities
  PROVE  /\ \A page \in Nat : FreshBefore(e, page) => FreshBefore(e, page)'
         /\ Done(e) => Done(e)'
BY DEF Grows, FreshBefore, Done

LEMMA RemainsGrows ==
  ASSUME TypeInv, Grows, NEW list \in Seq(Entities), Remains(list)
  PROVE  Remains(list)'
<1>1. \A k \in 1 .. (Len(goal) - Len(list)) : goal[k] \in Entities
  <2>1. goal \in Seq(Entities) /\ Len(goal) \in Nat /\ Len(list) \in Nat
    BY LenProperties DEF TypeInv, TypeOK
  <2>2. \A k \in 1 .. Len(goal) : goal[k] \in Entities
    BY <2>1, ElementOfSeq
  <2> QED BY <2>1, <2>2
<1>2. \A k \in 1 .. (Len(goal) - Len(list)) : Done(goal[k])'
  BY <1>1, FreshGrows DEF Remains, Grows
<1> QED BY <1>2 DEF Remains, Grows

\* A chunk action that does not move keeps what it stands for.
LEMMA ChunkPassingGrows ==
  ASSUME TypeInv, Grows, NEW p \in Processes, ChunkPassing(p), proc'[p] = proc[p]
  PROVE  ChunkPassing(p)'
<1>1. CASE proc[p].at \notin Chunking
  BY <1>1 DEF Chunking, ChunkPassing
<1>2. CASE proc[p].at \in Chunking
  <2>1. /\ Entity(p) \in Entities /\ proc[p].list \in Seq(Entities)
        /\ proc[p].page \in Nat /\ proc[p].page + 1 \in Nat
    BY <1>2, EntityType DEF Chunking
  <2>2. Entity(p)' = Entity(p)
    BY DEF Entity
  <2>3. Remains(proc[p].list)'
    BY <1>2, <2>1, RemainsGrows DEF Chunking, ChunkPassing
  <2>4. proc[p].at = "post" => FreshBefore(Entity(p), proc[p].page)'
    BY <2>1, <2>2, FreshGrows DEF ChunkPassing, FreshBefore
  <2>5. proc[p].at = "cursor" => FreshBefore(Entity(p), proc[p].page + 1)'
    BY <2>1, <2>2, FreshGrows DEF ChunkPassing, FreshBefore
  <2>6. proc[p].at \in {"zero", "shift"} => Done(Entity(p))'
    BY <2>1, <2>2, FreshGrows DEF ChunkPassing, Done
  <2> QED BY <2>3, <2>4, <2>5, <2>6 DEF ChunkPassing
<1> QED BY <1>1, <1>2

\* What a chunk action leaves when it shortens the queue it has read.
LEMMA RemainsTail ==
  ASSUME TypeInv, NEW list \in Seq(Entities), list # <<>>, Remains(list),
         Done(Head(list))
  PROVE  Remains(Tail(list))
<1> DEFINE n == Len(list)
           g == Len(goal)
<1>1. /\ n \in Nat \ {0} /\ g \in Nat
      /\ Len(Tail(list)) = n - 1
      /\ \A i \in 1 .. (n - 1) : Tail(list)[i] = list[i + 1]
      /\ Head(list) = list[1]
  <2>1. Tail(list) \in Seq(Entities) /\ Len(Tail(list)) = n - 1
        /\ \A i \in 1 .. Len(Tail(list)) : Tail(list)[i] = list[i + 1]
    BY HeadTailProperties
  <2>2. n \in Nat /\ n # 0 /\ g \in Nat
    BY LenProperties, EmptySeq DEF TypeInv, TypeOK
  <2> QED BY <2>1, <2>2
<1>2. n <= g /\ \A i \in 1 .. n : list[i] = goal[g - n + i]
  BY DEF Remains
<1>3. \A k \in 1 .. (g - n) : Done(goal[k])
  BY DEF Remains
<1> HIDE DEF n, g
<1>4. \A i \in 1 .. (n - 1) : Tail(list)[i] = goal[g - (n - 1) + i]
  <2>1. \A i \in 1 .. (n - 1) : i + 1 \in 1 .. n /\ g - n + (i + 1) = g - (n - 1) + i
    BY <1>1
  <2> QED BY <1>1, <1>2, <2>1
<1>5. Done(goal[g - n + 1])
  <2>1. 1 \in 1 .. n
    BY <1>1
  <2>2. list[1] = goal[g - n + 1]
    BY <1>2, <2>1
  <2> QED BY <1>1, <2>2
<1>6. \A k \in 1 .. (g - (n - 1)) : Done(goal[k])
  <2>1. \A k \in 1 .. (g - (n - 1)) : k \in 1 .. (g - n) \/ k = g - n + 1
    BY <1>1, <1>2
  <2> QED BY <1>3, <1>5, <2>1
<1>7. n - 1 <= g
  BY <1>1, <1>2
<1> QED BY <1>1, <1>4, <1>6, <1>7 DEF Remains, g

LEMMA PassInitially == Init => PassInv
BY DEF Init, Idle, PassInv, Uncrossed, Alone

\* Steps that write neither the queue nor a cursor, and after which the
\* process that moved stands where nothing is said of it.
LEMMA PassFrame ==
  ASSUME TypeInv, Uncrossed, Grows, UNCHANGED <<queue, cursor>>, NEW p \in Processes,
         proc[p].at # "idle",
         proc'[p].at \in {"idle", "s_chunk", "again"},
         \A q \in Processes \ {p} : proc'[q] = proc[q]
  PROVE  Uncrossed'
<1>1. \A q \in Processes : proc'[q].at \notin {"d_cursors", "d_queue"}
  BY DEF Uncrossed
<1>2. Alone'
  BY DEF Uncrossed, Alone
<1>3. ASSUME goal' # <<>> PROVE Passing'
  <2>1. Passing
    BY <1>3 DEF Uncrossed, Grows
  <2>2. Remains(queue)'
    <3>1. queue \in Seq(Entities)
      BY DEF TypeInv, TypeOK
    <3> QED BY <2>1, <3>1, RemainsGrows DEF Passing, Remains
  <2>3. \A e \in Entities : FreshBefore(e, cursor[e])'
    BY <2>1, FreshGrows DEF Passing, TypeInv, TypeOK, FreshBefore
  <2>4. \A q \in Processes \ {p} : ChunkPassing(q)'
    BY <2>1, ChunkPassingGrows DEF Passing
  <2>5. ChunkPassing(p)'
    BY DEF ChunkPassing
  <2> QED BY <2>2, <2>3, <2>4, <2>5 DEF Passing
<1> QED BY <1>1, <1>2, <1>3 DEF Uncrossed

\* One step per action; those that leave the schedule crossed have no more to
\* show.
LEMMA PassStep == TypeInv /\ PassInv /\ [Next]_vars => PassInv'
<1> SUFFICES ASSUME TypeInv, PassInv, [Next]_vars, ~crossed' PROVE Uncrossed'
  BY DEF PassInv
<1> USE DEF options, history
<1>1. CASE UNCHANGED vars
  BY <1>1 DEF vars, PassInv, Uncrossed, Alone, Passing, Remains, Done, FreshBefore,
              ChunkPassing, Entity
<1>2. CASE ChunkSkips \/ Configure
  <2>1. UNCHANGED <<queue, cursor, proc, fresh, goal, crossed>>
    BY <1>2 DEF ChunkSkips, Configure
  <2> QED BY <2>1 DEF PassInv, Uncrossed, Alone, Passing, Remains, Done, FreshBefore,
                      ChunkPassing, Entity
<1>3. ASSUME NEW p \in Processes, NEW list, Schedule(p, list) PROVE Uncrossed'
  <2>1. \A q \in Processes \ {p} : proc[q].at = "idle"
    BY <1>3 DEF Schedule, OthersBusy, Busy
  <2>2. proc'[p].at = "s_queue" /\ \A q \in Processes \ {p} : proc'[q] = proc[q]
    BY <1>3 DEF Schedule, TypeInv, TypeOK, Idle
  <2>3. goal' = <<>> /\ \A e \in Entities : cursor'[e] = 0
    BY <1>3 DEF Schedule
  <2> QED BY <2>1, <2>2, <2>3 DEF Uncrossed, Alone
<1>4. ASSUME NEW p \in Processes, ScheduleQueue(p) PROVE Uncrossed'
  <2>1. Uncrossed
    BY <1>4 DEF ScheduleQueue, PassInv
  <2>2. \A q \in Processes \ {p} : proc[q].at = "idle"
    BY <1>4, <2>1 DEF ScheduleQueue, Uncrossed, Alone
  <2>3. proc'[p].at = "s_chunk" /\ \A q \in Processes \ {p} : proc'[q] = proc[q]
    BY <1>4, GotoEffect DEF ScheduleQueue, Steps
  <2>4. \A q \in Processes : ChunkPassing(q)'
    BY <2>2, <2>3 DEF ChunkPassing
  <2>5. \A e \in Entities : FreshBefore(e, cursor[e])'
    <3>1. \A e \in Entities : cursor'[e] = 0
      BY <1>4, <2>1 DEF ScheduleQueue, Uncrossed, Alone
    <3> QED BY <3>1 DEF FreshBefore
  <2>6. Remains(queue)'
    <3>1. goal' = queue' /\ Len(queue') \in Nat
      <4>1. proc[p].list \in Seq(Entities)
        BY DEF TypeInv, TypeOK, ProcState
      <4> QED BY <1>4, <4>1, LenProperties DEF ScheduleQueue
    <3> QED BY <3>1 DEF Remains
  <2> QED BY <2>2, <2>3, <2>4, <2>5, <2>6 DEF Uncrossed, Alone, Passing
<1>5. ASSUME NEW p \in Processes,
             ScheduleFirst(p) \/ ChunkAgain(p) \/ PostFails(p) \/ Die(p)
      PROVE  Uncrossed'
  <2>1. Uncrossed /\ UNCHANGED <<queue, cursor>> /\ goal' = goal
    BY <1>5 DEF ScheduleFirst, ChunkAgain, PostFails, Die, PassInv
  <2>2. proc[p].at # "idle"
    BY <1>5 DEF ScheduleFirst, ChunkAgain, PostFails, Die, Busy
  <2>3. End(p) \/ Goto(p, "again")
    BY <1>5 DEF ScheduleFirst, ChunkAgain, PostFails, Die
  <2>4. /\ proc'[p].at \in {"idle", "again"}
        /\ \A q \in Processes \ {p} : proc'[q] = proc[q]
    BY <2>3, GotoEffect, EndEffect DEF Steps
  <2>5. \A e \in Entities : fresh[e] \subseteq fresh'[e]
    <3>1. CASE ~PostFails(p)
      BY <1>5, <3>1 DEF ScheduleFirst, ChunkAgain, Die
    <3>2. CASE PostFails(p)
      BY <3>2 DEF PostFails, Ingest, TypeInv, TypeOK
    <3> QED BY <3>1, <3>2
  <2> QED BY <2>1, <2>2, <2>4, <2>5, PassFrame DEF Grows
<1>6. ASSUME NEW p \in Processes, ChunkReads(p) PROVE Uncrossed'
  <2> DEFINE page == IF cursor[Head(queue)] < 1 THEN 1 ELSE cursor[Head(queue)]
  <2>1. Uncrossed /\ Grows /\ UNCHANGED <<queue, cursor, fresh>>
    BY <1>6 DEF ChunkReads, PassInv, Grows
  <2>2. \A q \in Processes : proc[q].at # "s_queue"
    BY <1>6 DEF ChunkReads
  <2>3. /\ proc'[p].at = "post" /\ proc'[p].list = queue /\ proc'[p].page = page
        /\ \A q \in Processes \ {p} : proc'[q] = proc[q]
    BY <1>6 DEF ChunkReads, TypeInv, TypeOK
  <2>4. ASSUME goal' # <<>> PROVE Passing'
    <3>1. Passing
      BY <2>1, <2>4 DEF Uncrossed, Grows
    <3>2. Remains(queue)' /\ \A e \in Entities : FreshBefore(e, cursor[e])'
      BY <2>1, <3>1 DEF Passing, Remains, Done, FreshBefore, Grows
    <3>3. queue # <<>> /\ Head(queue) \in Entities
      BY <1>6, HeadTailProperties DEF ChunkReads, TypeInv, TypeOK
    <3>4. page > 0 /\ FreshBefore(Head(queue), page)
      <4>1. cursor[Head(queue)] \in Nat /\ FreshBefore(Head(queue), cursor[Head(queue)])
        BY <3>1, <3>3 DEF Passing, TypeInv, TypeOK
      <4>2. page > 0 /\ (page = 1 \/ page = cursor[Head(queue)])
        BY <4>1
      <4>3. FreshBefore(Head(queue), 1)
        BY DEF FreshBefore
      <4> HIDE DEF page
      <4> QED BY <4>1, <4>2, <4>3
    <3>5. ChunkPassing(p)'
      <4>1. Entity(p)' = Head(queue)
        BY <2>3 DEF Entity
      <4>2. Remains(proc[p].list)'
        BY <2>1, <2>3, <3>2 DEF Remains
      <4> HIDE DEF page
      <4>3. proc'[p].page > 0 /\ FreshBefore(Entity(p), proc[p].page)'
        BY <2>1, <2>3, <3>4, <4>1 DEF FreshBefore
      <4> QED BY <2>3, <4>2, <4>3 DEF ChunkPassing
    <3>6. \A q \in Processes \ {p} : ChunkPassing(q)'
      BY <2>1, <2>3, <3>1, ChunkPassingGrows DEF Passing
    <3> QED BY <3>2, <3>5, <3>6 DEF Passing
  <2> QED BY <2>1, <2>2, <2>3, <2>4 DEF Uncrossed, Alone
<1>7. ASSUME NEW p \in Processes, PostAnswered(p) PROVE Uncrossed'
  <2> DEFINE e == Entity(p)
             page == proc[p].page
  <2>1. Uncrossed /\ UNCHANGED <<queue, cursor>> /\ proc[p].at = "post"
    BY <1>7 DEF PostAnswered, PassInv
  <2>2. e \in Entities /\ page \in Nat /\ proc[p].list \in Seq(Entities)
    BY <2>1, EntityType
  <2>3. Grows /\ Sent(e, page) \subseteq fresh'[e]
    BY <1>7, <2>2 DEF PostAnswered, Ingest, Grows, TypeInv, TypeOK
  <2>4. Goto(p, IF HasMore(e, page) THEN "cursor" ELSE "zero")
    BY <1>7 DEF PostAnswered
  <2>5. /\ proc'[p].at = IF HasMore(e, page) THEN "cursor" ELSE "zero"
        /\ proc'[p].list = proc[p].list /\ proc'[p].page = page
        /\ \A q \in Processes \ {p} : proc'[q] = proc[q]
    BY <2>4, GotoEffect DEF Steps
  <2>6. Entity(p)' = e
    BY <2>5 DEF Entity
  <2> HIDE DEF e, page
  <2>7. Alone' /\ \A q \in Processes : proc'[q].at \notin {"d_cursors", "d_queue"}
    BY <2>1, <2>5 DEF Uncrossed, Alone
  <2>8. ASSUME goal' # <<>> PROVE Passing'
    <3>1. Passing
      BY <2>1, <2>3, <2>8 DEF Uncrossed, Grows
    <3>2. /\ Remains(proc[p].list) /\ page > 0 /\ FreshBefore(e, page)
      BY <2>1, <3>1 DEF Passing, ChunkPassing, e, page
    <3>3. Remains(queue)' /\ \A f \in Entities : FreshBefore(f, cursor[f])'
      <4>1. queue \in Seq(Entities) /\ Remains(queue)
        BY <3>1 DEF Passing, TypeInv, TypeOK
      <4>2. Remains(queue)'
        BY <2>1, <2>3, <4>1, RemainsGrows DEF Remains
      <4>3. \A f \in Entities : FreshBefore(f, cursor[f])'
        BY <2>1, <2>3, <3>1, FreshGrows DEF Passing, FreshBefore, TypeInv, TypeOK
      <4> QED BY <4>2, <4>3
    <3>4. \A q \in Processes \ {p} : ChunkPassing(q)'
      BY <2>3, <2>5, <3>1, ChunkPassingGrows DEF Passing
    <3>5. \A k \in 1 .. page : Sent(e, k) \subseteq fresh'[e]
      <4>1. \A k \in 1 .. page : k = page \/ k \in 1 .. (page - 1)
        BY <2>2
      <4> QED BY <2>2, <2>3, <3>2, <4>1 DEF FreshBefore, Grows
    <3>6. Remains(proc[p].list)'
      BY <2>2, <2>3, <2>5, <3>2, RemainsGrows DEF Remains
    <3>7. FreshBefore(Entity(p), proc[p].page + 1)'
      <4>1. (proc'[p].page + 1) - 1 = page
        BY <2>2, <2>5
      <4>2. \A k \in 1 .. ((proc'[p].page + 1) - 1) : Sent(e, k) \subseteq fresh'[e]
        BY <3>5, <4>1
      <4>3. \A k \in 1 .. ((proc'[p].page + 1) - 1) :
              Sent(Entity(p)', k) \subseteq fresh'[Entity(p)']
        BY <2>6, <4>2
      <4> QED BY <4>3 DEF FreshBefore
    <3>8. ASSUME proc'[p].at \in {"zero", "shift"} PROVE Done(Entity(p))'
      <4>1. ~HasMore(e, page)
        BY <2>5, <3>8
      <4>2. \A k \in Pages(e) : k <= page
        BY <2>2, <3>2, <4>1, FinalIsLast
      <4>3. \A k \in Pages(e) : k \in 1 .. page
        BY <2>2, <4>2, ItemsAssumption DEF Pages
      <4> QED BY <2>6, <3>5, <4>3 DEF Done
    <3>9. ChunkPassing(p)'
      BY <2>5, <3>6, <3>7, <3>8 DEF ChunkPassing
    <3> QED BY <3>3, <3>4, <3>9 DEF Passing
  <2> QED BY <2>7, <2>8 DEF Uncrossed
<1>8. ASSUME NEW p \in Processes, AdvanceCursor(p) \/ ResetCursor(p) PROVE Uncrossed'
  <2>1. /\ Uncrossed /\ Grows /\ UNCHANGED <<queue, fresh>>
        /\ proc[p].at \in {"cursor", "zero"}
    BY <1>8 DEF AdvanceCursor, ResetCursor, PassInv, Grows
  <2>2. Entity(p) \in Entities /\ proc[p].page \in Nat
    BY <2>1, EntityType
  <2>3. /\ proc'[p].at = IF proc[p].at = "cursor" THEN "again" ELSE "shift"
        /\ proc'[p].list = proc[p].list
        /\ \A q \in Processes \ {p} : proc'[q] = proc[q]
    BY <1>8, GotoEffect DEF AdvanceCursor, ResetCursor, Steps
  <2>4. \A q \in Processes : proc[q].at # "s_queue"
    BY <2>1 DEF Uncrossed, Alone
  <2>5. ASSUME goal' # <<>> PROVE Passing'
    <3>1. Passing
      BY <2>1, <2>5 DEF Uncrossed, Grows
    <3>2. PICK page \in Nat : SetCursor(p, page) /\ FreshBefore(Entity(p), page)
      <4>1. CASE AdvanceCursor(p)
        BY <2>2, <3>1, <4>1 DEF AdvanceCursor, Passing, ChunkPassing
      <4>2. CASE ResetCursor(p)
        BY <4>2 DEF ResetCursor, FreshBefore
      <4> QED BY <1>8, <4>1, <4>2
    <3>3. \A e \in Entities : cursor'[e] = cursor[e] \/ (e = Entity(p) /\ cursor'[e] = page)
      BY <2>1, <3>2, SetCursorEffect
    <3>4. \A e \in Entities : FreshBefore(e, cursor[e])'
      BY <2>1, <3>1, <3>2, <3>3 DEF Passing, FreshBefore
    <3>5. Remains(queue)'
      BY <2>1, <3>1 DEF Passing, Remains, Done, Grows
    <3>6. \A q \in Processes \ {p} : ChunkPassing(q)'
      BY <2>1, <2>3, <3>1, ChunkPassingGrows DEF Passing
    <3>7. ChunkPassing(p)'
      <4>1. Entity(p)' = Entity(p)
        BY <2>3 DEF Entity
      <4>2. Remains(proc[p].list)'
        BY <2>1, <2>3, <3>1 DEF Passing, ChunkPassing, Remains, Done, Grows
      <4>3. proc'[p].at = "shift" => Done(Entity(p))'
        BY <2>1, <2>3, <3>1, <4>1 DEF Passing, ChunkPassing, Done
      <4> QED BY <2>3, <4>2, <4>3 DEF ChunkPassing
    <3> QED BY <3>4, <3>5, <3>6, <3>7 DEF Passing
  <2> QED BY <2>1, <2>3, <2>4, <2>5 DEF Uncrossed, Alone
<1>9. ASSUME NEW p \in Processes, ShiftQueue(p) PROVE Uncrossed'
  <2>1. Uncrossed /\ Grows /\ UNCHANGED <<cursor, fresh>> /\ proc[p].at = "shift"
    BY <1>9 DEF ShiftQueue, PassInv, Grows
  <2>2. End(p) \/ Goto(p, "again")
    BY <1>9 DEF ShiftQueue
  <2>3. /\ proc'[p].at \in {"idle", "again"}
        /\ \A q \in Processes \ {p} : proc'[q] = proc[q]
    BY <2>2, GotoEffect, EndEffect DEF Steps
  <2>4. \A q \in Processes : proc[q].at # "s_queue"
    BY <2>1 DEF Uncrossed, Alone
  <2>5. ASSUME goal' # <<>> PROVE Passing'
    <3>1. Passing
      BY <2>1, <2>5 DEF Uncrossed, Grows
    <3>2. Remains(queue)'
      <4>1. proc[p].list \in Seq(Entities) /\ proc[p].list # <<>>
        BY <2>1, EntityType
      <4>2. Remains(proc[p].list) /\ Done(Head(proc[p].list))
        BY <2>1, <3>1 DEF Passing, ChunkPassing, Entity
      <4>3. Remains(Tail(proc[p].list)) /\ Remains(queue)
        BY <3>1, <4>1, <4>2, RemainsTail DEF Passing
      <4>4. queue' = Tail(proc[p].list) \/ queue' = queue
        BY <1>9 DEF ShiftQueue
      <4> QED BY <2>1, <4>3, <4>4 DEF Remains, Done, Grows
    <3>3. \A e \in Entities : FreshBefore(e, cursor[e])'
      BY <2>1, <3>1 DEF Passing, FreshBefore
    <3>4. \A q \in Processes \ {p} : ChunkPassing(q)'
      BY <2>1, <2>3, <3>1, ChunkPassingGrows DEF Passing
    <3>5. ChunkPassing(p)'
      BY <2>3 DEF ChunkPassing
    <3> QED BY <3>2, <3>3, <3>4, <3>5 DEF Passing
  <2> QED BY <2>1, <2>3, <2>4, <2>5 DEF Uncrossed, Alone
<1>10. ASSUME NEW p \in Processes,
              PostShort(p) \/ Disconnect(p) \/ DisconnectCursors(p) \/ DisconnectQueue(p)
       PROVE  FALSE
  BY <1>10 DEF PostShort, Disconnect, DisconnectCursors, DisconnectQueue, PassInv, Uncrossed
<1> QED BY <1>1, <1>2, <1>3, <1>4, <1>5, <1>6, <1>7, <1>8, <1>9, <1>10
        DEF Next, ChunkContinues, OtherContinues

\* An entity that is not in the queue is not in what remains.
LEMMA PassedWhileRemaining ==
  ASSUME TypeInv, Remains(queue), NEW k \in 1 .. Len(goal),
         \A j \in 1 .. Len(queue) : queue[j] # goal[k]
  PROVE  Done(goal[k])
<1>1. Len(goal) \in Nat /\ Len(queue) \in Nat
  BY LenProperties DEF TypeInv, TypeOK
<1>2. CASE k <= Len(goal) - Len(queue)
  BY <1>1, <1>2 DEF Remains
<1>3. CASE k > Len(goal) - Len(queue)
  <2> DEFINE i == k - (Len(goal) - Len(queue))
  <2>1. i \in 1 .. Len(queue) /\ Len(goal) - Len(queue) + i = k
    BY <1>1, <1>3 DEF Remains
  <2>2. queue[i] = goal[Len(goal) - Len(queue) + i]
    BY <2>1 DEF Remains
  <2> QED BY <2>1, <2>2
<1> QED BY <1>1, <1>2, <1>3

\* However chunk actions overlap, fail and write stale queues, none skips a
\* page of an entity it takes off the queue.
THEOREM PassedIsIngestedHolds == Spec => []PassedIsIngested
<1>1. Spec => []PassInv
  BY PassInitially, PassStep, TypeInvariant, PTL DEF Spec
<1>2. TypeInv /\ PassInv => PassedIsIngested
  <2> SUFFICES ASSUME TypeInv, PassInv, ~crossed, NEW k \in 1 .. Len(goal),
                      \A j \in 1 .. Len(queue) : queue[j] # goal[k]
               PROVE  Done(goal[k])
    BY DEF PassedIsIngested, Done
  <2>1. goal # <<>>
    BY EmptySeq
  <2>2. Remains(queue)
    BY <2>1 DEF PassInv, Uncrossed, Passing
  <2> QED BY <2>2, PassedWhileRemaining
<1> QED BY <1>1, <1>2, TypeInvariant, PTL

-----------------------------------------------------------------------------
(* What a full sync brings, and what none ever brings.                     *)

\* The items that are not the one a page fetches only to see that there are
\* more.
Sendable(e) ==
  {i \in 1 .. Items[e] : \A k \in Nat : i # k * (Limit + 1)}

\* A page sends no other.
LEMMA SentIsSendable ==
  ASSUME NEW e \in Entities, NEW page \in Nat \ {0}
  PROVE  Sent(e, page) \subseteq Sendable(e)
<1> DEFINE M == Limit + 1
<1> SUFFICES ASSUME NEW i \in Sent(e, page), NEW k \in Nat, i = k * M
             PROVE  FALSE
  BY DEF Sent, Fetched, Sendable
<1>1. M \in Nat /\ M > 0 /\ Limit = M - 1 /\ i \in Nat
  BY LimitAssumption, ItemsAssumption DEF Sent, Fetched
<1>2. (page - 1) * M < i /\ i <= (page - 1) * M + (M - 1)
  BY <1>1 DEF Sent, Fetched
<1> HIDE DEF M
<1>3. CASE k <= page - 1
  <2>1. \A a, b, m \in Nat : a <= b => a * m <= b * m
    OBVIOUS
  <2>2. k * M <= (page - 1) * M
    BY <1>1, <1>3, <2>1
  <2>3. (page - 1) * M \in Nat /\ k * M \in Nat
    BY <1>1
  <2> QED BY <1>2, <2>2, <2>3
<1>4. CASE k >= page
  <2>1. \A a, b, m \in Nat : a <= b => a * m <= b * m
    OBVIOUS
  <2>2. page * M <= k * M
    BY <1>1, <1>4, <2>1
  <2>3. page * M = (page - 1) * M + M
    BY <1>1
  <2>4. (page - 1) * M \in Nat /\ page * M \in Nat /\ k * M \in Nat
    BY <1>1
  <2> QED BY <1>1, <1>2, <2>2, <2>3, <2>4
<1> QED BY <1>3, <1>4

\* Division with a remainder, counted from one.
LEMMA PageOf ==
  ASSUME NEW i \in Nat \ {0}, NEW m \in Nat \ {0}
  PROVE  \E q \in Nat : q * m < i /\ i <= q * m + m
<1>1. i - 1 \in Nat
  OBVIOUS
<1>2. PICK q \in Nat, r \in 0 .. (m - 1) : i - 1 = q * m + r
  <2>1. /\ (i - 1) \div m \in Nat /\ (i - 1) % m \in 0 .. (m - 1)
        /\ i - 1 = m * ((i - 1) \div m) + ((i - 1) % m)
    BY <1>1
  <2>2. \A a, b \in Nat : a * b = b * a
    OBVIOUS
  <2> QED BY <2>1, <2>2
<1>3. q * m \in Nat
  OBVIOUS
<1> QED BY <1>2, <1>3

\* And the pages of a full pass send all of these.
LEMMA SendableIsSent ==
  ASSUME NEW e \in Entities, NEW i \in Sendable(e)
  PROVE  \E page \in Pages(e) : i \in Sent(e, page)
<1> DEFINE M == Limit + 1
<1>1. /\ M \in Nat \ {0} /\ Limit = M - 1 /\ Items[e] \in Nat
      /\ i \in Nat \ {0} /\ i <= Items[e]
  BY LimitAssumption, ItemsAssumption DEF Sendable
<1>2. PICK q \in Nat : q * M < i /\ i <= q * M + M
  BY <1>1, PageOf
<1>3. i # q * M + M
  <2>1. q + 1 \in Nat /\ (q + 1) * M = q * M + M
    BY <1>1
  <2>2. i # (q + 1) * M
    BY <2>1 DEF Sendable
  <2> QED BY <2>1, <2>2
<1>4. /\ (q + 1) - 1 = q
      /\ (q + 1) * (Limit + 1) = q * M + M
      /\ q * M \in Nat
  BY <1>1
<1>5. i \in Sent(e, q + 1)
  BY <1>1, <1>2, <1>3, <1>4 DEF Sent, Fetched
<1>6. q + 1 \in Pages(e)
  <2>1. q <= q * M
    BY <1>1
  <2>2. q + 1 \in 1 .. (Items[e] + 1)
    BY <1>1, <1>2, <1>4, <2>1
  <2>3. q = 0 \/ HasMore(e, q)
    <3>1. q # 0 => (HasMore(e, q) <=> Items[e] >= q * M)
      BY HasMoreMeansFull
    <3>2. Items[e] >= q * M
      BY <1>1, <1>2, <1>4
    <3> QED BY <3>1, <3>2
  <2> QED BY <1>4, <2>2, <2>3 DEF Pages
<1> QED BY <1>5, <1>6

\* A page in hand is a page, and nothing else has reached the backend.
SendableInv ==
  /\ \A e \in Entities : synced[e] \subseteq Sendable(e) /\ fresh[e] \subseteq Sendable(e)
  /\ \A p \in Processes : proc[p].at = "post" => proc[p].page > 0

LEMMA SendableInitially == Init => SendableInv
BY DEF Init, Idle, SendableInv

\* A chunk action begins at a page; an answer, or a part of it, brings what the
\* page sends; no other step brings anything.
LEMMA SendableStep == TypeInv /\ SendableInv /\ [Next]_vars => SendableInv'
<1> SUFFICES ASSUME TypeInv, SendableInv, [Next]_vars PROVE SendableInv'
  OBVIOUS
<1> USE DEF options, history
<1>1. CASE UNCHANGED vars
  BY <1>1 DEF vars, SendableInv
<1>2. CASE ChunkSkips \/ Configure
  BY <1>2 DEF ChunkSkips, Configure, SendableInv
<1>3. ASSUME NEW p \in Processes, NEW list, Schedule(p, list) PROVE SendableInv'
  <2>1. proc'[p].at = "s_queue" /\ \A q \in Processes \ {p} : proc'[q] = proc[q]
    BY <1>3 DEF Schedule, TypeInv, TypeOK, Idle
  <2>2. synced' = synced /\ \A e \in Entities : fresh'[e] = {}
    BY <1>3 DEF Schedule
  <2> QED BY <2>1, <2>2 DEF SendableInv
<1>4. ASSUME NEW p \in Processes, ChunkReads(p) PROVE SendableInv'
  <2> DEFINE page == IF cursor[Head(queue)] < 1 THEN 1 ELSE cursor[Head(queue)]
  <2>1. UNCHANGED <<synced, fresh>>
    BY <1>4 DEF ChunkReads
  <2>2. proc'[p].page = page /\ \A q \in Processes \ {p} : proc'[q] = proc[q]
    BY <1>4 DEF ChunkReads, TypeInv, TypeOK
  <2>3. page > 0
    <3>1. queue # <<>> /\ Head(queue) \in Entities
      BY <1>4, HeadTailProperties DEF ChunkReads, TypeInv, TypeOK
    <3> QED BY <3>1 DEF TypeInv, TypeOK
  <2> HIDE DEF page
  <2> QED BY <2>1, <2>2, <2>3 DEF SendableInv
<1>5. ASSUME NEW p \in Processes, PostAnswered(p) \/ PostFails(p) \/ PostShort(p) PROVE SendableInv'
  <2>1. proc[p].at = "post" /\ Entity(p) \in Entities /\ proc[p].page \in Nat \ {0}
    BY <1>5, EntityType DEF PostAnswered, PostFails, PostShort, SendableInv
  <2>2. PICK items \in SUBSET Sent(Entity(p), proc[p].page) : Ingest(Entity(p), items)
    BY <1>5 DEF PostAnswered, PostFails, PostShort
  <2>3. items \subseteq Sendable(Entity(p))
    BY <2>1, <2>2, SentIsSendable
  <2>4. \A e \in Entities : synced'[e] \subseteq Sendable(e) /\ fresh'[e] \subseteq Sendable(e)
    BY <2>2, <2>3 DEF Ingest, SendableInv, TypeInv, TypeOK
  <2>5. Goto(p, "cursor") \/ Goto(p, "zero") \/ Goto(p, "again")
    BY <1>5 DEF PostAnswered, PostFails, PostShort
  <2>6. proc'[p].at # "post" /\ \A q \in Processes \ {p} : proc'[q] = proc[q]
    BY <2>5, GotoEffect DEF Steps
  <2> QED BY <2>4, <2>6 DEF SendableInv
<1>6. ASSUME NEW p \in Processes,
             \/ ScheduleQueue(p) \/ ScheduleFirst(p) \/ AdvanceCursor(p) \/ ResetCursor(p)
             \/ ShiftQueue(p) \/ ChunkAgain(p) \/ Disconnect(p) \/ DisconnectCursors(p)
             \/ DisconnectQueue(p) \/ Die(p)
      PROVE  SendableInv'
  <2>1. UNCHANGED <<synced, fresh>>
    BY <1>6 DEF ScheduleQueue, ScheduleFirst, AdvanceCursor, ResetCursor, ShiftQueue,
                ChunkAgain, Disconnect, DisconnectCursors, DisconnectQueue, Die
  <2>2. \/ End(p)
        \/ \E step \in {"s_chunk", "again", "shift", "d_cursors", "d_queue"} : Goto(p, step)
    BY <1>6 DEF ScheduleQueue, ScheduleFirst, AdvanceCursor, ResetCursor, ShiftQueue,
                ChunkAgain, Disconnect, DisconnectCursors, DisconnectQueue, Die
  <2>3. proc'[p].at # "post" /\ \A q \in Processes \ {p} : proc'[q] = proc[q]
    BY <2>2, GotoEffect, EndEffect DEF Steps
  <2> QED BY <2>1, <2>3 DEF SendableInv
<1> QED BY <1>1, <1>2, <1>3, <1>4, <1>5, <1>6 DEF Next, ChunkContinues, OtherContinues

LEMMA SendableInvariant == Spec => []SendableInv
BY SendableInitially, SendableStep, TypeInvariant, PTL DEF Spec

\* No item whose place is a multiple of Limit + 1 is ever in the read-model:
\* build_chunk_envelope fetches it to see that there are more and sends it with
\* no page, however often the plugin synchronises.
THEOREM MultiplesAreNeverSynced ==
  Spec => [](\A e \in Entities : \A k \in Nat : k * (Limit + 1) \notin synced[e])
<1>1. SendableInv => \A e \in Entities : \A k \in Nat : k * (Limit + 1) \notin synced[e]
  BY DEF SendableInv, Sendable
<1> QED BY <1>1, SendableInvariant, PTL

\* All others are: a full sync that was not crossed and has emptied its queue
\* (run_next_chunk) has brought exactly the items that some page sends.
FullSyncIsSendable ==
  ~crossed /\ goal = Full /\ queue = <<>>
    => \A k \in 1 .. Len(Full) : fresh[Full[k]] = Sendable(Full[k])

THEOREM FullSyncBringsTheSendable == Spec => []FullSyncIsSendable
<1>1. TypeInv /\ PassedIsIngested /\ SendableInv => FullSyncIsSendable
  <2> SUFFICES ASSUME TypeInv, PassedIsIngested, SendableInv,
                      ~crossed, goal = Full, queue = <<>>, NEW k \in 1 .. Len(Full)
               PROVE  fresh[Full[k]] = Sendable(Full[k])
    BY DEF FullSyncIsSendable
  <2>1. Full[k] \in Entities
    BY ListsAssumption, ElementOfSeq
  <2>2. Len(queue) = 0
    BY EmptySeq
  <2>3. \A page \in Pages(Full[k]) : Sent(Full[k], page) \subseteq fresh[Full[k]]
    <3>1. k \in 1 .. Len(goal) /\ goal[k] = Full[k]
      OBVIOUS
    <3>2. \A j \in 1 .. Len(queue) : queue[j] # goal[k]
      BY <2>2
    <3>3. \A page \in Pages(goal[k]) : Sent(goal[k], page) \subseteq fresh[goal[k]]
      BY <3>1, <3>2 DEF PassedIsIngested
    <3> QED BY <3>1, <3>3
  <2>4. Sendable(Full[k]) \subseteq fresh[Full[k]]
    BY <2>1, <2>3, SendableIsSent
  <2> QED BY <2>1, <2>4 DEF SendableInv
<1> QED BY <1>1, TypeInvariant, PassedIsIngestedHolds, SendableInvariant, PTL

\* So it is complete for the stores every list of which fits one batch.
THEOREM SmallFullSyncIsComplete ==
  ASSUME \A e \in Entities : Items[e] <= Limit
  PROVE  Spec => []FullSyncIsComplete
<1>1. ASSUME NEW e \in Entities PROVE Sendable(e) = 1 .. Items[e]
  <2>1. ASSUME NEW i \in 1 .. Items[e], NEW k \in Nat, i = k * (Limit + 1) PROVE FALSE
    <3>1. Items[e] \in Nat /\ Limit \in Nat /\ i > 0 /\ i <= Limit
      BY <2>1, ItemsAssumption, LimitAssumption
    <3>2. k = 0 \/ k * (Limit + 1) >= Limit + 1
      BY <3>1
    <3> QED BY <2>1, <3>1, <3>2
  <2> QED BY <2>1 DEF Sendable
<1>2. FullSyncIsSendable => FullSyncIsComplete
  <2>1. \A k \in 1 .. Len(Full) : Full[k] \in Entities
    BY ListsAssumption, ElementOfSeq
  <2> QED BY <1>1, <2>1 DEF FullSyncIsComplete, FullSyncIsSendable
<1> QED BY <1>2, FullSyncBringsTheSendable, PTL
=============================================================================
