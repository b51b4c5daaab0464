------------------------- MODULE PluginEventsProofs -------------------------
(***************************************************************************)
(* Theorems about PluginEvents, for any processes, events, keys, limits,   *)
(* settings and failures.                                                  *)
(***************************************************************************)
EXTENDS PluginEvents, WellFoundedInduction, TLAPS

-----------------------------------------------------------------------------
(* Induction. The theorems of NaturalsInduction take a predicate; these    *)
(* take the set of the numbers it holds of.                                *)

LEMMA LeastNatural == ASSUME NEW T, T \subseteq Nat, T # {}
                      PROVE  \E m \in T : \A k \in T : ~(k < m)
<1> DEFINE R == OpToRel(<, Nat)
<1>1. IsWellFoundedOn(R, Nat)
  BY NatLessThanWellFounded
<1>2. R = {ss \in Nat \X Nat : ss[1] < ss[2]}
  BY DEF OpToRel
<1> HIDE DEF R
<1>3. PICK m \in T : \A k \in T : ~(<<k, m>> \in R)
  BY <1>1, WFMin
<1>4. \A k \in T : ~(k < m)
  BY <1>2, <1>3
<1> QED BY <1>4

\* The least number that was left out would have a predecessor that was not.
LEMMA NatSetInduction == ASSUME NEW S, 0 \in S, \A n \in Nat : n \in S => n + 1 \in S
                         PROVE  Nat \subseteq S
<1> SUFFICES ASSUME ~(Nat \subseteq S) PROVE FALSE
  OBVIOUS
<1> DEFINE T == Nat \ S
<1>1. PICK m \in T : \A k \in T : ~(k < m)
  <2>1. T \subseteq Nat /\ T # {}
    OBVIOUS
  <2> HIDE DEF T
  <2> QED BY <2>1, LeastNatural
<1>2. m # 0 /\ m - 1 \in Nat /\ m - 1 < m
  BY <1>1
<1>3. m - 1 \in S
  BY <1>1, <1>2
<1>4. (m - 1) + 1 = m
  BY <1>1
<1> QED BY <1>1, <1>2, <1>3, <1>4

-----------------------------------------------------------------------------
(* Lists of events.                                                        *)

NoRepeats(s) == \A i, j \in 1 .. Len(s) : s[i] = s[j] => i = j

\* k is what may be left of the first n elements of s once e is gone.
Keeps(k, s, e, n) ==
  /\ k \in Lists
  /\ Len(k) <= n
  /\ Elements(k) = {s[i] : i \in 1 .. n} \ {e}
  /\ (\A i, j \in 1 .. n : s[i] = s[j] => i = j) => NoRepeats(k)

\* One turn of the loop of remove_event.
LEMMA KeepsAppend ==
  ASSUME NEW s \in Lists, NEW e, NEW n \in Nat, n + 1 <= Len(s), NEW k, Keeps(k, s, e, n)
  PROVE  Keeps(IF s[n + 1] = e THEN k ELSE Append(k, s[n + 1]), s, e, n + 1)
<1>1. {s[i] : i \in 1 .. n + 1} = {s[i] : i \in 1 .. n} \cup {s[n + 1]}
  OBVIOUS
<1>2. k \in Lists /\ Len(k) \in Nat /\ Len(k) <= n /\ s[n + 1] \in Events
  BY DEF Keeps, Lists
<1>3. CASE s[n + 1] = e
  <2>1. Elements(k) = {s[i] : i \in 1 .. n + 1} \ {e}
    BY <1>1, <1>3 DEF Keeps
  <2> QED BY <1>2, <1>3, <2>1 DEF Keeps
<1>4. CASE s[n + 1] # e
  <2> DEFINE l == Append(k, s[n + 1])
  <2>1. /\ l \in Lists /\ Len(l) = Len(k) + 1
        /\ \A i \in 1 .. Len(k) : l[i] = k[i]
        /\ l[Len(k) + 1] = s[n + 1]
    BY <1>2 DEF Lists
  <2> HIDE DEF l
  <2>2. Elements(l) = Elements(k) \cup {s[n + 1]}
    BY <1>2, <2>1 DEF Elements
  <2>3. Elements(l) = {s[i] : i \in 1 .. n + 1} \ {e}
    BY <1>1, <1>4, <2>2 DEF Keeps
  <2>4. ASSUME \A i, j \in 1 .. n + 1 : s[i] = s[j] => i = j,
               NEW i \in 1 .. Len(l), NEW j \in 1 .. Len(l), l[i] = l[j]
        PROVE  i = j
    <3>1. s[n + 1] \notin Elements(k)
      <4>1. ASSUME NEW m \in 1 .. n PROVE s[m] # s[n + 1]
        <5>1. m \in 1 .. n + 1 /\ n + 1 \in 1 .. n + 1 /\ m # n + 1
          OBVIOUS
        <5> QED BY <2>4, <5>1
      <4> QED BY <4>1 DEF Keeps
    <3>2. \A m \in 1 .. Len(k) : k[m] # s[n + 1]
      BY <3>1 DEF Elements
    <3>3. \A m, o \in 1 .. Len(k) : k[m] = k[o] => m = o
      BY <2>4 DEF Keeps, NoRepeats
    <3>4. (i \in 1 .. Len(k) \/ i = Len(k) + 1) /\ (j \in 1 .. Len(k) \/ j = Len(k) + 1)
      BY <1>2, <2>1
    <3>5. CASE i = Len(k) + 1 /\ j = Len(k) + 1
      BY <3>5
    <3>6. CASE i \in 1 .. Len(k) /\ j \in 1 .. Len(k)
      BY <2>1, <2>4, <3>3, <3>6
    <3>7. CASE i \in 1 .. Len(k) /\ j = Len(k) + 1
      BY <2>1, <2>4, <3>2, <3>7
    <3>8. CASE i = Len(k) + 1 /\ j \in 1 .. Len(k)
      BY <2>1, <2>4, <3>2, <3>8
    <3> QED BY <3>4, <3>5, <3>6, <3>7, <3>8
  <2> QED BY <1>2, <1>4, <2>1, <2>3, <2>4 DEF Keeps, NoRepeats, l
<1> QED BY <1>3, <1>4

\* The loop as a whole: the function that Removed chooses exists, since the part
\* of it over 0 .. m can be continued to m + 1, and each turn keeps what it should.
LEMMA RemovedKeeps ==
  ASSUME NEW s \in Lists, NEW e
  PROVE  Keeps(Removed(s, e), s, e, Len(s))
<1> DEFINE Step(k, n) == IF s[n] = e THEN k ELSE Append(k, s[n])
           Rec(f, m) == f[0] = <<>> /\ \A n \in 1 .. m : f[n] = Step(f[n - 1], n)
<1>0. Len(s) \in Nat
  BY DEF Lists
<1>1. \E f \in [0 .. Len(s) -> Lists] : Rec(f, Len(s))
  <2> DEFINE S == {m \in Nat : m <= Len(s) => \E f \in [0 .. m -> Lists] : Rec(f, m)}
  <2>1. 0 \in S
    <3> DEFINE g == [n \in 0 .. 0 |-> <<>>]
    <3>1. g \in [0 .. 0 -> Lists] /\ g[0] = <<>>
      BY DEF Lists
    <3> HIDE DEF g
    <3>2. Rec(g, 0)
      BY <3>1
    <3> QED BY <3>1, <3>2
  <2>2. ASSUME NEW m \in Nat, m \in S PROVE m + 1 \in S
    <3> SUFFICES ASSUME m + 1 <= Len(s)
                 PROVE  \E f \in [0 .. m + 1 -> Lists] : Rec(f, m + 1)
      OBVIOUS
    <3>1. PICK g \in [0 .. m -> Lists] : Rec(g, m)
      BY <1>0, <2>2
    <3> DEFINE f == [n \in 0 .. m + 1 |-> IF n = m + 1 THEN Step(g[m], m + 1) ELSE g[n]]
    <3>2. Step(g[m], m + 1) \in Lists
      BY <3>1 DEF Lists
    <3>3. f \in [0 .. m + 1 -> Lists]
      BY <3>1, <3>2
    <3>4. f[0] = <<>>
      BY <3>1
    <3>5. ASSUME NEW n \in 1 .. m + 1 PROVE f[n] = Step(f[n - 1], n)
      <4>1. CASE n = m + 1
        BY <4>1
      <4>2. CASE n # m + 1
        BY <3>1, <4>2
      <4> QED BY <4>1, <4>2
    <3> QED BY <3>3, <3>4, <3>5
  <2> HIDE DEF S
  <2>3. Nat \subseteq S
    BY <2>1, <2>2, NatSetInduction
  <2> QED BY <1>0, <2>3 DEF S
<1> DEFINE Def(f) == [n \in 0 .. Len(s) |-> IF n = 0 THEN <<>> ELSE Step(f[n - 1], n)]
           kept == CHOOSE f : f = Def(f)
<1>2. \E f : f = Def(f)
  <2> PICK f \in [0 .. Len(s) -> Lists] : Rec(f, Len(s))
    BY <1>1
  <2>1. ASSUME NEW n \in 0 .. Len(s)
        PROVE  f[n] = IF n = 0 THEN <<>> ELSE Step(f[n - 1], n)
    <3> HIDE DEF Step
    <3>1. CASE n = 0
      BY <3>1
    <3>2. CASE n # 0
      <4>1. n \in 1 .. Len(s)
        BY <1>0, <3>2
      <4> QED BY <3>2, <4>1
    <3> QED BY <3>1, <3>2
  <2>2. f = [n \in 0 .. Len(s) |-> f[n]]
    OBVIOUS
  <2>3. f = Def(f)
    BY <2>1, <2>2
  <2> QED BY <2>3
<1>3. kept = Def(kept)
  <2> HIDE DEF Def
  <2> QED BY <1>2
<1>4. Removed(s, e) = kept[Len(s)]
  BY DEF Removed
<1> HIDE DEF kept
<1>5. kept[0] = <<>> /\ \A n \in 1 .. Len(s) : kept[n] = Step(kept[n - 1], n)
  <2> HIDE DEF Step
  <2>1. 0 \in 0 .. Len(s) /\ \A n \in 1 .. Len(s) : n \in 0 .. Len(s) /\ n # 0
    BY <1>0
  <2>2. \A n \in 0 .. Len(s) : kept[n] = IF n = 0 THEN <<>> ELSE Step(kept[n - 1], n)
    BY <1>3
  <2> QED BY <2>1, <2>2
<1> DEFINE S == {n \in Nat : n <= Len(s) => Keeps(kept[n], s, e, n)}
<1>6. 0 \in S
  <2>1. <<>> \in Lists /\ Len(<<>>) = 0 /\ Elements(<<>>) = {} /\ NoRepeats(<<>>)
    BY DEF Lists, Elements, NoRepeats
  <2>2. {s[i] : i \in 1 .. 0} = {}
    OBVIOUS
  <2>3. Keeps(<<>>, s, e, 0)
    BY <2>1, <2>2 DEF Keeps
  <2> QED BY <1>5, <2>3
<1>7. ASSUME NEW n \in Nat, n \in S PROVE n + 1 \in S
  <2> SUFFICES ASSUME n + 1 <= Len(s) PROVE Keeps(kept[n + 1], s, e, n + 1)
    OBVIOUS
  <2>1. Keeps(kept[n], s, e, n)
    BY <1>0, <1>7
  <2>2. kept[n + 1] = Step(kept[n], n + 1)
    BY <1>0, <1>5
  <2> QED BY <2>1, <2>2, KeepsAppend
<1> HIDE DEF S
<1>8. Nat \subseteq S
  BY <1>6, <1>7, NatSetInduction
<1> QED BY <1>0, <1>4, <1>8 DEF S

\* What remove_event makes of a list: the event is gone, the others stay, once each.
LEMMA RemovedList ==
  ASSUME NEW s \in Lists, NEW e
  PROVE  /\ Removed(s, e) \in Lists
         /\ Len(Removed(s, e)) <= Len(s)
         /\ Elements(Removed(s, e)) = Elements(s) \ {e}
         /\ NoRepeats(s) => NoRepeats(Removed(s, e))
BY RemovedKeeps DEF Keeps, NoRepeats, Elements

\* What add_event makes of a list: the new event is in it, and it keeps its limit.
LEMMA AddedList ==
  ASSUME NEW s \in Lists, NEW e \in Events
  PROVE  /\ Added(s, e) \in Lists
         /\ Len(s) <= MaxQueue => Len(Added(s, e)) <= MaxQueue
         /\ Elements(Added(s, e)) \subseteq Elements(s) \cup {e}
         /\ e \in Elements(Added(s, e))
         /\ NoRepeats(s) /\ e \notin Elements(s) => NoRepeats(Added(s, e))
<1> DEFINE a == Append(s, e)
           n == Surplus(a)
           r == SubSeq(a, n + 1, Len(a))
<1>0. MaxQueue \in Nat /\ MaxQueue > 0 /\ Len(s) \in Nat
  BY SizesAssumption DEF Lists
<1>1. /\ a \in Seq(Events) /\ Len(a) = Len(s) + 1 /\ a[Len(s) + 1] = e
      /\ \A i \in 1 .. Len(s) : a[i] = s[i]
  BY DEF Lists
<1> HIDE DEF a
<1>2. n \in Nat /\ n < Len(a) /\ Len(a) - n <= MaxQueue
  BY <1>0, <1>1 DEF Surplus
<1> HIDE DEF n
<1>3. /\ r \in Seq(Events) /\ Len(r) = Len(a) - n
      /\ \A i \in 1 .. Len(r) : i + n \in 1 .. Len(a) /\ r[i] = a[i + n]
  BY <1>0, <1>1, <1>2
<1>4. Added(s, e) = r
  BY DEF Added, Without, a, n
<1> HIDE DEF r
<1>5. Elements(r) \subseteq Elements(s) \cup {e}
  BY <1>0, <1>1, <1>3 DEF Elements
<1>6. r[Len(r)] = e /\ Len(r) \in 1 .. Len(r)
  BY <1>0, <1>1, <1>2, <1>3
<1>7. ASSUME NoRepeats(s), e \notin Elements(s) PROVE NoRepeats(r)
  <2>1. \A i, j \in 1 .. Len(a) : a[i] = a[j] => i = j
    BY <1>0, <1>1, <1>7 DEF NoRepeats, Elements
  <2>2. ASSUME NEW i \in 1 .. Len(r), NEW j \in 1 .. Len(r), r[i] = r[j] PROVE i = j
    <3>1. i + n = j + n
      BY <1>3, <2>1, <2>2
    <3> QED BY <1>2, <1>3, <3>1
  <2> QED BY <2>2 DEF NoRepeats
<1> QED BY <1>2, <1>3, <1>4, <1>5, <1>6, <1>7 DEF Lists, Elements

\* What list_events answers is a list.
LEMMA NewestList == ASSUME NEW s \in Lists PROVE Newest(s) \in Lists
<1>1. MaxBatch \in Nat /\ Len(s) \in Nat
  BY SizesAssumption DEF Lists
<1> DEFINE n == IF Len(s) < MaxBatch THEN Len(s) ELSE MaxBatch
<1>2. n \in Nat /\ n <= Len(s)
  BY <1>1
<1> HIDE DEF n
<1>3. \A i \in 1 .. n : s[Len(s) + 1 - i] \in Events
  BY <1>1, <1>2 DEF Lists
<1>4. [i \in 1 .. n |-> s[Len(s) + 1 - i]] \in Seq(Events)
  BY <1>2, <1>3
<1> QED BY <1>4 DEF Newest, Lists, n

-----------------------------------------------------------------------------
(* The option and the copies of it: lists of captured events, without      *)
(* repetition and within the limit. A new event stands in no list yet, so  *)
(* that whatever copies are written over one another, each is such a list. *)

Fits(s, C) == Len(s) <= MaxQueue /\ NoRepeats(s) /\ Elements(s) \subseteq C

ListsInv ==
  /\ TypeOK
  /\ Fits(queue, captured)
  /\ \A p \in Processes : Fits(proc[p].copy, captured)

\* A process that has ended.
LEMMA IdleState == Idle \in ProcState /\ Idle.at = "idle" /\ Idle.copy = <<>> /\ Idle.batch = <<>>
BY DEF Idle, ProcState, Steps, Lists

\* The initial state.
LEMMA ListsInit == Init => ListsInv
<1> SUFFICES ASSUME Init PROVE ListsInv
  OBVIOUS
<1>1. proc \in [Processes -> ProcState] /\ \A p \in Processes : proc[p].copy = <<>>
  BY IdleState DEF Init
<1>2. Fits(<<>>, captured)
  BY SizesAssumption DEF Fits, NoRepeats, Elements
<1>3. admin \in 0 .. MaxAdmin /\ faults \in 0 .. MaxFaults
  BY BoundsAssumption DEF Init
<1>4. TypeOK
  <2>1. queue \in Lists /\ pending \in Nat
    BY DEF Init, Lists
  <2>2. recorded \in SUBSET Keys /\ captured \in SUBSET Events /\ dropped \in SUBSET Events
    BY DEF Init
  <2> QED BY <1>1, <1>3, <2>1, <2>2 DEF Init, TypeOK
<1> QED BY <1>1, <1>2, <1>4 DEF Init, ListsInv

\* A process that is replaced by one whose copy fits.
LEMMA ListsBecome ==
  ASSUME ListsInv, NEW p \in Processes, NEW state \in ProcState,
         proc' = [proc EXCEPT ![p] = state],
         captured \subseteq captured', Fits(state.copy, captured'), Fits(queue', captured')
  PROVE  /\ proc' \in [Processes -> ProcState]
         /\ Fits(queue', captured') /\ \A q \in Processes : Fits(proc'[q].copy, captured')
         /\ proc'[p] = state
         /\ \A q \in Processes \ {p} : proc'[q] = proc[q]
<1>1. proc \in [Processes -> ProcState]
  BY DEF ListsInv, TypeOK
<1>2. /\ proc' \in [Processes -> ProcState] /\ proc'[p] = state
      /\ \A q \in Processes \ {p} : proc'[q] = proc[q]
  BY <1>1
<1>3. ASSUME NEW q \in Processes \ {p} PROVE Fits(proc'[q].copy, captured')
  BY <1>2, <1>3 DEF ListsInv, Fits
<1>4. Fits(proc'[p].copy, captured')
  BY <1>2 DEF Fits
<1> QED BY <1>2, <1>3, <1>4

\* Each action, and what it writes.
LEMMA ListsNext == ListsInv /\ [Next]_vars => ListsInv'
<1> SUFFICES ASSUME ListsInv, [Next]_vars PROVE ListsInv'
  OBVIOUS
<1>t. /\ TypeOK /\ proc \in [Processes -> ProcState] /\ queue \in Lists /\ pending \in Nat
      /\ \A p \in Processes : /\ proc[p] \in ProcState /\ proc[p].copy \in Lists
                               /\ proc[p].batch \in Lists
  BY DEF ListsInv, TypeOK, ProcState
<1>f. Fits(queue, captured) /\ \A p \in Processes : Fits(proc[p].copy, captured)
  BY DEF ListsInv
<1>e. <<>> \in Lists /\ Len(<<>>) = 0 /\ Elements(<<>>) = {} /\ NoRepeats(<<>>)
  BY DEF Lists, Elements, NoRepeats
<1>0. Fits(<<>>, captured')
  BY <1>e, SizesAssumption DEF Fits
<1>s. ASSUME ScheduleDelivery PROVE pending' \in Nat /\ undriven' \in BOOLEAN
  <2>1. pending' \in Nat
    BY <1>s, <1>t DEF ScheduleDelivery
  <2> QED BY <1>s, <2>1 DEF ScheduleDelivery
<1>1. ASSUME NEW p \in Processes, Load(p) PROVE ListsInv'
  <2> DEFINE state == [at |-> "open", copy |-> queue, batch |-> <<>>]
  <2>1. state \in ProcState /\ proc' = [proc EXCEPT ![p] = state]
    BY <1>1, <1>t, <1>e DEF Load, ProcState, Steps
  <2>2. UNCHANGED <<configured, queue, pending, recorded, captured, dropped, crossed, undriven,
                    admin, faults>>
    BY <1>1 DEF Load, history
  <2>3. Fits(queue', captured') /\ Fits(state.copy, captured')
    BY <1>f, <2>2 DEF Fits
  <2> QED BY <1>t, <2>1, <2>2, <2>3, ListsBecome DEF ListsInv, TypeOK
<1>2. ASSUME NEW p \in Processes, NEW e \in Events, NEW test \in BOOLEAN, Capture(p, e, test)
      PROVE  ListsInv'
  <2> DEFINE s == Added(proc[p].copy, e)
             state == [at |-> IF test \/ ~configured THEN "open" ELSE "schedule",
                       copy |-> s, batch |-> <<>>]
  <2>1. /\ Write(p, s) /\ proc' = [proc EXCEPT ![p] = state]
        /\ e \notin captured /\ captured' = captured \cup {e}
        /\ dropped' = dropped \cup (Elements(proc[p].copy) \ Elements(s))
        /\ undriven' = (undriven \/ test \/ ~configured)
        /\ UNCHANGED <<configured, pending, recorded, admin, faults>>
    BY <1>2 DEF Capture
  <2>2. /\ s \in Lists /\ Len(s) <= MaxQueue /\ NoRepeats(s)
        /\ Elements(s) \subseteq Elements(proc[p].copy) \cup {e}
    BY <1>t, <1>f, <2>1, AddedList DEF Fits
  <2>3. state \in ProcState
    BY <1>e, <2>2 DEF ProcState, Steps
  <2>4. Fits(s, captured')
    BY <1>f, <2>1, <2>2 DEF Fits
  <2>5. queue' \in {queue, s} /\ crossed' \in BOOLEAN
    BY <1>t, <2>1 DEF Write, TypeOK
  <2>6. Fits(queue', captured')
    BY <1>f, <2>1, <2>4, <2>5 DEF Fits
  <2>7. Elements(proc[p].copy) \subseteq captured
    BY <1>f DEF Fits
  <2> HIDE DEF s
  <2>8. captured \subseteq captured' /\ state.copy = s
    BY <2>1
  <2>9. /\ proc' \in [Processes -> ProcState]
        /\ \A q \in Processes : Fits(proc'[q].copy, captured')
    BY <2>1, <2>3, <2>4, <2>6, <2>8, ListsBecome
  <2> QED BY <1>t, <2>1, <2>2, <2>5, <2>6, <2>7, <2>9 DEF ListsInv, TypeOK
<1>3. ASSUME NEW p \in Processes, Clear(p) PROVE ListsInv'
  <2> DEFINE state == [proc[p] EXCEPT !.copy = <<>>]
  <2>1. /\ Write(p, <<>>) /\ proc' = [proc EXCEPT ![p] = state]
        /\ admin < MaxAdmin /\ admin' = admin + 1
        /\ dropped' = dropped \cup Elements(proc[p].copy)
        /\ UNCHANGED <<configured, pending, recorded, captured, undriven, faults>>
    BY <1>3 DEF Clear
  <2>2. state \in ProcState /\ state.copy = <<>>
    BY <1>t, <1>e DEF ProcState
  <2>3. queue' \in {queue, <<>>} /\ crossed' \in BOOLEAN
    BY <1>t, <2>1 DEF Write, TypeOK
  <2>4. Fits(queue', captured')
    BY <1>f, <1>0, <2>1, <2>3 DEF Fits
  <2>5. Elements(proc[p].copy) \subseteq captured
    BY <1>f DEF Fits
  <2>6. admin' \in 0 .. MaxAdmin
    BY <1>t, <2>1, BoundsAssumption DEF TypeOK
  <2>7. /\ proc' \in [Processes -> ProcState]
        /\ \A q \in Processes : Fits(proc'[q].copy, captured')
    BY <1>0, <2>1, <2>2, <2>4, ListsBecome
  <2> QED BY <1>t, <1>e, <2>1, <2>3, <2>4, <2>5, <2>6, <2>7 DEF ListsInv, TypeOK
\* Steps that keep the copy of the process, or end it.
<1>4. ASSUME NEW p \in Processes, NEW step \in Steps,
             End(p) \/ Goto(p, step),
             UNCHANGED <<configured, queue, captured, dropped, crossed, admin>>,
             pending' \in Nat, undriven' \in BOOLEAN, recorded' \in SUBSET Keys,
             faults' \in 0 .. MaxFaults
      PROVE  ListsInv'
  <2>1. PICK state \in ProcState : /\ proc' = [proc EXCEPT ![p] = state]
                                   /\ state.copy \in {<<>>, proc[p].copy}
    <3>1. CASE End(p)
      BY <3>1, IdleState DEF End
    <3>2. CASE Goto(p, step)
      <4>1. [proc[p] EXCEPT !.at = step] \in ProcState
        BY <1>t DEF ProcState
      <4>2. [proc[p] EXCEPT !.at = step].copy = proc[p].copy
        BY <1>t DEF ProcState
      <4> QED BY <3>2, <4>1, <4>2 DEF Goto
    <3> QED BY <1>4, <3>1, <3>2
  <2>2. Fits(queue', captured') /\ Fits(state.copy, captured')
    BY <1>4, <1>f, <1>0, <2>1 DEF Fits
  <2>3. /\ proc' \in [Processes -> ProcState]
        /\ \A q \in Processes : Fits(proc'[q].copy, captured')
    BY <1>4, <2>1, <2>2, ListsBecome
  <2> QED BY <1>4, <1>t, <2>2, <2>3 DEF ListsInv, TypeOK
<1>5. ASSUME NEW p \in Processes,
             Schedule(p) \/ Finish(p) \/ RemovedAll(p) \/ Again(p) \/ Die(p)
      PROVE  ListsInv'
  <2>1. \E step \in Steps : End(p) \/ Goto(p, step)
    BY <1>5 DEF Schedule, Finish, RemovedAll, Again, Die, Steps
  <2>2. UNCHANGED <<configured, queue, captured, dropped, crossed, admin>>
    BY <1>5 DEF Schedule, Finish, RemovedAll, Again, Die, history
  <2>3. pending' \in Nat /\ undriven' \in BOOLEAN
    BY <1>5, <1>s, <1>t DEF Schedule, Finish, RemovedAll, Again, Die, history, TypeOK
  <2>4. recorded' \in SUBSET Keys /\ faults' \in 0 .. MaxFaults
    BY <1>5, <1>t, BoundsAssumption DEF Schedule, Finish, RemovedAll, Again, Die, TypeOK
  <2> QED BY <1>4, <2>1, <2>2, <2>3, <2>4
<1>6. ASSUME NEW p \in Processes, Deliver(p) PROVE ListsInv'
  <2>1. /\ pending' = pending - 1 /\ pending > 0 /\ undriven' \in BOOLEAN
        /\ UNCHANGED <<configured, queue, recorded, captured, dropped, crossed, admin, faults>>
    BY <1>6, <1>t DEF Deliver, TypeOK
  <2>2. pending' \in Nat
    BY <1>t, <2>1
  <2>3. Fits(queue', captured')
    BY <1>f, <2>1 DEF Fits
  <2>4. CASE proc' = proc
    <3>1. \A q \in Processes : Fits(proc'[q].copy, captured')
      BY <1>f, <2>1, <2>4 DEF Fits
    <3> QED BY <1>t, <2>1, <2>2, <2>3, <2>4, <3>1 DEF ListsInv, TypeOK
  <2>5. CASE proc' = [proc EXCEPT ![p] = [at |-> "post", copy |-> queue, batch |-> Newest(queue)]]
    <3> DEFINE state == [at |-> "post", copy |-> queue, batch |-> Newest(queue)]
    <3>1. state \in ProcState
      BY <1>t, NewestList DEF ProcState, Steps
    <3>2. /\ proc' \in [Processes -> ProcState]
          /\ \A q \in Processes : Fits(proc'[q].copy, captured')
      BY <2>1, <2>3, <2>5, <3>1, ListsBecome DEF Fits
    <3> QED BY <1>t, <2>1, <2>2, <2>3, <3>2 DEF ListsInv, TypeOK
  <2> QED BY <1>6, <2>4, <2>5 DEF Deliver
<1>7. ASSUME NEW p \in Processes, Post(p) PROVE ListsInv'
  <2>1. PICK n \in 0 .. Len(proc[p].batch), ok \in BOOLEAN :
          /\ ok \/ faults < MaxFaults
          /\ faults' = IF ok THEN faults ELSE faults + 1
          /\ Record(p, n)
          /\ Goto(p, IF ok THEN "remove" ELSE "again")
    BY <1>7 DEF Post
  <2>2. faults' \in 0 .. MaxFaults
    BY <1>t, <2>1, BoundsAssumption DEF TypeOK
  <2>3. \A i \in 1 .. n : KeyOf[proc[p].batch[i]] \in Keys
    BY <1>t, <2>1, KeysAssumption DEF Lists
  <2>4. recorded' \in SUBSET Keys
    BY <1>t, <2>1, <2>3 DEF Record, TypeOK
  <2>5. UNCHANGED <<configured, queue, pending, captured, dropped, crossed, undriven, admin>>
    BY <1>7 DEF Post, history
  <2>6. \E step \in Steps : Goto(p, step)
    BY <2>1 DEF Steps
  <2> QED BY <1>4, <1>t, <2>2, <2>4, <2>5, <2>6 DEF TypeOK
<1>8. ASSUME NEW p \in Processes, Remove(p) PROVE ListsInv'
  <2> DEFINE s == Removed(proc[p].copy, Head(proc[p].batch))
             state == [at |-> "remove", copy |-> s, batch |-> Tail(proc[p].batch)]
  <2>1. /\ Write(p, s) /\ proc' = [proc EXCEPT ![p] = state] /\ proc[p].batch # <<>>
        /\ UNCHANGED <<configured, pending, recorded, captured, dropped, undriven, admin, faults>>
    BY <1>8 DEF Remove
  <2>2. s \in Lists /\ Len(s) <= Len(proc[p].copy) /\ NoRepeats(s) /\ Elements(s) \subseteq captured
    BY <1>t, <1>f, RemovedList DEF Fits
  <2>3. Tail(proc[p].batch) \in Lists
    BY <1>t, <2>1 DEF Lists
  <2>4. state \in ProcState
    BY <2>2, <2>3 DEF ProcState, Steps
  <2>5. Fits(s, captured')
    <3>1. Len(s) \in Nat /\ Len(proc[p].copy) \in Nat /\ Len(proc[p].copy) <= MaxQueue
      BY <1>t, <1>f, <2>2 DEF Lists, Fits
    <3> HIDE DEF s
    <3> QED BY <2>1, <2>2, <3>1, SizesAssumption DEF Fits
  <2>6. queue' \in {queue, s} /\ crossed' \in BOOLEAN
    BY <1>t, <2>1 DEF Write, TypeOK
  <2>7. Fits(queue', captured')
    BY <1>f, <2>1, <2>5, <2>6 DEF Fits
  <2> HIDE DEF s
  <2>8. /\ proc' \in [Processes -> ProcState]
        /\ \A q \in Processes : Fits(proc'[q].copy, captured')
    BY <2>1, <2>4, <2>5, <2>7, ListsBecome
  <2> QED BY <1>t, <2>1, <2>2, <2>6, <2>7, <2>8 DEF ListsInv, TypeOK
<1>9. CASE Configure \/ UNCHANGED vars
  <2>1. UNCHANGED <<queue, pending, proc, recorded, captured, dropped, crossed, undriven, faults>>
    BY <1>9 DEF Configure, vars, history
  <2>2. configured' \in BOOLEAN /\ admin' \in 0 .. MaxAdmin
    <3>1. CASE Configure
      <4>1. admin' \in 0 .. MaxAdmin
        BY <3>1, <1>t, BoundsAssumption DEF Configure, TypeOK
      <4> QED BY <3>1, <4>1 DEF Configure
    <3>2. CASE UNCHANGED vars
      BY <3>2, <1>t DEF vars, TypeOK
    <3> QED BY <1>9, <3>1, <3>2
  <2> QED BY <1>t, <1>f, <2>1, <2>2 DEF ListsInv, TypeOK, Fits
<1> QED BY <1>1, <1>2, <1>3, <1>5, <1>6, <1>7, <1>8, <1>9 DEF Next, Request, Proceed

-----------------------------------------------------------------------------
(* Deliveries. A process that removes events has had an answer that stands *)
(* for every one of its batch; a process that writes while nothing was     *)
(* crossed writes over the list it has read.                               *)

Backed(p) == \A i \in 1 .. Len(proc[p].batch) : KeyOf[proc[p].batch[i]] \in recorded

DeliveryInv ==
  /\ \A p \in Processes : proc[p].at = "remove" => Backed(p)
  /\ CapturedIsKept

\* Each action, and the events it accounts for.
LEMMA DeliveryNext == ListsInv /\ DeliveryInv /\ [Next]_vars => DeliveryInv'
<1> SUFFICES ASSUME ListsInv, DeliveryInv, [Next]_vars PROVE DeliveryInv'
  OBVIOUS
<1>t. /\ proc \in [Processes -> ProcState] /\ queue \in Lists
      /\ \A p \in Processes : /\ proc[p] \in ProcState /\ proc[p].copy \in Lists
                               /\ proc[p].batch \in Lists
  BY DEF ListsInv, TypeOK, ProcState
<1>b. ASSUME NEW p \in Processes, NEW state \in ProcState, proc' = [proc EXCEPT ![p] = state],
             recorded \subseteq recorded',
             state.at = "remove" => \A i \in 1 .. Len(state.batch) : KeyOf[state.batch[i]] \in recorded'
      PROVE  \A q \in Processes : proc'[q].at = "remove" => Backed(q)'
  <2>1. proc'[p] = state /\ \A q \in Processes \ {p} : proc'[q] = proc[q]
    BY <1>b, <1>t
  <2> QED BY <1>b, <2>1 DEF DeliveryInv, Backed
\* What a process makes of its copy is written over what is stored.
<1>w. ASSUME NEW p \in Processes, NEW s, Write(p, s), recorded \subseteq recorded',
             dropped \subseteq dropped',
             \A e \in captured' : e \in captured \/ e \in Elements(s),
             \A e \in Elements(proc[p].copy) :
               e \in Elements(s) \/ KeyOf[e] \in recorded' \/ e \in dropped'
      PROVE  CapturedIsKept'
  <2> SUFFICES ASSUME ~crossed', NEW e \in captured'
               PROVE  e \in Elements(queue') \/ KeyOf[e] \in recorded' \/ e \in dropped'
    BY DEF CapturedIsKept, Elements
  <2>1. ~crossed
    BY <1>w DEF Write
  <2>2. ASSUME e \in captured
        PROVE  e \in Elements(queue) \/ KeyOf[e] \in recorded' \/ e \in dropped'
    BY <1>w, <2>1, <2>2 DEF DeliveryInv, CapturedIsKept
  <2>3. CASE s = proc[p].copy
    <3>1. queue' = queue
      BY <1>w, <2>3 DEF Write
    <3>2. e \in captured
      BY <1>w, <2>3 DEF ListsInv, Fits
    <3> QED BY <2>2, <3>1, <3>2
  <2>4. CASE s # proc[p].copy /\ e \in Elements(s)
    <3>1. queue' = s
      BY <1>w, <2>4 DEF Write
    <3> QED BY <2>4, <3>1
  <2>5. CASE s # proc[p].copy /\ e \notin Elements(s)
    <3>1. queue = s \/ queue = proc[p].copy
      BY <1>w, <2>5 DEF Write
    <3>2. e \in captured
      BY <1>w, <2>5
    <3> QED BY <1>w, <2>2, <2>5, <3>1, <3>2
  <2> QED BY <2>3, <2>4, <2>5
<1>u. ASSUME UNCHANGED <<queue, captured, dropped, crossed>>, recorded \subseteq recorded'
      PROVE  CapturedIsKept'
  BY <1>u DEF DeliveryInv, CapturedIsKept, Elements
<1>1. ASSUME NEW p \in Processes, NEW e \in Events, NEW test \in BOOLEAN, Capture(p, e, test)
      PROVE  DeliveryInv'
  <2> DEFINE s == Added(proc[p].copy, e)
             state == [at |-> IF test \/ ~configured THEN "open" ELSE "schedule",
                       copy |-> s, batch |-> <<>>]
  <2>1. /\ Write(p, s) /\ proc' = [proc EXCEPT ![p] = state]
        /\ captured' = captured \cup {e} /\ recorded' = recorded
        /\ dropped' = dropped \cup (Elements(proc[p].copy) \ Elements(s))
    BY <1>1 DEF Capture
  <2>2. s \in Lists /\ e \in Elements(s)
    BY <1>t, AddedList
  <2>3. state \in ProcState /\ state.at # "remove"
    BY <2>2 DEF ProcState, Steps, Lists
  <2>4. CapturedIsKept'
    BY <1>w, <2>1, <2>2
  <2>5. \A q \in Processes : proc'[q].at = "remove" => Backed(q)'
    BY <1>b, <2>1, <2>3
  <2> QED BY <2>4, <2>5 DEF DeliveryInv
<1>2. ASSUME NEW p \in Processes, Clear(p) PROVE DeliveryInv'
  <2> DEFINE state == [proc[p] EXCEPT !.copy = <<>>]
  <2>1. /\ Write(p, <<>>) /\ proc' = [proc EXCEPT ![p] = state] /\ proc[p].at = "open"
        /\ dropped' = dropped \cup Elements(proc[p].copy)
        /\ UNCHANGED <<recorded, captured>>
    BY <1>2 DEF Clear
  <2>2. state \in ProcState /\ state.at # "remove"
    <3>1. <<>> \in Lists
      BY DEF Lists
    <3>2. state \in ProcState /\ state.at = proc[p].at
      BY <1>t, <3>1 DEF ProcState
    <3> QED BY <2>1, <3>2
  <2>3. CapturedIsKept'
    BY <1>w, <2>1
  <2>4. \A q \in Processes : proc'[q].at = "remove" => Backed(q)'
    BY <1>b, <2>1, <2>2
  <2> QED BY <2>3, <2>4 DEF DeliveryInv
<1>3. ASSUME NEW p \in Processes, Remove(p) PROVE DeliveryInv'
  <2> DEFINE first == Head(proc[p].batch)
             s == Removed(proc[p].copy, first)
             state == [at |-> "remove", copy |-> s, batch |-> Tail(proc[p].batch)]
  <2>1. /\ Write(p, s) /\ proc' = [proc EXCEPT ![p] = state]
        /\ proc[p].at = "remove" /\ proc[p].batch # <<>>
        /\ UNCHANGED <<recorded, captured, dropped>>
    BY <1>3 DEF Remove
  <2>2. s \in Lists /\ Elements(s) = Elements(proc[p].copy) \ {first}
    BY <1>t, RemovedList
  <2>3. /\ Tail(proc[p].batch) \in Lists /\ Len(proc[p].batch) \in Nat
        /\ 1 \in 1 .. Len(proc[p].batch) /\ first = proc[p].batch[1]
        /\ \A i \in 1 .. Len(Tail(proc[p].batch)) :
             /\ i + 1 \in 1 .. Len(proc[p].batch)
             /\ Tail(proc[p].batch)[i] = proc[p].batch[i + 1]
    BY <1>t, <2>1 DEF Lists
  <2>4. Backed(p)
    BY <2>1 DEF DeliveryInv
  <2>5. KeyOf[first] \in recorded
    BY <2>3, <2>4 DEF Backed
  <2>6. \A i \in 1 .. Len(Tail(proc[p].batch)) : KeyOf[Tail(proc[p].batch)[i]] \in recorded
    BY <2>3, <2>4 DEF Backed
  <2>7. state \in ProcState
    BY <2>2, <2>3 DEF ProcState, Steps
  <2>8. CapturedIsKept'
    BY <1>w, <2>1, <2>2, <2>5
  <2>9. \A q \in Processes : proc'[q].at = "remove" => Backed(q)'
    BY <1>b, <2>1, <2>6, <2>7
  <2> QED BY <2>8, <2>9 DEF DeliveryInv
<1>4. ASSUME NEW p \in Processes, Post(p) PROVE DeliveryInv'
  <2>1. PICK n \in 0 .. Len(proc[p].batch), ok \in BOOLEAN :
          /\ ok => n = Len(proc[p].batch)
          /\ Record(p, n)
          /\ Goto(p, IF ok THEN "remove" ELSE "again")
    BY <1>4 DEF Post
  <2> DEFINE state == [proc[p] EXCEPT !.at = IF ok THEN "remove" ELSE "again"]
  <2>2. UNCHANGED <<queue, captured, dropped, crossed>> /\ recorded \subseteq recorded'
    BY <1>4, <2>1 DEF Post, history, Record
  <2>3. /\ state \in ProcState /\ state.at = IF ok THEN "remove" ELSE "again"
        /\ state.batch = proc[p].batch
    BY <1>t DEF ProcState, Steps
  <2>4. proc' = [proc EXCEPT ![p] = state]
    BY <2>1 DEF Goto
  <2>5. ok => \A i \in 1 .. Len(proc[p].batch) : KeyOf[proc[p].batch[i]] \in recorded'
    BY <2>1 DEF Record
  <2>6. state.at = "remove" => \A i \in 1 .. Len(state.batch) : KeyOf[state.batch[i]] \in recorded'
    BY <2>3, <2>5
  <2> HIDE DEF state
  <2>7. \A q \in Processes : proc'[q].at = "remove" => Backed(q)'
    BY <1>b, <2>2, <2>3, <2>4, <2>6
  <2> QED BY <1>u, <2>2, <2>7 DEF DeliveryInv
\* The other steps write nothing, and none of them begins to remove.
<1>5. ASSUME NEW p \in Processes,
             \/ Load(p) \/ Schedule(p) \/ Finish(p) \/ Deliver(p) \/ RemovedAll(p) \/ Again(p)
             \/ Die(p)
      PROVE  DeliveryInv'
  <2>1. UNCHANGED <<queue, recorded, captured, dropped, crossed>>
    BY <1>5 DEF Load, Schedule, Finish, Deliver, RemovedAll, Again, Die, history
  <2>2. \/ proc' = proc
        \/ \E state \in ProcState : state.at # "remove" /\ proc' = [proc EXCEPT ![p] = state]
    <3>1. CASE Load(p)
      <4> DEFINE state == [at |-> "open", copy |-> queue, batch |-> <<>>]
      <4>1. state \in ProcState /\ state.at # "remove"
        BY <1>t DEF ProcState, Steps, Lists
      <4>2. proc' = [proc EXCEPT ![p] = state]
        BY <3>1 DEF Load
      <4> QED BY <4>1, <4>2
    <3>2. CASE Deliver(p)
      <4> DEFINE state == [at |-> "post", copy |-> queue, batch |-> Newest(queue)]
      <4>1. state \in ProcState /\ state.at # "remove"
        BY <1>t, NewestList DEF ProcState, Steps
      <4>2. proc' = proc \/ proc' = [proc EXCEPT ![p] = state]
        BY <3>2 DEF Deliver
      <4> QED BY <4>1, <4>2
    <3>3. CASE Schedule(p) \/ RemovedAll(p)
      <4>1. PICK step \in {"open", "again"} : Goto(p, step)
        BY <3>3 DEF Schedule, RemovedAll
      <4> DEFINE state == [proc[p] EXCEPT !.at = step]
      <4>2. state \in ProcState /\ state.at # "remove"
        BY <1>t DEF ProcState, Steps
      <4>3. proc' = [proc EXCEPT ![p] = state]
        BY <4>1 DEF Goto
      <4> QED BY <4>2, <4>3
    <3>4. CASE Finish(p) \/ Again(p) \/ Die(p)
      BY <3>4, IdleState DEF Finish, Again, Die, End
    <3> QED BY <1>5, <3>1, <3>2, <3>3, <3>4
  <2>3. \A q \in Processes : proc'[q].at = "remove" => Backed(q)'
    <3>1. CASE proc' = proc
      BY <2>1, <3>1 DEF DeliveryInv, Backed
    <3>2. ASSUME NEW state \in ProcState, state.at # "remove", proc' = [proc EXCEPT ![p] = state]
          PROVE  \A q \in Processes : proc'[q].at = "remove" => Backed(q)'
      BY <1>b, <2>1, <3>2
    <3> QED BY <2>2, <3>1, <3>2
  <2> QED BY <1>u, <2>1, <2>3 DEF DeliveryInv
<1>6. CASE Configure \/ UNCHANGED vars
  <2>1. UNCHANGED <<queue, proc, recorded, captured, dropped, crossed>>
    BY <1>6 DEF Configure, vars, history
  <2> QED BY <1>u, <2>1 DEF DeliveryInv, Backed
<1> QED BY <1>1, <1>2, <1>3, <1>4, <1>5, <1>6 DEF Next, Request, Proceed

\* At first nothing is captured.
LEMMA DeliveryInit == Init => DeliveryInv
BY IdleState DEF Init, DeliveryInv, CapturedIsKept

\* Lists and deliveries together.
LEMMA QueueCorrect == Spec => [](ListsInv /\ DeliveryInv)
BY ListsInit, DeliveryInit, ListsNext, DeliveryNext, PTL DEF Spec

\* Every state of the plugin's event queue is of its type: what the copies of the
\* processes, the batches and the option hold are lists of events (class-wcos-event-
\* store.php, class-wcos-event-deliverer.php), for any number of processes.
THEOREM TypeCorrect == Spec => []TypeOK
BY QueueCorrect, PTL DEF ListsInv

\* QueueIsASet, for any processes, events and limit: read, append, cut and write
\* back (class-wcos-event-store.php, add_event and remove_event) by processes that
\* overwrite one another never repeats an event and never passes MAX_QUEUE.
THEOREM QueueIsASetHolds == Spec => []QueueIsASet
<1>1. ListsInv => QueueIsASet
  BY DEF ListsInv, Fits, NoRepeats, QueueIsASet
<1> QED BY <1>1, QueueCorrect, PTL

\* CapturedIsKept, for any processes, events, batch size, failures and clears: as
\* long as no process overwrote what another had written, an event leaves the
\* queue only for the backend's table or on purpose (class-wcos-event-deliverer.php
\* removes what was acknowledged).
THEOREM CapturedIsKeptHolds == Spec => []CapturedIsKept
<1>1. DeliveryInv => CapturedIsKept
  BY DEF DeliveryInv
<1> QED BY <1>1, QueueCorrect, PTL

-----------------------------------------------------------------------------
(* A process that is at work drives the queue only while its own copy      *)
(* holds an event, or while it is about to schedule: one whose copy is     *)
(* empty schedules nothing. When it wrote that copy it emptied the queue,  *)
(* so that whoever captured an event since is there to schedule.           *)
Drives(p) ==
  \/ proc[p].at = "schedule"
  \/ proc[p].at \in {"post", "remove", "again"} /\ proc[p].copy # <<>>

PlacesOK == proc = [p \in Processes |-> proc[p]] /\ pending \in Nat

Driven == queue # <<>> /\ ~undriven => pending > 0 \/ \E p \in Processes : Drives(p)

DriveInv == PlacesOK /\ Driven

\* A process that is replaced leaves the others alone.
LEMMA ProcBecomes ==
  ASSUME PlacesOK, NEW p \in Processes, NEW state, proc' = [proc EXCEPT ![p] = state]
  PROVE  /\ proc' = [q \in Processes |-> proc'[q]]
         /\ proc'[p] = state
         /\ \A q \in Processes \ {p} : proc'[q] = proc[q]
BY DEF PlacesOK

\* Whoever drives goes on, whatever another process does.
LEMMA OthersDrive ==
  ASSUME NEW p \in Processes, \A q \in Processes \ {p} : proc'[q] = proc[q]
  PROVE  \A q \in Processes \ {p} : Drives(q)' <=> Drives(q)
BY DEF Drives

LEMMA DriveNext == DriveInv /\ [Next]_vars => DriveInv'
<1> SUFFICES ASSUME DriveInv, [Next]_vars PROVE DriveInv'
  OBVIOUS
<1>1. PlacesOK /\ Driven
  BY DEF DriveInv
\* A process that drove no longer may stop when nothing is left, or when it
\* has scheduled; one that was replaced by a driver leaves nothing undone.
<1>2. ASSUME NEW p \in Processes, NEW state, proc' = [proc EXCEPT ![p] = state],
             pending' \in Nat,
             \/ queue' = <<>>
             \/ undriven'
             \/ pending' > 0
             \/ Drives(p)'
             \/ /\ queue' = queue /\ (undriven => undriven') /\ pending' = pending
                /\ ~Drives(p)
      PROVE  DriveInv'
  <2>1. /\ proc' = [q \in Processes |-> proc'[q]]
        /\ \A q \in Processes \ {p} : proc'[q] = proc[q]
    BY <1>1, <1>2, ProcBecomes
  <2>2. \A q \in Processes \ {p} : Drives(q)' <=> Drives(q)
    BY <2>1, OthersDrive
  <2>3. Driven'
    BY <1>1, <1>2, <2>2 DEF Driven
  <2> QED BY <1>2, <2>1, <2>3 DEF DriveInv, PlacesOK
<1>3. ASSUME ScheduleDelivery PROVE pending' \in Nat /\ pending' > 0
  BY <1>1, <1>3 DEF ScheduleDelivery, PlacesOK
<1>4. CASE \E p \in Processes : Request(p)
  <2> PICK p \in Processes : Request(p)
    BY <1>4
  <2>1. CASE Load(p)
    <3>1. ~Drives(p)
      BY <2>1 DEF Load, Drives
    <3> QED BY <1>1, <1>2, <2>1, <3>1 DEF Load, history, PlacesOK
  <2>2. CASE Clear(p)
    <3>1. /\ queue' \in {queue, <<>>} /\ UNCHANGED <<pending, undriven>>
          /\ proc' = [proc EXCEPT ![p] = [proc[p] EXCEPT !.copy = <<>>]]
      BY <2>2 DEF Clear, Write
    <3>2. ~Drives(p)
      BY <2>2 DEF Clear, Drives
    <3> QED BY <1>1, <1>2, <3>1, <3>2 DEF PlacesOK
  <2>3. ASSUME NEW e \in Events, NEW test \in BOOLEAN, Capture(p, e, test)
        PROVE  DriveInv'
    <3> DEFINE state == [at |-> IF test \/ ~configured THEN "open" ELSE "schedule",
                         copy |-> Added(proc[p].copy, e), batch |-> <<>>]
    <3>1. proc' = [proc EXCEPT ![p] = state]
      BY <2>3 DEF Capture
    <3>2. pending' = pending /\ undriven' = (undriven \/ test \/ ~configured)
      BY <2>3 DEF Capture
    <3>3. proc'[p] = state
      BY <1>1, <3>1, ProcBecomes
    <3>4. undriven' \/ Drives(p)'
      <4>1. CASE test \/ ~configured
        BY <3>2, <4>1
      <4>2. CASE ~(test \/ ~configured)
        <5>1. proc'[p].at = "schedule"
          BY <3>3, <4>2
        <5> QED BY <5>1 DEF Drives
      <4> QED BY <4>1, <4>2
    <3> QED BY <1>1, <1>2, <3>1, <3>2, <3>4 DEF PlacesOK
  <2> QED BY <2>1, <2>2, <2>3 DEF Request
<1>5. CASE \E p \in Processes : Deliver(p)
  <2> PICK p \in Processes : Deliver(p)
    BY <1>5
  <2>1. /\ proc[p].at = "idle" /\ pending > 0 /\ pending' = pending - 1
        /\ UNCHANGED <<configured, queue>>
        /\ undriven' = (undriven \/ ~configured)
    BY DEF Deliver
  <2>2. pending' \in Nat
    BY <1>1, <2>1 DEF PlacesOK
  <2>3. CASE configured /\ queue # <<>>
    <3> DEFINE state == [at |-> "post", copy |-> queue, batch |-> Newest(queue)]
    <3>1. proc' = [proc EXCEPT ![p] = state]
      BY <2>3 DEF Deliver
    <3>2. proc'[p] = state
      BY <1>1, <3>1, ProcBecomes
    <3>3. Drives(p)'
      BY <2>3, <3>1, <3>2 DEF Drives
    <3> QED BY <1>2, <2>2, <3>1, <3>3
  <2>4. CASE ~(configured /\ queue # <<>>)
    <3>1. proc' = proc /\ (queue' = <<>> \/ undriven')
      BY <2>1, <2>4 DEF Deliver
    <3> QED BY <1>1, <2>2, <3>1 DEF DriveInv, PlacesOK, Driven
  <2> QED BY <2>3, <2>4
<1>6. CASE \E p \in Processes : Proceed(p)
  <2> PICK p \in Processes : Proceed(p)
    BY <1>6
  <2>1. CASE Schedule(p)
    BY <1>2, <1>3, <2>1 DEF Schedule, Goto
  <2>2. CASE Finish(p)
    <3>1. ~Drives(p)
      BY <2>2 DEF Finish, Drives
    <3> QED BY <1>1, <1>2, <2>2, <3>1 DEF Finish, End, history, PlacesOK
  <2>3. ASSUME NEW step \in {"remove", "again"}, Goto(p, step),
               proc[p].at \in {"post", "remove"}, UNCHANGED <<queue, pending, undriven>>
        PROVE  DriveInv'
    <3>1. proc' = [proc EXCEPT ![p] = [proc[p] EXCEPT !.at = step]]
      BY <2>3 DEF Goto
    <3>2. proc'[p] = [proc[p] EXCEPT !.at = step]
      BY <1>1, <3>1, ProcBecomes
    <3>3. Drives(p) => Drives(p)'
      BY <2>3, <3>2 DEF Drives
    <3> QED BY <1>1, <1>2, <2>3, <3>1, <3>3 DEF PlacesOK
  <2>4. CASE Post(p)
    <3>1. \E step \in {"remove", "again"} : Goto(p, step)
      BY <2>4 DEF Post
    <3> QED BY <2>3, <2>4, <3>1 DEF Post, history
  <2>5. CASE RemovedAll(p)
    BY <2>3, <2>5 DEF RemovedAll, history
  <2>6. CASE Remove(p)
    <3>1. PICK s : /\ Write(p, s)
                   /\ proc' = [proc EXCEPT ![p] =
                                 [at |-> "remove", copy |-> s, batch |-> Tail(proc[p].batch)]]
      BY <2>6 DEF Remove
    <3>2. proc[p].at = "remove" /\ UNCHANGED <<pending, undriven>>
      BY <2>6 DEF Remove
    <3>3. proc'[p].at = "remove" /\ proc'[p].copy = s
      BY <1>1, <3>1, ProcBecomes
    <3>4. CASE s # <<>>
      BY <1>1, <1>2, <3>1, <3>2, <3>3, <3>4 DEF Drives, PlacesOK
    <3>5. CASE s = <<>>
      <4>1. queue' = <<>> \/ (queue' = queue /\ ~Drives(p))
        BY <3>1, <3>2, <3>5 DEF Write, Drives
      <4> QED BY <1>1, <1>2, <3>1, <3>2, <4>1 DEF PlacesOK
    <3> QED BY <3>4, <3>5
  <2>7. CASE Again(p)
    <3>1. proc[p].at = "again" /\ proc' = [proc EXCEPT ![p] = Idle] /\ queue' = queue
      BY <2>7 DEF Again, End
    <3>2. CASE proc[p].copy # <<>>
      BY <1>2, <1>3, <2>7, <3>1, <3>2 DEF Again
    <3>3. CASE proc[p].copy = <<>>
      <4>1. ~Drives(p) /\ UNCHANGED <<pending, undriven>>
        BY <2>7, <3>1, <3>3 DEF Again, Drives
      <4> QED BY <1>1, <1>2, <3>1, <4>1 DEF PlacesOK
    <3> QED BY <3>2, <3>3
  <2> QED BY <2>1, <2>2, <2>4, <2>5, <2>6, <2>7 DEF Proceed
<1>7. CASE \E p \in Processes : Die(p)
  <2> PICK p \in Processes : Die(p)
    BY <1>7
  <2>1. /\ proc' = [proc EXCEPT ![p] = Idle] /\ UNCHANGED <<queue, pending>>
        /\ undriven' = (undriven \/ proc[p].at # "open")
    BY DEF Die, End
  <2>2. undriven' \/ ((undriven => undriven') /\ ~Drives(p))
    BY <2>1 DEF Drives
  <2> QED BY <1>1, <1>2, <2>1, <2>2 DEF PlacesOK
<1>8. CASE Configure \/ UNCHANGED vars
  <2>1. UNCHANGED <<queue, pending, proc, undriven>>
    BY <1>8 DEF Configure, vars, history
  <2> QED BY <1>1, <2>1 DEF DriveInv, PlacesOK, Driven, Drives
<1> QED BY <1>4, <1>5, <1>6, <1>7, <1>8 DEF Next

\* EventsAreDriven, of any processes, events, limits, clears, settings and
\* failures: whichever copies overwrite one another, events that were captured
\* to be delivered are never left for nobody.
THEOREM EventsAreDrivenHolds == Spec => []EventsAreDriven
<1>1. Init => DriveInv
  BY DEF Init, DriveInv, PlacesOK, Driven
<1>2. DriveInv => EventsAreDriven
  BY DEF DriveInv, Driven, Drives, EventsAreDriven, Driving
<1> QED BY <1>1, <1>2, DriveNext, PTL DEF Spec
=============================================================================
