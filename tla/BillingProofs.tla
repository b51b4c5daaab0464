--------------------------- MODULE BillingProofs ---------------------------
(***************************************************************************)
(* Settlement, for any number of payments, overlapping requests, months    *)
(* and faults. The invariant says what a request knows at each step (Fits),*)
(* that at most one transaction holds an attempt (Exclusive), and what a   *)
(* billing_event (Row) and a processed webhook (Hook) stand for.           *)
(***************************************************************************)
EXTENDS Billing, FiniteSetTheorems, TLAPS

ProcState == [at : Step, ref : Refs, found : Nat]
Transaction == {"t_subscription", "t_commit"}

\* What a request whose record is x may rely on.
Fits(x) ==
  /\ x.at # "idle" => status[x.ref.attempt] # "none"
  /\ x.at \in {"w_ignore", "w_done"} => x.ref.via = "webhook"
  /\ x.at \in {"t_event", "t_subscription", "t_commit", "commission"}
       => x.ref.via = "webhook" \/ x.ref.attempt \in collected
  /\ x.at \in Transaction => events[x.ref] = 0
  /\ x.at = "t_commit" /\ x.found > 0 => subs > 0
  /\ x.at \in {"commission", "w_done"} => events[x.ref] > 0

Exclusive ==
  \A p, q \in Processes :
    /\ proc[p].at \in Transaction /\ proc[q].at \in Transaction
    /\ proc[p].ref.attempt = proc[q].ref.attempt
    => p = q

Row(k) ==
  /\ events[k] <= 1
  /\ events[k] > 0 => /\ subs > 0
                      /\ status[k.attempt] # "none"
                      /\ k.via = "webhook" \/ k.attempt \in collected

Hook(a) == webhook[a] = "processed" => events[[via |-> "webhook", attempt |-> a]] > 0

Rewarded ==
  faults = 0 /\ Settlements # {} =>
    \/ \E m \in 1 .. MaxPeriod : commissions[m] > 0
    \/ \E p \in Processes : proc[p].at = "commission"

BillingInv ==
  /\ TypeOK
  /\ \A p \in Processes : Fits(proc[p])
  /\ Exclusive
  /\ \A k \in Refs : Row(k)
  /\ \A a \in Attempts : Hook(a)
  /\ Rewarded

-----------------------------------------------------------------------------
\* The record of an idle request is well typed and knows nothing.
LEMMA IdleType == Idle \in ProcState /\ Idle.at = "idle" /\ Fits(Idle)
<1>1. NoRef \in Refs
  BY AttemptsAssumption DEF NoRef, Refs
<1> QED
  BY <1>1 DEF Idle, ProcState, Step, Fits, Transaction

LEMMA InitBilling == Init => BillingInv
<1> SUFFICES ASSUME Init PROVE BillingInv
  OBVIOUS
<1>1. TypeOK
  BY IdleType, BoundsAssumption
  DEF Init, TypeOK, AttemptStatus, WebhookStatus, ProcState
<1>2. \A p \in Processes : proc[p] = Idle
  BY DEF Init
<1>3. Exclusive
  BY <1>2, IdleType DEF Exclusive, Transaction
<1>4. \A k \in Refs : Row(k)
  BY DEF Init, Row
<1>5. \A a \in Attempts : Hook(a)
  BY DEF Init, Hook
<1>6. Rewarded
  BY DEF Init, Rewarded, Settlements
<1> QED
  BY <1>1, <1>2, <1>3, <1>4, <1>5, <1>6, IdleType DEF BillingInv

\* One request moves on outside a transaction, and no row changes: only what
\* its new record relies on has to be shown.
LEMMA MoveKeeps ==
  ASSUME BillingInv, NEW p \in Processes, NEW x \in ProcState,
         proc' = [proc EXCEPT ![p] = x],
         UNCHANGED <<status, collected, events, subs, commissions, webhook, period>>,
         faults' \in 0 .. MaxFaults,
         Fits(x), x.at \notin Transaction,
         faults' = 0 => faults = 0 /\ proc[p].at # "commission"
  PROVE  BillingInv'
<1>1. TypeOK'
  BY DEF BillingInv, TypeOK, ProcState
<1>2. \A q \in Processes : Fits(proc[q])'
  BY DEF BillingInv, TypeOK, Fits
<1>3. Exclusive'
  BY DEF BillingInv, TypeOK, Exclusive
<1>4. (\A k \in Refs : Row(k)') /\ (\A a \in Attempts : Hook(a)')
  BY DEF BillingInv, Row, Hook
<1>5. Rewarded'
  BY DEF BillingInv, TypeOK, Rewarded, Settlements
<1> QED
  BY <1>1, <1>2, <1>3, <1>4, <1>5 DEF BillingInv

\* What Goto leaves of a request's record.
LEMMA GotoType ==
  ASSUME BillingInv, NEW p \in Processes, NEW step \in Step
  PROVE  /\ [proc[p] EXCEPT !.at = step] \in ProcState
         /\ [proc[p] EXCEPT !.at = step].at = step
         /\ [proc[p] EXCEPT !.at = step].ref = proc[p].ref
         /\ [proc[p] EXCEPT !.at = step].found = proc[p].found
  BY DEF BillingInv, TypeOK, ProcState

LEMMA CheckoutKeeps ==
  ASSUME BillingInv, NEW a \in Attempts, Checkout(a) \/ Pay(a)
  PROVE  BillingInv'
<1>1. CASE Checkout(a)
  <2>1. TypeOK'
    BY <1>1 DEF BillingInv, TypeOK, Checkout, AttemptStatus
  <2>2. \A q \in Processes : Fits(proc[q])'
    BY <1>1 DEF BillingInv, TypeOK, Checkout, Fits
  <2>3. Exclusive' /\ (\A b \in Attempts : Hook(b)') /\ Rewarded'
    BY <1>1 DEF BillingInv, Checkout, Exclusive, Hook, Rewarded, Settlements
  <2>4. \A k \in Refs : Row(k)'
    BY <1>1 DEF BillingInv, TypeOK, Checkout, Row
  <2> QED
    BY <2>1, <2>2, <2>3, <2>4 DEF BillingInv
<1>2. CASE Pay(a)
  BY <1>2 DEF BillingInv, TypeOK, Pay, Fits, Exclusive, Row, Hook, Rewarded, Settlements
<1> QED
  BY <1>1, <1>2

LEMMA ArriveKeeps ==
  ASSUME BillingInv, NEW p \in Processes, Arrive(p)
  PROVE  BillingInv'
<1>1. ASSUME NEW a \in Attempts, VerifyRead(p, a) PROVE BillingInv'
  <2> DEFINE x == [at |-> "v_gateway", ref |-> [via |-> "ref_id", attempt |-> a],
                   found |-> 0]
  <2>1. x \in ProcState /\ Fits(x) /\ x.at \notin Transaction
    BY <1>1 DEF VerifyRead, ProcState, Step, Refs, Fits, Transaction
  <2>2. faults \in 0 .. MaxFaults
    BY DEF BillingInv, TypeOK
  <2> QED
    BY <1>1, <2>1, <2>2, MoveKeeps DEF VerifyRead
<1>2. ASSUME NEW a \in Attempts, NEW notice \in Notices, NEW verified \in Signatures,
             WebhookRecord(p, a, notice, verified)
      PROVE  BillingInv'
  <2> DEFINE x == [at |-> IF verified THEN "t_event" ELSE "w_ignore",
                   ref |-> [via |-> "webhook", attempt |-> a], found |-> 0]
  <2>1. /\ x \in ProcState /\ Fits(x) /\ x.at \notin Transaction
        /\ x.at # "commission"
        /\ proc' = [proc EXCEPT ![p] = x]
    BY <1>2 DEF WebhookRecord, ProcState, Step, Refs, Fits, Transaction
  <2>2. TypeOK'
    BY <1>2, <2>1 DEF BillingInv, TypeOK, WebhookRecord, WebhookStatus, ProcState
  <2>3. \A q \in Processes : Fits(proc[q])'
    BY <1>2, <2>1 DEF BillingInv, TypeOK, WebhookRecord, Fits
  <2>4. Exclusive'
    BY <2>1 DEF BillingInv, TypeOK, Exclusive
  <2>5. \A k \in Refs : Row(k)'
    BY <1>2 DEF BillingInv, WebhookRecord, Row
  <2>6. \A b \in Attempts : Hook(b)'
    BY <1>2 DEF BillingInv, TypeOK, WebhookRecord, Hook
  <2>7. Rewarded'
    BY <1>2, <2>1 DEF BillingInv, TypeOK, WebhookRecord, Rewarded, Settlements
  <2> QED
    BY <2>2, <2>3, <2>4, <2>5, <2>6, <2>7 DEF BillingInv
<1> QED
  BY <1>1, <1>2 DEF Arrive

\* Steps that change nothing but where the request stands.
LEMMA WalkKeeps ==
  ASSUME BillingInv, NEW p \in Processes,
         VerifyPaid(p) \/ VerifyNotPaid(p) \/ VerifyUnreachable(p) \/ SettleDuplicate(p)
  PROVE  BillingInv'
<1>0. faults \in 0 .. MaxFaults /\ proc[p] \in ProcState /\ Fits(proc[p])
  BY DEF BillingInv, TypeOK, ProcState
<1>1. CASE VerifyPaid(p)
  <2> PICK via \in Answers :
        proc' = [proc EXCEPT ![p] =
          [at |-> "t_event", ref |-> [via |-> via, attempt |-> @.ref.attempt], found |-> 0]]
    BY <1>1 DEF VerifyPaid
  <2> DEFINE x == [at |-> "t_event", ref |-> [via |-> via, attempt |-> proc[p].ref.attempt],
                   found |-> 0]
  <2>1. x \in ProcState /\ proc' = [proc EXCEPT ![p] = x]
    BY <1>0, AnswersAssumption DEF ProcState, Step, Refs
  <2>2. Fits(x) /\ x.at \notin Transaction
    BY <1>0, <1>1 DEF VerifyPaid, Fits, Transaction
  <2> QED
    BY <1>0, <1>1, <2>1, <2>2, MoveKeeps DEF VerifyPaid
<1>2. CASE VerifyNotPaid(p)
  <2> DEFINE x == [proc[p] EXCEPT !.at = "v_mark"]
  <2>1. x \in ProcState /\ x.at = "v_mark" /\ x.ref = proc[p].ref
    BY GotoType DEF Step
  <2>2. Fits(x) /\ x.at \notin Transaction
    BY <1>0, <1>2, <2>1 DEF VerifyNotPaid, Fits, Transaction
  <2> QED
    BY <1>0, <1>2, <2>1, <2>2, MoveKeeps DEF VerifyNotPaid, Goto
<1>3. CASE VerifyUnreachable(p)
  BY <1>0, <1>3, IdleType, MoveKeeps DEF VerifyUnreachable, Transaction
<1>4. CASE SettleDuplicate(p) /\ proc[p].ref.via = "webhook"
  <2> DEFINE x == [proc[p] EXCEPT !.at = "w_done"]
  <2>1. x \in ProcState /\ x.at = "w_done" /\ x.ref = proc[p].ref
    BY GotoType DEF Step
  <2>2. Fits(x) /\ x.at \notin Transaction
    BY <1>0, <1>4, <2>1 DEF SettleDuplicate, Fits, Transaction
  <2> QED
    BY <1>0, <1>4, <2>1, <2>2, MoveKeeps DEF SettleDuplicate, AfterSettlement, Goto
<1>5. CASE SettleDuplicate(p) /\ proc[p].ref.via # "webhook"
  BY <1>0, <1>5, IdleType, MoveKeeps DEF SettleDuplicate, AfterSettlement, Transaction
<1> QED
  BY <1>1, <1>2, <1>3, <1>4, <1>5

\* A failed payment is marked; the attempt exists, so it still does.
LEMMA VerifyMarkKeeps ==
  ASSUME BillingInv, NEW p \in Processes, VerifyMark(p)
  PROVE  BillingInv'
<1> DEFINE a == proc[p].ref.attempt
<1>1. a \in Attempts
  BY DEF BillingInv, TypeOK, Refs
<1>2. TypeOK'
  BY <1>1, IdleType DEF BillingInv, TypeOK, VerifyMark, AttemptStatus, ProcState
<1>3. \A q \in Processes : Fits(proc[q])'
  <2> SUFFICES ASSUME NEW q \in Processes PROVE Fits(proc[q])'
    OBVIOUS
  <2>1. CASE q = p
    BY <2>1, IdleType DEF BillingInv, TypeOK, VerifyMark, Fits, Transaction
  <2>2. CASE q # p
    BY <1>1, <2>2 DEF BillingInv, TypeOK, VerifyMark, Fits, Refs
  <2> QED
    BY <2>1, <2>2
<1>4. Exclusive'
  BY IdleType DEF BillingInv, TypeOK, VerifyMark, Exclusive, Transaction
<1>5. \A k \in Refs : Row(k)'
  BY <1>1 DEF BillingInv, TypeOK, VerifyMark, Row, Refs
<1>6. (\A b \in Attempts : Hook(b)') /\ Rewarded'
  BY DEF BillingInv, TypeOK, VerifyMark, Hook, Rewarded, Settlements
<1> QED
  BY <1>2, <1>3, <1>4, <1>5, <1>6 DEF BillingInv

\* The webhook's row is settled: processed only when its event is there.
LEMMA WebhookEndsKeeps ==
  ASSUME BillingInv, NEW p \in Processes, WebhookIgnore(p) \/ WebhookDone(p)
  PROVE  BillingInv'
<1> DEFINE a == proc[p].ref.attempt
<1>1. /\ a \in Attempts /\ proc[p].ref = [via |-> "webhook", attempt |-> a]
      /\ proc[p].at = "w_done" => events[proc[p].ref] > 0
  BY DEF BillingInv, TypeOK, Refs, Fits, WebhookIgnore, WebhookDone
<1>2. /\ proc' = [proc EXCEPT ![p] = Idle]
      /\ UNCHANGED <<status, collected, events, subs, commissions, period, faults>>
  BY DEF WebhookIgnore, WebhookDone
<1>3. TypeOK'
  <2>1. webhook' \in [Attempts -> WebhookStatus]
    BY <1>1 DEF BillingInv, TypeOK, WebhookIgnore, WebhookDone, WebhookStatus
  <2>2. proc' \in [Processes -> ProcState]
    BY <1>2, IdleType DEF BillingInv, TypeOK, ProcState
  <2> QED
    BY <1>2, <2>1, <2>2 DEF BillingInv, TypeOK, ProcState
<1>4. \A q \in Processes : Fits(proc[q])'
  BY <1>2, IdleType DEF BillingInv, TypeOK, Fits, Transaction
<1>5. Exclusive'
  BY <1>2, IdleType DEF BillingInv, TypeOK, Exclusive, Transaction
<1>6. \A k \in Refs : Row(k)'
  BY <1>2 DEF BillingInv, Row
<1>7. \A b \in Attempts : Hook(b)'
  BY <1>1, <1>2 DEF BillingInv, TypeOK, WebhookIgnore, WebhookDone, Hook
<1>8. Rewarded'
  BY <1>2 DEF BillingInv, TypeOK, WebhookIgnore, WebhookDone, Rewarded, Settlements
<1> QED
  BY <1>3, <1>4, <1>5, <1>6, <1>7, <1>8 DEF BillingInv

\* A transaction begins: nobody else holds the attempt, and no event with
\* this ref has been committed.
LEMMA SettleEventKeeps ==
  ASSUME BillingInv, NEW p \in Processes, SettleEvent(p)
  PROVE  BillingInv'
<1> DEFINE x == [proc[p] EXCEPT !.at = "t_subscription"]
<1>1. /\ x \in ProcState /\ x.at = "t_subscription" /\ x.ref = proc[p].ref
      /\ x.found = proc[p].found
      /\ proc' = [proc EXCEPT ![p] = x]
      /\ UNCHANGED <<status, collected, events, subs, commissions, webhook, period, faults>>
  BY GotoType DEF SettleEvent, Goto, Step
<1>2. TypeOK'
  BY <1>1 DEF BillingInv, TypeOK, ProcState
<1>3. \A q \in Processes : Fits(proc[q])'
  <2> SUFFICES ASSUME NEW q \in Processes PROVE Fits(proc[q])'
    OBVIOUS
  <2>1. CASE q = p
    BY <1>1, <2>1 DEF BillingInv, TypeOK, SettleEvent, Fits, Transaction
  <2>2. CASE q # p
    BY <1>1, <2>2 DEF BillingInv, TypeOK, Fits
  <2> QED
    BY <2>1, <2>2
<1>4. Exclusive'
  BY <1>1 DEF BillingInv, TypeOK, SettleEvent, Exclusive, AttemptLocked, InTransaction, Transaction
<1>5. (\A k \in Refs : Row(k)') /\ (\A a \in Attempts : Hook(a)')
  BY <1>1 DEF BillingInv, Row, Hook
<1>6. Rewarded'
  BY <1>1 DEF BillingInv, TypeOK, SettleEvent, Rewarded, Settlements
<1> QED
  BY <1>2, <1>3, <1>4, <1>5, <1>6 DEF BillingInv

LEMMA SettleSubscriptionKeeps ==
  ASSUME BillingInv, NEW p \in Processes, SettleSubscription(p)
  PROVE  BillingInv'
<1> DEFINE x == [proc[p] EXCEPT !.at = "t_commit", !.found = subs]
<1>1. /\ x \in ProcState /\ x.at = "t_commit" /\ x.ref = proc[p].ref
      /\ x.found = subs
      /\ proc' = [proc EXCEPT ![p] = x]
      /\ UNCHANGED <<status, collected, events, subs, commissions, webhook, period, faults>>
  BY DEF BillingInv, TypeOK, SettleSubscription, ProcState, Step
<1>2. TypeOK'
  BY <1>1 DEF BillingInv, TypeOK, ProcState
<1>3. \A q \in Processes : Fits(proc[q])'
  <2> SUFFICES ASSUME NEW q \in Processes PROVE Fits(proc[q])'
    OBVIOUS
  <2>1. CASE q = p
    BY <1>1, <2>1 DEF BillingInv, TypeOK, SettleSubscription, Fits, Transaction
  <2>2. CASE q # p
    BY <1>1, <2>2 DEF BillingInv, TypeOK, Fits
  <2> QED
    BY <2>1, <2>2
<1>4. Exclusive'
  BY <1>1 DEF BillingInv, TypeOK, SettleSubscription, Exclusive, Transaction
<1>5. (\A k \in Refs : Row(k)') /\ (\A a \in Attempts : Hook(a)')
  BY <1>1 DEF BillingInv, Row, Hook
<1>6. Rewarded'
  BY <1>1 DEF BillingInv, TypeOK, SettleSubscription, Rewarded, Settlements
<1> QED
  BY <1>2, <1>3, <1>4, <1>5, <1>6 DEF BillingInv

\* The commit: no other transaction holds the attempt, so no other request
\* relies on this ref's event being absent.
LEMMA SettleCommitKeeps ==
  ASSUME BillingInv, NEW p \in Processes, SettleCommit(p)
  PROVE  BillingInv'
<1> DEFINE x == [proc[p] EXCEPT !.at = "commission"]
<1>1. /\ x \in ProcState /\ x.at = "commission" /\ x.ref = proc[p].ref
      /\ proc' = [proc EXCEPT ![p] = x]
  BY GotoType DEF SettleCommit, Goto, Step
<1>2. /\ proc[p].ref \in Refs /\ proc[p].ref.attempt \in Attempts
      /\ Fits(proc[p]) /\ proc[p].at = "t_commit" /\ events[proc[p].ref] = 0
  BY DEF BillingInv, TypeOK, SettleCommit, Refs, Fits, Transaction
<1>3. /\ events' = [events EXCEPT ![proc[p].ref] = 1]
      /\ subs \in Nat /\ subs' \in Nat /\ subs' > 0 /\ subs' >= subs
      /\ status' = [status EXCEPT ![proc[p].ref.attempt] = "paid"]
      /\ UNCHANGED <<collected, commissions, webhook, period, faults>>
  BY <1>2 DEF BillingInv, TypeOK, SettleCommit, Fits
<1>4. TypeOK'
  <2>1. events' \in [Refs -> Nat] /\ status' \in [Attempts -> AttemptStatus]
    BY <1>2, <1>3 DEF BillingInv, TypeOK, AttemptStatus
  <2> QED
    BY <1>1, <1>3, <2>1 DEF BillingInv, TypeOK, ProcState
<1>5. \A q \in Processes : Fits(proc[q])'
  <2> SUFFICES ASSUME NEW q \in Processes PROVE Fits(proc[q])'
    OBVIOUS
  <2>1. CASE q = p
    BY <1>1, <1>2, <1>3, <2>1 DEF BillingInv, TypeOK, Fits, Transaction
  <2>2. CASE q # p
    <3>1. /\ proc'[q] = proc[q] /\ Fits(proc[q])
          /\ proc[q].ref \in Refs /\ proc[q].ref.attempt \in Attempts
      BY <1>1, <2>2 DEF BillingInv, TypeOK, Refs
    <3>2. proc[q].at \in Transaction => proc[q].ref # proc[p].ref
      BY <1>2, <2>2 DEF BillingInv, Exclusive, Transaction
    <3>3. events[proc[q].ref] > 0 => events'[proc[q].ref] > 0
      BY <1>2, <1>3, <3>1 DEF BillingInv, TypeOK
    <3>4. proc[q].at \in Transaction => events'[proc[q].ref] = events[proc[q].ref]
      BY <1>2, <1>3, <3>1, <3>2 DEF BillingInv, TypeOK
    <3>5. status[proc[q].ref.attempt] # "none" => status'[proc[q].ref.attempt] # "none"
      BY <1>2, <1>3, <3>1 DEF BillingInv, TypeOK
    <3>6. subs > 0 => subs' > 0
      BY <1>3
    <3> QED
      BY <1>3, <3>1, <3>3, <3>4, <3>5, <3>6 DEF Fits
  <2> QED
    BY <2>1, <2>2
<1>6. Exclusive'
  BY <1>1 DEF BillingInv, TypeOK, Exclusive, Transaction
<1>7. \A k \in Refs : Row(k)'
  <2> SUFFICES ASSUME NEW k \in Refs PROVE Row(k)'
    OBVIOUS
  <2>1. CASE k = proc[p].ref
    BY <1>2, <1>3, <2>1 DEF BillingInv, TypeOK, Row, Fits
  <2>2. CASE k # proc[p].ref
    <3>1. events'[k] = events[k] /\ k.attempt \in Attempts /\ Row(k)
      BY <1>3, <2>2 DEF BillingInv, TypeOK, Refs
    <3>2. status[k.attempt] # "none" => status'[k.attempt] # "none"
      BY <1>2, <1>3, <3>1 DEF BillingInv, TypeOK
    <3> QED
      BY <1>3, <3>1, <3>2 DEF Row
  <2> QED
    BY <2>1, <2>2
<1>8. \A a \in Attempts : Hook(a)'
  BY <1>2, <1>3 DEF BillingInv, TypeOK, Hook, Refs
<1>9. Rewarded'
  BY <1>1 DEF BillingInv, TypeOK, Rewarded
<1> QED
  BY <1>4, <1>5, <1>6, <1>7, <1>8, <1>9 DEF BillingInv

\* The commission of the month is there, whoever generated it.
LEMMA GenerateCommissionKeeps ==
  ASSUME BillingInv, NEW p \in Processes, GenerateCommission(p)
  PROVE  BillingInv'
<1> DEFINE x == IF proc[p].ref.via = "webhook" THEN [proc[p] EXCEPT !.at = "w_done"] ELSE Idle
<1>1. /\ x \in ProcState /\ x.at \notin Transaction /\ x.at \in {"idle", "w_done"}
      /\ x.at = "w_done" => x.ref = proc[p].ref /\ proc[p].ref.via = "webhook"
      /\ proc' = [proc EXCEPT ![p] = x]
  BY GotoType, IdleType DEF GenerateCommission, AfterSettlement, Goto, Step, Transaction
<1>2. /\ period \in 1 .. MaxPeriod /\ commissions' = [commissions EXCEPT ![period] = 1]
      /\ UNCHANGED <<status, collected, events, subs, webhook, period, faults>>
  BY DEF BillingInv, TypeOK, GenerateCommission
<1>3. TypeOK'
  BY <1>1, <1>2 DEF BillingInv, TypeOK, ProcState
<1>4. \A q \in Processes : Fits(proc[q])'
  <2>1. CASE x = Idle
    BY <1>1, <1>2, <2>1, IdleType DEF BillingInv, TypeOK, Fits
  <2>2. CASE x.at = "w_done"
    <3>1. Fits(proc[p]) /\ proc[p].at = "commission"
      BY DEF BillingInv, GenerateCommission
    <3>2. Fits(x)
      BY <1>1, <2>2, <3>1 DEF Fits, Transaction
    <3> HIDE DEF x
    <3> QED
      BY <1>1, <1>2, <3>2 DEF BillingInv, TypeOK, Fits
  <2> QED
    BY <2>1, <2>2, GotoType DEF Step
<1>5. Exclusive'
  BY <1>1 DEF BillingInv, TypeOK, Exclusive
<1>6. (\A k \in Refs : Row(k)') /\ (\A a \in Attempts : Hook(a)')
  BY <1>2 DEF BillingInv, Row, Hook
<1>7. Rewarded'
  <2>1. commissions'[period] > 0
    BY <1>2 DEF BillingInv, TypeOK
  <2> QED
    BY <1>2, <2>1 DEF Rewarded
<1> QED
  BY <1>3, <1>4, <1>5, <1>6, <1>7 DEF BillingInv

LEMMA FaultsKeep ==
  ASSUME BillingInv, (\E p \in Processes : Abort(p)) \/ Crash \/ NextMonth
  PROVE  BillingInv'
<1>1. ASSUME NEW p \in Processes, Abort(p) PROVE BillingInv'
  <2>1. faults' \in 0 .. MaxFaults /\ faults' # 0
    BY <1>1, BoundsAssumption DEF Abort, BillingInv, TypeOK
  <2> QED
    BY <1>1, <2>1, IdleType, MoveKeeps DEF Abort, Transaction
<1>2. CASE Crash
  <2>1. faults' \in 0 .. MaxFaults /\ faults' # 0
    BY <1>2, BoundsAssumption DEF Crash, BillingInv, TypeOK
  <2>2. \A q \in Processes : proc'[q] = Idle
    BY <1>2 DEF Crash
  <2>3. TypeOK'
    BY <1>2, <2>1, IdleType DEF Crash, BillingInv, TypeOK, ProcState
  <2>4. (\A q \in Processes : Fits(proc[q])') /\ Exclusive'
    BY <2>2, IdleType DEF Fits, Exclusive, Transaction
  <2>5. (\A k \in Refs : Row(k)') /\ (\A a \in Attempts : Hook(a)') /\ Rewarded'
    BY <1>2, <2>1 DEF Crash, BillingInv, Row, Hook, Rewarded
  <2> QED
    BY <2>3, <2>4, <2>5 DEF BillingInv
<1>3. CASE NextMonth
  BY <1>3, BoundsAssumption
  DEF NextMonth, BillingInv, TypeOK, Fits, Exclusive, Row, Hook, Rewarded, Settlements
<1> QED
  BY <1>1, <1>2, <1>3

LEMMA BillingInductive ==
  ASSUME BillingInv, [Next]_vars
  PROVE  BillingInv'
<1>1. ASSUME NEW p \in Processes, Continue(p) PROVE BillingInv'
  BY <1>1, WalkKeeps, VerifyMarkKeeps, WebhookEndsKeeps, SettleEventKeeps,
     SettleSubscriptionKeeps, SettleCommitKeeps, GenerateCommissionKeeps DEF Continue
<1>2. CASE UNCHANGED vars
  BY <1>2 DEF vars, BillingInv, TypeOK, Fits, Exclusive, Row, Hook, Rewarded, Settlements
<1> QED
  BY <1>1, <1>2, CheckoutKeeps, ArriveKeeps, FaultsKeep DEF Next

LEMMA BillingAlways == Spec => []BillingInv
  BY InitBilling, BillingInductive, PTL DEF Spec

-----------------------------------------------------------------------------
\* Rows and requests stay well typed; in particular a month has at most one
\* commission.
THEOREM TypeCorrect == Spec => []TypeOK
<1>1. BillingInv => TypeOK
  BY DEF BillingInv
<1> QED
  BY <1>1, BillingAlways, PTL

\* Settlement is all or nothing.
THEOREM EventHasSubscriptionHolds == Spec => []EventHasSubscription
<1>1. BillingInv => EventHasSubscription
  BY DEF BillingInv, Row, EventHasSubscription
<1> QED
  BY <1>1, BillingAlways, PTL

\* A webhook marked processed has settled its payment.
THEOREM ProcessedMeansSettledHolds == Spec => []ProcessedMeansSettled
<1>1. BillingInv => ProcessedMeansSettled
  BY DEF BillingInv, Hook, ProcessedMeansSettled
<1> QED
  BY <1>1, BillingAlways, PTL

\* /verify settles only money that was collected.
THEOREM VerifiedMeansCollectedHolds == Spec => []VerifiedMeansCollected
<1>1. BillingInv => VerifiedMeansCollected
  BY DEF BillingInv, Row, VerifiedMeansCollected, Refs
<1> QED
  BY <1>1, BillingAlways, PTL

\* Without faults, a settled payment has its commission once all requests
\* have ended.
THEOREM CommissionFollowsHolds == Spec => []CommissionFollows
<1>1. BillingInv => CommissionFollows
  BY DEF BillingInv, Rewarded, CommissionFollows, SettledHasCommission
<1> QED
  BY <1>1, BillingAlways, PTL

\* However requests overlap, a provider_event_ref takes effect at most once:
\* billing_event implements at-most-once delivery.
THEOREM Refinement == Spec => SettlesEachRefOnce
<1> DEFINE Issued == {k \in Refs : status[k.attempt] # "none"}
<1>1. Init => Once!AbstractInit
  BY DEF Init, Once!AbstractInit, Refs
<1>2. BillingInv /\ [Next]_vars => [Once!AbstractNext]_Once!abstractVars
  <2> SUFFICES ASSUME BillingInv, [Next]_vars
               PROVE  [Once!AbstractNext]_Once!abstractVars
    OBVIOUS
  <2> USE DEF Once!AbstractNext, Once!abstractVars
  <2>1. ASSUME NEW a \in Attempts, Checkout(a)
        PROVE  Once!Issue({k \in Refs : k.attempt = a})
    BY <2>1 DEF BillingInv, TypeOK, Checkout, Once!Issue, Refs
  <2>2. ASSUME NEW p \in Processes, VerifyMark(p)
        PROVE  UNCHANGED Once!abstractVars
    <3>1. proc[p].ref.attempt \in Attempts /\ status[proc[p].ref.attempt] # "none"
      BY <2>2 DEF BillingInv, TypeOK, Fits, VerifyMark, Refs
    <3> QED
      BY <2>2, <3>1 DEF BillingInv, TypeOK, VerifyMark, Refs
  <2>3. ASSUME NEW p \in Processes, SettleCommit(p)
        PROVE  proc[p].ref \in Refs /\ Once!TakeEffect(proc[p].ref)
    <3>1. /\ proc[p].ref \in Refs /\ proc[p].ref.attempt \in Attempts
          /\ status[proc[p].ref.attempt] # "none" /\ events[proc[p].ref] = 0
      BY <2>3 DEF BillingInv, TypeOK, Fits, SettleCommit, Refs, Transaction
    <3>2. events' = [events EXCEPT ![proc[p].ref] = 1]
      BY <2>3, <3>1 DEF SettleCommit
    <3>3. Issued' = Issued
      BY <2>3, <3>1 DEF BillingInv, TypeOK, SettleCommit, Refs
    <3> QED
      BY <3>1, <3>2, <3>3 DEF Once!TakeEffect
  <2>4. ASSUME NEW p \in Processes, Arrive(p) \/ Continue(p) \/ Abort(p),
               ~VerifyMark(p), ~SettleCommit(p)
        PROVE  UNCHANGED <<status, events>>
    BY <2>4 DEF Arrive, VerifyRead, WebhookRecord, Continue, VerifyPaid, VerifyNotPaid,
         VerifyUnreachable, WebhookIgnore, WebhookDone, SettleEvent, SettleDuplicate,
         SettleSubscription, GenerateCommission, Abort
  <2>5. CASE (\E a \in Attempts : Pay(a)) \/ NextMonth \/ Crash \/ UNCHANGED vars
    BY <2>5 DEF Pay, NextMonth, Crash, vars
  <2> QED
    BY <2>1, <2>2, <2>3, <2>4, <2>5 DEF Next
<1> QED
  BY <1>1, <1>2, BillingAlways, PTL DEF Spec, SettlesEachRefOnce, Once!AbstractSpec

-----------------------------------------------------------------------------
(* How many subscriptions there can be.                                    *)

\* Settlements that have found no subscription, and their payments.
Finders == {p \in Processes : proc[p].at = "t_commit" /\ proc[p].found = 0}
FinderAttempts == {proc[p].ref.attempt : p \in Finders}

\* What a step does to them: it may find there is no subscription only while
\* there is none; the one that inserts one is no longer among them.
SubscriptionStep ==
  \/ subs' = 0
  \/ subs' = subs /\ Finders' \subseteq Finders /\ FinderAttempts' \subseteq FinderAttempts
  \/ \E p \in Finders :
       /\ subs' = subs + 1
       /\ Finders' \subseteq Finders \ {p}
       /\ FinderAttempts' \subseteq FinderAttempts \ {proc[p].ref.attempt}

\* Requests that keep their record keep their place among them.
LEMMA FindersShrink ==
  ASSUME BillingInv, NEW p \in Processes, proc'[p].at # "t_commit",
         \A q \in Processes \ {p} : proc'[q] = proc[q]
  PROVE  /\ Finders' \subseteq Finders \ {p}
         /\ FinderAttempts' = {proc[q].ref.attempt : q \in Finders'}
<1>1. Finders' \subseteq Finders \ {p}
  BY DEF Finders
<1>2. \A q \in Finders' : proc'[q] = proc[q]
  BY <1>1 DEF Finders
<1> QED
  BY <1>1, <1>2 DEF FinderAttempts

LEMMA SubscriptionSteps == BillingInv /\ [Next]_vars => SubscriptionStep
<1> SUFFICES ASSUME BillingInv, [Next]_vars PROVE SubscriptionStep
  OBVIOUS
<1>1. CASE \/ UNCHANGED vars \/ NextMonth \/ \E a \in Attempts : Checkout(a) \/ Pay(a)
  <2>1. UNCHANGED <<subs, proc>>
    BY <1>1 DEF vars, NextMonth, Checkout, Pay
  <2> QED
    BY <2>1 DEF SubscriptionStep, Finders, FinderAttempts
<1>2. CASE Crash
  <2>1. subs' = subs /\ \A q \in Processes : proc'[q].at # "t_commit"
    BY <1>2, IdleType DEF Crash
  <2>2. Finders' = {} /\ FinderAttempts' = {}
    BY <2>1 DEF Finders, FinderAttempts
  <2> QED
    BY <2>1, <2>2 DEF SubscriptionStep
<1>3. ASSUME NEW p \in Processes, SettleSubscription(p) PROVE SubscriptionStep
  <2>1. CASE subs = 0
    BY <1>3, <2>1 DEF SettleSubscription, SubscriptionStep
  <2>2. CASE subs # 0
    <3>1. /\ subs' = subs /\ proc'[p].found # 0 /\ proc[p].at # "t_commit"
          /\ \A q \in Processes \ {p} : proc'[q] = proc[q]
      BY <1>3, <2>2 DEF SettleSubscription, BillingInv, TypeOK
    <3>2. Finders' \subseteq Finders \ {p}
      BY <3>1 DEF Finders
    <3>3. \A q \in Finders' : proc'[q] = proc[q]
      BY <3>1, <3>2 DEF Finders
    <3>4. FinderAttempts' \subseteq FinderAttempts
      BY <3>2, <3>3 DEF FinderAttempts
    <3> QED
      BY <3>1, <3>2, <3>4 DEF SubscriptionStep
  <2> QED
    BY <2>1, <2>2
<1>4. ASSUME NEW p \in Processes, SettleCommit(p) PROVE SubscriptionStep
  <2>1. /\ proc[p].at = "t_commit" /\ proc'[p].at = "commission"
        /\ \A q \in Processes \ {p} : proc'[q] = proc[q]
    BY <1>4 DEF SettleCommit, Goto, BillingInv, TypeOK
  <2>2. /\ Finders' \subseteq Finders \ {p}
        /\ FinderAttempts' = {proc[q].ref.attempt : q \in Finders'}
    BY <2>1, FindersShrink
  <2>3. CASE proc[p].found # 0
    <3>1. subs' = subs
      BY <1>4, <2>3 DEF SettleCommit, BillingInv, TypeOK
    <3>2. FinderAttempts' \subseteq FinderAttempts
      BY <2>2 DEF FinderAttempts
    <3> QED
      BY <2>2, <3>1, <3>2 DEF SubscriptionStep
  <2>4. CASE proc[p].found = 0
    <3>1. p \in Finders /\ subs' = subs + 1
      BY <1>4, <2>1, <2>4 DEF SettleCommit, Finders
    <3>2. \A q \in Finders \ {p} : proc[q].ref.attempt # proc[p].ref.attempt
      BY <2>1 DEF BillingInv, Exclusive, Transaction, Finders
    <3>3. FinderAttempts' \subseteq FinderAttempts \ {proc[p].ref.attempt}
      BY <2>2, <3>2 DEF FinderAttempts
    <3> QED
      BY <2>2, <3>1, <3>3 DEF SubscriptionStep
  <2> QED
    BY <2>3, <2>4
<1>5. ASSUME NEW p \in Processes, Arrive(p) \/ Continue(p) \/ Abort(p),
             ~SettleSubscription(p), ~SettleCommit(p)
      PROVE  SubscriptionStep
  <2>1. /\ subs' = subs /\ proc'[p].at # "t_commit"
        /\ \A q \in Processes \ {p} : proc'[q] = proc[q]
    BY <1>5, IdleType DEF BillingInv, TypeOK, Arrive, VerifyRead, WebhookRecord, Continue,
         VerifyPaid, VerifyNotPaid, VerifyUnreachable, VerifyMark, WebhookIgnore, WebhookDone,
         SettleEvent, SettleDuplicate, GenerateCommission, AfterSettlement, Goto, Abort
  <2>2. /\ Finders' \subseteq Finders \ {p}
        /\ FinderAttempts' = {proc[q].ref.attempt : q \in Finders'}
    BY <2>1, FindersShrink
  <2> QED
    BY <2>1, <2>2 DEF SubscriptionStep, FinderAttempts
<1> QED
  BY <1>1, <1>2, <1>3, <1>4, <1>5 DEF Next, Continue

\* A counter and a part of a finite set: one goes up when the other goes down.
LEMMA BoundKept ==
  ASSUME NEW A, IsFiniteSet(A), NEW S \in SUBSET A, NEW T \in SUBSET A,
         NEW n \in Nat, NEW m \in Nat, n + Cardinality(S) <= Cardinality(A),
         \/ m = 0
         \/ m = n /\ T \subseteq S
         \/ \E x \in S : m = n + 1 /\ T \subseteq S \ {x}
  PROVE  m + Cardinality(T) <= Cardinality(A)
<1>1. /\ IsFiniteSet(S) /\ IsFiniteSet(T)
      /\ Cardinality(S) \in Nat /\ Cardinality(T) \in Nat /\ Cardinality(A) \in Nat
      /\ Cardinality(T) <= Cardinality(A)
  BY FS_Subset, FS_CardinalityType
<1>2. CASE m = 0
  BY <1>1, <1>2
<1>3. CASE m = n /\ T \subseteq S
  <2>1. Cardinality(T) <= Cardinality(S)
    BY <1>1, <1>3, FS_Subset
  <2> QED
    BY <1>1, <1>3, <2>1
<1>4. ASSUME NEW x \in S, m = n + 1, T \subseteq S \ {x}
      PROVE  m + Cardinality(T) <= Cardinality(A)
  <2>1. IsFiniteSet(S \ {x}) /\ Cardinality(S \ {x}) = Cardinality(S) - 1
    BY <1>1, FS_RemoveElement
  <2>2. Cardinality(T) <= Cardinality(S) - 1
    BY <1>4, <2>1, FS_Subset
  <2> QED
    BY <1>1, <1>4, <2>2
<1> QED
  BY <1>2, <1>3, <1>4

SubscriptionInv ==
  /\ subs + Cardinality(Finders) <= Cardinality(Processes)
  /\ subs + Cardinality(FinderAttempts) <= Cardinality(Attempts)

\* Settlements of different payments look for the subscription before any of
\* them commits, and each inserts its own (settlePaidPayment): there are never
\* more subscriptions than requests served at once, nor than payments.
THEOREM SubscriptionsAreBounded ==
  ASSUME IsFiniteSet(Processes), IsFiniteSet(Attempts)
  PROVE  Spec => [](subs <= Cardinality(Processes) /\ subs <= Cardinality(Attempts))
<1>1. BillingInv => /\ Finders \in SUBSET Processes /\ FinderAttempts \in SUBSET Attempts
                    /\ subs \in Nat
  BY DEF BillingInv, TypeOK, Refs, Finders, FinderAttempts
<1>2. Init => SubscriptionInv
  <2> SUFFICES ASSUME Init PROVE SubscriptionInv
    OBVIOUS
  <2>1. subs = 0 /\ Finders = {} /\ FinderAttempts = {}
    BY IdleType DEF Init, Finders, FinderAttempts
  <2>2. Cardinality(Processes) \in Nat /\ Cardinality(Attempts) \in Nat
    BY FS_CardinalityType
  <2> QED
    BY <2>1, <2>2, FS_EmptySet DEF SubscriptionInv
<1>3. BillingInv /\ BillingInv' /\ SubscriptionInv /\ [Next]_vars => SubscriptionInv'
  <2> SUFFICES ASSUME BillingInv, BillingInv', SubscriptionInv, [Next]_vars
               PROVE  SubscriptionInv'
    OBVIOUS
  <2>1. /\ Finders' \in SUBSET Processes /\ FinderAttempts' \in SUBSET Attempts
        /\ subs' \in Nat
    BY DEF BillingInv, TypeOK, Refs, Finders, FinderAttempts
  <2>2. SubscriptionStep
    BY SubscriptionSteps
  <2>3. \/ subs' = 0
        \/ subs' = subs /\ Finders' \subseteq Finders
        \/ \E p \in Finders : subs' = subs + 1 /\ Finders' \subseteq Finders \ {p}
    BY <2>2 DEF SubscriptionStep
  <2>4. \/ subs' = 0
        \/ subs' = subs /\ FinderAttempts' \subseteq FinderAttempts
        \/ \E a \in FinderAttempts :
             subs' = subs + 1 /\ FinderAttempts' \subseteq FinderAttempts \ {a}
    <3>1. \A p \in Finders : proc[p].ref.attempt \in FinderAttempts
      BY DEF FinderAttempts
    <3> QED
      BY <2>2, <3>1 DEF SubscriptionStep
  <2>5. subs' + Cardinality(Finders') <= Cardinality(Processes)
    BY <1>1, <2>1, <2>3, BoundKept DEF SubscriptionInv
  <2>6. subs' + Cardinality(FinderAttempts') <= Cardinality(Attempts)
    BY <1>1, <2>1, <2>4, BoundKept DEF SubscriptionInv
  <2> QED
    BY <2>5, <2>6 DEF SubscriptionInv
<1>4. BillingInv /\ SubscriptionInv
        => subs <= Cardinality(Processes) /\ subs <= Cardinality(Attempts)
  <2> SUFFICES ASSUME BillingInv, SubscriptionInv
               PROVE  subs <= Cardinality(Processes) /\ subs <= Cardinality(Attempts)
    OBVIOUS
  <2>1. IsFiniteSet(Finders) /\ IsFiniteSet(FinderAttempts)
    BY <1>1, FS_Subset
  <2>2. /\ Cardinality(Finders) \in Nat /\ Cardinality(FinderAttempts) \in Nat
        /\ Cardinality(Processes) \in Nat /\ Cardinality(Attempts) \in Nat
    BY <2>1, FS_CardinalityType
  <2> QED
    BY <1>1, <2>2 DEF SubscriptionInv
<1> QED
  BY <1>2, <1>3, <1>4, BillingAlways, PTL DEF Spec

-----------------------------------------------------------------------------
(* The webhook's row.                                                      *)

\* Requests that serve a notice; its row waits for them.
Serving == {p \in Processes : proc[p].at # "idle" /\ proc[p].ref.via = "webhook"}

HookInv ==
  /\ \A p \in Serving : webhook[proc[p].ref.attempt] = "received"
  /\ \A p, q \in Serving : proc[p].ref.attempt = proc[q].ref.attempt => p = q
  /\ \A p \in Processes : proc[p].at \in {"w_ignore", "w_done"} => p \in Serving

\* Where a row may go from where it is.
Forward == {<<"none", "received">>, <<"received", "ignored">>, <<"received", "processed">>}

HookMoves ==
  \A a \in Attempts : webhook'[a] = webhook[a] \/ <<webhook[a], webhook'[a]>> \in Forward

\* One request moves on, serving what it served or nothing.
LEMMA ServingMoves ==
  ASSUME BillingInv, HookInv, NEW p \in Processes,
         \A q \in Processes \ {p} : proc'[q] = proc[q],
         \/ proc'[p].at = "idle"
         \/ proc'[p].at = "t_event" /\ proc'[p].ref.via # "webhook"
         \/ /\ proc[p].at # "idle" /\ proc'[p].ref = proc[p].ref
            /\ proc'[p].at \in {"w_ignore", "w_done"} => p \in Serving,
         UNCHANGED webhook
  PROVE  HookInv' /\ HookMoves
<1>1. Serving' \subseteq Serving /\ \A q \in Serving' : proc'[q].ref = proc[q].ref
  BY DEF Serving
<1>2. \A q \in Processes : proc'[q].at \in {"w_ignore", "w_done"} => q \in Serving'
  BY DEF HookInv, Serving
<1>3. \A q \in Serving' : webhook'[proc'[q].ref.attempt] = "received"
  BY <1>1 DEF HookInv
<1>4. \A q, r \in Serving' : proc'[q].ref.attempt = proc'[r].ref.attempt => q = r
  BY <1>1 DEF HookInv
<1> QED
  BY <1>2, <1>3, <1>4 DEF HookInv, HookMoves

LEMMA HookStep == BillingInv /\ HookInv /\ [Next]_vars => HookInv' /\ HookMoves
<1> SUFFICES ASSUME BillingInv, HookInv, [Next]_vars PROVE HookInv' /\ HookMoves
  OBVIOUS
<1>1. CASE UNCHANGED vars \/ NextMonth \/ \E a \in Attempts : Checkout(a) \/ Pay(a)
  <2>1. UNCHANGED <<webhook, proc>>
    BY <1>1 DEF vars, NextMonth, Checkout, Pay
  <2> QED
    BY <2>1 DEF HookInv, HookMoves, Serving
<1>2. CASE Crash
  <2>1. webhook' = webhook /\ \A p \in Processes : proc'[p].at = "idle"
    BY <1>2, IdleType DEF Crash
  <2> QED
    BY <2>1 DEF HookInv, HookMoves, Serving
<1>3. ASSUME NEW p \in Processes, NEW a \in Attempts, NEW notice \in Notices,
             NEW verified \in Signatures, WebhookRecord(p, a, notice, verified)
      PROVE  HookInv' /\ HookMoves
  <2>1. /\ webhook[a] = "none" /\ webhook' = [webhook EXCEPT ![a] = "received"]
        /\ webhook'[a] = "received" /\ \A b \in Attempts \ {a} : webhook'[b] = webhook[b]
    BY <1>3 DEF WebhookRecord, BillingInv, TypeOK
  <2>2. /\ proc'[p].at # "idle" /\ proc'[p].ref.via = "webhook" /\ proc'[p].ref.attempt = a
        /\ \A q \in Processes \ {p} : proc'[q] = proc[q]
    BY <1>3 DEF WebhookRecord, BillingInv, TypeOK
  <2>3. Serving' = Serving \cup {p} /\ p \notin Serving
    BY <1>3, <2>2 DEF Serving, WebhookRecord
  <2>4. \A q \in Serving : proc[q].ref.attempt # a /\ proc[q].ref.attempt \in Attempts
    BY <2>1 DEF HookInv, Serving, BillingInv, TypeOK, Refs
  <2>5. \A q \in Serving : proc'[q] = proc[q]
    BY <2>2, <2>3 DEF Serving
  <2>6. \A q \in Serving' : webhook'[proc'[q].ref.attempt] = "received"
    BY <2>1, <2>2, <2>3, <2>4, <2>5 DEF HookInv
  <2>7. \A q, r \in Serving' : proc'[q].ref.attempt = proc'[r].ref.attempt => q = r
    BY <2>2, <2>3, <2>4, <2>5 DEF HookInv
  <2>8. \A q \in Processes : proc'[q].at \in {"w_ignore", "w_done"} => q \in Serving'
    BY <2>2, <2>3 DEF HookInv
  <2> QED
    BY <2>1, <2>6, <2>7, <2>8 DEF HookInv, HookMoves, Forward
<1>4. ASSUME NEW p \in Processes, NEW a \in Attempts, VerifyRead(p, a)
      PROVE  HookInv' /\ HookMoves
  <2>1. /\ UNCHANGED webhook /\ proc'[p].ref.via = "ref_id" /\ proc'[p].at = "v_gateway"
        /\ \A q \in Processes \ {p} : proc'[q] = proc[q]
    BY <1>4 DEF VerifyRead, BillingInv, TypeOK
  <2>2. Serving' \subseteq Serving \ {p} /\ \A q \in Serving \ {p} : proc'[q] = proc[q]
    BY <2>1 DEF Serving
  <2>3. \A q \in Processes : proc'[q].at \in {"w_ignore", "w_done"} => q \in Serving'
    BY <2>1 DEF HookInv, Serving
  <2> QED
    BY <2>1, <2>2, <2>3 DEF HookInv, HookMoves
<1>5. ASSUME NEW p \in Processes, WebhookIgnore(p) \/ WebhookDone(p)
      PROVE  HookInv' /\ HookMoves
  <2> DEFINE a == proc[p].ref.attempt
  <2>1. p \in Serving /\ a \in Attempts /\ webhook[a] = "received"
    BY <1>5 DEF WebhookIgnore, WebhookDone, HookInv, BillingInv, TypeOK, Refs
  <2>2. /\ webhook'[a] \in {"ignored", "processed"}
        /\ \A b \in Attempts \ {a} : webhook'[b] = webhook[b]
    BY <1>5, <2>1 DEF WebhookIgnore, WebhookDone, BillingInv, TypeOK
  <2>3. proc'[p].at = "idle" /\ \A q \in Processes \ {p} : proc'[q] = proc[q]
    BY <1>5, IdleType DEF WebhookIgnore, WebhookDone, BillingInv, TypeOK
  <2>4. /\ Serving' = Serving \ {p}
        /\ \A q \in Serving' : proc'[q] = proc[q] /\ proc[q].ref.attempt \in Attempts \ {a}
    BY <2>1, <2>3 DEF Serving, HookInv, BillingInv, TypeOK, Refs
  <2>5. \A q \in Processes : proc'[q].at \in {"w_ignore", "w_done"} => q \in Serving'
    BY <2>3, <2>4 DEF HookInv
  <2>6. \A q \in Serving' : webhook'[proc'[q].ref.attempt] = "received"
    BY <2>2, <2>4 DEF HookInv
  <2>7. \A q, r \in Serving' : proc'[q].ref.attempt = proc'[r].ref.attempt => q = r
    BY <2>4 DEF HookInv
  <2> HIDE DEF a
  <2>8. HookMoves
    BY <2>1, <2>2 DEF HookMoves, Forward
  <2> QED
    BY <2>5, <2>6, <2>7, <2>8 DEF HookInv
<1>6. ASSUME NEW p \in Processes,
             \/ VerifyPaid(p) \/ VerifyNotPaid(p) \/ VerifyUnreachable(p) \/ VerifyMark(p)
             \/ SettleEvent(p) \/ SettleDuplicate(p) \/ SettleSubscription(p)
             \/ SettleCommit(p) \/ GenerateCommission(p) \/ Abort(p)
      PROVE  HookInv' /\ HookMoves
  <2>1. /\ UNCHANGED webhook /\ proc[p].at # "idle"
        /\ \A q \in Processes \ {p} : proc'[q] = proc[q]
    BY <1>6 DEF BillingInv, TypeOK, VerifyPaid, VerifyNotPaid, VerifyUnreachable, VerifyMark,
         SettleEvent, SettleDuplicate, SettleSubscription, SettleCommit, GenerateCommission,
         AfterSettlement, Goto, Abort
  <2>2. \/ proc'[p] = Idle
        \/ proc'[p].at = "t_event" /\ proc'[p].ref.via # "webhook"
        \/ /\ proc'[p].ref = proc[p].ref
           /\ proc'[p].at \in {"w_ignore", "w_done"} => proc[p].ref.via = "webhook"
    <3>1. CASE VerifyUnreachable(p) \/ VerifyMark(p) \/ Abort(p)
      BY <3>1 DEF VerifyUnreachable, VerifyMark, Abort, BillingInv, TypeOK
    <3>2. CASE \/ VerifyNotPaid(p) \/ SettleEvent(p)
               \/ SettleSubscription(p) \/ SettleCommit(p)
      <4>1. \/ \E step \in {"t_event", "v_mark", "t_subscription", "commission"} : Goto(p, step)
            \/ SettleSubscription(p)
        BY <3>2 DEF VerifyNotPaid, SettleEvent, SettleCommit
      <4>2. proc \in [Processes -> ProcState]
        BY DEF BillingInv, TypeOK, ProcState
      <4>3. /\ proc'[p].ref = proc[p].ref
            /\ proc'[p].at \in {"t_event", "v_mark", "t_subscription", "commission", "t_commit"}
        BY <4>1, <4>2 DEF Goto, SettleSubscription, ProcState
      <4> QED
        BY <4>3
    <3>3. CASE SettleDuplicate(p) \/ GenerateCommission(p)
      BY <3>3 DEF SettleDuplicate, GenerateCommission, AfterSettlement, Goto, BillingInv, TypeOK
    <3>4. CASE VerifyPaid(p)
      BY <3>4, AnswersAssumption DEF VerifyPaid, BillingInv, TypeOK
    <3> QED
      BY <1>6, <3>1, <3>2, <3>3, <3>4
  <2> QED
    BY <2>1, <2>2, IdleType, ServingMoves DEF Serving
<1> QED
  BY <1>1, <1>2, <1>3, <1>4, <1>5, <1>6 DEF Next, Arrive, Continue

\* A notice that has been recorded is never recorded again, and one request at
\* most decides what becomes of it: from "none" its row goes to "received", from
\* there to "ignored" or "processed" (webhooks.ts), and nowhere else, however
\* notices are repeated and requests overlap or die.
THEOREM WebhookMovesForward == Spec => [][HookMoves]_vars
<1>1. Init => HookInv
  BY IdleType DEF Init, HookInv, Serving
<1> QED
  BY <1>1, HookStep, BillingAlways, PTL DEF Spec

-----------------------------------------------------------------------------
(* When what the comments promise does hold.                               *)

\* On the way to a settlement.
Settling == {"v_gateway", "t_event"} \cup Transaction

\* How a request q gets there, and what is then settled.
SettlingStep(q) ==
  \/ proc'[q].at = "v_gateway"
  \/ /\ proc[q].at = "v_gateway" /\ proc[q].ref.attempt \in collected
     /\ proc'[q].ref.attempt = proc[q].ref.attempt /\ proc'[q].ref.via \in Answers
  \/ proc[q].at \in Settling \ {"v_gateway"} /\ proc'[q].ref = proc[q].ref
  \/ /\ TRUE \in Signatures
     /\ Notices \subseteq {"paid"} => proc'[q].ref.attempt \in collected

LEMMA SettlingSteps ==
  ASSUME BillingInv, [Next]_vars
  PROVE  /\ \A q \in Processes : proc'[q].at \in Settling => SettlingStep(q)
         /\ \A k \in Refs : events'[k] > 0 =>
              events[k] > 0 \/ \E q \in Processes : proc[q].at = "t_commit" /\ proc[q].ref = k
         /\ collected \subseteq collected'
<1>1. ASSUME NEW q \in Processes, proc'[q].at \in Settling PROVE SettlingStep(q)
  <2>1. CASE proc'[q] = proc[q]
    BY <1>1, <2>1 DEF SettlingStep
  <2>2. CASE UNCHANGED vars \/ NextMonth \/ \E a \in Attempts : Checkout(a) \/ Pay(a)
    BY <2>1, <2>2 DEF vars, NextMonth, Checkout, Pay
  <2>3. CASE Crash
    BY <1>1, <2>3, IdleType DEF Crash, Settling, Transaction
  <2>4. ASSUME NEW p \in Processes, Arrive(p) \/ Continue(p) \/ Abort(p), q # p
        PROVE  proc'[q] = proc[q]
    BY <2>4 DEF BillingInv, TypeOK, Arrive, VerifyRead, WebhookRecord, Continue, VerifyPaid,
         VerifyNotPaid, VerifyUnreachable, VerifyMark, WebhookIgnore, WebhookDone, SettleEvent,
         SettleDuplicate, SettleSubscription, SettleCommit, GenerateCommission,
         AfterSettlement, Goto, Abort
  <2>5. ASSUME NEW a \in Attempts, VerifyRead(q, a) PROVE SettlingStep(q)
    BY <2>5 DEF VerifyRead, BillingInv, TypeOK, SettlingStep
  <2>6. ASSUME NEW a \in Attempts, NEW notice \in Notices, NEW verified \in Signatures,
               WebhookRecord(q, a, notice, verified)
        PROVE  SettlingStep(q)
    <3>1. proc'[q].at = (IF verified THEN "t_event" ELSE "w_ignore") /\ proc'[q].ref.attempt = a
      BY <2>6 DEF WebhookRecord, BillingInv, TypeOK
    <3>2. verified = TRUE
      BY <1>1, <3>1, SignaturesAssumption DEF Settling, Transaction
    <3>3. Notices \subseteq {"paid"} => a \in collected
      BY <2>6 DEF WebhookRecord
    <3> QED
      BY <3>1, <3>2, <3>3 DEF SettlingStep
  <2>7. CASE VerifyPaid(q)
    <3>1. PICK via \in Answers :
            proc' = [proc EXCEPT ![q] = [at |-> "t_event",
                                         ref |-> [via |-> via, attempt |-> @.ref.attempt],
                                         found |-> 0]]
      BY <2>7 DEF VerifyPaid
    <3>2. proc'[q].ref = [via |-> via, attempt |-> proc[q].ref.attempt]
      BY <3>1 DEF BillingInv, TypeOK
    <3>3. proc'[q].ref.attempt = proc[q].ref.attempt /\ proc'[q].ref.via \in Answers
      BY <3>1, <3>2
    <3>4. proc[q].at = "v_gateway" /\ proc[q].ref.attempt \in collected
      BY <2>7 DEF VerifyPaid
    <3> QED
      BY <3>3, <3>4 DEF SettlingStep
  <2>8. CASE SettleEvent(q) \/ SettleSubscription(q)
    BY <2>8 DEF SettleEvent, SettleSubscription, Goto, BillingInv, TypeOK,
         SettlingStep, Settling, Transaction
  <2>9. CASE \/ VerifyNotPaid(q) \/ VerifyUnreachable(q) \/ VerifyMark(q)
             \/ WebhookIgnore(q) \/ WebhookDone(q) \/ SettleDuplicate(q)
             \/ SettleCommit(q) \/ GenerateCommission(q) \/ Abort(q)
    <3>1. proc'[q].at \in {"idle", "v_mark", "w_done", "commission"}
      <4>1. CASE VerifyNotPaid(q) \/ SettleCommit(q)
        BY <4>1 DEF VerifyNotPaid, SettleCommit, Goto, BillingInv, TypeOK
      <4>2. CASE \/ VerifyUnreachable(q) \/ VerifyMark(q) \/ WebhookIgnore(q)
                 \/ WebhookDone(q) \/ Abort(q)
        BY <4>2, IdleType DEF VerifyUnreachable, VerifyMark, WebhookIgnore, WebhookDone, Abort,
             BillingInv, TypeOK
      <4>3. CASE SettleDuplicate(q) \/ GenerateCommission(q)
        BY <4>3, IdleType DEF SettleDuplicate, GenerateCommission, AfterSettlement, Goto,
             BillingInv, TypeOK
      <4> QED
        BY <2>9, <4>1, <4>2, <4>3
    <3> QED
      BY <1>1, <3>1 DEF Settling, Transaction
  <2> QED
    BY <2>1, <2>2, <2>3, <2>4, <2>5, <2>6, <2>7, <2>8, <2>9 DEF Next, Arrive, Continue
<1>2. ASSUME NEW k \in Refs, events'[k] > 0
      PROVE  events[k] > 0 \/ \E q \in Processes : proc[q].at = "t_commit" /\ proc[q].ref = k
  <2>1. ASSUME NEW p \in Processes, SettleCommit(p), k # proc[p].ref PROVE events'[k] = events[k]
    BY <2>1 DEF SettleCommit, BillingInv, TypeOK
  <2>2. CASE \A p \in Processes : ~SettleCommit(p)
    <3>1. events' = events
      BY <2>2 DEF Next, vars, Checkout, Pay, Arrive, VerifyRead, WebhookRecord, Continue,
           VerifyPaid, VerifyNotPaid, VerifyUnreachable, VerifyMark, WebhookIgnore,
           WebhookDone, SettleEvent, SettleDuplicate, SettleSubscription,
           GenerateCommission, Abort, NextMonth, Crash
    <3> QED
      BY <1>2, <3>1
  <2> QED
    BY <1>2, <2>1, <2>2 DEF SettleCommit
<1>3. collected \subseteq collected'
  BY DEF Next, vars, Checkout, Pay, Arrive, VerifyRead, WebhookRecord, Continue, VerifyPaid,
       VerifyNotPaid, VerifyUnreachable, VerifyMark, WebhookIgnore, WebhookDone, SettleEvent,
       SettleDuplicate, SettleSubscription, SettleCommit, GenerateCommission, Abort,
       NextMonth, Crash
<1> QED
  BY <1>1, <1>2, <1>3

SettledMeansCollected == \A k \in Settlements : k.attempt \in collected

PaidInv ==
  /\ \A p \in Processes :
       proc[p].at \in Settling \ {"v_gateway"} => proc[p].ref.attempt \in collected
  /\ SettledMeansCollected

\* A payment is settled only if its money was collected, provided the provider
\* notifies of nothing but payments: the handler verifies the signature of a
\* notice and does not read what it says (webhooks.ts).
THEOREM PaidNoticesSettleCollected ==
  ASSUME Notices \subseteq {"paid"}
  PROVE  Spec => []SettledMeansCollected
<1>1. Init => PaidInv
  BY IdleType DEF Init, PaidInv, SettledMeansCollected, Settlements, Settling, Transaction
<1>2. BillingInv /\ PaidInv /\ [Next]_vars => PaidInv'
  <2> SUFFICES ASSUME BillingInv, PaidInv, [Next]_vars PROVE PaidInv'
    OBVIOUS
  <2>1. ASSUME NEW q \in Processes, proc'[q].at \in Settling \ {"v_gateway"}
        PROVE  proc'[q].ref.attempt \in collected'
    BY <2>1, SettlingSteps DEF SettlingStep, PaidInv
  <2>2. ASSUME NEW k \in Refs, events'[k] > 0 PROVE k.attempt \in collected'
    BY <2>2, SettlingSteps DEF PaidInv, SettledMeansCollected, Settlements, Settling, Transaction
  <2> QED
    BY <2>1, <2>2 DEF PaidInv, SettledMeansCollected, Settlements
<1>3. PaidInv => SettledMeansCollected
  BY DEF PaidInv
<1> QED
  BY <1>1, <1>2, <1>3, BillingAlways, PTL DEF Spec

\* Nothing is settled, or about to be, but under the gateway's own reference.
VerifyOnly(answer) ==
  /\ \A p \in Processes : proc[p].at \in Settling \ {"v_gateway"} => proc[p].ref.via = answer
  /\ \A k \in Refs : events[k] > 0 => k.via = answer

\* A payment is settled once, provided no notice is verified and the gateway
\* always, or never, names it by a ref_id: /verify settles it under the
\* reference it is given and the webhook under another (gateway.ts, billing.ts,
\* webhooks.ts), and nothing else would keep the second from taking effect.
THEOREM UnverifiedNoticesSettleOnce ==
  ASSUME TRUE \notin Signatures, NEW answer, Answers \subseteq {answer}
  PROVE  Spec => []SettledOnce
<1>1. Init => VerifyOnly(answer)
  BY IdleType DEF Init, VerifyOnly, Settling, Transaction
<1>2. BillingInv /\ VerifyOnly(answer) /\ [Next]_vars => VerifyOnly(answer)'
  <2> SUFFICES ASSUME BillingInv, VerifyOnly(answer), [Next]_vars PROVE VerifyOnly(answer)'
    OBVIOUS
  <2>1. ASSUME NEW q \in Processes, proc'[q].at \in Settling \ {"v_gateway"}
        PROVE  proc'[q].ref.via = answer
    <3>1. SettlingStep(q)
      BY <2>1, SettlingSteps
    <3>2. \/ proc'[q].ref.via \in Answers
          \/ /\ proc[q].at \in Settling \ {"v_gateway"}
             /\ proc'[q].ref = proc[q].ref
      BY <2>1, <3>1 DEF SettlingStep
    <3>3. proc[q].at \in Settling \ {"v_gateway"} => proc[q].ref.via = answer
      BY DEF VerifyOnly
    <3> QED BY <3>2, <3>3
  <2>2. ASSUME NEW k \in Refs, events'[k] > 0 PROVE k.via = answer
    BY <2>2, SettlingSteps DEF VerifyOnly, Settling, Transaction
  <2> QED
    BY <2>1, <2>2 DEF VerifyOnly
<1>3. BillingInv /\ VerifyOnly(answer) => SettledOnce
  <2> SUFFICES ASSUME BillingInv, VerifyOnly(answer), NEW j \in Settlements, NEW k \in Settlements,
                      j.attempt = k.attempt
               PROVE  j = k /\ events[k] = 1
    BY DEF SettledOnce
  <2>1. j \in Refs /\ k \in Refs /\ events[j] > 0 /\ events[k] > 0
    BY DEF Settlements
  <2>2. j.via = k.via
    BY <2>1 DEF VerifyOnly
  <2>3. j = k
    BY <2>1, <2>2 DEF Refs
  <2>4. events[k] \in Nat /\ events[k] <= 1
    BY <2>1 DEF BillingInv, TypeOK, Row
  <2> QED
    BY <2>1, <2>3, <2>4
<1> QED
  BY <1>1, <1>2, <1>3, BillingAlways, PTL DEF Spec
=============================================================================
