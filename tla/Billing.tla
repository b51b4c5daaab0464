------------------------------ MODULE Billing ------------------------------
(***************************************************************************)
(* The platform's subscription payments of ONE tenant, which a marketer    *)
(* referred: checkout, /billing/verify and the payment provider's webhook  *)
(* (services/api http/routes/billing.ts, http/routes/webhooks.ts), the     *)
(* settlement both share, and the commission it generates                  *)
(* (services/commission.ts), with the online gateway (zarinpal).           *)
(*                                                                         *)
(* Every awaited statement or call is an action of its own. The settlement *)
(* transaction is three: the INSERT of the billing_event and the UPDATE of *)
(* the attempt, which make a settlement of the same attempt wait; the      *)
(* SELECT of the subscription; and the rest, visible when it commits.      *)
(*                                                                         *)
(* PAYMENT_WEBHOOK_SECRET is set; where it is not, the webhook answers      *)
(* "ignored" and does nothing, as if no notice were sent.                  *)
(*                                                                         *)
(* Left out: amounts, plans, the end of the period, the merchant row (set  *)
(* active by every settlement), audit rows. Statements that read what      *)
(* never changes are part of the step before them.                         *)
(***************************************************************************)
EXTENDS Naturals

CONSTANTS
  Attempts,     \* rows of payment_attempt
  Processes,    \* HTTP requests the API serves at the same time
  Notices,      \* what the provider notifies of: "paid", "failed"
  Answers,      \* what the gateway's answers name a payment by: "ref_id", "authority"
  Signatures,   \* whether a notice's signature is right: TRUE, FALSE
  MaxPeriod,    \* bound on the months that pass
  MaxFaults     \* bound on crashes and failed statements

ASSUME AttemptsAssumption == Attempts # {}
ASSUME NoticesAssumption == Notices \subseteq {"paid", "failed"}
ASSUME AnswersAssumption == Answers \subseteq {"ref_id", "authority"}
ASSUME SignaturesAssumption == Signatures \subseteq BOOLEAN
ASSUME BoundsAssumption == MaxPeriod \in Nat \ {0} /\ MaxFaults \in Nat

VARIABLES
  status,       \* payment_attempt.status ("none": no row)
  collected,    \* attempts whose money the gateway has collected
  events,       \* rows of billing_event per provider_event_ref
  subs,         \* rows of subscription of the tenant
  commissions,  \* rows of commission of the referral per period
  webhook,      \* webhook_event.status of the attempt's idempotency key
  proc,         \* where each request stands
  period,       \* the current month
  faults        \* crashes and failed statements so far

vars == <<status, collected, events, subs, commissions, webhook, proc, period, faults>>

\* The provider_event_refs of one payment: verifyPayment returns the gateway's
\* ref_id, or the authority when the answer has none, and the webhook passes
\* its own idempotency key.
Refs == [via : {"ref_id", "authority", "webhook"}, attempt : Attempts]

AttemptStatus == {"none", "requires_action", "paid", "failed"}
WebhookStatus == {"none", "received", "ignored", "processed"}
Step == {"idle", "v_gateway", "v_mark", "w_ignore", "w_done",
         "t_event", "t_subscription", "t_commit", "commission"}

NoRef == [via |-> "ref_id", attempt |-> CHOOSE a \in Attempts : TRUE]
Idle == [at |-> "idle", ref |-> NoRef, found |-> 0]

TypeOK ==
  /\ status \in [Attempts -> AttemptStatus]
  /\ collected \in SUBSET Attempts
  /\ events \in [Refs -> Nat]
  /\ subs \in Nat
  /\ commissions \in [1 .. MaxPeriod -> 0 .. 1]
  /\ webhook \in [Attempts -> WebhookStatus]
  /\ proc \in [Processes -> [at : Step, ref : Refs, found : Nat]]
  /\ period \in 1 .. MaxPeriod
  /\ faults \in 0 .. MaxFaults

Init ==
  /\ status = [a \in Attempts |-> "none"]
  /\ collected = {}
  /\ events = [k \in Refs |-> 0]
  /\ subs = 0
  /\ commissions = [m \in 1 .. MaxPeriod |-> 0]
  /\ webhook = [a \in Attempts |-> "none"]
  /\ proc = [p \in Processes |-> Idle]
  /\ period = 1
  /\ faults = 0

-----------------------------------------------------------------------------
(* Helpers.                                                                *)

Goto(p, step) == proc' = [proc EXCEPT ![p] = [@ EXCEPT !.at = step]]

InTransaction(p) == proc[p].at \in {"t_subscription", "t_commit"}

\* A settlement holds the row of its attempt until it commits.
AttemptLocked(a) == \E p \in Processes : InTransaction(p) /\ proc[p].ref.attempt = a

\* What follows settlePaidPayment: /verify answers, the webhook is marked.
AfterSettlement(p) ==
  IF proc[p].ref.via = "webhook" THEN Goto(p, "w_done")
                                 ELSE proc' = [proc EXCEPT ![p] = Idle]

-----------------------------------------------------------------------------
(* POST /billing/checkout, and the customer at the gateway.                *)

\* The gateway's session and the row are one step: nobody knows the session
\* before the answer, which follows the INSERT.
Checkout(a) ==
  /\ status[a] = "none"
  /\ status' = [status EXCEPT ![a] = "requires_action"]
  /\ UNCHANGED <<collected, events, subs, commissions, webhook, proc, period, faults>>

Pay(a) ==
  /\ status[a] # "none"
  /\ a \notin collected
  /\ collected' = collected \cup {a}
  /\ UNCHANGED <<status, events, subs, commissions, webhook, proc, period, faults>>

-----------------------------------------------------------------------------
(* POST /billing/verify                                                    *)

\* An attempt that is already paid is answered at once.
VerifyRead(p, a) ==
  /\ proc[p].at = "idle"
  /\ status[a] \notin {"none", "paid"}
  /\ proc' = [proc EXCEPT ![p] =
                [at |-> "v_gateway", ref |-> [via |-> "ref_id", attempt |-> a],
                 found |-> 0]]
  /\ UNCHANGED <<status, collected, events, subs, commissions, webhook, period, faults>>

\* Mutant: whatever the gateway answers is taken for paid.
VerifyTrusting(p) ==
  /\ proc[p].at = "v_gateway"
  /\ Goto(p, "t_event")
  /\ UNCHANGED <<status, collected, events, subs, commissions, webhook, period, faults>>

\* Code 100 or 101.
VerifyPaid(p) ==
  /\ proc[p].at = "v_gateway"
  /\ proc[p].ref.attempt \in collected
  /\ \E via \in Answers :
       proc' = [proc EXCEPT ![p] =
                  [at |-> "t_event", ref |-> [via |-> via, attempt |-> @.ref.attempt], found |-> 0]]
  /\ UNCHANGED <<status, collected, events, subs, commissions, webhook, period, faults>>

\* Any other code, or an answer that is no JSON.
VerifyNotPaid(p) ==
  /\ proc[p].at = "v_gateway"
  /\ Goto(p, "v_mark")
  /\ UNCHANGED <<status, collected, events, subs, commissions, webhook, period, faults>>

\* The gateway cannot be reached: 502.
VerifyUnreachable(p) ==
  /\ proc[p].at = "v_gateway"
  /\ proc' = [proc EXCEPT ![p] = Idle]
  /\ UNCHANGED <<status, collected, events, subs, commissions, webhook, period, faults>>

\* The UPDATE does not look at the status again.
VerifyMark(p) ==
  /\ proc[p].at = "v_mark"
  /\ ~AttemptLocked(proc[p].ref.attempt)
  /\ status' = [status EXCEPT ![proc[p].ref.attempt] = "failed"]
  /\ proc' = [proc EXCEPT ![p] = Idle]
  /\ UNCHANGED <<collected, events, subs, commissions, webhook, period, faults>>

-----------------------------------------------------------------------------
(* POST /webhooks/payment/:provider                                        *)

\* Mutant: the row is marked processed before the payment is settled.
WebhookRecordProcessed(p, a, notice, verified) ==
  /\ proc[p].at = "idle"
  /\ status[a] # "none"
  /\ notice = "paid" <=> a \in collected
  /\ webhook[a] = "none"
  /\ webhook' = [webhook EXCEPT ![a] = "processed"]
  /\ proc' = [proc EXCEPT ![p] =
                [at |-> IF verified THEN "t_event" ELSE "w_ignore",
                 ref |-> [via |-> "webhook", attempt |-> a], found |-> 0]]
  /\ UNCHANGED <<status, collected, events, subs, commissions, period, faults>>

\* The notice is recorded whether it is verified or not; what it says of the
\* payment is not read. One whose key has a row is answered "deduped".
WebhookRecord(p, a, notice, verified) ==
  /\ proc[p].at = "idle"
  /\ status[a] # "none"
  /\ notice = "paid" <=> a \in collected
  /\ webhook[a] = "none"
  /\ webhook' = [webhook EXCEPT ![a] = "received"]
  /\ proc' = [proc EXCEPT ![p] =
                [at |-> IF verified THEN "t_event" ELSE "w_ignore",
                 ref |-> [via |-> "webhook", attempt |-> a], found |-> 0]]
  /\ UNCHANGED <<status, collected, events, subs, commissions, period, faults>>

WebhookIgnore(p) ==
  /\ proc[p].at = "w_ignore"
  /\ webhook' = [webhook EXCEPT ![proc[p].ref.attempt] = "ignored"]
  /\ proc' = [proc EXCEPT ![p] = Idle]
  /\ UNCHANGED <<status, collected, events, subs, commissions, period, faults>>

WebhookDone(p) ==
  /\ proc[p].at = "w_done"
  /\ webhook' = [webhook EXCEPT ![proc[p].ref.attempt] = "processed"]
  /\ proc' = [proc EXCEPT ![p] = Idle]
  /\ UNCHANGED <<status, collected, events, subs, commissions, period, faults>>

-----------------------------------------------------------------------------
(* settlePaidPayment                                                       *)

\* Mutant: the event is looked up and inserted without a unique index.
SettleEventUnlocked(p) ==
  /\ proc[p].at = "t_event"
  /\ events[proc[p].ref] = 0
  /\ Goto(p, "t_subscription")
  /\ UNCHANGED <<status, collected, events, subs, commissions, webhook, period, faults>>

\* Mutant: only an attempt that still waits for its payment is settled.
SettleEventOpenOnly(p) ==
  /\ proc[p].at = "t_event"
  /\ ~AttemptLocked(proc[p].ref.attempt)
  /\ events[proc[p].ref] = 0
  /\ status[proc[p].ref.attempt] = "requires_action"
  /\ Goto(p, "t_subscription")
  /\ UNCHANGED <<status, collected, events, subs, commissions, webhook, period, faults>>

\* The INSERT finds no row with this provider_event_ref (and waits for a
\* transaction that is inserting one); the UPDATE locks the attempt.
SettleEvent(p) ==
  /\ proc[p].at = "t_event"
  /\ ~AttemptLocked(proc[p].ref.attempt)
  /\ events[proc[p].ref] = 0
  /\ Goto(p, "t_subscription")
  /\ UNCHANGED <<status, collected, events, subs, commissions, webhook, period, faults>>

\* ON CONFLICT DO NOTHING: settled before. Nothing else is looked at.
SettleDuplicate(p) ==
  /\ proc[p].at = "t_event"
  /\ ~AttemptLocked(proc[p].ref.attempt)
  /\ events[proc[p].ref] > 0
  /\ AfterSettlement(p)
  /\ UNCHANGED <<status, collected, events, subs, commissions, webhook, period, faults>>

SettleSubscription(p) ==
  /\ proc[p].at = "t_subscription"
  /\ proc' = [proc EXCEPT ![p] = [@ EXCEPT !.at = "t_commit", !.found = subs]]
  /\ UNCHANGED <<status, collected, events, subs, commissions, webhook, period, faults>>

\* Mutant: the answer is given before the commission is generated.
SettleCommitAnswers(p) ==
  /\ proc[p].at = "t_commit"
  /\ events' = [events EXCEPT ![proc[p].ref] = @ + 1]
  /\ status' = [status EXCEPT ![proc[p].ref.attempt] = "paid"]
  /\ subs' = IF proc[p].found > 0 THEN subs ELSE subs + 1
  /\ AfterSettlement(p)
  /\ UNCHANGED <<collected, commissions, webhook, period, faults>>

SettleCommit(p) ==
  /\ proc[p].at = "t_commit"
  /\ events' = [events EXCEPT ![proc[p].ref] = @ + 1]
  /\ status' = [status EXCEPT ![proc[p].ref.attempt] = "paid"]
  /\ subs' = IF proc[p].found > 0 THEN subs ELSE subs + 1
  /\ Goto(p, "commission")
  /\ UNCHANGED <<collected, commissions, webhook, period, faults>>

\* After the transaction. A second payment of the month adds nothing.
GenerateCommission(p) ==
  /\ proc[p].at = "commission"
  /\ commissions' = [commissions EXCEPT ![period] = 1]
  /\ AfterSettlement(p)
  /\ UNCHANGED <<status, collected, events, subs, webhook, period, faults>>

-----------------------------------------------------------------------------
(* Time and faults.                                                        *)

NextMonth ==
  /\ period < MaxPeriod
  /\ period' = period + 1
  /\ UNCHANGED <<status, collected, events, subs, commissions, webhook, proc, faults>>

\* A statement fails: a transaction rolls back, the request ends with 500.
Abort(p) ==
  /\ proc[p].at # "idle"
  /\ faults < MaxFaults
  /\ faults' = faults + 1
  /\ proc' = [proc EXCEPT ![p] = Idle]
  /\ UNCHANGED <<status, collected, events, subs, commissions, webhook, period>>

\* The API process dies.
Crash ==
  /\ faults < MaxFaults
  /\ faults' = faults + 1
  /\ proc' = [p \in Processes |-> Idle]
  /\ UNCHANGED <<status, collected, events, subs, commissions, webhook, period>>

-----------------------------------------------------------------------------
Arrive(p) ==
  \E a \in Attempts :
    \/ VerifyRead(p, a)
    \/ \E notice \in Notices, verified \in Signatures :
         WebhookRecord(p, a, notice, verified)

Continue(p) ==
  \/ VerifyPaid(p) \/ VerifyNotPaid(p) \/ VerifyUnreachable(p) \/ VerifyMark(p)
  \/ WebhookIgnore(p) \/ WebhookDone(p)
  \/ SettleEvent(p) \/ SettleDuplicate(p) \/ SettleSubscription(p) \/ SettleCommit(p)
  \/ GenerateCommission(p)

Next ==
  \/ \E a \in Attempts : Checkout(a) \/ Pay(a)
  \/ \E p \in Processes : Arrive(p) \/ Continue(p) \/ Abort(p)
  \/ NextMonth
  \/ Crash

Spec == Init /\ [][Next]_vars

\* The event loop resumes every request (a waiting statement gets its lock:
\* every transaction ends), and the provider keeps sending its notice until
\* somebody has recorded it.
FairSpec ==
  /\ Spec
  /\ \A p \in Processes : WF_vars(Continue(p))
  /\ \A a \in Attempts :
       SF_vars(\E p \in Processes : WebhookRecord(p, a, "paid", TRUE))

-----------------------------------------------------------------------------
\* billing.ts: "duplicate provider events are ignored". However two requests
\* settle the same provider_event_ref at once, one of them takes effect: the
\* billing_event rows implement at-most-once delivery.
Once == INSTANCE AtMostOnce WITH
          Items <- Refs,
          issued <- {k \in Refs : status[k.attempt] # "none"},
          effects <- events

SettlesEachRefOnce == Once!AbstractSpec

\* A settlement is all or nothing: as soon as a billing_event is there, so is
\* the subscription it paid for, whatever rolled back in between.
EventHasSubscription == (\E k \in Refs : events[k] > 0) => subs > 0

\* A webhook marked processed has had its payment settled; a failure on the
\* way never leaves "processed" behind.
ProcessedMeansSettled ==
  \A a \in Attempts :
    webhook[a] = "processed" => events[[via |-> "webhook", attempt |-> a]] > 0

\* /verify settles only what the gateway has collected.
VerifiedMeansCollected ==
  \A k \in Refs : k.via # "webhook" /\ events[k] > 0 => k.attempt \in collected

Settlements == {k \in Refs : events[k] > 0}

\* Once every request has ended, a settled payment has its commission ...
SettledHasCommission ==
  (\A p \in Processes : proc[p].at = "idle") /\ Settlements # {}
    => \E m \in 1 .. MaxPeriod : commissions[m] > 0

\* ... provided nothing failed: then the duplicate that returns early finds
\* that the settlement before it has gone on, or will go on, to generate it.
CommissionFollows == faults = 0 => SettledHasCommission

\* Without faults, a payment the gateway has collected and keeps notifying is
\* settled, whatever /verify does meanwhile.
CollectedIsSettled ==
  \A a \in Attempts : a \in collected ~> \E k \in Settlements : k.attempt = a

-----------------------------------------------------------------------------
(* What the comments promise and the code does not keep.                   *)

\* webhooks.ts: "never applied twice"; billing.ts: "Settle a paid payment
\* idempotently". A payment is settled by /verify or by the webhook, not by
\* both.
SettledOnce ==
  \A j, k \in Settlements : j.attempt = k.attempt => j = k /\ events[k] = 1
=============================================================================
