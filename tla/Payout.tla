------------------------------- MODULE Payout -------------------------------
(***************************************************************************)
(* The commissions and payouts of one marketer                             *)
(* (services/api/src/services/commission.ts, http/routes/affiliate.ts,     *)
(* http/routes/admin.ts). How a settlement earns a commission is Billing's *)
(* subject. No code approves one: that is the operator's, in the database. *)
(***************************************************************************)
EXTENDS Handlers

CONSTANTS
  Commissions,   \* commissions the marketer may earn, of one unit each
  PayoutIds,     \* payouts that may be requested
  MaxDecisions   \* bound on an administrator's actions

ASSUME PayoutAssumption ==
  /\ IsFiniteSet(Commissions) /\ IsFiniteSet(PayoutIds)
  /\ MaxDecisions \in Nat

Amounts == 0 .. Cardinality(Commissions)

VARIABLES
  commission,   \* commission.status, "none" before it is earned
  payout,       \* payout.status and amount
  pay,          \* per request: where its handler stands, and what it holds
  decisions,    \* an administrator's actions so far
  contended,    \* history: requests for payouts overlapped
  revived       \* history: a rejected payout was taken up again

payVars == <<commission, payout, pay, decisions, contended, revived>>

Claiming == {"requested", "approved", "paid"}
PayHandler == [at : {"idle", "insert", "settle"}, amount : Amounts]
PayIdle == [at |-> "idle", amount |-> 0]

PayTypeOK ==
  /\ commission \in [Commissions -> {"none", "pending", "approved", "paid"}]
  /\ payout \in [PayoutIds -> [status : Claiming \cup {"none", "rejected"}, amount : Amounts]]
  /\ pay \in [Requests -> PayHandler]
  /\ decisions \in 0 .. MaxDecisions
  /\ contended \in BOOLEAN
  /\ revived \in BOOLEAN

PayInit ==
  /\ commission = [c \in Commissions |-> "none"]
  /\ payout = [o \in PayoutIds |-> [status |-> "none", amount |-> 0]]
  /\ pay = [r \in Requests |-> PayIdle]
  /\ decisions = 0
  /\ contended = FALSE
  /\ revived = FALSE

-----------------------------------------------------------------------------
(* Helpers.                                                                *)

\* SUM(amount): of a set of payouts, each counted once for every unit.
Amount(S) ==
  Cardinality({x \in S \X (Amounts \ {0}) : x[2] <= payout[x[1]].amount})
Claims == Amount({o \in PayoutIds : payout[o].status \in Claiming})
OfStatus(status) == Cardinality({c \in Commissions : commission[c] = status})

\* Mutant: paid payouts are forgotten with the commissions of the same
\* marketer that were not settled by them.
OpenBalance ==
  LET claims == Amount({o \in PayoutIds : payout[o].status \in {"requested", "approved"}})
      earned == OfStatus("approved") + OfStatus("paid")
  IN IF earned > claims THEN earned - claims ELSE 0

\* availableBalanceMinor: a payout that was paid still counts, the commissions
\* it settled do not.
AvailableBalance ==
  IF OfStatus("approved") > Claims THEN OfStatus("approved") - Claims ELSE 0

-----------------------------------------------------------------------------
(* Operations.                                                             *)

\* generateCommissionForPayment.
Earn(c) ==
  /\ commission[c] = "none"
  /\ commission' = [commission EXCEPT ![c] = "pending"]
  /\ UNCHANGED <<payout, pay, decisions, contended, revived>>

Approve(c) ==
  /\ commission[c] = "pending"
  /\ commission' = [commission EXCEPT ![c] = "approved"]
  /\ UNCHANGED <<payout, pay, decisions, contended, revived>>

\* POST /affiliate/payouts: the balance is read by one statement ...
AskPayout(r, amount) ==
  /\ pay[r].at = "idle"
  /\ amount > 0
  /\ amount <= AvailableBalance
  /\ pay' = [pay EXCEPT ![r] = [at |-> "insert", amount |-> amount]]
  /\ contended' = (contended \/ \E q \in Requests : pay[q].at = "insert")
  /\ UNCHANGED <<commission, payout, decisions, revived>>

\* ... and used by another.
InsertPayout(r, o) ==
  /\ pay[r].at = "insert"
  /\ payout[o].status = "none"
  /\ payout' = [payout EXCEPT ![o] = [status |-> "requested", amount |-> pay[r].amount]]
  /\ pay' = [pay EXCEPT ![r] = PayIdle]
  /\ UNCHANGED <<commission, decisions, contended, revived>>

\* PATCH /admin/payouts/:id, whatever the payout's status is by now.
DecidePayout(r, o, status) ==
  /\ pay[r].at = "idle"
  /\ payout[o].status # "none"
  /\ decisions < MaxDecisions
  /\ decisions' = decisions + 1
  /\ payout' = [payout EXCEPT ![o].status = status]
  /\ pay' = [pay EXCEPT ![r] = [PayIdle EXCEPT !.at = IF status = "paid" THEN "settle" ELSE "idle"]]
  /\ revived' = (revived \/ (payout[o].status = "rejected" /\ status # "rejected"))
  /\ UNCHANGED <<commission, contended>>

\* A payout marked paid settles every commission that is approved by then.
SettleCommissions(r) ==
  /\ pay[r].at = "settle"
  /\ commission' = [c \in Commissions |->
                      IF commission[c] = "approved" THEN "paid" ELSE commission[c]]
  /\ pay' = [pay EXCEPT ![r] = PayIdle]
  /\ UNCHANGED <<payout, decisions, contended, revived>>

\* A statement fails, the process dies.
PayAbandon(r) ==
  /\ pay[r].at # "idle"
  /\ pay' = [pay EXCEPT ![r] = PayIdle]
  /\ UNCHANGED <<commission, payout, decisions, contended, revived>>

PayNext ==
  \/ \E c \in Commissions : Earn(c) \/ Approve(c)
  \/ \E r \in Requests :
       \/ \E amount \in Amounts : AskPayout(r, amount)
       \/ \E o \in PayoutIds :
            \/ InsertPayout(r, o)
            \/ \E status \in {"approved", "rejected", "paid"} : DecidePayout(r, o, status)
       \/ SettleCommissions(r) \/ PayAbandon(r)

PaySpec == PayInit /\ [][PayNext]_payVars

-----------------------------------------------------------------------------
(* Property.                                                               *)

\* Whatever an administrator does with the payouts but take up a rejected one,
\* and wherever a payment dies half-way: a marketer whose requests take turns
\* never claims more than what was approved for it, and requests that overlap,
\* each of which reads the balance before another has used it, never claim more
\* than that for each request in flight.
NeverOverdrawn ==
  LET earned == OfStatus("approved") + OfStatus("paid")
  IN ~revived => /\ ~contended => Claims <= earned
                 /\ Claims <= Cardinality(Requests) * earned
=============================================================================
