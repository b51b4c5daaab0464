----------------------------- MODULE AtMostOnce -----------------------------
(* What a receiver of repeatable deliveries promises: an item takes effect  *)
(* only after somebody issued it, and never a second time, however often it *)
(* is delivered.                                                            *)
EXTENDS Naturals

CONSTANT Items

VARIABLES
  issued,   \* the items somebody has issued
  effects   \* how often each item has taken effect

abstractVars == <<issued, effects>>

AbstractInit ==
  /\ issued = {}
  /\ effects = [i \in Items |-> 0]

Issue(new) ==
  /\ issued' = issued \cup new
  /\ UNCHANGED effects

TakeEffect(i) ==
  /\ i \in issued
  /\ effects[i] = 0
  /\ effects' = [effects EXCEPT ![i] = 1]
  /\ UNCHANGED issued

AbstractNext ==
  \/ \E new \in SUBSET Items : Issue(new)
  \/ \E i \in Items : TakeEffect(i)

AbstractSpec == AbstractInit /\ [][AbstractNext]_abstractVars
=============================================================================
