----------------------------- MODULE MCBilling -----------------------------
(* Instances of Billing for TLC.                                           *)
EXTENDS Billing, TLC

\* Requests are interchangeable. (Used by the runs that check no liveness.)
Interchangeable == Permutations(Processes)
=============================================================================
