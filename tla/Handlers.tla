------------------------------ MODULE Handlers ------------------------------
(***************************************************************************)
(* What the services below http/routes share: requests in flight at the    *)
(* same time in the backend's one Node process, each handled by a chain of *)
(* awaits.                                                                 *)
(***************************************************************************)
EXTENDS Naturals, FiniteSets

CONSTANT Requests   \* requests in flight at the same time

ASSUME RequestsAssumption == IsFiniteSet(Requests)
=============================================================================
