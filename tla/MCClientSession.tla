-------------------------- MODULE MCClientSession --------------------------
(* Instances of ClientSession for TLC.                                     *)
EXTENDS ClientSession, TLC

\* Tokens are random, and requests and tabs are alike. (No liveness.)
Interchangeable ==
  Permutations(Tokens) \cup Permutations(Requests) \cup Permutations(Tabs)
=============================================================================
