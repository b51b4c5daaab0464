------------------------- MODULE MCPluginConnection -------------------------
(* Instances of PluginConnection for TLC.                                  *)
EXTENDS PluginConnection, TLC

\* Nothing orders or names requests, handshakes and secrets.
Interchangeable ==
  Permutations(Requests) \cup Permutations(Calls) \cup Permutations(Secrets)
=============================================================================
