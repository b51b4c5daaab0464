--------------------------- MODULE MCPluginEvents ---------------------------
(* Instances of PluginEvents for TLC: e1 and e2 are one product saved      *)
(* twice within a second, so they share an idempotency key.                *)
EXTENDS PluginEvents

CONSTANTS e1, e2, e3, k1, k2

MCKeyOf == [e \in Events |-> IF e = e3 THEN k2 ELSE k1]
=============================================================================
