--------------------------- MODULE MCPluginReplay ---------------------------
(* Instances of PluginReplay for TLC.                                      *)
EXTENDS PluginReplay, TLC

\* Handlers are interchangeable. (Messages are not permuted: NoMessage, which
\* fills the record of an idle handler, is a CHOOSE among them.)
Interchangeable == Permutations(Handlers)
=============================================================================
