-------------------------- MODULE MCSiteConnection --------------------------
(* Instances of SiteConnection for TLC.                                    *)
EXTENDS SiteConnection, TLC

\* Requests and workers are interchangeable: nothing orders or names them.
\* (Used by the runs that check no liveness.)
Interchangeable == Permutations(Requests) \cup Permutations(Workers)
=============================================================================
