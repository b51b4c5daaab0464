---- MODULE MCServices ----
\* Small instances of Services for TLC.
EXTENDS Services, TLC

MCCategoriesOf == [v \in Versions |-> IF v = 1 THEN Categories ELSE {}]
MCImagesOf == [v \in Versions |-> IF v = 0 THEN {} ELSE Images]
MCVariationsOf == [v \in Versions |-> IF v = 0 THEN {} ELSE Variations]
Symmetry == Permutations(Requests) \cup Permutations(Deliveries)
====
