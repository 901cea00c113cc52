--------------------------- MODULE MCSenderBalance --------------------------
(* Instances of SenderBalance for TLC. *)
EXTENDS SenderBalance
\* Every way to weigh the legs, with duplicates.
AllWeights == [Legs -> 0 .. 3]
OneTwo     == {[l \in Legs |-> l]}
TwoThree   == {[l \in Legs |-> IF l = 1 THEN 2 ELSE 3]}
=============================================================================
