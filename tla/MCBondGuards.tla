---------------------------- MODULE MCBondGuards ----------------------------
(* Instances of BondGuards for TLC. *)
EXTENDS BondGuards
EqualWeights == {[l \in Legs |-> 5]}
=============================================================================
