--------------------------- MODULE MCSenderQueue ----------------------------
(* Instances of SenderQueue for TLC. *)
EXTENDS SenderQueue, TLC
PeerSymmetry == Permutations(Peers)
=============================================================================
