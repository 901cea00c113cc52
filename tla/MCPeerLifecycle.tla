--------------------------- MODULE MCPeerLifecycle ---------------------------
(* PeerLifecycle on a small instance: one caller that has two addresses.   *)
EXTENDS PeerLifecycle

CONSTANTS x, x1, x2
MCOwner == [a \in {x1, x2} |-> x]
==============================================================================
