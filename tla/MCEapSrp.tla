------------------------------ MODULE MCEapSrp ------------------------------
(* EapSrp on small instances: see Handshake.cfg.                           *)
EXTENDS EapSrp

MCBases == {10, 20, 30, 40, 50, 60}
MCNumbers == 1 .. 12
=============================================================================
