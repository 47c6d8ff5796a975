----------------------------- MODULE MCPairing -----------------------------
(* Pairing with two apps.                                                   *)
EXTENDS Pairing

MCApps == {"a", "b"}
=============================================================================
