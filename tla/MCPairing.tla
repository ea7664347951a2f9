----------------------------- MODULE MCPairing ------------------------------
(* Instances of Pairing. *)
EXTENDS Pairing

CONSTANTS a1, a2, b1, b2, t1
=============================================================================
