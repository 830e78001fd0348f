---------------------------- MODULE MCHandshake ----------------------------
(* Two connections between two nodes, made by any of them to any of them; one
   initiator is of another implementation. *)
EXTENDS Handshake, TLC

CONSTANTS alice, bob, i1, i2, r1, r2

TwoConnections == (i1 :> r1) @@ (i2 :> r2)
=============================================================================
