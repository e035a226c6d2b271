------------------------------ MODULE MCPeers ------------------------------
(* The instance of Peers for TLC: two addresses.                           *)
EXTENDS Peers, TLC

CONSTANTS a1, a2
=============================================================================
