---------------------------- MODULE MCMembership ----------------------------
(* The instance of Membership for TLC: three brokers, of each the          *)
(* goroutine that listens.                                                 *)
EXTENDS Membership, TLC

CONSTANTS b1, b2, b3, listen

OneThread == [n \in Broker |-> {listen}]
Symmetry == Permutations(Broker)
=============================================================================
