---------------------------- MODULE MCLifecycle ----------------------------
(***************************************************************************)
(* The instance of Lifecycle for TLC: two connections of one client id,    *)
(* and two operations on a listener.                                       *)
(***************************************************************************)
EXTENDS Lifecycle, TLC

CONSTANTS k1, k2, c1, o1, o2

Conns == {k1, k2}
Cids  == {c1}
Ops   == {o1, o2}

Symmetry == Permutations(Conns) \cup Permutations(Ops)
=============================================================================
