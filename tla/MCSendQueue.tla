----------------------------- MODULE MCSendQueue -----------------------------
(***************************************************************************)
(* Instances of SendQueue for TLC: two jumps and two ordinary tasks, both  *)
(* channels small enough to fill.                                          *)
(***************************************************************************)
EXTENDS SendQueue

CONSTANTS j1, j2, t1, t2

Pushers  == {j1, j2, t1, t2}
Jumpers  == {j1, j2}
Patients == {j1, t1}

=============================================================================
