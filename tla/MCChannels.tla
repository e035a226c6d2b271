----------------------------- MODULE MCChannels -----------------------------
(***************************************************************************)
(* The instance of Channels for TLC: a client that connects to either of   *)
(* two brokers, two channels, one with the name of the user, and two calls *)
(* at a time.                                                              *)
(***************************************************************************)
EXTENDS Channels, TLC

CONSTANTS b1, b2, u1, c1, tcp, news, k1, k2

Brokers  == {b1, b2}
Users    == {u1}
Device   == {c1}
Nets     == {tcp}
Topics   == {news, u1}
Calls    == {k1, k2}
Owner    == [c \in Device |-> u1]

Symmetry == Permutations(Brokers) \cup Permutations(Calls)
=============================================================================
