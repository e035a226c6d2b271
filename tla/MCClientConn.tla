---------------------------- MODULE MCClientConn ----------------------------
(***************************************************************************)
(* Instances of ClientConn for TLC.                                        *)
(***************************************************************************)
EXTENDS ClientConn

CONSTANTS app, t1, t2

TwoTimers == {t1, t2}
ThreeKinds == {"tcp", "ws", "quic"}

=============================================================================
