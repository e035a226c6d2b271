----------------------------- MODULE MCSessions -----------------------------
(***************************************************************************)
(* The instance of Sessions for TLC.                                       *)
(***************************************************************************)
EXTENDS Sessions, TLC

CONSTANTS b1, b2, u1, c1, tcp, ws, k1, k2, k3

TwoBrokers == {b1, b2}
Users      == {u1}
Clients    == {c1}
TwoNets    == {tcp, ws}
ThreeConns == {k1, k2, k3}

\* A client id belongs to one user.
Logins == Users \X Clients

\* Connections, brokers and networks are interchangeable: no step chooses among
\* them, and where an idle connection is said to be in Init is never read.
Symmetry == Permutations(Conn) \cup Permutations(Broker) \cup Permutations(Net)

=============================================================================
