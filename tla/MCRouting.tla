----------------------------- MODULE MCRouting -----------------------------
(***************************************************************************)
(* The instance of Routing for TLC: a user whose clients the directory     *)
(* lists at two brokers, both of them at the one that serves it.          *)
(***************************************************************************)
EXTENDS Routing, TLC

CONSTANTS b1, b2, u1, c1, c2, tcp, k1, k2, news

Brokers  == {b1, b2}
Users    == {u1}
Clients  == {c1, c2}
Nets     == {tcp}
Conns    == {k1, k2}
Channels == {news}

Places == {<<b1, c1>>, <<b2, c1>>, <<b2, c2>>}

Opened(p) == [type |-> "userOpened", nodeID |-> p[1], uid |-> u1, cid |-> p[2],
              net |-> tcp, channels |-> IF p[2] = c1 THEN {news} ELSE {}]
Closed(p) == [type |-> "userClosed", nodeID |-> p[1], uid |-> u1, cid |-> p[2]]

\* Of the broker's own clients only one leaves.
LogEntries == {Opened(p) : p \in Places} \cup {Closed(p) : p \in Places \ {<<b2, c2>>}}

Logins == {<< <<p[1], tcp>>, p[2]>> : p \in Places}

Symmetry == Permutations(Conns)
=============================================================================
