------------------------ MODULE MCReplicatedDirectory ------------------------
(***************************************************************************)
(* The instance of ReplicatedDirectory for TLC.  SnapshotGap is 1: the     *)
(* second entry a broker applies makes it take a snapshot.                 *)
(***************************************************************************)
EXTENDS ReplicatedDirectory, TLC

CONSTANTS b1, b2, u1, c1, tcp, news

Brokers  == {b1, b2}
Users    == {u1}
Clients  == {c1}
Nets     == {tcp}
Channels == {news}

\* A client comes with and without channels, goes, and its user joins and
\* leaves; a broker leaves the cluster and comes back.
Proposed ==
  {[type |-> "userOpened", nodeID |-> b1, uid |-> u1, cid |-> c1, net |-> tcp,
    channels |-> {news}],
   [type |-> "userOpened", nodeID |-> b2, uid |-> u1, cid |-> c1, net |-> tcp,
    channels |-> {}],
   [type |-> "userClosed", nodeID |-> b1, uid |-> u1, cid |-> c1],
   [type |-> "joinChannel", uid |-> u1, channels |-> {news}],
   [type |-> "leaveChannel", uid |-> u1, channels |-> {news}],
   [type |-> "removeNode", nodeID |-> b1],
   [type |-> "addNode", nodeID |-> b1]}
=============================================================================
