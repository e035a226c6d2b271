----------------------------- MODULE Membership -----------------------------
(***************************************************************************)
(* How brokers find each other and form the raft group: the multicast      *)
(* discovery (heartbeats, updateNode, entries that go stale after thirty   *)
(* seconds), the cluster's reaction (AddBroker, KickBroker, startRaft) and *)
(* the configuration changes it proposes and applies.                      *)
(*                                                                         *)
(* Two goroutines of a broker, listen and watch, run updateNode; a thread  *)
(* here is one of them.  Raft is external: a log of committed              *)
(* configuration changes that every member applies in order, and a leader. *)
(***************************************************************************)
EXTENDS Integers, Sequences, FiniteSets, FiniteSetsExt

CONSTANTS
  Broker,       \* the brokers
  Thread,       \* Thread[n]: the discovery goroutines of broker n
  ClusterSize,  \* option clusterSize, the same for all brokers
  MaxStale,     \* bound: entries that go stale
  None          \* no broker

ASSUME MembershipAssumption ==
  /\ IsFiniteSet(Broker) /\ None \notin Broker
  /\ ClusterSize \in 2 .. Cardinality(Broker)
  /\ MaxStale \in Nat

VARIABLES
  seen,     \* seen[n][m]: n's entry for m in allNodes
  peers,    \* peers[n]: the brokers n has a peer client for
  size,     \* size[n]: c.size
  init,     \* init[n]: the voters n's raft node was started with, {} before
  applied,  \* applied[n]: entries of log n has applied; -1: not even its own voters
  leader,   \* leader[n]: c.leader
  soft,     \* soft[n]: the leader n's raft node has last reported
  ready,    \* ready[n]: c.ready
  run,      \* run[n][t]: what thread t of n is doing
  log,      \* the committed configuration changes
  lead,     \* the raft leader
  stale     \* entries gone stale so far

vars == <<seen, peers, size, init, applied, leader, soft, ready, run, log, lead, stale>>

Idle == [pc |-> "idle", node |-> None, leaves |-> {}]
Started(n) == init[n] # {}
Change(op, m) == [op |-> op, node |-> m]

(* The voters after the first i entries, for a node started with those in  *)
(* v: the last change to a broker decides.                                 *)
VotersAfter(v, i) ==
  {k \in Broker :
     LET changes == {j \in 1 .. i : log[j].node = k}
     IN  IF changes = {} THEN k \in v ELSE log[Max(changes)].op = "add"}

Voters(n) == VotersAfter(init[n], Len(log))

(* Discovery has started everywhere; a broker has heard its own heartbeat. *)
Init ==
  /\ seen = [n \in Broker |-> [m \in Broker |-> IF m = n THEN "fresh" ELSE "absent"]]
  /\ peers = [n \in Broker |-> {}]
  /\ size = [n \in Broker |-> ClusterSize]
  /\ init = [n \in Broker |-> {}]
  /\ applied = [n \in Broker |-> -1]
  /\ leader = [n \in Broker |-> None]
  /\ soft = [n \in Broker |-> None]
  /\ ready = [n \in Broker |-> FALSE]
  /\ run = [n \in Broker |-> [t \in Thread[n] |-> Idle]]
  /\ log = <<>>
  /\ lead = None
  /\ stale = 0

Goto(n, t, pc) == run' = [run EXCEPT ![n][t].pc = pc]
Finish(n, t) == run' = [run EXCEPT ![n][t] = Idle]

(* Thirty seconds pass at n without a heartbeat of m.                      *)
Quiet(n, m) ==
  /\ stale < MaxStale
  /\ seen[n][m] = "fresh"
  /\ seen' = [seen EXCEPT ![n][m] = "stale"]
  /\ stale' = stale + 1
  /\ UNCHANGED <<peers, size, init, applied, leader, soft, ready, run, log, lead>>

Complete(n) == Cardinality(peers[n]) = size[n] - 1

StartRaft(n) == init' = [init EXCEPT ![n] = {n} \cup peers[n]]

\* Fault: a majority is enough to start.
CheckMajority(n, t) ==
  /\ IF 2 * (Cardinality(peers[n]) + 1) > size[n] /\ ~Started(n) THEN StartRaft(n) ELSE UNCHANGED init
  /\ Finish(n, t)

\* Fault: the peers are compared with the size of the whole cluster.
CheckAll(n, t) ==
  /\ IF Cardinality(peers[n]) = size[n] /\ ~Started(n) THEN StartRaft(n) ELSE UNCHANGED init
  /\ Finish(n, t)

(* The end of OnNodeJoin, with startRaft: StartNode with the broker and    *)
(* its peers (the zero ids among initPeers are ignored by raft).           *)
CheckPeers(n, t) ==
  /\ IF Complete(n) /\ ~Started(n) THEN StartRaft(n) ELSE UNCHANGED init
  /\ Finish(n, t)

\* Fault: the broker adds itself when it hears its own heartbeat.
AddBrokerSelf(n, t, m) ==
  IF m \in peers[n]
  THEN CheckPeers(n, t) /\ UNCHANGED peers
  ELSE /\ peers' = [peers EXCEPT ![n] = @ \cup {m}]
       /\ run' = [run EXCEPT ![n][t] = [pc |-> "added", node |-> m, leaves |-> {}]]
       /\ UNCHANGED init

(* AddBroker: with the broker itself and the known peers there is nothing  *)
(* to do; another one gets a peer client.                                  *)
AddBroker(n, t, m) ==
  IF m = n \/ m \in peers[n]
  THEN CheckPeers(n, t) /\ UNCHANGED peers
  ELSE /\ peers' = [peers EXCEPT ![n] = @ \cup {m}]
       /\ run' = [run EXCEPT ![n][t] = [pc |-> "added", node |-> m, leaves |-> {}]]
       /\ UNCHANGED init

(* A request or a response of m arrives: updateNode stamps m's entry and   *)
(* drops the stale ones, which it reports one by one before m itself.      *)
Hear(n, t, m) ==
  /\ run[n][t].pc = "idle"
  /\ LET old == {k \in Broker \ {m} : seen[n][k] = "stale"}
     IN  /\ seen' = [seen EXCEPT ![n] = [k \in Broker |->
                        IF k = m THEN "fresh" ELSE IF k \in old THEN "absent" ELSE @[k]]]
         /\ IF old = {}
            THEN AddBroker(n, t, m)
            ELSE /\ run' = [run EXCEPT ![n][t] = [pc |-> "leave", node |-> m, leaves |-> old]]
                 /\ UNCHANGED <<peers, init>>
  /\ UNCHANGED <<size, applied, leader, soft, ready, log, lead, stale>>

(* ProposeConfChange blocks while the raft node knows no leader; a change  *)
(* may be dropped, on its way or because another one is pending.           *)
Propose(n, op, m) ==
  /\ soft[n] # None
  /\ log' = Append(log, Change(op, m)) \/ UNCHANGED log

(* OnNodeLeave of one stale broker k: KickBroker, removeNode.              *)
OnNodeLeave(n, t, k) ==
  /\ run[n][t].pc = "leave"
  /\ k \in run[n][t].leaves
  /\ ready' = [ready EXCEPT ![n] = @ /\ k # n]
  /\ IF Started(n) THEN Propose(n, "remove", k) ELSE UNCHANGED log
  /\ LET left == run[n][t].leaves \ {k}
     IN  run' = [run EXCEPT ![n][t].leaves = left, ![n][t].pc = IF left = {} THEN "join" ELSE "leave"]
  /\ UNCHANGED <<seen, peers, size, init, applied, leader, soft, lead, stale>>

(* updateNode goes on to report m.                                         *)
Join(n, t) ==
  /\ run[n][t].pc = "join"
  /\ AddBroker(n, t, run[n][t].node)
  /\ UNCHANGED <<seen, size, applied, leader, soft, ready, log, lead, stale>>

(* The rest of AddBroker: the leader of a group this broker does not       *)
(* complete proposes it.                                                   *)
Added(n, t) ==
  /\ run[n][t].pc = "added"
  /\ IF ~Complete(n) /\ leader[n] = n THEN Propose(n, "add", run[n][t].node) ELSE UNCHANGED log
  /\ Goto(n, t, "check")
  /\ UNCHANGED <<seen, peers, size, init, applied, leader, soft, ready, lead, stale>>

OnNodeJoin(n, t) ==
  /\ run[n][t].pc = "check"
  /\ CheckPeers(n, t)
  /\ UNCHANGED <<seen, peers, size, applied, leader, soft, ready, log, lead, stale>>

(* applyEntries with the entries StartNode wrote, one per voter.           *)
ApplyVoters(n) ==
  /\ Started(n)
  /\ applied[n] = -1
  /\ applied' = [applied EXCEPT ![n] = 0]
  /\ size' = [size EXCEPT ![n] = Cardinality(peers[n]) + 1]
  /\ UNCHANGED <<seen, peers, init, leader, soft, ready, run, log, lead, stale>>

ApplyAdd(n) ==
  /\ log[applied[n] + 1].op = "add"
  /\ size' = [size EXCEPT ![n] = Cardinality(peers[n]) + 1]
  /\ UNCHANGED <<peers, leader, ready, lead>>

(* applyRemoveNode: the size is taken before the peer is deleted.  A       *)
(* leader that applies its own removal steps down.                         *)
ApplyRemove(n) ==
  LET e == log[applied[n] + 1]
  IN  /\ e.op = "remove"
      /\ size' = [size EXCEPT ![n] = Cardinality(peers[n]) + 1]
      /\ peers' = [peers EXCEPT ![n] = @ \ {e.node}]
      /\ leader' = [leader EXCEPT ![n] = IF e.node = n THEN None ELSE @]
      /\ ready' = [ready EXCEPT ![n] = @ /\ e.node # n]
      /\ lead' = IF e.node = n /\ lead = n THEN None ELSE lead

(* The leader replicates the log to the voters, and to a removed one up to *)
(* its removal at most.                                                    *)
Apply(n) ==
  /\ applied[n] \in 0 .. Len(log) - 1
  /\ n \in VotersAfter(init[n], applied[n]) \cup VotersAfter(init[n], applied[n] + 1)
  /\ applied' = [applied EXCEPT ![n] = @ + 1]
  /\ ApplyAdd(n) \/ ApplyRemove(n)
  /\ UNCHANGED <<seen, init, soft, run, log, stale>>

(* Raft elects a voter once a majority of the voters runs.                 *)
Elect(n) ==
  /\ lead = None
  /\ Started(n)
  /\ applied[n] = Len(log)
  /\ n \in Voters(n)
  /\ 2 * Cardinality({k \in Voters(n) : Started(k)}) > Cardinality(Voters(n))
  /\ lead' = n
  /\ UNCHANGED <<seen, peers, size, init, applied, leader, soft, ready, run, log, stale>>

(* applySoftState: a started voter learns of the leader.                   *)
ApplySoftState(n) ==
  /\ Started(n)
  /\ lead # None
  /\ soft[n] # lead
  /\ n \in Voters(n)
  /\ soft' = [soft EXCEPT ![n] = lead]
  /\ leader' = [leader EXCEPT ![n] = lead]
  /\ ready' = [ready EXCEPT ![n] = TRUE]
  /\ UNCHANGED <<seen, peers, size, init, applied, run, log, lead, stale>>

Step(n, t) ==
  \/ \E k \in Broker : OnNodeLeave(n, t, k)
  \/ Join(n, t)
  \/ Added(n, t)
  \/ OnNodeJoin(n, t)

Raft(n) == ApplyVoters(n) \/ Apply(n) \/ Elect(n) \/ ApplySoftState(n)

Next ==
  \E n \in Broker :
    \/ \E m \in Broker : Quiet(n, m)
    \/ \E t \in Thread[n] : (\E m \in Broker : Hear(n, t, m)) \/ Step(n, t)
    \/ Raft(n)

Spec == Init /\ [][Next]_vars

(***************************************************************************)
(* Properties.                                                             *)
(***************************************************************************)

(* The variables have their types; a broker is never its own peer, and a   *)
(* raft node includes itself among its voters.                             *)
TypeOK ==
  /\ seen \in [Broker -> [Broker -> {"absent", "fresh", "stale"}]]
  /\ \A n \in Broker : peers[n] \subseteq Broker \ {n}
  /\ size \in [Broker -> 1 .. Cardinality(Broker)]
  /\ \A n \in Broker : Started(n) => n \in init[n] /\ init[n] \subseteq Broker
  /\ applied \in [Broker -> -1 .. Len(log)]
  /\ leader \in [Broker -> Broker \cup {None}]
  /\ soft \in [Broker -> Broker \cup {None}]
  /\ ready \in [Broker -> BOOLEAN]
  /\ \A n \in Broker : \A t \in Thread[n] :
       /\ run[n][t].pc \in {"idle", "leave", "join", "added", "check"}
       /\ run[n][t].leaves # {} <=> run[n][t].pc = "leave"
  /\ \A i \in DOMAIN log : log[i] \in [op : {"add", "remove"}, node : Broker]
  /\ lead \in Broker \cup {None}
  /\ stale \in 0 .. MaxStale

(* The raft nodes of all brokers are started with the same voters: none    *)
(* bootstraps a group of its own, whichever of the two goroutines of each  *)
(* broker completes its peers and whatever goes stale meanwhile.           *)
BootstrapAgrees == \A n, m \in Broker : Started(n) /\ Started(m) => init[n] = init[m]

(* A broker that knows its peers and whose goroutines rest has started its *)
(* raft node: none misses the moment at which its peers are complete, and  *)
(* with heartbeats for ever the group forms.                               *)
StartNotMissed ==
  \A n \in Broker :
    /\ Cardinality(peers[n]) >= ClusterSize - 1
    /\ \A t \in Thread[n] : run[n][t] = Idle
    => Started(n)
=============================================================================
