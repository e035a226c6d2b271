-------------------------- MODULE MembershipProofs --------------------------
(***************************************************************************)
(* For any number of brokers, configured with their number as the cluster  *)
(* size, every raft node is started with all of them, and none that knows  *)
(* them is left unstarted.                                                 *)
(***************************************************************************)
EXTENDS Membership, FiniteSetTheorems, TLAPS

Activity == [pc : {"idle", "leave", "join", "added", "check"},
             node : Broker \cup {None}, leaves : SUBSET Broker]

(* A thread that is to report a broker to the cluster holds one.           *)
Reports(r) == r \in Activity /\ (r.pc \in {"leave", "join", "added"} => r.node \in Broker)

ThreadsOK ==
  /\ run = [n \in Broker |-> run[n]]
  /\ \A n \in Broker : run[n] \in [Thread[n] -> Activity]
  /\ \A n \in Broker : \A t \in Thread[n] : Reports(run[n][t])

DataOK ==
  /\ peers \in [Broker -> SUBSET Broker]
  /\ init \in [Broker -> SUBSET Broker]
  /\ size \in [Broker -> Int]
  /\ applied \in [Broker -> Int]

(* A broker is not its own peer; it expects the configured size until its  *)
(* raft node starts; and its raft node starts with all the brokers.        *)
Others == \A n \in Broker : n \notin peers[n]
Waiting == \A n \in Broker : init[n] = {} => size[n] = ClusterSize /\ applied[n] = -1
Whole == \A n \in Broker : init[n] # {} => init[n] = Broker

Inv == ThreadsOK /\ DataOK /\ Others /\ Waiting /\ Whole

LEMMA SizeInt == ClusterSize \in Int
  BY MembershipAssumption, FS_CardinalityType

LEMMA InitInv == Init => Inv
  <1> SUFFICES ASSUME Init PROVE Inv BY Zenon
  <1>1. Idle \in Activity /\ Reports(Idle) BY Zenon DEF Idle, Activity, Reports
  <1>2. ThreadsOK BY <1>1, Zenon DEF Init, ThreadsOK
  <1>3. DataOK BY SizeInt DEF Init, DataOK
  <1>4. Others /\ Waiting /\ Whole BY Zenon DEF Init, Others, Waiting, Whole
  <1> QED BY <1>2, <1>3, <1>4, Zenon DEF Inv

(* A broker that knows as many others as there are knows all of them.      *)
LEMMA AllPeers ==
  ASSUME NEW n \in Broker, NEW P \in SUBSET Broker, n \notin P,
         Cardinality(P) = Cardinality(Broker) - 1
  PROVE  {n} \cup P = Broker
  <1>1. IsFiniteSet(Broker) BY MembershipAssumption, Zenon
  <1>2. IsFiniteSet(P) /\ Cardinality(P) \in Nat
    BY <1>1, FS_Subset, FS_CardinalityType, Zenon
  <1>3. IsFiniteSet(P \cup {n}) /\ Cardinality(P \cup {n}) = Cardinality(P) + 1
    BY <1>2, FS_AddElement, Zenon
  <1>4. Cardinality(P \cup {n}) = Cardinality(Broker)
    BY <1>1, <1>2, <1>3, FS_CardinalityType
  <1>5. P \cup {n} = Broker
    BY <1>1, <1>4, FS_Subset, Zenon
  <1> QED BY <1>5, Zenon

(* A thread may be set to any activity that holds a broker if it must.     *)
LEMMA SetThread ==
  ASSUME ThreadsOK, NEW n \in Broker, NEW t \in Thread[n], NEW r, Reports(r),
         run' = [run EXCEPT ![n][t] = r]
  PROVE  ThreadsOK'
  BY Zenon DEF ThreadsOK, Reports

(* startRaft, when the peers are complete, and the end of the report.      *)
LEMMA CheckInv ==
  ASSUME ClusterSize = Cardinality(Broker), Inv, NEW n \in Broker, NEW t \in Thread[n],
         CheckPeers(n, t), UNCHANGED <<peers, size, applied>>
  PROVE  Inv'
  <1>1. Reports(Idle) BY Zenon DEF Idle, Activity, Reports
  <1>2. ThreadsOK' BY <1>1, SetThread, Zenon DEF Inv, CheckPeers, Finish
  <1>3. CASE UNCHANGED init
    BY <1>2, <1>3, Zenon DEF Inv, DataOK, Others, Waiting, Whole
  <1>4. CASE Complete(n) /\ ~Started(n) /\ StartRaft(n)
    <2>1. size[n] = Cardinality(Broker)
      BY <1>4, Zenon DEF Inv, Waiting, Started
    <2>2. {n} \cup peers[n] = Broker
      BY <1>4, <2>1, AllPeers DEF Inv, DataOK, Others, Complete
    <2>3. init' = [init EXCEPT ![n] = Broker] BY <1>4, <2>2, Zenon DEF StartRaft
    <2>4. DataOK' BY <2>3, Zenon DEF Inv, DataOK
    <2>5. Others' /\ Waiting' /\ Whole'
      BY <2>3, Zenon DEF Inv, DataOK, Others, Waiting, Whole
    <2> QED BY <1>2, <2>4, <2>5, Zenon DEF Inv
  <1> QED BY <1>3, <1>4, Zenon DEF CheckPeers

(* AddBroker, which adds another broker to the peers or ends the report.   *)
LEMMA AddInv ==
  ASSUME ClusterSize = Cardinality(Broker), Inv, NEW n \in Broker, NEW t \in Thread[n],
         NEW m \in Broker, AddBroker(n, t, m), UNCHANGED <<size, applied>>
  PROVE  Inv'
  <1>1. CASE m = n \/ m \in peers[n]
    BY <1>1, CheckInv, Zenon DEF AddBroker
  <1>2. CASE ~(m = n \/ m \in peers[n])
    <2> DEFINE r == [pc |-> "added", node |-> m, leaves |-> {}]
    <2>1. /\ peers' = [peers EXCEPT ![n] = @ \cup {m}]
          /\ run' = [run EXCEPT ![n][t] = r]
          /\ UNCHANGED init
      BY <1>2, Zenon DEF AddBroker
    <2>2. Reports(r) BY Zenon DEF Activity, Reports
    <2>3. ThreadsOK' BY <2>1, <2>2, SetThread, Zenon DEF Inv
    <2>4. DataOK' BY <2>1, Zenon DEF Inv, DataOK
    <2>5. Others' /\ Waiting' /\ Whole'
      BY <1>2, <2>1, Zenon DEF Inv, DataOK, Others, Waiting, Whole
    <2> QED BY <2>3, <2>4, <2>5, Zenon DEF Inv
  <1> QED BY <1>1, <1>2, Zenon

(* Each action preserves the invariant.                                    *)
LEMMA StepInv ==
  ASSUME ClusterSize = Cardinality(Broker), Inv, [Next]_vars
  PROVE  Inv'
  <1> USE DEF Inv
  <1>1. ASSUME NEW n \in Broker, NEW m \in Broker, Quiet(n, m) PROVE Inv'
    BY <1>1, Zenon DEF Quiet, ThreadsOK, DataOK, Others, Waiting, Whole
  <1>2. ASSUME NEW n \in Broker, NEW t \in Thread[n], NEW m \in Broker, Hear(n, t, m)
        PROVE  Inv'
    <2> DEFINE old == {k \in Broker \ {m} : seen[n][k] = "stale"}
               r == [pc |-> "leave", node |-> m, leaves |-> old]
    <2>1. CASE AddBroker(n, t, m)
      BY <1>2, <2>1, AddInv, Zenon DEF Hear
    <2>2. CASE run' = [run EXCEPT ![n][t] = r] /\ UNCHANGED <<peers, init>>
      <3>1. Reports(r) BY Zenon DEF Activity, Reports
      <3>2. ThreadsOK' BY <2>2, <3>1, SetThread, Zenon
      <3>3. UNCHANGED <<peers, init, size, applied>> BY <1>2, <2>2, Zenon DEF Hear
      <3> QED BY <3>2, <3>3, Zenon DEF DataOK, Others, Waiting, Whole
    <2> QED BY <1>2, <2>1, <2>2, Zenon DEF Hear
  <1>3. ASSUME NEW n \in Broker, NEW t \in Thread[n], NEW k \in Broker, OnNodeLeave(n, t, k)
        PROVE  Inv'
    <2> DEFINE left == run[n][t].leaves \ {k}
               r == [run[n][t] EXCEPT !.leaves = left, !.pc = IF left = {} THEN "join" ELSE "leave"]
    <2>1. Reports(run[n][t]) /\ run[n][t].pc = "leave"
      BY <1>3, Zenon DEF OnNodeLeave, ThreadsOK
    <2>2. Reports(r) BY <2>1, Zenon DEF Activity, Reports
    <2>3. run' = [run EXCEPT ![n][t] = r] BY <1>3, ZenonT(40) DEF OnNodeLeave, ThreadsOK, Activity
    <2>4. ThreadsOK' BY <2>2, <2>3, SetThread, Zenon
    <2> QED BY <1>3, <2>4, Zenon DEF OnNodeLeave, DataOK, Others, Waiting, Whole
  <1>4. ASSUME NEW n \in Broker, NEW t \in Thread[n], Join(n, t) PROVE Inv'
    <2>1. run[n][t].node \in Broker BY <1>4, Zenon DEF Join, ThreadsOK, Reports
    <2> QED BY <1>4, <2>1, AddInv, Zenon DEF Join
  <1>5. ASSUME NEW n \in Broker, NEW t \in Thread[n], Added(n, t) PROVE Inv'
    <2> DEFINE r == [run[n][t] EXCEPT !.pc = "check"]
    <2>1. Reports(r) BY DEF ThreadsOK, Activity, Reports
    <2>2. run' = [run EXCEPT ![n][t] = r] BY <1>5, Zenon DEF Added, Goto, ThreadsOK, Activity
    <2>3. ThreadsOK' BY <2>1, <2>2, SetThread, Zenon
    <2> QED BY <1>5, <2>3, Zenon DEF Added, DataOK, Others, Waiting, Whole
  <1>6. ASSUME NEW n \in Broker, NEW t \in Thread[n], OnNodeJoin(n, t) PROVE Inv'
    BY <1>6, CheckInv, Zenon DEF OnNodeJoin
  <1>7. ASSUME NEW n \in Broker, ApplyVoters(n) PROVE Inv'
    <2>1. Cardinality(peers[n]) + 1 \in Int
      BY MembershipAssumption, FS_Subset, FS_CardinalityType DEF DataOK
    <2>2. ThreadsOK' BY <1>7, Zenon DEF ApplyVoters, ThreadsOK
    <2>3. DataOK' BY <1>7, <2>1 DEF ApplyVoters, DataOK
    <2> QED BY <1>7, <2>2, <2>3, Zenon DEF ApplyVoters, Started, DataOK, Others, Waiting, Whole
  <1>8. ASSUME NEW n \in Broker, Apply(n) PROVE Inv'
    <2>1. Cardinality(peers[n]) + 1 \in Int
      BY MembershipAssumption, FS_Subset, FS_CardinalityType DEF DataOK
    <2>2. init[n] # {} BY <1>8 DEF Apply, Waiting
    <2>3. /\ size' = [size EXCEPT ![n] = Cardinality(peers[n]) + 1]
          /\ applied' = [applied EXCEPT ![n] = @ + 1]
          /\ UNCHANGED <<init, run>>
      BY <1>8, Zenon DEF Apply, ApplyAdd, ApplyRemove
    <2>4. \E K : peers' = [peers EXCEPT ![n] = @ \ K]
      <3>1. CASE ApplyAdd(n)
        <4>1. peers' = [peers EXCEPT ![n] = @ \ {}] BY <3>1, Zenon DEF ApplyAdd, DataOK
        <4> QED BY <4>1, Zenon
      <3>2. CASE ApplyRemove(n) BY <3>2, Zenon DEF ApplyRemove
      <3> QED BY <1>8, <3>1, <3>2, Zenon DEF Apply
    <2>5. ThreadsOK' BY <2>3, Zenon DEF ThreadsOK
    <2>6. DataOK' BY <2>1, <2>3, <2>4 DEF DataOK
    <2>7. Others' BY <2>4, Zenon DEF DataOK, Others
    <2>8. Waiting' /\ Whole' BY <2>2, <2>3, Zenon DEF DataOK, Waiting, Whole
    <2> QED BY <2>5, <2>6, <2>7, <2>8, Zenon
  <1>9. ASSUME NEW n \in Broker, Elect(n) \/ ApplySoftState(n) PROVE Inv'
    BY <1>9, Zenon DEF Elect, ApplySoftState, ThreadsOK, DataOK, Others, Waiting, Whole
  <1>10. CASE UNCHANGED vars
    BY <1>10, Zenon DEF vars, ThreadsOK, DataOK, Others, Waiting, Whole
  <1> QED BY <1>1, <1>2, <1>3, <1>4, <1>5, <1>6, <1>7, <1>8, <1>9, <1>10, Zenon DEF Next, Step, Raft

(* With the number of brokers configured as the cluster size, all raft     *)
(* nodes are started with the same voters, however many brokers and        *)
(* discovery goroutines there are: startRaft waits for size - 1 peers, the *)
(* size is the configured one until then, and a broker is no peer of its   *)
(* own, so those peers are all the others.                                 *)
THEOREM AgreedBootstrap ==
  ASSUME ClusterSize = Cardinality(Broker)
  PROVE  Spec => []BootstrapAgrees
  <1>1. Inv /\ [Next]_vars => Inv' BY StepInv, Zenon
  <1>2. Inv => BootstrapAgrees BY Zenon DEF Inv, Whole, BootstrapAgrees, Started
  <1> QED BY InitInv, <1>1, <1>2, PTL DEF Spec

(* A broker that knows all the others and has not started its raft node    *)
(* has a thread on its way to do so.                                       *)
Noticed ==
  \A n \in Broker :
    init[n] = {} /\ peers[n] = Broker \ {n} =>
      \E t \in Thread[n] : run[n][t].pc \in {"added", "check"}

LEMMA CardOthers ==
  ASSUME NEW n \in Broker
  PROVE  IsFiniteSet(Broker \ {n}) /\ Cardinality(Broker \ {n}) = Cardinality(Broker) - 1
  BY MembershipAssumption, FS_RemoveElement, Zenon

LEMMA InitNoticed == Init => Noticed
  <1> SUFFICES ASSUME Init, NEW n \in Broker, peers[n] = Broker \ {n} PROVE FALSE
    BY Zenon DEF Noticed
  <1>1. Cardinality({}) = Cardinality(Broker) - 1 BY CardOthers, Zenon DEF Init
  <1>2. Cardinality(Broker) \in Nat /\ Cardinality(Broker) >= 2
    BY MembershipAssumption, FS_CardinalityType
  <1> QED BY <1>1, <1>2, FS_EmptySet

(* The check at the end of a report starts the raft node if all are known. *)
LEMMA CheckNoticed ==
  ASSUME ClusterSize = Cardinality(Broker), Inv, Noticed, NEW n \in Broker,
         NEW t \in Thread[n], CheckPeers(n, t), UNCHANGED peers
  PROVE  Noticed'
  <1> SUFFICES ASSUME NEW m \in Broker, init'[m] = {}, peers[m] = Broker \ {m}
               PROVE  \E u \in Thread[m] : run'[m][u].pc \in {"added", "check"}
    BY Zenon DEF Noticed
  <1>1. CASE m = n
    <2>1. init[n] = {} BY <1>1 DEF CheckPeers, StartRaft, Inv, DataOK
    <2>2. Complete(n) BY <1>1, <2>1, CardOthers, Zenon DEF Complete, Inv, Waiting
    <2>3. init' = [init EXCEPT ![n] = {n} \cup peers[n]]
      BY <2>1, <2>2, Zenon DEF CheckPeers, Started, StartRaft
    <2> QED BY <1>1, <2>3, Zenon DEF Inv, DataOK
  <1>2. CASE m # n
    BY <1>2, Zenon DEF Noticed, CheckPeers, StartRaft, Finish, Inv, DataOK, ThreadsOK
  <1> QED BY <1>1, <1>2, Zenon

LEMMA AddNoticed ==
  ASSUME ClusterSize = Cardinality(Broker), Inv, Noticed, NEW n \in Broker,
         NEW t \in Thread[n], NEW m \in Broker, AddBroker(n, t, m)
  PROVE  Noticed'
  <1>1. CASE m = n \/ m \in peers[n]
    BY <1>1, CheckNoticed, Zenon DEF AddBroker
  <1>2. CASE ~(m = n \/ m \in peers[n])
    <2> DEFINE r == [pc |-> "added", node |-> m, leaves |-> {}]
    <2>1. /\ peers' = [peers EXCEPT ![n] = @ \cup {m}]
          /\ run' = [run EXCEPT ![n][t] = r]
          /\ UNCHANGED init
      BY <1>2, Zenon DEF AddBroker
    <2>2. run'[n][t].pc = "added" BY <2>1, Zenon DEF Inv, ThreadsOK
    <2>3. \A k \in Broker \ {n} : peers'[k] = peers[k] /\ run'[k] = run[k]
      BY <2>1, Zenon DEF Inv, DataOK, ThreadsOK
    <2> QED BY <2>1, <2>2, <2>3 DEF Noticed
  <1> QED BY <1>1, <1>2, Zenon

(* A thread that is on no such way may turn to anything else.              *)
LEMMA TurnNoticed ==
  ASSUME Inv, Noticed, NEW n \in Broker, NEW t \in Thread[n], NEW r,
         run[n][t].pc \in {"idle", "leave"} \/ r.pc = "check",
         run' = [run EXCEPT ![n][t] = r], UNCHANGED <<peers, init>>
  PROVE  Noticed'
  <1> SUFFICES ASSUME NEW m \in Broker, init[m] = {}, peers[m] = Broker \ {m}
               PROVE  \E u \in Thread[m] : run'[m][u].pc \in {"added", "check"}
    BY Zenon DEF Noticed
  <1>1. PICK u \in Thread[m] : run[m][u].pc \in {"added", "check"} BY Zenon DEF Noticed
  <1>2. CASE m = n /\ u = t
    BY <1>1, <1>2, Zenon DEF Inv, ThreadsOK
  <1>3. CASE ~(m = n /\ u = t)
    BY <1>1, <1>3 DEF Inv, ThreadsOK
  <1> QED BY <1>2, <1>3, Zenon

LEMMA StepNoticed ==
  ASSUME ClusterSize = Cardinality(Broker), Inv, Noticed, [Next]_vars
  PROVE  Noticed'
  <1>1. ASSUME NEW n \in Broker, NEW t \in Thread[n], NEW m \in Broker, Hear(n, t, m)
        PROVE  Noticed'
    <2>1. CASE AddBroker(n, t, m) BY <2>1, AddNoticed, Zenon
    <2>2. CASE ~AddBroker(n, t, m)
      <3>1. PICK r : run' = [run EXCEPT ![n][t] = r] BY <1>1, <2>2, Zenon DEF Hear
      <3>2. run[n][t].pc = "idle" /\ UNCHANGED <<peers, init>> BY <1>1, <2>2, Zenon DEF Hear
      <3> QED BY <3>1, <3>2, TurnNoticed, Zenon
    <2> QED BY <2>1, <2>2, Zenon
  <1>2. ASSUME NEW n \in Broker, NEW t \in Thread[n], NEW k \in Broker, OnNodeLeave(n, t, k)
        PROVE  Noticed'
    <2> DEFINE left == run[n][t].leaves \ {k}
               r == [run[n][t] EXCEPT !.leaves = left, !.pc = IF left = {} THEN "join" ELSE "leave"]
    <2>1. run' = [run EXCEPT ![n][t] = r]
      BY <1>2, ZenonT(40) DEF OnNodeLeave, Inv, ThreadsOK, Activity
    <2>2. run[n][t].pc = "leave" /\ UNCHANGED <<peers, init>> BY <1>2, Zenon DEF OnNodeLeave
    <2> HIDE DEF r
    <2> QED BY <2>1, <2>2, TurnNoticed, Zenon
  <1>3. ASSUME NEW n \in Broker, NEW t \in Thread[n], Join(n, t) PROVE Noticed'
    <2>1. run[n][t].node \in Broker BY <1>3, Zenon DEF Join, Inv, ThreadsOK, Reports
    <2> QED BY <1>3, <2>1, AddNoticed, Zenon DEF Join
  <1>4. ASSUME NEW n \in Broker, NEW t \in Thread[n], Added(n, t) PROVE Noticed'
    <2> DEFINE r == [run[n][t] EXCEPT !.pc = "check"]
    <2>1. run' = [run EXCEPT ![n][t] = r] BY <1>4, Zenon DEF Added, Goto, Inv, ThreadsOK, Activity
    <2>2. r.pc = "check" BY DEF Inv, ThreadsOK, Activity
    <2>3. UNCHANGED <<peers, init>> BY <1>4, Zenon DEF Added
    <2> HIDE DEF r
    <2> QED BY <2>1, <2>2, <2>3, TurnNoticed, Zenon
  <1>5. ASSUME NEW n \in Broker, NEW t \in Thread[n], OnNodeJoin(n, t) PROVE Noticed'
    BY <1>5, CheckNoticed, Zenon DEF OnNodeJoin
  <1>6. ASSUME NEW n \in Broker, Apply(n) PROVE Noticed'
    <2>1. init[n] # {} BY <1>6 DEF Apply, Inv, Waiting
    <2>2. UNCHANGED <<init, run>> BY <1>6, Zenon DEF Apply
    <2>3. \A m \in Broker \ {n} : peers'[m] = peers[m]
      BY <1>6, Zenon DEF Apply, ApplyAdd, ApplyRemove, Inv, DataOK
    <2> QED BY <2>1, <2>2, <2>3, Zenon DEF Noticed
  <1>7. ASSUME NEW n \in Broker, NEW m \in Broker,
               Quiet(n, m) \/ ApplyVoters(n) \/ Elect(n) \/ ApplySoftState(n)
        PROVE  Noticed'
    BY <1>7, Zenon DEF Quiet, ApplyVoters, Elect, ApplySoftState, Noticed
  <1>8. CASE UNCHANGED vars BY <1>8, Zenon DEF vars, Noticed
  <1> QED BY <1>1, <1>2, <1>3, <1>4, <1>5, <1>6, <1>7, <1>8, Zenon DEF Next, Step, Raft

(* No broker misses the moment at which its peers are complete, however    *)
(* many discovery goroutines it has: the one that adds the last peer       *)
(* checks after it, with the size still the configured one.                *)
THEOREM BootstrapNotMissed ==
  ASSUME ClusterSize = Cardinality(Broker)
  PROVE  Spec => []StartNotMissed
  <1>1. Inv /\ [Next]_vars => Inv' BY StepInv
  <1>2. Inv /\ Noticed /\ [Next]_vars => Noticed' BY StepNoticed, Zenon
  <1>3. Inv /\ Noticed => StartNotMissed
    <2> SUFFICES ASSUME Inv, Noticed, NEW n \in Broker,
                        Cardinality(peers[n]) >= ClusterSize - 1,
                        \A t \in Thread[n] : run[n][t] = Idle, init[n] = {}
                 PROVE  FALSE
      BY Zenon DEF StartNotMissed, Started
    <2>1. peers[n] \subseteq Broker \ {n} BY Zenon DEF Inv, DataOK, Others
    <2>2. Cardinality(peers[n]) <= Cardinality(Broker \ {n}) /\ Cardinality(peers[n]) \in Nat
      BY <2>1, CardOthers, FS_Subset, FS_CardinalityType, Zenon
    <2>3. Cardinality(peers[n]) = Cardinality(Broker \ {n})
      BY <2>2, CardOthers, MembershipAssumption, FS_CardinalityType, SMTT(30)
    <2>4. peers[n] = Broker \ {n} BY <2>1, <2>3, CardOthers, FS_Subset, Zenon
    <2> QED BY <2>4 DEF Noticed, Idle
  <1> QED BY InitInv, InitNoticed, <1>1, <1>2, <1>3, PTL DEF Spec

-----------------------------------------------------------------------------
(***************************************************************************)
(* The types, for any cluster size: brokers configured for fewer than      *)
(* there are keep them too.                                                *)
(***************************************************************************)

Changes == [op : {"add", "remove"}, node : Broker]

(* A thread has brokers left to report as gone exactly while it does that. *)
Leaving(r) == r.leaves # {} <=> r.pc = "leave"

LeavesOK == \A n \in Broker : \A t \in Thread[n] : Leaving(run[n][t])

LogOK == log \in Seq(Changes) /\ applied \in [Broker -> -1 .. Len(log)]

RaftOK ==
  /\ leader \in [Broker -> Broker \cup {None}] /\ soft \in [Broker -> Broker \cup {None}]
  /\ ready \in [Broker -> BOOLEAN] /\ lead \in Broker \cup {None}

SeenOK ==
  /\ seen \in [Broker -> [Broker -> {"absent", "fresh", "stale"}]]
  /\ stale \in 0 .. MaxStale

SizeOK == size \in [Broker -> 1 .. Cardinality(Broker)]

InitOK == \A n \in Broker : init[n] # {} => n \in init[n]

Typed ==
  /\ ThreadsOK /\ LeavesOK /\ DataOK /\ Others /\ LogOK /\ RaftOK /\ SeenOK /\ SizeOK /\ InitOK

LEMMA TypedSuffices == Typed => TypeOK
  <1> SUFFICES ASSUME Typed PROVE TypeOK BY Zenon
  <1>1. \A n \in Broker : peers[n] \subseteq Broker \ {n}
    BY Zenon DEF Typed, DataOK, Others
  <1>2. \A n \in Broker : Started(n) => n \in init[n] /\ init[n] \subseteq Broker
    BY Zenon DEF Typed, DataOK, InitOK, Started
  <1>3. \A n \in Broker : \A t \in Thread[n] :
          /\ run[n][t].pc \in {"idle", "leave", "join", "added", "check"}
          /\ run[n][t].leaves # {} <=> run[n][t].pc = "leave"
    BY Zenon DEF Typed, ThreadsOK, LeavesOK, Leaving, Reports, Activity
  <1>4. \A i \in DOMAIN log : log[i] \in Changes BY DEF Typed, LogOK
  <1> QED BY <1>1, <1>2, <1>3, <1>4, Zenon DEF Typed, TypeOK, LogOK, RaftOK, SeenOK, SizeOK, Changes

LEMMA InitTyped == Init => Typed
  <1> SUFFICES ASSUME Init PROVE Typed OBVIOUS
  <1>1. Idle \in Activity /\ Reports(Idle) /\ Leaving(Idle)
    BY Zenon DEF Idle, Activity, Reports, Leaving
  <1>2. ThreadsOK /\ LeavesOK BY <1>1, Zenon DEF Init, ThreadsOK, LeavesOK
  <1>3. ClusterSize \in 1 .. Cardinality(Broker) /\ 0 \in 0 .. MaxStale
    BY MembershipAssumption, FS_CardinalityType
  <1>4. DataOK /\ Others /\ InitOK BY SizeInt DEF Init, DataOK, Others, InitOK
  <1>5. LogOK /\ RaftOK BY DEF Init, LogOK, RaftOK
  <1>6. SeenOK /\ SizeOK BY <1>3, Zenon DEF Init, SeenOK, SizeOK
  <1> QED BY <1>2, <1>4, <1>5, <1>6, Zenon DEF Typed

LEMMA SetLeaves ==
  ASSUME Typed, NEW n \in Broker, NEW t \in Thread[n], NEW r, Reports(r), Leaving(r),
         run' = [run EXCEPT ![n][t] = r]
  PROVE  ThreadsOK' /\ LeavesOK'
  <1>1. ThreadsOK' BY SetThread, Zenon DEF Typed
  <1>2. LeavesOK' BY Zenon DEF Typed, LeavesOK, ThreadsOK
  <1> QED BY <1>1, <1>2, Zenon

(* The size a configuration change sets counts the broker and its peers.   *)
LEMMA PeersSize ==
  ASSUME Typed, NEW n \in Broker
  PROVE  Cardinality(peers[n]) + 1 \in 1 .. Cardinality(Broker)
  <1>1. peers[n] \in SUBSET (Broker \ {n}) BY Zenon DEF Typed, DataOK, Others
  <1>2. Cardinality(peers[n]) \in Nat /\ Cardinality(peers[n]) <= Cardinality(Broker \ {n})
    BY <1>1, CardOthers, FS_Subset, FS_CardinalityType, Zenon
  <1> QED BY <1>2, CardOthers, MembershipAssumption, FS_CardinalityType

LEMMA CheckTyped ==
  ASSUME Typed, NEW n \in Broker, NEW t \in Thread[n], CheckPeers(n, t), UNCHANGED <<peers, size, applied>>
  PROVE  ThreadsOK' /\ LeavesOK' /\ DataOK' /\ Others' /\ InitOK'
  <1>1. Reports(Idle) /\ Leaving(Idle) BY Zenon DEF Idle, Activity, Reports, Leaving
  <1>2. ThreadsOK' /\ LeavesOK' BY <1>1, SetLeaves, Zenon DEF CheckPeers, Finish
  <1>3. UNCHANGED init \/ init' = [init EXCEPT ![n] = {n} \cup peers[n]]
    BY Zenon DEF CheckPeers, StartRaft
  <1>4. DataOK' /\ InitOK' BY <1>3 DEF Typed, DataOK, InitOK
  <1> QED BY <1>2, <1>4, Zenon DEF Typed, Others

LEMMA AddTyped ==
  ASSUME Typed, NEW n \in Broker, NEW t \in Thread[n], NEW m \in Broker, AddBroker(n, t, m),
         UNCHANGED <<size, applied>>
  PROVE  ThreadsOK' /\ LeavesOK' /\ DataOK' /\ Others' /\ InitOK'
  <1>1. CASE m = n \/ m \in peers[n] BY <1>1, CheckTyped, Zenon DEF AddBroker
  <1>2. CASE ~(m = n \/ m \in peers[n])
    <2> DEFINE r == [pc |-> "added", node |-> m, leaves |-> {}]
    <2>1. /\ peers' = [peers EXCEPT ![n] = @ \cup {m}]
          /\ run' = [run EXCEPT ![n][t] = r]
          /\ UNCHANGED init
      BY <1>2, Zenon DEF AddBroker
    <2>2. Reports(r) /\ Leaving(r) BY Zenon DEF Activity, Reports, Leaving
    <2> HIDE DEF r
    <2>3. ThreadsOK' /\ LeavesOK' BY <2>1, <2>2, SetLeaves, Zenon
    <2>4. DataOK' /\ Others' /\ InitOK' BY <1>2, <2>1, Zenon DEF Typed, DataOK, Others, InitOK
    <2> QED BY <2>3, <2>4, Zenon
  <1> QED BY <1>1, <1>2, Zenon

(* What a broker proposes is a change, and no replica is ahead of the log. *)
LEMMA ProposeTyped ==
  ASSUME Typed, NEW n \in Broker, NEW op \in {"add", "remove"}, NEW m \in Broker,
         Propose(n, op, m) \/ UNCHANGED log, UNCHANGED applied
  PROVE  LogOK'
  <1>1. CASE UNCHANGED log BY <1>1, Zenon DEF Typed, LogOK
  <1>2. CASE log' = Append(log, Change(op, m))
    <2>1. Change(op, m) \in Changes BY Zenon DEF Change, Changes
    <2>2. log' \in Seq(Changes) /\ Len(log') = Len(log) + 1 /\ Len(log) \in Nat
      BY <1>2, <2>1 DEF Typed, LogOK
    <2>3. \A n_1 \in Broker : applied[n_1] \in -1 .. Len(log') BY <2>2 DEF Typed, LogOK
    <2> QED BY <2>2, <2>3, Zenon DEF Typed, LogOK
  <1> QED BY <1>1, <1>2, Zenon DEF Propose

LEMMA StepTyped == Typed /\ [Next]_vars => Typed'
  <1> SUFFICES ASSUME Typed, [Next]_vars PROVE Typed' BY Zenon
  <1>1. ASSUME NEW n \in Broker, NEW m \in Broker, Quiet(n, m) PROVE Typed'
    <2>1. SeenOK' BY <1>1, MembershipAssumption DEF Quiet, Typed, SeenOK
    <2> QED
      BY <1>1, <2>1, Zenon DEF Quiet, Typed, ThreadsOK, LeavesOK, DataOK, Others, LogOK, RaftOK, SizeOK, InitOK
  <1>2. ASSUME NEW n \in Broker, NEW t \in Thread[n], NEW m \in Broker, Hear(n, t, m)
        PROVE  Typed'
    <2> DEFINE old == {k \in Broker \ {m} : seen[n][k] = "stale"}
               r == [pc |-> "leave", node |-> m, leaves |-> old]
    <2>1. ThreadsOK' /\ LeavesOK' /\ DataOK' /\ Others' /\ InitOK'
      <3>1. CASE AddBroker(n, t, m) BY <1>2, <3>1, AddTyped, Zenon DEF Hear
      <3>2. CASE old # {} /\ run' = [run EXCEPT ![n][t] = r] /\ UNCHANGED <<peers, init>>
        <4>1. Reports(r) /\ Leaving(r) BY <3>2, Zenon DEF Activity, Reports, Leaving
        <4> HIDE DEF r
        <4>2. ThreadsOK' /\ LeavesOK' BY <3>2, <4>1, SetLeaves, Zenon
        <4>3. UNCHANGED <<peers, init, size, applied>> BY <1>2, <3>2, Zenon DEF Hear
        <4> QED BY <4>2, <4>3, Zenon DEF Typed, DataOK, Others, InitOK
      <3> QED BY <1>2, <3>1, <3>2, Zenon DEF Hear
    <2>2. SeenOK' BY <1>2, Zenon DEF Hear, Typed, SeenOK
    <2> QED BY <1>2, <2>1, <2>2, Zenon DEF Hear, Typed, LogOK, RaftOK, SizeOK
  <1>3. ASSUME NEW n \in Broker, NEW t \in Thread[n], NEW k \in Broker, OnNodeLeave(n, t, k)
        PROVE  Typed'
    <2> DEFINE left == run[n][t].leaves \ {k}
               r == [run[n][t] EXCEPT !.leaves = left, !.pc = IF left = {} THEN "join" ELSE "leave"]
    <2>1. Reports(run[n][t]) /\ run[n][t].pc = "leave"
      BY <1>3, Zenon DEF OnNodeLeave, Typed, ThreadsOK
    <2>2. Reports(r) /\ Leaving(r) BY <2>1, Zenon DEF Activity, Reports, Leaving
    <2>3. run' = [run EXCEPT ![n][t] = r] BY <1>3, Zenon DEF OnNodeLeave, Typed, ThreadsOK, Activity
    <2> HIDE DEF r
    <2>4. ThreadsOK' /\ LeavesOK' BY <2>2, <2>3, SetLeaves, Zenon
    <2>5. LogOK' BY <1>3, ProposeTyped, Zenon DEF OnNodeLeave
    <2>6. RaftOK' BY <1>3, Zenon DEF OnNodeLeave, Typed, RaftOK
    <2> QED BY <1>3, <2>4, <2>5, <2>6, Zenon DEF OnNodeLeave, Typed, DataOK, Others, SeenOK, SizeOK, InitOK
  <1>4. ASSUME NEW n \in Broker, NEW t \in Thread[n], Join(n, t) PROVE Typed'
    <2>1. run[n][t].node \in Broker BY <1>4, Zenon DEF Join, Typed, ThreadsOK, Reports
    <2>2. ThreadsOK' /\ LeavesOK' /\ DataOK' /\ Others' /\ InitOK'
      BY <1>4, <2>1, AddTyped, Zenon DEF Join
    <2> QED BY <1>4, <2>2, Zenon DEF Join, Typed, LogOK, RaftOK, SeenOK, SizeOK
  <1>5. ASSUME NEW n \in Broker, NEW t \in Thread[n], Added(n, t) PROVE Typed'
    <2> DEFINE r == [run[n][t] EXCEPT !.pc = "check"]
    <2>1. Reports(run[n][t]) /\ Leaving(run[n][t]) /\ run[n][t].pc = "added"
      BY <1>5, Zenon DEF Added, Typed, ThreadsOK, LeavesOK
    <2>2. Reports(r) /\ Leaving(r) /\ run[n][t].node \in Broker
      BY <2>1, Zenon DEF Activity, Reports, Leaving
    <2>3. run' = [run EXCEPT ![n][t] = r] BY <1>5, Zenon DEF Added, Goto, Typed, ThreadsOK, Activity
    <2> HIDE DEF r
    <2>4. ThreadsOK' /\ LeavesOK' BY <2>2, <2>3, SetLeaves, Zenon
    <2>5. LogOK' BY <1>5, <2>2, ProposeTyped, Zenon DEF Added
    <2> QED BY <1>5, <2>4, <2>5, Zenon DEF Added, Typed, DataOK, Others, RaftOK, SeenOK, SizeOK, InitOK
  <1>6. ASSUME NEW n \in Broker, NEW t \in Thread[n], OnNodeJoin(n, t) PROVE Typed'
    <2>1. ThreadsOK' /\ LeavesOK' /\ DataOK' /\ Others' /\ InitOK'
      BY <1>6, CheckTyped, Zenon DEF OnNodeJoin
    <2> QED BY <1>6, <2>1, Zenon DEF OnNodeJoin, Typed, LogOK, RaftOK, SeenOK, SizeOK
  <1>7. ASSUME NEW n \in Broker, ApplyVoters(n) PROVE Typed'
    <2>1. SizeOK' BY <1>7, PeersSize, Zenon DEF ApplyVoters, Typed, SizeOK
    <2>2. DataOK' BY <1>7, PeersSize DEF ApplyVoters, Typed, DataOK
    <2>3. LogOK' BY <1>7 DEF ApplyVoters, Typed, LogOK
    <2> QED
      BY <1>7, <2>1, <2>2, <2>3, Zenon
      DEF ApplyVoters, Typed, ThreadsOK, LeavesOK, Others, RaftOK, SeenOK, InitOK
  <1>8. ASSUME NEW n \in Broker, Apply(n) PROVE Typed'
    <2>1. /\ size' = [size EXCEPT ![n] = Cardinality(peers[n]) + 1]
          /\ applied' = [applied EXCEPT ![n] = @ + 1]
          /\ UNCHANGED <<seen, init, soft, run, log, stale>>
      BY <1>8, Zenon DEF Apply, ApplyAdd, ApplyRemove
    <2>2. \E K : peers' = [peers EXCEPT ![n] = @ \ K]
      <3>1. CASE ApplyAdd(n)
        <4>1. peers' = [peers EXCEPT ![n] = @ \ {}] BY <3>1, Zenon DEF ApplyAdd, Typed, DataOK
        <4> QED BY <4>1, Zenon
      <3>2. CASE ApplyRemove(n) BY <3>2, Zenon DEF ApplyRemove
      <3> QED BY <1>8, <3>1, <3>2, Zenon DEF Apply
    <2>3. SizeOK' BY <2>1, PeersSize, Zenon DEF Typed, SizeOK
    <2>4. DataOK' /\ Others' BY <2>1, <2>2, PeersSize DEF Typed, DataOK, Others
    <2>5. LogOK' BY <1>8, <2>1 DEF Apply, Typed, LogOK
    <2>6. RaftOK' BY <1>8, <2>1, ZenonT(40) DEF Apply, ApplyAdd, ApplyRemove, Typed, RaftOK
    <2> QED
      BY <2>1, <2>3, <2>4, <2>5, <2>6, Zenon DEF Typed, ThreadsOK, LeavesOK, SeenOK, InitOK
  <1>9. ASSUME NEW n \in Broker, Elect(n) \/ ApplySoftState(n) PROVE Typed'
    <2>1. RaftOK' BY <1>9, ZenonT(40) DEF Elect, ApplySoftState, Typed, RaftOK
    <2> QED
      BY <1>9, <2>1, Zenon
      DEF Elect, ApplySoftState, Typed, ThreadsOK, LeavesOK, DataOK, Others, LogOK, SeenOK, SizeOK,
          InitOK
  <1>10. CASE UNCHANGED vars
    BY <1>10, Zenon
    DEF vars, Typed, ThreadsOK, LeavesOK, DataOK, Others, LogOK, RaftOK, SeenOK, SizeOK, InitOK
  <1> QED BY <1>1, <1>2, <1>3, <1>4, <1>5, <1>6, <1>7, <1>8, <1>9, <1>10, Zenon DEF Next, Step, Raft

(* Whatever cluster size is configured and however many goroutines report  *)
(* brokers, none becomes its own peer, c.size (applyAddNode,               *)
(* applyRemoveNode) stays between one and the number of brokers, only      *)
(* brokers are proposed, and a raft node has itself among its voters.      *)
THEOREM MembershipTyped == Spec => []TypeOK
  BY InitTyped, StepTyped, TypedSuffices, PTL DEF Spec
=============================================================================
