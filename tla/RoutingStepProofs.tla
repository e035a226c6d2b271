----------------------------- MODULE RoutingStepProofs ----------------------
(***************************************************************************)
(* The steps of Routing that keep the invariant of RoutingInv: those that  *)
(* begin an operation, look clients up, send requests and take answers,    *)
(* and what the clients do meanwhile.                                      *)
(***************************************************************************)
EXTENDS RoutingInv, TLAPS

-----------------------------------------------------------------------------
(* What the invariant says of the properties.                              *)

(* The facts about the sizes of sets that the proofs use.                  *)
Sizes ==
  /\ \A T : IsFiniteSet(T) => /\ Cardinality(T) \in Nat
                              /\ \A S \in SUBSET T : IsFiniteSet(S) /\ Cardinality(S) <= Cardinality(T)
  /\ \A S : IsFiniteSet(S) => \A x : x \notin S => Cardinality(S \cup {x}) = Cardinality(S) + 1
  /\ \A S, T : IsFiniteSet(S) /\ IsFiniteSet(T) /\ S \cap T = {} =>
       Cardinality(S \cup T) = Cardinality(S) + Cardinality(T)
  /\ \A m \in Nat : IsFiniteSet(1 .. m) /\ Cardinality(1 .. m) = m

LEMMA Smaller ==
  ASSUME Sizes, NEW T, IsFiniteSet(T), NEW S, S \subseteq T
  PROVE  /\ IsFiniteSet(S) /\ Cardinality(S) \in Nat /\ Cardinality(T) \in Nat
         /\ Cardinality(S) <= Cardinality(T)
  <1>1. S \in SUBSET T BY Zenon
  <1> QED BY <1>1, Zenon DEF Sizes

LEMMA FiniteConns ==
  ASSUME Sizes, NEW S, S \subseteq Conn PROVE IsFiniteSet(S) /\ Cardinality(S) \in Nat
  BY RoutingAssumption, Smaller, Zenon

LEMMA AttemptsFinite ==
  ASSUME Sizes, NEW m \in Nat, NEW S, S \subseteq 1 .. m
  PROVE  IsFiniteSet(S) /\ Cardinality(S) \in Nat /\ Cardinality(S) <= m
  <1>1. IsFiniteSet(1 .. m) /\ Cardinality(1 .. m) = m BY Zenon DEF Sizes
  <1> QED BY <1>1, Smaller, Zenon

LEMMA PlaceBroker == ASSUME Types, NEW k \in Conn PROVE Host(k) \in Broker
  BY RoutingAssumption DEF Types, ConnRec, Server, Host

LEMMA Bounds == MaxAttempts \in Nat /\ 1 \in 1 .. MaxAttempts
  BY RoutingAssumption

LEMMA AttemptNat == ASSUME Types, NEW n \in Broker PROVE call[n].attempt \in Nat
  BY Bounds DEF Types, CallRec

LEMMA AttemptInRange ==
  ASSUME Types, NEW k \in Conn, NEW a \in 1 .. call[Host(k)].attempt
  PROVE  Host(k) \in Broker /\ a \in 1 .. MaxAttempts
  <1>1. Host(k) \in Broker BY PlaceBroker, Zenon
  <1>2. call[Host(k)].attempt \in 0 .. MaxAttempts BY <1>1, Zenon DEF Types, CallRec
  <1> QED BY <1>1, <1>2, Bounds

LEMMA OpNat == ASSUME Types PROVE op.success \in Nat /\ op.total \in Nat
  BY Zenon DEF Types, OpRec

LEMMA JobNat ==
  ASSUME Types, NEW n \in Broker, NEW a \in 1 .. MaxAttempts
  PROVE  job[n][a] \in JobRec /\ job[n][a].success \in Nat /\ job[n][a].total \in Nat
  <1>1. job[n][a] \in JobRec BY Zenon DEF Types
  <1> QED BY <1>1, Zenon DEF JobRec

LEMMA InvCounted == ASSUME Sizes, Inv PROVE CountedIsDelivered
  <1>1. TypeOK
    <2>1. directory \in Directories BY Zenon DEF Inv, Types
    <2>2. \A k \in Conn : conn[k].st \in {"new", "open", "closing", "closed"}
      BY Zenon DEF Inv, Types, ConnRec
    <2>3. op.todo \subseteq Broker /\ (op.kind \in Sends => op.success <= op.total)
      BY Zenon DEF Inv, Types, OpRec, Stages
    <2>4. ASSUME NEW n \in Broker
          PROVE  /\ call[n].pc \in {"none", "load", "wait", "done"}
                 /\ call[n].attempt \in 0 .. MaxAttempts
                 /\ call[n].targets \subseteq Client \X Net
                 /\ \A a \in 1 .. MaxAttempts : job[n][a].pc # "none" => a <= call[n].attempt
      BY Zenon DEF Inv, Types, CallRec, Stages, JobOK, Target
    <2> QED BY <2>1, <2>2, <2>3, <2>4, Zenon DEF TypeOK, Inv, Types
  <1>2. ASSUME op.kind \in Sends, ~op.grew
        PROVE  op.success <= Cardinality({k \in Conn : got[k] > 0})
    <2>1. op.success <= Cardinality(Counted) /\ op.success \in Nat
      BY <1>2, Zenon DEF Inv, CountInv, Types, OpRec
    <2>2. Counted \subseteq {k \in Conn : got[k] > 0} BY Zenon DEF Counted
    <2>3. Cardinality(Counted) <= Cardinality({k \in Conn : got[k] > 0})
      BY <2>2, FiniteConns, Smaller, Zenon
    <2>4. Cardinality(Counted) \in Nat /\ Cardinality({k \in Conn : got[k] > 0}) \in Nat
      BY FiniteConns, Zenon DEF Counted
    <2> QED BY <2>1, <2>3, <2>4
  <1> QED BY <1>1, <1>2, Zenon DEF CountedIsDelivered

LEMMA InvOnce == ASSUME Sizes, Inv PROVE OncePerAttempt
  <1> SUFFICES ASSUME NEW k \in Conn, ~op.grew \/ k \in steady \/ Host(k) # Self
               PROVE  got[k] <= call[Host(k)].attempt
    BY Zenon DEF OncePerAttempt, Host
  <1>1. call[Host(k)].attempt \in Nat BY PlaceBroker, AttemptNat, Zenon DEF Inv
  <1>2. got[k] <= Cardinality(Attempts(k)) /\ got[k] \in Nat BY Zenon DEF Inv, OnceInv, Types
  <1>3. Cardinality(Attempts(k)) <= call[Host(k)].attempt /\ Cardinality(Attempts(k)) \in Nat
    BY <1>1, AttemptsFinite, Zenon DEF Attempts
  <1> QED BY <1>1, <1>2, <1>3

LEMMA InvSteady == Inv => SteadyServed
  <1> SUFFICES ASSUME Inv, Returned, NEW k \in steady PROVE Done(k)
    BY Zenon DEF SteadyServed, Done
  <1>1. Host(k) \in Broker BY PlaceBroker, Zenon DEF Inv, Types
  <1> QED BY <1>1, Zenon DEF Inv, SteadyInv, Ahead, Returned, Busy

-----------------------------------------------------------------------------
(* The directory stays one, whatever is applied.                           *)

LEMMA EmptyTyped == EmptyDirectory \in Directories
  BY Zenon DEF EmptyDirectory, Directories

LEMMA OpsTyped == ASSUME NEW d \in Directories, NEW e \in Ops PROVE applyRaftOp(d, e) \in Directories
  <1>1. CASE e \in UserOpenedOps
    <2>1. applyRaftOp(d, e) = userOpenedOp(d, e) BY <1>1, Zenon DEF applyRaftOp, UserOpenedOps
    <2>2. userOpenedOp(d, e) \in Directories BY <1>1 DEF Directories, userOpenedOp, UserOpenedOps
    <2> QED BY <2>1, <2>2, Zenon
  <1>2. CASE e \in UserClosedOps
    <2>1. applyRaftOp(d, e) = userClosedOp(d, e) BY <1>2, Zenon DEF applyRaftOp, UserClosedOps
    <2>2. userClosedOp(d, e) \in Directories BY <1>2 DEF Directories, userClosedOp, UserClosedOps
    <2> QED BY <2>1, <2>2
  <1>3. CASE e \in JoinChannelOps
    <2>1. applyRaftOp(d, e) = joinChannelOp(d, e) BY <1>3, Zenon DEF applyRaftOp, JoinChannelOps
    <2>2. joinChannelOp(d, e) \in Directories
      BY <1>3 DEF Directories, joinChannelOp, JoinChannelOps, HasClient
    <2> QED BY <2>1, <2>2
  <1>4. CASE e \in LeaveChannelOps
    <2>1. applyRaftOp(d, e) = leaveChannelOp(d, e) BY <1>4, Zenon DEF applyRaftOp, LeaveChannelOps
    <2>2. leaveChannelOp(d, e) \in Directories
      BY <1>4 DEF Directories, leaveChannelOp, LeaveChannelOps, HasClient
    <2> QED BY <2>1, <2>2
  <1>5. CASE e \in RemoveNodeOps
    <2>1. applyRaftOp(d, e) = applyRemoveNode(d, e.nodeID) BY <1>5, Zenon DEF applyRaftOp, RemoveNodeOps
    <2>2. applyRemoveNode(d, e.nodeID) \in Directories
      BY <1>5, Zenon DEF Directories, applyRemoveNode, RemoveNodeOps, EmptyDirectory
    <2> QED BY <2>1, <2>2, Zenon
  <1> QED BY <1>1, <1>2, <1>3, <1>4, <1>5, Zenon DEF Ops

-----------------------------------------------------------------------------
(* The operations and what they look up.                                   *)

LEMMA OperationKind ==
  ASSUME NEW o \in Operations
  PROVE  o.kind \in Sends \cup InTurn /\ o.to \in User \cup Channel \cup {Absent} /\ Addressed(o)
  <1>1. o.to \in IF o.kind = "all" THEN {Absent} ELSE IF o.kind = "channel" THEN Channel ELSE User
    BY DEF Operations
  <1>2. CASE o \in ApiOperations
    <2>1. PICK r \in Requests(User \cup Channel, Sends \cup InTurn, {}) :
            o = [kind |-> r.kind, to |-> r.of]
      BY <1>2, Zenon DEF ApiOperations
    <2>2. o.kind \in Sends \cup InTurn BY <2>1, Zenon DEF Requests
    <2> QED BY <1>1, <2>2, Zenon DEF Addressed, Sends, InTurn
  <1>3. CASE o \notin ApiOperations
    <2>1. PICK route \in [enabled : BOOLEAN, resend : Sends \cup {"none"}],
               p \in User \cup Channel \cup {Absent} : o \in OnUserMessage(route, p)
      BY <1>3 DEF Operations
    <2>2. o \in {SendToAll, SendToUser(p), SendToChannel(p)}
      BY <2>1, Zenon DEF OnUserMessage, Sends
    <2>3. o.kind \in Sends BY <2>2 DEF SendToAll, SendToUser, SendToChannel, Sends
    <2> QED BY <1>1, <2>3, Zenon DEF Addressed, Sends, InTurn
  <1> QED BY <1>2, <1>3, Zenon

\* What is listed depends on the kind and the object of the operation only.
LEMMA ListedSame ==
  ASSUME NEW d, NEW o, NEW p, NEW n, o.kind = p.kind, o.to = p.to
  PROVE  Listed(d, o, n) = Listed(d, p, n)
  BY Zenon DEF Listed

\* The clients listed have a network each, and one only.
LEMMA ListedOnce ==
  ASSUME NEW d \in Directories, NEW o, o.kind \in Sends \cup InTurn, Addressed(o), NEW n \in Broker
  PROVE  /\ Listed(d, o, n) \subseteq Target
         /\ o.kind # "all" => Functional(Listed(d, o, n))
  <1>1. CASE o.kind = "all" BY <1>1, Zenon DEF Listed, Target
  <1>2. CASE o.kind # "all"
    <2> DEFINE m == IF o.kind = "channel" THEN d.channelClients[n][o.to]
                                          ELSE d.userClients[n][o.to]
    <2>1. m \in [Client -> Net \cup {NoNet}]
      BY <1>2 DEF Directories, Addressed, Sends, InTurn
    <2>2. Listed(d, o, n) = {<<c, m[c]>> : c \in {c \in Client : m[c] # NoNet}}
      BY <1>2, Zenon DEF Listed
    <2> HIDE DEF m
    <2> QED BY <2>1, <2>2 DEF Target, Functional
  <1> QED BY <1>1, <1>2, Zenon

-----------------------------------------------------------------------------
(* What keeps the three properties' parts of the invariant.                *)

(* Connections that were logged in keep their places.                      *)
SamePlaces ==
  \A k \in Conn : conn[k].st # "new" => conn'[k].at = conn[k].at /\ conn'[k].cid = conn[k].cid

\* The record of a call.
LEMMA CallRecord ==
  ASSUME NEW pc \in {"none", "load", "wait", "done"}, NEW live \in BOOLEAN,
         NEW attempt \in Nat, attempt <= MaxAttempts, NEW targets \in SUBSET Target
  PROVE  [pc |-> pc, live |-> live, attempt |-> attempt, targets |-> targets] \in CallRec
  <1>1. attempt \in 0 .. MaxAttempts BY Bounds
  <1> QED BY <1>1, Zenon DEF CallRec

LEMMA NoCallTyped == NoCall \in CallRec
  <1>1. 0 \in 0 .. MaxAttempts BY Bounds
  <1> QED BY <1>1, Zenon DEF NoCall, CallRec

LEMMA AttemptsCount ==
  ASSUME Sizes, Types', NEW k \in Conn
  PROVE  /\ Host(k)' \in Broker /\ (call[Host(k)].attempt)' \in Nat
         /\ IsFiniteSet(Attempts(k)') /\ Cardinality(Attempts(k)') \in Nat
  <1>1. (Host(k) \in Broker)' BY RoutingAssumption DEF Types, ConnRec, Server, Host
  <1>2. (call[Host(k)].attempt \in Nat)' BY <1>1, Bounds DEF Types, CallRec
  <1> QED BY <1>1, <1>2, AttemptsFinite, Zenon DEF Attempts

\* No message has been put in a queue yet.
LEMMA OnceAtFirst == ASSUME Sizes, Types', \A k \in Conn : got'[k] = 0 PROVE OnceInv'
  BY AttemptsCount DEF OnceInv

\* Nothing is counted yet.
LEMMA CountAtFirst ==
  ASSUME Sizes, op'.success = 0, \A n \in Broker, a \in 1 .. MaxAttempts : job'[n][a].success = 0
  PROVE  CountInv'
  <1>1. Cardinality(Counted') \in Nat BY FiniteConns, Zenon DEF Counted
  <1>2. ASSUME NEW n \in Broker, NEW a \in 1 .. MaxAttempts
        PROVE  Cardinality(ServedBy(n, a)') \in Nat
    BY FiniteConns, Zenon DEF ServedBy
  <1> QED BY <1>1, <1>2 DEF CountInv

\* A step that puts nothing in a queue, and after which no execution has a
\* connection ahead of it again that it had behind.
OnceStep ==
  /\ SamePlaces /\ got' = got /\ (op.grew => op'.grew) /\ steady' \subseteq steady
  /\ \A n \in Broker : call[n].attempt <= call'[n].attempt
  /\ \A k \in Conn : got[k] > 0 /\ (~op'.grew \/ k \in steady' \/ Host(k) # Self) =>
       \A a \in 1 .. call[Host(k)].attempt : Past(k, Host(k), a) => Past(k, Host(k), a)'

LEMMA OnceKept == ASSUME Sizes, Inv, Types', OnceStep PROVE OnceInv'
  <1>0. SUFFICES ASSUME NEW k \in Conn, (~op.grew \/ k \in steady \/ Host(k) # Self)'
                 PROVE  got'[k] <= Cardinality(Attempts(k)')
    BY Zenon DEF OnceInv
  <1>2. (call[Host(k)].attempt \in Nat)' BY AttemptsCount, Zenon
  <1>3. IsFiniteSet(Attempts(k)') /\ Cardinality(Attempts(k)') \in Nat BY AttemptsCount, Zenon
  <1>4. got[k] \in Nat /\ got' = got BY Zenon DEF Inv, Types, OnceStep
  <1>5. CASE got[k] > 0
    <2>1. Host(k)' = Host(k) /\ Host(k) \in Broker
      BY <1>5, PlaceBroker DEF OnceStep, SamePlaces, Inv, Stages, Placed, Host
    <2>2. call[Host(k)].attempt \in Nat /\ call[Host(k)].attempt <= call'[Host(k)].attempt
      BY <2>1, AttemptNat, Zenon DEF Inv, OnceStep
    <2>3. ~op.grew \/ k \in steady \/ Host(k) # Self BY <1>0, <2>1, Zenon DEF OnceStep
    <2>4. got[k] <= Cardinality(Attempts(k)) BY <2>3, Zenon DEF Inv, OnceInv
    <2>5. Attempts(k) \subseteq Attempts(k)'
      <3>1. ASSUME NEW a \in 1 .. call[Host(k)].attempt, Past(k, Host(k), a)
            PROVE  a \in 1 .. (call[Host(k)].attempt)' /\ Past(k, Host(k), a)'
        <4>1. Past(k, Host(k), a)' BY <3>1, <1>0, <1>5, <2>1, Zenon DEF OnceStep
        <4> QED BY <4>1, <2>1, <2>2, <1>2
      <3> QED BY <3>1, Zenon DEF Attempts
    <2>6. Cardinality(Attempts(k)) <= Cardinality(Attempts(k)') /\ Cardinality(Attempts(k)) \in Nat
      BY <1>3, <2>5, Smaller, Zenon
    <2> QED BY <1>3, <1>4, <2>4, <2>6
  <1> QED BY <1>3, <1>4, <1>5

\* A step that counts nothing, and after which no execution that has counted
\* something has a connection ahead of it again that it had behind.
CountStep ==
  /\ SamePlaces /\ op'.kind = op.kind /\ op'.success = op.success /\ (op.grew => op'.grew)
  /\ \A k \in Conn : got[k] > 0 => got'[k] > 0
  /\ \A n \in Broker : call[n].pc = "done" => call'[n].pc = "done"
  /\ \A n \in Broker, a \in 1 .. MaxAttempts :
       \/ job'[n][a].success = 0
       \/ /\ job'[n][a].success = job[n][a].success
          /\ ~op'.grew => \A k \in Conn :
               got[k] > 0 /\ Host(k) = n => (Past(k, n, a) => Past(k, n, a)')

LEMMA CountKept == ASSUME Sizes, Inv, CountStep PROVE CountInv'
  <1>0. SUFFICES ASSUME op'.kind \in Sends, ~op'.grew
                 PROVE  /\ op'.success <= Cardinality(Counted')
                        /\ \A n \in Broker, a \in 1 .. MaxAttempts :
                             job'[n][a].success <= Cardinality(ServedBy(n, a)')
    BY Zenon DEF CountInv
  <1>1. /\ op.success <= Cardinality(Counted)
        /\ \A n \in Broker, a \in 1 .. MaxAttempts : job[n][a].success <= Cardinality(ServedBy(n, a))
    BY <1>0, Zenon DEF Inv, CountInv, CountStep
  <1>2. \A k \in Conn : got[k] > 0 => got'[k] > 0 /\ Host(k)' = Host(k) /\ Host(k) \in Broker
    BY PlaceBroker DEF CountStep, SamePlaces, Inv, Stages, Placed, Host
  <1>3. op'.success <= Cardinality(Counted')
    <2>1. Counted \subseteq Counted' BY <1>2, Zenon DEF Counted, CountStep
    <2>2. IsFiniteSet(Counted') /\ Cardinality(Counted') \in Nat BY FiniteConns, Zenon DEF Counted
    <2>3. Cardinality(Counted) <= Cardinality(Counted') /\ Cardinality(Counted) \in Nat
      BY <2>1, <2>2, Smaller, Zenon
    <2>4. op.success \in Nat /\ op'.success = op.success BY Zenon DEF Inv, Types, OpRec, CountStep
    <2> QED BY <1>1, <2>2, <2>3, <2>4
  <1>4. ASSUME NEW n \in Broker, NEW a \in 1 .. MaxAttempts
        PROVE  job'[n][a].success <= Cardinality(ServedBy(n, a)')
    <2>1. IsFiniteSet(ServedBy(n, a)') /\ Cardinality(ServedBy(n, a)') \in Nat
      BY FiniteConns, Zenon DEF ServedBy
    <2>2. CASE job'[n][a].success = 0 BY <2>1, <2>2
    <2>3. CASE job'[n][a].success # 0
      <3>0. /\ job'[n][a].success = job[n][a].success
            /\ \A k \in Conn : got[k] > 0 /\ Host(k) = n => (Past(k, n, a) => Past(k, n, a)')
        BY <1>0, <2>3, Zenon DEF CountStep
      <3>1. ServedBy(n, a) \subseteq ServedBy(n, a)' BY <1>2, <3>0, Zenon DEF ServedBy
      <3>2. Cardinality(ServedBy(n, a)) <= Cardinality(ServedBy(n, a)')
            /\ Cardinality(ServedBy(n, a)) \in Nat
        BY <2>1, <3>1, Smaller, Zenon
      <3>3. job[n][a].success \in Nat BY Zenon DEF Inv, Types, JobRec
      <3> QED BY <1>1, <2>1, <3>0, <3>2, <3>3
    <2> QED BY <2>2, <2>3, Zenon
  <1> QED BY <1>3, <1>4, Zenon

\* Who is ahead of an operation stays so while its call and its execution stay.
LEMMA AheadStays ==
  ASSUME NEW k, Ahead(k), conn'[k].at = conn[k].at, conn'[k].cid = conn[k].cid,
         Host(k) \in op.todo => Host(k) \in op'.todo, op'.kind = op.kind,
         call'[Host(k)] = call[Host(k)], job'[Host(k)][1] = job[Host(k)][1]
  PROVE  Ahead(k)'
  <1>1. Host(k)' = Host(k) BY Zenon DEF Host
  <1>2. CASE Host(k) \in op.todo BY <1>1, <1>2, Zenon DEF Ahead
  <1>3. CASE call[Host(k)].pc = "load" /\ call[Host(k)].live BY <1>1, <1>3, Zenon DEF Ahead
  <1>4. CASE /\ call[Host(k)].pc = "wait" /\ job[Host(k)][1].pc = "run"
             /\ \/ <<conn[k].cid, conn[k].at[2]>> \in job[Host(k)][1].left
                \/ op.kind = "online" /\ job[Host(k)][1].success > 0
    BY <1>1, <1>4, Zenon DEF Ahead
  <1> QED BY <1>2, <1>3, <1>4, Zenon DEF Ahead

\* A step that keeps those ahead ahead which it does not serve.
LEMMA SteadyKept ==
  ASSUME Inv, Watch, failed' \in BOOLEAN,
         \A k \in Conn : ~failed' /\ Reachable(k, op) /\ Reachable(k, op)' /\ (Done(k) \/ Ahead(k))
                           => (Done(k) \/ Ahead(k))'
  PROVE  SteadyInv' /\ steady' \subseteq steady
  BY Zenon DEF Inv, Types, SteadyInv, Watch

-----------------------------------------------------------------------------
(* Every step keeps the invariant.                                         *)

LEMMA InitInv == ASSUME Sizes, Init PROVE Inv
  <1> USE RoutingAssumption
  <1>1. Types
    <2>1. directory \in Directories BY EmptyTyped, Zenon DEF Init
    <2>2. conn \in [Conn -> ConnRec] /\ conns \in [Server -> [Client -> Conn \cup {NoConn}]]
      BY Zenon DEF Init, NewConn, ConnRec
    <2>3. op \in OpRec /\ Addressed(op) BY Zenon DEF Init, NoOp, OpRec, Addressed, Sends, InTurn
    <2>4. call \in [Broker -> CallRec] BY DEF Init, NoCall, CallRec
    <2>5. job \in [Broker -> [1 .. MaxAttempts -> JobRec]] BY Zenon DEF Init, NoJobs, NoJob, JobRec
    <2> QED BY <2>1, <2>2, <2>3, <2>4, <2>5, Zenon DEF Types, Init
  <1>2. Stages
    <2>1. Idle /\ Placed BY Zenon DEF Init, NoOp, Idle, Placed, NewConn
    <2>2. ASSUME NEW n \in Broker PROVE CallOK(n) BY DEF Init, NoOp, NoCall, CallOK
    <2>3. ASSUME NEW n \in Broker, NEW a \in 1 .. MaxAttempts PROVE JobOK(n, a)
      BY DEF Init, NoOp, NoJobs, NoJob, JobOK
    <2> QED BY <2>1, <2>2, <2>3 DEF Stages, Init, NoOp
  <1>3. CountInv
    <2>1. Cardinality(Counted) \in Nat BY FiniteConns, Zenon DEF Counted
    <2>2. ASSUME NEW n \in Broker, NEW a \in 1 .. MaxAttempts
          PROVE  job[n][a].success <= Cardinality(ServedBy(n, a))
      <3>1. Cardinality(ServedBy(n, a)) \in Nat BY FiniteConns, Zenon DEF ServedBy
      <3>2. job[n][a].success = 0 BY Zenon DEF Init, NoJobs, NoJob
      <3> QED BY <3>1, <3>2
    <2> QED BY <2>1, <2>2 DEF CountInv, Init, NoOp
  <1>4. OnceInv
    <2> SUFFICES ASSUME NEW k \in Conn PROVE got[k] <= Cardinality(Attempts(k)) BY Zenon DEF OnceInv
    <2>1. call[Host(k)].attempt \in Nat
      BY <1>1, PlaceBroker DEF Types, CallRec
    <2>2. Cardinality(Attempts(k)) \in Nat BY <2>1, AttemptsFinite, Zenon DEF Attempts
    <2> QED BY <2>2 DEF Init
  <1>5. SteadyInv BY Zenon DEF Init, SteadyInv
  <1> QED BY <1>1, <1>2, <1>3, <1>4, <1>5, Zenon DEF Inv

LEMMA BeginInv == ASSUME Sizes, Inv, NEW o \in Operations, Begin(o) PROVE Inv'
  <1> USE RoutingAssumption
  <1>i. /\ op.kind = "all" /\ op.success = 0 /\ op.total = 0 /\ ~failed /\ ~op.grew
        /\ \A k \in Conn : got[k] = 0
        /\ \A n \in Broker : call[n] = NoCall /\ job[n] = NoJobs
    BY Zenon DEF Begin, Inv, Stages, Idle
  <1>o. o.kind \in Sends \cup InTurn /\ o.to \in User \cup Channel \cup {Absent} /\ Addressed(o)
    BY OperationKind, Zenon
  <1>p. /\ op'.pc = "run" /\ op'.kind = o.kind /\ op'.to = o.to /\ op'.todo = Broker
        /\ op'.total = 0 /\ op'.success = 0 /\ ~op'.grew /\ op' \in OpRec
    BY <1>i, <1>o, Zenon DEF Begin, Inv, Types, OpRec
  <1>u. /\ directory' = directory /\ conn' = conn /\ conns' = conns /\ call' = call /\ job' = job
        /\ got' = got /\ failed' = failed
    BY Zenon DEF Begin, clients
  <1>s. steady' = {k \in Conn : Reachable(k, op')} BY Zenon DEF Begin
  <1>1. Types'
    <2>1. Addressed(op)' BY <1>p, <1>o, Zenon DEF Addressed
    <2> QED BY <1>u, <1>p, <1>s, <2>1, Zenon DEF Inv, Types
  <1>2. Stages'
    <2>1. Idle' /\ Placed' BY <1>u, <1>p DEF Inv, Stages, Idle, Placed
    <2>2. ASSUME NEW n \in Broker PROVE CallOK(n)'
      BY <1>u, <1>p, <1>i DEF CallOK, NoCall, Functional
    <2>3. ASSUME NEW n \in Broker, NEW a \in 1 .. MaxAttempts PROVE JobOK(n, a)'
      BY <1>u, <1>i DEF JobOK, NoJobs, NoJob, Functional
    <2> QED BY <2>1, <2>2, <2>3, <1>p DEF Stages
  <1>3. CountInv' BY <1>i, <1>p, <1>u, CountAtFirst DEF NoJobs, NoJob
  <1>4. OnceInv' BY <1>1, <1>i, <1>u, OnceAtFirst, Zenon
  <1>5. SteadyInv'
    <2> SUFFICES ASSUME NEW k \in steady' PROVE ~failed' /\ Reachable(k, op)' /\ Ahead(k)'
      BY Zenon DEF SteadyInv
    <2>1. k \in Conn /\ Reachable(k, op') BY <1>s, Zenon
    <2>2. Reachable(k, op)' BY <2>1, <1>u, Zenon DEF Reachable
    <2>3. Host(k) \in Broker BY <2>1, PlaceBroker, Zenon DEF Inv
    <2>4. Ahead(k)' BY <2>3, <1>p, <1>u, Zenon DEF Ahead, Host
    <2> QED BY <2>2, <2>4, <1>u, <1>i, Zenon
  <1> QED BY <1>1, <1>2, <1>3, <1>4, <1>5, Zenon DEF Inv

LEMMA RangeInv == ASSUME Sizes, Inv, NEW n \in Broker, RangeBroker(n) PROVE Inv'
  <1>u. /\ directory' = directory /\ conn' = conn /\ conns' = conns /\ job' = job
        /\ got' = got /\ failed' = failed
    BY Zenon DEF RangeBroker, clients
  <1>o. /\ op'.pc = op.pc /\ op'.kind = op.kind /\ op'.to = op.to /\ op'.todo = op.todo \ {n}
        /\ op'.total = op.total /\ op'.success = op.success /\ op'.grew = op.grew /\ op' \in OpRec
    BY Zenon DEF RangeBroker, Inv, Types, OpRec
  <1>n. n \in op.todo /\ op.pc # "idle" /\ call[n].pc = "none" /\ call[n].attempt = 0
    BY Zenon DEF RangeBroker, Inv, Stages, Idle, CallOK
  <1> DEFINE new == [NoCall EXCEPT !.pc = "load", !.live = TRUE]
  <1>d. new \in CallRec BY NoCallTyped, Zenon DEF CallRec
  <1>e. new.pc = "load" /\ new.live /\ new.attempt = 0 /\ new.targets = {} BY Zenon DEF NoCall
  <1>f. call' = IF HasMap(directory, op, n) THEN [call EXCEPT ![n] = new] ELSE call
    BY Zenon DEF RangeBroker
  <1> HIDE DEF new
  <1>c. /\ call' \in [Broker -> CallRec]
        /\ \A m \in Broker : m # n => call'[m] = call[m]
        /\ HasMap(directory, op, n) => call'[n] = new
        /\ ~HasMap(directory, op, n) => call' = call
    BY <1>d, <1>f, Zenon DEF Inv, Types
  <1>w. Watch BY Zenon DEF RangeBroker
  <1>1. Types'
    <2>1. steady' \subseteq Conn BY <1>w, Zenon DEF Watch, Inv, Types
    <2> QED BY <1>u, <1>o, <1>c, <2>1, Zenon DEF Inv, Types, Addressed
  <1>2. Stages'
    <2>1. Idle' /\ Placed' BY <1>u, <1>o, <1>n, Zenon DEF Inv, Stages, Idle, Placed
    <2>2. ASSUME NEW m \in Broker PROVE CallOK(m)'
      <3>1. CASE m # n \/ ~HasMap(directory, op, n)
        BY <3>1, <1>u, <1>o, <1>c DEF Inv, Stages, CallOK, Functional
      <3>2. CASE m = n /\ HasMap(directory, op, n)
        BY <3>2, <1>u, <1>o, <1>c, <1>e DEF CallOK, Functional
      <3> QED BY <3>1, <3>2, Zenon
    <2>3. ASSUME NEW m \in Broker, NEW a \in 1 .. MaxAttempts PROVE JobOK(m, a)'
      <3>1. call'[m].attempt = call[m].attempt BY <1>c, <1>n, <1>e, Zenon
      <3> QED BY <3>1, <1>u, <1>o, Zenon DEF Inv, Stages, JobOK, Functional
    <2> QED BY <2>1, <2>2, <2>3, <1>o, Zenon DEF Inv, Stages
  <1>5. SteadyInv' /\ steady' \subseteq steady
    <2>1. ASSUME NEW k \in Conn, Reachable(k, op)', Done(k) \/ Ahead(k) PROVE (Done(k) \/ Ahead(k))'
      <3>1. CASE Done(k) BY <3>1, <1>u, <1>o, Zenon DEF Done
      <3>2. CASE Ahead(k) /\ Host(k) # n
        <4>1. Host(k) \in Broker BY PlaceBroker, Zenon DEF Inv
        <4>2. call'[Host(k)] = call[Host(k)] /\ job' = job /\ conn' = conn
          BY <3>2, <4>1, <1>u, <1>c, Zenon
        <4>3. op'.kind = op.kind /\ (Host(k) \in op.todo => Host(k) \in op'.todo) BY <3>2, <1>o, Zenon
        <4> QED BY <3>2, <4>2, <4>3, AheadStays, Zenon
      <3>3. CASE Host(k) = n
        <4>1. Listed(directory, op', n) # {} BY <2>1, <3>3, <1>u, Zenon DEF Reachable, Host
        <4>2. HasMap(directory, op, n) BY <4>1, <1>o, ListedSame DEF HasMap
        <4> QED BY <4>2, <3>3, <1>u, <1>c, <1>e, Zenon DEF Ahead, Host
      <3> QED BY <2>1, <3>1, <3>2, <3>3, Zenon
    <2> QED BY <2>1, <1>u, <1>w, SteadyKept, Zenon DEF Inv, Types
  <1>p. SamePlaces BY <1>u, Zenon DEF SamePlaces
  <1>q. \A k \in Conn, m \in Broker : \A a : Past(k, m, a) => Past(k, m, a)'
    BY <1>u, <1>o, Zenon DEF Past
  <1>3. CountInv'
    <2>1. \A m \in Broker : call[m].pc = "done" => call'[m].pc = "done" BY <1>c, <1>n, Zenon
    <2> QED BY <2>1, <1>u, <1>o, <1>p, <1>q, CountKept, Zenon DEF CountStep
  <1>4. OnceInv'
    <2>1. \A m \in Broker : call[m].attempt <= call'[m].attempt
      BY <1>c, <1>n, <1>e, AttemptNat DEF Inv
    <2> QED BY <2>1, <1>1, <1>u, <1>o, <1>p, <1>q, <1>5, OnceKept, PlaceBroker, Zenon DEF Inv, OnceStep, Host
  <1> QED BY <1>1, <1>2, <1>3, <1>4, <1>5, Zenon DEF Inv

\* Of the executions only a at broker n has changed.
OnlyJob(n, a) ==
  /\ job' \in [Broker -> [1 .. MaxAttempts -> JobRec]]
  /\ \A m \in Broker, b \in 1 .. MaxAttempts : m # n \/ b # a => job'[m][b] = job[m][b]

JobBecomes(n, a, x) == job' = [job EXCEPT ![n][a] = x]

LEMMA JobSet ==
  ASSUME Types, NEW n \in Broker, NEW a \in 1 .. MaxAttempts, NEW x \in JobRec, JobBecomes(n, a, x)
  PROVE  /\ OnlyJob(n, a)
         /\ job'[n][a] = x
  <1> DEFINE A == 1 .. MaxAttempts
             row == [job[n] EXCEPT ![a] = x]
  <1>0. a \in A OBVIOUS
  <1> HIDE DEF A
  <1>1. job \in [Broker -> [A -> JobRec]] BY Zenon DEF Types, A
  <1>2. row \in [A -> JobRec] /\ row[a] = x /\ \A b \in A : b # a => row[b] = job[n][b]
    BY <1>0, <1>1, Zenon
  <1>3. job' = [job EXCEPT ![n] = row] BY Zenon DEF JobBecomes
  <1> HIDE DEF row
  <1>4. job' \in [Broker -> [A -> JobRec]] /\ job'[n] = row /\ \A m \in Broker : m # n => job'[m] = job[m]
    BY <1>1, <1>2, <1>3, Zenon
  <1> QED BY <1>2, <1>4, Zenon DEF A, OnlyJob

\* A request is executed afresh.
LEMMA RequestEffect ==
  ASSUME Types, NEW n \in Broker, NEW a \in 1 .. MaxAttempts, NEW targets \in SUBSET Target,
         Request(n, a, targets)
  PROVE  /\ OnlyJob(n, a) /\ job'[n][a].pc = "run" /\ job'[n][a].left = targets
         /\ job'[n][a].total = 0 /\ job'[n][a].success = 0
  <1> DEFINE new == [NoJob EXCEPT !.pc = "run", !.left = targets]
  <1>1. new \in JobRec BY Zenon DEF NoJob, JobRec
  <1>2. new.pc = "run" /\ new.left = targets /\ new.total = 0 /\ new.success = 0 BY Zenon DEF NoJob
  <1>3. JobBecomes(n, a, new) BY Zenon DEF Request, JobBecomes
  <1> HIDE DEF new
  <1>4. OnlyJob(n, a) /\ job'[n][a] = new BY <1>1, <1>3, JobSet, Zenon
  <1> QED BY <1>2, <1>4, Zenon

\* Of the calls only that to broker n has changed.
OnlyCall(n) == call' \in [Broker -> CallRec] /\ \A m \in Broker : m # n => call'[m] = call[m]

\* The clients and the operation do nothing.
OthersStay ==
  directory' = directory /\ conn' = conn /\ conns' = conns /\ op' = op /\ got' = got /\ Watch

\* A call that gives up.
GivesUp(n) ==
  /\ call[n].pc \in {"load", "wait"} /\ n # Self /\ failed' = TRUE /\ job' = job /\ OthersStay
  /\ OnlyCall(n) /\ call'[n].pc = "done"
  /\ call'[n].attempt = call[n].attempt /\ call'[n].targets = {}

LEMMA Begun ==
  ASSUME Inv, NEW n \in Broker, call[n].pc \in {"load", "wait"}
  PROVE  op.pc # "idle" /\ n \notin op.todo
  BY DEF Inv, Stages, Idle, NoCall, CallOK

LEMMA GivenUpStages == ASSUME Inv, NEW n \in Broker, GivesUp(n) PROVE Types' /\ Stages' /\ steady' = {}
  <1>i. op.pc # "idle" /\ n \notin op.todo BY Begun, Zenon DEF GivesUp
  <1>s. steady' = {} BY Zenon DEF GivesUp, OthersStay, Watch
  <1>1. Types' BY <1>s, Zenon DEF Inv, Types, GivesUp, OthersStay, OnlyCall
  <1>2. Idle' /\ Placed' BY <1>i DEF Inv, Stages, Idle, Placed, GivesUp, OthersStay
  <1>3. ASSUME NEW m \in Broker PROVE CallOK(m)'
    <2>0. CallOK(m) /\ op' = op /\ failed' = TRUE BY Zenon DEF Inv, Stages, GivesUp, OthersStay
    <2>1. CASE m # n
      <3>1. call'[m] = call[m] BY <2>1, Zenon DEF GivesUp, OnlyCall
      <3> QED BY <2>0, <3>1, Zenon DEF CallOK, Functional
    <2>2. CASE m = n BY <1>i, <2>0, <2>2, Zenon DEF CallOK, Functional, GivesUp
    <2> QED BY <2>1, <2>2, Zenon
  <1>4. ASSUME NEW m \in Broker, NEW a \in 1 .. MaxAttempts PROVE JobOK(m, a)'
    <2>1. JobOK(m, a) /\ job' = job /\ op' = op /\ call'[m].attempt = call[m].attempt
      BY Zenon DEF Inv, Stages, GivesUp, OnlyCall, OthersStay
    <2> QED BY <2>1, Zenon DEF JobOK, Functional
  <1> QED BY <1>1, <1>s, <1>2, <1>3, <1>4, Zenon DEF Inv, Stages, GivesUp, OthersStay

LEMMA GivenUp == ASSUME Sizes, Inv, NEW n \in Broker, GivesUp(n) PROVE Inv'
  <1>0. /\ Types' /\ Stages' /\ steady' = {} /\ job' = job /\ conn' = conn /\ op' = op /\ got' = got
    BY GivenUpStages, Zenon DEF GivesUp, OthersStay
  <1>p. SamePlaces BY <1>0, Zenon DEF SamePlaces
  <1>q. \A k \in Conn, m \in Broker : \A a : Past(k, m, a) => Past(k, m, a)' BY <1>0, Zenon DEF Past
  <1>1. \A m \in Broker : call[m].pc = "done" => call'[m].pc = "done" BY Zenon DEF GivesUp, OnlyCall
  <1>2. \A m \in Broker : call[m].attempt <= call'[m].attempt
    BY AttemptNat DEF Inv, GivesUp, OnlyCall
  <1>3. \A k \in Conn : Host(k) \in Broker /\ Host(k)' = Host(k) BY <1>0, PlaceBroker, Zenon DEF Inv, Host
  <1>4. CountStep BY <1>0, <1>p, <1>q, <1>1, Zenon DEF CountStep
  <1>5. OnceStep BY <1>0, <1>p, <1>q, <1>2, <1>3, Zenon DEF OnceStep
  <1>6. SteadyInv' BY <1>0, Zenon DEF SteadyInv
  <1>7. CountInv' /\ OnceInv' BY <1>0, <1>4, <1>5, CountKept, OnceKept, Zenon
  <1> QED BY <1>0, <1>6, <1>7, Zenon DEF Inv

\* A request is sent for the first time, or once more.
Sent(n, a, targets) ==
  /\ call[n].pc \in {"load", "wait"} /\ a = call[n].attempt + 1
  /\ a = 1 \/ (failed' /\ n # Self)
  /\ failed' \in BOOLEAN /\ (failed => failed') /\ OthersStay
  /\ OnlyCall(n) /\ call'[n].pc = "wait" /\ call'[n].attempt = a
  /\ op.kind # "all" => Functional(targets) /\ Functional(call'[n].targets)
  /\ OnlyJob(n, a) /\ job'[n][a].pc = "run" /\ job'[n][a].left = targets
  /\ job'[n][a].total = 0 /\ job'[n][a].success = 0

LEMMA SentTypes ==
  ASSUME Types, NEW n \in Broker, NEW a \in 1 .. MaxAttempts, NEW targets, Sent(n, a, targets)
  PROVE  Types'
  <1>1. /\ call' \in [Broker -> CallRec] /\ job' \in [Broker -> [1 .. MaxAttempts -> JobRec]]
        /\ failed' \in BOOLEAN /\ OthersStay
    BY Zenon DEF Sent, OnlyCall, OnlyJob
  <1>2. steady' \subseteq Conn BY <1>1, Zenon DEF OthersStay, Watch, Types
  <1> QED BY <1>1, <1>2, Zenon DEF Types, OthersStay

LEMMA SentJobOK ==
  ASSUME Types, NEW n \in Broker, NEW a \in 1 .. MaxAttempts, NEW targets, Sent(n, a, targets),
         NEW m \in Broker, NEW b \in 1 .. MaxAttempts, JobOK(m, b)
  PROVE  JobOK(m, b)'
  <1>0. op' = op BY Zenon DEF Sent, OthersStay
  <1>1. CASE m = n /\ b = a
    <2>1. Sent(m, b, targets) BY <1>1, Zenon
    <2> QED BY <1>0, <2>1 DEF JobOK, Functional, Sent
  <1>2. CASE m # n \/ b # a
    <2>1. job'[m][b] = job[m][b] BY <1>2, Zenon DEF Sent, OnlyJob
    <2>2. b <= call[m].attempt => b <= call'[m].attempt
      <3>1. call[n].attempt \in Nat BY AttemptNat, Zenon
      <3> QED BY <3>1 DEF Sent, OnlyCall
    <2> QED BY <1>0, <2>1, <2>2, Zenon DEF JobOK, Functional
  <1> QED BY <1>1, <1>2, Zenon

LEMMA SentStages ==
  ASSUME Inv, NEW n \in Broker, NEW a \in 1 .. MaxAttempts, NEW targets, Sent(n, a, targets)
  PROVE  Stages'
  <1>i. op.pc # "idle" /\ n \notin op.todo BY Begun, Zenon DEF Sent
  <1>0. conn' = conn /\ conns' = conns /\ op' = op /\ got' = got BY Zenon DEF Sent, OthersStay
  <1>1. Idle' BY <1>0, <1>i, Zenon DEF Idle
  <1>2. Placed' BY <1>0 DEF Inv, Stages, Placed
  <1>3. ASSUME NEW m \in Broker PROVE CallOK(m)'
    <2>0. CallOK(m) /\ (failed => failed') BY Zenon DEF Inv, Stages, Sent
    <2>1. CASE m # n
      <3>1. call'[m] = call[m] BY <2>1, Zenon DEF Sent, OnlyCall
      <3> QED BY <1>0, <2>0, <3>1, Zenon DEF CallOK, Functional
    <2>2. CASE m = n
      <3>1. call'[n].attempt # 0 /\ (n = Self \/ ~failed' => call'[n].attempt <= 1) BY DEF Sent
      <3> QED BY <1>0, <1>i, <2>2, <3>1, Zenon DEF CallOK, Functional, Sent
    <2> QED BY <2>1, <2>2, Zenon
  <1>4. \A m \in Broker, b \in 1 .. MaxAttempts : JobOK(m, b)' BY SentJobOK, Zenon DEF Inv, Stages
  <1> QED BY <1>0, <1>1, <1>2, <1>3, <1>4, Zenon DEF Inv, Stages

LEMMA SentCount ==
  ASSUME Sizes, Inv, NEW n \in Broker, NEW a \in 1 .. MaxAttempts, NEW targets, Sent(n, a, targets)
  PROVE  CountInv'
  <1>0. conn' = conn /\ op' = op /\ got' = got BY Zenon DEF Sent, OthersStay
  <1>1. SamePlaces BY <1>0, Zenon DEF SamePlaces
  <1>2. \A m \in Broker : call[m].pc = "done" => call'[m].pc = "done" BY Zenon DEF Sent, OnlyCall
  <1>3. ASSUME NEW m \in Broker, NEW b \in 1 .. MaxAttempts, job'[m][b].success # 0
        PROVE  /\ job'[m][b].success = job[m][b].success
               /\ \A k \in Conn : Past(k, m, b) => Past(k, m, b)'
    <2>1. job'[m][b] = job[m][b] BY <1>3, Zenon DEF Sent, OnlyJob
    <2> QED BY <1>0, <2>1, Zenon DEF Past
  <1>4. CountStep BY <1>0, <1>1, <1>2, <1>3, Zenon DEF CountStep
  <1> QED BY <1>4, CountKept, Zenon

LEMMA SentOnce ==
  ASSUME Sizes, Inv, Types', NEW n \in Broker, NEW a \in 1 .. MaxAttempts, NEW targets,
         Sent(n, a, targets), steady' \subseteq steady
  PROVE  OnceInv'
  <1>0. conn' = conn /\ op' = op /\ got' = got BY Zenon DEF Sent, OthersStay
  <1>1. SamePlaces BY <1>0, Zenon DEF SamePlaces
  <1>n. call[n].attempt \in Nat BY AttemptNat, Zenon DEF Inv
  <1>2. \A m \in Broker : call[m].attempt <= call'[m].attempt
    BY <1>n, AttemptNat DEF Inv, Sent, OnlyCall
  <1>3. ASSUME NEW k \in Conn, NEW b \in 1 .. call[Host(k)].attempt, Past(k, Host(k), b)
        PROVE  Past(k, Host(k), b)'
    <2>1. Host(k) \in Broker /\ b \in 1 .. MaxAttempts BY AttemptInRange, Zenon DEF Inv
    <2>2. Host(k) # n \/ b # a BY <1>n DEF Sent
    <2>3. job'[Host(k)][b] = job[Host(k)][b] BY <2>1, <2>2, Zenon DEF Sent, OnlyJob
    <2> QED BY <1>0, <1>3, <2>3, Zenon DEF Past, Host
  <1>4. OnceStep BY <1>0, <1>1, <1>2, <1>3, Zenon DEF OnceStep
  <1> QED BY <1>4, OnceKept, Zenon

\* A connection listed when the map is taken is ahead of the execution.
LEMMA SentAhead ==
  ASSUME Inv, NEW n \in Broker, Sent(n, 1, Listed(directory, op, n)) \/ (~call[n].live /\ Sent(n, 1, {})),
         call[n].pc = "load", NEW k \in Conn, Reachable(k, op), Ahead(k)
  PROVE  Ahead(k)'
  <1>1. PICK targets : Sent(n, 1, targets) /\ (call[n].live => targets = Listed(directory, op, n))
    OBVIOUS
  <1>0. conn' = conn /\ op' = op BY <1>1, Zenon DEF Sent, OthersStay
  <1>h. Host(k)' = Host(k) /\ Host(k) \in Broker BY <1>0, PlaceBroker, Zenon DEF Host, Inv
  <1>2. CASE Host(k) # n
    <2>1. call'[Host(k)] = call[Host(k)] /\ job'[Host(k)][1] = job[Host(k)][1]
      BY <1>1, <1>2, <1>h, Bounds, Zenon DEF Sent, OnlyCall, OnlyJob
    <2> QED BY <1>0, <1>h, <2>1, Zenon DEF Ahead
  <1>3. CASE Host(k) = n
    <2>1. n \notin op.todo BY Begun, Zenon
    <2>2. call[n].live BY <1>3, <2>1, Zenon DEF Ahead
    <2>3. <<conn[k].cid, conn[k].at[2]>> \in targets BY <1>1, <1>3, <2>2, Zenon DEF Reachable, Host
    <2>4. call'[n].pc = "wait" /\ job'[n][1].pc = "run" /\ job'[n][1].left = targets
      BY <1>1, Zenon DEF Sent
    <2> QED BY <1>0, <1>3, <1>h, <2>3, <2>4, Zenon DEF Ahead
  <1> QED BY <1>2, <1>3, Zenon

Waits(n, targets) ==
  call' = [call EXCEPT ![n] = [pc |-> "wait", live |-> n = Self /\ call[n].live, attempt |-> 1,
                               targets |-> IF n = Self THEN {} ELSE targets]]

LEMMA LoadCall ==
  ASSUME Types, NEW n \in Broker, NEW targets \in SUBSET Target,
         Waits(n, targets)
  PROVE  /\ OnlyCall(n) /\ call'[n].pc = "wait" /\ call'[n].attempt = 1
         /\ call'[n].targets \in {{}, targets}
  <1> DEFINE kept == IF n = Self THEN {} ELSE targets
             live == n = Self /\ call[n].live
             new == [pc |-> "wait", live |-> live, attempt |-> 1, targets |-> kept]
  <1>0. call \in [Broker -> CallRec] BY Zenon DEF Types
  <1>1. kept \in SUBSET Target /\ kept \in {{}, targets} BY Zenon
  <1>2. live \in BOOLEAN BY <1>0, Zenon DEF CallRec
  <1> HIDE DEF kept, live
  <1>3. new \in CallRec
    <2>1. 1 \in Nat /\ 1 <= MaxAttempts BY Bounds
    <2> QED BY <1>1, <1>2, <2>1, CallRecord, Zenon
  <1>4. new.pc = "wait" /\ new.attempt = 1 /\ new.targets = kept BY Zenon
  <1>5. call' = [call EXCEPT ![n] = new] BY Zenon DEF kept, live, Waits
  <1> HIDE DEF new
  <1>6. OnlyCall(n) /\ call'[n] = new BY <1>0, <1>3, <1>5, Zenon DEF OnlyCall
  <1> QED BY <1>1, <1>4, <1>6, Zenon

LEMMA LoadSent ==
  ASSUME Sizes, Inv, NEW n \in Broker, call[n].pc = "load", NEW targets,
         Sent(n, 1, targets), targets = IF call[n].live THEN Listed(directory, op, n) ELSE {},
         failed' = failed
  PROVE  Inv'
  <1>0. 1 \in 1 .. MaxAttempts BY Bounds, Zenon
  <1>1. Types' /\ Stages' /\ CountInv' BY <1>0, SentTypes, SentStages, SentCount, Zenon DEF Inv
  <1>2. SteadyInv' /\ steady' \subseteq steady
    <2>1. ASSUME NEW k \in Conn, Reachable(k, op), Done(k) \/ Ahead(k) PROVE (Done(k) \/ Ahead(k))'
      <3>1. CASE Done(k) BY <3>1, Zenon DEF Done, Sent, OthersStay
      <3>2. CASE Ahead(k) BY <2>1, <3>2, SentAhead, Zenon
      <3> QED BY <2>1, <3>1, <3>2, Zenon
    <2> QED BY <2>1, SteadyKept, Zenon DEF Sent, OthersStay
  <1>3. OnceInv' BY <1>0, <1>1, <1>2, SentOnce, Zenon
  <1> QED BY <1>1, <1>2, <1>3, Zenon DEF Inv

LEMMA LoadInv == ASSUME Sizes, Inv, NEW n \in Broker, Load(n) PROVE Inv'
  <1> DEFINE targets == IF call[n].live THEN Listed(directory, op, n) ELSE {}
  <1>0. Types /\ call \in [Broker -> CallRec] BY Zenon DEF Inv, Types
  <1>t. targets \in SUBSET Target /\ (op.kind # "all" => Functional(targets))
    BY ListedOnce, Zenon DEF Functional, Inv, Types, OpRec
  <1>u. OthersStay /\ call[n].pc = "load" BY Zenon DEF Load, clients, OthersStay
  <1>a. call[n].attempt = 0 BY <1>u, Zenon DEF Inv, Stages, CallOK
  <1>1. CASE /\ Request(n, 1, targets)
             /\ Waits(n, targets)
             /\ UNCHANGED failed
    <2>0. targets = IF call[n].live THEN Listed(directory, op, n) ELSE {} BY Zenon
    <2> HIDE DEF targets
    <2>1. /\ OnlyCall(n) /\ call'[n].pc = "wait" /\ call'[n].attempt = 1
          /\ call'[n].targets \in {{}, targets}
      BY <1>0, <1>1, <1>t, LoadCall, Zenon
    <2>2. /\ OnlyJob(n, 1) /\ job'[n][1].pc = "run" /\ job'[n][1].left = targets
          /\ job'[n][1].total = 0 /\ job'[n][1].success = 0
      BY <1>0, <1>1, <1>t, Bounds, RequestEffect
    <2>3. failed' = failed /\ failed' \in BOOLEAN BY <1>0, <1>1, Zenon DEF Types
    <2>4. op.kind # "all" => Functional(call'[n].targets) BY <1>t, <2>1, Zenon DEF Functional
    <2>5. Sent(n, 1, targets) BY <1>t, <1>u, <1>a, <2>1, <2>2, <2>3, <2>4 DEF Sent
    <2> QED BY <1>u, <2>0, <2>3, <2>5, LoadSent, Zenon
  <1>2. CASE /\ n # Self
             /\ call' = [call EXCEPT ![n] = [NoCall EXCEPT !.pc = "done"]]
             /\ failed' = TRUE
             /\ UNCHANGED job
    <2> DEFINE new == [NoCall EXCEPT !.pc = "done"]
    <2>1. new \in CallRec BY NoCallTyped, Zenon DEF CallRec
    <2>2. new.pc = "done" /\ new.attempt = 0 /\ new.targets = {} BY Zenon DEF NoCall
    <2>3. call' = [call EXCEPT ![n] = new] BY <1>2, Zenon
    <2> HIDE DEF new
    <2>4. OnlyCall(n) /\ call'[n] = new BY <1>0, <2>1, <2>3, Zenon DEF OnlyCall
    <2>0. n # Self /\ failed' = TRUE /\ job' = job BY <1>2, Zenon
    <2>5. GivesUp(n) BY <2>0, <1>u, <1>a, <2>2, <2>4, Zenon DEF GivesUp
    <2> QED BY <2>5, GivenUp, Zenon
  <1> QED BY <1>1, <1>2, Zenon DEF Load, Waits

LEMMA RpcFailsInv == ASSUME Sizes, Inv, NEW n \in Broker, RpcFails(n) PROVE Inv'
  <1>u. OthersStay /\ call[n].pc = "wait" /\ n # Self /\ failed' = TRUE
    BY Zenon DEF RpcFails, clients, OthersStay
  <1>0. Types /\ call \in [Broker -> CallRec] BY DEF Inv, Types
  <1>a. call[n].attempt \in Nat BY <1>0, AttemptNat, Zenon
  <1>s. steady' = {} BY <1>u, Zenon DEF OthersStay, Watch
  <1>1. CASE /\ call[n].attempt < MaxAttempts
             /\ Request(n, call[n].attempt + 1, call[n].targets)
             /\ call' = [call EXCEPT ![n].attempt = @ + 1]
    <2> DEFINE a == call[n].attempt + 1
    <2>1. a \in 1 .. MaxAttempts /\ a \in 0 .. MaxAttempts BY <1>1, <1>a, Bounds
    <2>2. Request(n, a, call[n].targets) /\ a = call[n].attempt + 1 BY <1>1, Zenon
    <2>3. call' = [call EXCEPT ![n].attempt = a] BY <1>1, Zenon
    <2> HIDE DEF a
    <2>4. /\ OnlyCall(n)
          /\ call'[n].attempt = a /\ call'[n].pc = call[n].pc /\ call'[n].targets = call[n].targets
      BY <1>0, <2>1, <2>3, Zenon DEF OnlyCall, CallRec
    <2>5. call[n].targets \in SUBSET Target /\ (op.kind # "all" => Functional(call[n].targets))
      BY <1>0, Zenon DEF CallRec, Inv, Stages, CallOK
    <2>6. /\ OnlyJob(n, a) /\ job'[n][a].pc = "run" /\ job'[n][a].left = call[n].targets
          /\ job'[n][a].total = 0 /\ job'[n][a].success = 0
      BY <1>0, <2>1, <2>2, <2>5, RequestEffect
    <2>7. Sent(n, a, call[n].targets) BY <1>u, <2>2, <2>4, <2>5, <2>6, Zenon DEF Sent
    <2>8. Types' /\ Stages' /\ CountInv' BY <2>1, <2>7, SentTypes, SentStages, SentCount, Zenon DEF Inv
    <2>9. OnceInv' /\ SteadyInv' BY <1>s, <2>1, <2>7, <2>8, SentOnce, Zenon DEF SteadyInv
    <2> QED BY <2>8, <2>9, Zenon DEF Inv
  <1>2. CASE call' = [call EXCEPT ![n].pc = "done", ![n].targets = {}] /\ UNCHANGED job
    <2>1. /\ OnlyCall(n) /\ call'[n].pc = "done"
          /\ call'[n].attempt = call[n].attempt /\ call'[n].targets = {}
      BY <1>0, <1>2, Zenon DEF OnlyCall, CallRec
    <2>0. job' = job BY <1>2, Zenon
    <2>2. GivesUp(n) BY <2>0, <1>u, <2>1, Zenon DEF GivesUp
    <2> QED BY <2>2, GivenUp
  <1> QED BY <1>1, <1>2, Zenon DEF RpcFails

\* Only the clients do something.
LEMMA ClientsMove ==
  ASSUME Sizes, Inv, UNCHANGED <<directory, op, call, job, got, failed>>, Watch, SamePlaces,
         conn' \in [Conn -> ConnRec], conns' \in [Server -> [Client -> Conn \cup {NoConn}]], Placed'
  PROVE  Inv'
  <1>1. Types'
    <2>1. steady' \subseteq Conn BY Zenon DEF Watch, Inv, Types
    <2> QED BY <2>1, Zenon DEF Inv, Types
  <1>5. SteadyInv' /\ steady' \subseteq steady
    <2>1. ASSUME NEW k \in Conn, Reachable(k, op), Done(k) \/ Ahead(k) PROVE (Done(k) \/ Ahead(k))'
      <3>1. conn'[k].at = conn[k].at /\ conn'[k].cid = conn[k].cid BY <2>1, Zenon DEF Reachable, SamePlaces
      <3>2. CASE Done(k) BY <3>2, Zenon DEF Done
      <3>3. CASE Ahead(k) BY <3>1, <3>3, AheadStays, Zenon
      <3> QED BY <2>1, <3>2, <3>3, Zenon
    <2>2. failed' \in BOOLEAN BY Zenon DEF Inv, Types
    <2> QED BY <2>1, <2>2, SteadyKept, Zenon
  <1>2. Stages'
    <2>1. Idle' BY <1>5, Zenon DEF Inv, Stages, Idle
    <2>2. ASSUME NEW n \in Broker PROVE CallOK(n)' BY Zenon DEF Inv, Stages, CallOK, Functional
    <2>3. ASSUME NEW n \in Broker, NEW a \in 1 .. MaxAttempts PROVE JobOK(n, a)'
      BY Zenon DEF Inv, Stages, JobOK, Functional
    <2> QED BY <2>1, <2>2, <2>3, Zenon DEF Inv, Stages
  <1>q. \A k \in Conn : got[k] > 0 =>
          \A n, a : Past(k, n, a) => Past(k, n, a)'
    BY DEF Past, SamePlaces, Inv, Types, Stages, Placed
  <1>3. CountInv' BY <1>q, CountKept, Zenon DEF CountStep
  <1>4. OnceInv'
    <2>1. \A n \in Broker : call[n].attempt <= call'[n].attempt BY AttemptNat DEF Inv
    <2>2. \A k \in Conn : got[k] > 0 /\ (~op'.grew \/ k \in steady' \/ Host(k) # Self) =>
            \A a \in 1 .. call[Host(k)].attempt :
              Past(k, Host(k), a) => Past(k, Host(k), a)'
      <3> SUFFICES ASSUME NEW k \in Conn, got[k] > 0, NEW a, Past(k, Host(k), a)
                   PROVE  Past(k, Host(k), a)'
        BY SMTT(30)
      <3>1. conn'[k].at = conn[k].at BY DEF SamePlaces, Inv, Stages, Placed
      <3> QED BY <3>1, <1>q, Zenon DEF Host
    <2> QED BY <2>1, <2>2, <1>1, <1>5, OnceKept, Zenon DEF OnceStep
  <1> QED BY <1>1, <1>2, <1>3, <1>4, <1>5, Zenon DEF Inv

LEMMA ConnectInv ==
  ASSUME Sizes, Inv, NEW k \in Conn, NEW s \in Server, NEW c \in Client, Connect(k, s, c)
  PROVE  Inv'
  <1>k. k # NoConn /\ conn[k].st = "new" BY RoutingAssumption, Zenon DEF Connect
  <1>1. conn' \in [Conn -> ConnRec] /\ (\A j \in Conn : j # k => conn'[j] = conn[j])
        /\ conn'[k].st = "open" /\ conn'[k].at = s /\ conn'[k].cid = c
    BY Zenon DEF Connect, Inv, Types, ConnRec
  <1>2. /\ conns' \in [Server -> [Client -> Conn \cup {NoConn}]]
        /\ conns'[s][c] = k
        /\ \A r \in Server, d \in Client : r # s \/ d # c => conns'[r][d] = conns[r][d]
    BY Zenon DEF Connect, Inv, Types
  <1>3. UNCHANGED <<directory, op, call, job, got, failed>> /\ Watch BY Zenon DEF Connect
  <1>4. SamePlaces BY <1>k, <1>1, Zenon DEF SamePlaces
  <1>5. Placed'
    <2>1. ASSUME NEW j \in Conn
          PROVE  /\ conn'[j].st # "new" => conn'[j].at \in Server /\ conn'[j].cid \in Client
                 /\ conn'[j].st = "new" => got'[j] = 0
      BY <1>1, <1>3 DEF Inv, Stages, Placed
    <2>2. ASSUME NEW r \in Server, NEW d \in Client, conns'[r][d] # NoConn
          PROVE  /\ conn'[conns'[r][d]].st # "new"
                 /\ conn'[conns'[r][d]].at = r /\ conn'[conns'[r][d]].cid = d
      <3>1. CASE r = s /\ d = c BY <3>1, <1>1, <1>2, Zenon
      <3>2. CASE ~(r = s /\ d = c)
        <4>1. conns'[r][d] = conns[r][d] /\ conns[r][d] \in Conn
          BY <2>2, <3>2, <1>2 DEF Inv, Types
        <4>2. /\ conn[conns[r][d]].st # "new"
              /\ conn[conns[r][d]].at = r /\ conn[conns[r][d]].cid = d
          BY <2>2, <4>1, Zenon DEF Inv, Stages, Placed
        <4>3. conns[r][d] # k BY <4>2, <1>k, Zenon
        <4> QED BY <4>1, <4>2, <4>3, <1>1, Zenon
      <3> QED BY <3>1, <3>2, Zenon
    <2> QED BY <2>1, <2>2, Zenon DEF Placed
  <1> QED BY <1>1, <1>2, <1>3, <1>4, <1>5, ClientsMove, Zenon

LEMMA ClosedInv == ASSUME Sizes, Inv, NEW k \in Conn, Close(k) \/ OnClose(k) PROVE Inv'
  <1>k. conn[k].st # "new" BY Zenon DEF Close, OnClose
  <1>p. conn[k].at \in Server /\ conn[k].cid \in Client BY <1>k, Zenon DEF Inv, Stages, Placed
  <1>1. conn' \in [Conn -> ConnRec] /\ (\A j \in Conn : j # k => conn'[j] = conn[j])
        /\ conn'[k].st = "closed" /\ conn'[k].at = conn[k].at /\ conn'[k].cid = conn[k].cid
    BY DEF Close, OnClose, Inv, Types, ConnRec
  <1>2. /\ conns' \in [Server -> [Client -> Conn \cup {NoConn}]]
        /\ \A r \in Server, d \in Client : conns'[r][d] \in {NoConn, conns[r][d]}
    <2>1. conns' = [conns EXCEPT ![conn[k].at][conn[k].cid] = NoConn] BY Zenon DEF Close, OnClose
    <2>2. conns \in [Server -> [Client -> Conn \cup {NoConn}]] BY Zenon DEF Inv, Types
    <2> QED BY <1>p, <2>1, <2>2, Zenon
  <1>3. UNCHANGED <<directory, op, call, job, got, failed>> /\ Watch BY Zenon DEF Close, OnClose
  <1>4. SamePlaces BY <1>1, Zenon DEF SamePlaces
  <1>5. Placed'
    <2>1. ASSUME NEW j \in Conn
          PROVE  /\ conn'[j].st # "new" => conn'[j].at \in Server /\ conn'[j].cid \in Client
                 /\ conn'[j].st = "new" => got'[j] = 0
      BY <1>1, <1>p, <1>3, Zenon DEF Inv, Stages, Placed
    <2>2. ASSUME NEW r \in Server, NEW d \in Client, conns'[r][d] # NoConn
          PROVE  /\ conn'[conns'[r][d]].st # "new"
                 /\ conn'[conns'[r][d]].at = r /\ conn'[conns'[r][d]].cid = d
      <3>1. conns'[r][d] = conns[r][d] /\ conns[r][d] \in Conn BY <2>2, <1>2 DEF Inv, Types
      <3>2. /\ conn[conns[r][d]].st # "new"
            /\ conn[conns[r][d]].at = r /\ conn[conns[r][d]].cid = d
        BY <2>2, <3>1, Zenon DEF Inv, Stages, Placed
      <3> QED BY <3>1, <3>2, <1>1, Zenon
    <2> QED BY <2>1, <2>2, Zenon DEF Placed
  <1> QED BY <1>1, <1>2, <1>3, <1>4, <1>5, ClientsMove, Zenon

\* The caller waits for the answer of this attempt.
Taken(n, a) == call[n].pc = "wait" /\ call[n].attempt = a

\* What the end of an execution does to it, to the operation and to the call.
JobOver(n, a) ==
  /\ OnlyJob(n, a) /\ job[n][a].pc = "run" /\ job[n][a].left = {}
  /\ job'[n][a].pc = "done" /\ job'[n][a].left = {}
  /\ job'[n][a].total = 0 /\ job'[n][a].success = 0

OpAfter(n, a) ==
  /\ op' \in OpRec /\ op'.pc = op.pc /\ op'.kind = op.kind /\ op'.to = op.to /\ op'.grew = op.grew
  /\ op'.todo = op.todo \/ (op.kind = "online" /\ op'.success > 0 /\ op'.todo = {})
  /\ Taken(n, a) => /\ op'.success = op.success + job[n][a].success
                    /\ op'.total = op.total + job[n][a].total
  /\ ~Taken(n, a) => op' = op

CallAfter(n, a) ==
  /\ OnlyCall(n) /\ call'[n].attempt = call[n].attempt
  /\ Taken(n, a) => call'[n].pc = "done" /\ call'[n].targets = {}
  /\ ~Taken(n, a) => call' = call

Finished(n, a) ==
  /\ directory' = directory /\ conn' = conn /\ conns' = conns /\ got' = got /\ failed' = failed
  /\ Watch /\ JobOver(n, a) /\ OpAfter(n, a) /\ CallAfter(n, a)

LEMMA FinishJob ==
  ASSUME Types, NEW n \in Broker, NEW a \in 1 .. MaxAttempts, Finish(n, a)
  PROVE  JobOver(n, a)
  <1> DEFINE new == [NoJob EXCEPT !.pc = "done"]
  <1>1. new \in JobRec BY Zenon DEF NoJob, JobRec
  <1>2. new.pc = "done" /\ new.left = {} /\ new.total = 0 /\ new.success = 0 BY Zenon DEF NoJob
  <1>3. JobBecomes(n, a, new) /\ job[n][a].pc = "run" /\ job[n][a].left = {}
    BY Zenon DEF Finish, JobBecomes
  <1> HIDE DEF new
  <1>4. OnlyJob(n, a) /\ job'[n][a] = new BY <1>1, <1>3, JobSet, Zenon
  <1> QED BY <1>2, <1>3, <1>4, Zenon DEF JobOver

LEMMA FinishOp ==
  ASSUME Types, NEW n \in Broker, NEW a \in 1 .. MaxAttempts, Finish(n, a)
  PROVE  OpAfter(n, a)
  <1>t. op \in OpRec /\ op.todo \subseteq Broker BY Zenon DEF Types, OpRec
  <1>1. CASE Taken(n, a)
    <2> DEFINE total == op.total + job[n][a].total
               success == op.success + job[n][a].success
               todo == IF op.kind = "online" /\ job[n][a].success > 0 THEN {} ELSE op.todo
    <2>1. /\ total \in Nat /\ success \in Nat /\ todo \subseteq Broker
          /\ todo = op.todo \/ (op.kind = "online" /\ success > 0 /\ todo = {})
      BY <1>t, OpNat, JobNat
    <2>2. op' = [op EXCEPT !.total = total, !.success = success, !.todo = todo]
      BY <1>1, Zenon DEF Finish, Count, Taken
    <2> HIDE DEF total, success, todo
    <2>3. /\ op' \in OpRec /\ op'.pc = op.pc /\ op'.kind = op.kind /\ op'.to = op.to
          /\ op'.grew = op.grew /\ op'.todo = todo /\ op'.success = success /\ op'.total = total
      BY <2>1, <2>2, <1>t, Zenon DEF OpRec
    <2> QED BY <1>1, <2>1, <2>3, Zenon DEF total, success, OpAfter
  <1>2. CASE ~Taken(n, a)
    <2>1. op' = op BY <1>2, Zenon DEF Finish, Taken
    <2> QED BY <1>2, <2>1, <1>t, Zenon DEF OpAfter
  <1> QED BY <1>1, <1>2, Zenon

LEMMA FinishCall ==
  ASSUME Types, NEW n \in Broker, NEW a \in 1 .. MaxAttempts, Finish(n, a)
  PROVE  CallAfter(n, a)
  <1>t. call \in [Broker -> CallRec] BY Zenon DEF Types
  <1>1. CASE Taken(n, a)
    <2>1. call' = [call EXCEPT ![n].pc = "done", ![n].targets = {}] BY <1>1, Zenon DEF Finish, Taken
    <2>2. /\ OnlyCall(n) /\ call'[n].attempt = call[n].attempt
          /\ call'[n].pc = "done" /\ call'[n].targets = {}
      BY <2>1, <1>t, Zenon DEF OnlyCall, CallRec
    <2> QED BY <1>1, <2>2, Zenon DEF CallAfter
  <1>2. CASE ~Taken(n, a)
    <2>1. call' = call BY <1>2, Zenon DEF Finish, Taken
    <2> QED BY <1>2, <2>1, <1>t, Zenon DEF CallAfter, OnlyCall
  <1> QED BY <1>1, <1>2

LEMMA FinishEffect ==
  ASSUME Inv, NEW n \in Broker, NEW a \in 1 .. MaxAttempts, Finish(n, a)
  PROVE  Finished(n, a) /\ op.pc # "idle"
  <1>1. /\ directory' = directory /\ conn' = conn /\ conns' = conns /\ got' = got /\ failed' = failed
        /\ Watch
    BY Zenon DEF Finish, clients
  <1>2. JobOver(n, a) /\ OpAfter(n, a) /\ CallAfter(n, a)
    BY FinishJob, FinishOp, FinishCall, Zenon DEF Inv
  <1>3. NoJobs[a].pc # "run" BY Zenon DEF NoJobs, NoJob
  <1>4. op.pc # "idle" BY <1>2, <1>3, Zenon DEF JobOver, Inv, Stages, Idle
  <1> QED BY <1>1, <1>2, <1>4, Zenon DEF Finished

LEMMA FinishTypes ==
  ASSUME Types, NEW n \in Broker, NEW a \in 1 .. MaxAttempts, Finished(n, a)
  PROVE  Types'
  <1>1. steady' \subseteq Conn BY Zenon DEF Finished, Watch, Types
  <1>2. Addressed(op)' BY Zenon DEF Addressed, Types, Finished, OpAfter
  <1>3. op' \in OpRec /\ call' \in [Broker -> CallRec] /\ job' \in [Broker -> [1 .. MaxAttempts -> JobRec]]
    BY Zenon DEF Finished, OpAfter, CallAfter, JobOver, OnlyJob, OnlyCall
  <1> QED BY <1>1, <1>2, <1>3, Zenon DEF Types, Finished

LEMMA FinishCallOK ==
  ASSUME Types, NEW n \in Broker, NEW a \in 1 .. MaxAttempts, Finished(n, a), NEW m \in Broker,
         CallOK(m)
  PROVE  CallOK(m)'
  <1>1. /\ op'.kind = op.kind /\ failed' = failed /\ (m \in op'.todo => m \in op.todo)
        /\ CallAfter(n, a)
    BY Zenon DEF Finished, OpAfter
  <1>2. CASE m # n \/ ~Taken(n, a)
    <2>1. call'[m] = call[m] BY <1>1, <1>2, Zenon DEF CallAfter, OnlyCall
    <2> QED BY <1>1, <2>1, Zenon DEF CallOK, Functional
  <1>3. CASE m = n /\ Taken(n, a)
    <2>1. n \notin op.todo /\ (n = Self \/ ~failed => call[n].attempt <= 1)
      BY <1>3, Zenon DEF CallOK, Taken
    <2> QED BY <1>1, <1>3, <2>1, Zenon DEF CallOK, CallAfter, Functional
  <1> QED BY <1>2, <1>3, Zenon

LEMMA FinishJobOK ==
  ASSUME Types, NEW n \in Broker, NEW a \in 1 .. MaxAttempts, Finished(n, a),
         NEW m \in Broker, NEW b \in 1 .. MaxAttempts, JobOK(m, b)
  PROVE  JobOK(m, b)'
  <1>1. call'[m].attempt = call[m].attempt /\ op'.kind = op.kind
    BY Zenon DEF Finished, CallAfter, OnlyCall, OpAfter
  <1>2. CASE m # n \/ b # a
    <2>1. job'[m][b] = job[m][b] BY <1>2, Zenon DEF Finished, JobOver, OnlyJob
    <2> QED BY <1>1, <2>1, Zenon DEF JobOK, Functional
  <1>3. CASE m = n /\ b = a
    <2>1. JobOver(m, b) BY <1>3, Zenon DEF Finished
    <2> QED BY <1>1, <2>1 DEF JobOK, JobOver, Functional
  <1> QED BY <1>2, <1>3, Zenon

LEMMA FinishStages ==
  ASSUME Inv, NEW n \in Broker, NEW a \in 1 .. MaxAttempts, Finished(n, a), op.pc # "idle"
  PROVE  Stages'
  <1>1. Idle' BY Zenon DEF Idle, Finished, OpAfter
  <1>2. Placed'
    <2>1. Placed BY Zenon DEF Inv, Stages
    <2>2. conn' = conn /\ conns' = conns /\ got' = got BY Zenon DEF Finished
    <2> QED BY <2>1, <2>2, Zenon DEF Placed
  <1>3. \A m \in Broker : CallOK(m)' BY FinishCallOK, Zenon DEF Inv, Stages
  <1>4. \A m \in Broker, b \in 1 .. MaxAttempts : JobOK(m, b)' BY FinishJobOK, Zenon DEF Inv, Stages
  <1>5. (op.kind \in Sends => op.success <= op.total)'
    <2>0. JobOK(n, a) /\ (op.kind \in Sends => op.success <= op.total) BY Zenon DEF Inv, Stages
    <2>1. op.kind \in Sends => op.success <= op.total /\ job[n][a].success <= job[n][a].total
      BY <2>0, Zenon DEF JobOK
    <2>2. /\ op.success \in Nat /\ op.total \in Nat
          /\ job[n][a].success \in Nat /\ job[n][a].total \in Nat
      BY OpNat, JobNat, Zenon DEF Inv
    <2> QED BY <2>1, <2>2 DEF Finished, OpAfter
  <1> QED BY <1>1, <1>2, <1>3, <1>4, <1>5, Zenon DEF Stages

\* A connection that is ahead of another call, or of an execution that goes on.
LEMMA FinishOthers ==
  ASSUME Types, NEW n \in Broker, NEW a \in 1 .. MaxAttempts, Finished(n, a), NEW k \in Conn,
         Ahead(k), op'.todo = op.todo, Host(k) # n \/ call[n].pc # "wait"
  PROVE  Ahead(k)'
  <1>1. /\ conn' = conn /\ op'.kind = op.kind /\ Host(k) \in Broker
        /\ CallAfter(n, a) /\ OnlyJob(n, a)
    BY PlaceBroker, Zenon DEF Finished, OpAfter, JobOver
  <1>2. CASE Host(k) # n
    <2>1. job'[Host(k)][1] = job[Host(k)][1] BY <1>1, <1>2, Bounds, Zenon DEF OnlyJob
    <2>2. call'[Host(k)] = call[Host(k)] BY <1>1, <1>2, Zenon DEF CallAfter, OnlyCall
    <2> QED BY <1>1, <2>1, <2>2, Zenon DEF Ahead, Host
  <1>3. CASE Host(k) = n /\ call[n].pc # "wait"
    <2>1. call' = call BY <1>1, <1>3, Zenon DEF CallAfter, Taken
    <2> QED BY <1>1, <1>3, <2>1, Zenon DEF Ahead, Host
  <1> QED BY <1>2, <1>3, Zenon

\* One that is ahead of the execution that ends: only IsOnline ends with clients
\* ahead of it, and then it has found one.
LEMMA FinishFound ==
  ASSUME Inv, NEW n \in Broker, NEW a \in 1 .. MaxAttempts, Finished(n, a), NEW k \in Conn,
         ~failed, Ahead(k), Host(k) = n, call[n].pc = "wait"
  PROVE  Done(k)'
  <1>1. a <= call[n].attempt /\ call[n].attempt <= 1 /\ n \notin op.todo
    BY Zenon DEF Finished, JobOver, Inv, Stages, JobOK, CallOK
  <1>2. a = 1 /\ Taken(n, a)
    <2>1. call[n].attempt \in Nat BY AttemptNat, Zenon DEF Inv
    <2> QED BY <1>1, <2>1 DEF Taken
  <1>3. job[n][1].left = {} BY <1>2, Zenon DEF Finished, JobOver
  <1>4. op.kind = "online" /\ job[n][1].success > 0 BY <1>1, <1>3, Zenon DEF Ahead
  <1>5. op'.success = op.success + job[n][1].success /\ op'.kind = op.kind
    BY <1>2, Zenon DEF Finished, OpAfter
  <1>6. op.success \in Nat /\ job[n][1].success \in Nat BY <1>2, OpNat, JobNat, Zenon DEF Inv
  <1> QED BY <1>4, <1>5, <1>6 DEF Done

LEMMA FinishSteady ==
  ASSUME Inv, NEW n \in Broker, NEW a \in 1 .. MaxAttempts, Finished(n, a)
  PROVE  SteadyInv' /\ steady' \subseteq steady
  <1>1. ASSUME NEW k \in Conn, ~failed, Done(k) \/ Ahead(k) PROVE (Done(k) \/ Ahead(k))'
    <2>1. CASE Done(k)
      <3>0. Types /\ OpAfter(n, a) /\ got' = got BY Zenon DEF Inv, Finished
      <3>1. op.success \in Nat /\ job[n][a].success \in Nat BY <3>0, OpNat, JobNat, Zenon
      <3>2. op'.kind = op.kind BY <3>0, Zenon DEF OpAfter
      <3>3. CASE Taken(n, a)
        <4>1. op'.success = op.success + job[n][a].success BY <3>0, <3>3, Zenon DEF OpAfter
        <4> QED BY <2>1, <3>0, <3>1, <3>2, <4>1 DEF Done
      <3>4. CASE ~Taken(n, a)
        <4>1. op' = op BY <3>0, <3>4, Zenon DEF OpAfter
        <4> QED BY <2>1, <3>0, <4>1, Zenon DEF Done
      <3> QED BY <3>3, <3>4, Zenon
    <2>2. CASE op'.todo # op.todo BY <2>2, Zenon DEF Finished, OpAfter, Done
    <2>3. CASE Ahead(k) /\ op'.todo = op.todo
      BY <1>1, <2>3, FinishOthers, FinishFound, Zenon DEF Inv
    <2> QED BY <1>1, <2>1, <2>2, <2>3, Zenon
  <1> QED BY <1>1, SteadyKept, Zenon DEF Finished, Inv, Types

\* The successes of the answer are added to those of the operation: the
\* connections they stand for were not counted before.
LEMMA FinishCounted ==
  ASSUME Sizes, Inv, NEW n \in Broker, NEW a \in 1 .. MaxAttempts, Finished(n, a), Taken(n, a),
         op.success <= Cardinality(Counted), job[n][a].success <= Cardinality(ServedBy(n, a))
  PROVE  op'.success <= Cardinality(Counted')
  <1>1. Counted \cup ServedBy(n, a) \subseteq Counted'
    <2>1. got' = got /\ conn' = conn /\ OnlyCall(n) /\ call'[n].pc = "done"
      BY Zenon DEF Finished, CallAfter
    <2> QED BY <2>1, PlaceBroker, Zenon DEF Counted, ServedBy, OnlyCall, Inv, Host
  <1>2. Counted \cap ServedBy(n, a) = {} BY Zenon DEF Counted, ServedBy, Taken
  <1>3. /\ IsFiniteSet(Counted) /\ Cardinality(Counted) \in Nat
        /\ IsFiniteSet(ServedBy(n, a)) /\ Cardinality(ServedBy(n, a)) \in Nat
        /\ IsFiniteSet(Counted') /\ Cardinality(Counted') \in Nat
    BY FiniteConns, Zenon DEF Counted, ServedBy
  <1>4. Cardinality(Counted \cup ServedBy(n, a)) = Cardinality(Counted) + Cardinality(ServedBy(n, a))
    BY <1>2, <1>3, Zenon DEF Sizes
  <1>5. Cardinality(Counted \cup ServedBy(n, a)) <= Cardinality(Counted') BY <1>1, <1>3, Smaller, Zenon
  <1>6. op.success \in Nat /\ job[n][a].success \in Nat BY OpNat, JobNat, Zenon DEF Inv
  <1>7. op'.success = op.success + job[n][a].success BY Zenon DEF Finished, OpAfter
  <1> QED BY <1>3, <1>4, <1>5, <1>6, <1>7

\* The other executions go on; the one that ended has nothing to count.
LEMMA FinishServed ==
  ASSUME Sizes, Types, NEW n \in Broker, NEW a \in 1 .. MaxAttempts, Finished(n, a),
         NEW m \in Broker, NEW b \in 1 .. MaxAttempts, job[m][b].success <= Cardinality(ServedBy(m, b))
  PROVE  job'[m][b].success <= Cardinality(ServedBy(m, b)')
  <1>1. CASE m = n /\ b = a
    <2>1. Cardinality(ServedBy(m, b)') \in Nat BY FiniteConns, Zenon DEF ServedBy
    <2>2. job'[m][b].success = 0 BY <1>1, Zenon DEF Finished, JobOver
    <2> QED BY <2>1, <2>2
  <1>2. CASE m # n \/ b # a
    <2>1. job'[m][b] = job[m][b] BY <1>2, Zenon DEF Finished, JobOver, OnlyJob
    <2>2. conn' = conn /\ got' = got /\ op'.kind = op.kind BY Zenon DEF Finished, OpAfter
    <2>3. ServedBy(m, b)' = ServedBy(m, b) BY <2>1, <2>2, Zenon DEF ServedBy, Past, Host
    <2> QED BY <2>1, <2>3, Zenon
  <1> QED BY <1>1, <1>2, Zenon

LEMMA FinishCount ==
  ASSUME Sizes, Inv, NEW n \in Broker, NEW a \in 1 .. MaxAttempts, Finished(n, a)
  PROVE  CountInv'
  <1>0. op'.kind = op.kind /\ op'.grew = op.grew BY Zenon DEF Finished, OpAfter
  <1>1. SUFFICES ASSUME op.kind \in Sends, ~op.grew
                 PROVE  /\ op'.success <= Cardinality(Counted')
                        /\ \A m \in Broker, b \in 1 .. MaxAttempts :
                             job'[m][b].success <= Cardinality(ServedBy(m, b)')
    BY <1>0, Zenon DEF CountInv
  <1>2. /\ op.success <= Cardinality(Counted)
        /\ \A m \in Broker, b \in 1 .. MaxAttempts : job[m][b].success <= Cardinality(ServedBy(m, b))
    BY <1>1, Zenon DEF Inv, CountInv
  <1>3. op'.success <= Cardinality(Counted')
    <2>1. CASE Taken(n, a) BY <1>2, <2>1, FinishCounted, Zenon
    <2>2. CASE ~Taken(n, a)
      <3>1. op' = op /\ call' = call /\ conn' = conn /\ got' = got
        BY <2>2, Zenon DEF Finished, OpAfter, CallAfter
      <3>2. Counted' = Counted BY <3>1, Zenon DEF Counted, Host
      <3> QED BY <1>2, <3>1, <3>2, Zenon
    <2> QED BY <2>1, <2>2, Zenon
  <1>4. \A m \in Broker, b \in 1 .. MaxAttempts : job'[m][b].success <= Cardinality(ServedBy(m, b)')
    BY <1>2, FinishServed, Zenon DEF Inv
  <1> QED BY <1>3, <1>4, Zenon

LEMMA FinishOnce ==
  ASSUME Sizes, Inv, Types', NEW n \in Broker, NEW a \in 1 .. MaxAttempts, Finished(n, a),
         steady' \subseteq steady
  PROVE  OnceInv'
  <1>0. conn' = conn /\ got' = got /\ op'.grew = op.grew /\ op'.kind = op.kind /\ JobOver(n, a)
    BY Zenon DEF Finished, OpAfter
  <1>1. ASSUME NEW m \in Broker PROVE call[m].attempt <= call'[m].attempt
    <2>0. Types BY Zenon DEF Inv
    <2>1. call[m].attempt \in Nat BY <2>0, AttemptNat, Zenon
    <2>2. CallAfter(n, a) BY Zenon DEF Finished
    <2>3. call'[m].attempt = call[m].attempt BY <2>2, Zenon DEF CallAfter, OnlyCall
    <2> QED BY <2>1, <2>3
  <1>2. ASSUME NEW k \in Conn, NEW b \in 1 .. call[Host(k)].attempt, Past(k, Host(k), b)
        PROVE  Past(k, Host(k), b)'
    <2>1. Host(k) \in Broker /\ b \in 1 .. MaxAttempts BY AttemptInRange, Zenon DEF Inv
    <2>2. job'[Host(k)][b].left \subseteq job[Host(k)][b].left BY <1>0, <2>1, Zenon DEF JobOver, OnlyJob
    <2> QED BY <1>0, <1>2, <2>2, Zenon DEF Past, Host
  <1>3. SamePlaces BY <1>0, Zenon DEF SamePlaces
  <1>4. OnceStep BY <1>0, <1>1, <1>2, <1>3, Zenon DEF OnceStep
  <1> QED BY <1>4, OnceKept, Zenon

LEMMA FinishInv == ASSUME Sizes, Inv, NEW n \in Broker, NEW a \in 1 .. MaxAttempts, Finish(n, a) PROVE Inv'
  <1>0. Finished(n, a) /\ op.pc # "idle" BY FinishEffect, Zenon
  <1>1. Types' /\ Stages' BY <1>0, FinishTypes, FinishStages, Zenon DEF Inv
  <1>2. SteadyInv' /\ steady' \subseteq steady BY <1>0, FinishSteady, Zenon
  <1>3. CountInv' /\ OnceInv' BY <1>0, <1>1, <1>2, FinishCount, FinishOnce, Zenon
  <1> QED BY <1>1, <1>2, <1>3, Zenon DEF Inv

=============================================================================
