-------------------------------- MODULE RoutingInv --------------------------
(***************************************************************************)
(* The inductive invariant of Routing.                                     *)
(***************************************************************************)
EXTENDS Routing

Target == Client \X Net

ConnRec == [st : {"new", "open", "closing", "closed"}, at : Server \cup {<<Self, NoNet>>},
            cid : Client \cup {NoConn}]
OpRec == [pc : {"idle", "run", "dead"}, kind : Sends \cup InTurn,
          to : User \cup Channel \cup {Absent, NoNet}, todo : SUBSET Broker,
          total : Nat, success : Nat, applied : Nat, grew : BOOLEAN]
CallRec == [pc : {"none", "load", "wait", "done"}, live : BOOLEAN, attempt : 0 .. MaxAttempts,
            targets : SUBSET Target]
JobRec == [pc : {"none", "run", "done"}, left : SUBSET Target, total : Nat, success : Nat,
           waits : Conn \cup {NoConn}]

(* The object of an operation has entries of its own in the directory.     *)
Addressed(o) ==
  /\ o.kind \in {"user", "online", "kick"} => o.to \in User
  /\ o.kind = "channel" => o.to \in Channel

Types ==
  /\ directory \in Directories
  /\ conn \in [Conn -> ConnRec]
  /\ conns \in [Server -> [Client -> Conn \cup {NoConn}]]
  /\ op \in OpRec /\ Addressed(op)
  /\ call \in [Broker -> CallRec]
  /\ job \in [Broker -> [1 .. MaxAttempts -> JobRec]]
  /\ got \in [Conn -> Nat] /\ failed \in BOOLEAN /\ steady \subseteq Conn

(* A client is in a map under one network.                                 *)
Functional(S) == \A s, t \in S : s[1] = t[1] => s = t

(* Before the operation begins nothing is under way.                       *)
Idle ==
  op.pc = "idle" =>
    /\ op.kind = "all" /\ op.success = 0 /\ op.total = 0 /\ steady = {} /\ ~failed
    /\ op.todo = {} /\ ~op.grew
    /\ \A k \in Conn : got[k] = 0
    /\ \A n \in Broker : call[n] = NoCall /\ job[n] = NoJobs

(* A connection has its place from its login on, and is found there only.  *)
Placed ==
  /\ \A k \in Conn : /\ conn[k].st # "new" => conn[k].at \in Server /\ conn[k].cid \in Client
                     /\ conn[k].st = "new" => got[k] = 0
  /\ \A s \in Server, c \in Client : conns[s][c] # NoConn =>
       /\ conn[conns[s][c]].st # "new"
       /\ conn[conns[s][c]].at = s /\ conn[conns[s][c]].cid = c

(* How far the call to a broker is, and the executions of its attempts.    *)
CallOK(n) ==
  /\ n \in op.todo => call[n].pc = "none"
  /\ call[n].pc \in {"none", "load"} <=> call[n].attempt = 0 /\ call[n].pc # "done"
  /\ n = Self \/ ~failed => call[n].attempt <= 1
  /\ op.kind # "all" => Functional(call[n].targets)

JobOK(n, a) ==
  /\ job[n][a].pc # "none" => a <= call[n].attempt
  /\ job[n][a].pc # "run" => job[n][a].left = {}
  /\ op.kind \in Sends => job[n][a].success <= job[n][a].total
  /\ op.kind # "all" => Functional(job[n][a].left)

Stages ==
  /\ Idle /\ Placed
  /\ \A n \in Broker : CallOK(n)
  /\ \A n \in Broker, a \in 1 .. MaxAttempts : JobOK(n, a)
  /\ op.kind \in Sends => op.success <= op.total

(* The broker where connection k is, or was.                               *)
Host(k) == conn[k].at[1]

(* Execution a at broker n no longer has connection k ahead of it.         *)
Past(k, n, a) ==
  \A t \in job[n][a].left : t[1] = conn[k].cid => op.kind = "all" /\ t[2] # conn[k].at[2]

(* The connections of finished calls that have the message; those of       *)
(* broker n that an execution has served.                                  *)
Counted == {k \in Conn : got[k] > 0 /\ call[Host(k)].pc = "done"}
ServedBy(n, a) == {k \in Conn : got[k] > 0 /\ Host(k) = n /\ Past(k, n, a)}

CountInv ==
  op.kind \in Sends /\ ~op.grew =>
    /\ op.success <= Cardinality(Counted)
    /\ \A n \in Broker, a \in 1 .. MaxAttempts : job[n][a].success <= Cardinality(ServedBy(n, a))

(* The attempts that will not serve k any more.                            *)
Attempts(k) ==
  {a \in 1 .. call[Host(k)].attempt : Past(k, Host(k), a)}

OnceInv ==
  \A k \in Conn :
    ~op.grew \/ k \in steady \/ Host(k) # Self => got[k] <= Cardinality(Attempts(k))

(* A steady connection has been served, or is still ahead of the operation.*)
Done(k) == (op.kind \in Sends /\ got[k] > 0) \/ (op.kind = "online" /\ op.success > 0)

Ahead(k) ==
  LET n == Host(k)
  IN  \/ n \in op.todo
      \/ call[n].pc = "load" /\ call[n].live
      \/ /\ call[n].pc = "wait" /\ job[n][1].pc = "run"
         /\ \/ <<conn[k].cid, conn[k].at[2]>> \in job[n][1].left
            \/ op.kind = "online" /\ job[n][1].success > 0

SteadyInv == \A k \in steady : ~failed /\ Reachable(k, op) /\ (Done(k) \/ Ahead(k))

Inv == Types /\ Stages /\ CountInv /\ OnceInv /\ SteadyInv

=============================================================================
