-------------------------- MODULE ConnectionProofs --------------------------
(***************************************************************************)
(* What holds of one connection for any number of callers and any bounds:  *)
(* its send queue, its requests and its heartbeat.  The three modules      *)
(* share no variable.                                                      *)
(***************************************************************************)
EXTENDS SendQueue, Requests, Heartbeat, FiniteSetTheorems, TLAPS

-----------------------------------------------------------------------------
(***************************************************************************)
(* The send queue, for any number of callers of Push and any capacities.   *)
(***************************************************************************)

(* Ordinary tasks are counted as overtaking only while a jump waits, and   *)
(* the worker enters its inner select only when none does.                 *)
QueueInv ==
  /\ jumps \in Seq(Jumper) /\ overtaken \in {0, 1}
  /\ jumps = <<>> => overtaken = 0
  /\ worker = "inner" => overtaken = 0

LEMMA QueueInitInv == QueueInit => QueueInv
  BY DEF QueueInit, QueueInv

(* A push adds a jump at most, whatever the worker is doing.               *)
LEMMA PushInv == ASSUME QueueInv, NEW p \in Pusher, Push(p) PROVE QueueInv'
  <1>1. CASE PushJump(p)
    <2>1. p \in Jumper /\ Append(jumps, p) \in Seq(Jumper) /\ Append(jumps, p) # <<>>
      BY <1>1 DEF PushJump, QueueInv
    <2> QED BY <1>1, <2>1, Zenon DEF PushJump, QueueInv
  <1>2. CASE PushCheck(p) \/ PushSelect(p) \/ PushTask(p) \/ PushCancel(p)
    BY <1>2, Zenon DEF PushCheck, PushSelect, PushTask, PushCancel, QueueInv
  <1> QED BY <1>1, <1>2, Zenon DEF Push

(* The last jump that is taken resets the count; with others left the      *)
(* worker is out of the inner select until they are taken too.             *)
LEMMA TakeJumpInv == ASSUME QueueInv, TakeJump PROVE QueueInv'
  <1>1. jumps # <<>> /\ Tail(jumps) \in Seq(Jumper) BY DEF TakeJump, QueueInv
  <1>2. Len(jumps) \in Nat /\ Len(Tail(jumps)) = Len(jumps) - 1 BY <1>1 DEF QueueInv
  <1>3. Tail(jumps) = <<>> => Len(Tail(jumps)) = 0 OBVIOUS
  <1> QED BY <1>1, <1>2, <1>3 DEF TakeJump, QueueInv

LEMMA QueueRunInv == ASSUME QueueInv, queueRun PROVE QueueInv'
  <1>1. CASE Exit BY <1>1, Zenon DEF Exit, QueueInv
  <1>2. CASE Default BY <1>2, Zenon DEF Default, QueueInv
  <1>3. CASE worker = "inner" /\ TakeTask BY <1>3 DEF TakeTask, QueueInv
  <1>4. CASE TaskDone BY <1>4, Zenon DEF TaskDone, QueueInv
  <1> QED BY <1>1, <1>2, <1>3, <1>4, TakeJumpInv, Zenon DEF queueRun

LEMMA QueueStepInv == QueueInv /\ [QueueNext]_queueVars => QueueInv'
  <1> SUFFICES ASSUME QueueInv, [QueueNext]_queueVars PROVE QueueInv' BY Zenon
  <1>1. CASE queueRun BY <1>1, QueueRunInv, Zenon
  <1>2. CASE CloseQueue BY <1>2, Zenon DEF CloseQueue, QueueInv
  <1>3. CASE \E p \in Pusher : Push(p) BY <1>3, PushInv, Zenon
  <1>4. CASE UNCHANGED queueVars BY <1>4, Zenon DEF queueVars, QueueInv
  <1> QED BY <1>1, <1>2, <1>3, <1>4, Zenon DEF QueueNext

(* A jump task, a PONG, CONNACK or CLOSE packet, waits for at most one     *)
(* ordinary task besides the one being run (the two selects of run).       *)
THEOREM JumpsFirst == QueueSpec => []JumpPriority
  <1>1. QueueInv => JumpPriority BY DEF QueueInv, JumpPriority
  <1> QED BY <1>1, QueueInitInv, QueueStepInv, PTL DEF QueueSpec

(* Taking the first of t for s leaves what they are together.              *)
LEMMA TakeFirst ==
  ASSUME NEW S, NEW s \in Seq(S), NEW t \in Seq(S), t # <<>>
  PROVE  Append(s, Head(t)) \o Tail(t) = s \o t
  <1>1. /\ Head(t) \in S /\ Tail(t) \in Seq(S) /\ Append(s, Head(t)) \in Seq(S)
        /\ Append(s, Head(t)) \o Tail(t) \in Seq(S) /\ s \o t \in Seq(S)
        /\ Len(Tail(t)) = Len(t) - 1 /\ Len(t) \in Nat \ {0}
    OBVIOUS
  <1>2. Len(Append(s, Head(t)) \o Tail(t)) = Len(s \o t) BY <1>1
  <1>3. \A i \in 1..Len(s \o t) : (Append(s, Head(t)) \o Tail(t))[i] = (s \o t)[i]
    BY <1>1
  <1> QED BY <1>1, <1>2, <1>3

(* A push that succeeds comes last, in its channel and among the accepted. *)
LEMMA PushInOrder == ASSUME InOrder, NEW p \in Pusher, Push(p) PROVE InOrder'
  <1> USE DEF InOrder, QueueTypeOK
  <1>1. CASE PushCheck(p) \/ PushSelect(p) \/ PushCancel(p)
    <2>1. UNCHANGED <<jumps, tasks, closer, worker, current, accepted, executed, overtaken>>
      BY <1>1, Zenon DEF PushCheck, PushSelect, PushCancel
    <2>2. push' \in [Pusher -> {"idle", "checked", "select", "nil", "ErrQueueIsClosed", "ctx.Err",
                               "panic"}]
          /\ sees' \in [Pusher -> {"chan", "nil"}]
      BY <1>1, Zenon DEF PushCheck, PushSelect, PushCancel, TasksField
    <2> QED BY <2>1, <2>2, Zenon
  <1>2. CASE PushJump(p) /\ JumpsClosed BY <1>2, Zenon DEF PushJump
  <1>3. CASE PushJump(p) /\ ~JumpsClosed
    <2>1. /\ p \in Jumper /\ Len(jumps) < JumpCapacity /\ jumps' = Append(jumps, p)
          /\ accepted' = [accepted EXCEPT !.jumps = Append(accepted.jumps, p)]
          /\ push' = [push EXCEPT ![p] = "nil"]
          /\ UNCHANGED <<tasks, closer, sees, worker, current, executed, overtaken>>
      BY <1>3, Zenon DEF PushJump
    <2>2. /\ Append(jumps, p) \in Seq(Jumper) /\ Len(Append(jumps, p)) <= JumpCapacity
          /\ Append(accepted.jumps, p) \in Seq(Jumper)
      BY <2>1, QueueAssumption
    <2>3. executed.jumps \o Append(jumps, p) = Append(executed.jumps \o jumps, p)
      <3>1. PICK e \in Seq(Jumper), j \in Seq(Jumper) : e = executed.jumps /\ j = jumps OBVIOUS
      <3>2. p \in Jumper BY <2>1, Zenon
      <3> HIDE DEF InOrder, QueueTypeOK
      <3>3. e \o Append(j, p) = Append(e \o j, p) BY <3>2
      <3> QED BY <3>1, <3>3, Zenon
    <2> QED BY <2>1, <2>2, <2>3, Zenon
  <1>4. CASE PushTask(p)
    <2>1. /\ p \in Pusher \ Jumper /\ Len(tasks) < Capacity /\ tasks' = Append(tasks, p)
          /\ accepted' = [accepted EXCEPT !.tasks = Append(accepted.tasks, p)]
          /\ push' = [push EXCEPT ![p] = "nil"]
          /\ UNCHANGED <<jumps, closer, sees, worker, current, executed, overtaken>>
      BY <1>4, Zenon DEF PushTask
    <2>2. /\ Append(tasks, p) \in Seq(Pusher \ Jumper) /\ Len(Append(tasks, p)) <= Capacity
          /\ Append(accepted.tasks, p) \in Seq(Pusher \ Jumper)
      BY <2>1, QueueAssumption
    <2>3. executed.tasks \o Append(tasks, p) = Append(executed.tasks \o tasks, p)
      <3>1. PICK e \in Seq(Pusher \ Jumper), t \in Seq(Pusher \ Jumper) :
              e = executed.tasks /\ t = tasks
        OBVIOUS
      <3>2. p \in Pusher \ Jumper BY <2>1, Zenon
      <3> HIDE DEF InOrder, QueueTypeOK
      <3>3. e \o Append(t, p) = Append(e \o t, p) BY <3>2
      <3> QED BY <3>1, <3>3, Zenon
    <2> QED BY <2>1, <2>2, <2>3, Zenon
  <1> QED BY <1>1, <1>2, <1>3, <1>4, Zenon DEF Push

(* The worker takes the first of a channel, in either select.              *)
LEMMA RunInOrder == ASSUME InOrder, queueRun PROVE InOrder'
  <1> USE DEF InOrder, QueueTypeOK
  <1>1. CASE TakeJump
    <2>1. /\ jumps # <<>> /\ Head(jumps) \in Jumper /\ Tail(jumps) \in Seq(Jumper)
          /\ Len(Tail(jumps)) = Len(jumps) - 1 /\ Len(jumps) \in Nat
          /\ Append(executed.jumps, Head(jumps)) \in Seq(Jumper)
      BY <1>1 DEF TakeJump
    <2>2. Append(executed.jumps, Head(jumps)) \o Tail(jumps) = executed.jumps \o jumps
      <3>1. executed.jumps \in Seq(Jumper) /\ jumps \in Seq(Jumper) OBVIOUS
      <3> HIDE DEF InOrder, QueueTypeOK
      <3> QED BY <2>1, <3>1, TakeFirst, Zenon
    <2>3. overtaken' \in Nat BY <1>1, Zenon DEF TakeJump
    <2>4. Len(Tail(jumps)) <= JumpCapacity BY <2>1, QueueAssumption
    <2>5. Head(jumps) \in Pusher BY <2>1, QueueAssumption, Zenon
    <2> QED BY <1>1, <2>1, <2>2, <2>3, <2>4, <2>5, Zenon DEF TakeJump
  <1>2. CASE TakeTask
    <2>1. /\ tasks # <<>> /\ Head(tasks) \in Pusher \ Jumper /\ Tail(tasks) \in Seq(Pusher \ Jumper)
          /\ Len(Tail(tasks)) = Len(tasks) - 1 /\ Len(tasks) \in Nat
          /\ Append(executed.tasks, Head(tasks)) \in Seq(Pusher \ Jumper)
      BY <1>2, SMTT(30) DEF TakeTask
    <2>2. Append(executed.tasks, Head(tasks)) \o Tail(tasks) = executed.tasks \o tasks
      <3>1. executed.tasks \in Seq(Pusher \ Jumper) /\ tasks \in Seq(Pusher \ Jumper)
        OBVIOUS
      <3> HIDE DEF InOrder, QueueTypeOK
      <3> QED BY <2>1, <3>1, TakeFirst, Zenon
    <2>3. overtaken' \in Nat BY <1>2 DEF TakeTask
    <2>4. Len(Tail(tasks)) <= Capacity BY <2>1, QueueAssumption
    <2> QED BY <1>2, <2>1, <2>2, <2>3, <2>4, Zenon DEF TakeTask
  <1>3. CASE Exit \/ Default \/ TaskDone BY <1>3, Zenon DEF Exit, Default, TaskDone
  <1> QED BY <1>1, <1>2, <1>3, Zenon DEF queueRun

LEMMA StepInOrder == InOrder /\ [QueueNext]_queueVars => InOrder'
  <1> SUFFICES ASSUME InOrder, [QueueNext]_queueVars PROVE InOrder' OBVIOUS
  <1>1. CASE queueRun BY <1>1, RunInOrder
  <1>2. CASE CloseQueue BY <1>2, Zenon DEF CloseQueue, InOrder, QueueTypeOK
  <1>3. CASE \E p \in Pusher : Push(p) BY <1>3, PushInOrder
  <1>4. CASE UNCHANGED queueVars BY <1>4, Zenon DEF queueVars, InOrder, QueueTypeOK
  <1> QED BY <1>1, <1>2, <1>3, <1>4 DEF QueueNext

(* The worker runs the tasks of each kind in the order in which Push       *)
(* accepted them, none lost or repeated, whatever Close does meanwhile.    *)
THEOREM TasksInOrder == QueueSpec => []InOrder
  <1>1. QueueInit => InOrder
    <2> SUFFICES ASSUME QueueInit PROVE InOrder BY Zenon
    <2>1. <<>> \in Seq(Jumper) /\ <<>> \in Seq(Pusher \ Jumper) /\ Len(<<>>) = 0
          /\ <<>> \o <<>> = <<>>
      OBVIOUS
    <2> QED BY <2>1, QueueAssumption DEF QueueInit, InOrder, QueueTypeOK
  <1> QED BY <1>1, StepInOrder, PTL DEF QueueSpec

-----------------------------------------------------------------------------
(***************************************************************************)
(* Requests, for any number of callers, any ids the application gives and  *)
(* any width of the ids.                                                   *)
(***************************************************************************)

Live == {"send", "wait", "leave"}

(* A request has its id from the application, if that gave one, and keeps  *)
(* it; what was sent has been numbered; a handler sends between callers of *)
(* one id.                                                                 *)
Numbering ==
  /\ \A r \in Caller : pc[r] = "idle" => id[r] = 0
  /\ \A r \in Caller : pc[r] \in Live \cup {"numbered"} /\ GivenID[r] # 0 => id[r] = GivenID[r]
  /\ \A r \in requests \cup responses \cup received : pc[r] # "idle"
  /\ handler # Free => pc[handler.of] # "idle" /\ id[handler.of] = id[handler.to]

RequestsInv == RequestsTypeOK /\ TasksLive /\ Numbering /\ OwnResponse

LEMMA NextIDType == ASSUME NEW n \in Nat PROVE NextID(n) \in IDs
  <1>1. n \div MaxUint16 \in Nat BY RequestsAssumption
  <1> QED BY <1>1, RequestsAssumption DEF NextID, IDs

LEMMA RequestsInitInv == RequestsInit => RequestsInv
  <1> SUFFICES ASSUME RequestsInit PROVE RequestsInv OBVIOUS
  <1>1. 0 \in IDs BY RequestsAssumption DEF IDs
  <1>2. RequestsTypeOK BY <1>1, Zenon DEF RequestsInit, RequestsTypeOK
  <1>3. TasksLive BY Zenon DEF RequestsInit, TasksLive
  <1>4. Numbering BY Zenon DEF RequestsInit, Numbering, Live
  <1>5. OwnResponse BY Zenon DEF RequestsInit, OwnResponse
  <1> QED BY <1>2, <1>3, <1>4, <1>5, Zenon DEF RequestsInv

LEMMA FreeFields == Free.of = None /\ Free.to = None
  BY Zenon DEF Free

(* Ids are given once: who has its id for itself had it before.            *)
LEMMA OwnBefore ==
  ASSUME RequestsInv, NEW r \in Caller, NEW q \in Caller, OwnID(q)',
         Number(r) \/ UNCHANGED id
  PROVE  OwnID(q)
  <1>1. CASE UNCHANGED id BY <1>1, Zenon DEF OwnID
  <1>2. CASE Number(r) BY <1>2, Zenon DEF Number, OwnID, RequestsInv, RequestsTypeOK, Numbering
  <1> QED BY <1>1, <1>2, Zenon

LEMMA NumberInv == ASSUME RequestsInv, NEW r \in Caller, Number(r) PROVE RequestsInv'
  <1>1. requestID + 1 \in Nat /\ NextID(requestID + 1) \in IDs
    BY NextIDType DEF RequestsInv, RequestsTypeOK
  <1>2. RequestsTypeOK'
    BY <1>1, RequestsAssumption, ZenonT(60) DEF RequestsInv, RequestsTypeOK, Number, IDs
  <1>3. TasksLive'
    BY RequestsAssumption, FreeFields DEF RequestsInv, RequestsTypeOK, TasksLive, Number
  <1>4. Numbering'
    BY RequestsAssumption, FreeFields
    DEF RequestsInv, RequestsTypeOK, TasksLive, Numbering, Number, Live
  <1>5. OwnResponse'
    BY OwnBefore, Zenon DEF RequestsInv, RequestsTypeOK, OwnResponse, Number
  <1> QED BY <1>2, <1>3, <1>4, <1>5, Zenon DEF RequestsInv

LEMMA RegisterInv == ASSUME RequestsInv, NEW r \in Caller, Register(r) PROVE RequestsInv'
  <1>1. RequestsTypeOK' BY Zenon DEF RequestsInv, RequestsTypeOK, Register
  <1>2. TasksLive' BY RequestsAssumption DEF RequestsInv, RequestsTypeOK, TasksLive, Register
  <1>3. Numbering' BY Zenon DEF RequestsInv, RequestsTypeOK, Numbering, Register, Live
  <1>4. OwnResponse' BY OwnBefore, Zenon DEF RequestsInv, OwnResponse, Register
  <1> QED BY <1>1, <1>2, <1>3, <1>4 DEF RequestsInv

LEMMA SendInv == ASSUME RequestsInv, NEW r \in Caller, Send(r) PROVE RequestsInv'
  <1>1. RequestsTypeOK' BY Zenon DEF RequestsInv, RequestsTypeOK, Send
  <1>2. TasksLive' BY RequestsAssumption DEF RequestsInv, RequestsTypeOK, TasksLive, Send
  <1>3. Numbering' BY DEF RequestsInv, RequestsTypeOK, Numbering, Send, Live
  <1>4. OwnResponse' BY OwnBefore, Zenon DEF RequestsInv, RequestsTypeOK, OwnResponse, Send
  <1> QED BY <1>1, <1>2, <1>3, <1>4 DEF RequestsInv

LEMMA TimeoutInv == ASSUME RequestsInv, NEW r \in Caller, Timeout(r) PROVE RequestsInv'
  <1>1. RequestsTypeOK' BY Zenon DEF RequestsInv, RequestsTypeOK, Timeout
  <1>2. TasksLive' BY RequestsAssumption DEF RequestsInv, RequestsTypeOK, TasksLive, Timeout
  <1>3. Numbering' BY DEF RequestsInv, RequestsTypeOK, Numbering, Timeout, Live
  <1>4. OwnResponse' BY OwnBefore, Zenon DEF RequestsInv, RequestsTypeOK, OwnResponse, Timeout
  <1> QED BY <1>1, <1>2, <1>3, <1>4 DEF RequestsInv

LEMMA LeaveInv == ASSUME RequestsInv, NEW r \in Caller, Leave(r) PROVE RequestsInv'
  <1>1. RequestsTypeOK' BY Zenon DEF RequestsInv, RequestsTypeOK, Leave
  <1>2. TasksLive' BY RequestsAssumption DEF RequestsInv, RequestsTypeOK, TasksLive, Leave
  <1>3. Numbering' BY Zenon DEF RequestsInv, RequestsTypeOK, Numbering, Leave, Live
  <1>4. OwnResponse' BY OwnBefore, Zenon DEF RequestsInv, OwnResponse, Leave
  <1> QED BY <1>1, <1>2, <1>3, <1>4 DEF RequestsInv

(* Requests and responses move towards the handler.                        *)
LEMMA PacketInv ==
  ASSUME RequestsInv, NEW r \in Caller, Answer(r) \/ RecvPacket(r) \/ Close PROVE RequestsInv'
  <1>1. RequestsTypeOK' BY Zenon DEF RequestsInv, RequestsTypeOK, Answer, RecvPacket, Close
  <1>2. TasksLive' BY Zenon DEF RequestsInv, TasksLive, Answer, RecvPacket, Close
  <1>3. Numbering' BY Zenon DEF RequestsInv, RequestsTypeOK, Numbering, Answer, RecvPacket, Close
  <1>4. OwnResponse' BY OwnBefore, Zenon DEF RequestsInv, OwnResponse, Answer, RecvPacket, Close
  <1> QED BY <1>1, <1>2, <1>3, <1>4, Zenon DEF RequestsInv

(* A request that finds no connection returns at once.                     *)
LEMMA NotFoundInv == ASSUME RequestsInv, NEW r \in Caller, NotFound(r) PROVE RequestsInv'
  <1>1. RequestsTypeOK' BY Zenon DEF RequestsInv, RequestsTypeOK, NotFound
  <1>2. TasksLive' BY DEF RequestsInv, RequestsTypeOK, TasksLive, Numbering, NotFound
  <1>3. Numbering' BY Zenon DEF RequestsInv, RequestsTypeOK, Numbering, NotFound, Live
  <1>4. OwnResponse' BY OwnBefore, Zenon DEF RequestsInv, RequestsTypeOK, OwnResponse, NotFound
  <1> QED BY <1>1, <1>2, <1>3, <1>4 DEF RequestsInv

LEMMA RecvResponseInv == ASSUME RequestsInv, NEW r \in Caller, recvResponse(r) PROVE RequestsInv'
  <1>1. id[r] \in IDs /\ requestTasks[id[r]] \in Caller \cup {None}
    BY Zenon DEF RequestsInv, RequestsTypeOK
  <1>2. CASE requestTasks[id[r]] = None
    <2>1. handler' = handler /\ received' \subseteq received BY <1>2, Zenon DEF recvResponse
    <2>2. UNCHANGED <<requestID, requestTasks, pc, id, result, requests, responses, closed>>
      BY Zenon DEF recvResponse
    <2>3. RequestsTypeOK' BY <2>1, <2>2, Zenon DEF RequestsInv, RequestsTypeOK
    <2>4. TasksLive' BY <2>1, <2>2, Zenon DEF RequestsInv, TasksLive
    <2>5. Numbering' BY <2>1, <2>2, Zenon DEF RequestsInv, Numbering
    <2>6. OwnResponse' BY <2>2, OwnBefore, Zenon DEF RequestsInv, OwnResponse
    <2> QED BY <2>3, <2>4, <2>5, <2>6 DEF RequestsInv
  <1>3. CASE requestTasks[id[r]] # None
    <2>1. /\ handler' = [of |-> r, to |-> requestTasks[id[r]]]
          /\ handler'.of = r /\ handler'.to = requestTasks[id[r]]
      BY <1>3, Zenon DEF recvResponse
    <2>2. RequestsTypeOK' BY <1>1, <1>3, <2>1, Zenon DEF RequestsInv, RequestsTypeOK, recvResponse
    <2>3. TasksLive' BY <1>1, <1>3, <2>1, Zenon DEF RequestsInv, TasksLive, recvResponse
    <2>4. Numbering'
      BY <1>1, <1>3, <2>1 DEF RequestsInv, RequestsTypeOK, TasksLive, Numbering, recvResponse
    <2>5. OwnResponse' BY OwnBefore, Zenon DEF RequestsInv, OwnResponse, recvResponse
    <2> QED BY <2>2, <2>3, <2>4, <2>5 DEF RequestsInv
  <1> QED BY <1>2, <1>3, Zenon

LEMMA DeliverInv == ASSUME RequestsInv, NEW r \in Caller, Deliver(r) PROVE RequestsInv'
  <1>1. handler # Free /\ handler \in [of : Caller, to : Caller] /\ handler.to = r
    BY RequestsAssumption, FreeFields, Zenon DEF RequestsInv, RequestsTypeOK, Deliver
  <1>2. RequestsTypeOK' BY <1>1, Zenon DEF RequestsInv, RequestsTypeOK, Deliver
  <1>3. TasksLive' BY RequestsAssumption DEF RequestsInv, RequestsTypeOK, TasksLive, Deliver
  <1>4. Numbering' BY DEF RequestsInv, RequestsTypeOK, Numbering, Deliver, Live
  <1>5. ASSUME OwnID(r) PROVE handler.of = r
    <2>1. id[r] = GivenID[r] BY <1>5, Zenon DEF RequestsInv, Numbering, Deliver, Live, OwnID
    <2>2. id[handler.of] = id[r] BY <1>1, Zenon DEF RequestsInv, Numbering
    <2> QED BY <1>1, <1>5, <2>1, <2>2, Zenon DEF OwnID
  <1>6. OwnResponse'
    BY <1>5, OwnBefore, Zenon DEF RequestsInv, RequestsTypeOK, OwnResponse, Deliver
  <1> QED BY <1>2, <1>3, <1>4, <1>6 DEF RequestsInv

LEMMA RequestsStepInv == RequestsInv /\ [RequestsNext]_requestsVars => RequestsInv'
  <1> SUFFICES ASSUME RequestsInv, [RequestsNext]_requestsVars PROVE RequestsInv' OBVIOUS
  <1>1. CASE Close
    <2>1. CASE Caller = {}
      BY <1>1, <2>1, Zenon DEF Close, RequestsInv, RequestsTypeOK, TasksLive, Numbering, OwnResponse
    <2>2. CASE \E r : r \in Caller BY <1>1, <2>2, PacketInv, Zenon
    <2> QED BY <2>1, <2>2, Zenon
  <1>2. ASSUME NEW r \in Caller,
               NotFound(r) \/ Number(r) \/ Step(r) \/ Timeout(r) \/ Answer(r) \/ RecvPacket(r)
        PROVE  RequestsInv'
    BY <1>2, NotFoundInv, NumberInv, RegisterInv, SendInv, TimeoutInv, LeaveInv, PacketInv,
       RecvResponseInv, DeliverInv, Zenon DEF Step
  <1>3. CASE UNCHANGED requestsVars
    BY <1>3 DEF requestsVars, RequestsInv, RequestsTypeOK, TasksLive, Numbering, OwnResponse, OwnID
  <1> QED BY <1>1, <1>2, <1>3, Zenon DEF RequestsNext

LEMMA RequestsInvariance == RequestsSpec => []RequestsInv
  BY RequestsInitInv, RequestsStepInv, PTL DEF RequestsSpec

(* The tasks, the ids, the results and the holder of requestLock are what  *)
(* SendRequest and recvResponse take them to be.                           *)
THEOREM RequestsTyped == RequestsSpec => []RequestsTypeOK
  <1>1. RequestsInv => RequestsTypeOK BY Zenon DEF RequestsInv
  <1> QED BY <1>1, RequestsInvariance, PTL

(* recvResponse never sends on a closed channel: who is registered, or is  *)
(* being sent to, has not run the deferred function of SendRequest.        *)
THEOREM NoSendOnClosed == RequestsSpec => []TasksLive
  <1>1. RequestsInv => TasksLive BY Zenon DEF RequestsInv
  <1> QED BY <1>1, RequestsInvariance, PTL

(* SendRequest returns the response to its own request, if no other        *)
(* request has its id.                                                     *)
THEOREM OwnResponses == RequestsSpec => []OwnResponse
  <1>1. RequestsInv => OwnResponse BY Zenon DEF RequestsInv
  <1> QED BY <1>1, RequestsInvariance, PTL

-----------------------------------------------------------------------------
(***************************************************************************)
(* The heartbeat.  A KeepAlive that is started once never panics, whatever *)
(* the bounds on the pings, the pongs and the other packets: the ping of   *)
(* its only chain is the one that made the channel in the field, until it  *)
(* closes it.                                                              *)
(***************************************************************************)

Pinging == {"send", "select", "wait", "leave"}

Pcs == {"off", "timer", "run", "register", "close", "end"} \cup Pinging

(* The first chain is alone, and there is a channel exactly while it       *)
(* pings: one that is not closed.                                          *)
Single ==
  /\ \A c \in Chain \ {1} : chain[c] = "off"
  /\ chain[1] \in Pinging => pingChan \in Channel
  /\ chain[1] \notin Pinging => pingChan = 0
  /\ pingChan \notin closedChans /\ 0 \notin closedChans
  /\ \A c \in Chain : waits[c] # 0 => chain[c] = "wait"
  /\ ~panicked

PingInv ==
  /\ chain \in [Chain -> Pcs]
  /\ waits = [c \in Chain |-> waits[c]]
  /\ started \in Nat \ {0}
  /\ started = 1 => Single

LEMMA OneChain == 1 \in Chain /\ 1 \in Channel /\ 0 \notin Channel /\ Chain \subseteq Nat
  BY HeartbeatAssumption DEF Chain, Channel

LEMMA PingInitInv == HeartbeatInit => PingInv
  BY OneChain, Zenon DEF HeartbeatInit, PingInv, Single, Pcs, Pinging

(* Steps of a chain that leave the channel in the field alone.             *)
LEMMA ChainStep ==
  ASSUME PingInv, NEW c \in Chain,
         Fire(c) \/ run(c) \/ PingSend(c) \/ Select(c) \/ Pong(c) \/ PingLate(c) \/ PingTimeout(c)
  PROVE  PingInv'
  <1>1. UNCHANGED <<started, pingChan, closedChans, panicked>>
    BY Zenon DEF Fire, run, PingSend, Select, Pong, PingLate, PingTimeout, timer, Down
  <1>2. PICK p \in Pcs :
          /\ chain' = [chain EXCEPT ![c] = p]
          /\ chain[c] # "off" /\ (chain[c] \in Pinging <=> p \in Pinging)
    BY DEF Fire, run, PingSend, Select, Pong, PingLate, PingTimeout, Goto, Pcs, Pinging
  <1>3. CASE UNCHANGED waits /\ chain[c] # "wait"
    BY <1>1, <1>2, <1>3, OneChain, Zenon DEF PingInv, Single
  <1>4. CASE \E w : waits' = [waits EXCEPT ![c] = w] /\ (w = 0 \/ p = "wait")
    BY <1>1, <1>2, <1>4, OneChain, Zenon DEF PingInv, Single
  <1>5. waits' = [waits EXCEPT ![c] = pingChan] /\ chain' = [chain EXCEPT ![c] = "wait"]
        => p = "wait"
    BY <1>2, Zenon DEF PingInv
  <1> QED
    BY <1>3, <1>4, <1>5, Zenon DEF Fire, run, PingSend, Select, Pong, PingLate, PingTimeout, Goto

LEMMA PingRegisterInv == ASSUME PingInv, NEW c \in Chain, PingRegister(c) PROVE PingInv'
  <1>1. CASE started # 1
    BY <1>1, Zenon DEF PingInv, PingRegister, Goto, timer, Pcs, Pinging
  <1>2. CASE started = 1
    <2>1. c = 1 /\ pingChan = 0 /\ sending = 0
      BY <1>2, Zenon DEF PingInv, Single, PingRegister, Pinging
    <2>2. Used = {0}
      BY <1>2, <2>1, OneChain DEF Used, PingInv, Single, PingRegister
    <2>3. pingChan' \in Channel
      BY <2>2, OneChain, Zenon DEF PingRegister
    <2> QED
      BY <1>2, <2>1, <2>3, OneChain DEF PingInv, Single, PingRegister, Goto, timer, Pcs, Pinging
  <1> QED BY <1>1, <1>2, Zenon

LEMMA PingLeaveInv == ASSUME PingInv, NEW c \in Chain, PingLeave(c) PROVE PingInv'
  <1>1. CASE started # 1
    BY <1>1, Zenon DEF PingInv, PingLeave, Goto, timer, Pcs, Pinging
  <1>2. CASE started = 1
    <2>1. c = 1 /\ pingChan # 0
      BY <1>2, OneChain, Zenon DEF PingInv, Single, PingLeave, Pinging
    <2> QED
      BY <1>2, <2>1, OneChain, Zenon DEF PingInv, Single, PingLeave, Goto, timer, Pcs, Pinging
  <1> QED BY <1>1, <1>2

LEMMA PingStartInv == ASSUME PingInv, Start PROVE PingInv'
  <1>1. started' \in Nat \ {0} /\ started' # 1 BY DEF PingInv, Start
  <1>2. chain' \in [Chain -> Pcs] BY Zenon DEF PingInv, Start, Goto, Pcs
  <1> QED BY <1>1, <1>2, Zenon DEF PingInv, Start

(* Steps of the connection: only a pong looks at the channel.              *)
LEMMA ConnectionStep ==
  ASSUME PingInv,
         \/ Write \/ AnswerPing \/ recvPong \/ UpdateTime \/ Elapse \/ Lose \/ ClientClose \/ Vanish
  PROVE  PingInv'
  <1>1. UNCHANGED <<chain, waits, pingChan, closedChans, started>>
    BY Zenon DEF Write, AnswerPing, recvPong, UpdateTime, Elapse, Lose, ClientClose, Vanish, timer
  <1>2. panicked' => panicked \/ pingChan \in closedChans
    BY Zenon DEF Write, AnswerPing, recvPong, UpdateTime, Elapse, Lose, ClientClose, Vanish
  <1> QED BY <1>1, <1>2, Zenon DEF PingInv, Single

LEMMA PingStepInv == PingInv /\ [HeartbeatNext]_heartbeatVars => PingInv'
  <1> SUFFICES ASSUME PingInv, [HeartbeatNext]_heartbeatVars PROVE PingInv' OBVIOUS
  <1>1. CASE UNCHANGED heartbeatVars BY <1>1, Zenon DEF heartbeatVars, timer, PingInv, Single
  <1>2. CASE HeartbeatNext
    BY <1>2, ChainStep, PingRegisterInv, PingLeaveInv, PingStartInv, ConnectionStep, Zenon
    DEF HeartbeatNext, Ping
  <1> QED BY <1>1, <1>2, Zenon

(* SendPing closes no nil channel and recvPong sends on no closed one, as  *)
(* long as KeepAlive is not restarted.                                     *)
THEOREM NoPanicWithoutRestart == HeartbeatSpec => []PanicNeedsRestart
  <1>1. PingInv => PanicNeedsRestart BY DEF PingInv, Single, PanicNeedsRestart
  <1> QED BY <1>1, PingInitInv, PingStepInv, PTL DEF HeartbeatSpec

-----------------------------------------------------------------------------
(* The state of the heartbeat stays well formed, restarts included.        *)

LEMMA OneMore ==
  ASSUME NEW S, IsFiniteSet(S), NEW x, NEW n \in Nat, Cardinality(S) <= n
  PROVE  IsFiniteSet(S \cup {x}) /\ Cardinality(S \cup {x}) <= n + 1
  <1>1. Cardinality(S) \in Nat BY FS_CardinalityType, Zenon
  <1>2. /\ IsFiniteSet(S \cup {x})
        /\ Cardinality(S \cup {x}) = IF x \in S THEN Cardinality(S) ELSE Cardinality(S) + 1
    BY FS_AddElement, Zenon
  <1> QED BY <1>1, <1>2

(* There are more channels than goroutines that hold one.                  *)
LEMMA FreeChannel == ASSUME waits \in [Chain -> Channel \cup {0}] PROVE Channel \ Used # {}
  <1> DEFINE W == {waits[c] : c \in Chain}
  <1>1. IsFiniteSet(Chain) /\ Cardinality(Chain) = MaxStarts
    BY HeartbeatAssumption, FS_Interval DEF Chain
  <1>2. IsFiniteSet(Channel) /\ Cardinality(Channel) = 2 * MaxStarts + 2
    BY HeartbeatAssumption, FS_Interval DEF Channel
  <1>3. waits \in Surjection(Chain, W) BY Zenon DEF Surjection
  <1>4. IsFiniteSet(W) /\ Cardinality(W) <= MaxStarts BY <1>1, <1>3, FS_Surjection, Zenon
  <1> HIDE DEF W
  <1>5. IsFiniteSet(W \cup {pingChan}) /\ Cardinality(W \cup {pingChan}) <= MaxStarts + 1
    BY <1>4, OneMore, HeartbeatAssumption, Zenon
  <1>6. /\ IsFiniteSet((W \cup {pingChan}) \cup {sending})
        /\ Cardinality((W \cup {pingChan}) \cup {sending}) <= MaxStarts + 2
    <2>1. MaxStarts + 1 \in Nat /\ MaxStarts + 2 = (MaxStarts + 1) + 1 BY HeartbeatAssumption
    <2>2. Cardinality((W \cup {pingChan}) \cup {sending}) <= (MaxStarts + 1) + 1
          /\ IsFiniteSet((W \cup {pingChan}) \cup {sending})
      BY <1>5, <2>1, OneMore, Zenon
    <2> QED BY <2>1, <2>2, Zenon
  <1>7. Used = (W \cup {pingChan}) \cup {sending} BY Zenon DEF Used, W
  <1>8. ~(Channel \subseteq Used)
    <2> SUFFICES ASSUME Channel \subseteq Used PROVE FALSE BY Zenon
    <2>1. Cardinality(Channel) <= Cardinality(Used) BY <1>6, <1>7, FS_Subset, Zenon
    <2>2. Cardinality(Used) \in Nat BY <1>6, <1>7, FS_CardinalityType, Zenon
    <2> QED BY <1>2, <1>6, <1>7, <2>1, <2>2, HeartbeatAssumption
  <1> QED BY <1>8, Zenon

(* The chains that no Start has made yet are off: without it a Start could *)
(* put a chain that waits back to its beginning.                           *)
Fresh == \A c \in Chain : c > started => chain[c] = "off"

LEMMA TypeRegister ==
  ASSUME HeartbeatTypeOK, NEW c \in Chain, PingRegister(c)
  PROVE  HeartbeatTypeOK'
  <1>1. pingChan' \in Channel
    <2>1. Channel \ Used # {} BY FreeChannel, Zenon DEF HeartbeatTypeOK
    <2>2. pingChan' = CHOOSE ch \in Channel \ Used : TRUE BY Zenon DEF PingRegister
    <2> QED BY <2>1, <2>2, Zenon
  <1> QED BY <1>1, Zenon DEF HeartbeatTypeOK, PingRegister, Goto, alive, peer, timer

LEMMA TypeSend == ASSUME HeartbeatTypeOK, NEW c \in Chain, PingSend(c) PROVE HeartbeatTypeOK'
  BY HeartbeatAssumption DEF HeartbeatTypeOK, PingSend, Goto, alive, peer, timer

LEMMA TypeFire ==
  ASSUME HeartbeatTypeOK, NEW c \in Chain, Fire(c) \/ run(c) \/ Select(c)
  PROVE  HeartbeatTypeOK'
  BY HeartbeatAssumption DEF HeartbeatTypeOK, Fire, run, Select, Goto, alive, peer, timer

LEMMA TypePong ==
  ASSUME HeartbeatTypeOK, NEW c \in Chain, Pong(c) \/ PingLate(c)
  PROVE  HeartbeatTypeOK'
  BY HeartbeatAssumption DEF HeartbeatTypeOK, Pong, PingLate, Goto, alive, peer, timer

LEMMA TypeLeave == ASSUME HeartbeatTypeOK, NEW c \in Chain, PingLeave(c) PROVE HeartbeatTypeOK'
  BY HeartbeatAssumption DEF HeartbeatTypeOK, PingLeave, Goto, alive, peer, timer

LEMMA DownTypes ==
  ASSUME Down
  PROVE  /\ open' \in BOOLEAN /\ retrying' \in BOOLEAN /\ stoped' \in BOOLEAN
         /\ queued' \in 0..MaxWire /\ wire' \in 0..MaxWire
  <1>1. queued' \in 0..MaxWire /\ wire' \in 0..MaxWire BY HeartbeatAssumption DEF Down
  <1>2. open' \in BOOLEAN /\ retrying' \in BOOLEAN /\ stoped' \in BOOLEAN BY Zenon DEF Down
  <1> QED BY <1>1, <1>2, Zenon

LEMMA TypeTimeout == ASSUME HeartbeatTypeOK, NEW c \in Chain, PingTimeout(c) PROVE HeartbeatTypeOK'
  <1>1. /\ open' \in BOOLEAN /\ retrying' \in BOOLEAN /\ stoped' \in BOOLEAN
        /\ queued' \in 0..MaxWire /\ wire' \in 0..MaxWire
    <2>1. CASE Down BY <2>1, DownTypes, Zenon
    <2>2. CASE UNCHANGED <<open, queued, wire, retrying, stoped>> BY <2>2, Zenon DEF HeartbeatTypeOK
    <2> QED BY <2>1, <2>2, Zenon DEF PingTimeout
  <1>2. /\ chain[c] = "close" /\ chain' = [chain EXCEPT ![c] = "timer"] /\ late' = late \ {c}
        /\ UNCHANGED <<user, shut, silent, recent, started, waits, pingChan, closedChans, pongs,
                       sending, panicked, heard>>
    BY Zenon DEF PingTimeout, Goto
  <1> QED BY <1>1, <1>2, Zenon DEF HeartbeatTypeOK

LEMMA TypeConn ==
  ASSUME HeartbeatTypeOK, Write \/ AnswerPing \/ UpdateTime \/ Elapse
  PROVE  HeartbeatTypeOK'
  <1>1. /\ queued' \in 0..MaxWire /\ wire' \in 0..MaxWire /\ pongs' \in 0..MaxWire
        /\ heard' \in 0..MaxHeard
    BY HeartbeatAssumption DEF HeartbeatTypeOK, Write, AnswerPing, UpdateTime, Elapse, peer
  <1>2. recent' \in BOOLEAN
    BY Zenon DEF Write, AnswerPing, UpdateTime, Elapse
  <1>3. UNCHANGED <<alive, silent, stoped, started, chain, waits, late, pingChan, closedChans,
                    sending, panicked>>
    BY Zenon DEF Write, AnswerPing, UpdateTime, Elapse, peer
  <1> QED BY <1>1, <1>2, <1>3 DEF HeartbeatTypeOK, alive

LEMMA TypeRecv == ASSUME HeartbeatTypeOK, recvPong PROVE HeartbeatTypeOK'
  BY HeartbeatAssumption DEF HeartbeatTypeOK, recvPong, alive, peer, timer

LEMMA TypeLose == ASSUME HeartbeatTypeOK, Lose \/ ClientClose \/ Vanish PROVE HeartbeatTypeOK'
  <1>1. CASE Lose
    <2>1. Down BY <1>1, Zenon DEF Lose
    <2> QED BY <1>1, <2>1, DownTypes, Zenon DEF HeartbeatTypeOK, Lose
  <1>2. CASE ClientClose
    <2>1. queued' \in 0..MaxWire /\ wire' \in 0..MaxWire
      BY <1>2, HeartbeatAssumption DEF ClientClose
    <2> QED BY <1>2, <2>1, Zenon DEF HeartbeatTypeOK, ClientClose
  <1>3. CASE Vanish BY <1>3 DEF HeartbeatTypeOK, Vanish, alive, timer
  <1> QED BY <1>1, <1>2, <1>3, Zenon

LEMMA TypeStart == ASSUME HeartbeatTypeOK, Fresh, Start PROVE HeartbeatTypeOK' /\ Fresh'
  <1>1. started \in Nat /\ started' = started + 1 /\ started' \in 1..MaxStarts
    BY HeartbeatAssumption DEF HeartbeatTypeOK, Start
  <1>2. PICK c \in Chain : started' = c /\ c > started BY <1>1 DEF Chain
  <1>3. /\ chain' = [chain EXCEPT ![c] = "run"] /\ open' = TRUE /\ stoped' = FALSE
        /\ UNCHANGED <<user, retrying, shut, peer, recent, waits, late, pingChan, closedChans,
                       queued, pongs, sending, panicked, heard>>
    BY <1>1, <1>2, Zenon DEF Start, Goto
  <1>4. chain[c] = "off" BY <1>2, Zenon DEF Fresh
  <1>5. waits[c] = 0 BY <1>4, Zenon DEF HeartbeatTypeOK
  <1>6. HeartbeatTypeOK' BY <1>1, <1>3, <1>5, Zenon DEF HeartbeatTypeOK, peer
  <1>7. \A d \in Chain : d > started' => d > started /\ d # c BY <1>1, <1>2 DEF Chain
  <1>8. Fresh' BY <1>3, <1>7, Zenon DEF Fresh, HeartbeatTypeOK
  <1> QED BY <1>6, <1>8, Zenon

LEMMA TypeInit == HeartbeatInit => HeartbeatTypeOK /\ Fresh
  <1> SUFFICES ASSUME HeartbeatInit PROVE HeartbeatTypeOK /\ Fresh BY Zenon
  <1>1. started \in 1..MaxStarts BY HeartbeatAssumption DEF HeartbeatInit
  <1>2. retrying \in BOOLEAN BY Zenon DEF HeartbeatInit
  <1>3. 0 \in 0..MaxWire /\ 0 \in 0..MaxHeard BY HeartbeatAssumption
  <1>4. chain \in [Chain -> {"off", "timer", "run", "register", "send", "select", "wait",
                             "leave", "close", "end"}]
        /\ waits \in [Chain -> Channel \cup {0}] /\ \A c \in Chain : waits[c] = 0
    BY Zenon DEF HeartbeatInit
  <1>5. /\ user \in {"client", "pinger"} /\ open \in BOOLEAN /\ shut \in BOOLEAN
        /\ silent \in BOOLEAN /\ stoped \in BOOLEAN /\ recent \in BOOLEAN /\ panicked \in BOOLEAN
        /\ late \subseteq Chain /\ pingChan \in Channel \cup {0} /\ closedChans \subseteq Channel
        /\ sending \in Channel \cup {0}
    BY Zenon DEF HeartbeatInit
  <1>6. /\ queued \in 0..MaxWire /\ wire \in 0..MaxWire /\ pongs \in 0..MaxWire
        /\ heard \in 0..MaxHeard
    BY <1>3, Zenon DEF HeartbeatInit
  <1>7. HeartbeatTypeOK BY <1>1, <1>2, <1>4, <1>5, <1>6, Zenon DEF HeartbeatTypeOK
  <1>8. Fresh BY HeartbeatAssumption DEF HeartbeatInit, Fresh, Chain
  <1> QED BY <1>7, <1>8, Zenon

(* Only Start makes a chain.                                               *)
LEMMA FreshKept ==
  ASSUME HeartbeatTypeOK, Fresh, [HeartbeatNext]_heartbeatVars, ~Start
  PROVE  Fresh'
  <1>1. CASE \E c \in Chain : Fire(c) \/ run(c) \/ Ping(c)
    <2>1. PICK c \in Chain : Fire(c) \/ run(c) \/ Ping(c) BY <1>1, Zenon
    <2>2. chain[c] # "off" /\ (\E at : chain' = [chain EXCEPT ![c] = at]) /\ started' = started
      BY <2>1, Zenon DEF Fire, run, Ping, PingRegister, PingSend, Select, Pong, PingLate,
                         PingLeave, PingTimeout, Goto, timer
    <2> QED BY <2>2, Zenon DEF Fresh, HeartbeatTypeOK
  <1>2. CASE UNCHANGED <<chain, started>> BY <1>2, Zenon DEF Fresh
  <1>3. Write \/ AnswerPing \/ recvPong \/ UpdateTime \/ Elapse \/ Lose \/ ClientClose \/ Vanish
        \/ UNCHANGED heartbeatVars => UNCHANGED <<chain, started>>
    BY Zenon DEF Write, AnswerPing, recvPong, UpdateTime, Elapse, Lose, ClientClose, Vanish,
           heartbeatVars, timer
  <1> QED BY <1>1, <1>2, <1>3, Zenon DEF HeartbeatNext

LEMMA TypeStep ==
  HeartbeatTypeOK /\ Fresh /\ [HeartbeatNext]_heartbeatVars => HeartbeatTypeOK' /\ Fresh'
  <1> SUFFICES ASSUME HeartbeatTypeOK, Fresh, [HeartbeatNext]_heartbeatVars
               PROVE  HeartbeatTypeOK' /\ Fresh'
    BY Zenon
  <1>1. CASE Start BY <1>1, TypeStart, Zenon
  <1>2. CASE ~Start
    <2> SUFFICES HeartbeatTypeOK' BY <1>2, FreshKept, Zenon
    <2>1. CASE UNCHANGED heartbeatVars
      BY <2>1 DEF HeartbeatTypeOK, heartbeatVars, alive, peer, timer
    <2>2. CASE HeartbeatNext
      BY <1>2, <2>2, TypeRegister, TypeSend, TypeFire, TypePong, TypeLeave, TypeTimeout, TypeConn,
         TypeRecv, TypeLose, Zenon DEF HeartbeatNext, Ping
    <2> QED BY <2>1, <2>2, Zenon
  <1> QED BY <1>1, <1>2, Zenon

(* KeepAlive and SendPing keep their state well formed for any bounds: the *)
(* field and the selects hold channels, only a ping that waits has one to  *)
(* wait on, and a new ping gets one that no goroutine uses (FreeChannel).  *)
THEOREM HeartbeatTyped == HeartbeatSpec => []HeartbeatTypeOK
  BY TypeInit, TypeStep, PTL DEF HeartbeatSpec
=============================================================================
