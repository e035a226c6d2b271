------------------------------ MODULE SendQueue ------------------------------
(***************************************************************************)
(* The send queue of a connection (internal/queue/queue.go): two Go        *)
(* channels, a worker goroutine that runs what it takes from them, and     *)
(* callers of Push and Close in goroutines of their own.                   *)
(*                                                                         *)
(* Close is three steps: it sets the flag, closes the channel jumps and    *)
(* assigns nil to the field tasks.  Push and the worker read that field    *)
(* without synchronisation, so once it is assigned they may see either     *)
(* value; a select evaluates its channels once, when it is entered.  A     *)
(* panic of one goroutine ends the process.                                *)
(***************************************************************************)
EXTENDS Naturals, Sequences

CONSTANTS
  Pusher,        \* the calls of Push, each with a task of its own
  Jumper,        \* those that push a jump task
  PatientPusher,       \* those whose context is never done
  Capacity,      \* of the channel tasks
  JumpCapacity,  \* of the channel jumps: 5 in the code
  Nobody

ASSUME QueueAssumption ==
  /\ Jumper \subseteq Pusher /\ PatientPusher \subseteq Pusher /\ Nobody \notin Pusher
  /\ Capacity \in Nat \ {0} /\ JumpCapacity \in Nat \ {0}

VARIABLES
  jumps, tasks,  \* the contents of the two channels
  closer,        \* how far Close is: no, flag, jumps, done
  push,            \* pusher -> how far its Push is, or its result
  sees,          \* pusher -> whether its select got the channel tasks or nil
  worker,        \* outer, inner, nil (inner, tasks seen as nil), task, exit
  current,       \* the task the worker is running
  accepted,      \* auxiliary: of jumps and of tasks, the pushes that succeeded
  executed,      \* auxiliary: of jumps and of tasks, what the worker took
  overtaken      \* auxiliary: ordinary tasks taken since a jump is waiting

queueVars == <<jumps, tasks, closer, push, sees, worker, current, accepted, executed, overtaken>>

QueueInit ==
  /\ jumps = <<>> /\ tasks = <<>>
  /\ closer = "no"
  /\ push = [p \in Pusher |-> "idle"]
  /\ sees = [p \in Pusher |-> "chan"]
  /\ worker = "outer" /\ current = Nobody
  /\ accepted = [jumps |-> <<>>, tasks |-> <<>>] /\ executed = accepted /\ overtaken = 0

Closed      == closer # "no"
JumpsClosed == closer \in {"jumps", "done"}
Crashed     == \E p \in Pusher : push[p] = "panic"

\* What a read of the field tasks may yield.
TasksField == IF closer = "done" THEN {"chan", "nil"} ELSE {"chan"}

-----------------------------------------------------------------------------
\* Push tests the flag ...
PushCheck(p) ==
  /\ push[p] = "idle"
  /\ push' = [push EXCEPT ![p] = IF Closed THEN "ErrQueueIsClosed" ELSE "checked"]
  /\ UNCHANGED <<jumps, tasks, closer, sees, worker, current, accepted, executed, overtaken>>

\* ... enters its select ...
PushSelect(p) ==
  /\ push[p] = "checked"
  /\ push' = [push EXCEPT ![p] = "select"]
  /\ \E f \in TasksField : sees' = [sees EXCEPT ![p] = f]
  /\ UNCHANGED <<jumps, tasks, closer, worker, current, accepted, executed, overtaken>>

\* ... and there sends to jumps, a panic if the channel is closed,
PushJump(p) ==
  /\ push[p] = "select" /\ p \in Jumper
  /\ JumpsClosed \/ Len(jumps) < JumpCapacity
  /\ IF JumpsClosed
       THEN /\ push' = [push EXCEPT ![p] = "panic"]
            /\ UNCHANGED <<jumps, accepted>>
       ELSE /\ push' = [push EXCEPT ![p] = "nil"]
            /\ jumps' = Append(jumps, p)
            /\ accepted' = [accepted EXCEPT !.jumps = Append(@, p)]
  /\ UNCHANGED <<tasks, closer, sees, worker, current, executed, overtaken>>

\* or to tasks (for ever blocked if it saw nil),
PushTask(p) ==
  /\ push[p] = "select" /\ p \notin Jumper /\ sees[p] = "chan"
  /\ Len(tasks) < Capacity
  /\ tasks' = Append(tasks, p)
  /\ accepted' = [accepted EXCEPT !.tasks = Append(@, p)]
  /\ push' = [push EXCEPT ![p] = "nil"]
  /\ UNCHANGED <<jumps, closer, sees, worker, current, executed, overtaken>>

\* or gives up because its context is done.
PushCancel(p) ==
  /\ push[p] = "select" /\ p \notin PatientPusher
  /\ push' = [push EXCEPT ![p] = "ctx.Err"]
  /\ UNCHANGED <<jumps, tasks, closer, sees, worker, current, accepted, executed, overtaken>>

\* The steps of Close.  Of several callers one passes the CompareAndSwap.
CloseQueue ==
  /\ closer # "done"
  /\ closer' = CASE closer = "no" -> "flag" [] closer = "flag" -> "jumps" [] OTHER -> "done"
  /\ UNCHANGED <<jumps, tasks, push, sees, worker, current, accepted, executed, overtaken>>

-----------------------------------------------------------------------------
\* The worker takes a jump, in either select.
TakeJump ==
  /\ jumps # <<>>
  /\ current' = Head(jumps) /\ jumps' = Tail(jumps)
  /\ executed' = [executed EXCEPT !.jumps = Append(@, Head(jumps))]
  /\ worker' = "task"
  /\ overtaken' = IF Len(jumps) = 1 THEN 0 ELSE overtaken
  /\ UNCHANGED <<tasks, closer, push, sees, accepted>>

\* Faulty variants, named for the mistake, precede the action they vary; no
\* definition uses them.  Here the worker returns with jumps left.
ExitUndrained ==
  /\ JumpsClosed
  /\ worker' = "exit"
  /\ UNCHANGED <<jumps, tasks, closer, push, sees, current, accepted, executed, overtaken>>

\* It returns when jumps is closed and drained.
Exit ==
  /\ jumps = <<>> /\ JumpsClosed
  /\ worker' = "exit"
  /\ UNCHANGED <<jumps, tasks, closer, push, sees, current, accepted, executed, overtaken>>

\* Fault: one select for both channels.
OneSelect ==
  /\ ~JumpsClosed
  /\ \E f \in TasksField : worker' = IF f = "nil" THEN "nil" ELSE "inner"
  /\ UNCHANGED <<jumps, tasks, closer, push, sees, current, accepted, executed, overtaken>>

\* The outer select has no jump: enter the inner one.
Default ==
  /\ jumps = <<>> /\ ~JumpsClosed
  /\ \E f \in TasksField : worker' = IF f = "nil" THEN "nil" ELSE "inner"
  /\ UNCHANGED <<jumps, tasks, closer, push, sees, current, accepted, executed, overtaken>>

\* Fault: a task that a jump overtakes is put back at the end.
TakeTaskOrRequeue ==
  /\ tasks # <<>>
  /\ IF jumps = <<>>
       THEN /\ current' = Head(tasks) /\ tasks' = Tail(tasks)
            /\ executed' = [executed EXCEPT !.tasks = Append(@, Head(tasks))]
            /\ worker' = "task"
       ELSE /\ tasks' = Append(Tail(tasks), Head(tasks)) /\ worker' = "outer"
            /\ UNCHANGED <<current, executed>>
  /\ UNCHANGED <<jumps, closer, push, sees, accepted, overtaken>>

TakeTask ==
  /\ tasks # <<>>
  /\ current' = Head(tasks) /\ tasks' = Tail(tasks)
  /\ executed' = [executed EXCEPT !.tasks = Append(@, Head(tasks))]
  /\ worker' = "task"
  /\ overtaken' = IF jumps = <<>> THEN 0 ELSE overtaken + 1
  /\ UNCHANGED <<jumps, closer, push, sees, accepted>>

\* The task returns.
TaskDone ==
  /\ current' = Nobody /\ worker' = "outer"
  /\ UNCHANGED <<jumps, tasks, closer, push, sees, accepted, executed, overtaken>>

queueRun ==
  \/ worker \in {"outer", "inner", "nil"} /\ (TakeJump \/ Exit)
  \/ worker = "outer" /\ Default
  \/ worker = "inner" /\ TakeTask
  \/ worker = "task" /\ TaskDone

Push(p) == PushCheck(p) \/ PushSelect(p) \/ PushJump(p) \/ PushTask(p) \/ PushCancel(p)

QueueNext == ~Crashed /\ (queueRun \/ CloseQueue \/ \E p \in Pusher : Push(p))

\* Goroutines that can go on do; nobody has to call Close, but a call goes
\* through.
Fairness ==
  /\ WF_queueVars(~Crashed /\ queueRun)
  /\ WF_queueVars(~Crashed /\ Closed /\ CloseQueue)
  /\ \A p \in Pusher : WF_queueVars(~Crashed /\ Push(p))

QueueSpec == QueueInit /\ [][QueueNext]_queueVars /\ Fairness

-----------------------------------------------------------------------------
\* The type invariant.
QueueTypeOK ==
  /\ jumps \in Seq(Jumper) /\ Len(jumps) <= JumpCapacity
  /\ tasks \in Seq(Pusher \ Jumper) /\ Len(tasks) <= Capacity
  /\ closer \in {"no", "flag", "jumps", "done"}
  /\ push \in [Pusher -> {"idle", "checked", "select", "nil", "ErrQueueIsClosed", "ctx.Err", "panic"}]
  /\ sees \in [Pusher -> {"chan", "nil"}]
  /\ worker \in {"outer", "inner", "nil", "task", "exit"}
  /\ current \in Pusher \cup {Nobody}
  /\ accepted \in [jumps : Seq(Jumper), tasks : Seq(Pusher \ Jumper)]
  /\ executed \in [jumps : Seq(Jumper), tasks : Seq(Pusher \ Jumper)]
  /\ overtaken \in Nat

\* The tasks of a kind that are already taken, then those still in their
\* channel, are the pushes of that kind in the order they succeeded: nothing
\* is lost, repeated or reordered while the queue runs, is closed, or is
\* pushed to in a race with Close.  (With the type invariant, which has the
\* capacities.)
InOrder ==
  /\ QueueTypeOK
  /\ accepted.jumps = executed.jumps \o jumps
  /\ accepted.tasks = executed.tasks \o tasks

\* A jump task (a PONG, CONNACK or CLOSE packet) waits for at most one
\* ordinary task besides the one being run: the worker's inner select may
\* prefer tasks once, then its outer select finds the jump.
JumpPriority == overtaken <= 1

\* What was accepted is run: jumps even if the queue is closed meanwhile (the
\* CLOSE packet of CloseCode), ordinary tasks unless it is.
AcceptedRun ==
  \A p \in Pusher :
    push[p] = "nil" ~> (\E ran \in {executed.jumps, executed.tasks} : \E i \in DOMAIN ran : ran[i] = p)
                       \/ (p \notin Jumper /\ Closed) \/ Crashed

=============================================================================
