------------------------------ MODULE Routing ------------------------------
(***************************************************************************)
(* One operation of a broker on all clients of a user or a channel, or on  *)
(* all clients: SendToUser, SendToChannel, SendToAll, IsOnline, KickUser.  *)
(* It looks the clients of each broker up in its own copy of the directory *)
(* and serves them there: its own clients directly, those of another       *)
(* broker by an RPC (peerClient, peerServer).  The API asks for it, or a   *)
(* message of a client whose kind has a route.                             *)
(*                                                                         *)
(* The sends run one goroutine per broker and wait for all; IsOnline and   *)
(* KickUser take the brokers in turn.  An RPC that fails is retried by     *)
(* gRPC (reconnnect's retryPolicy), though the handler of the failed       *)
(* attempt may have run or still be running.                               *)
(*                                                                         *)
(* Meanwhile clients connect and disconnect and the broker applies log     *)
(* entries, in any order: Sessions models the order there is.  Every       *)
(* broker has a peer client for every other, and all listeners are         *)
(* started.                                                                *)
(***************************************************************************)
EXTENDS DirectoryOps, Api, FiniteSets

CONSTANTS
  Self,          \* the broker whose operation it is
  Entry,         \* the log entries it may apply
  Conn, NoConn,  \* connections, each used once
  Login,         \* the servers and client ids with which clients log in
  MaxAttempts,   \* maxAttempts of the retry policy
  MaxApplied     \* bound: the entries applied while the operation runs

Server == Broker \X Net

ASSUME RoutingAssumption ==
  /\ Self \in Broker /\ Entry \subseteq Ops /\ Login \subseteq Server \X Client
  /\ NoConn \notin Conn /\ IsFiniteSet(Conn)
  /\ MaxAttempts \in Nat \ {0} /\ MaxApplied \in Nat

VARIABLES
  directory,  \* the broker's copy of the directory
  conn,       \* connection -> its server, its client, how far it is closed
  conns,      \* server -> client id -> connection
  op,         \* the operation: kind, object, brokers to visit, counts; auxiliary: how many
              \* entries were applied while it ran, and if a map it ranged over grew
  call,       \* broker -> the operation's goroutine, or turn, for its clients
  job,        \* broker -> attempt -> the execution of the request there
  got,        \* connection -> how often the message was put in its queue
  failed,     \* auxiliary: an RPC failed or a queue was full
  steady      \* auxiliary: the connections reachable all the time, until one failed

clients == <<directory, conn, conns>>
vars == <<clients, op, call, job, got, failed, steady>>

Sends == {"user", "channel", "all"}
InTurn == {"online", "kick"}

NoOp == [pc |-> "idle", kind |-> "all", to |-> NoNet, todo |-> {}, total |-> 0, success |-> 0,
         applied |-> 0, grew |-> FALSE]
NoCall == [pc |-> "none", live |-> FALSE, attempt |-> 0, targets |-> {}]
NoJob == [pc |-> "none", left |-> {}, total |-> 0, success |-> 0, waits |-> NoConn]
NoJobs == [a \in 1 .. MaxAttempts |-> NoJob]

NewConn == [st |-> "new", at |-> <<Self, NoNet>>, cid |-> NoConn]

Init ==
  /\ directory = EmptyDirectory
  /\ conn = [k \in Conn |-> NewConn]
  /\ conns = [s \in Server |-> [c \in Client |-> NoConn]]
  /\ op = NoOp
  /\ call = [n \in Broker |-> NoCall]
  /\ job = [n \in Broker |-> NoJobs]
  /\ got = [k \in Conn |-> 0]
  /\ failed = FALSE
  /\ steady = {}

(* What directory d lists for operation o at broker n: the clients and     *)
(* their networks.  Broadcasts look nothing up.                            *)
Listed(d, o, n) ==
  LET m == IF o.kind = "channel" THEN d.channelClients[n][o.to] ELSE d.userClients[n][o.to]
  IN  IF o.kind = "all" THEN Client \X Net
      ELSE {<<c, m[c]>> : c \in {c \in Client : m[c] # NoNet}}

(* Broker n has a map of the clients concerned: a KeyMap drops a map that  *)
(* becomes empty, and makes another when there is something to put in it.  *)
HasMap(d, o, n) == Listed(d, o, n) # {}

Active(s, c) == conns[s][c] # NoConn /\ conn[conns[s][c]].st = "open"

(* k is open, in its server's map and listed for operation o.              *)
Reachable(k, o) ==
  /\ conn[k].st = "open"
  /\ conns[conn[k].at][conn[k].cid] = k
  /\ <<conn[k].cid, conn[k].at[2]>> \in Listed(directory, o, conn[k].at[1])

Watch == steady' = IF failed' THEN {} ELSE {k \in steady : Reachable(k, op)'}

Busy(n) == call[n].pc \in {"load", "wait"}

Returned == op.pc = "run" /\ op.todo = {} /\ \A n \in Broker : ~Busy(n)

-----------------------------------------------------------------------------
SendToAll == [kind |-> "all", to |-> Absent]
SendToUser(uid) == [kind |-> "user", to |-> uid]
SendToChannel(channel) == [kind |-> "channel", to |-> channel]

(* The operations a message starts: its route, if there is one that is     *)
(* enabled, says how it is resent; property: the user or channel it names. *)
(* It goes to Kafka besides, which is not modelled.                        *)
OnUserMessage(route, property) ==
  CASE ~route.enabled -> {}
    [] route.enabled /\ route.resend = "all" -> {SendToAll}
    [] route.enabled /\ route.resend = "user" -> {SendToUser(property)} \ {SendToUser(Absent)}
    [] route.enabled /\ route.resend = "channel" ->
         {SendToChannel(property)} \ {SendToChannel(Absent)}
    [] route.enabled /\ route.resend \notin Sends -> {}

(* The operations of requests that the API lets through.                   *)
ApiOperations ==
  {[kind |-> r.kind, to |-> r.of] :
     r \in {r \in Requests(User \cup Channel, Sends \cup InTurn, {}) :
              \E ready \in BOOLEAN : Status(ready, r) = OK}}

(* Those whose object may have clients.                                    *)
Operations ==
  {o \in ApiOperations \cup UNION {OnUserMessage(route, p) :
               route \in [enabled : BOOLEAN, resend : Sends \cup {"none"}],
               p \in User \cup Channel \cup {Absent}} :
     o.to \in IF o.kind = "all" THEN {Absent} ELSE IF o.kind = "channel" THEN Channel ELSE User}

Begin(o) ==
  /\ op.pc = "idle"
  /\ o.kind = "all" => directory = EmptyDirectory  \* bound: it does not matter
  /\ op' = [op EXCEPT !.pc = "run", !.kind = o.kind, !.to = o.to, !.todo = Broker]
  /\ steady' = {k \in Conn : Reachable(k, op')}
  /\ UNCHANGED <<clients, call, job, got, failed>>

\* Fault: the range over the brokers ends at the first that has clients.
RangeFirst(n) ==
  LET found == Listed(directory, op, n) # {}
  IN  /\ n \in op.todo
      /\ op.kind \in InTurn => \A b \in Broker : ~Busy(b)
      /\ op' = [op EXCEPT !.todo = IF found THEN {} ELSE @ \ {n}]
      /\ call' = IF found THEN [call EXCEPT ![n] = [NoCall EXCEPT !.pc = "load", !.live = TRUE]] ELSE call
      /\ UNCHANGED <<clients, job, got, failed>>
      /\ Watch

(* The next broker of the range.  Get of the user's or channel's map; what *)
(* is in it is read later, by cids.Load().                                 *)
RangeBroker(n) ==
  /\ n \in op.todo
  /\ op.kind \in InTurn => \A b \in Broker : ~Busy(b)
  /\ op' = [op EXCEPT !.todo = @ \ {n}]
  /\ call' = IF HasMap(directory, op, n)
             THEN [call EXCEPT ![n] = [NoCall EXCEPT !.pc = "load", !.live = TRUE]]
             ELSE call
  /\ UNCHANGED <<clients, job, got, failed>>
  /\ Watch

Request(n, a, targets) ==
  job' = [job EXCEPT ![n][a] = [NoJob EXCEPT !.pc = "run", !.left = targets]]

(* The goroutine takes the map it was given, which is empty if the user's  *)
(* last client there left meanwhile: a later one goes to a new map.  It is *)
(* the map itself, not a copy: for an RPC it is encoded (here in the same  *)
(* step), the broker's own clients are served while it is ranged over.     *)
(* The peer client may not be ready.                                       *)
Load(n) ==
  LET targets == IF call[n].live THEN Listed(directory, op, n) ELSE {}
  IN  /\ call[n].pc = "load"
      /\ \/ /\ Request(n, 1, targets)
            /\ call' = [call EXCEPT ![n] = [pc |-> "wait", live |-> n = Self /\ call[n].live,
                                            attempt |-> 1,
                                            targets |-> IF n = Self THEN {} ELSE targets]]
            /\ UNCHANGED failed
         \/ /\ n # Self
            /\ call' = [call EXCEPT ![n] = [NoCall EXCEPT !.pc = "done"]]
            /\ failed' = TRUE
            /\ UNCHANGED job
      /\ UNCHANGED <<clients, op, got>>
      /\ Watch

(* What serving target t does to the counts: Brodcast or SendMessage,      *)
(* IsActive, KickConn.                                                     *)
Served(j, t, ok, present) ==
  [j EXCEPT !.left = IF op.kind = "online" /\ ok THEN {} ELSE @ \ {t},
            !.total = @ + (IF op.kind \in InTurn \/ (op.kind = "all" /\ ~present) THEN 0 ELSE 1),
            !.success = @ + (IF op.kind # "kick" /\ ok THEN 1 ELSE 0)]

(* SendMessage to an open connection puts the message in its queue.        *)
SendMessage(n, a, t) ==
  /\ op.kind \in Sends /\ Active(<<n, t[2]>>, t[1])
  /\ got' = [got EXCEPT ![conns[<<n, t[2]>>][t[1]]] = @ + 1]
  /\ job' = [job EXCEPT ![n][a] = Served(@, t, TRUE, TRUE)]
  /\ UNCHANGED <<conn, failed>>

(* The queue is full and the context ends first.                           *)
QueueFull(n, a, t) ==
  /\ op.kind \in Sends /\ Active(<<n, t[2]>>, t[1])
  /\ failed' = TRUE
  /\ job' = [job EXCEPT ![n][a] = Served(@, t, FALSE, TRUE)]
  /\ UNCHANGED <<conn, got>>

kickConn(n, a, t) ==
  LET k == conns[<<n, t[2]>>][t[1]]
  IN  /\ op.kind = "kick" /\ Active(<<n, t[2]>>, t[1])
      /\ conn' = [conn EXCEPT ![k].st = "closing"]
      /\ job' = [job EXCEPT ![n][a] = [Served(@, t, TRUE, TRUE) EXCEPT !.waits = k]]
      /\ UNCHANGED <<got, failed>>

isActive(n, a, t) ==
  /\ op.kind = "online" /\ Active(<<n, t[2]>>, t[1])
  /\ job' = [job EXCEPT ![n][a] = Served(@, t, TRUE, TRUE)]
  /\ UNCHANGED <<conn, got, failed>>

(* There is no open connection: nothing is done.                           *)
NotFound(n, a, t) ==
  /\ ~Active(<<n, t[2]>>, t[1])
  /\ job' = [job EXCEPT ![n][a] = Served(@, t, FALSE, conns[<<n, t[2]>>][t[1]] # NoConn)]
  /\ UNCHANGED <<conn, got, failed>>

\* Fault: a target that was served stays in the list.
DeliverAgain(n, a, t) ==
  LET j == job[n][a]
      k == conns[<<n, t[2]>>][t[1]]
  IN  /\ j.pc = "run" /\ t \in j.left
      /\ Active(<<n, t[2]>>, t[1])
      /\ op.kind \in Sends
      /\ got' = [got EXCEPT ![k] = @ + 1]
      /\ job' = [job EXCEPT ![n][a].total = @ + 1, ![n][a].success = @ + 1]
      /\ UNCHANGED <<clients, op, call, failed>>
      /\ Watch

(* sendToClients, sendToAll, isActive or kickConn serve their next target. *)
Deliver(n, a, t) ==
  /\ job[n][a].pc = "run" /\ t \in job[n][a].left
  /\ job[n][a].waits # NoConn => conn[job[n][a].waits].st = "closed"
  /\ \/ SendMessage(n, a, t) \/ QueueFull(n, a, t)
     \/ kickConn(n, a, t) \/ isActive(n, a, t) \/ NotFound(n, a, t)
  /\ UNCHANGED <<directory, conns, op, call>>
  /\ Watch

(* The counts of an answer are added up; IsOnline ends with the first yes. *)
Count(j) ==
  op' = [op EXCEPT !.total = @ + j.total, !.success = @ + j.success,
                   !.todo = IF op.kind = "online" /\ j.success > 0 THEN {} ELSE @]

\* Fault: the answer to an attempt that was given up is counted too.
FinishAny(n, a) ==
  LET j == job[n][a]
  IN  /\ j.pc = "run" /\ j.left = {}
      /\ j.waits # NoConn => conn[j.waits].st = "closed"
      /\ job' = [job EXCEPT ![n][a] = [NoJob EXCEPT !.pc = "done"]]
      /\ Count(j)
      /\ call' = [call EXCEPT ![n].pc = "done", ![n].targets = {}]
      /\ UNCHANGED <<clients, got, failed>>
      /\ Watch

(* A request has been served; its caller takes the answer unless it has    *)
(* given the attempt up.                                                   *)
Finish(n, a) ==
  LET j == job[n][a]
  IN  /\ j.pc = "run" /\ j.left = {}
      /\ j.waits # NoConn => conn[j.waits].st = "closed"
      /\ job' = [job EXCEPT ![n][a] = [NoJob EXCEPT !.pc = "done"]]
      /\ IF call[n].pc = "wait" /\ call[n].attempt = a
         THEN Count(j) /\ call' = [call EXCEPT ![n].pc = "done", ![n].targets = {}]
         ELSE UNCHANGED <<op, call>>
      /\ UNCHANGED <<clients, got, failed>>
      /\ Watch

(* The connection to the peer breaks, or the three seconds are over, at    *)
(* any time after the request was sent: gRPC tries again or gives up.      *)
RpcFails(n) ==
  /\ call[n].pc = "wait" /\ n # Self
  /\ failed' = TRUE
  /\ \/ /\ call[n].attempt < MaxAttempts
        /\ Request(n, call[n].attempt + 1, call[n].targets)
        /\ call' = [call EXCEPT ![n].attempt = @ + 1]
     \/ call' = [call EXCEPT ![n].pc = "done", ![n].targets = {}] /\ UNCHANGED job
  /\ UNCHANGED <<clients, op, got>>
  /\ Watch

-----------------------------------------------------------------------------
(* The clients meanwhile.  Bound: up to the return of the operation, and   *)
(* none leaves before it begins.                                           *)

(* OnConnect puts a new connection in the map; the one it replaces closes  *)
(* sooner or later.                                                        *)
Connect(k, s, c) ==
  /\ op.pc # "dead" /\ ~Returned
  /\ conn[k].st = "new"
  /\ conn' = [conn EXCEPT ![k] = [st |-> "open", at |-> s, cid |-> c]]
  /\ conns' = [conns EXCEPT ![s][c] = k]
  /\ UNCHANGED <<directory, op, call, job, got, failed>>
  /\ Watch

(* A connection is closed; OnClose deletes the map entry of its client id  *)
(* (in the same step: a closed connection takes no message either way).    *)
Close(k) ==
  /\ op.pc = "run" /\ ~Returned
  /\ conn[k].st = "open"
  /\ conn' = [conn EXCEPT ![k].st = "closed"]
  /\ conns' = [conns EXCEPT ![conn[k].at][conn[k].cid] = NoConn]
  /\ UNCHANGED <<directory, op, call, job, got, failed>>
  /\ Watch

(* The end of a Close that KickConn waits for.                             *)
OnClose(k) ==
  /\ conn[k].st = "closing"
  /\ conn' = [conn EXCEPT ![k].st = "closed"]
  /\ conns' = [conns EXCEPT ![conn[k].at][conn[k].cid] = NoConn]
  /\ UNCHANGED <<directory, op, call, job, got, failed>>
  /\ Watch

(* The map of broker n is being ranged over, without its lock.             *)
Ranged(n) ==
  /\ call[n].live
  /\ call[n].pc = "load" \/ (n = Self /\ job[n][1].left # {})

(* A range over a map that changes, of which left is not yet visited: what *)
(* is removed is not visited, what is added, more, may be.                 *)
RangeOn(left, old, new, more) ==
  /\ more \subseteq {t \in new : \A s \in old : s[1] # t[1]}
  /\ job' = [job EXCEPT ![Self][1].left =
       {t \in new : \E s \in left : s[1] = t[1]} \cup more]

(* The broker applies a log entry.  One that leaves a user or a channel    *)
(* without clients at a broker takes its map away.  Bound: as long as the  *)
(* operation may still read the directory.                                 *)
Apply(e) ==
  LET old == Listed(directory, op, Self)
      new == Listed(directory', op, Self)
  IN  /\ \/ op.pc = "idle"
         \/ op.kind # "all" /\ op.applied < MaxApplied /\ \E n \in Broker : n \in op.todo \/ Ranged(n)
      /\ directory' = applyRaftOp(directory, e)
      /\ call' = [n \in Broker |->
           [call[n] EXCEPT !.live = @ /\ HasMap(directory', op, n)]]
      /\ \E more \in SUBSET (Client \X Net) :
           /\ IF Ranged(Self) /\ call[Self].pc = "wait"
                THEN RangeOn(job[Self][1].left, old, new, more)
                ELSE more = {} /\ UNCHANGED job
           /\ op' = [op EXCEPT !.grew = @ \/ more # {},
                               !.applied = IF op.pc = "idle" THEN 0 ELSE @ + 1]
      /\ UNCHANGED <<conn, conns, got, failed>>
      /\ Watch

(* An entry that changes a map while it is ranged over may end the process *)
(* instead: "concurrent map iteration and map write".  The model ends too. *)
ApplyFatal(e) ==
  /\ \E n \in Broker :
       Ranged(n) /\ Listed(applyRaftOp(directory, e), op, n) # Listed(directory, op, n)
  /\ op' = [NoOp EXCEPT !.pc = "dead"]
  /\ call' = [n \in Broker |-> NoCall] /\ job' = [n \in Broker |-> NoJobs]
  /\ got' = [k \in Conn |-> 0] /\ steady' = {}
  /\ UNCHANGED <<clients, failed>>

-----------------------------------------------------------------------------
Work(n) ==
  \/ RangeBroker(n) \/ Load(n) \/ RpcFails(n)
  \/ \E a \in 1 .. MaxAttempts : Finish(n, a) \/ \E t \in Client \X Net : Deliver(n, a, t)

Next ==
  \/ \E o \in Operations : Begin(o)
  \/ \E n \in Broker : Work(n)
  \/ \E k \in Conn : Close(k) \/ OnClose(k) \/ \E l \in Login : Connect(k, l[1], l[2])
  \/ \E e \in Entry : Apply(e) \/ ApplyFatal(e)

Spec == Init /\ [][Next]_vars

-----------------------------------------------------------------------------
\* The type invariant.
TypeOK ==
  /\ directory \in Directories
  /\ \A k \in Conn : conn[k].st \in {"new", "open", "closing", "closed"}
  /\ conns \in [Server -> [Client -> Conn \cup {NoConn}]]
  /\ op.todo \subseteq Broker /\ (op.kind \in Sends => op.success <= op.total)
  /\ \A n \in Broker :
       /\ call[n].pc \in {"none", "load", "wait", "done"}
       /\ call[n].attempt \in 0 .. MaxAttempts
       /\ call[n].targets \subseteq Client \X Net
       /\ \A a \in 1 .. MaxAttempts : job[n][a].pc # "none" => a <= call[n].attempt
  /\ got \in [Conn -> Nat]
  /\ steady \subseteq Conn

\* "Number of successful sends" (SendToUser, SendToChannel, SendToAll): a
\* send reports no more successes than there are connections whose queue has
\* taken the message, however many RPCs failed after they were served and
\* whatever was removed from the map it ranges over (one that is removed and
\* added again may be served, and counted, twice).  (With the type invariant.)
CountedIsDelivered ==
  /\ TypeOK
  /\ op.kind \in Sends /\ ~op.grew => op.success <= Cardinality({k \in Conn : got[k] > 0})

\* A connection that is open, in its server's map and listed in the broker's
\* copy of the directory from the beginning of an operation to its end is
\* served, unless an RPC failed or a queue was full, whatever the user's other clients do: it got
\* the message, the user is reported online, and after a kick there is none.
SteadyServed ==
  Returned /\ ~failed =>
    \A k \in steady :
      \/ op.kind \in Sends /\ got[k] > 0
      \/ op.kind = "online" /\ op.success > 0

\* A connection gets the message at most once for each attempt of the RPC to
\* its broker: without a retry there is no duplicate, though the client may
\* be listed at two brokers, and log in again, while the message is sent; nor
\* is there one for a client that stays listed (steady), though the map of the
\* broker's own clients is ranged over while entries change it.
OncePerAttempt ==
  \A k \in Conn :
    ~op.grew \/ k \in steady \/ conn[k].at[1] # Self => got[k] <= call[conn[k].at[1]].attempt

=============================================================================
