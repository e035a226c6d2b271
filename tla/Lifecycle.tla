------------------------------ MODULE Lifecycle ------------------------------
(***************************************************************************)
(* A broker's listener from Start to Shutdown (cluster/listener.go), the   *)
(* server under it (server/server.go) with its transport and its map of    *)
(* connections (safe.RMap), while clients log in and leave.                *)
(*                                                                         *)
(* Four operations act on the listener: StartListener and StopListener of  *)
(* the API or of a peer, the Shutdown of the process, and the removal of   *)
(* the broker from the cluster, which expels the connections.  Every Start *)
(* makes a new server.  Nothing but the flag started keeps two operations  *)
(* apart.                                                                  *)
(*                                                                         *)
(* An entry of an RMap and its length are changed in two steps, and        *)
(* ExpelAllConns assigns a new map over the old one.  A Close runs once,   *)
(* in the goroutine that comes first; who comes later does not wait.       *)
(***************************************************************************)
EXTENDS Integers, FiniteSets

CONSTANTS
  Conn,        \* connections, each used once
  Cid,         \* client ids
  None,        \* no connection, no client id, no operation
  Op,          \* operations, each used once
  MaxServers   \* bound: servers ever made

ASSUME LifecycleAssumption ==
  None \notin Conn \cup Cid \cup Op /\ Conn \cap Op = {} /\ MaxServers \in Nat \ {0}

Server == 1..MaxServers

VARIABLES
  started,   \* Listener.started
  current,   \* Listener.Server, 0: nil
  made,      \* servers made
  listen,    \* server -> none, made, listening, ended
  shut,      \* the servers whose flag closed is set
  conns,     \* server -> client id -> connection
  length,    \* server -> the map's length
  conn,      \* connection -> how far its login and its Close are
  op,        \* operation -> how far
  raft,      \* the broker's Raft node: up, removed, stopped
  rash,      \* auxiliary: a stop overlapped a Start, or came before it listened
  torn,      \* auxiliary: servers whose map was replaced while it was changed
  panicked

net  == <<listen, shut>>
flag == <<started, current, made>>
aux  == <<rash, torn>>
vars == <<flag, net, conns, length, conn, op, raft, aux, panicked>>

\* login: new, auth, added, dup, connack, open, refused;
\* close: no, delete, dec, handler, done; old: the connection a login replaces.
NewConn == [login |-> "new", close |-> "no", srv |-> 0, cid |-> None, old |-> None,
            by |-> None, busy |-> FALSE, lost |-> FALSE]

NewOp == [pc |-> "new", kind |-> "start", srv |-> 0, must |-> {}, seen |-> {},
          active |-> FALSE, waits |-> None, began |-> {}, dropped |-> {}]

\* The listener is not started, or onClusterReady has, because of autoStart,
\* and it listens.
Init ==
  /\ started \in BOOLEAN
  /\ current = (IF started THEN 1 ELSE 0) /\ made = current
  /\ listen = [s \in Server |-> IF s = current THEN "listening" ELSE "none"] /\ shut = {}
  /\ conns = [s \in Server |-> [c \in Cid |-> None]]
  /\ length = [s \in Server |-> 0]
  /\ conn = [k \in Conn |-> NewConn]
  /\ op = [o \in Op |-> NewOp]
  /\ raft = "up"
  /\ rash = FALSE /\ torn = {} /\ panicked = FALSE

Keys(s) == {c \in Cid : conns[s][c] # None}

\* A Swap or a Delete of the server's map has not changed the length yet.
InFlight(s) ==
  {k \in Conn : conn[k].srv = s /\ (conn[k].login = "added" \/ conn[k].close = "dec")}

-----------------------------------------------------------------------------
(* Logins.                                                                 *)

\* The transport's Listen accepts a connection, and waits for its CONNECT.
Accept(k, s, c) ==
  /\ conn[k].login = "new" /\ listen[s] = "listening"
  /\ conn' = [conn EXCEPT ![k] = [NewConn EXCEPT !.login = "auth", !.srv = s, !.cid = c]]
  /\ UNCHANGED <<flag, net, conns, length, op, raft, aux, panicked>>

\* waitConnPacket fails, or the time for it is over: there is no connection.
Unknown(k) ==
  /\ conn[k].login = "auth"
  /\ conn' = [conn EXCEPT ![k].login = "refused", ![k].close = "done"]
  /\ UNCHANGED <<flag, net, conns, length, op, raft, aux, panicked>>

\* OnConnect refuses: Close.
Refuse(k) ==
  /\ conn[k].login = "auth"
  /\ conn' = [conn EXCEPT ![k].login = "refused", ![k].close = "delete"]
  /\ UNCHANGED <<flag, net, conns, length, op, raft, aux, panicked>>

\* Fault: every Swap counts.
SwapCounts(k) ==
  /\ conn[k].login = "auth"
  /\ conns' = [conns EXCEPT ![conn[k].srv][conn[k].cid] = k]
  /\ conn' = [conn EXCEPT ![k].login = "added"]
  /\ UNCHANGED <<flag, net, length, op, raft, aux, panicked>>

\* OnConnect accepts: Swap.
Swap(k) ==
  LET s == conn[k].srv
      c == conn[k].cid
  IN  /\ conn[k].login = "auth"
      /\ conns' = [conns EXCEPT ![s][c] = k]
      /\ conn' = [conn EXCEPT ![k].login = IF conns[s][c] = None THEN "added" ELSE "dup",
                              ![k].old = conns[s][c]]
      /\ UNCHANGED <<flag, net, length, op, raft, aux, panicked>>

\* The second half of a Swap that added a key.
Added(k) ==
  /\ conn[k].login = "added"
  /\ length' = [length EXCEPT ![conn[k].srv] = @ + 1]
  /\ conn' = [conn EXCEPT ![k].login = "connack"]
  /\ UNCHANGED <<flag, net, conns, op, raft, aux, panicked>>

\* The Close of k, by actor a: nothing if it is closed already.
Claim(k, a) ==
  IF conn[k].close = "no" THEN [conn EXCEPT ![k].close = "delete", ![k].by = a] ELSE conn

\* The connection replaced is closed, and the login goes on when it is.
CloseOld(k) ==
  LET j == conn[k].old
  IN  /\ conn[k].login = "dup"
      /\ IF conn[j].by = k
         THEN conn[j].close = "done" /\ conn' = [conn EXCEPT ![k].login = "connack", ![k].old = None]
         ELSE conn' = IF conn[j].close = "no" THEN Claim(j, k)
                      ELSE [conn EXCEPT ![k].login = "connack", ![k].old = None]
      /\ UNCHANGED <<flag, net, conns, length, op, raft, aux, panicked>>

\* CONNACK goes to the queue, unless the connection is closed.
Connack(k) ==
  /\ conn[k].login = "connack"
  /\ conn' = [conn EXCEPT ![k].login = "open", ![k].busy = (conn[k].close = "no")]
  /\ UNCHANGED <<flag, net, conns, length, op, raft, aux, panicked>>

\* The queue has been written.
Written(k) ==
  /\ conn[k].busy
  /\ conn' = [conn EXCEPT ![k].busy = FALSE]
  /\ UNCHANGED <<flag, net, conns, length, op, raft, aux, panicked>>

\* The client disconnects, or KickConn finds the connection in the map.
Disconnect(k) ==
  /\ conn[k].login = "open" \/ (conn[k].srv # 0 /\ conns[conn[k].srv][conn[k].cid] = k)
  /\ conn[k].close = "no"
  /\ conn' = Claim(k, k)
  /\ UNCHANGED <<flag, net, conns, length, op, raft, aux, panicked>>

-----------------------------------------------------------------------------
(* Close: the queue and the socket are closed, then OnClose.               *)

\* LoadAndDelete of the client id, whichever connection it has.
Delete(k) ==
  LET s == conn[k].srv
      c == conn[k].cid
  IN  /\ conn[k].close = "delete"
      /\ conns' = [conns EXCEPT ![s][c] = None]
      /\ conn' = [conn EXCEPT ![k].close = IF conns[s][c] = None THEN "done" ELSE "dec",
                              ![k].busy = FALSE]
      /\ UNCHANGED <<flag, net, length, op, raft, aux, panicked>>

\* The second half of a Delete.
Deleted(k) ==
  /\ conn[k].close = "dec"
  /\ length' = [length EXCEPT ![conn[k].srv] = @ - 1]
  /\ conn' = [conn EXCEPT ![k].close = "handler"]
  /\ UNCHANGED <<flag, net, conns, op, raft, aux, panicked>>

\* The closeHandler, onUserClosed, proposes userClosed.
CloseHandler(k) ==
  /\ conn[k].close = "handler"
  /\ conn' = [conn EXCEPT ![k].close = "done", ![k].lost = (raft # "up")]
  /\ UNCHANGED <<flag, net, conns, length, op, raft, aux, panicked>>

-----------------------------------------------------------------------------
(* Start.                                                                  *)

\* The stops that have still to read Listener.Server.
Stopping ==
  {o \in Op : op[o].kind \in {"stop", "shutdown"} /\ op[o].pc \in {"expel", "range", "close"}}

StartCas(o) ==
  /\ op[o].pc = "new"
  /\ op' = [op EXCEPT ![o].pc = IF started THEN "done" ELSE "make"]
  /\ started' = TRUE
  /\ rash' = (rash \/ (~started /\ Stopping # {}))
  /\ UNCHANGED <<current, made, net, conns, length, conn, raft, torn, panicked>>

\* server.New, and the goroutine that serves.
Make(o) ==
  /\ op[o].pc = "make" /\ made < MaxServers
  /\ made' = made + 1 /\ current' = made + 1
  /\ listen' = [listen EXCEPT ![made + 1] = "made"]
  /\ op' = [op EXCEPT ![o].pc = "store"]
  /\ UNCHANGED <<started, shut, conns, length, conn, raft, aux, panicked>>

\* The trailing started.Store(true).
Store(o) ==
  /\ op[o].pc = "store"
  /\ started' = TRUE
  /\ op' = [op EXCEPT ![o].pc = "done"]
  /\ UNCHANGED <<current, made, net, conns, length, conn, raft, aux, panicked>>

\* Listen binds the port, or fails.
Listen(s) ==
  /\ listen[s] = "made"
  /\ \/ listen' = [listen EXCEPT ![s] = "ended"]
     \/ /\ \A t \in Server : listen[t] # "listening"
        /\ listen' = [listen EXCEPT ![s] = "listening"]
  /\ UNCHANGED <<flag, shut, conns, length, conn, op, raft, aux, panicked>>

-----------------------------------------------------------------------------
(* Stop.                                                                   *)

\* What follows the listener's Shutdown, in the process's Shutdown.
After(o) == IF op[o].kind = "shutdown" THEN "cluster" ELSE "done"

\* There is a server, it listens, and no Start is under way.
Steady ==
  /\ current # 0 /\ listen[current] = "listening"
  /\ \A o \in Op : op[o].pc \notin {"make", "store"}

\* main shuts down once.
MayBegin(o, kind) ==
  op[o].pc = "new" /\ (kind = "shutdown" => \A p \in Op : op[p].kind # "shutdown")

\* Fault: the flag is tested and not reset.
StopTest(o, kind) ==
  /\ MayBegin(o, kind) /\ started
  /\ op' = [op EXCEPT ![o].kind = kind, ![o].pc = "expel"]
  /\ rash' = (rash \/ ~Steady)
  /\ UNCHANGED <<flag, net, conns, length, conn, raft, torn, panicked>>

\* Fault: the process stops the cluster before its listeners.
StopClusterFirst(o, kind) ==
  /\ MayBegin(o, kind) /\ started
  /\ op' = [op EXCEPT ![o].kind = kind, ![o].pc = "expel"]
  /\ started' = FALSE
  /\ rash' = (rash \/ ~Steady)
  /\ raft' = IF kind = "shutdown" THEN "stopped" ELSE raft
  /\ UNCHANGED <<current, made, net, conns, length, conn, torn, panicked>>

\* Listener.Shutdown: the flag.
StopCas(o, kind) ==
  /\ MayBegin(o, kind) /\ started
  /\ op' = [op EXCEPT ![o].kind = kind, ![o].pc = "expel"]
  /\ started' = FALSE
  /\ rash' = (rash \/ ~Steady)
  /\ UNCHANGED <<current, made, net, conns, length, conn, raft, torn, panicked>>

\* There is no listener to stop, but the process stops all the same.
ShutdownUnstarted(o) ==
  /\ MayBegin(o, "shutdown") /\ ~started
  /\ op' = [op EXCEPT ![o].kind = "shutdown", ![o].pc = "cluster"]
  /\ UNCHANGED <<flag, net, conns, length, conn, raft, aux, panicked>>

\* applyRemoveNode: the broker itself is removed.
RemoveSelf(o) ==
  /\ op[o].pc = "new" /\ raft = "up"
  /\ raft' = "removed"
  /\ op' = [op EXCEPT ![o].kind = "remove", ![o].pc = "expel"]
  /\ UNCHANGED <<flag, net, conns, length, conn, aux, panicked>>

\* ExpelAllConns begins; a listener never started has no server.
Expel(o) ==
  LET s == current
  IN  /\ op[o].pc = "expel"
      /\ IF s = 0 THEN panicked' = TRUE /\ UNCHANGED op
         ELSE /\ op' = [op EXCEPT ![o].pc = "range", ![o].srv = s, ![o].must = Keys(s),
                                  ![o].began = {conns[s][c] : c \in Keys(s)}]
              /\ UNCHANGED panicked
      /\ UNCHANGED <<flag, net, conns, length, conn, raft, aux>>

\* The operation waits for the Close it does itself.
Free(o) == op[o].waits # None => conn[op[o].waits].close = "done"

\* Fault: ExpelAllConns passes busy connections over, as Shutdown does.
VisitIdle(o, c) ==
  LET k == conns[op[o].srv][c]
  IN  /\ op[o].pc \in {"range", "loop"} /\ Free(o)
      /\ k # None /\ c \notin op[o].seen
      /\ IF conn[k].busy
         THEN op' = [op EXCEPT ![o].seen = @ \cup {c}, ![o].active = TRUE] /\ UNCHANGED conn
         ELSE /\ op' = [op EXCEPT ![o].seen = @ \cup {c},
                                  ![o].waits = IF conn[k].close = "no" THEN k ELSE None]
              /\ conn' = Claim(k, o)
      /\ UNCHANGED <<flag, net, conns, length, raft, aux, panicked>>

\* Range visits a key: those present from its beginning to its end, and
\* perhaps others.  ExpelAllConns closes the connection, Shutdown closes it
\* if its queue is empty.
Visit(o, c) ==
  LET k == conns[op[o].srv][c]
  IN  /\ op[o].pc \in {"range", "loop"} /\ Free(o)
      /\ k # None /\ c \notin op[o].seen
      /\ IF op[o].pc = "loop" /\ conn[k].busy
         THEN /\ op' = [op EXCEPT ![o].seen = @ \cup {c}, ![o].active = TRUE]
              /\ UNCHANGED conn
         ELSE /\ op' = [op EXCEPT ![o].seen = @ \cup {c},
                                  ![o].waits = IF conn[k].close = "no" THEN k ELSE None]
              /\ conn' = Claim(k, o)
      /\ UNCHANGED <<flag, net, conns, length, raft, aux, panicked>>

Ranged(o) == Free(o) /\ Keys(op[o].srv) \cap op[o].must \subseteq op[o].seen

\* The end of ExpelAllConns: s.conns = safe.RMap{}.
Replace(o) ==
  LET s == op[o].srv
  IN  /\ op[o].pc = "range" /\ Ranged(o)
      /\ conns' = [conns EXCEPT ![s] = [c \in Cid |-> None]]
      /\ length' = [length EXCEPT ![s] = 0]
      /\ torn' = IF InFlight(s) = {} THEN torn ELSE torn \cup {s}
      /\ op' = [op EXCEPT ![o].pc = IF op[o].kind = "remove" THEN "done" ELSE "close",
                          ![o].must = {}, ![o].seen = {}, ![o].waits = None,
                          ![o].dropped = {conns[s][c] : c \in Keys(s)}]
      /\ UNCHANGED <<flag, net, conn, raft, rash, panicked>>

\* Server.Shutdown, of the server there is now: the flag closed, and the
\* transport's Close, which needs what Listen has stored.
CloseServer(o) ==
  LET s == current
  IN  /\ op[o].pc = "close"
      /\ IF s \in shut
         THEN op' = [op EXCEPT ![o].pc = After(o)] /\ UNCHANGED <<net, panicked>>
         ELSE /\ shut' = shut \cup {s}
              /\ panicked' = (listen[s] # "listening")
              /\ listen' = [listen EXCEPT ![s] = "ended"]
              /\ op' = [op EXCEPT ![o].pc = "loop", ![o].srv = s, ![o].must = Keys(s),
                                  ![o].seen = {}, ![o].active = FALSE]
      /\ UNCHANGED <<flag, conns, length, conn, raft, aux>>

\* The end of a pass: once more as long as a connection was busy; the
\* process's Shutdown has a deadline.
EndPass(o) ==
  /\ op[o].pc = "loop" /\ Ranged(o)
  /\ \/ /\ op[o].active
        /\ op' = [op EXCEPT ![o].must = Keys(op[o].srv), ![o].seen = {}, ![o].active = FALSE,
                            ![o].waits = None]
     \/ /\ op[o].active => op[o].kind = "shutdown"
        /\ op' = [op EXCEPT ![o].pc = After(o), ![o].must = {}, ![o].seen = {},
                            ![o].active = FALSE, ![o].waits = None]
  /\ UNCHANGED <<flag, net, conns, length, conn, raft, aux, panicked>>

\* The peer server is shut down, and the cluster is stopped.
StopCluster(o) ==
  /\ op[o].pc = "cluster"
  /\ raft' = "stopped"
  /\ op' = [op EXCEPT ![o].pc = "done"]
  /\ UNCHANGED <<flag, net, conns, length, conn, aux, panicked>>

-----------------------------------------------------------------------------
Login(k) == Added(k) \/ CloseOld(k) \/ Connack(k)
Closing(k) == Delete(k) \/ Deleted(k) \/ CloseHandler(k)

Step(o) ==
  \/ Make(o) \/ Store(o) \/ Expel(o) \/ (\E c \in Cid : Visit(o, c)) \/ Replace(o)
  \/ CloseServer(o) \/ EndPass(o) \/ StopCluster(o)

\* A panic ends the process.
Next ==
  /\ ~panicked
  /\ \/ \E k \in Conn :
          \/ \E s \in Server, c \in Cid : Accept(k, s, c)
          \/ Unknown(k) \/ Refuse(k) \/ Swap(k) \/ Written(k) \/ Disconnect(k)
          \/ Login(k) \/ Closing(k)
     \/ \E o \in Op :
          \/ StartCas(o) \/ StopCas(o, "stop") \/ StopCas(o, "shutdown")
          \/ ShutdownUnstarted(o) \/ RemoveSelf(o) \/ Step(o)
     \/ \E s \in Server : Listen(s)

Spec == Init /\ [][Next]_vars

-----------------------------------------------------------------------------
\* The type invariant.
TypeOK ==
  /\ started \in BOOLEAN /\ made \in 0..MaxServers /\ current \in 0..made
  /\ listen \in [Server -> {"none", "made", "listening", "ended"}]
  /\ shut \subseteq Server
  /\ conns \in [Server -> [Cid -> Conn \cup {None}]]
  /\ length \in [Server -> Int]
  /\ \A k \in Conn :
       /\ conn[k].login \in {"new", "auth", "added", "dup", "connack", "open", "refused"}
       /\ conn[k].close \in {"no", "delete", "dec", "handler", "done"}
  /\ \A s \in Server, c \in Cid : conns[s][c] # None =>
       conn[conns[s][c]].srv = s /\ conn[conns[s][c]].cid = c
  /\ \A o \in Op : op[o].pc \in {"new", "make", "store", "expel", "range", "close", "loop",
                                "cluster", "done"}
  /\ raft \in {"up", "removed", "stopped"}

\* ConnCount is the number of entries of the map whenever no Swap and no
\* Delete is half done (safe.RMap), unless ExpelAllConns replaced the map
\* while one was.  (With the type invariant.)
CountExact ==
  /\ TypeOK
  /\ \A s \in Server : InFlight(s) = {} /\ s \notin torn => length[s] = Cardinality(Keys(s))

\* If no stop overlaps a Start or comes before it listens, no server panics,
\* for want of a listener in the transport or of a server in the listener
\* (the removal of a broker does, if the listener was never started); and the
\* flag tells the truth when no operation is under way: a listener that is
\* started has a server that is not closed, one that is not has none
\* (Listener.Start, Shutdown).
FlagTrue ==
  ~rash =>
    /\ panicked => made = 0
    /\ (\A o \in Op : op[o].pc \in {"new", "done"}) =>
         (started <=> current # 0 /\ current \notin shut)

\* The entry of k was taken by another connection of its client id: one that
\* closed, or one that logs in and is about to close k.
Taken(k) ==
  \E j \in Conn \ {k} :
    /\ conn[j].srv = conn[k].srv /\ conn[j].cid = conn[k].cid
    /\ conn[j].old = k \/ conn[j].close # "no"

\* Listener.Shutdown and the removal of a broker close every connection that
\* was in the map when they began: what is left open logged in later, or
\* lost its entry, to a connection with the same client id or to another of
\* these operations, which replaced the map.
ExpelledAll ==
  \A o \in Op : op[o].kind # "start" /\ op[o].pc = "done" =>
    \A k \in op[o].began :
      conn[k].close # "no" \/ Taken(k) \/ \E p \in Op \ {o} : k \in op[p].dropped

\* The process's Shutdown stops the cluster after the proposals of the
\* closes it does itself (broker.Shutdown, onUserClosed): none is lost, if
\* the broker was not removed.  A Close that is under way is not waited for.
GoodbyesSaid ==
  \A k \in Conn : conn[k].by \in Op /\ op[conn[k].by].kind = "shutdown" /\ conn[k].lost =>
    \E o \in Op : op[o].kind = "remove"

=============================================================================
