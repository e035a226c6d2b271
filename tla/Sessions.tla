------------------------------ MODULE Sessions ------------------------------
(***************************************************************************)
(* Client connections and the directory: how a connection gets into a      *)
(* server's connection map and into the Raft log, and how it leaves both.  *)
(*                                                                         *)
(* Each broker has one server per network (cluster/listener.go), each      *)
(* server a map from client id to connection (server/server.go, conns).    *)
(* A connection's goroutine runs server.OnConnect, which calls             *)
(* broker.onUserConnect: kick the same client on other brokers, propose a  *)
(* userOpenedOp, put the connection in the map, close the one it replaced. *)
(* Closing a connection takes it out of the map and proposes a             *)
(* userClosedOp.  These steps interleave freely between connections.       *)
(*                                                                         *)
(* The log is the one of ReplicatedDirectory: here a proposal takes its    *)
(* place in it at once, or is lost (SubmitOperation drops the error of     *)
(* Propose).  Proposals of different brokers change different keys of      *)
(* userClients, so their relative order is of no consequence.              *)
(***************************************************************************)
EXTENDS DirectoryOps, Naturals, Sequences, FiniteSets

CONSTANTS
  Conn,         \* connections, each used once
  NoConn,       \* absence of a connection
  Identities,   \* the <<user, client>> pairs that connect
  MaxLost       \* bound: proposals that are lost

ASSUME SessionsAssumption ==
  /\ NoConn \notin Conn /\ Identities \subseteq User \X Client
  /\ Broker # {} /\ Net # {} /\ User # {} /\ Client # {}

Server == Broker \X Net

VARIABLES
  conn,        \* connection -> its identity, its server, how far OnConnect is
  closer,      \* connection -> how far Close is
  conns,       \* server -> client id -> connection
  log,         \* the proposals that got into the log
  lost,        \* those that did not
  directory,   \* broker -> its copy of the directory
  applied,     \* broker -> entries of the log it applied
  kicked       \* auxiliary: connections onUserConnect found elsewhere, and kicked

vars == <<conn, closer, conns, log, lost, directory, applied, kicked>>

\* phase: idle (not yet connected), kick, swap, ack (in OnConnect), open (its
\* packets are read), refused.  todo: the brokers the loop over userClients
\* has not looked at.  waits: the connection whose Close this goroutine runs.
ConnStates ==
  [phase : {"idle", "kick", "swap", "ack", "open", "refused"},
   id : User \X Client, at : Server, todo : SUBSET Broker, waits : Conn \cup {NoConn}]

\* closing: Close has set the flag and closed the socket; report: OnClose has
\* deleted the map entry and calls the close handler.
CloserStates == {"no", "closing", "report", "done"}

Init ==
  /\ conn = [k \in Conn |-> [phase |-> "idle", id |-> CHOOSE i \in User \X Client : TRUE,
                             at |-> CHOOSE s \in Server : TRUE, todo |-> {},
                             waits |-> NoConn]]
  /\ closer = [k \in Conn |-> "no"]
  /\ conns = [s \in Server |-> [c \in Client |-> NoConn]]
  /\ log = <<>>
  /\ lost = {}
  /\ directory = [b \in Broker |-> EmptyDirectory]
  /\ applied = [b \in Broker |-> 0]
  /\ kicked = {}

\* Server s has an open connection for client c (server.IsActive); Close on it
\* is not a no-op.
Active(s, c) == conns[s][c] # NoConn /\ closer[conns[s][c]] = "no"

\* The rest of a handler waits for the Close it called.
Proceeds(k) == conn[k].waits # NoConn => closer[conn[k].waits] = "done"

SubmitOperation(op) ==
  \/ log' = Append(log, op) /\ UNCHANGED lost
  \/ Cardinality(lost) < MaxLost /\ lost' = lost \cup {op} /\ UNCHANGED log

\* What broker b answers about user u: isActive asks the server that the
\* directory names for each of the user's clients.
IsOnline(b, u) ==
  \E n \in Broker, c \in Client :
    /\ HasClient(directory[b], n, u, c)
    /\ Active(<<n, directory[b].userClients[n][u][c]>>, c)

-----------------------------------------------------------------------------
\* A CONNECT packet arrives and the application's OnUserConnect accepts it.
Accept(k, s, i) ==
  /\ conn[k].phase = "idle"
  /\ conn' = [conn EXCEPT ![k] = [phase |-> "kick", id |-> i, at |-> s,
                                  todo |-> Broker \ {s[1]}, waits |-> NoConn]]
  /\ UNCHANGED <<closer, conns, log, lost, directory, applied, kicked>>

\* The application refuses it: OnConnect closes the new connection.
Refuse(k, s, i) ==
  /\ conn[k].phase = "idle"
  /\ conn' = [conn EXCEPT ![k] = [phase |-> "refused", id |-> i, at |-> s,
                                  todo |-> {}, waits |-> NoConn]]
  /\ closer' = [closer EXCEPT ![k] = "closing"]
  /\ UNCHANGED <<conns, log, lost, directory, applied, kicked>>

\* Faulty variants, named for the mistake, precede the action they vary; no
\* definition uses them.  Here the duplicate is found but never kicked.
FoundNotKicked(k, b) ==
  LET me == conn[k].at
      u == conn[k].id[1]
      c == conn[k].id[2]
      old == conns[<<b, directory[me[1]].userClients[b][u][c]>>][c]
  IN /\ conn[k].phase = "kick" /\ Proceeds(k) /\ b \in conn[k].todo
     /\ IF HasClient(directory[me[1]], b, u, c)
          THEN kicked' = kicked \cup ({<<k, old>>} \ {<<k, NoConn>>})
          ELSE UNCHANGED kicked
     /\ conn' = [conn EXCEPT ![k].todo = @ \ {b}]
     /\ UNCHANGED <<closer, conns, log, lost, directory, applied>>

\* The loop of onUserConnect over userClients, for broker b's clients.  The
\* RPC may fail; a successful one makes b close what it has under the client
\* id on the network of the new connection (kickConn, KickConn).
KickPeer(k, b) ==
  LET me == conn[k].at
      u == conn[k].id[1]
      c == conn[k].id[2]
      found == HasClient(directory[me[1]], b, u, c)
      old == conns[<<b, directory[me[1]].userClients[b][u][c]>>][c]
      target == <<b, me[2]>>
  IN /\ conn[k].phase = "kick" /\ Proceeds(k) /\ b \in conn[k].todo
     /\ \/ /\ found
           /\ kicked' = kicked \cup ({<<k, old>>} \ {<<k, NoConn>>})
           /\ IF Active(target, c)
                THEN /\ closer' = [closer EXCEPT ![conns[target][c]] = "closing"]
                     /\ conn' = [conn EXCEPT ![k].todo = @ \ {b}, ![k].waits = conns[target][c]]
                ELSE /\ conn' = [conn EXCEPT ![k].todo = @ \ {b}]
                     /\ UNCHANGED closer
        \/ conn' = [conn EXCEPT ![k].todo = @ \ {b}] /\ UNCHANGED <<closer, kicked>>
     /\ UNCHANGED <<conns, log, lost, directory, applied>>

\* Fault: the login of a client that was found on another broker is not
\* proposed, as if its entry there would do.
OpenedUnlessFound(k) ==
  /\ conn[k].phase = "kick" /\ Proceeds(k) /\ conn[k].todo = {}
  /\ IF \E q \in Conn : <<k, q>> \in kicked
       THEN UNCHANGED <<log, lost>>
       ELSE \E chs \in SUBSET Channel :
              SubmitOperation([type |-> "userOpened", nodeID |-> conn[k].at[1],
                               uid |-> conn[k].id[1], cid |-> conn[k].id[2],
                               net |-> conn[k].at[2], channels |-> chs])
  /\ conn' = [conn EXCEPT ![k].phase = "swap", ![k].waits = NoConn]
  /\ UNCHANGED <<closer, conns, directory, applied, kicked>>

\* The rest of onUserConnect; GetUserChannels may return any channels.
SubmitOpened(k) ==
  /\ conn[k].phase = "kick" /\ Proceeds(k) /\ conn[k].todo = {}
  /\ \E chs \in SUBSET Channel :
       SubmitOperation([type |-> "userOpened", nodeID |-> conn[k].at[1], uid |-> conn[k].id[1],
                        cid |-> conn[k].id[2], net |-> conn[k].at[2], channels |-> chs])
  /\ conn' = [conn EXCEPT ![k].phase = "swap", ![k].waits = NoConn]
  /\ UNCHANGED <<closer, conns, directory, applied, kicked>>

\* OnConnect puts the connection in the map and closes the one it replaces.
Swap(k) ==
  LET s == conn[k].at
      c == conn[k].id[2]
  IN /\ conn[k].phase = "swap"
     /\ conns' = [conns EXCEPT ![s][c] = k]
     /\ IF Active(s, c)
          THEN /\ closer' = [closer EXCEPT ![conns[s][c]] = "closing"]
               /\ conn' = [conn EXCEPT ![k].phase = "ack", ![k].waits = conns[s][c]]
          ELSE /\ conn' = [conn EXCEPT ![k].phase = "ack"]
               /\ UNCHANGED closer
     /\ UNCHANGED <<log, lost, directory, applied, kicked>>

\* OnConnect acknowledges and returns; the transport starts reading packets.
Return(k) ==
  /\ conn[k].phase = "ack" /\ Proceeds(k)
  /\ conn' = [conn EXCEPT ![k].phase = "open", ![k].waits = NoConn]
  /\ UNCHANGED <<closer, conns, log, lost, directory, applied, kicked>>

\* The client closes, or reading fails, or KickUser kicks: Close begins.
Drop(k) ==
  /\ conn[k].phase = "open" /\ closer[k] = "no"
  /\ closer' = [closer EXCEPT ![k] = "closing"]
  /\ UNCHANGED <<conn, conns, log, lost, directory, applied, kicked>>

\* Fault: the close handler is not called.
ClosedUnreported(k) ==
  /\ closer[k] = "closing"
  /\ conns' = [conns EXCEPT ![conn[k].at][conn[k].id[2]] = NoConn]
  /\ closer' = [closer EXCEPT ![k] = "done"]
  /\ UNCHANGED <<conn, log, lost, directory, applied, kicked>>

\* Fault: the map entry stays.
ClosedKeepsEntry(k) ==
  /\ closer[k] = "closing"
  /\ closer' = [closer EXCEPT ![k] = "report"]
  /\ UNCHANGED <<conn, conns, log, lost, directory, applied, kicked>>

\* OnClose deletes the map entry of the client id.
OnClose(k) ==
  LET s == conn[k].at
      c == conn[k].id[2]
  IN /\ closer[k] = "closing"
     /\ conns' = [conns EXCEPT ![s][c] = NoConn]
     /\ closer' = [closer EXCEPT ![k] = IF conns[s][c] = NoConn THEN "done" ELSE "report"]
     /\ UNCHANGED <<conn, log, lost, directory, applied, kicked>>

\* The close handler, broker.onUserClosed.
onUserClosed(k) ==
  /\ closer[k] = "report"
  /\ closer' = [closer EXCEPT ![k] = "done"]
  /\ SubmitOperation([type |-> "userClosed", nodeID |-> conn[k].at[1],
                      uid |-> conn[k].id[1], cid |-> conn[k].id[2]])
  /\ UNCHANGED <<conn, conns, directory, applied, kicked>>

\* Broker b applies its next entry (see ReplicatedDirectory).
Apply(b) ==
  /\ applied[b] < Len(log)
  /\ directory' = [directory EXCEPT ![b] = applyRaftOp(@, log[applied[b] + 1])]
  /\ applied' = [applied EXCEPT ![b] = @ + 1]
  /\ UNCHANGED <<conn, closer, conns, log, lost, kicked>>

Step(k) ==
  \/ \E b \in Broker : KickPeer(k, b)
  \/ SubmitOpened(k) \/ Swap(k) \/ Return(k) \/ OnClose(k) \/ onUserClosed(k)

Next ==
  \/ \E k \in Conn, s \in Server, i \in Identities : Accept(k, s, i) \/ Refuse(k, s, i)
  \/ \E k \in Conn : Drop(k) \/ Step(k)
  \/ \E b \in Broker : Apply(b)

Spec == Init /\ [][Next]_vars

-----------------------------------------------------------------------------
\* The type invariant.
TypeOK ==
  /\ conn \in [Conn -> ConnStates]
  /\ closer \in [Conn -> CloserStates]
  /\ conns \in [Server -> [Client -> Conn \cup {NoConn}]]
  /\ log \in Seq(UserOpenedOps \cup UserClosedOps)
  /\ lost \subseteq UserOpenedOps \cup UserClosedOps
  /\ directory \in [Broker -> Directories]
  /\ applied \in [Broker -> 0..Len(log)]
  /\ kicked \subseteq Conn \X Conn

\* No handler is running and every broker has applied the whole log.
Quiescent ==
  /\ \A k \in Conn : /\ conn[k].phase \in {"idle", "open", "refused"}
                     /\ closer[k] \in {"no", "done"}
  /\ \A b \in Broker : applied[b] = Len(log)

\* When things have settled, no broker routes a user's messages to where the
\* user is not: an entry of userClients leads to a live connection of that
\* user in the map of the server it names.  The exception is a client whose
\* userClosedOp was lost because SubmitOperation drops Propose's error.
NoStaleRoute ==
  Quiescent =>
    \A b, n \in Broker, u \in User, c \in Client :
      HasClient(directory[b], n, u, c) =>
        LET k == conns[<<n, directory[b].userClients[n][u][c]>>][c]
        IN \/ k # NoConn /\ closer[k] = "no" /\ conn[k].id = <<u, c>>
           \/ [type |-> "userClosed", nodeID |-> n, uid |-> u, cid |-> c] \in lost

\* A connection that is closed leaves its server's map: server.IsActive and
\* SendMessage find a closed connection only while its OnClose is about to
\* run, whatever logins and kicks of the same client overlap with it.  (With
\* the type invariant.)
ClosedLeavesMap ==
  /\ TypeOK
  /\ \A s \in Server, c \in Client :
       conns[s][c] # NoConn => closer[conns[s][c]] \in {"no", "closing"}

\* Once the kick of a connection found on another broker, and on the network
\* of the new connection (onUserConnect), has returned, that connection is
\* closed, whatever logins, kicks and closes of the client overlap with it.
SameNetKicked ==
  \A p \in kicked :
    Proceeds(p[1]) /\ conn[p[1]].at[2] = conn[p[2]].at[2] => closer[p[2]] # "no"

\* When things have settled, a user with an open connection is online for
\* every broker (IsOnline), whatever logins, kicks and closes of the client
\* happened on other brokers.  Two exceptions: its userOpenedOp was lost; or
\* the client logged in to the same broker another time, since the close of
\* one of the connections deletes whatever the map has under the client id,
\* and its userClosedOp, which may take its place in the log after the
\* userOpenedOp of the other, whatever the directory has.
SoleLoginOnline ==
  Quiescent =>
    \A k \in Conn :
      /\ conn[k].phase = "open" /\ closer[k] = "no"
      /\ \A op \in lost : op.type = "userOpened" =>
           <<op.nodeID, op.uid, op.cid>> # <<conn[k].at[1], conn[k].id[1], conn[k].id[2]>>
      /\ \A q \in Conn \ {k} : conn[q].phase = "idle" \/ conn[q].at[1] # conn[k].at[1]
                               \/ conn[q].id[2] # conn[k].id[2]
      => \A b \in Broker : IsOnline(b, conn[k].id[1])

=============================================================================
