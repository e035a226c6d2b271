------------------------------- MODULE Peers -------------------------------
(***************************************************************************)
(* How a broker learns of another one from etcd and keeps a gRPC client    *)
(* for it (cmd/cable/discovery_etcd.go, cluster/peer_client.go, AddBroker  *)
(* of cluster/cluster.go), and the API's client (api/client.go), which is  *)
(* made the same way.                                                      *)
(*                                                                         *)
(* One other broker is followed: the peers are independent of each other.  *)
(* Its key in etcd comes and goes with its lease.  Two goroutines of the   *)
(* observing broker act on it at the same time, Discover with what the Get *)
(* returned and Watch with the events; a third, Raft, calls the peer and   *)
(* applies the removals.  Timers reconnect.  The race detector's findings  *)
(* are part of the model: addr and conn are read and written with no lock  *)
(* in common.  What else AddBroker and KickBroker do is in Membership.     *)
(*                                                                         *)
(* In the other kind of behaviour a program's goroutines share one client  *)
(* of the API, client 1.                                                   *)
(***************************************************************************)
EXTENDS Integers, Sequences, FiniteSets

CONSTANTS
  Addr,         \* the addresses the other broker may have
  Torn,         \* half of one address and half of another
  None,         \* no address
  MaxChanges,   \* bound: changes of the key
  MaxClients,   \* bound: clients made
  MaxFailures,  \* bound: times grpc.NewClient fails
  MaxCalls      \* bound: the calls of a program

ASSUME PeersAssumption ==
  /\ None \notin Addr /\ Torn \notin Addr \cup {None}
  /\ {MaxChanges, MaxFailures, MaxCalls} \subseteq Nat /\ MaxClients \in Nat \ {0}

Discover == 1
Watch == 2
Raft == 3
Timer == 4 .. 3 + MaxFailures
Thread == 1 .. 3 + MaxFailures
Client == 1..MaxClients

VARIABLES
  user,      \* who uses the clients: a "broker" or a "program"
  key,       \* the other broker's address in etcd
  events,    \* the events the watch has still to deliver: addresses, None: deleted
  watch,     \* the watch: "off", "on", "failed"
  proposed,  \* removals of the other broker on their way through the raft log
  peer,      \* the client the map peers has for it, 0: none
  client,    \* client[o]: addr, ready, rpc: where its stub leads, open: its conn is
  thread,    \* thread[t]: pc, the client it works on, the address it brings
  made,      \* clients made so far
  count,     \* changes of the key, failures, calls so far
  \* Observed only:
  astray,    \* why the map may differ from etcd
  raced,     \* clients whose address changed while they were being connected
  hurried,   \* a Close overlapped a Connect
  removals,  \* removals applied
  panicked

etcd == <<key, events, watch>>
spoilt == <<raced, hurried, removals>>
aux == <<astray, spoilt>>
vars == <<user, etcd, proposed, peer, client, thread, made, count, aux, panicked>>

Rest == [pc |-> "rest", obj |-> 0, addr |-> None]
newPeerClient(a) == [addr |-> a, ready |-> FALSE, rpc |-> None, live |-> FALSE, held |-> FALSE]

(* Both goroutines of etcdDiscovery.Start are about to begin; the other    *)
(* broker may have registered already.  A program has made its client.     *)
Init ==
  /\ user \in {"broker", "program"}
  /\ key \in IF user = "broker" THEN Addr \cup {None} ELSE {None}
  /\ events = <<>> /\ watch = "off"
  /\ proposed = 0 /\ peer = 0
  /\ \E a \in Addr :
       client = [o \in Client |-> newPeerClient(IF user = "program" /\ o = 1 THEN a ELSE None)]
  /\ thread = [t \in Thread |->
                 [Rest EXCEPT !.pc = CASE user = "broker" /\ t = Discover -> "get"
                                       [] user = "broker" /\ t = Watch    -> "create"
                                       [] t \in Timer                     -> "unset"
                                       [] OTHER                           -> "rest"]]
  /\ made = IF user = "program" THEN 1 ELSE 0
  /\ count = [changes |-> 0, failures |-> 0, calls |-> 0]
  /\ astray = {} /\ raced = {} /\ hurried = FALSE /\ removals = 0
  /\ panicked = FALSE

Goto(t, pc) == thread' = [thread EXCEPT ![t].pc = pc]
Done(t) == thread' = [thread EXCEPT ![t] = Rest]

\* Others than t are at pcs with client o.
Others(t, o, pcs) == {u \in Thread \ {t} : thread[u].obj = o /\ thread[u].pc \in pcs}
Locked(o) == Others(0, o, {"dial", "swap", "ready"}) # {}

-----------------------------------------------------------------------------
(* etcd and the other broker.                                              *)

Change(a) ==
  /\ user = "broker" /\ count.changes < MaxChanges
  /\ count' = [count EXCEPT !.changes = @ + 1]
  /\ key' = a
  /\ events' = IF watch = "on" THEN Append(events, a) ELSE events
  /\ astray' = astray
       \cup (IF watch # "on" /\ thread[Discover].pc # "get" THEN {"missed"} ELSE {})
       \cup (IF thread[Discover].pc \notin {"get", "rest"} THEN {"overtaken"} ELSE {})
  /\ UNCHANGED <<user, watch, proposed, peer, client, thread, made, spoilt, panicked>>

(* The other broker starts, with its last address or a new one: its Put    *)
(* replaces the key of an earlier life, lease included.                    *)
Register(a) == Change(a)

(* It shuts down and revokes its lease.                                    *)
Revoke == key # None /\ Change(None)

(* keepaliveLeaseLoop ends with the first answer that fails to come, and   *)
(* nobody registers the broker again when the lease is over.               *)
Expire == key # None /\ Change(None)

(* The Watch begins with the next change: what came before is the Get's.   *)
Create ==
  /\ thread[Watch].pc = "create"
  /\ watch' = "on"
  /\ Goto(Watch, "rest")
  /\ UNCHANGED <<user, key, events, proposed, peer, client, made, count, aux, panicked>>

(* watchNodesLoop returns on an error, for good.                           *)
WatchFails ==
  /\ watch = "on" /\ thread[Watch] = Rest
  /\ watch' = "failed" /\ events' = <<>>
  /\ astray' = astray \cup (IF events # <<>> THEN {"missed"} ELSE {})
  /\ UNCHANGED <<user, key, proposed, peer, client, thread, made, count, spoilt, panicked>>

(* discoverExistingNodes: the Get fails, or returns the key as it is now.  *)
discoverExistingNodes ==
  /\ thread[Discover].pc = "get"
  /\ \/ /\ Done(Discover)
        /\ astray' = astray \cup (IF key # None THEN {"missed"} ELSE {})
     \/ /\ thread' = [thread EXCEPT ![Discover] =
                        IF key = None THEN Rest ELSE [Rest EXCEPT !.pc = "join", !.addr = key]]
        /\ UNCHANGED astray
  /\ UNCHANGED <<user, etcd, proposed, peer, client, made, count, spoilt, panicked>>

(* A Put: OnNodeJoin.  A registration that is heard ends what was amiss.   *)
watchPut ==
  /\ thread[Watch] = Rest /\ events # <<>> /\ Head(events) # None
  /\ events' = Tail(events)
  /\ thread' = [thread EXCEPT ![Watch] = [Rest EXCEPT !.pc = "join", !.addr = Head(events)]]
  /\ astray' = astray \cap {"overtaken"}
  /\ UNCHANGED <<user, key, watch, proposed, peer, client, made, count, spoilt, panicked>>

(* A Delete: OnNodeLeave, KickBroker; the proposal may be refused or lost. *)
watchDelete ==
  /\ thread[Watch] = Rest /\ events # <<>> /\ Head(events) = None
  /\ events' = Tail(events)
  /\ \/ proposed' = proposed + 1 /\ UNCHANGED astray
     \/ astray' = astray \cup {"kept"} /\ UNCHANGED proposed
  /\ UNCHANGED <<user, key, watch, peer, client, thread, made, count, spoilt, panicked>>

(* The removal is applied, whatever has happened to the key meanwhile; the *)
(* client is dropped from the map and not closed.                          *)
applyRemoveNode ==
  /\ thread[Raft] = Rest /\ proposed > 0
  /\ proposed' = proposed - 1
  /\ peer' = 0
  /\ removals' = removals + 1
  /\ astray' = astray \cup (IF key # None THEN {"removed"} ELSE {})
  /\ UNCHANGED <<user, etcd, client, thread, made, count, raced, hurried, panicked>>

-----------------------------------------------------------------------------
(* AddBroker, in the goroutine that was told of the broker.                *)

New(t) ==
  /\ made < MaxClients
  /\ made' = made + 1
  /\ client' = [client EXCEPT ![made + 1] = newPeerClient(thread[t].addr)]
  /\ thread' = [thread EXCEPT ![t].pc = "set", ![t].obj = made + 1]

\* Fault: the map is not looked up.
AddAnew(t) ==
  /\ thread[t].pc = "join"
  /\ New(t)
  /\ UNCHANGED <<user, etcd, proposed, peer, count, aux, panicked>>

\* Fault: with a known peer there is nothing to do.
AddOnce(t) ==
  /\ thread[t].pc = "join"
  /\ IF peer # 0 THEN Done(t) /\ UNCHANGED <<client, made>> ELSE New(t)
  /\ UNCHANGED <<user, etcd, proposed, peer, count, aux, panicked>>

AddBroker(t) ==
  /\ thread[t].pc = "join"
  /\ IF peer # 0
     THEN /\ thread' = [thread EXCEPT ![t].pc = "update", ![t].obj = peer]
          /\ UNCHANGED <<client, made>>
     ELSE New(t)
  /\ UNCHANGED <<user, etcd, proposed, peer, count, aux, panicked>>

Set(t) ==
  /\ thread[t].pc = "set"
  /\ peer' = thread[t].obj
  /\ Goto(t, "lock")
  /\ UNCHANGED <<user, etcd, proposed, client, made, count, aux, panicked>>

(* A read of p.addr next to a write of it.                                 *)
AddrRead(t, o) ==
  {client[o].addr}
    \cup {thread[u].addr : u \in Others(t, o, {"assign"})}
    \cup (IF Others(t, o, {"assign"}) # {} THEN {Torn} ELSE {})

(* updateAddr, up to its comparison.                                       *)
updateAddr(t) ==
  /\ thread[t].pc = "update"
  /\ \E a \in AddrRead(t, thread[t].obj) :
       IF a = thread[t].addr THEN Done(t) ELSE Goto(t, "assign")
  /\ UNCHANGED <<user, etcd, proposed, peer, client, made, count, aux, panicked>>

(* p.addr = addr.                                                          *)
Assign(t) ==
  LET o == thread[t].obj
      beside == Others(t, o, {"assign", "swap", "ready"}) # {}
  IN  /\ thread[t].pc = "assign"
      /\ raced' = IF beside THEN raced \cup {o} ELSE raced
      /\ \E a \in {thread[t].addr} \cup (IF Others(t, o, {"assign"}) # {} THEN {Torn} ELSE {}) :
           client' = [client EXCEPT ![o].addr = a]
      /\ Goto(t, "unready")
      /\ UNCHANGED <<user, etcd, proposed, peer, made, count, astray, hurried, removals, panicked>>

\* Fault: the client stays ready.
StayReady(t) ==
  /\ thread[t].pc = "unready"
  /\ Goto(t, "lock")
  /\ UNCHANGED <<user, etcd, proposed, peer, client, made, count, aux, panicked>>

(* p.ready.Store(false).                                                   *)
Unready(t) ==
  /\ thread[t].pc = "unready"
  /\ client' = [client EXCEPT ![thread[t].obj].ready = FALSE]
  /\ Goto(t, "lock")
  /\ UNCHANGED <<user, etcd, proposed, peer, made, count, aux, panicked>>

-----------------------------------------------------------------------------
(* connect, of the peer's client and of the API's.                         *)

Overlap(t, o, pcs) == hurried' = (hurried \/ Others(t, o, pcs) # {})

\* Fault: the client is ready before it has a connection.
LockReady(t) ==
  LET o == thread[t].obj
  IN  /\ thread[t].pc = "lock" /\ ~Locked(o)
      /\ IF client[o].ready THEN Done(t) /\ UNCHANGED client
                            ELSE Goto(t, "dial") /\ client' = [client EXCEPT ![o].ready = TRUE]
      /\ UNCHANGED <<user, etcd, proposed, peer, made, count, aux, panicked>>

(* The lock is taken; a client that is ready is left alone.                *)
connect(t) ==
  LET o == thread[t].obj
  IN  /\ thread[t].pc = "lock" /\ ~Locked(o)
      /\ IF client[o].ready THEN Done(t) ELSE Goto(t, "dial")
      /\ Overlap(t, o, {"check", "hang", "forget"})
      /\ UNCHANGED <<user, etcd, proposed, peer, client, made, count, astray, raced, removals, panicked>>

(* grpc.NewClient with the address: no connection is awaited.              *)
Dial(t) ==
  LET o == thread[t].obj
  IN  /\ thread[t].pc = "dial"
      /\ \E a \in AddrRead(t, o) : thread' = [thread EXCEPT ![t].pc = "swap", ![t].addr = a]
      /\ UNCHANGED <<user, etcd, proposed, peer, client, made, count, aux, panicked>>

\* Fault: nobody tries again.
NoRetry(t) ==
  /\ thread[t].pc = "dial" /\ count.failures < MaxFailures
  /\ count' = [count EXCEPT !.failures = @ + 1]
  /\ Done(t)
  /\ UNCHANGED <<user, etcd, proposed, peer, client, made, aux, panicked>>

(* grpc.NewClient fails: a timer will connect in two seconds.              *)
Retry(t) ==
  /\ thread[t].pc = "dial" /\ count.failures < MaxFailures
  /\ count' = [count EXCEPT !.failures = @ + 1]
  /\ thread' = [thread EXCEPT ![t] = Rest,
                              ![4 + count.failures] = [Rest EXCEPT !.pc = "armed", !.obj = thread[t].obj]]
  /\ UNCHANGED <<user, etcd, proposed, peer, client, made, aux, panicked>>

Fire(t) ==
  /\ thread[t].pc = "armed"
  /\ Goto(t, "lock")
  /\ UNCHANGED <<user, etcd, proposed, peer, client, made, count, aux, panicked>>

(* The end of reconnnect: the old connection, if there is one, is closed   *)
(* and replaced, and the stub with it.  A Close next to it may set conn to *)
(* nil between the test and the call.                                      *)
reconnnect(t) ==
  LET o == thread[t].obj
  IN  /\ thread[t].pc = "swap"
      /\ client' = [client EXCEPT ![o].rpc = thread[t].addr, ![o].live = TRUE, ![o].held = TRUE]
      /\ Goto(t, "ready")
      /\ \/ UNCHANGED panicked
         \/ client[o].held /\ Others(t, o, {"forget"}) # {} /\ panicked' = TRUE
      /\ UNCHANGED <<user, etcd, proposed, peer, made, count, aux>>

(* p.ready.Store(true), and the lock is released.                          *)
Ready(t) ==
  /\ thread[t].pc = "ready"
  /\ client' = [client EXCEPT ![thread[t].obj].ready = TRUE]
  /\ Done(t)
  /\ UNCHANGED <<user, etcd, proposed, peer, made, count, aux, panicked>>

-----------------------------------------------------------------------------
(* Calls.                                                                  *)

(* A method of the peer client, with the client found in the map: one that *)
(* is not ready refuses.                                                   *)
peerCall ==
  /\ user = "broker" /\ thread[Raft] = Rest
  /\ peer # 0 /\ client[peer].ready
  /\ thread' = [thread EXCEPT ![Raft] = [Rest EXCEPT !.pc = "call", !.obj = peer]]
  /\ UNCHANGED <<user, etcd, proposed, peer, client, made, count, aux, panicked>>

Program(t, pc) ==
  /\ user = "program" /\ t \in Thread \ Timer /\ thread[t] = Rest
  /\ count.calls < MaxCalls
  /\ count' = [count EXCEPT !.calls = @ + 1]
  /\ thread' = [thread EXCEPT ![t] = [Rest EXCEPT !.pc = pc, !.obj = 1]]

(* A method of the API's client.                                           *)
apiCall(t) ==
  /\ client[1].ready
  /\ Program(t, "call")
  /\ UNCHANGED <<user, etcd, proposed, peer, client, made, aux, panicked>>

(* The stub is used: without one the method panics.  The answer, or the    *)
(* error of a closed connection, is the caller's.                          *)
Use(t) ==
  /\ thread[t].pc = "call"
  /\ panicked' = (panicked \/ client[thread[t].obj].rpc = None)
  /\ Done(t)
  /\ UNCHANGED <<user, etcd, proposed, peer, client, made, count, aux>>

apiConnect(t) ==
  /\ Program(t, "lock")
  /\ UNCHANGED <<user, etcd, proposed, peer, client, made, aux, panicked>>

(* Close of the API's client (the peer client's is the same, and nobody    *)
(* calls it): without the lock, and only of a client that is ready.        *)
Close(t) ==
  /\ client[1].ready
  /\ client' = [client EXCEPT ![1].ready = FALSE]
  /\ Program(t, "check")
  /\ Overlap(t, 1, {"dial", "swap", "ready", "check", "hang", "forget"})
  /\ UNCHANGED <<user, etcd, proposed, peer, made, astray, raced, removals, panicked>>

CloseConn(t) ==
  LET c == client[1]
  IN  /\ \/ /\ thread[t].pc = "check"
            /\ IF c.held THEN Goto(t, "hang") ELSE Done(t)
            /\ UNCHANGED <<client, panicked>>
         \/ /\ thread[t].pc = "hang" /\ Goto(t, "forget")
            /\ IF c.held THEN client' = [client EXCEPT ![1].live = FALSE] /\ UNCHANGED panicked
                         ELSE panicked' = TRUE /\ UNCHANGED client
         \/ /\ thread[t].pc = "forget" /\ Done(t)
            /\ client' = [client EXCEPT ![1].held = FALSE] /\ UNCHANGED panicked
      /\ UNCHANGED <<user, etcd, proposed, peer, made, count, aux>>

-----------------------------------------------------------------------------
Step(t) ==
  \/ AddBroker(t) \/ Set(t) \/ updateAddr(t) \/ Assign(t) \/ Unready(t)
  \/ connect(t) \/ Dial(t) \/ Retry(t) \/ Fire(t) \/ reconnnect(t) \/ Ready(t)
  \/ Use(t) \/ CloseConn(t)

Etcd == (\E a \in Addr : Register(a)) \/ Revoke \/ Expire \/ WatchFails

Loops == Create \/ discoverExistingNodes \/ watchPut \/ watchDelete \/ applyRemoveNode \/ peerCall

Next ==
  /\ ~panicked
  /\ \/ Etcd \/ Loops
     \/ \E t \in Thread : Step(t) \/ apiCall(t) \/ apiConnect(t) \/ Close(t)

(* A goroutine that can go on does, and a timer fires.                     *)
Spec == Init /\ [][Next]_vars /\ \A t \in Thread : WF_vars(~panicked /\ Step(t))

(***************************************************************************)
(* Properties.                                                             *)
(***************************************************************************)

(* The variables have their types; one goroutine at a time connects a     *)
(* client.                                                                 *)
TypeOK ==
  /\ user \in {"broker", "program"} /\ watch \in {"off", "on", "failed"}
  /\ key \in Addr \cup {None} /\ \A i \in DOMAIN events : events[i] \in Addr \cup {None}
  /\ proposed \in 0..MaxChanges /\ removals \in 0..MaxChanges
  /\ peer \in 0..made /\ made \in 0..MaxClients
  /\ client \in [Client -> [addr : Addr \cup {Torn, None}, ready : BOOLEAN,
                            rpc : Addr \cup {Torn, None}, live : BOOLEAN, held : BOOLEAN]]
  /\ \A t \in Thread : thread[t].pc \in {"set", "lock", "dial"} => thread[t].obj \in 1..made
  /\ \A o \in Client : Cardinality(Others(0, o, {"dial", "swap", "ready"})) <= 1

Quiet(o) == \A t \in Thread : thread[t].obj # o \/ thread[t].pc \in {"rest", "call"}

(* A client that is ready, and that nobody is working on, is connected to  *)
(* the address it was last given: an update reconnects, unless it came     *)
(* while the client was being connected, and finds the client made ready   *)
(* for the old address.                                                    *)
ConnectedWhereTold ==
  \A o \in Client \ raced : client[o].ready /\ Quiet(o) => client[o].rpc = client[o].addr

Settled ==
  /\ user = "broker" /\ watch = "on" /\ events = <<>> /\ proposed = 0
  /\ \A t \in Thread \ {Raft} : thread[t].pc \in {"rest", "unset"}

(* Once all that etcd has said is dealt with, the map has a client for the *)
(* other broker exactly if that is registered, with its address, whatever  *)
(* the order in which the Get, the watch and the raft loop had their say.  *)
(* The exceptions are the code's: a change between the Get and the watch,  *)
(* or a Get that failed (missed); a Get applied after a later event        *)
(* (overtaken); a removal lost (kept), or applied after the broker came    *)
(* back (removed).  All but the second end with its next registration.     *)
(* (With the type invariant.)                                              *)
KnownIfRegistered ==
  /\ TypeOK
  /\ Settled /\ astray = {} =>
       /\ key = None <=> peer = 0
       /\ peer \notin raced \cup {0} => client[peer].addr = key

(* Connections that are open and out of the map's reach are never closed:  *)
(* a removal leaves one, and the two goroutines that may add the broker at *)
(* the same time leave one more between them.                              *)
OrphansBounded ==
  user = "broker" =>
    Cardinality({o \in Client \ {peer} : client[o].live /\ Quiet(o)}) <= removals + 1

(* A client that is ready and left in peace has an open connection, and    *)
(* no call finds it without a stub or a connection that is nil: only a     *)
(* Close that overlaps a Connect, or another Close, can spoil it.          *)
ReadyIsUsable ==
  ~hurried =>
    /\ ~panicked
    /\ \A o \in Client : client[o].ready /\ Quiet(o) => client[o].live

(* The client in the map becomes ready, however often grpc.NewClient fails *)
(* at first and whatever addresses it is given meanwhile.                  *)
PeerConnects ==
  \A o \in Client : peer = o /\ ~client[o].ready ~> client[o].ready \/ peer # o
=============================================================================
