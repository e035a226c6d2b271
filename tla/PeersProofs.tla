---------------------------- MODULE PeersProofs ----------------------------
(***************************************************************************)
(* For any number of changes, clients, failures and calls: a client that   *)
(* is ready is connected to the address it was given, and can be used,     *)
(* with the exceptions that the properties of Peers name.                  *)
(***************************************************************************)
EXTENDS Peers, TLAPS

Address == Addr \cup {Torn}
Holding == {"dial", "swap", "ready"}
Closing == {"check", "hang", "forget"}
Working == {"set", "update", "assign", "unready", "lock", "armed", "call"} \cup Holding \cup Closing
Bringing == {"join", "set", "update", "assign", "swap"}

ClientRec == [addr : Address \cup {None}, ready : BOOLEAN, rpc : Address \cup {None},
              live : BOOLEAN, held : BOOLEAN]
ThreadRec == [pc : Working \cup {"get", "create", "join", "rest", "unset"},
              obj : Nat, addr : Address \cup {None}]
CountRec == [changes : Nat, failures : 0..MaxFailures, calls : Nat]

(* A goroutine works on a client that was made, and brings an address when *)
(* it needs one; the timers are armed one after the other.                 *)
Types ==
  /\ key \in Addr \cup {None} /\ events \in Seq(Addr \cup {None})
  /\ made \in 0..MaxClients /\ peer \in 0..made
  /\ user = "program" => made # 0
  /\ client \in [Client -> ClientRec]
  /\ thread \in [Thread -> ThreadRec]
  /\ count \in CountRec
  /\ \A o \in Client : o <= made => client[o].addr # None
  /\ \A o \in Client : o > made => ~client[o].ready
  /\ \A t \in Thread : thread[t].pc \in Working => thread[t].obj \in 1..made
  /\ \A t \in Thread : thread[t].pc \notin Working => thread[t].obj = 0
  /\ \A t \in Thread : thread[t].pc \in Bringing => thread[t].addr # None
  /\ \A t \in Thread : thread[t].pc = "unset" <=> t >= 4 + count.failures

(* One goroutine at a time has a client's lock.                            *)
Exclusive ==
  \A t, u \in Thread :
    thread[t].pc \in Holding /\ thread[u].pc \in Holding /\ thread[t].obj = thread[u].obj => t = u

At(o, pcs) == \E t \in Thread : thread[t].obj = o /\ thread[t].pc \in pcs

(* Apart from the clients whose update raced: the address that is dialled  *)
(* or connected is the client's, unless an update is about to change it,   *)
(* or to have the client connected again.                                  *)
Fresh ==
  \A o \in Client \ raced :
    /\ client[o].ready /\ ~At(o, {"assign", "unready"}) => client[o].rpc = client[o].addr
    /\ \A t \in Thread : thread[t].obj = o /\ ~At(o, {"assign"}) =>
         /\ thread[t].pc = "swap" => thread[t].addr = client[o].addr
         /\ thread[t].pc = "ready" => client[o].rpc = client[o].addr

(* As long as no Close was in a hurry: a client that is ready, or about to *)
(* be, has an open connection; a Close has the client for itself.          *)
Sound ==
  /\ ~panicked
  /\ \A o \in Client : client[o].ready => client[o].live /\ client[o].rpc # None
  /\ \A t \in Thread :
       /\ thread[t].pc = "ready" => client[thread[t].obj].live /\ client[thread[t].obj].rpc # None
       /\ thread[t].pc = "call" => client[thread[t].obj].rpc # None
       /\ thread[t].pc \in Closing =>
            /\ thread[t].obj = 1 /\ ~client[1].ready
            /\ \A u \in Thread \ {t} : thread[u].obj = 1 => thread[u].pc \notin Holding \cup Closing
       /\ thread[t].pc \in {"hang", "forget"} => client[1].held

Inv == Types /\ Exclusive /\ Fresh /\ (~hurried => Sound)

LEMMA Constants ==
  /\ None \notin Address /\ Torn \in Address
  /\ {Discover, Watch, Raft} \subseteq Thread /\ Thread \subseteq Nat \ {0}
  /\ 1 \in Client /\ Client \subseteq Nat \ {0} /\ MaxFailures \in Nat /\ MaxClients \in Nat
  /\ Timer \subseteq Thread
  BY PeersAssumption DEF Address, Discover, Watch, Raft, Thread, Client, Timer

LEMMA RestType == Rest \in ThreadRec /\ Rest.pc = "rest" /\ Rest.obj = 0
  BY Zenon DEF Rest, ThreadRec

LEMMA InitInv == Init => Inv
  <1> SUFFICES ASSUME Init PROVE Inv OBVIOUS
  <1> USE DEF Init
  <1>1. \A t \in Thread :
          /\ thread[t] \in ThreadRec /\ thread[t].obj = 0
          /\ thread[t].pc \in {"get", "create", "rest", "unset"}
          /\ thread[t].pc = "unset" <=> t >= 4
    <2> SUFFICES ASSUME NEW t \in Thread
                 PROVE  /\ thread[t] \in ThreadRec /\ thread[t].obj = 0
                        /\ thread[t].pc \in {"get", "create", "rest", "unset"}
                        /\ thread[t].pc = "unset" <=> t >= 4
      OBVIOUS
    <2>1. t \in Timer <=> t >= 4 BY Constants DEF Timer, Thread
    <2>2. thread[t] = [pc |-> thread[t].pc, obj |-> 0, addr |-> None]
      BY Zenon DEF Rest
    <2>3. /\ thread[t].pc \in {"get", "create", "rest", "unset"}
          /\ thread[t].pc = "unset" <=> t \in Timer
      BY <2>1 DEF Rest, Discover, Watch
    <2> QED BY <2>1, <2>2, <2>3 DEF ThreadRec
  <1>2. \A o \in Client : /\ client[o] \in ClientRec /\ ~client[o].ready
                          /\ o = 1 /\ user = "program" => client[o].addr # None
    BY PeersAssumption DEF newPeerClient, ClientRec, Address
  <1>3. Types
    <2>1. key \in Addr \cup {None} /\ events \in Seq(Addr \cup {None}) OBVIOUS
    <2>2. made \in 0..MaxClients /\ peer \in 0..made /\ (user = "program" => made # 0)
      BY Constants DEF Client
    <2>3. count \in CountRec /\ count.failures = 0 BY Constants DEF CountRec
    <2>4. client \in [Client -> ClientRec] /\ thread \in [Thread -> ThreadRec] BY <1>1, <1>2, Zenon
    <2>5. \A o \in Client : o <= made => o = 1 /\ user = "program"
      BY Constants
    <2> QED
      BY <1>1, <1>2, <2>1, <2>2, <2>3, <2>4, <2>5 DEF Types, Working, Holding, Closing, Bringing
  <1>4. Exclusive /\ Fresh /\ Sound
    BY <1>1, <1>2 DEF Exclusive, Fresh, Sound, Holding, Closing
  <1> QED BY <1>3, <1>4, Zenon DEF Inv

(* A goroutine moves on, or rests, and leaves the clients as they are.  It *)
(* comes to the lock only if that is free, to close only a client it has   *)
(* for itself, and to a call only with a stub.                             *)
LEMMA Move ==
  ASSUME Inv, NEW t \in Thread, NEW r \in ThreadRec, thread' = [thread EXCEPT ![t] = r],
         UNCHANGED <<user, made, client, raced>>, peer' \in 0..made,
         hurried' \/ (panicked' => panicked),
         count' \in CountRec, count'.failures = count.failures,
         key' \in Addr \cup {None}, events' \in Seq(Addr \cup {None}),
         hurried \/ (r.pc = "dial" /\ At(r.obj, Closing)) => hurried',
         r.pc \in Working => r.obj \in 1..made,
         r.pc \notin Working => r.obj = 0,
         r.pc \in Bringing => r.addr # None,
         r.pc # "unset" /\ thread[t].pc # "unset",
         r.pc = "dial" => ~Locked(r.obj),
         r.pc = "swap" => thread[t].pc = "dial" /\ thread[t].obj = r.obj,
         r.pc # "ready" /\ r.pc \notin Closing,
         r.pc = "swap" => r.addr \in AddrRead(t, r.obj),
         r.pc = "call" => client[r.obj].ready,
         thread[t].pc \notin {"assign", "unready"}
  PROVE  Inv'
  <1>0. \A u \in Thread : thread'[u] = IF u = t THEN r ELSE thread[u]
    BY Zenon DEF Inv, Types
  <1>1. Types'
    BY Constants DEF Inv, Types
  <1>2. Exclusive'
    <2> SUFFICES ASSUME NEW u \in Thread \ {t}, r.pc \in Holding, thread[u].pc \in Holding,
                        thread[u].obj = r.obj
                 PROVE  FALSE
      BY <1>0 DEF Inv, Exclusive
    <2>1. CASE r.pc = "dial" BY <2>1, Constants, Zenon DEF Locked, Others, Holding
    <2>2. CASE r.pc = "swap" BY <2>2, Zenon DEF Inv, Exclusive, Holding
    <2> QED BY <2>1, <2>2, Zenon DEF Holding
  <1>3. Fresh'
    <2> SUFFICES ASSUME NEW o \in Client \ raced
                 PROVE  /\ client[o].ready /\ ~At(o, {"assign", "unready"})' => client[o].rpc = client[o].addr
                        /\ \A u \in Thread : thread'[u].obj = o /\ ~At(o, {"assign"})' =>
                             /\ thread'[u].pc = "swap" => thread'[u].addr = client[o].addr
                             /\ thread'[u].pc = "ready" => client[o].rpc = client[o].addr
      BY DEF Fresh
    <2>1. At(o, {"assign", "unready"}) => At(o, {"assign", "unready"})'
      BY <1>0 DEF At
    <2>2. At(o, {"assign"}) => At(o, {"assign"})'
      BY <1>0 DEF At
    <2>3. r.pc = "swap" /\ r.obj = o /\ ~At(o, {"assign"}) => r.addr = client[o].addr
      BY Zenon DEF AddrRead, Others, At
    <2> QED BY <1>0, <2>1, <2>2, <2>3 DEF Inv, Fresh
  <1>4. ASSUME ~hurried' PROVE Sound'
    <2>1. Sound /\ (r.pc = "dial" => ~At(r.obj, Closing)) BY <1>4, Zenon DEF Inv
    <2>2. \A u \in Thread \ {t} : thread[u].pc \in Closing /\ r.obj = 1 => r.pc \notin Holding
      BY <2>1, Zenon DEF Sound, At, Holding
    <2>3. ~panicked' /\ \A o \in Client : client'[o].ready => client'[o].live /\ client'[o].rpc # None
      BY <1>4, <2>1, Zenon DEF Sound
    <2>4. ASSUME NEW u \in Thread, thread'[u].pc \in Closing
          PROVE  /\ thread'[u].obj = 1 /\ ~client'[1].ready
                 /\ \A v \in Thread \ {u} : thread'[v].obj = 1 => thread'[v].pc \notin Holding \cup Closing
      BY <1>0, <2>1, <2>2, <2>4 DEF Sound
    <2>5. ASSUME NEW u \in Thread
          PROVE  /\ thread'[u].pc = "ready" =>
                      client'[thread'[u].obj].live /\ client'[thread'[u].obj].rpc # None
                 /\ thread'[u].pc = "call" => client'[thread'[u].obj].rpc # None
                 /\ thread'[u].pc \in {"hang", "forget"} => client'[1].held
      <3>1. CASE u = t
        <4>1. r.pc = "call" => r.obj \in Client BY Constants DEF Working, Client, Inv, Types
        <4> QED BY <1>0, <2>1, <3>1, <4>1 DEF Sound, Closing
      <3>2. CASE u # t BY <1>0, <2>1, <3>2 DEF Sound
      <3> QED BY <3>1, <3>2, Zenon
    <2> QED BY <2>3, <2>4, <2>5, Zenon DEF Sound
  <1> QED BY <1>1, <1>2, <1>3, <1>4, Zenon DEF Inv

(* Steps that concern no goroutine and no client.                          *)
LEMMA Stand ==
  ASSUME Inv, UNCHANGED <<user, made, client, thread, raced, hurried, panicked>>,
         peer' \in 0..made, count' \in CountRec, count'.failures = count.failures,
         key' \in Addr \cup {None}, events' \in Seq(Addr \cup {None})
  PROVE  Inv'
  BY DEF Inv, Types, Exclusive, Fresh, Sound, At

(* etcd's changes, and what the loops do with them.                        *)
LEMMA EtcdInv == ASSUME Inv, Etcd \/ watchDelete \/ applyRemoveNode PROVE Inv'
  <1>1. ASSUME NEW a \in Addr \cup {None}, Change(a) PROVE Inv'
    <2>1. count' \in CountRec /\ count'.failures = count.failures
      BY <1>1 DEF Change, Inv, Types, CountRec
    <2>2. events' \in Seq(Addr \cup {None})
      BY <1>1 DEF Change, Inv, Types
    <2> QED BY <1>1, <2>1, <2>2, Stand, Zenon DEF Change, Inv, Types, spoilt
  <1>2. CASE WatchFails
    BY <1>2, Stand DEF WatchFails, Inv, Types, spoilt
  <1>3. CASE watchDelete
    BY <1>3, Stand DEF watchDelete, Inv, Types, spoilt
  <1>4. CASE applyRemoveNode
    <2>1. 0 \in 0..made BY DEF Inv, Types
    <2> QED BY <1>4, <2>1, Stand, Zenon DEF applyRemoveNode, etcd, Inv, Types
  <1> QED BY <1>1, <1>2, <1>3, <1>4, Zenon DEF Etcd, Register, Revoke, Expire

LEMMA LoopInv == ASSUME Inv, Create \/ discoverExistingNodes \/ watchPut \/ peerCall PROVE Inv'
  <1> USE DEF Inv, Types
  <1>1. CASE Create
    <2> DEFINE r == [thread[Watch] EXCEPT !.pc = "rest"]
    <2>1. r \in ThreadRec /\ r.pc = "rest" /\ r.obj = 0
      BY <1>1, Constants, ZenonT(40) DEF Create, ThreadRec, Working, Holding, Closing
    <2>2. thread' = [thread EXCEPT ![Watch] = r] BY <1>1, Zenon DEF Create, Goto
    <2> HIDE DEF r
    <2> QED BY <1>1, <2>1, <2>2, Move, Constants, Zenon
            DEF Create, aux, spoilt, Working, Holding, Closing, Bringing
  <1>2. CASE discoverExistingNodes
    <2> DEFINE r == [Rest EXCEPT !.pc = "join", !.addr = key]
    <2>1. CASE thread' = [thread EXCEPT ![Discover] = Rest]
      BY <1>2, <2>1, RestType, Move, Constants, Zenon
      DEF discoverExistingNodes, etcd, spoilt, Working, Holding, Closing, Bringing
    <2>2. CASE key # None /\ thread' = [thread EXCEPT ![Discover] = r]
      <3>1. r \in ThreadRec /\ r.pc = "join" /\ r.obj = 0 /\ r.addr # None
        BY <2>2, Constants, Zenon DEF Address, Rest, ThreadRec
      <3> HIDE DEF r
      <3> QED BY <1>2, <2>2, <3>1, Move, Constants, Zenon
              DEF discoverExistingNodes, etcd, spoilt, Working, Holding, Closing, Bringing
    <2> QED BY <1>2, <2>1, <2>2, Zenon DEF discoverExistingNodes, Done
  <1>3. CASE watchPut
    <2>0. events \in Seq(Addr \cup {None}) /\ events # <<>> BY <1>3, Zenon DEF watchPut
    <2>1. Head(events) \in Addr /\ events' \in Seq(Addr \cup {None})
      <3>1. Head(events) \in Addr \cup {None} /\ Tail(events) \in Seq(Addr \cup {None})
        BY <2>0
      <3> QED BY <1>3, <3>1, Zenon DEF watchPut
    <2> PICK a \in Addr : a = Head(events) BY <2>1, Zenon
    <2> DEFINE r == [Rest EXCEPT !.pc = "join", !.addr = a]
    <2>2. r \in ThreadRec /\ r.pc = "join" /\ r.obj = 0 /\ r.addr # None
      BY Constants, Zenon DEF Address, Rest, ThreadRec
    <2>3. thread[Watch].pc = "rest" /\ thread' = [thread EXCEPT ![Watch] = r]
      BY <1>3, RestType, Zenon DEF watchPut
    <2> HIDE DEF r
    <2> QED BY <1>3, <2>1, <2>2, <2>3, Move, Constants, Zenon
            DEF watchPut, spoilt, Working, Holding, Closing, Bringing
  <1>4. CASE peerCall
    <2>0. peer \in 1..made /\ peer \in Nat BY <1>4 DEF peerCall
    <2> PICK o \in Nat : o = peer BY <2>0, Zenon
    <2> DEFINE r == [Rest EXCEPT !.pc = "call", !.obj = o]
    <2>1. thread[Raft].pc = "rest" /\ thread' = [thread EXCEPT ![Raft] = r]
      BY <1>4, RestType, Zenon DEF peerCall
    <2>2. r \in ThreadRec /\ r.pc = "call" /\ r.obj = peer
      BY Zenon DEF Working, Rest, ThreadRec
    <2> HIDE DEF r
    <2> QED BY <1>4, <2>0, <2>1, <2>2, Move, Constants, Zenon
            DEF peerCall, etcd, aux, spoilt, Working, Holding, Closing, Bringing
  <1> QED BY <1>1, <1>2, <1>3, <1>4, Zenon

(* What Move asks of a goroutine that goes on with its client.             *)
LEMMA Onward ==
  ASSUME Inv, NEW t \in Thread, NEW pc \in {"lock", "update", "assign"}, Goto(t, pc),
         thread[t].pc \in Working \ {"assign", "unready"},
         pc \in Bringing => thread[t].pc \in Bringing,
         UNCHANGED <<user, made, client, raced, hurried, panicked, count, key, events>>,
         peer' \in 0..made
  PROVE  Inv'
  <1> DEFINE r == [thread[t] EXCEPT !.pc = pc]
  <1>1. /\ r \in ThreadRec /\ r.pc = pc /\ r.obj = thread[t].obj /\ r.addr = thread[t].addr
        /\ thread' = [thread EXCEPT ![t] = r]
    BY Zenon DEF Inv, Types, Goto, ThreadRec, Working
  <1> HIDE DEF r
  <1> QED BY <1>1, Move, ZenonT(40) DEF Inv, Types, Working, Holding, Closing, Bringing

(* A goroutine is done, and does not leave an update half done.            *)
LEMMA Finished ==
  ASSUME Inv, NEW t \in Thread, Done(t), thread[t].pc \notin {"assign", "unready", "unset"},
         UNCHANGED <<user, made, peer, client, raced, count, key, events>>,
         hurried => hurried', hurried' \/ (panicked' => panicked)
  PROVE  Inv'
  BY RestType, Move, ZenonT(40) DEF Done, Inv, Types, Working, Holding, Closing, Bringing

LEMMA WalkInv ==
  ASSUME Inv, NEW t \in Thread, Set(t) \/ updateAddr(t) \/ Fire(t) \/ Use(t)
  PROVE  Inv'
  <1>1. CASE Set(t)
    <2>1. thread[t].obj \in 0..made BY <1>1 DEF Set, Inv, Types, Working
    <2> QED BY <1>1, <2>1, Onward, Zenon DEF Set, etcd, aux, spoilt, Working, Holding, Closing, Bringing
  <1>2. CASE updateAddr(t)
    <2>1. CASE Done(t)
      BY <1>2, <2>1, Finished, Zenon DEF updateAddr, etcd, aux, spoilt
    <2>2. CASE Goto(t, "assign")
      BY <1>2, <2>2, Onward, Zenon DEF updateAddr, etcd, aux, spoilt, Working, Holding, Closing, Bringing, Inv, Types
    <2> QED BY <1>2, <2>1, <2>2, Zenon DEF updateAddr
  <1>3. CASE Fire(t)
    BY <1>3, Onward, Zenon DEF Fire, etcd, aux, spoilt, Working, Holding, Closing, Bringing, Inv, Types
  <1>4. CASE Use(t)
    <2>1. hurried \/ client[thread[t].obj].rpc # None BY <1>4, Zenon DEF Use, Inv, Sound
    <2>2. CASE hurried
      BY <1>4, <2>2, Finished, Zenon DEF Use, etcd, aux, spoilt
    <2>3. CASE ~hurried
      <3>1. panicked' => panicked BY <1>4, <2>1, <2>3, Zenon DEF Use
      <3> QED BY <1>4, <3>1, Finished, Zenon DEF Use, etcd, aux, spoilt
    <2> QED BY <2>2, <2>3, Zenon
  <1> QED BY <1>1, <1>2, <1>3, <1>4, Zenon

LEMMA ConnectInv == ASSUME Inv, NEW t \in Thread, connect(t) PROVE Inv'
  <1> DEFINE r == [thread[t] EXCEPT !.pc = "dial"]
  <1>1. CASE Done(t)
    BY <1>1, Finished, Zenon DEF connect, Overlap, etcd, spoilt
  <1>2. CASE Goto(t, "dial")
    <2>1. /\ r \in ThreadRec /\ r.pc = "dial" /\ r.obj = thread[t].obj /\ r.addr = thread[t].addr
          /\ thread' = [thread EXCEPT ![t] = r]
      BY <1>2, Zenon DEF Inv, Types, Goto, ThreadRec, Working, Holding
    <2> HIDE DEF r
    <2>2. hurried \/ At(r.obj, Closing) => hurried'
      BY <2>1, Zenon DEF connect, Overlap, Others, At, Closing
    <2> QED BY <2>1, <2>2, Move, Zenon DEF connect, Inv, Types, etcd, spoilt, Working, Holding, Closing, Bringing
  <1> QED BY <1>1, <1>2, Zenon DEF connect

LEMMA DialInv == ASSUME Inv, NEW t \in Thread, Dial(t) PROVE Inv'
  <1>1. PICK a \in AddrRead(t, thread[t].obj) :
          thread' = [thread EXCEPT ![t].pc = "swap", ![t].addr = a]
    BY Zenon DEF Dial
  <1>2. thread[t].obj \in 1..made /\ thread[t].obj \in Client
    BY Constants DEF Dial, Inv, Types, Working, Holding, Client
  <1>3. a \in Address
    <2>1. client[thread[t].obj].addr \in Address
      BY <1>2 DEF Inv, Types, ClientRec
    <2>2. \A u \in Others(t, thread[t].obj, {"assign"}) : thread[u].addr \in Address
      BY Zenon DEF Others, Inv, Types, ThreadRec, Bringing
    <2> QED BY <2>1, <2>2, Constants, Zenon DEF AddrRead
  <1> DEFINE r == [thread[t] EXCEPT !.pc = "swap", !.addr = a]
  <1>4. /\ r \in ThreadRec /\ r.pc = "swap" /\ r.obj = thread[t].obj /\ r.addr = a
        /\ thread' = [thread EXCEPT ![t] = r]
    BY <1>1, <1>3, Zenon DEF Inv, Types, ThreadRec, Working, Holding
  <1> HIDE DEF r
  <1> QED BY <1>2, <1>3, <1>4, Move, Constants, Zenon
          DEF Dial, Inv, Types, etcd, aux, spoilt, Working, Holding, Closing, Bringing

(* A client's record changes, but for its address, together with the       *)
(* activity of the goroutine t.                                            *)
LEMMA ClientTypes ==
  ASSUME Inv, NEW t \in Thread, NEW o \in Client, NEW c \in ClientRec, NEW r \in ThreadRec,
         client' = [client EXCEPT ![o] = c], thread' = [thread EXCEPT ![t] = r],
         o <= made, c.addr # None,
         UNCHANGED <<user, key, events, made, peer>>,
         count' \in CountRec, count'.failures = count.failures,
         r.pc \in Working => r.obj \in 1..made,
         r.pc \notin Working => r.obj = 0,
         r.pc \in Bringing => r.addr # None,
         r.pc # "unset" /\ thread[t].pc # "unset"
  PROVE  /\ Types'
         /\ \A u \in Thread : thread'[u] = IF u = t THEN r ELSE thread[u]
         /\ \A p \in Client : client'[p] = IF p = o THEN c ELSE client[p]
  <1>1. \A u \in Thread : thread'[u] = IF u = t THEN r ELSE thread[u] BY Zenon DEF Inv, Types
  <1>2. \A p \in Client : client'[p] = IF p = o THEN c ELSE client[p] BY Zenon DEF Inv, Types
  <1>3. client' \in [Client -> ClientRec] /\ thread' \in [Thread -> ThreadRec] BY Zenon DEF Inv, Types
  <1>4. /\ \A p \in Client : p <= made => client'[p].addr # None
        /\ \A p \in Client : p > made => ~client'[p].ready
    <2>1. /\ \A p \in Client : p <= made => client[p].addr # None
          /\ \A p \in Client : p > made => ~client[p].ready
      BY Zenon DEF Inv, Types
    <2>2. ~(o > made) BY Constants DEF Inv, Types, Client
    <2> QED BY <1>2, <2>1, <2>2, Zenon
  <1>5. /\ \A u \in Thread : thread'[u].pc \in Working => thread'[u].obj \in 1..made
        /\ \A u \in Thread : thread'[u].pc \notin Working => thread'[u].obj = 0
        /\ \A u \in Thread : thread'[u].pc \in Bringing => thread'[u].addr # None
        /\ \A u \in Thread : thread'[u].pc = "unset" <=> u >= 4 + count.failures
    BY <1>1, Zenon DEF Inv, Types
  <1>6. Types' BY <1>3, <1>4, <1>5, Zenon DEF Inv, Types
  <1> QED BY <1>1, <1>2, <1>6, Zenon

LEMMA ReadyInv == ASSUME Inv, NEW t \in Thread, Ready(t) PROVE Inv'
  <1> DEFINE o == thread[t].obj
             c == [client[o] EXCEPT !.ready = TRUE]
  <1>0. thread[t].pc = "ready" BY Zenon DEF Ready
  <1>1. o \in 1..made /\ o \in Client
    BY <1>0, Constants DEF Inv, Types, Working, Holding, Client
  <1>2. /\ c \in ClientRec /\ c.ready = TRUE /\ c.addr = client[o].addr /\ c.rpc = client[o].rpc
        /\ c.live = client[o].live /\ c.held = client[o].held
        /\ client' = [client EXCEPT ![o] = c]
    BY <1>1, ZenonT(40) DEF Inv, Types, ClientRec, Ready
  <1> HIDE DEF c
  <1>3. /\ Types'
        /\ \A u \in Thread : thread'[u] = IF u = t THEN Rest ELSE thread[u]
        /\ \A p \in Client : client'[p] = IF p = o THEN c ELSE client[p]
    <2>1. o <= made /\ c.addr # None BY <1>1, <1>2 DEF Inv, Types
    <2>2. UNCHANGED <<user, key, events, made, peer, count>> /\ count \in CountRec
      BY Zenon DEF Ready, etcd, Inv, Types
    <2>3. thread' = [thread EXCEPT ![t] = Rest] BY Zenon DEF Ready, Done
    <2> HIDE DEF o
    <2> QED BY <1>0, <1>1, <1>2, <2>1, <2>2, <2>3, ClientTypes, RestType, ZenonT(40)
            DEF Working, Holding, Closing, Bringing
  <1>4. Exclusive' BY <1>3, RestType DEF Inv, Exclusive, Holding
  <1>5. Fresh'
    <2>1. \A p : At(p, {"assign"})' <=> At(p, {"assign"})
      BY <1>0, <1>3, RestType, Zenon DEF At
    <2>2. \A p : At(p, {"assign", "unready"})' <=> At(p, {"assign", "unready"})
      BY <1>0, <1>3, RestType, Zenon DEF At
    <2>3. \A p : At(p, {"assign"}) => At(p, {"assign", "unready"}) BY Zenon DEF At
    <2>4. o \notin raced /\ ~At(o, {"assign"}) => client[o].rpc = client[o].addr
      BY <1>0, <1>1, Zenon DEF Inv, Fresh
    <2> QED BY <1>0, <1>1, <1>2, <1>3, <2>1, <2>2, <2>3, <2>4, RestType
            DEF Inv, Fresh, Ready, aux, spoilt
  <1>6. ASSUME ~hurried' PROVE Sound'
    <2>1. Sound /\ ~panicked' BY <1>6, Zenon DEF Inv, Ready, aux, spoilt, Sound
    <2>2. ASSUME NEW u \in Thread, thread[u].pc \in Closing PROVE o # 1
      BY <1>0, <2>1, <2>2, Zenon DEF Sound, Holding, Closing
    <2> QED BY <1>0, <1>1, <1>2, <1>3, <2>1, <2>2, RestType DEF Sound, Closing, Holding
  <1> QED BY <1>3, <1>4, <1>5, <1>6, Zenon DEF Inv

LEMMA ReconnectInv == ASSUME Inv, NEW t \in Thread, reconnnect(t) PROVE Inv'
  <1> DEFINE o == thread[t].obj
             c == [client[o] EXCEPT !.rpc = thread[t].addr, !.live = TRUE, !.held = TRUE]
             r == [thread[t] EXCEPT !.pc = "ready"]
  <1>0. thread[t].pc = "swap" BY Zenon DEF reconnnect
  <1>1. o \in 1..made /\ o \in Client /\ thread[t].addr # None
    BY <1>0, Constants DEF Inv, Types, Working, Holding, Bringing, Client
  <1>2. /\ c \in ClientRec /\ c.ready = client[o].ready /\ c.addr = client[o].addr
        /\ c.rpc = thread[t].addr /\ c.live = TRUE /\ c.held = TRUE
        /\ client' = [client EXCEPT ![o] = c]
    BY <1>1, ZenonT(40) DEF Inv, Types, ClientRec, ThreadRec, reconnnect
  <1>r. /\ r \in ThreadRec /\ r.pc = "ready" /\ r.obj = o /\ r.addr = thread[t].addr
        /\ thread' = [thread EXCEPT ![t] = r]
    BY Zenon DEF Inv, Types, ThreadRec, reconnnect, Goto, Working, Holding
  <1> HIDE DEF c, r
  <1>3. /\ Types'
        /\ \A u \in Thread : thread'[u] = IF u = t THEN r ELSE thread[u]
        /\ \A p \in Client : client'[p] = IF p = o THEN c ELSE client[p]
    <2>1. o <= made /\ c.addr # None BY <1>1, <1>2 DEF Inv, Types
    <2>2. UNCHANGED <<user, key, events, made, peer, count>> /\ count \in CountRec
      BY Zenon DEF reconnnect, etcd, Inv, Types
    <2> HIDE DEF o
    <2> QED BY <1>0, <1>1, <1>2, <1>r, <2>1, <2>2, ClientTypes, ZenonT(40)
            DEF Working, Holding, Closing, Bringing
  <1>4. Exclusive' BY <1>0, <1>3, <1>r DEF Inv, Exclusive, Holding
  <1>5. Fresh'
    <2>1. \A p : At(p, {"assign"})' <=> At(p, {"assign"})
      BY <1>0, <1>3, <1>r DEF At
    <2>2. \A p : At(p, {"assign", "unready"})' <=> At(p, {"assign", "unready"})
      BY <1>0, <1>3, <1>r DEF At
    <2>3. \A p : At(p, {"assign"}) => At(p, {"assign", "unready"}) BY DEF At
    <2>4. o \notin raced /\ ~At(o, {"assign"}) => thread[t].addr = client[o].addr
      BY <1>0, <1>1, Zenon DEF Inv, Fresh
    <2>5. \A u \in Thread \ {t} : thread[u].obj = o => thread[u].pc \notin {"swap", "ready"}
      BY <1>0, Zenon DEF Inv, Exclusive, Holding
    <2>6. UNCHANGED raced BY Zenon DEF reconnnect, aux, spoilt
    <2> SUFFICES ASSUME NEW p \in Client \ raced
                 PROVE  /\ client'[p].ready /\ ~At(p, {"assign", "unready"})
                             => client'[p].rpc = client'[p].addr
                        /\ \A u \in Thread : thread'[u].obj = p /\ ~At(p, {"assign"}) =>
                             /\ thread'[u].pc = "swap" => thread'[u].addr = client'[p].addr
                             /\ thread'[u].pc = "ready" => client'[p].rpc = client'[p].addr
      BY <2>1, <2>2, <2>6, Zenon DEF Fresh
    <2>7. CASE p = o BY <1>1, <1>2, <1>3, <1>r, <2>3, <2>4, <2>5, <2>7
    <2>8. CASE p # o
      <3>1. \A u \in Thread : thread'[u].obj = p => thread'[u] = thread[u] BY <1>3, <1>r, <2>8, Zenon
      <3> QED BY <1>3, <2>8, <3>1 DEF Inv, Fresh
    <2> QED BY <2>7, <2>8, Zenon
  <1>6. ASSUME ~hurried' PROVE Sound'
    <2>1. Sound BY <1>6, Zenon DEF Inv, reconnnect, aux, spoilt
    <2>2. ASSUME NEW u \in Thread, thread[u].pc \in Closing PROVE o # 1
      BY <1>0, <2>1, <2>2, Zenon DEF Sound, Holding, Closing
    <2>3. ~panicked' BY <2>1, <2>2, Zenon DEF reconnnect, Others, Sound, Closing
    <2> QED BY <1>0, <1>1, <1>2, <1>3, <1>r, <2>1, <2>2, <2>3 DEF Sound, Closing, Holding
  <1> QED BY <1>3, <1>4, <1>5, <1>6, Zenon DEF Inv

(* Fresh survives a step that makes no client ready and changes neither    *)
(* addresses nor stubs.                                                    *)
LEMMA FreshKept ==
  ASSUME Inv, NEW t \in Thread, NEW o \in Client, NEW c, NEW r,
         \A u \in Thread : thread'[u] = IF u = t THEN r ELSE thread[u],
         \A p \in Client : client'[p] = IF p = o THEN c ELSE client[p],
         c.addr = client[o].addr, c.rpc = client[o].rpc, c.ready => client[o].ready,
         r.pc \notin {"swap", "ready"}, thread[t].pc # "assign",
         thread[t].pc = "unready" => thread[t].obj = o /\ ~c.ready,
         raced' = raced
  PROVE  Fresh'
  <1>1. \A p : At(p, {"assign"}) => At(p, {"assign"})' BY Zenon DEF At
  <1>2. ASSUME NEW p \in Client, client'[p].ready, ~At(p, {"assign", "unready"})'
        PROVE  ~At(p, {"assign", "unready"})
    <2>1. ASSUME NEW u \in Thread, thread[u].obj = p, thread[u].pc \in {"assign", "unready"}
          PROVE  FALSE
      <3>1. CASE u = t BY <1>2, <2>1, <3>1, Zenon
      <3>2. CASE u # t BY <1>2, <2>1, <3>2, Zenon DEF At
      <3> QED BY <3>1, <3>2, Zenon
    <2> QED BY <2>1, Zenon DEF At
  <1> SUFFICES ASSUME NEW p \in Client \ raced
               PROVE  /\ client'[p].ready /\ ~At(p, {"assign", "unready"})'
                           => client'[p].rpc = client'[p].addr
                      /\ \A u \in Thread : thread'[u].obj = p /\ ~At(p, {"assign"})' =>
                           /\ thread'[u].pc = "swap" => thread'[u].addr = client'[p].addr
                           /\ thread'[u].pc = "ready" => client'[p].rpc = client'[p].addr
    BY Zenon DEF Fresh
  <1>3. /\ client'[p].addr = client[p].addr /\ client'[p].rpc = client[p].rpc
        /\ client'[p].ready => client[p].ready
    BY Zenon
  <1> QED BY <1>1, <1>2, <1>3 DEF Inv, Fresh

LEMMA UnreadyInv == ASSUME Inv, NEW t \in Thread, Unready(t) PROVE Inv'
  <1> DEFINE o == thread[t].obj
             c == [client[o] EXCEPT !.ready = FALSE]
             r == [thread[t] EXCEPT !.pc = "lock"]
  <1>0. thread[t].pc = "unready" BY Zenon DEF Unready
  <1>1. o \in 1..made /\ o \in Client
    BY <1>0, Constants DEF Inv, Types, Working, Holding, Client
  <1>2. /\ c \in ClientRec /\ c.ready = FALSE /\ c.addr = client[o].addr /\ c.rpc = client[o].rpc
        /\ c.live = client[o].live /\ c.held = client[o].held
        /\ client' = [client EXCEPT ![o] = c]
    BY <1>1, ZenonT(40) DEF Inv, Types, ClientRec, Unready
  <1>r. /\ r \in ThreadRec /\ r.pc = "lock" /\ r.obj = o /\ r.addr = thread[t].addr
        /\ thread' = [thread EXCEPT ![t] = r]
    BY Zenon DEF Inv, Types, ThreadRec, Unready, Goto, Working
  <1>u. UNCHANGED <<user, key, events, made, peer, count, raced, hurried, panicked>>
    BY Zenon DEF Unready, etcd, aux, spoilt
  <1> HIDE DEF c, r
  <1>3. /\ Types'
        /\ \A u \in Thread : thread'[u] = IF u = t THEN r ELSE thread[u]
        /\ \A p \in Client : client'[p] = IF p = o THEN c ELSE client[p]
    <2>1. o <= made /\ c.addr # None /\ count \in CountRec BY <1>1, <1>2 DEF Inv, Types
    <2> HIDE DEF o
    <2> QED BY <1>0, <1>1, <1>2, <1>r, <1>u, <2>1, ClientTypes, ZenonT(40)
            DEF Working, Holding, Closing, Bringing
  <1>4. Exclusive' BY <1>0, <1>3, <1>r DEF Inv, Exclusive, Holding
  <1>5. Fresh' BY <1>0, <1>1, <1>2, <1>3, <1>r, <1>u, FreshKept, SMTT(30)
  <1>6. ASSUME ~hurried' PROVE Sound'
    <2>1. Sound /\ ~panicked' BY <1>6, <1>u, Zenon DEF Inv, Sound
    <2> QED BY <1>0, <1>1, <1>2, <1>3, <1>r, <2>1 DEF Sound, Closing, Holding
  <1> QED BY <1>3, <1>4, <1>5, <1>6 DEF Inv

LEMMA AssignInv == ASSUME Inv, NEW t \in Thread, Assign(t) PROVE Inv'
  <1> DEFINE o == thread[t].obj
             r == [thread[t] EXCEPT !.pc = "unready"]
  <1>0. thread[t].pc = "assign" BY Zenon DEF Assign
  <1>1. o \in 1..made /\ o \in Client /\ thread[t].addr \in Address
    BY <1>0, Constants DEF Inv, Types, ThreadRec, Working, Holding, Bringing, Client
  <1>a. PICK a \in Address : client' = [client EXCEPT ![o].addr = a]
    BY <1>1, Constants, Zenon DEF Assign
  <1> DEFINE c == [client[o] EXCEPT !.addr = a]
  <1>2. /\ c \in ClientRec /\ c.ready = client[o].ready /\ c.addr = a /\ c.rpc = client[o].rpc
        /\ c.live = client[o].live /\ c.held = client[o].held
        /\ client' = [client EXCEPT ![o] = c]
    BY <1>1, <1>a DEF Inv, Types, ClientRec
  <1>r. /\ r \in ThreadRec /\ r.pc = "unready" /\ r.obj = o /\ r.addr = thread[t].addr
        /\ thread' = [thread EXCEPT ![t] = r]
    BY Zenon DEF Inv, Types, ThreadRec, Assign, Goto, Working
  <1>u. UNCHANGED <<user, key, events, made, peer, count, hurried, panicked>>
    BY Zenon DEF Assign, etcd
  <1> HIDE DEF c, r
  <1>3. /\ Types'
        /\ \A u \in Thread : thread'[u] = IF u = t THEN r ELSE thread[u]
        /\ \A p \in Client : client'[p] = IF p = o THEN c ELSE client[p]
    <2>1. o <= made /\ c.addr # None /\ count \in CountRec BY <1>1, <1>2, Constants DEF Inv, Types
    <2> HIDE DEF o
    <2> QED BY <1>0, <1>1, <1>2, <1>r, <1>u, <2>1, ClientTypes, ZenonT(40)
            DEF Working, Holding, Closing, Bringing
  <1>4. Exclusive' BY <1>0, <1>3, <1>r DEF Inv, Exclusive, Holding
  <1>5. Fresh'
    <2>1. raced \subseteq raced' BY Zenon DEF Assign
    <2>2. o \notin raced' =>
            \A u \in Thread \ {t} : thread[u].obj = o => thread[u].pc \notin {"assign", "swap", "ready"}
      BY Zenon DEF Assign, Others
    <2>3. At(o, {"assign", "unready"})' BY <1>3, <1>r DEF At
    <2> SUFFICES ASSUME NEW p \in Client \ raced'
                 PROVE  /\ client'[p].ready /\ ~At(p, {"assign", "unready"})'
                             => client'[p].rpc = client'[p].addr
                        /\ \A u \in Thread : thread'[u].obj = p /\ ~At(p, {"assign"})' =>
                             /\ thread'[u].pc = "swap" => thread'[u].addr = client'[p].addr
                             /\ thread'[u].pc = "ready" => client'[p].rpc = client'[p].addr
      BY Zenon DEF Fresh
    <2>4. CASE p = o BY <1>3, <1>r, <2>2, <2>3, <2>4
    <2>5. CASE p # o
      <3>1. \A u \in Thread : thread'[u].obj = p \/ thread[u].obj = p => thread'[u] = thread[u]
        BY <1>3, <1>r, <2>5, Zenon
      <3>2. /\ At(p, {"assign"})' <=> At(p, {"assign"})
            /\ At(p, {"assign", "unready"})' <=> At(p, {"assign", "unready"})
        BY <3>1, Zenon DEF At
      <3> QED BY <1>3, <2>1, <2>5, <3>1, <3>2 DEF Inv, Fresh
    <2> QED BY <2>4, <2>5, Zenon
  <1>6. ASSUME ~hurried' PROVE Sound'
    <2>1. Sound /\ ~panicked' BY <1>6, <1>u, Zenon DEF Inv, Sound
    <2> QED BY <1>0, <1>1, <1>2, <1>3, <1>r, <2>1 DEF Sound, Closing, Holding
  <1> QED BY <1>3, <1>4, <1>5, <1>6, Zenon DEF Inv

LEMMA AddInv == ASSUME Inv, NEW t \in Thread, AddBroker(t) PROVE Inv'
  <1>0. thread[t].pc = "join" /\ thread[t].addr \in Address
    BY Zenon DEF AddBroker, Inv, Types, ThreadRec, Bringing
  <1>u. UNCHANGED <<user, key, events, peer, count, raced, hurried, panicked>>
    BY Zenon DEF AddBroker, etcd, aux, spoilt
  <1>1. CASE peer # 0 /\ UNCHANGED <<client, made>>
             /\ thread' = [thread EXCEPT ![t].pc = "update", ![t].obj = peer]
    <2>0. peer \in 1..made /\ peer \in Nat BY <1>1 DEF Inv, Types
    <2> DEFINE r == [thread[t] EXCEPT !.pc = "update", !.obj = peer]
    <2>1. /\ r \in ThreadRec /\ r.pc = "update" /\ r.obj = peer /\ r.addr = thread[t].addr
          /\ thread' = [thread EXCEPT ![t] = r]
      BY <1>1, <2>0, Zenon DEF Inv, Types, ThreadRec, Working
    <2> HIDE DEF r
    <2> QED BY <1>0, <1>1, <1>u, <2>0, <2>1, Constants, Move, Zenon
            DEF Inv, Types, Working, Holding, Closing, Bringing
  <1>2. CASE New(t)
    <2> DEFINE o == made + 1
               c == newPeerClient(thread[t].addr)
               r == [thread[t] EXCEPT !.pc = "set", !.obj = o]
    <2>1. o \in Client /\ o \in Nat /\ made' = o /\ o \in 1..made' /\ made' \in 0..MaxClients
      BY <1>2, Constants DEF New, Inv, Types, Client
    <2>2. /\ c \in ClientRec /\ ~c.ready /\ c.addr # None
          /\ client' = [client EXCEPT ![o] = c]
      BY <1>0, <1>2, Constants, Zenon DEF New, ClientRec, newPeerClient
    <2>3. /\ r \in ThreadRec /\ r.pc = "set" /\ r.obj = o /\ r.addr = thread[t].addr
          /\ thread' = [thread EXCEPT ![t] = r]
      BY <1>2, <2>1, Zenon DEF New, Inv, Types, ThreadRec, Working
    <2> HIDE DEF c, r
    <2>4. /\ \A u \in Thread : thread'[u] = IF u = t THEN r ELSE thread[u]
          /\ \A p \in Client : client'[p] = IF p = o THEN c ELSE client[p]
          /\ thread' \in [Thread -> ThreadRec] /\ client' \in [Client -> ClientRec]
      BY <2>1, <2>2, <2>3, Zenon DEF Inv, Types
    <2>5. \A u \in Thread : thread[u].obj \in 0..made /\ thread[u].obj # o
      BY DEF Inv, Types
    <2>6. Types'
      <3>1. peer' \in 0..made' /\ (user' = "program" => made' # 0)
        BY <1>u, <2>1 DEF Inv, Types
      <3>2. \A p \in Client : /\ p <= made' => client'[p].addr # None
                              /\ p > made' => ~client'[p].ready
        BY <2>1, <2>2, <2>4, Constants DEF Inv, Types
      <3>3. \A u \in Thread : /\ thread'[u].pc \in Working => thread'[u].obj \in 1..made'
                              /\ thread'[u].pc \notin Working => thread'[u].obj = 0
                              /\ thread'[u].pc \in Bringing => thread'[u].addr # None
                              /\ thread'[u].pc = "unset" <=> u >= 4 + count'.failures
        BY <1>0, <1>u, <2>1, <2>3, <2>4, Constants DEF Inv, Types, Working, Bringing
      <3> QED BY <1>u, <2>1, <2>4, <3>1, <3>2, <3>3, Zenon DEF Inv, Types
    <2>7. Exclusive' BY <2>3, <2>4 DEF Inv, Exclusive, Holding
    <2>8. Fresh'
      <3> SUFFICES ASSUME NEW p \in Client \ raced
                   PROVE  /\ client'[p].ready /\ ~At(p, {"assign", "unready"})'
                               => client'[p].rpc = client'[p].addr
                          /\ \A u \in Thread : thread'[u].obj = p /\ ~At(p, {"assign"})' =>
                               /\ thread'[u].pc = "swap" => thread'[u].addr = client'[p].addr
                               /\ thread'[u].pc = "ready" => client'[p].rpc = client'[p].addr
        BY <1>u, Zenon DEF Fresh
      <3>1. CASE p = o BY <2>2, <2>3, <2>4, <2>5, <3>1, Zenon
      <3>2. CASE p # o
        <4>1. /\ At(p, {"assign"}) => At(p, {"assign"})'
              /\ At(p, {"assign", "unready"}) => At(p, {"assign", "unready"})'
          BY <1>0, <2>4, Zenon DEF At
        <4> QED BY <2>3, <2>4, <3>2, <4>1 DEF Inv, Fresh
      <3> QED BY <3>1, <3>2, Zenon
    <2>9. ASSUME ~hurried' PROVE Sound'
      <3>1. Sound /\ ~panicked' BY <1>u, <2>9, Zenon DEF Inv, Sound
      <3>2. \A u \in Thread : thread[u].pc \in Closing => 1 # o
        BY <2>5, <3>1, Zenon DEF Sound
      <3>4. \A p \in Client : client'[p].ready => client'[p].live /\ client'[p].rpc # None
        BY <2>2, <2>4, <3>1, Zenon DEF Sound
      <3>5. ASSUME NEW u \in Thread
            PROVE  /\ thread'[u].pc = "ready" =>
                        client'[thread'[u].obj].live /\ client'[thread'[u].obj].rpc # None
                   /\ thread'[u].pc = "call" => client'[thread'[u].obj].rpc # None
        <4>1. CASE u = t BY <2>3, <2>4, <4>1, Zenon
        <4>2. CASE u # t
          <5>1. thread[u].pc \in {"ready", "call"} => thread[u].obj \in Client
            BY Constants DEF Inv, Types, Working, Holding, Client
          <5> QED BY <2>4, <2>5, <3>1, <4>2, <5>1 DEF Sound
        <4> QED BY <4>1, <4>2, Zenon
      <3>6. ASSUME NEW u \in Thread, thread'[u].pc \in Closing
            PROVE  /\ thread'[u].obj = 1 /\ ~client'[1].ready
                   /\ \A v \in Thread \ {u} : thread'[v].obj = 1 => thread'[v].pc \notin Holding \cup Closing
                   /\ thread'[u].pc \in {"hang", "forget"} => client'[1].held
        <4>1. u # t /\ thread[u].pc \in Closing /\ thread[u].obj = 1 /\ 1 # o
          BY <2>3, <2>4, <3>1, <3>2, <3>6, Zenon DEF Closing, Sound
        <4> QED BY <2>3, <2>4, <3>1, <4>1, Constants DEF Sound, Holding, Closing
      <3> QED BY <3>1, <3>4, <3>5, <3>6, Zenon DEF Sound, Closing
    <2> QED BY <2>6, <2>7, <2>8, <2>9, Zenon DEF Inv
  <1> QED BY <1>1, <1>2, Zenon DEF AddBroker

(* The timer of a failed dial is the next that is unset.                   *)
LEMMA RetryInv == ASSUME Inv, NEW t \in Thread, Retry(t) PROVE Inv'
  <1> DEFINE q == 4 + count.failures
             o == thread[t].obj
             r == [Rest EXCEPT !.pc = "armed", !.obj = o]
  <1>0. thread[t].pc = "dial" /\ count.failures < MaxFailures BY Zenon DEF Retry
  <1>1. q \in Thread /\ thread[q].pc = "unset" /\ q # t /\ thread[q].obj = 0
    <2>1. count.failures \in Nat /\ MaxFailures \in Nat BY Constants DEF Inv, Types, CountRec
    <2>2. q \in Thread /\ q >= 4 + count.failures BY <1>0, <2>1 DEF Thread
    <2>3. thread[q].pc = "unset" BY <2>2, Zenon DEF Inv, Types
    <2> HIDE DEF q
    <2>4. thread[q].obj = 0
      BY <2>2, <2>3, Zenon DEF Inv, Types, Working, Holding, Closing
    <2> QED BY <1>0, <2>2, <2>3, <2>4, Zenon
  <1>2. o \in 1..made /\ o \in Nat BY <1>0 DEF Inv, Types, Working, Holding
  <1>3. r \in ThreadRec /\ r.pc = "armed" /\ r.obj = o
    BY <1>2, Zenon DEF Rest, ThreadRec, Working
  <1>4. thread' = [[thread EXCEPT ![t] = Rest] EXCEPT ![q] = r]
    BY Zenon DEF Retry
  <1>u. UNCHANGED <<user, key, events, made, peer, client, raced, hurried, panicked>>
    BY Zenon DEF Retry, etcd, aux, spoilt
  <1> HIDE DEF r
  <1>5. /\ \A u \in Thread : thread'[u] = IF u = q THEN r ELSE IF u = t THEN Rest ELSE thread[u]
        /\ thread' \in [Thread -> ThreadRec]
    BY <1>1, <1>3, <1>4, RestType, Zenon DEF Inv, Types
  <1>6. count' \in CountRec /\ count'.failures = count.failures + 1
    <2>1. count \in CountRec /\ count.failures + 1 \in 0..MaxFailures
      BY <1>0, Constants DEF Inv, Types, CountRec
    <2>2. count' = [count EXCEPT !.failures = count.failures + 1] BY Zenon DEF Retry
    <2> QED BY <2>1, <2>2, Zenon DEF CountRec
  <1>7. Types'
    <2>1. \A u \in Thread : thread'[u].pc = "unset" <=> u >= 4 + count'.failures
      <3> SUFFICES ASSUME NEW u \in Thread PROVE thread'[u].pc = "unset" <=> u >= 4 + count'.failures
        OBVIOUS
      <3>1. u \in Nat /\ count.failures \in Nat
        BY Constants DEF Inv, Types, CountRec
      <3>2. thread[u].pc = "unset" <=> u >= q BY Zenon DEF Inv, Types
      <3>3. t < q BY <1>0, Constants DEF Inv, Types, CountRec
      <3>4. thread'[u].pc = "unset" <=> thread[u].pc = "unset" /\ u # q
        BY <1>0, <1>1, <1>3, <1>5, RestType, Zenon
      <3> QED BY <1>6, <3>1, <3>2, <3>4
    <2>2. \A u \in Thread : /\ thread'[u].pc \in Working => thread'[u].obj \in 1..made
                            /\ thread'[u].pc \notin Working => thread'[u].obj = 0
                            /\ thread'[u].pc \in Bringing => thread'[u].addr # None
      BY <1>2, <1>3, <1>5, RestType DEF Inv, Types, Working, Holding, Closing, Bringing
    <2> QED BY <1>5, <1>6, <1>u, <2>1, <2>2, Zenon DEF Inv, Types
  <1>8. \A u \in Thread : thread'[u].pc \in Holding \cup Closing \cup {"assign", "unready", "call"}
                            => thread'[u] = thread[u]
    BY <1>3, <1>5, RestType, Zenon DEF Holding, Closing
  <1>9. Exclusive' BY <1>8, Zenon DEF Inv, Exclusive
  <1>10. Fresh'
    <2>1. \A p : /\ At(p, {"assign"}) => At(p, {"assign"})'
                 /\ At(p, {"assign", "unready"}) => At(p, {"assign", "unready"})'
      BY <1>0, <1>1, <1>5, Zenon DEF At
    <2> QED BY <1>8, <1>u, <2>1 DEF Inv, Fresh, Holding
  <1>11. ASSUME ~hurried' PROVE Sound'
    <2>1. Sound /\ ~panicked' BY <1>11, <1>u, Zenon DEF Inv, Sound
    <2> QED BY <1>8, <1>u, <2>1 DEF Sound, Holding, Closing
  <1> QED BY <1>7, <1>9, <1>10, <1>11 DEF Inv

(* A program begins a call of its client.                                  *)
LEMMA ProgramStep ==
  ASSUME Inv, NEW t \in Thread, NEW pc \in {"call", "lock", "check"}, Program(t, pc)
  PROVE  /\ made \in 1..MaxClients /\ 1 \in 1..made
         /\ thread[t].pc = "rest" /\ thread[t].obj = 0
         /\ count' \in CountRec /\ count'.failures = count.failures
         /\ [Rest EXCEPT !.pc = pc, !.obj = 1] \in ThreadRec
         /\ thread' = [thread EXCEPT ![t] = [Rest EXCEPT !.pc = pc, !.obj = 1]]
  <1>1. made \in 1..MaxClients /\ 1 \in 1..made BY Constants DEF Program, Inv, Types
  <1>2. thread[t].pc = "rest" /\ thread[t].obj = 0 BY RestType, Zenon DEF Program
  <1>3. count' \in CountRec /\ count'.failures = count.failures
    BY DEF Program, Inv, Types, CountRec
  <1>4. [Rest EXCEPT !.pc = pc, !.obj = 1] \in ThreadRec
    BY Zenon DEF Rest, ThreadRec, Working, Closing
  <1> QED BY <1>1, <1>2, <1>3, <1>4, Zenon DEF Program

LEMMA ApiInv == ASSUME Inv, NEW t \in Thread, apiCall(t) \/ apiConnect(t) PROVE Inv'
  <1>u. UNCHANGED <<user, key, events, made, peer, client, raced, hurried, panicked>>
    BY Zenon DEF apiCall, apiConnect, etcd, aux, spoilt
  <1>1. ASSUME NEW pc \in {"call", "lock"}, Program(t, pc), pc = "call" => client[1].ready
        PROVE  Inv'
    <2> DEFINE r == [Rest EXCEPT !.pc = pc, !.obj = 1]
    <2>1. r.pc = pc /\ r.obj = 1 BY Zenon DEF Rest
    <2>2. /\ 1 \in 1..made /\ thread[t].pc = "rest" /\ r \in ThreadRec
          /\ thread' = [thread EXCEPT ![t] = r]
          /\ count' \in CountRec /\ count'.failures = count.failures
      BY <1>1, ProgramStep, Zenon
    <2> HIDE DEF r
    <2> QED BY <1>u, <1>1, <2>1, <2>2, Move, Zenon DEF Inv, Types, Working, Holding, Closing, Bringing
  <1> QED BY <1>1, Zenon DEF apiCall, apiConnect

LEMMA CloseInv == ASSUME Inv, NEW t \in Thread, Close(t) PROVE Inv'
  <1> DEFINE c == [client[1] EXCEPT !.ready = FALSE]
             r == [Rest EXCEPT !.pc = "check", !.obj = 1]
  <1>1. /\ 1 \in 1..made /\ 1 <= made /\ made \in Nat /\ thread[t].pc = "rest" /\ r \in ThreadRec
        /\ thread' = [thread EXCEPT ![t] = r]
        /\ count' \in CountRec /\ count'.failures = count.failures
    BY ProgramStep DEF Close
  <1>2. r.pc = "check" /\ r.obj = 1 BY Zenon DEF Rest
  <1>3. /\ c \in ClientRec /\ c.ready = FALSE /\ c.addr = client[1].addr /\ c.rpc = client[1].rpc
        /\ c.live = client[1].live /\ c.held = client[1].held
        /\ client' = [client EXCEPT ![1] = c]
    BY Constants, ZenonT(40) DEF Inv, Types, ClientRec, Close
  <1>u. UNCHANGED <<user, key, events, made, peer, raced, panicked>>
    BY Zenon DEF Close, etcd
  <1> HIDE DEF c, r
  <1>4. /\ Types'
        /\ \A u \in Thread : thread'[u] = IF u = t THEN r ELSE thread[u]
        /\ \A p \in Client : client'[p] = IF p = 1 THEN c ELSE client[p]
    <2>1. c.addr # None /\ 1 \in Client BY <1>1, <1>3, Constants, Zenon DEF Inv, Types
    <2> QED BY <1>1, <1>2, <1>3, <1>u, <2>1, ClientTypes, ZenonT(40) DEF Working, Closing, Bringing
  <1>5. Exclusive'
    <2>1. r.pc \notin Holding BY <1>2, Zenon DEF Holding
    <2>2. Exclusive BY Zenon DEF Inv
    <2> QED BY <1>4, <2>1, <2>2, Zenon DEF Exclusive
  <1>6. Fresh'
    <2>1. thread[t].pc \notin {"assign", "unready"} BY <1>1, Zenon
    <2>2. r.pc \notin {"swap", "ready"} /\ ~c.ready /\ raced' = raced BY <1>2, <1>3, <1>u, Zenon
    <2>3. 1 \in Client /\ c.addr = client[1].addr /\ c.rpc = client[1].rpc BY <1>3, Constants, Zenon
    <2>4. /\ \A u \in Thread : thread'[u] = IF u = t THEN r ELSE thread[u]
          /\ \A p \in Client : client'[p] = IF p = 1 THEN c ELSE client[p]
      BY <1>4, Zenon
    <2>5. c.ready => client[1].ready BY <2>2, Zenon
    <2>6. thread[t].pc # "assign" /\ (thread[t].pc = "unready" => thread[t].obj = 1 /\ ~c.ready) BY <2>1, Zenon
    <2> QED BY <2>2, <2>3, <2>4, <2>5, <2>6, FreshKept
  <1>7. ASSUME ~hurried' PROVE Sound'
    <2>1. /\ Sound /\ ~panicked'
          /\ \A u \in Thread \ {t} : thread[u].obj = 1 => thread[u].pc \notin Holding \cup Closing
      <3>1. ~hurried /\ Others(t, 1, {"dial", "swap", "ready", "check", "hang", "forget"}) = {}
        BY <1>7, Zenon DEF Close, Overlap
      <3> QED BY <1>u, <3>1, Zenon DEF Inv, Sound, Others, Holding, Closing
    <2> QED BY <1>2, <1>3, <1>4, <2>1, Constants DEF Sound, Closing, Holding
  <1> QED BY <1>4, <1>5, <1>6, <1>7, Zenon DEF Inv

(* The steps of a Close, each of which touches client 1 alone.             *)
LEMMA HangUp ==
  ASSUME Inv, NEW t \in Thread, thread[t].pc \in Closing,
         NEW c \in ClientRec, NEW r \in ThreadRec,
         client' = [client EXCEPT ![1] = c], thread' = [thread EXCEPT ![t] = r],
         UNCHANGED <<user, key, events, made, peer, count, raced, hurried>>,
         c.ready = client[1].ready, c.addr = client[1].addr, c.rpc = client[1].rpc,
         \/ r.pc = "rest" /\ r.obj = 0
         \/ /\ r.pc \in {"hang", "forget"} /\ r.obj = thread[t].obj
            /\ ~hurried => c.held,
         ~hurried => ~panicked'
  PROVE  Inv'
  <1>1. 1 <= made /\ c.addr # None /\ count \in CountRec /\ 1 \in Client /\ made \in Nat
    <2>1. thread[t].obj \in 1..made BY Zenon DEF Inv, Types, Working
    <2>2. 1 <= made /\ made \in Nat BY <2>1 DEF Inv, Types
    <2> QED BY <2>2, Constants, Zenon DEF Inv, Types
  <1>2. /\ Types'
        /\ \A u \in Thread : thread'[u] = IF u = t THEN r ELSE thread[u]
        /\ \A p \in Client : client'[p] = IF p = 1 THEN c ELSE client[p]
    <2>1. /\ r.pc \in Working => r.obj \in 1..made
          /\ r.pc \notin Working => r.obj = 0
          /\ r.pc \notin Bringing
          /\ r.pc # "unset" /\ thread[t].pc # "unset"
      BY Zenon DEF Inv, Types, Working, Holding, Closing, Bringing
    <2> QED BY <1>1, <2>1, ClientTypes, ZenonT(40)
  <1>3. Exclusive' BY <1>2 DEF Inv, Exclusive, Holding
  <1>4. Fresh'
    <2>1. r.pc \notin {"swap", "ready"} /\ thread[t].pc \notin {"assign", "unready"} BY Zenon DEF Closing
    <2> QED BY <1>1, <1>2, <2>1, FreshKept
  <1>5. ASSUME ~hurried' PROVE Sound'
    <2>1. Sound /\ ~panicked' BY <1>5, Zenon DEF Inv
    <2>2. /\ thread[t].obj = 1 /\ ~client[1].ready
          /\ \A u \in Thread \ {t} : thread[u].obj = 1 => thread[u].pc \notin Holding \cup Closing
      BY <2>1, Zenon DEF Sound
    <2>3. \A u \in Thread \ {t} : thread[u].pc \notin Closing BY <2>1, <2>2, Zenon DEF Sound
    <2>4. ASSUME NEW u \in Thread
          PROVE  /\ thread'[u].pc = "ready" =>
                      client'[thread'[u].obj].live /\ client'[thread'[u].obj].rpc # None
                 /\ thread'[u].pc = "call" => client'[thread'[u].obj].rpc # None
      <3>1. CASE u = t BY <1>2, <3>1, Zenon
      <3>2. CASE u # t
        <4>1. thread[u].pc \in {"ready", "call"} => thread[u].obj \in Client
          BY Constants DEF Inv, Types, Working, Holding, Client
        <4>2. thread[u].pc = "ready" => thread[u].obj # 1 BY <2>2, <3>2, Zenon DEF Holding
        <4> QED BY <1>2, <2>1, <3>2, <4>1, <4>2 DEF Sound
      <3> QED BY <3>1, <3>2, Zenon
    <2>5. ASSUME NEW u \in Thread, thread'[u].pc \in Closing
          PROVE  /\ thread'[u].obj = 1 /\ ~client'[1].ready
                 /\ \A v \in Thread \ {u} : thread'[v].obj = 1 => thread'[v].pc \notin Holding \cup Closing
                 /\ client'[1].held
      <3>1. u = t /\ r.pc \in {"hang", "forget"} /\ r.obj = 1 /\ c.held
        BY <1>2, <1>5, <2>2, <2>3, <2>5, Zenon DEF Closing
      <3> QED BY <1>1, <1>2, <2>2, <3>1
    <2>6. \A p \in Client : client'[p].ready => client'[p].live /\ client'[p].rpc # None
      BY <1>2, <2>1, <2>2 DEF Sound
    <2> QED BY <2>1, <2>4, <2>5, <2>6, Zenon DEF Sound, Closing
  <1> QED BY <1>2, <1>3, <1>4, <1>5, Zenon DEF Inv

LEMMA CloseConnInv == ASSUME Inv, NEW t \in Thread, CloseConn(t) PROVE Inv'
  <1>u. UNCHANGED <<user, key, events, made, peer, count, raced, hurried>>
    BY Zenon DEF CloseConn, etcd, aux, spoilt
  <1>0. 1 \in Client /\ client[1] \in ClientRec /\ client = [client EXCEPT ![1] = client[1]]
    BY Constants, Zenon DEF Inv, Types
  <1>1. ASSUME NEW pc \in {"hang", "forget"}, Goto(t, pc)
        PROVE  /\ [thread[t] EXCEPT !.pc = pc] \in ThreadRec
               /\ [thread[t] EXCEPT !.pc = pc].pc = pc
               /\ [thread[t] EXCEPT !.pc = pc].obj = thread[t].obj
               /\ thread' = [thread EXCEPT ![t] = [thread[t] EXCEPT !.pc = pc]]
    BY <1>1, Zenon DEF Goto, Inv, Types, ThreadRec, Working, Closing
  <1>2. ~hurried => ~panicked BY Zenon DEF Inv, Sound
  <1>3. CASE thread[t].pc = "check"
    <2>1. UNCHANGED <<client, panicked>> BY <1>3, Zenon DEF CloseConn
    <2>2. CASE Done(t)
      BY <1>0, <1>2, <1>3, <1>u, <2>1, <2>2, HangUp, RestType, Zenon DEF Done, Closing
    <2>3. CASE client[1].held /\ Goto(t, "hang")
      <3> DEFINE r == [thread[t] EXCEPT !.pc = "hang"]
      <3>1. /\ r \in ThreadRec /\ r.pc = "hang" /\ r.obj = thread[t].obj
            /\ thread' = [thread EXCEPT ![t] = r]
        BY <1>1, <2>3, Zenon
      <3> HIDE DEF r
      <3> QED BY <1>0, <1>2, <1>3, <1>u, <2>1, <2>3, <3>1, HangUp, Zenon DEF Closing
    <2> QED BY <1>3, <2>2, <2>3, Zenon DEF CloseConn
  <1>4. CASE thread[t].pc = "hang"
    <2> DEFINE r == [thread[t] EXCEPT !.pc = "forget"]
               c == [client[1] EXCEPT !.live = FALSE]
    <2>1. /\ r \in ThreadRec /\ r.pc = "forget" /\ r.obj = thread[t].obj
          /\ thread' = [thread EXCEPT ![t] = r]
      BY <1>1, <1>4, Zenon DEF CloseConn
    <2>2. ~hurried => client[1].held BY <1>4, Zenon DEF Inv, Sound
    <2>3. CASE client[1].held
      <3>1. /\ c \in ClientRec /\ c.ready = client[1].ready /\ c.addr = client[1].addr
            /\ c.rpc = client[1].rpc /\ c.held = client[1].held
        BY <1>0, Zenon DEF ClientRec
      <3>2. client' = [client EXCEPT ![1] = c] /\ panicked' = panicked
        BY <1>4, <2>3, Zenon DEF CloseConn
      <3> HIDE DEF r, c
      <3> QED BY <1>2, <1>4, <1>u, <2>1, <2>3, <3>1, <3>2, HangUp, Zenon DEF Closing
    <2>4. CASE ~client[1].held
      <3>1. hurried /\ client' = client BY <1>4, <2>2, <2>4, Zenon DEF CloseConn
      <3> HIDE DEF r
      <3> QED BY <1>0, <1>4, <1>u, <2>1, <3>1, HangUp, Zenon DEF Closing
    <2> QED BY <2>3, <2>4, Zenon
  <1>5. CASE thread[t].pc = "forget"
    <2> DEFINE c == [client[1] EXCEPT !.held = FALSE]
    <2>1. /\ c \in ClientRec /\ c.ready = client[1].ready /\ c.addr = client[1].addr
          /\ c.rpc = client[1].rpc /\ client' = [client EXCEPT ![1] = c]
          /\ panicked' = panicked /\ thread' = [thread EXCEPT ![t] = Rest]
      BY <1>0, <1>5, Zenon DEF ClientRec, CloseConn, Done
    <2> HIDE DEF c
    <2> QED BY <1>2, <1>5, <1>u, <2>1, HangUp, RestType, Zenon DEF Closing
  <1> QED BY <1>3, <1>4, <1>5, Zenon DEF CloseConn

LEMMA NextInv == ASSUME Inv, [Next]_vars PROVE Inv'
  <1>1. CASE UNCHANGED vars
    BY <1>1, ZenonT(40) DEF vars, etcd, aux, spoilt, Inv, Types, Exclusive, Fresh, Sound, At
  <1>2. CASE Etcd \/ Loops BY <1>2, EtcdInv, LoopInv, Zenon DEF Loops
  <1>3. ASSUME NEW t \in Thread, Step(t) PROVE Inv'
    BY <1>3, AddInv, WalkInv, AssignInv, UnreadyInv, ConnectInv, DialInv, RetryInv, ReconnectInv,
       ReadyInv, CloseConnInv, Zenon DEF Step
  <1>4. ASSUME NEW t \in Thread, apiCall(t) \/ apiConnect(t) \/ Close(t) PROVE Inv'
    BY <1>4, ApiInv, CloseInv, Zenon
  <1> QED BY <1>1, <1>2, <1>3, <1>4, Zenon DEF Next

LEMMA Invariance == Spec => []Inv
  BY InitInv, NextInv, PTL DEF Spec

(* A ready client nobody is working on is connected to the address of the  *)
(* last updateAddr, unless that came while connect was dialling.           *)
THEOREM ConnectedToItsAddress == Spec => []ConnectedWhereTold
  <1>1. Inv => ConnectedWhereTold
    <2> SUFFICES ASSUME Inv, NEW o \in Client \ raced, client[o].ready, Quiet(o)
                 PROVE  client[o].rpc = client[o].addr
      BY Zenon DEF ConnectedWhereTold
    <2>1. ~At(o, {"assign", "unready"}) BY Zenon DEF Quiet, At
    <2> QED BY <2>1, ZenonT(40) DEF Inv, Fresh
  <1> QED BY <1>1, Invariance, PTL

(* Without a Close that overlaps a Connect or another Close, no call       *)
(* panics, and a ready client has an open connection.                      *)
THEOREM UsableUnlessHurried == Spec => []ReadyIsUsable
  <1>1. Inv => ReadyIsUsable BY Zenon DEF Inv, Sound, ReadyIsUsable
  <1> QED BY <1>1, Invariance, PTL
=============================================================================
