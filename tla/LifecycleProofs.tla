--------------------------- MODULE LifecycleProofs ---------------------------
(***************************************************************************)
(* For any number of connections, client ids, operations and servers: the  *)
(* count of a server's map is exact, the flag of a listener tells the      *)
(* truth, a stop closes what it found, and the process's Shutdown waits    *)
(* for the proposals of its own closes, with the exceptions that the       *)
(* properties of Lifecycle name.                                           *)
(***************************************************************************)
EXTENDS LifecycleInv, TLAPS

-----------------------------------------------------------------------------
(***************************************************************************)
(* The steps of Start, of the stops and of the ranges over the connections.*)
(***************************************************************************)

(* A Close begins, of a connection that is not closed.                     *)
LEMMA ClaimTurn ==
  ASSUME Base, NEW k \in Conn, conn[k].login \in Logged, NEW a \in Conn \cup Op,
         conn[k].close = "no", conn' = Claim(k, a)
  PROVE  \E r : /\ Calm(k, r) /\ r.by = a /\ r.lost = conn[k].lost /\ r.close = "delete"
                /\ r.old = conn[k].old
  <1> DEFINE r == [conn[k] EXCEPT !.close = "delete", !.by = a]
  <1>1. conn[k] \in ConnRec /\ ConnOK(conn[k]) BY Zenon DEF Base, Types, Links
  <1>2. /\ r \in ConnRec /\ r.login = conn[k].login /\ r.close = "delete" /\ r.srv = conn[k].srv
        /\ r.cid = conn[k].cid /\ r.old = conn[k].old /\ r.by = a /\ r.lost = conn[k].lost
    BY <1>1, Zenon DEF ConnRec
  <1>3. conn' = [conn EXCEPT ![k] = r] BY Zenon DEF Claim, Base, Types, ConnRec
  <1> HIDE DEF r
  <1>4. Turn(k, r) BY <1>1, <1>2, <1>3, Zenon DEF Turn, ConnOK, Logged
  <1>5. Uncounted(k, r) /\ KeepsOld(k, r)
    BY <1>1, <1>2, Zenon DEF Uncounted, KeepsOld, KeepsWord, ConnOK
  <1> QED BY <1>2, <1>4, <1>5, Zenon DEF Calm

LEMMA TurnValue ==
  ASSUME Base, NEW k \in Conn, NEW r, Turn(k, r)
  PROVE  /\ conn' \in [Conn -> ConnRec] /\ conn'[k] = r
         /\ \A j \in Conn \ {k} : conn'[j] = conn[j]
  BY Zenon DEF Base, Types, Turn

(* What has a server, a client id, a login and a Close under way keeps it. *)
LEMMA TurnKeeps ==
  ASSUME Base, NEW k \in Conn, NEW r, Turn(k, r), NEW j \in Conn
  PROVE  /\ conn[j].login # "new" => conn'[j].srv = conn[j].srv /\ conn'[j].cid = conn[j].cid
         /\ conn[j].login \in Logged => conn'[j].login \in Logged
         /\ conn[j].close # "no" => conn'[j].close # "no"
  BY TurnValue, Zenon DEF Turn

LEMMA TurnLinks ==
  ASSUME Base, NEW k \in Conn, NEW r, Turn(k, r), KeepsOld(k, r), UNCHANGED conns
  PROVE  Links'
  <1>1. \A j \in Conn : ConnOK(conn'[j])
    BY TurnValue, Zenon DEF Turn, Base, Links
  <1>2. ASSUME NEW j \in Conn, conn'[j].old # None PROVE conn'[conn'[j].old].login \in Logged
    <2>1. conn'[j].old = conn[j].old BY <1>2, TurnValue, Zenon DEF KeepsOld
    <2>2. conn[j].old \in Conn /\ conn[conn[j].old].login \in Logged
      BY <1>2, <2>1 DEF Base, Types, Links, ConnRec
    <2> QED BY <2>1, <2>2, TurnKeeps, Zenon
  <1>3. ASSUME NEW s \in Server, NEW c \in Cid, conns[s][c] # None
        PROVE  /\ conn'[conns[s][c]].srv = s /\ conn'[conns[s][c]].cid = c
               /\ conn'[conns[s][c]].login \in Logged
    <2>1. conns[s][c] \in Conn BY <1>3 DEF Base, Types
    <2>2. /\ conn[conns[s][c]].srv = s /\ conn[conns[s][c]].cid = c
          /\ conn[conns[s][c]].login \in Logged
      BY <1>3, Zenon DEF Base, Links
    <2> QED BY <2>1, <2>2, TurnKeeps, Zenon DEF Logged
  <1> QED BY <1>1, <1>2, <1>3, Zenon DEF Links

LEMMA TurnCount ==
  ASSUME Base, CountInv, NEW k \in Conn, NEW r, Turn(k, r), Uncounted(k, r),
         UNCHANGED <<conns, length, torn>>
  PROVE  CountInv'
  <1> SUFFICES ASSUME NEW s \in Server \ torn PROVE Counted(s)' BY Zenon DEF CountInv
  <1>1. Keys(s)' = Keys(s) BY Zenon DEF Keys
  <1>2. ConnOK(conn[k]) BY Zenon DEF Base, Links
  <1>3. Adding(s)' = Adding(s) BY <1>2, TurnValue DEF Adding, Turn, Uncounted
  <1>4. Deleting(s)' = Deleting(s) BY <1>2, TurnValue DEF Deleting, Turn, Uncounted, ConnOK
  <1> QED BY <1>1, <1>3, <1>4, Zenon DEF CountInv, Counted

(* What was taken out of the map stays out.                                *)
LEMMA TurnGone ==
  ASSUME Base, NEW k \in Conn, NEW r, Turn(k, r), KeepsOld(k, r),
         \A p \in Op : op'[p].dropped = op[p].dropped, NEW o \in Op,
         NEW j \in Conn, conn[j].login \in Logged, Gone(o, j)
  PROVE  Gone(o, j)'
  <1>1. CASE conn[j].close # "no" BY <1>1, TurnKeeps, Zenon DEF Gone
  <1>2. CASE \E p \in Op \ {o} : j \in op[p].dropped BY <1>2, Zenon DEF Gone
  <1>3. CASE Taken(j) /\ conn[j].close = "no"
    <2>1. PICK i \in Conn \ {j} : /\ conn[i].srv = conn[j].srv /\ conn[i].cid = conn[j].cid
                                  /\ conn[i].old = j \/ conn[i].close # "no"
      BY <1>3, Zenon DEF Taken
    <2>2. conn[i].login # "new"
      BY <2>1, LifecycleAssumption DEF Base, Links, ConnOK
    <2>3. conn'[i].srv = conn'[j].srv /\ conn'[i].cid = conn'[j].cid
      BY <2>1, <2>2, TurnKeeps, Zenon DEF Logged
    <2>4. conn'[i].old = j \/ conn'[i].close # "no"
      BY <1>3, <2>1, TurnValue, TurnKeeps DEF KeepsOld
    <2> QED BY <2>3, <2>4, Zenon DEF Gone, Taken
  <1> QED BY <1>1, <1>2, <1>3, Zenon DEF Gone

LEMMA FlagKept ==
  ASSUME ~rash => FlagInv, UNCHANGED <<flag, net, op, aux, panicked>>
  PROVE  ~rash' => FlagInv'
  BY DEF FlagInv, Starting, Stopping, Serving, flag, net, aux

-----------------------------------------------------------------------------
(***************************************************************************)
(* The steps of an operation.                                              *)
(***************************************************************************)

LEMMA MoveValue ==
  ASSUME Base, NEW o \in Op, NEW q, Move(o, q)
  PROVE  /\ op' \in [Op -> OpRec] /\ op'[o] = q
         /\ \A p \in Op \ {o} : op'[p] = op[p]
  BY Zenon DEF Base, Types, Move

LEMMA MoveStages == ASSUME Base, NEW o \in Op, NEW q, Move(o, q) PROVE Stages'
  BY MoveValue, Zenon DEF Base, Stages, Move

LEMMA MoveExpel ==
  ASSUME Base, ExpelInv, NEW o \in Op, NEW q, Move(o, q), Unranged(o, q), UNCHANGED <<conn, conns>>
  PROVE  ExpelInv'
  <1>1. \A p \in Op : op'[p].began = op[p].began /\ op'[p].dropped = op[p].dropped
    BY MoveValue, Zenon DEF Unranged
  <1>2. \A p \in Op, k \in Conn : Gone(p, k) => Gone(p, k)' BY <1>1, Zenon DEF Gone, Taken
  <1>3. \A p \in Op, k \in Conn : Ahead(p, k) => Ahead(p, k)'
    BY MoveValue DEF Unranged, Ahead
  <1>4. \A p \in Op : op[p].began \subseteq Conn BY Zenon DEF Base, Types, OpRec
  <1> QED BY <1>1, <1>2, <1>3, <1>4, Zenon DEF ExpelInv

LEMMA MoveShut ==
  ASSUME Base, ShutInv, NEW o \in Op, NEW q, Move(o, q), Says(q), UNCHANGED conn
  PROVE  ShutInv'
  <1>1. op[o].pc = "new" => op[o].kind = "start" BY Zenon DEF Base, Stages, OpOK
  <1>2. \A p \in Op : /\ op[p].pc # "new" => op'[p].pc # "new" /\ op'[p].kind = op[p].kind
                      /\ op[p].pc = "done" => op'[p] = op[p]
                      /\ op[p].kind = "remove" => op'[p].kind = "remove"
    BY <1>1, MoveValue, Zenon DEF Move
  <1>3. \A p1, p2 \in Op : op'[p1].kind = "shutdown" /\ op'[p2].kind = "shutdown" => p1 = p2
    BY MoveValue DEF Move, ShutInv
  <1>4. ASSUME NEW k \in Conn, conn[k].by \in Op
        PROVE  /\ op'[conn[k].by].pc # "new"
               /\ conn[k].close # "done" =>
                    op'[conn[k].by].pc \in {"range", "loop"} /\ op'[conn[k].by].waits = k
    <2>1. CASE conn[k].close = "done" BY <1>2, <1>4, <2>1, Zenon DEF ShutInv
    <2>2. CASE conn[k].close # "done"
      <3>1. op[conn[k].by].pc \in {"range", "loop"} /\ op[conn[k].by].waits = k
        BY <1>4, <2>2, Zenon DEF ShutInv
      <3>2. conn[k].by # o BY <2>2, <3>1, LifecycleAssumption, Zenon DEF Move, Free
      <3> QED BY <1>4, <3>1, <3>2, MoveValue, Zenon
    <2> QED BY <2>1, <2>2, Zenon
  <1>5. GoodbyesSaid'
    <2> SUFFICES ASSUME NEW k \in Conn, conn[k].by \in Op, op'[conn[k].by].kind = "shutdown",
                        conn[k].lost
                 PROVE  \E p \in Op : op'[p].kind = "remove"
      BY Zenon DEF GoodbyesSaid
    <2>1. op[conn[k].by].kind = "shutdown" BY <1>2, Zenon DEF ShutInv
    <2> QED BY <1>2, <2>1, Zenon DEF ShutInv, GoodbyesSaid
  <1>6. raft' = "removed" => \E p \in Op : op'[p].kind = "remove"
    BY <1>2, MoveValue DEF Says, ShutInv
  <1>7. raft' = "stopped" => \E p \in Op : op'[p].kind = "shutdown" /\ op'[p].pc = "done"
    BY <1>2, MoveValue DEF Says, ShutInv
  <1> QED BY <1>3, <1>4, <1>5, <1>6, <1>7, Zenon DEF ShutInv

(* An operation that leaves the connections alone keeps all but what is    *)
(* said of the flag.                                                       *)
LEMMA MoveInv ==
  ASSUME Inv, NEW o \in Op, NEW q, Move(o, q), Unranged(o, q), Types', ~rash' => FlagInv',
         Says(q), UNCHANGED <<conn, conns, length, torn>>
  PROVE  Inv'
  <1> USE DEF Inv
  <1>1. Links' BY Zenon DEF Base, Links
  <1>2. CountInv' BY Zenon DEF CountInv, Counted, Keys, Adding, Deleting
  <1> QED BY <1>1, <1>2, MoveStages, MoveExpel, MoveShut, Zenon DEF Base

(* The first step of a Start takes the flag, if it is free.                *)
LEMMA StartCasInv == ASSUME Inv, NEW o \in Op, StartCas(o) PROVE Inv'
  <1> DEFINE q == [op[o] EXCEPT !.pc = IF started THEN "done" ELSE "make"]
  <1> USE DEF Inv
  <1>1. op[o] \in OpRec /\ OpOK(op[o]) /\ op[o].pc = "new" BY Zenon DEF Base, Types, Stages, StartCas
  <1>2. /\ q \in OpRec /\ q.pc = (IF started THEN "done" ELSE "make") /\ q.kind = op[o].kind
        /\ q.seen = op[o].seen /\ q.began = op[o].began /\ q.waits = op[o].waits
        /\ q.dropped = op[o].dropped
    BY <1>1, Zenon DEF OpRec
  <1>3. op' = [op EXCEPT ![o] = q] BY Zenon DEF StartCas, Base, Types, OpRec
  <1> HIDE DEF q
  <1>4. Move(o, q) /\ Unranged(o, q) BY <1>1, <1>2, <1>3, Zenon DEF Move, OpOK, Unranged
  <1>5. Types' BY <1>2, <1>4, MoveValue, Zenon DEF StartCas, Base, Types, net
  <1>6. ASSUME ~rash' PROVE FlagInv'
    <2>1. ~rash /\ FlagInv /\ (~started => Stopping = {}) BY <1>6, Zenon DEF StartCas, Base, Types
    <2>2. o \notin Starting \cup Stopping BY <1>1, Zenon DEF Starting, Stopping
    <2>3. CASE started
      <3>1. Starting' = Starting /\ Stopping' = Stopping
        BY <1>2, <1>4, <2>2, <2>3, MoveValue DEF Starting, Stopping
      <3>2. \A p \in Op : op'[p].pc \in {"make", "store"} => op'[p].pc = op[p].pc
        BY <1>2, <1>4, <2>3, MoveValue, Zenon
      <3> QED BY <2>1, <2>3, <3>1, <3>2, Zenon DEF FlagInv, Serving, StartCas, net
    <2>4. CASE ~started
      <3>1. Starting = {} BY <2>1, <2>4, Zenon DEF FlagInv, Starting
      <3>2. Starting' = {o} /\ Stopping' = {}
        BY <1>2, <1>4, <2>1, <2>4, <3>1, MoveValue DEF Starting, Stopping
      <3>3. \A p \in Op : op'[p].pc \in {"make", "store"} => p = o /\ op'[p].pc = "make"
        BY <1>2, <2>4, <1>4, <3>2, MoveValue DEF Starting
      <3>4. ~Serving BY <2>1, <2>4, <3>1, Zenon DEF FlagInv
      <3> QED BY <2>1, <2>4, <3>2, <3>3, <3>4, Zenon DEF FlagInv, Serving, StartCas, net
    <2> QED BY <2>3, <2>4, Zenon
  <1> QED BY <1>4, <1>5, <1>6, MoveInv, Zenon DEF StartCas, Says

(* The server that a Start makes is new, so it is not closed.              *)
LEMMA MakeInv == ASSUME Inv, ~panicked, NEW o \in Op, Make(o) PROVE Inv'
  <1> DEFINE q == [op[o] EXCEPT !.pc = "store"]
  <1> USE DEF Inv
  <1>1. op[o] \in OpRec /\ OpOK(op[o]) /\ op[o].pc = "make" BY Zenon DEF Base, Types, Stages, Make
  <1>2. /\ q \in OpRec /\ q.pc = "store" /\ q.kind = op[o].kind
        /\ q.seen = op[o].seen /\ q.began = op[o].began /\ q.waits = op[o].waits
        /\ q.dropped = op[o].dropped
    BY <1>1, Zenon DEF OpRec
  <1>3. op' = [op EXCEPT ![o] = q] BY Zenon DEF Make, Base, Types, OpRec
  <1> HIDE DEF q
  <1>4. Move(o, q) /\ Unranged(o, q) BY <1>1, <1>2, <1>3, Zenon DEF Move, OpOK, Unranged
  <1>5. made \in Nat /\ made' = made + 1 /\ current' = made' /\ made' \in Server
        /\ shut \subseteq 1..made
    BY LifecycleAssumption DEF Make, Base, Types, Server
  <1>6. listen' \in [Server -> {"none", "made", "listening", "ended"}]
    BY <1>5, Zenon DEF Make, Base, Types
  <1>7. Types'
    <2>1. made' \in 0..MaxServers /\ shut \subseteq 1..made' /\ made' # 0
      BY <1>5, LifecycleAssumption DEF Server
    <2> QED BY <1>4, <1>5, <1>6, <2>1, MoveValue, Zenon DEF Make, Base, Types, aux
  <1>8. ASSUME ~rash' PROVE FlagInv'
    <2>1. FlagInv BY <1>8, Zenon DEF Make, aux
    <2>2. Starting = {o} /\ Stopping = {} BY <1>1, <2>1, Zenon DEF FlagInv, Starting, Stopping
    <2>3. Starting' = {o} /\ Stopping' = {}
      BY <1>2, <1>4, <2>2, MoveValue DEF Starting, Stopping
    <2>4. \A p \in Op : op'[p].pc \in {"make", "store"} => p = o /\ op'[p].pc = "store"
      BY <1>2, <1>4, <2>3, MoveValue DEF Starting
    <2>5. Serving' BY <1>5 DEF Serving, Make
    <2>6. started' BY <1>1, <2>1, Zenon DEF FlagInv, Make
    <2> QED BY <2>3, <2>4, <2>5, <2>6, Zenon DEF FlagInv, Make
  <1> QED BY <1>4, <1>7, <1>8, MoveInv, Zenon DEF Make, Says, aux

LEMMA StoreInv == ASSUME Inv, NEW o \in Op, Store(o) PROVE Inv'
  <1> DEFINE q == [op[o] EXCEPT !.pc = "done"]
  <1> USE DEF Inv
  <1>1. op[o] \in OpRec /\ OpOK(op[o]) /\ op[o].pc = "store" BY Zenon DEF Base, Types, Stages, Store
  <1>2. /\ q \in OpRec /\ q.pc = "done" /\ q.kind = op[o].kind
        /\ q.began = op[o].began /\ q.dropped = op[o].dropped
    BY <1>1, Zenon DEF OpRec
  <1>3. op' = [op EXCEPT ![o] = q] BY Zenon DEF Store, Base, Types, OpRec
  <1> HIDE DEF q
  <1>4. Move(o, q) /\ Unranged(o, q) BY <1>1, <1>2, <1>3, Zenon DEF Move, OpOK, Unranged
  <1>5. Types' BY <1>2, <1>4, MoveValue, Zenon DEF Store, Base, Types, net, aux
  <1>6. ASSUME ~rash' PROVE FlagInv'
    <2>1. FlagInv BY <1>6, Zenon DEF Store, aux
    <2>2. Starting = {o} /\ Stopping = {} BY <1>1, <2>1 DEF FlagInv, Starting, Stopping
    <2>3. Starting' = {} /\ Stopping' = {}
      BY <1>1, <1>2, <1>4, <2>2, MoveValue DEF Starting, Stopping, OpOK
    <2>4. \A p \in Op : op'[p].pc \notin {"make", "store"} BY <2>3, Zenon DEF Starting
    <2>5. Serving /\ started' BY <1>1, <2>1, Zenon DEF FlagInv, Store
    <2> QED BY <2>1, <2>3, <2>4, <2>5, Zenon DEF FlagInv, Serving, Store, net
  <1> QED BY <1>4, <1>5, <1>6, MoveInv, Zenon DEF Store, Says, aux

(* A server that a stop has still to close is listening already.           *)
LEMMA ListenInv == ASSUME Inv, NEW s \in Server, Listen(s) PROVE Inv'
  <1> USE DEF Inv
  <1>1. /\ listen' \in [Server -> {"none", "made", "listening", "ended"}]
        /\ \A t \in Server \ {s} : listen'[t] = listen[t]
    BY Zenon DEF Listen, Base, Types
  <1>2. Types' BY <1>1, Zenon DEF Listen, Base, Types, flag, aux
  <1>l. Links' /\ Stages' BY Zenon DEF Listen, Base, Links, Stages
  <1>e. ExpelInv' BY DEF Listen, ExpelInv, Gone, Taken, Ahead
  <1>s. ShutInv' BY Zenon DEF Listen, ShutInv, GoodbyesSaid
  <1>3. Links' /\ Stages' /\ ExpelInv' /\ ShutInv' BY <1>l, <1>e, <1>s
  <1>4. CountInv' BY ZenonT(40) DEF Listen, CountInv, Counted, Keys, Adding, Deleting, aux
  <1>5. ASSUME ~rash' PROVE FlagInv'
    <2>1. FlagInv BY <1>5, Zenon DEF Listen, aux
    <2>2. Starting' = Starting /\ Stopping' = Stopping /\ Serving' = Serving
      BY Zenon DEF Listen, Starting, Stopping, Serving, flag
    <2>3. Stopping # {} => listen'[current] = "listening"
      BY <1>1, <2>1 DEF FlagInv, Listen, Serving, Base, Types, Server
    <2> QED BY <2>1, <2>2, <2>3, Zenon DEF FlagInv, Listen, flag
  <1> QED BY <1>2, <1>3, <1>4, <1>5, Zenon DEF Base

(* An operation that is, or is not, among those that exclude each other    *)
(* before and after the step.                                              *)
LEMMA MoveFlag ==
  ASSUME Base, FlagInv, NEW o \in Op, NEW q, Move(o, q), UNCHANGED <<flag, net>>,
         panicked' => made = 0, op[o].pc \notin {"make", "store"}, q.pc \notin {"make", "store"},
         o \in Stopping <=>
           q.kind \in {"stop", "shutdown"} /\ q.pc \in {"expel", "range", "close"}
  PROVE  FlagInv'
  <1>1. Starting' = Starting BY MoveValue, Zenon DEF Starting
  <1>2. Stopping' = Stopping BY MoveValue DEF Stopping
  <1>3. \A p \in Op : op'[p].pc \in {"make", "store"} => op'[p].pc = op[p].pc BY MoveValue, Zenon
  <1> QED BY <1>1, <1>2, <1>3, Zenon DEF FlagInv, Serving, flag, net

(* A stop that is not rash finds a server that listens.                    *)
LEMMA StopCasInv ==
  ASSUME Inv, NEW o \in Op, NEW kind \in {"stop", "shutdown"}, StopCas(o, kind) PROVE Inv'
  <1> DEFINE q == [op[o] EXCEPT !.kind = kind, !.pc = "expel"]
  <1> USE DEF Inv
  <1>1. op[o] \in OpRec /\ OpOK(op[o]) /\ op[o].pc = "new"
    BY Zenon DEF Base, Types, Stages, StopCas, MayBegin
  <1>2. /\ q \in OpRec /\ q.pc = "expel" /\ q.kind = kind
        /\ q.seen = op[o].seen /\ q.began = op[o].began /\ q.waits = op[o].waits
        /\ q.dropped = op[o].dropped
    BY <1>1, Zenon DEF OpRec
  <1>3. op' = [op EXCEPT ![o] = q] BY Zenon DEF StopCas, Base, Types, OpRec
  <1> HIDE DEF q
  <1>4. Move(o, q) /\ Unranged(o, q)
    BY <1>1, <1>2, <1>3, Zenon DEF Move, OpOK, Unranged, StopCas, MayBegin
  <1>5. Types' BY <1>2, <1>4, MoveValue, Zenon DEF StopCas, Base, Types, net
  <1>6. ASSUME ~rash' PROVE FlagInv'
    <2>1. ~rash /\ FlagInv /\ Steady /\ started BY <1>6, Zenon DEF StopCas, Base, Types
    <2>2. Starting = {} /\ Stopping = {} BY <2>1, Zenon DEF FlagInv, Steady, Starting
    <2>3. Starting' = {} /\ Stopping' = {o}
      BY <1>2, <1>4, <2>2, MoveValue DEF Starting, Stopping
    <2>4. \A p \in Op : op'[p].pc \notin {"make", "store"} BY <2>3, Zenon DEF Starting
    <2>5. Serving BY <2>1, <2>2, Zenon DEF FlagInv
    <2> QED BY <2>1, <2>3, <2>4, <2>5, Zenon DEF FlagInv, Serving, Steady, StopCas, net
  <1> QED BY <1>4, <1>5, <1>6, MoveInv, Zenon DEF StopCas, Says

LEMMA ShutdownUnstartedInv == ASSUME Inv, NEW o \in Op, ShutdownUnstarted(o) PROVE Inv'
  <1> DEFINE q == [op[o] EXCEPT !.kind = "shutdown", !.pc = "cluster"]
  <1> USE DEF Inv
  <1>1. op[o] \in OpRec /\ OpOK(op[o]) /\ op[o].pc = "new"
    BY Zenon DEF Base, Types, Stages, ShutdownUnstarted, MayBegin
  <1>2. /\ q \in OpRec /\ q.pc = "cluster" /\ q.kind = "shutdown"
        /\ q.began = op[o].began /\ q.dropped = op[o].dropped
    BY <1>1, Zenon DEF OpRec
  <1>3. op' = [op EXCEPT ![o] = q] BY Zenon DEF ShutdownUnstarted, Base, Types, OpRec
  <1> HIDE DEF q
  <1>4. Move(o, q) /\ Unranged(o, q)
    BY <1>1, <1>2, <1>3, Zenon DEF Move, OpOK, Unranged, ShutdownUnstarted, MayBegin
  <1>5. Types' BY <1>2, <1>4, MoveValue, Zenon DEF ShutdownUnstarted, Base, Types, flag, net, aux
  <1>6. ASSUME ~rash' PROVE FlagInv'
    <2>1. FlagInv BY <1>6, Zenon DEF ShutdownUnstarted, aux
    <2>2. o \notin Stopping BY <1>1, Zenon DEF Stopping
    <2> QED BY <1>1, <1>2, <1>4, <2>1, <2>2, MoveFlag, Zenon DEF ShutdownUnstarted, FlagInv
  <1> QED BY <1>4, <1>5, <1>6, MoveInv, Zenon DEF ShutdownUnstarted, Says, aux

LEMMA RemoveSelfInv == ASSUME Inv, NEW o \in Op, RemoveSelf(o) PROVE Inv'
  <1> DEFINE q == [op[o] EXCEPT !.kind = "remove", !.pc = "expel"]
  <1> USE DEF Inv
  <1>1. op[o] \in OpRec /\ OpOK(op[o]) /\ op[o].pc = "new"
    BY Zenon DEF Base, Types, Stages, RemoveSelf
  <1>2. /\ q \in OpRec /\ q.pc = "expel" /\ q.kind = "remove"
        /\ q.seen = op[o].seen /\ q.began = op[o].began /\ q.waits = op[o].waits
        /\ q.dropped = op[o].dropped
    BY <1>1, Zenon DEF OpRec
  <1>3. op' = [op EXCEPT ![o] = q] BY Zenon DEF RemoveSelf, Base, Types, OpRec
  <1> HIDE DEF q
  <1>4. Move(o, q) /\ Unranged(o, q) BY <1>1, <1>2, <1>3, Zenon DEF Move, OpOK, Unranged
  <1>5. Types' BY <1>2, <1>4, MoveValue, Zenon DEF RemoveSelf, Base, Types, flag, net, aux
  <1>6. ASSUME ~rash' PROVE FlagInv'
    <2>1. FlagInv BY <1>6, Zenon DEF RemoveSelf, aux
    <2>2. o \notin Stopping BY <1>1 DEF Stopping
    <2> QED BY <1>1, <1>2, <1>4, <2>1, <2>2, MoveFlag, Zenon DEF RemoveSelf, FlagInv
  <1> QED BY <1>2, <1>4, <1>5, <1>6, MoveInv, Zenon DEF RemoveSelf, Says, aux

LEMMA StopClusterInv == ASSUME Inv, NEW o \in Op, StopCluster(o) PROVE Inv'
  <1> DEFINE q == [op[o] EXCEPT !.pc = "done"]
  <1> USE DEF Inv
  <1>1. op[o] \in OpRec /\ OpOK(op[o]) /\ op[o].pc = "cluster"
    BY Zenon DEF Base, Types, Stages, StopCluster
  <1>2. /\ q \in OpRec /\ q.pc = "done" /\ q.kind = op[o].kind
        /\ q.began = op[o].began /\ q.dropped = op[o].dropped
    BY <1>1, Zenon DEF OpRec
  <1>3. op' = [op EXCEPT ![o] = q] BY Zenon DEF StopCluster, Base, Types, OpRec
  <1> HIDE DEF q
  <1>4. Move(o, q) /\ Unranged(o, q) /\ q.kind = "shutdown"
    BY <1>1, <1>2, <1>3, Zenon DEF Move, OpOK, Unranged
  <1>5. Types' BY <1>2, <1>4, MoveValue, Zenon DEF StopCluster, Base, Types, flag, net, aux
  <1>6. ASSUME ~rash' PROVE FlagInv'
    <2>1. FlagInv BY <1>6, Zenon DEF StopCluster, aux
    <2>2. o \notin Stopping BY <1>1, Zenon DEF Stopping
    <2> QED BY <1>1, <1>2, <1>4, <2>1, <2>2, MoveFlag, Zenon DEF StopCluster, FlagInv
  <1> QED BY <1>2, <1>4, <1>5, <1>6, MoveInv, Zenon DEF StopCluster, Says, aux

(* Under the flag's protection a stop closes a server that is not closed,  *)
(* and then the flag tells the truth.                                      *)
LEMMA CloseServerInv == ASSUME Inv, NEW o \in Op, CloseServer(o) PROVE Inv'
  <1> USE DEF Inv
  <1>1. /\ op[o] \in OpRec /\ OpOK(op[o]) /\ op[o].pc = "close"
        /\ current \in Server /\ current \in 1..made /\ Keys(current) \subseteq Cid
        /\ op[o].kind \in {"stop", "shutdown"} /\ o \in Stopping
    <2>1. op[o] \in OpRec /\ OpOK(op[o]) /\ op[o].pc = "close" /\ made # 0
      BY Zenon DEF Base, Types, Stages, CloseServer
    <2>2. op[o].kind \in {"stop", "shutdown"} BY <2>1, Zenon DEF OpRec, OpOK
    <2> QED BY <2>1, <2>2, LifecycleAssumption DEF Base, Types, Server, Keys, Stopping
  <1>2. CASE current \in shut
    <2> DEFINE q == [op[o] EXCEPT !.pc = After(o)]
    <2>1. /\ q \in OpRec /\ q.pc = After(o) /\ q.kind = op[o].kind
          /\ q.began = op[o].began /\ q.dropped = op[o].dropped
      BY <1>1, Zenon DEF OpRec, After
    <2>2. op' = [op EXCEPT ![o] = q] /\ UNCHANGED <<net, panicked>>
      BY <1>2, Zenon DEF CloseServer, Base, Types, OpRec
    <2> HIDE DEF q
    <2>3. Move(o, q) /\ Unranged(o, q)
      BY <1>1, <2>1, <2>2, Zenon DEF Move, OpOK, Unranged, After
    <2>4. Types' BY <2>1, <2>2, <2>3, MoveValue, Zenon DEF CloseServer, Base, Types, flag, net, aux, After
    <2>5. ASSUME ~rash' PROVE FALSE
      <3>1. FlagInv BY <2>5, Zenon DEF CloseServer, aux
      <3> QED BY <1>1, <1>2, <3>1, Zenon DEF FlagInv, Serving
    <2> QED BY <2>3, <2>4, <2>5, MoveInv, Zenon DEF CloseServer, Says, aux
  <1>3. CASE current \notin shut
    <2> DEFINE q == [op[o] EXCEPT !.pc = "loop", !.srv = current, !.must = Keys(current),
                                  !.seen = {}, !.active = FALSE]
    <2>1. /\ q \in OpRec /\ q.pc = "loop" /\ q.kind = op[o].kind /\ q.srv = current
          /\ q.began = op[o].began /\ q.dropped = op[o].dropped
      BY <1>1, Zenon DEF OpRec
    <2>2. /\ op' = [op EXCEPT ![o] = q] /\ shut' = shut \cup {current}
          /\ panicked' = (listen[current] # "listening")
          /\ listen' \in [Server -> {"none", "made", "listening", "ended"}]
      BY <1>1, <1>3, Zenon DEF CloseServer, Base, Types, OpRec
    <2> HIDE DEF q
    <2>3. Move(o, q) /\ Unranged(o, q)
      BY <1>1, <2>1, <2>2, Zenon DEF Move, OpOK, Unranged
    <2>4. Types'
      BY <1>1, <2>1, <2>2, <2>3, MoveValue, Zenon DEF CloseServer, Base, Types, flag, aux
    <2>5. ASSUME ~rash' PROVE FlagInv'
      <3>1. FlagInv BY <2>5 DEF CloseServer, aux
      <3>2. Starting = {} /\ Stopping = {o} BY <1>1, <3>1, Zenon DEF FlagInv, Starting, Stopping
      <3>3. Starting' = {} /\ Stopping' = {}
        BY <2>1, <2>3, <3>2, MoveValue DEF Starting, Stopping
      <3>4. \A p \in Op : op'[p].pc \notin {"make", "store"} BY <3>3 DEF Starting
      <3>5. ~started /\ ~panicked' BY <1>1, <2>2, <3>1, Zenon DEF FlagInv
      <3>6. ~Serving' BY <2>2, Zenon DEF Serving, CloseServer, flag
      <3> QED BY <3>3, <3>4, <3>5, <3>6, Zenon DEF FlagInv, CloseServer, flag
    <2> QED BY <2>3, <2>4, <2>5, MoveInv, Zenon DEF CloseServer, Says, aux
  <1> QED BY <1>2, <1>3, Zenon

LEMMA EndPassInv == ASSUME Inv, NEW o \in Op, EndPass(o) PROVE Inv'
  <1> USE DEF Inv
  <1>1. /\ op[o] \in OpRec /\ OpOK(op[o]) /\ op[o].pc = "loop" /\ Free(o) /\ made # 0
        /\ Keys(op[o].srv) \subseteq Cid /\ op[o].kind \in {"stop", "shutdown"}
    <2>1. op[o] \in OpRec /\ OpOK(op[o]) /\ op[o].pc = "loop" /\ Free(o) /\ made # 0
      BY Zenon DEF Base, Types, Stages, EndPass, Ranged
    <2> QED BY <2>1, Zenon DEF OpRec, OpOK, Keys
  <1>2. \E q : /\ Move(o, q) /\ Unranged(o, q) /\ q.kind = op[o].kind
               /\ q.pc \in {"loop", "cluster", "done"}
    <2>1. CASE op' = [op EXCEPT ![o].must = Keys(op[o].srv), ![o].seen = {}, ![o].active = FALSE,
                                ![o].waits = None]
      <3> DEFINE q == [op[o] EXCEPT !.must = Keys(op[o].srv), !.seen = {}, !.active = FALSE,
                                    !.waits = None]
      <3>1. /\ q \in OpRec /\ q.pc = "loop" /\ q.kind = op[o].kind /\ q.srv = op[o].srv
            /\ q.began = op[o].began /\ q.dropped = op[o].dropped
        BY <1>1, Zenon DEF OpRec
      <3>2. op' = [op EXCEPT ![o] = q] BY <2>1, Zenon DEF Base, Types, OpRec
      <3> HIDE DEF q
      <3> QED BY <1>1, <3>1, <3>2, Zenon DEF Move, OpOK, Unranged
    <2>2. CASE op' = [op EXCEPT ![o].pc = After(o), ![o].must = {}, ![o].seen = {},
                                ![o].active = FALSE, ![o].waits = None]
      <3> DEFINE q == [op[o] EXCEPT !.pc = After(o), !.must = {}, !.seen = {},
                                    !.active = FALSE, !.waits = None]
      <3>1. /\ q \in OpRec /\ q.pc = After(o) /\ q.kind = op[o].kind
            /\ q.began = op[o].began /\ q.dropped = op[o].dropped
        BY <1>1, Zenon DEF OpRec, After
      <3>2. op' = [op EXCEPT ![o] = q] BY <2>2, Zenon DEF Base, Types, OpRec
      <3> HIDE DEF q
      <3> QED BY <1>1, <3>1, <3>2, Zenon DEF Move, OpOK, Unranged, After
    <2> QED BY <2>1, <2>2, Zenon DEF EndPass
  <1>3. PICK q : /\ Move(o, q) /\ Unranged(o, q) /\ q.kind = op[o].kind
                 /\ q.pc \in {"loop", "cluster", "done"}
    BY <1>2, Zenon
  <1>4. Types' BY <1>1, <1>3, MoveValue, Zenon DEF EndPass, Base, Types, flag, net, aux
  <1>5. ASSUME ~rash' PROVE FlagInv'
    <2>1. FlagInv BY <1>5, Zenon DEF EndPass, aux
    <2>2. o \notin Stopping BY <1>1, Zenon DEF Stopping
    <2> QED BY <1>1, <1>3, <2>1, <2>2, MoveFlag, Zenon DEF EndPass, FlagInv
  <1> QED BY <1>3, <1>4, <1>5, MoveInv, Zenon DEF EndPass, Says, aux

(* ExpelAllConns has every connection of the map ahead of it.              *)
LEMMA ExpelStepInv == ASSUME Inv, NEW o \in Op, Expel(o) PROVE Inv'
  <1> USE DEF Inv
  <1>1. op[o] \in OpRec /\ OpOK(op[o]) /\ op[o].pc = "expel" /\ current = made
    BY Zenon DEF Base, Types, Stages, Expel
  <1>2. CASE current = 0
    <2>1. panicked' = TRUE /\ UNCHANGED op BY <1>2, Zenon DEF Expel
    <2>2. Types' BY <2>1, Zenon DEF Expel, Base, Types, flag, net, aux
    <2>3. Links' /\ Stages' /\ ExpelInv' /\ ShutInv'
      BY <2>1 DEF Expel, Base, Links, Stages, ExpelInv, ShutInv, Gone, Taken, Ahead, GoodbyesSaid
    <2>4. CountInv' BY Zenon DEF Expel, CountInv, Counted, Keys, Adding, Deleting, aux
    <2>5. ~rash' => FlagInv'
      BY <1>1, <1>2, <2>1, Zenon DEF Expel, FlagInv, Starting, Stopping, Serving, flag, net, aux
    <2> QED BY <2>2, <2>3, <2>4, <2>5, Zenon DEF Base
  <1>3. CASE current # 0
    <2> DEFINE q == [op[o] EXCEPT !.pc = "range", !.srv = current, !.must = Keys(current),
                                  !.began = {conns[current][c] : c \in Keys(current)}]
    <2>1. /\ current \in Server /\ Keys(current) \subseteq Cid
          /\ {conns[current][c] : c \in Keys(current)} \subseteq Conn
      BY <1>1, <1>3, LifecycleAssumption DEF Base, Types, Server, Keys
    <2>2. /\ q \in OpRec /\ q.pc = "range" /\ q.kind = op[o].kind /\ q.srv = current
          /\ q.began = {conns[current][c] : c \in Keys(current)} /\ q.must = Keys(current)
          /\ q.seen = op[o].seen /\ q.dropped = op[o].dropped
      BY <1>1, <2>1, Zenon DEF OpRec
    <2>3. op' = [op EXCEPT ![o] = q] /\ UNCHANGED panicked
      BY <1>3, Zenon DEF Expel, Base, Types, OpRec
    <2> HIDE DEF q
    <2>4. Move(o, q) BY <1>1, <2>1, <2>2, <2>3, Zenon DEF Move, OpOK
    <2>5. Types' BY <1>1, <1>3, <2>2, <2>3, <2>4, MoveValue, Zenon DEF Expel, Base, Types, flag, net, aux
    <2>6. Links' /\ Stages' BY <2>4, MoveStages DEF Expel, Base, Links
    <2>7. CountInv' BY Zenon DEF Expel, CountInv, Counted, Keys, Adding, Deleting, aux
    <2>8. ShutInv' BY <2>4, MoveShut, Zenon DEF Expel, Says
    <2>9. ~rash' => FlagInv'
      <3>1. o \in Stopping <=> op[o].kind \in {"stop", "shutdown"} BY <1>1, Zenon DEF Stopping
      <3> QED BY <1>1, <2>2, <2>3, <2>4, <3>1, MoveFlag, Zenon DEF Expel, FlagInv, aux
    <2>10. ExpelInv'
      <3>1. \A p \in Op : op'[p].dropped = op[p].dropped BY <2>2, <2>4, MoveValue
      <3>2. ASSUME NEW p \in Op \ {o}, NEW k \in op[p].began
            PROVE  conn[k].login \in Logged /\ (Gone(p, k)' \/ Ahead(p, k)')
        BY <2>4, <3>1, MoveValue DEF ExpelInv, Gone, Taken, Ahead, Expel
      <3>3. ASSUME NEW k \in q.began PROVE conn[k].login \in Logged /\ Ahead(o, k)'
        <4>1. PICK c \in Keys(current) : k = conns[current][c] BY <2>2, <3>3, Zenon
        <4>2. /\ conn[k].login \in Logged /\ conn[k].srv = current /\ conn[k].cid = c
              /\ c \in Cid
          BY <2>1, <4>1, Zenon DEF Keys, Base, Links
        <4> QED BY <1>1, <2>2, <2>4, <4>1, <4>2, MoveValue, Zenon DEF Ahead, OpOK, Expel
      <3> QED BY <2>4, <3>2, <3>3, MoveValue DEF ExpelInv, Expel
    <2> QED BY <2>5, <2>6, <2>7, <2>8, <2>9, <2>10, Zenon DEF Base
  <1> QED BY <1>2, <1>3, Zenon

(* A range that visits a connection closes it, unless it is closed; the    *)
(* connection it replaces, if any, keeps being about to be closed.         *)
LEMMA VisitInv == ASSUME Inv, NEW o \in Op, NEW c \in Cid, Visit(o, c) PROVE Inv'
  <1> USE DEF Inv
  <1>0. conns[op[o].srv][c] \in Conn
    <2>1. op[o] \in OpRec /\ OpOK(op[o]) /\ op[o].pc \in {"range", "loop"}
      BY Zenon DEF Base, Types, Stages, Visit
    <2> QED BY <2>1 DEF OpOK, Base, Types, Visit
  <1>1. PICK k \in Conn : k = conns[op[o].srv][c] BY <1>0, Zenon
  <1>2. /\ op[o] \in OpRec /\ OpOK(op[o]) /\ op[o].pc \in {"range", "loop"} /\ Free(o)
        /\ op[o].srv \in Server /\ conn[k].srv = op[o].srv /\ conn[k].cid = c
        /\ conn[k].login \in Logged /\ ConnOK(conn[k]) /\ made # 0
    <2>1. op[o] \in OpRec /\ OpOK(op[o]) /\ op[o].pc \in {"range", "loop"} /\ Free(o)
      BY Zenon DEF Base, Types, Stages, Visit
    <2>2. op[o].srv \in Server BY <2>1, Zenon DEF OpOK
    <2> QED BY <1>1, <2>1, <2>2, LifecycleAssumption DEF Base, Types, Links
  <1>3. UNCHANGED <<flag, net, conns, length, raft, aux, panicked>> BY Zenon DEF Visit
  <1> DEFINE Looks(q) == /\ Move(o, q) /\ q.pc = op[o].pc /\ q.kind = op[o].kind
                         /\ q.srv = op[o].srv /\ q.must = op[o].must
                         /\ q.seen = op[o].seen \cup {c}
                         /\ q.began = op[o].began /\ q.dropped = op[o].dropped
  <1>4. \E q : /\ Looks(q)
               /\ \/ UNCHANGED conn /\ (op[o].pc = "loop" \/ conn[k].close # "no")
                  \/ conn[k].close = "no" /\ conn' = Claim(k, o) /\ q.waits = k
    <2>1. CASE op[o].pc = "loop" /\ conn[k].busy
      <3> DEFINE q == [op[o] EXCEPT !.seen = @ \cup {c}, !.active = TRUE]
      <3>1. /\ q \in OpRec /\ q.pc = op[o].pc /\ q.kind = op[o].kind /\ q.srv = op[o].srv
            /\ q.must = op[o].must /\ q.seen = op[o].seen \cup {c}
            /\ q.began = op[o].began /\ q.dropped = op[o].dropped
        BY <1>2, Zenon DEF OpRec
      <3>2. op' = [op EXCEPT ![o] = q] /\ UNCHANGED conn
        BY <1>1, <2>1, Zenon DEF Visit, Base, Types, OpRec
      <3> HIDE DEF q
      <3>3. Move(o, q) BY <1>2, <2>1, <3>1, <3>2, Zenon DEF Move, OpOK
      <3> QED BY <2>1, <3>1, <3>2, <3>3, Zenon
    <2>2. CASE ~(op[o].pc = "loop" /\ conn[k].busy)
      <3> DEFINE w == IF conn[k].close = "no" THEN k ELSE None
                 q == [op[o] EXCEPT !.seen = @ \cup {c}, !.waits = w]
      <3>1. /\ q \in OpRec /\ q.pc = op[o].pc /\ q.kind = op[o].kind /\ q.srv = op[o].srv
            /\ q.must = op[o].must /\ q.seen = op[o].seen \cup {c} /\ q.waits = w
            /\ q.began = op[o].began /\ q.dropped = op[o].dropped
        BY <1>2, Zenon DEF OpRec
      <3>2. op' = [op EXCEPT ![o] = q] /\ conn' = Claim(k, o)
        BY <1>1, <2>2, Zenon DEF Visit, Base, Types, OpRec
      <3> HIDE DEF q
      <3>3. Move(o, q) BY <1>2, <3>1, <3>2, Zenon DEF Move, OpOK
      <3> QED BY <3>1, <3>2, <3>3, Zenon DEF Claim
    <2> QED BY <2>1, <2>2, Zenon
  <1>5. PICK q : /\ Looks(q)
                 /\ \/ UNCHANGED conn /\ (op[o].pc = "loop" \/ conn[k].close # "no")
                    \/ conn[k].close = "no" /\ conn' = Claim(k, o) /\ q.waits = k
    BY <1>4, Zenon
  <1>6. /\ Move(o, q) /\ op' \in [Op -> OpRec] /\ op'[o] = q
        /\ \A p \in Op \ {o} : op'[p] = op[p]
        /\ \A p \in Op : /\ op'[p].began = op[p].began /\ op'[p].dropped = op[p].dropped
                         /\ op'[p].pc = op[p].pc /\ op'[p].kind = op[p].kind
                         /\ op'[p].srv = op[p].srv /\ op'[p].must = op[p].must
    <2>1. Move(o, q) BY <1>5, Zenon
    <2> QED BY <1>5, <2>1, MoveValue
  <1>7. /\ Stages'
        /\ conn' \in [Conn -> ConnRec] => Types'
    <2>1. made' = made /\ \A p \in Op : op'[p].pc \in {"range", "close", "loop"} => made' # 0
      BY <1>2, <1>3, Zenon DEF net, flag
    <2> QED BY <1>3, <1>6, <2>1, MoveStages, Zenon DEF Base, Types, flag, net, aux
  <1>8. ~rash' => FlagInv'
    BY <1>3, <1>6 DEF FlagInv, Starting, Stopping, Serving, flag, net, aux
  <1>9. CASE UNCHANGED conn /\ (op[o].pc = "loop" \/ conn[k].close # "no")
    <2>1. Types' BY <1>7, <1>9, Zenon DEF Base, Types
    <2>2. Links' BY <1>3, <1>9 DEF Base, Links
    <2>3. CountInv' BY <1>3, <1>9, Zenon DEF CountInv, Counted, Keys, Adding, Deleting, aux
    <2>4. ShutInv' BY <1>3, <1>6, <1>9, MoveShut, Zenon DEF Says
    <2>5. ExpelInv'
      <3> SUFFICES ASSUME NEW p \in Op, NEW j \in op[p].began
                   PROVE  conn[j].login \in Logged /\ (Gone(p, j)' \/ Ahead(p, j)')
        BY <1>6, <1>9, Zenon DEF ExpelInv
      <3>1. j \in Conn /\ conn[j].login \in Logged /\ (Gone(p, j) \/ Ahead(p, j))
        BY Zenon DEF ExpelInv, Base, Types, OpRec
      <3>2. Gone(p, j) => Gone(p, j)' BY <1>6, <1>9, Zenon DEF Gone, Taken
      <3>3. CASE Ahead(p, j) /\ p = o /\ conn[j].cid = c
        <4>1. j = k /\ op[o].pc = "range" BY <1>1, <3>3, Zenon DEF Ahead
        <4> QED BY <1>9, <3>1, <4>1, Zenon DEF Gone
      <3>4. CASE Ahead(p, j) /\ ~(p = o /\ conn[j].cid = c)
        BY <1>3, <1>5, <1>6, <1>9, <3>1, <3>4, Zenon DEF Ahead
      <3> QED BY <3>1, <3>2, <3>3, <3>4, Zenon
    <2> QED BY <1>7, <1>8, <2>1, <2>2, <2>3, <2>4, <2>5, Zenon DEF Base
  <1>10. CASE conn[k].close = "no" /\ conn' = Claim(k, o) /\ q.waits = k
    <2>1. PICK r : /\ Calm(k, r) /\ r.by = o /\ r.lost = conn[k].lost /\ r.close = "delete"
                   /\ r.old = conn[k].old
      <3>1. Base /\ conn[k].login \in Logged /\ o \in Conn \cup Op BY <1>2, Zenon
      <3> QED BY <1>10, <3>1, ClaimTurn, Zenon
    <2>2. Turn(k, r) /\ KeepsOld(k, r) /\ Uncounted(k, r) BY <2>1, Zenon DEF Calm
    <2>3. /\ conn' \in [Conn -> ConnRec] /\ conn'[k] = r
          /\ \A j \in Conn \ {k} : conn'[j] = conn[j]
      BY <2>2, TurnValue, Zenon
    <2>4. Types' BY <1>7, <2>3, Zenon
    <2>5. Links' BY <1>3, <2>2, TurnLinks, Zenon
    <2>6. CountInv' BY <1>3, <2>2, TurnCount, Zenon DEF aux
    <2>7. ExpelInv'
      <3> SUFFICES ASSUME NEW p \in Op, NEW j \in op[p].began
                   PROVE  conn'[j].login \in Logged /\ (Gone(p, j)' \/ Ahead(p, j)')
        BY <1>6, Zenon DEF ExpelInv
      <3>1. j \in Conn /\ conn[j].login \in Logged /\ (Gone(p, j) \/ Ahead(p, j))
        BY DEF ExpelInv, Base, Types, OpRec
      <3>2. conn'[j].login \in Logged /\ conn'[j].srv = conn[j].srv /\ conn'[j].cid = conn[j].cid
        BY <2>2, <3>1, TurnKeeps, Zenon DEF Logged
      <3>3. Gone(p, j) => Gone(p, j)' BY <1>6, <2>2, <3>1, TurnGone, Zenon
      <3>4. CASE Ahead(p, j) /\ p = o /\ conn[j].cid = c
        <4>1. j = k BY <1>1, <3>4, Zenon DEF Ahead
        <4> QED BY <2>1, <2>3, <3>2, <4>1, Zenon DEF Gone
      <3>5. CASE Ahead(p, j) /\ ~(p = o /\ conn[j].cid = c)
        BY <1>3, <1>5, <1>6, <3>1, <3>2, <3>5, Zenon DEF Ahead
      <3> QED BY <3>1, <3>2, <3>3, <3>4, <3>5, Zenon
    <2>8. ShutInv'
      <3>1. ~conn'[k].lost BY <1>2, <1>10, <2>1, <2>3, Zenon DEF ConnOK
      <3>2. ASSUME NEW j \in Conn, conn'[j].by \in Op
            PROVE  /\ op'[conn'[j].by].pc # "new"
                   /\ conn'[j].close # "done" =>
                        op'[conn'[j].by].pc \in {"range", "loop"} /\ op'[conn'[j].by].waits = j
        <4>1. CASE j = k BY <1>2, <1>6, <1>10, <2>1, <2>3, <4>1
        <4>2. CASE j # k /\ conn[j].by = o
          <5>1. conn[j].close = "done"
            BY <1>2, <4>2, LifecycleAssumption DEF ShutInv, Free
          <5> QED BY <1>2, <1>6, <2>3, <4>2, <5>1, Zenon
        <4>3. CASE j # k /\ conn[j].by # o
          BY <1>6, <2>3, <3>2, <4>3 DEF ShutInv
        <4> QED BY <4>1, <4>2, <4>3, Zenon
      <3>3. GoodbyesSaid' BY <1>6, <2>3, <3>1 DEF ShutInv, GoodbyesSaid
      <3> QED BY <1>3, <1>6, <3>2, <3>3 DEF ShutInv
    <2> QED BY <1>7, <1>8, <2>4, <2>5, <2>6, <2>7, <2>8, Zenon DEF Base
  <1> QED BY <1>5, <1>9, <1>10, Zenon

(* The map that replaces the old one is empty, and so is its count; what   *)
(* another range had still to visit was dropped by this one.               *)
LEMMA ReplaceInv ==
  ASSUME Inv, NEW o \in Op, Replace(o), IsFiniteSet({}), Cardinality({}) = 0
  PROVE  Inv'
  <1> USE DEF Inv
  <1>0. /\ op[o] \in OpRec /\ OpOK(op[o]) /\ op[o].pc = "range" /\ op[o].srv \in Server
        /\ op[o].kind \in {"stop", "shutdown", "remove"} /\ op[o].dropped = {} /\ made # 0
        /\ Free(o)
    <2>1. op[o] \in OpRec /\ OpOK(op[o]) /\ op[o].pc = "range" /\ made # 0 /\ Free(o)
      BY Zenon DEF Base, Types, Stages, Replace, Ranged
    <2> QED BY <2>1, Zenon DEF OpRec, OpOK
  <1>1. PICK s \in Server : s = op[o].srv BY <1>0, Zenon
  <1> DEFINE d == {conns[s][c] : c \in Keys(s)}
             w == IF op[o].kind = "remove" THEN "done" ELSE "close"
             q == [op[o] EXCEPT !.pc = w, !.must = {}, !.seen = {}, !.waits = None, !.dropped = d]
  <1>2. d \subseteq Conn BY DEF Base, Types, Keys
  <1>3. /\ q \in OpRec /\ q.pc = (IF op[o].kind = "remove" THEN "done" ELSE "close")
        /\ q.kind = op[o].kind /\ q.began = op[o].began /\ q.dropped = d
    BY <1>0, <1>2, Zenon DEF OpRec
  <1>4. op' = [op EXCEPT ![o] = q]
    <2>1. op' = [op EXCEPT ![o].pc = w, ![o].must = {}, ![o].seen = {}, ![o].waits = None,
                           ![o].dropped = d]
      BY <1>1 DEF Replace
    <2> HIDE DEF w, d
    <2> QED BY <2>1, Zenon DEF Base, Types, OpRec
  <1> HIDE DEF q
  <1>5. Move(o, q) BY <1>0, <1>3, <1>4, Zenon DEF Move, OpOK
  <1>6. /\ conns' = [conns EXCEPT ![s] = [c \in Cid |-> None]]
        /\ length' = [length EXCEPT ![s] = 0]
        /\ torn' = IF InFlight(s) = {} THEN torn ELSE torn \cup {s}
        /\ UNCHANGED <<flag, net, conn, raft, rash, panicked>>
    BY <1>1, Zenon DEF Replace
  <1>7. /\ conns' \in [Server -> [Cid -> Conn \cup {None}]] /\ length' \in [Server -> Int]
        /\ torn \subseteq torn' /\ torn' \subseteq Server
        /\ \A c \in Cid : conns'[s][c] = None
        /\ length'[s] = 0
        /\ \A t \in Server \ {s} : conns'[t] = conns[t] /\ length'[t] = length[t]
    BY <1>6 DEF Base, Types
  <1>8. Types' BY <1>0, <1>3, <1>5, <1>6, <1>7, MoveValue, Zenon DEF Base, Types, flag, net
  <1>9. Links'
    <2>1. \A t \in Server, c \in Cid : conns'[t][c] # None => conns'[t][c] = conns[t][c]
      BY <1>7, Zenon
    <2>2. \A t \in Server, c \in Cid : conns'[t][c] # None =>
            LET r == conn[conns'[t][c]] IN r.srv = t /\ r.cid = c /\ r.login \in Logged
      BY <2>1 DEF Base, Links
    <2> QED BY <1>6, <2>2 DEF Base, Links
  <1>10. Stages' BY <1>5, MoveStages, Zenon
  <1>11. CountInv'
    <2> SUFFICES ASSUME NEW t \in Server \ torn' PROVE Counted(t)' BY Zenon DEF CountInv
    <2>1. t \notin torn BY <1>7, Zenon
    <2>2. Adding(t)' = Adding(t) /\ Deleting(t)' = Deleting(t)
      BY <1>6, Zenon DEF Adding, Deleting
    <2>3. CASE t = s
      <3>1. InFlight(s) = {} BY <1>6, <2>3, Zenon
      <3>2. Adding(s) = {} /\ Deleting(s) = {} BY <3>1, Zenon DEF InFlight, Adding, Deleting
      <3>3. Keys(t)' = {} BY <1>7, <2>3, Zenon DEF Keys
      <3> QED BY <1>7, <2>2, <2>3, <3>2, <3>3 DEF Counted
    <2>4. CASE t # s
      <3>1. Keys(t)' = Keys(t) BY <1>7, <2>4, Zenon DEF Keys
      <3> QED BY <1>7, <2>1, <2>2, <2>4, <3>1, Zenon DEF CountInv, Counted
    <2> QED BY <2>3, <2>4, Zenon
  <1>12. ShutInv' BY <1>5, <1>6, MoveShut, Zenon DEF Says
  <1>13. ~rash' => FlagInv'
    <2>1. o \in Stopping <=> op[o].kind \in {"stop", "shutdown"} BY <1>0, Zenon DEF Stopping
    <2>2. q.kind \in {"stop", "shutdown"} /\ q.pc \in {"expel", "range", "close"}
            <=> op[o].kind \in {"stop", "shutdown"}
      BY <1>0, <1>3, Zenon
    <2> QED BY <1>0, <1>3, <1>5, <1>6, <2>1, <2>2, MoveFlag, Zenon DEF FlagInv
  <1>14. ExpelInv'
    <2>1. \A p \in Op : op'[p].began = op[p].began /\ op[p].dropped \subseteq op'[p].dropped
      BY <1>0, <1>3, <1>5, MoveValue
    <2> SUFFICES ASSUME NEW p \in Op, NEW j \in op[p].began
                 PROVE  conn[j].login \in Logged /\ (Gone(p, j)' \/ Ahead(p, j)')
      BY <1>6, <2>1, Zenon DEF ExpelInv
    <2>2. j \in Conn /\ conn[j].login \in Logged /\ (Gone(p, j) \/ Ahead(p, j))
      BY Zenon DEF ExpelInv, Base, Types, OpRec
    <2>3. Gone(p, j) => Gone(p, j)' BY <1>6, <2>1, Zenon DEF Gone, Taken
    <2>4. conn[j].srv \in Server /\ conn[j].cid \in Cid
      BY <2>2, Zenon DEF Base, Links, ConnOK, Logged
    <2>5. CASE Ahead(p, j) /\ p = o
      <3>1. conn[j].cid \in Keys(op[o].srv) /\ conn[j].cid \in op[o].must \ op[o].seen
        BY <2>2, <2>4, <2>5, LifecycleAssumption, Zenon DEF Ahead, Keys
      <3> QED BY <3>1, Zenon DEF Replace, Ranged
    <2>6. CASE Ahead(p, j) /\ p # o /\ conn[j].srv = s
      <3>1. j \in d BY <2>2, <2>4, <2>6, LifecycleAssumption, Zenon DEF Ahead, Keys
      <3>2. j \in op'[o].dropped BY <1>3, <1>5, <3>1, MoveValue, Zenon
      <3> QED BY <2>2, <2>6, <3>2, Zenon DEF Gone
    <2>7. CASE Ahead(p, j) /\ p # o /\ conn[j].srv # s
      <3>1. op'[p] = op[p] BY <1>5, <2>7, MoveValue, Zenon
      <3>2. conns'[conn[j].srv] = conns[conn[j].srv] BY <1>7, <2>4, <2>7, Zenon
      <3> QED BY <1>6, <2>2, <2>7, <3>1, <3>2, Zenon DEF Ahead
    <2> QED BY <2>2, <2>3, <2>5, <2>6, <2>7, Zenon
  <1> QED BY <1>8, <1>9, <1>10, <1>11, <1>12, <1>13, <1>14, Zenon DEF Base

-----------------------------------------------------------------------------
(***************************************************************************)
(* The steps of a connection.                                              *)
(***************************************************************************)

LEMMA NewConnType == NewConn \in ConnRec
  BY Zenon DEF NewConn, ConnRec

LEMMA AcceptTurn ==
  ASSUME Base, NEW k \in Conn, NEW s \in Server, NEW c \in Cid, Accept(k, s, c)
  PROVE  \E r : Calm(k, r) /\ KeepsWord(k, r)
  <1> DEFINE r == [NewConn EXCEPT !.login = "auth", !.srv = s, !.cid = c]
  <1>1. /\ r \in ConnRec /\ r.login = "auth" /\ r.close = "no" /\ r.srv = s /\ r.cid = c
        /\ r.old = None /\ r.by = None /\ ~r.lost
    BY Zenon DEF NewConn, ConnRec
  <1>2. conn[k] \in ConnRec /\ ConnOK(conn[k]) /\ conn[k].login = "new"
    BY Zenon DEF Base, Types, Links, Accept
  <1>3. conn' = [conn EXCEPT ![k] = r] BY Zenon DEF Accept
  <1> HIDE DEF r
  <1>4. Turn(k, r) BY <1>1, <1>2, <1>3, Zenon DEF Turn, ConnOK, Logged
  <1>5. Uncounted(k, r) /\ KeepsOld(k, r) /\ KeepsWord(k, r)
    BY <1>1, <1>2, Zenon DEF Uncounted, KeepsOld, KeepsWord, ConnOK
  <1> QED BY <1>4, <1>5, Zenon DEF Calm

LEMMA UnknownTurn ==
  ASSUME Base, NEW k \in Conn, Unknown(k) PROVE \E r : Calm(k, r) /\ KeepsWord(k, r)
  <1> DEFINE r == [conn[k] EXCEPT !.login = "refused", !.close = "done"]
  <1>1. conn[k] \in ConnRec /\ ConnOK(conn[k]) /\ conn[k].login = "auth"
    BY Zenon DEF Base, Types, Links, Unknown
  <1>2. /\ r \in ConnRec /\ r.login = "refused" /\ r.close = "done" /\ r.srv = conn[k].srv
        /\ r.cid = conn[k].cid /\ r.old = conn[k].old /\ r.by = conn[k].by /\ r.lost = conn[k].lost
    BY <1>1, Zenon DEF ConnRec
  <1>3. conn' = [conn EXCEPT ![k] = r] BY Zenon DEF Unknown, Base, Types, ConnRec
  <1> HIDE DEF r
  <1>4. Turn(k, r) BY <1>1, <1>2, <1>3, Zenon DEF Turn, ConnOK, Logged
  <1>5. Uncounted(k, r) /\ KeepsOld(k, r) /\ KeepsWord(k, r)
    BY <1>1, <1>2, Zenon DEF Uncounted, KeepsOld, KeepsWord, ConnOK
  <1> QED BY <1>4, <1>5, Zenon DEF Calm

LEMMA RefuseTurn ==
  ASSUME Base, NEW k \in Conn, Refuse(k) PROVE \E r : Calm(k, r) /\ KeepsWord(k, r)
  <1> DEFINE r == [conn[k] EXCEPT !.login = "refused", !.close = "delete"]
  <1>1. conn[k] \in ConnRec /\ ConnOK(conn[k]) /\ conn[k].login = "auth"
    BY Zenon DEF Base, Types, Links, Refuse
  <1>2. /\ r \in ConnRec /\ r.login = "refused" /\ r.close = "delete" /\ r.srv = conn[k].srv
        /\ r.cid = conn[k].cid /\ r.old = conn[k].old /\ r.by = conn[k].by /\ r.lost = conn[k].lost
    BY <1>1, Zenon DEF ConnRec
  <1>3. conn' = [conn EXCEPT ![k] = r] BY Zenon DEF Refuse, Base, Types, ConnRec
  <1> HIDE DEF r
  <1>4. Turn(k, r) BY <1>1, <1>2, <1>3, Zenon DEF Turn, ConnOK, Logged
  <1>5. Uncounted(k, r) /\ KeepsOld(k, r) /\ KeepsWord(k, r)
    BY <1>1, <1>2, Zenon DEF Uncounted, KeepsOld, KeepsWord, ConnOK
  <1> QED BY <1>4, <1>5 DEF Calm

LEMMA CloseOldTurn ==
  ASSUME Base, NEW k \in Conn, CloseOld(k)
  PROVE  \E j \in Conn : \E r : Calm(j, r) /\ KeepsWord(j, r)
  <1> DEFINE j == conn[k].old
             r == [conn[k] EXCEPT !.login = "connack", !.old = None]
  <1>1. /\ conn[k] \in ConnRec /\ ConnOK(conn[k]) /\ conn[k].login = "dup"
        /\ j \in Conn /\ conn[j] \in ConnRec /\ conn[j].login \in Logged
    BY Zenon DEF Base, Types, Links, CloseOld, ConnOK, ConnRec
  <1>2. CASE conn[j].close = "no" /\ conn' = Claim(j, k)
    BY <1>1, <1>2, ClaimTurn DEF KeepsWord
  <1>3. CASE conn[j].close # "no" /\ conn' = [conn EXCEPT ![k].login = "connack", ![k].old = None]
    <2>1. /\ r \in ConnRec /\ r.login = "connack" /\ r.close = conn[k].close /\ r.srv = conn[k].srv
          /\ r.cid = conn[k].cid /\ r.old = None /\ r.by = conn[k].by /\ r.lost = conn[k].lost
      BY <1>1, Zenon DEF ConnRec
    <2>2. conn' = [conn EXCEPT ![k] = r] BY <1>3, Zenon DEF Base, Types, ConnRec
    <2> HIDE DEF r
    <2>3. Turn(k, r) BY <1>1, <2>1, <2>2, Zenon DEF Turn, ConnOK, Logged
    <2>4. Uncounted(k, r) /\ KeepsOld(k, r) /\ KeepsWord(k, r)
      BY <1>1, <1>3, <2>1, Zenon DEF Uncounted, KeepsOld, KeepsWord
    <2> QED BY <2>3, <2>4, Zenon DEF Calm
  <1> QED BY <1>2, <1>3, Zenon DEF CloseOld

LEMMA ConnackTurn ==
  ASSUME Base, NEW k \in Conn, Connack(k) PROVE \E r : Calm(k, r) /\ KeepsWord(k, r)
  <1> DEFINE r == [conn[k] EXCEPT !.login = "open", !.busy = (conn[k].close = "no")]
  <1>1. conn[k] \in ConnRec /\ ConnOK(conn[k]) /\ conn[k].login = "connack"
    BY Zenon DEF Base, Types, Links, Connack
  <1>2. /\ r \in ConnRec /\ r.login = "open" /\ r.close = conn[k].close /\ r.srv = conn[k].srv
        /\ r.cid = conn[k].cid /\ r.old = conn[k].old /\ r.by = conn[k].by /\ r.lost = conn[k].lost
    BY <1>1, Zenon DEF ConnRec
  <1>3. conn' = [conn EXCEPT ![k] = r] BY Zenon DEF Connack, Base, Types, ConnRec
  <1> HIDE DEF r
  <1>4. Turn(k, r) BY <1>1, <1>2, <1>3, Zenon DEF Turn, ConnOK, Logged
  <1>5. Uncounted(k, r) /\ KeepsOld(k, r) /\ KeepsWord(k, r)
    BY <1>1, <1>2, Zenon DEF Uncounted, KeepsOld, KeepsWord
  <1> QED BY <1>4, <1>5 DEF Calm

LEMMA WrittenTurn ==
  ASSUME Base, NEW k \in Conn, Written(k) PROVE \E r : Calm(k, r) /\ KeepsWord(k, r)
  <1> DEFINE r == [conn[k] EXCEPT !.busy = FALSE]
  <1>1. conn[k] \in ConnRec /\ ConnOK(conn[k]) BY Zenon DEF Base, Types, Links
  <1>2. /\ r \in ConnRec /\ r.login = conn[k].login /\ r.close = conn[k].close /\ r.srv = conn[k].srv
        /\ r.cid = conn[k].cid /\ r.old = conn[k].old /\ r.by = conn[k].by /\ r.lost = conn[k].lost
    BY <1>1, Zenon DEF ConnRec
  <1>3. conn' = [conn EXCEPT ![k] = r] BY Zenon DEF Written, Base, Types, ConnRec
  <1> HIDE DEF r
  <1>4. Turn(k, r) BY <1>1, <1>2, <1>3, Zenon DEF Turn, ConnOK
  <1>5. Uncounted(k, r) /\ KeepsOld(k, r) /\ KeepsWord(k, r)
    BY <1>2, Zenon DEF Uncounted, KeepsOld, KeepsWord
  <1> QED BY <1>4, <1>5 DEF Calm

LEMMA DisconnectTurn ==
  ASSUME Base, NEW k \in Conn, Disconnect(k) PROVE \E r : Calm(k, r) /\ KeepsWord(k, r)
  <1>1. conn[k] \in ConnRec /\ ConnOK(conn[k]) BY DEF Base, Types, Links
  <1>2. conn[k].login \in Logged
    <2>1. CASE conn[k].login = "open" BY <2>1, Zenon DEF Logged
    <2>2. CASE conn[k].srv # 0 /\ conns[conn[k].srv][conn[k].cid] = k /\ conn[k].login # "new"
      <3>1. conn[k].srv \in Server /\ conn[k].cid \in Cid BY <1>1, <2>2, Zenon DEF ConnOK
      <3> QED BY <2>2, <3>1, LifecycleAssumption DEF Base, Links
    <2>3. CASE conn[k].login = "new" /\ conn[k].srv # 0
      BY <1>1, <2>3, Zenon DEF ConnOK
    <2> QED BY <2>1, <2>2, <2>3, Zenon DEF Disconnect
  <1> QED BY <1>2, ClaimTurn DEF Disconnect, KeepsWord

(* The proposal of a Close is lost if the cluster is not there any more.   *)
LEMMA CloseHandlerTurn ==
  ASSUME Base, NEW k \in Conn, CloseHandler(k)
  PROVE  \E r : Calm(k, r) /\ r.by = conn[k].by /\ (r.lost => raft # "up") /\ r.close = "done"
  <1> DEFINE r == [conn[k] EXCEPT !.close = "done", !.lost = (raft # "up")]
  <1>1. conn[k] \in ConnRec /\ ConnOK(conn[k]) /\ conn[k].close = "handler"
    BY Zenon DEF Base, Types, Links, CloseHandler
  <1>2. /\ r \in ConnRec /\ r.login = conn[k].login /\ r.close = "done" /\ r.srv = conn[k].srv
        /\ r.cid = conn[k].cid /\ r.old = conn[k].old /\ r.by = conn[k].by
        /\ r.lost = (raft # "up")
    BY <1>1, Zenon DEF ConnRec
  <1>3. conn' = [conn EXCEPT ![k] = r] BY Zenon DEF CloseHandler, Base, Types, ConnRec
  <1> HIDE DEF r
  <1>4. Turn(k, r) BY <1>1, <1>2, <1>3, Zenon DEF Turn, ConnOK
  <1>5. Uncounted(k, r) /\ KeepsOld(k, r) BY <1>1, <1>2, Zenon DEF Uncounted, KeepsOld
  <1> QED BY <1>2, <1>4, <1>5, Zenon DEF Calm

LEMMA TurnExpel ==
  ASSUME Base, ExpelInv, NEW k \in Conn, NEW r, Turn(k, r), KeepsOld(k, r), UNCHANGED <<op, conns>>
  PROVE  ExpelInv'
  <1> SUFFICES ASSUME NEW o \in Op, NEW j \in op[o].began
               PROVE  conn'[j].login \in Logged /\ (Gone(o, j)' \/ Ahead(o, j)')
    BY Zenon DEF ExpelInv
  <1>1. j \in Conn /\ conn[j].login \in Logged /\ (Gone(o, j) \/ Ahead(o, j))
    BY Zenon DEF ExpelInv, Base, Types, OpRec
  <1>2. Ahead(o, j) => Ahead(o, j)'
    BY <1>1, TurnKeeps, Zenon DEF Ahead, Logged
  <1> QED BY <1>1, <1>2, TurnGone, TurnKeeps, Zenon

(* GoodbyesSaid is about what an operation closes.                         *)
LEMMA TurnShut ==
  ASSUME Base, ShutInv, NEW k \in Conn, NEW r, Turn(k, r), KeepsWord(k, r), UNCHANGED <<op, raft>>
  PROVE  ShutInv'
  <1>1. ASSUME NEW j \in Conn, conn'[j].by \in Op
        PROVE  /\ conn[j].by = conn'[j].by
               /\ conn'[j].close # "done" => conn[j].close # "done"
               /\ conn'[j].lost => conn[j].lost
    BY <1>1, TurnValue, LifecycleAssumption, Zenon DEF Turn, KeepsWord
  <1>2. \A j \in Conn : conn'[j].by \in Op =>
          /\ op[conn'[j].by].pc # "new"
          /\ conn'[j].close # "done" =>
               op[conn'[j].by].pc \in {"range", "loop"} /\ op[conn'[j].by].waits = j
    BY <1>1 DEF ShutInv
  <1>3. GoodbyesSaid' BY <1>1 DEF ShutInv, GoodbyesSaid
  <1> QED BY <1>2, <1>3, Zenon DEF ShutInv

LEMMA CalmInv ==
  ASSUME Inv, NEW k \in Conn, NEW r, Calm(k, r), KeepsWord(k, r),
         UNCHANGED <<flag, net, conns, length, op, raft, aux, panicked>>
  PROVE  Inv'
  <1> USE DEF Inv, Calm
  <1>1. Types' BY TurnValue, Zenon DEF Base, Types, flag, net, aux
  <1>2. Links' BY TurnLinks, Zenon
  <1>3. Stages' BY Zenon DEF Base, Stages
  <1>4. CountInv' BY TurnCount, Zenon DEF aux
  <1>5. ExpelInv' BY TurnExpel, Zenon
  <1>6. ShutInv' BY TurnShut, Zenon
  <1> QED BY <1>1, <1>2, <1>3, <1>4, <1>5, <1>6, FlagKept, Zenon DEF Base

LEMMA CloseHandlerInv == ASSUME Inv, NEW k \in Conn, CloseHandler(k) PROVE Inv'
  <1>1. PICK r : Calm(k, r) /\ r.by = conn[k].by /\ (r.lost => raft # "up") /\ r.close = "done"
    BY CloseHandlerTurn, Zenon DEF Inv
  <1>2. UNCHANGED <<flag, net, conns, length, op, raft, aux, panicked>> BY Zenon DEF CloseHandler
  <1> USE DEF Inv, Calm
  <1>3. Base'
    <2>1. Types' BY <1>1, <1>2, TurnValue, Zenon DEF Base, Types, flag, net, aux
    <2>2. Links' BY <1>1, <1>2, TurnLinks, Zenon
    <2>3. Stages' BY <1>2, Zenon DEF Base, Stages
    <2> QED BY <2>1, <2>2, <2>3, Zenon DEF Base
  <1>4. CountInv' /\ ExpelInv' BY <1>1, <1>2, TurnCount, TurnExpel, Zenon DEF aux
  <1>5. ShutInv'
    <2>1. \A j \in Conn : conn'[j].by \in Op =>
            /\ conn[j].by = conn'[j].by
            /\ conn'[j].close # "done" => conn[j].close # "done"
            /\ conn'[j].lost => conn[j].lost \/ (j = k /\ raft # "up")
      BY <1>1, TurnValue, Zenon DEF Turn
    <2>2. \A j \in Conn : conn'[j].by \in Op =>
            /\ op[conn'[j].by].pc # "new"
            /\ conn'[j].close # "done" =>
                 op[conn'[j].by].pc \in {"range", "loop"} /\ op[conn'[j].by].waits = j
      BY <2>1, Zenon DEF ShutInv
    <2>3. ASSUME NEW j \in Conn, conn'[j].by \in Op, op[conn'[j].by].kind = "shutdown", conn'[j].lost
          PROVE  \E o \in Op : op[o].kind = "remove"
      <3>1. CASE conn[j].lost BY <2>1, <2>3, <3>1 DEF ShutInv, GoodbyesSaid
      <3>2. CASE j = k /\ raft # "up"
        <4>1. conn[k].close = "handler" BY Zenon DEF CloseHandler
        <4>2. op[conn[k].by].pc \in {"range", "loop"} BY <2>1, <2>3, <3>2, <4>1, Zenon DEF ShutInv
        <4>3. raft = "removed"
          BY <2>1, <2>3, <3>2, <4>2, Zenon DEF ShutInv, Base, Types
        <4> QED BY <4>3, Zenon DEF ShutInv
      <3> QED BY <2>1, <2>3, <3>1, <3>2, Zenon
    <2>4. GoodbyesSaid' BY <1>2, <2>3, Zenon DEF GoodbyesSaid
    <2> QED BY <1>2, <2>2, <2>4, Zenon DEF ShutInv
  <1> QED BY <1>2, <1>3, <1>4, <1>5, FlagKept, Zenon

(* Both halves of a Swap and of a Delete.                                  *)
LEMMA SwapTurn ==
  ASSUME Base, NEW k \in Conn, Swap(k)
  PROVE  LET s == conn[k].srv
             c == conn[k].cid
         IN  /\ s \in Server /\ c \in Cid /\ conn[k].login = "auth" /\ conn[k].close = "no"
             /\ conns' = [conns EXCEPT ![s][c] = k] /\ conns[s][c] # k
             /\ \E r : /\ Turn(k, r) /\ KeepsWord(k, r) /\ r.close = "no"
                       /\ r.login = IF conns[s][c] = None THEN "added" ELSE "dup"
                       /\ r.old = conns[s][c]
  <1> DEFINE s == conn[k].srv
             c == conn[k].cid
             r == [conn[k] EXCEPT !.login = IF conns[s][c] = None THEN "added" ELSE "dup",
                                  !.old = conns[s][c]]
  <1>1. /\ conn[k] \in ConnRec /\ ConnOK(conn[k]) /\ conn[k].login = "auth"
        /\ conn[k].close = "no" /\ s \in Server /\ c \in Cid
    BY Zenon DEF Base, Types, Links, Swap, ConnOK
  <1>2. conns[s][c] \in Conn \cup {None} BY <1>1, Zenon DEF Base, Types
  <1>3. /\ r \in ConnRec /\ r.login = IF conns[s][c] = None THEN "added" ELSE "dup"
        /\ r.close = "no" /\ r.srv = s /\ r.cid = c /\ r.old = conns[s][c] /\ r.by = conn[k].by
        /\ r.lost = conn[k].lost
    BY <1>1, <1>2, Zenon DEF ConnRec
  <1>4. conn' = [conn EXCEPT ![k] = r] BY Zenon DEF Swap, Base, Types, ConnRec
  <1>5. conns[s][c] # k BY <1>1, LifecycleAssumption DEF Base, Links, Logged
  <1>6. conns' = [conns EXCEPT ![s][c] = k] BY Zenon DEF Swap
  <1> HIDE DEF r
  <1>7. Turn(k, r) BY <1>1, <1>3, <1>4, Zenon DEF Turn, ConnOK, Logged
  <1>8. KeepsWord(k, r) BY <1>3, Zenon DEF KeepsWord
  <1> QED BY <1>1, <1>3, <1>5, <1>6, <1>7, <1>8, Zenon

LEMMA AddedTurn ==
  ASSUME Base, NEW k \in Conn, Added(k)
  PROVE  /\ conn[k].srv \in Server /\ conn[k].login = "added"
         /\ \E r : /\ Turn(k, r) /\ KeepsWord(k, r) /\ KeepsOld(k, r)
                   /\ r.login = "connack" /\ r.close = conn[k].close
  <1> DEFINE r == [conn[k] EXCEPT !.login = "connack"]
  <1>1. conn[k] \in ConnRec /\ ConnOK(conn[k]) /\ conn[k].login = "added"
    BY Zenon DEF Base, Types, Links, Added
  <1>2. /\ r \in ConnRec /\ r.login = "connack" /\ r.close = conn[k].close /\ r.srv = conn[k].srv
        /\ r.cid = conn[k].cid /\ r.old = conn[k].old /\ r.by = conn[k].by /\ r.lost = conn[k].lost
    BY <1>1, Zenon DEF ConnRec
  <1>3. conn' = [conn EXCEPT ![k] = r] BY Zenon DEF Added, Base, Types, ConnRec
  <1> HIDE DEF r
  <1>4. Turn(k, r) BY <1>1, <1>2, <1>3, Zenon DEF Turn, ConnOK, Logged
  <1>5. KeepsOld(k, r) /\ KeepsWord(k, r) BY <1>2, Zenon DEF KeepsOld, KeepsWord
  <1>6. conn[k].srv \in Server BY <1>1, Zenon DEF ConnOK
  <1> QED BY <1>1, <1>2, <1>4, <1>5, <1>6, Zenon

LEMMA DeleteTurn ==
  ASSUME Base, NEW k \in Conn, Delete(k)
  PROVE  LET s == conn[k].srv
             c == conn[k].cid
         IN  /\ s \in Server /\ c \in Cid /\ conn[k].close = "delete"
             /\ conns' = [conns EXCEPT ![s][c] = None]
             /\ \E r : /\ Turn(k, r) /\ KeepsWord(k, r) /\ KeepsOld(k, r)
                       /\ r.login = conn[k].login
                       /\ r.close = IF conns[s][c] = None THEN "done" ELSE "dec"
  <1> DEFINE s == conn[k].srv
             c == conn[k].cid
             r == [conn[k] EXCEPT !.close = IF conns[s][c] = None THEN "done" ELSE "dec",
                                  !.busy = FALSE]
  <1>1. /\ conn[k] \in ConnRec /\ ConnOK(conn[k]) /\ conn[k].close = "delete"
        /\ s \in Server /\ c \in Cid
    BY Zenon DEF Base, Types, Links, Delete, ConnOK
  <1>2. /\ r \in ConnRec /\ r.login = conn[k].login /\ r.srv = s /\ r.cid = c
        /\ r.close = IF conns[s][c] = None THEN "done" ELSE "dec"
        /\ r.old = conn[k].old /\ r.by = conn[k].by /\ r.lost = conn[k].lost
    BY <1>1, Zenon DEF ConnRec
  <1>3. conn' = [conn EXCEPT ![k] = r] BY Zenon DEF Delete, Base, Types, ConnRec
  <1>4. conns' = [conns EXCEPT ![s][c] = None] BY Zenon DEF Delete
  <1> HIDE DEF r
  <1>5. Turn(k, r) BY <1>1, <1>2, <1>3, Zenon DEF Turn, ConnOK
  <1>6. KeepsOld(k, r) /\ KeepsWord(k, r) BY <1>2, Zenon DEF KeepsOld, KeepsWord
  <1> QED BY <1>1, <1>2, <1>4, <1>5, <1>6, Zenon

LEMMA DeletedTurn ==
  ASSUME Base, NEW k \in Conn, Deleted(k)
  PROVE  /\ conn[k].srv \in Server /\ conn[k].close = "dec"
         /\ \E r : /\ Turn(k, r) /\ KeepsWord(k, r) /\ KeepsOld(k, r)
                   /\ r.login = conn[k].login /\ r.close = "handler"
  <1> DEFINE r == [conn[k] EXCEPT !.close = "handler"]
  <1>1. conn[k] \in ConnRec /\ ConnOK(conn[k]) /\ conn[k].close = "dec"
    BY Zenon DEF Base, Types, Links, Deleted
  <1>2. /\ r \in ConnRec /\ r.login = conn[k].login /\ r.close = "handler" /\ r.srv = conn[k].srv
        /\ r.cid = conn[k].cid /\ r.old = conn[k].old /\ r.by = conn[k].by /\ r.lost = conn[k].lost
    BY <1>1, Zenon DEF ConnRec
  <1>3. conn' = [conn EXCEPT ![k] = r] BY Zenon DEF Deleted, Base, Types, ConnRec
  <1> HIDE DEF r
  <1>4. Turn(k, r) BY <1>1, <1>2, <1>3, Zenon DEF Turn, ConnOK
  <1>5. KeepsOld(k, r) /\ KeepsWord(k, r) BY <1>2, Zenon DEF KeepsOld, KeepsWord
  <1>6. conn[k].srv \in Server BY <1>1, Zenon DEF ConnOK
  <1> QED BY <1>1, <1>2, <1>4, <1>5, <1>6, Zenon

(* The other servers' maps and halves are not touched.                     *)
LEMMA OtherServers ==
  ASSUME Base, CountInv, NEW k \in Conn, NEW r, Turn(k, r), conn[k].login # "new",
         NEW t \in Server \ torn, t # conn[k].srv, conns'[t] = conns[t], length'[t] = length[t]
  PROVE  Counted(t)'
  <1>1. Keys(t)' = Keys(t) BY Zenon DEF Keys
  <1>2. Adding(t)' = Adding(t) /\ Deleting(t)' = Deleting(t)
    BY TurnValue, Zenon DEF Adding, Deleting, Turn
  <1> QED BY <1>1, <1>2, Zenon DEF CountInv, Counted

(* A login that takes the place of k replaces it.                          *)
LEMMA SwapInv == ASSUME Inv, NEW k \in Conn, Swap(k), CountInv' PROVE Inv'
  <1> USE DEF Inv
  <1>0. /\ conn[k].srv \in Server /\ conn[k].cid \in Cid /\ conn[k].login = "auth"
        /\ conns' = [conns EXCEPT ![conn[k].srv][conn[k].cid] = k]
        /\ conns[conn[k].srv][conn[k].cid] # k
    BY SwapTurn, Zenon
  <1>1. PICK s \in Server, c \in Cid :
          /\ s = conn[k].srv /\ c = conn[k].cid /\ conn[k].login = "auth"
          /\ conns' = [conns EXCEPT ![s][c] = k] /\ conns[s][c] # k
    BY <1>0, Zenon
  <1>2. PICK r : /\ Turn(k, r) /\ KeepsWord(k, r) /\ r.old = conns[s][c] /\ r.close = "no"
                 /\ r.login = IF conns[s][c] = None THEN "added" ELSE "dup"
    BY <1>1, SwapTurn
  <1>3. UNCHANGED <<flag, net, length, op, raft, aux, panicked>> BY Zenon DEF Swap
  <1>4. conns' \in [Server -> [Cid -> Conn \cup {None}]] /\ conns'[s][c] = k
        /\ \A t \in Server, d \in Cid : ~(t = s /\ d = c) => conns'[t][d] = conns[t][d]
    BY <1>1, Zenon DEF Base, Types
  <1>5. Types' BY <1>2, <1>3, <1>4, TurnValue, Zenon DEF Base, Types, flag, net, aux
  <1>6. /\ \A j \in Conn : conn[j].login \in Logged => conn'[j].login \in Logged
        /\ conn'[k] = r /\ \A j \in Conn \ {k} : conn'[j] = conn[j]
        /\ r.login \in Logged /\ r.srv = s /\ r.cid = c
    <2>1. r.login \in Logged /\ r.srv = s /\ r.cid = c BY <1>1, <1>2, Zenon DEF Turn, Logged
    <2> QED BY <1>2, <2>1, TurnValue, TurnKeeps, Zenon
  <1>7. Links'
    <2>1. \A j \in Conn : ConnOK(conn'[j]) BY <1>2, <1>6 DEF Turn, Base, Links
    <2>2. ASSUME NEW j \in Conn, conn'[j].old # None PROVE conn'[conn'[j].old].login \in Logged
      <3>1. CASE j = k
        BY <1>1, <1>2, <1>6, <2>2, <3>1, SMTT(30) DEF Base, Types, Links
      <3>2. CASE j # k
        <4>1. conn[j].old \in Conn /\ conn[conn[j].old].login \in Logged
          BY <1>6, <2>2, <3>2 DEF Base, Types, Links, ConnRec
        <4> QED BY <1>6, <3>2, <4>1, Zenon
      <3> QED BY <3>1, <3>2, Zenon
    <2>3. ASSUME NEW t \in Server, NEW d \in Cid, conns'[t][d] # None
          PROVE  /\ conn'[conns'[t][d]].srv = t /\ conn'[conns'[t][d]].cid = d
                 /\ conn'[conns'[t][d]].login \in Logged
      <3>1. CASE t = s /\ d = c BY <1>4, <1>6, <3>1, Zenon
      <3>2. CASE ~(t = s /\ d = c)
        <4>1. conns'[t][d] = conns[t][d] /\ conns[t][d] \in Conn BY <1>4, <2>3, <3>2
        <4>2. /\ conn[conns[t][d]].srv = t /\ conn[conns[t][d]].cid = d
              /\ conn[conns[t][d]].login \in Logged
          BY <2>3, <4>1, Zenon DEF Base, Links
        <4>3. conns[t][d] # k BY <1>1, <4>2, Zenon DEF Logged
        <4> QED BY <1>6, <4>1, <4>2, <4>3, Zenon
      <3> QED BY <3>1, <3>2, Zenon
    <2> QED BY <2>1, <2>2, <2>3, Zenon DEF Links
  <1>8. Stages' BY <1>3, Zenon DEF Base, Stages
  <1>9. ExpelInv'
    <2> SUFFICES ASSUME NEW o \in Op, NEW j \in op[o].began
                 PROVE  conn'[j].login \in Logged /\ (Gone(o, j)' \/ Ahead(o, j)')
      BY <1>3, Zenon DEF ExpelInv
    <2>1. j \in Conn /\ conn[j].login \in Logged /\ (Gone(o, j) \/ Ahead(o, j)) /\ j # k
      BY <1>1, Zenon DEF ExpelInv, Base, Types, OpRec, Logged
    <2>2. CASE Gone(o, j)
      <3>1. CASE conn[j].close # "no" \/ \E p \in Op \ {o} : j \in op[p].dropped
        BY <1>3, <1>6, <2>1, <3>1, Zenon DEF Gone
      <3>2. CASE Taken(j)
        <4>1. PICK i \in Conn \ {j} : /\ conn[i].srv = conn[j].srv /\ conn[i].cid = conn[j].cid
                                      /\ conn[i].old = j \/ conn[i].close # "no"
          BY <3>2, Zenon DEF Taken
        <4>2. i # k BY <1>1, <2>1, <4>1, LifecycleAssumption DEF Base, Links, ConnOK
        <4> QED BY <1>6, <2>1, <4>1, <4>2, Zenon DEF Gone, Taken
      <3> QED BY <2>2, <3>1, <3>2, Zenon DEF Gone
    <2>3. CASE Ahead(o, j)
      <3>1. CASE conn[j].srv = s /\ conn[j].cid = c
        <4>1. conn'[k].old = j BY <1>2, <1>6, <2>3, <3>1, Zenon DEF Ahead
        <4> QED BY <1>6, <2>1, <3>1, <4>1, Zenon DEF Gone, Taken
      <3>2. CASE ~(conn[j].srv = s /\ conn[j].cid = c)
        <4>1. conn[j].srv \in Server /\ conn[j].cid \in Cid
          BY <2>1, Zenon DEF Base, Links, ConnOK, Logged
        <4> QED BY <1>3, <1>4, <1>6, <2>1, <2>3, <3>2, <4>1 DEF Ahead
      <3> QED BY <3>1, <3>2, Zenon
    <2> QED BY <1>6, <2>1, <2>2, <2>3, Zenon
  <1>11. ShutInv' BY <1>2, <1>3, TurnShut, Zenon
  <1> QED BY <1>3, <1>5, <1>7, <1>8, <1>9, <1>11, FlagKept, Zenon DEF Base

LEMMA HalfInv == ASSUME Inv, NEW k \in Conn, Added(k) \/ Deleted(k), CountInv' PROVE Inv'
  <1> USE DEF Inv
  <1>1. PICK r : Turn(k, r) /\ KeepsWord(k, r) /\ KeepsOld(k, r) BY AddedTurn, DeletedTurn, Zenon
  <1>2. UNCHANGED <<flag, net, conns, op, raft, aux, panicked>> BY Zenon DEF Added, Deleted
  <1>3. length' \in [Server -> Int]
    BY AddedTurn, DeletedTurn DEF Added, Deleted, Base, Types
  <1>4. Types' BY <1>1, <1>2, <1>3, TurnValue, Zenon DEF Base, Types, flag, net, aux
  <1>5. Links' BY <1>1, <1>2, TurnLinks, Zenon
  <1>6. Stages' BY <1>2, Zenon DEF Base, Stages
  <1>8. ExpelInv' BY <1>1, <1>2, TurnExpel, Zenon
  <1>9. ShutInv' BY <1>1, <1>2, TurnShut, Zenon
  <1> QED BY <1>2, <1>4, <1>5, <1>6, <1>8, <1>9, FlagKept, Zenon DEF Base

(* A Close that deletes the entry of another connection has taken it.      *)
LEMMA DeleteInv == ASSUME Inv, NEW k \in Conn, Delete(k), CountInv' PROVE Inv'
  <1> USE DEF Inv
  <1>0. /\ conn[k].srv \in Server /\ conn[k].cid \in Cid /\ conn[k].close = "delete"
        /\ conns' = [conns EXCEPT ![conn[k].srv][conn[k].cid] = None]
    BY DeleteTurn, Zenon
  <1>1. PICK s \in Server, c \in Cid :
          /\ s = conn[k].srv /\ c = conn[k].cid /\ conn[k].close = "delete"
          /\ conns' = [conns EXCEPT ![s][c] = None]
    BY <1>0, Zenon
  <1>2. PICK r : Turn(k, r) /\ KeepsWord(k, r) /\ KeepsOld(k, r) BY DeleteTurn, Zenon
  <1>3. UNCHANGED <<flag, net, length, op, raft, aux, panicked>> BY Zenon DEF Delete
  <1>4. conns' \in [Server -> [Cid -> Conn \cup {None}]] /\ conns'[s][c] = None
        /\ \A t \in Server, d \in Cid : ~(t = s /\ d = c) => conns'[t][d] = conns[t][d]
    BY <1>1, Zenon DEF Base, Types
  <1>5. Types' BY <1>2, <1>3, <1>4, TurnValue, Zenon DEF Base, Types, flag, net, aux
  <1>6. Links'
    <2>1. \A j \in Conn : ConnOK(conn'[j]) BY <1>2, TurnValue, Zenon DEF Turn, Base, Links
    <2>2. ASSUME NEW j \in Conn, conn'[j].old # None PROVE conn'[conn'[j].old].login \in Logged
      <3>1. conn'[j].old = conn[j].old BY <1>2, <2>2, TurnValue, Zenon DEF KeepsOld
      <3>2. conn[j].old \in Conn /\ conn[conn[j].old].login \in Logged
        BY <2>2, <3>1 DEF Base, Types, Links, ConnRec
      <3> QED BY <1>2, <3>1, <3>2, TurnKeeps, Zenon
    <2>3. ASSUME NEW t \in Server, NEW d \in Cid, conns'[t][d] # None
          PROVE  /\ conn'[conns'[t][d]].srv = t /\ conn'[conns'[t][d]].cid = d
                 /\ conn'[conns'[t][d]].login \in Logged
      <3>1. conns'[t][d] = conns[t][d] /\ conns[t][d] \in Conn BY <1>4, <2>3
      <3>2. /\ conn[conns[t][d]].srv = t /\ conn[conns[t][d]].cid = d
            /\ conn[conns[t][d]].login \in Logged
        BY <2>3, <3>1 DEF Base, Links
      <3> QED BY <1>2, <3>1, <3>2, TurnKeeps, Zenon DEF Logged
    <2> QED BY <2>1, <2>2, <2>3 DEF Links
  <1>7. Stages' BY <1>3 DEF Base, Stages
  <1>8. ExpelInv'
    <2> SUFFICES ASSUME NEW o \in Op, NEW j \in op[o].began
                 PROVE  conn'[j].login \in Logged /\ (Gone(o, j)' \/ Ahead(o, j)')
      BY <1>3 DEF ExpelInv
    <2>1. j \in Conn /\ conn[j].login \in Logged /\ (Gone(o, j) \/ Ahead(o, j))
      BY Zenon DEF ExpelInv, Base, Types, OpRec
    <2>2. conn'[j].login \in Logged /\ conn'[j].srv = conn[j].srv /\ conn'[j].cid = conn[j].cid
      BY <1>2, <2>1, TurnKeeps, Zenon DEF Logged
    <2>3. CASE Gone(o, j) BY <1>2, <1>3, <2>1, <2>2, <2>3, TurnGone, Zenon
    <2>4. CASE Ahead(o, j) /\ conn[j].srv = s /\ conn[j].cid = c
      <3>1. conn'[k].close # "no" BY <1>1, <1>2, TurnKeeps, Zenon
      <3>2. CASE j = k BY <2>2, <3>1, <3>2, Zenon DEF Gone
      <3>3. CASE j # k
        <4>1. conn[k].login # "new" BY <1>1, Zenon DEF Base, Links, ConnOK
        <4>2. conn'[k].srv = s /\ conn'[k].cid = c BY <1>1, <1>2, <4>1, TurnKeeps, Zenon
        <4>3. Taken(j)' BY <2>2, <2>4, <3>1, <3>3, <4>2, Zenon DEF Taken
        <4> QED BY <2>2, <4>3, Zenon DEF Gone
      <3> QED BY <3>2, <3>3, Zenon
    <2>5. CASE Ahead(o, j) /\ ~(conn[j].srv = s /\ conn[j].cid = c)
      <3>1. conn[j].srv \in Server /\ conn[j].cid \in Cid
        BY <2>1, Zenon DEF Base, Links, ConnOK, Logged
      <3> QED BY <1>3, <1>4, <2>2, <2>5, <3>1 DEF Ahead
    <2> QED BY <2>1, <2>3, <2>4, <2>5, Zenon
  <1>10. ShutInv' BY <1>2, <1>3, TurnShut, Zenon
  <1> QED BY <1>3, <1>5, <1>6, <1>7, <1>8, <1>10, FlagKept DEF Base

INSTANCE FiniteSetTheorems

LEMMA SwapCount == ASSUME Base, CountInv, NEW k \in Conn, Swap(k) PROVE CountInv'
  <1>0. /\ conn[k].srv \in Server /\ conn[k].cid \in Cid
        /\ conn[k].login = "auth" /\ conn[k].close = "no"
        /\ conns' = [conns EXCEPT ![conn[k].srv][conn[k].cid] = k]
    BY SwapTurn, Zenon
  <1>1. PICK s \in Server, c \in Cid :
          /\ s = conn[k].srv /\ c = conn[k].cid /\ conn[k].login = "auth" /\ conn[k].close = "no"
          /\ conns' = [conns EXCEPT ![s][c] = k]
    BY <1>0, Zenon
  <1>2. PICK r : /\ Turn(k, r) /\ r.close = "no"
                 /\ r.login = IF conns[s][c] = None THEN "added" ELSE "dup"
    BY <1>1, SwapTurn
  <1>3. UNCHANGED <<length, torn>> BY Zenon DEF Swap, aux
  <1>4. r.srv = s BY <1>1, <1>2, Zenon DEF Turn
  <1> SUFFICES ASSUME NEW t \in Server \ torn PROVE Counted(t)' BY <1>3, Zenon DEF CountInv
  <1>5. CASE t # s
    <2>1. conns'[t] = conns[t] BY <1>1, <1>5, Zenon DEF Base, Types
    <2> QED BY <1>1, <1>2, <1>3, <1>5, <2>1, OtherServers, Zenon
  <1>6. CASE t = s
    <2>1. Deleting(s)' = Deleting(s) BY <1>1, <1>2, <1>4, TurnValue, SMTT(30) DEF Deleting
    <2>2. Keys(s)' = Keys(s) \cup {c}
      BY <1>1, LifecycleAssumption DEF Keys, Base, Types
    <2>3. k \notin Adding(s) BY <1>1, Zenon DEF Adding
    <2>4. Counted(s) BY <1>6, Zenon DEF CountInv
    <2>5. CASE conns[s][c] = None
      <3>1. Adding(s)' = Adding(s) \cup {k} BY <1>2, <1>4, <2>5, TurnValue DEF Adding
      <3>2. c \notin Keys(s) BY <2>5, Zenon DEF Keys
      <3>3. /\ IsFiniteSet(Keys(s)') /\ Cardinality(Keys(s)') = Cardinality(Keys(s)) + 1
            /\ IsFiniteSet(Adding(s)') /\ Cardinality(Adding(s)') = Cardinality(Adding(s)) + 1
        BY <2>2, <2>3, <2>4, <3>1, <3>2, FS_AddElement DEF Counted
      <3>4. /\ Cardinality(Keys(s)) \in Nat /\ Cardinality(Adding(s)) \in Nat
            /\ Cardinality(Deleting(s)) \in Nat
        BY <2>4, FS_CardinalityType, Zenon DEF Counted
      <3> QED BY <1>3, <1>6, <2>1, <2>4, <3>3, <3>4, SMTT(30) DEF Counted
    <2>6. CASE conns[s][c] # None
      <3>1. Adding(s)' = Adding(s) BY <1>1, <1>2, <1>4, <2>6, TurnValue DEF Adding
      <3>2. Keys(s)' = Keys(s) BY <1>1, <2>2, <2>6, Zenon DEF Keys
      <3> QED BY <1>3, <1>6, <2>1, <2>4, <3>1, <3>2, Zenon DEF Counted
    <2> QED BY <2>5, <2>6, Zenon
  <1> QED BY <1>5, <1>6, Zenon

LEMMA AddedCount == ASSUME Base, CountInv, NEW k \in Conn, Added(k) PROVE CountInv'
  <1>1. PICK s \in Server : s = conn[k].srv /\ conn[k].login = "added" BY AddedTurn, Zenon
  <1>2. PICK r : Turn(k, r) /\ r.login = "connack" /\ r.close = conn[k].close BY AddedTurn, Zenon
  <1>3. length' = [length EXCEPT ![s] = @ + 1] /\ UNCHANGED <<conns, torn>> BY <1>1, Zenon DEF Added, aux
  <1>4. r.srv = s BY <1>1, <1>2, Zenon DEF Turn
  <1> SUFFICES ASSUME NEW t \in Server \ torn PROVE Counted(t)' BY <1>3, Zenon DEF CountInv
  <1>5. CASE t # s
    <2>1. length'[t] = length[t] BY <1>3, <1>5, Zenon DEF Base, Types
    <2> QED BY <1>1, <1>2, <1>3, <1>5, <2>1, OtherServers, Zenon
  <1>6. CASE t = s
    <2>1. Deleting(s)' = Deleting(s) BY <1>1, <1>2, <1>4, TurnValue DEF Deleting
    <2>2. Keys(s)' = Keys(s) BY <1>3, Zenon DEF Keys
    <2>3. Adding(s)' = Adding(s) \ {k} BY <1>1, <1>2, TurnValue DEF Adding
    <2>4. k \in Adding(s) /\ Counted(s) BY <1>1, <1>6, Zenon DEF Adding, CountInv
    <2>5. IsFiniteSet(Adding(s)') /\ Cardinality(Adding(s)') = Cardinality(Adding(s)) - 1
      BY <2>3, <2>4, FS_RemoveElement, Zenon DEF Counted
    <2>6. /\ Cardinality(Keys(s)) \in Nat /\ Cardinality(Adding(s)) \in Nat
          /\ Cardinality(Deleting(s)) \in Nat
      BY <2>4, FS_CardinalityType, Zenon DEF Counted
    <2>7. length'[s] = length[s] + 1 BY <1>1, <1>3, Zenon DEF Base, Types
    <2>8. length[s] = Cardinality(Keys(s)) - Cardinality(Adding(s)) + Cardinality(Deleting(s))
      BY <2>4, Zenon DEF Counted
    <2>9. length'[s] = Cardinality(Keys(s)) - Cardinality(Adding(s)') + Cardinality(Deleting(s))
      BY <2>5, <2>6, <2>7, <2>8
    <2> QED BY <1>6, <2>1, <2>2, <2>4, <2>5, <2>9, Zenon DEF Counted
  <1> QED BY <1>5, <1>6, Zenon

LEMMA DeleteCount == ASSUME Base, CountInv, NEW k \in Conn, Delete(k) PROVE CountInv'
  <1>0. /\ conn[k].srv \in Server /\ conn[k].cid \in Cid /\ conn[k].close = "delete"
        /\ conns' = [conns EXCEPT ![conn[k].srv][conn[k].cid] = None]
    BY DeleteTurn, Zenon
  <1>1. PICK s \in Server, c \in Cid :
          /\ s = conn[k].srv /\ c = conn[k].cid /\ conn[k].close = "delete"
          /\ conns' = [conns EXCEPT ![s][c] = None]
    BY <1>0, Zenon
  <1>2. PICK r : /\ Turn(k, r) /\ r.login = conn[k].login
                 /\ r.close = IF conns[s][c] = None THEN "done" ELSE "dec"
    BY <1>1, DeleteTurn, Zenon
  <1>3. UNCHANGED <<length, torn>> BY Zenon DEF Delete, aux
  <1>4. conn[k].login # "new" BY <1>1, Zenon DEF Base, Links, ConnOK
  <1>5. r.srv = s BY <1>1, <1>2, <1>4, Zenon DEF Turn
  <1> SUFFICES ASSUME NEW t \in Server \ torn PROVE Counted(t)' BY <1>3 DEF CountInv
  <1>6. CASE t # s
    <2>1. conns'[t] = conns[t] BY <1>1, <1>6, Zenon DEF Base, Types
    <2> QED BY <1>1, <1>2, <1>3, <1>4, <1>6, <2>1, OtherServers, Zenon
  <1>7. CASE t = s
    <2>1. Adding(s)' = Adding(s) BY <1>1, <1>2, <1>5, TurnValue DEF Adding
    <2>2. Keys(s)' = Keys(s) \ {c} BY <1>1, Zenon DEF Keys, Base, Types
    <2>3. k \notin Deleting(s) BY <1>1, Zenon DEF Deleting
    <2>4. Counted(s) BY <1>7 DEF CountInv
    <2>5. CASE conns[s][c] # None
      <3>1. Deleting(s)' = Deleting(s) \cup {k} BY <1>2, <1>5, <2>5, TurnValue DEF Deleting
      <3>2. c \in Keys(s) BY <1>1, <2>5, Zenon DEF Keys
      <3>3. /\ IsFiniteSet(Keys(s)') /\ Cardinality(Keys(s)') = Cardinality(Keys(s)) - 1
            /\ IsFiniteSet(Deleting(s)') /\ Cardinality(Deleting(s)') = Cardinality(Deleting(s)) + 1
        BY <2>2, <2>3, <2>4, <3>1, <3>2, FS_AddElement, FS_RemoveElement DEF Counted
      <3>4. /\ Cardinality(Keys(s)) \in Nat /\ Cardinality(Adding(s)) \in Nat
            /\ Cardinality(Deleting(s)) \in Nat
        BY <2>4, FS_CardinalityType DEF Counted
      <3> QED BY <1>3, <1>7, <2>1, <2>4, <3>3, <3>4 DEF Counted
    <2>6. CASE conns[s][c] = None
      <3>1. Deleting(s)' = Deleting(s) BY <1>1, <1>2, <1>5, <2>6, TurnValue DEF Deleting
      <3>2. Keys(s)' = Keys(s) BY <1>1, <2>2, <2>6, Zenon DEF Keys
      <3> QED BY <1>3, <1>7, <2>1, <2>4, <3>1, <3>2, Zenon DEF Counted
    <2> QED BY <2>5, <2>6, Zenon
  <1> QED BY <1>6, <1>7

LEMMA DeletedCount == ASSUME Base, CountInv, NEW k \in Conn, Deleted(k) PROVE CountInv'
  <1>1. PICK s \in Server : s = conn[k].srv /\ conn[k].close = "dec" BY DeletedTurn, Zenon
  <1>2. PICK r : Turn(k, r) /\ r.login = conn[k].login /\ r.close = "handler" BY DeletedTurn, Zenon
  <1>3. length' = [length EXCEPT ![s] = @ - 1] /\ UNCHANGED <<conns, torn>> BY <1>1, Zenon DEF Deleted, aux
  <1>4. conn[k].login # "new" BY <1>1, Zenon DEF Base, Links, ConnOK
  <1>5. r.srv = s BY <1>1, <1>2, <1>4, Zenon DEF Turn
  <1> SUFFICES ASSUME NEW t \in Server \ torn PROVE Counted(t)' BY <1>3, Zenon DEF CountInv
  <1>6. CASE t # s
    <2>1. length'[t] = length[t] BY <1>3, <1>6, Zenon DEF Base, Types
    <2> QED BY <1>1, <1>2, <1>3, <1>4, <1>6, <2>1, OtherServers, Zenon
  <1>7. CASE t = s
    <2>1. Adding(s)' = Adding(s) BY <1>1, <1>2, <1>5, TurnValue DEF Adding
    <2>2. Keys(s)' = Keys(s) BY <1>3, Zenon DEF Keys
    <2>3. Deleting(s)' = Deleting(s) \ {k} BY <1>2, TurnValue DEF Deleting
    <2>4. k \in Deleting(s) /\ Counted(s) BY <1>1, <1>7, Zenon DEF Deleting, CountInv
    <2>5. IsFiniteSet(Deleting(s)') /\ Cardinality(Deleting(s)') = Cardinality(Deleting(s)) - 1
      BY <2>3, <2>4, FS_RemoveElement, Zenon DEF Counted
    <2>6. /\ Cardinality(Keys(s)) \in Nat /\ Cardinality(Adding(s)) \in Nat
          /\ Cardinality(Deleting(s)) \in Nat
      BY <2>4, FS_CardinalityType, Zenon DEF Counted
    <2>7. length'[s] = length[s] - 1 BY <1>1, <1>3, Zenon DEF Base, Types
    <2>8. length[s] = Cardinality(Keys(s)) - Cardinality(Adding(s)) + Cardinality(Deleting(s))
      BY <2>4, Zenon DEF Counted
    <2>9. length'[s] = Cardinality(Keys(s)) - Cardinality(Adding(s)) + Cardinality(Deleting(s)')
      BY <2>5, <2>6, <2>7, <2>8
    <2> QED BY <1>7, <2>1, <2>2, <2>4, <2>5, <2>9, Zenon DEF Counted
  <1> QED BY <1>6, <1>7

(* Every step of a connection.                                             *)
LEMMA ConnInv ==
  ASSUME Inv, NEW k \in Conn,
         \/ \E s \in Server, c \in Cid : Accept(k, s, c)
         \/ Unknown(k) \/ Refuse(k) \/ Swap(k) \/ Written(k) \/ Disconnect(k)
         \/ Login(k) \/ Closing(k)
  PROVE  Inv'
  <1> USE DEF Inv
  <1>1. ASSUME NEW s \in Server, NEW c \in Cid, Accept(k, s, c) PROVE Inv'
    <2>1. UNCHANGED <<flag, net, conns, length, op, raft, aux, panicked>> BY <1>1, Zenon DEF Accept
    <2> QED BY <1>1, <2>1, AcceptTurn, CalmInv, Zenon
  <1>2. CASE Unknown(k)
    <2>1. UNCHANGED <<flag, net, conns, length, op, raft, aux, panicked>> BY <1>2, Zenon DEF Unknown
    <2> QED BY <1>2, <2>1, UnknownTurn, CalmInv, Zenon
  <1>3. CASE Refuse(k)
    <2>1. UNCHANGED <<flag, net, conns, length, op, raft, aux, panicked>> BY <1>3, Zenon DEF Refuse
    <2> QED BY <1>3, <2>1, RefuseTurn, CalmInv, Zenon
  <1>4. CASE Written(k)
    <2>1. UNCHANGED <<flag, net, conns, length, op, raft, aux, panicked>> BY <1>4, Zenon DEF Written
    <2> QED BY <1>4, <2>1, WrittenTurn, CalmInv, Zenon
  <1>5. CASE Disconnect(k)
    <2>1. UNCHANGED <<flag, net, conns, length, op, raft, aux, panicked>> BY <1>5, Zenon DEF Disconnect
    <2> QED BY <1>5, <2>1, DisconnectTurn, CalmInv, Zenon
  <1>6. CASE CloseOld(k)
    <2>1. UNCHANGED <<flag, net, conns, length, op, raft, aux, panicked>> BY <1>6, Zenon DEF CloseOld
    <2> QED BY <1>6, <2>1, CloseOldTurn, CalmInv, Zenon
  <1>7. CASE Connack(k)
    <2>1. UNCHANGED <<flag, net, conns, length, op, raft, aux, panicked>> BY <1>7, Zenon DEF Connack
    <2> QED BY <1>7, <2>1, ConnackTurn, CalmInv, Zenon
  <1>8. CASE Swap(k) BY <1>8, SwapCount, SwapInv, Zenon
  <1>9. CASE Added(k) \/ Deleted(k) BY <1>9, AddedCount, DeletedCount, HalfInv, Zenon
  <1>10. CASE Delete(k) BY <1>10, DeleteCount, DeleteInv, Zenon
  <1> QED
    BY <1>1, <1>2, <1>3, <1>4, <1>5, <1>6, <1>7, <1>8, <1>9, <1>10, CloseHandlerInv, Zenon
    DEF Login, Closing

-----------------------------------------------------------------------------
LEMMA InitInv == ASSUME Init PROVE Inv
  <1> USE DEF Init
  <1>1. Base
    <2>1. Types
      <3>1. NewOp \in OpRec /\ NewOp.pc = "new" BY Zenon DEF NewOp, OpRec
      <3>2. made \in 0..MaxServers BY LifecycleAssumption
      <3>3. listen \in [Server -> {"none", "made", "listening", "ended"}] BY Zenon
      <3>4. conns \in [Server -> [Cid -> Conn \cup {None}]] /\ length \in [Server -> Int]
        OBVIOUS
      <3>5. conn \in [Conn -> ConnRec] /\ op \in [Op -> OpRec] BY <3>1, NewConnType, Zenon
      <3>6. \A o \in Op : op[o].pc \in {"range", "close", "loop"} => made # 0 BY <3>1, Zenon
      <3> QED BY <3>2, <3>3, <3>4, <3>5, <3>6, Zenon DEF Types
    <2>2. Links BY Zenon DEF Links, NewConn, ConnOK
    <2>3. Stages BY Zenon DEF Stages, NewOp, OpOK
    <2> QED BY <2>1, <2>2, <2>3, Zenon DEF Base
  <1>2. CountInv
    <2> SUFFICES ASSUME NEW s \in Server PROVE Counted(s) BY Zenon DEF CountInv
    <2>1. Keys(s) = {} BY Zenon DEF Keys
    <2>2. Adding(s) = {} /\ Deleting(s) = {} BY Zenon DEF Adding, Deleting, NewConn
    <2>3. IsFiniteSet({}) /\ Cardinality({}) = 0 BY FS_EmptySet, Zenon
    <2> QED BY <2>1, <2>2, <2>3 DEF Counted
  <1>3. FlagInv
    <2>1. Starting = {} /\ Stopping = {} BY Zenon DEF Starting, Stopping, NewOp
    <2>2. \A o \in Op : op[o].pc = "new" BY Zenon DEF NewOp
    <2> QED BY <2>1, <2>2 DEF FlagInv, Serving
  <1>4. ExpelInv BY Zenon DEF ExpelInv, NewOp
  <1>5. ShutInv BY LifecycleAssumption, Zenon DEF ShutInv, GoodbyesSaid, NewOp, NewConn
  <1> QED BY <1>1, <1>2, <1>3, <1>4, <1>5, Zenon DEF Inv

LEMMA StepInv == ASSUME Inv, [Next]_vars PROVE Inv'
  <1>1. CASE Next
    <2>1. ~panicked BY <1>1, Zenon DEF Next
    <2>2. ASSUME NEW o \in Op, Step(o) PROVE Inv'
      BY <2>1, <2>2, MakeInv, StoreInv, ExpelStepInv, VisitInv, ReplaceInv, CloseServerInv,
         EndPassInv, StopClusterInv, FS_EmptySet, Zenon
      DEF Step
    <2> QED
      BY <1>1, <2>2, ConnInv, ListenInv, StartCasInv, StopCasInv, ShutdownUnstartedInv,
         RemoveSelfInv, Zenon
      DEF Next
  <1>2. CASE UNCHANGED vars
    <2>1. UNCHANGED <<flag, net, conns, length, conn, op, raft, aux, panicked>>
      BY <1>2, Zenon DEF vars
    <2>2. Base' BY <2>1 DEF Inv, Base, Types, Links, Stages, flag, net, aux
    <2>3. CountInv' BY <2>1, Zenon DEF Inv, CountInv, Counted, Keys, Adding, Deleting, aux
    <2>4. ExpelInv' /\ ShutInv'
      BY <2>1 DEF Inv, ExpelInv, ShutInv, Gone, Taken, Ahead, GoodbyesSaid
    <2> QED BY <2>1, <2>2, <2>3, <2>4, FlagKept, Zenon DEF Inv
  <1> QED BY <1>1, <1>2, Zenon

-----------------------------------------------------------------------------
LEMMA Always == Spec => []Inv
  BY InitInv, StepInv, PTL DEF Spec

(* ConnCount of a server is the number of entries of its map whenever no   *)
(* Swap and no Delete of safe.RMap is half done, for any number of         *)
(* connections that log in, close and are replaced, unless ExpelAllConns   *)
(* assigned a new map while one was.                                       *)
THEOREM CountIsExact == Spec => []CountExact
  <1> SUFFICES ASSUME Inv PROVE CountExact BY Always, PTL
  <1> USE DEF Inv
  <1>1. TypeOK
    <2>1. shut \subseteq Server
      BY LifecycleAssumption DEF Base, Types, Server
    <2>2. \A k \in Conn :
            /\ conn[k].login \in {"new", "auth", "added", "dup", "connack", "open", "refused"}
            /\ conn[k].close \in {"no", "delete", "dec", "handler", "done"}
      BY Zenon DEF Base, Types, ConnRec
    <2>3. \A o \in Op : op[o].pc \in {"new", "make", "store", "expel", "range", "close", "loop",
                                     "cluster", "done"}
      BY Zenon DEF Base, Types, OpRec
    <2>4. current \in 0..made BY DEF Base, Types
    <2>5. \A s \in Server, c \in Cid : conns[s][c] # None =>
            conn[conns[s][c]].srv = s /\ conn[conns[s][c]].cid = c
      BY Zenon DEF Base, Links
    <2> QED BY <2>1, <2>2, <2>3, <2>4, <2>5, ZenonT(40) DEF TypeOK, Base, Types
  <1>2. ASSUME NEW s \in Server, InFlight(s) = {}, s \notin torn
        PROVE  length[s] = Cardinality(Keys(s))
    <2>1. Adding(s) = {} /\ Deleting(s) = {} BY <1>2, Zenon DEF InFlight, Adding, Deleting
    <2>2. Cardinality({}) = 0 BY FS_EmptySet, Zenon
    <2>3. Counted(s) BY <1>2, Zenon DEF CountInv
    <2>4. Cardinality(Keys(s)) \in Nat BY <2>3, FS_CardinalityType, Zenon DEF Counted
    <2> QED BY <2>1, <2>2, <2>3, <2>4 DEF Counted
  <1> QED BY <1>1, <1>2, Zenon DEF CountExact

(* If no Shutdown of a listener overlaps its Start or comes before it      *)
(* listens, nothing panics, but for the removal of a broker whose listener *)
(* was never started, and started is true of the server when no operation  *)
(* is under way, for any number of operations and restarts.                *)
THEOREM FlagIsTrue == Spec => []FlagTrue
  <1> SUFFICES ASSUME Inv PROVE FlagTrue BY Always, PTL
  <1> SUFFICES ASSUME ~rash PROVE /\ panicked => made = 0
                                  /\ (\A o \in Op : op[o].pc \in {"new", "done"}) =>
                                       (started <=> current # 0 /\ current \notin shut)
    BY Zenon DEF FlagTrue
  <1>1. (\A o \in Op : op[o].pc \in {"new", "done"}) => Starting \cup Stopping = {}
    BY Zenon DEF Starting, Stopping
  <1> QED BY <1>1, Zenon DEF Inv, FlagInv, Serving

(* When Listener.Shutdown or the removal of a broker is over, each         *)
(* connection that was in the map when ExpelAllConns began is closed, or   *)
(* lost its entry to a connection of its client id or to another operation *)
(* that replaced the map, for any interleaving of logins and closes.       *)
THEOREM EveryoneExpelled == Spec => []ExpelledAll
  <1>1. Inv => ExpelledAll BY Zenon DEF Inv, ExpelInv, ExpelledAll, Gone, Ahead
  <1> QED BY <1>1, Always, PTL

(* broker.Shutdown stops the cluster after the proposals of the closes it  *)
(* does itself: none is lost, unless the broker was removed.               *)
THEOREM GoodbyesAreSaid == Spec => []GoodbyesSaid
  <1>1. Inv => GoodbyesSaid BY Zenon DEF Inv, ShutInv
  <1> QED BY <1>1, Always, PTL
=============================================================================
