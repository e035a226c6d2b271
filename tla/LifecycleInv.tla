---------------------------- MODULE LifecycleInv -----------------------------
(***************************************************************************)
(* The inductive invariant of Lifecycle, and what a step of a connection   *)
(* or of an operation may do to the state it speaks of.                    *)
(***************************************************************************)
EXTENDS Lifecycle

ConnRec ==
  [login : {"new", "auth", "added", "dup", "connack", "open", "refused"},
   close : {"no", "delete", "dec", "handler", "done"},
   srv : Server \cup {0}, cid : Cid \cup {None}, old : Conn \cup {None},
   by : Conn \cup Op \cup {None}, busy : BOOLEAN, lost : BOOLEAN]

OpRec ==
  [pc : {"new", "make", "store", "expel", "range", "close", "loop", "cluster", "done"},
   kind : {"start", "stop", "shutdown", "remove"}, srv : Server \cup {0},
   must : SUBSET Cid, seen : SUBSET Cid, active : BOOLEAN, waits : Conn \cup {None},
   began : SUBSET Conn, dropped : SUBSET Conn]

Types ==
  /\ started \in BOOLEAN /\ made \in 0..MaxServers /\ current = made
  /\ listen \in [Server -> {"none", "made", "listening", "ended"}]
  /\ shut \subseteq 1..made
  /\ conns \in [Server -> [Cid -> Conn \cup {None}]]
  /\ length \in [Server -> Int]
  /\ conn \in [Conn -> ConnRec]
  /\ op \in [Op -> OpRec]
  /\ raft \in {"up", "removed", "stopped"}
  /\ rash \in BOOLEAN /\ torn \subseteq Server /\ panicked \in BOOLEAN
  /\ \A o \in Op : op[o].pc \in {"range", "close", "loop"} => made # 0

(* A connection is not closed, replaces none and is in no map before its   *)
(* login is accepted; then it has a server and a client id.                *)
ConnOK(r) ==
  /\ r.login \in {"new", "auth"} => r.close = "no" /\ r.by = None /\ r.old = None
  /\ IF r.login = "new" THEN r.srv = 0 ELSE r.srv \in Server /\ r.cid \in Cid
  /\ r.old # None <=> r.login = "dup"
  /\ r.lost => r.close = "done"

Logged == {"added", "dup", "connack", "open"}

Links ==
  /\ \A k \in Conn : ConnOK(conn[k])
  /\ \A k \in Conn : conn[k].old # None => conn[conn[k].old].login \in Logged
  /\ \A s \in Server, c \in Cid : conns[s][c] # None =>
       LET r == conn[conns[s][c]] IN r.srv = s /\ r.cid = c /\ r.login \in Logged

(* Which kind of operation gets where, with what.                          *)
OpOK(r) ==
  /\ r.pc \in {"new", "make", "store"} => r.kind = "start"
  /\ r.pc \in {"expel", "range", "close", "loop", "cluster"} => r.kind # "start"
  /\ r.pc \in {"close", "loop", "cluster"} => r.kind # "remove"
  /\ r.pc = "cluster" => r.kind = "shutdown"
  /\ r.pc \in {"range", "loop"} => r.srv \in Server
  /\ r.pc \in {"new", "make", "store", "expel"} => r.seen = {} /\ r.began = {} /\ r.waits = None
  /\ r.pc \in {"new", "make", "store", "expel", "range"} => r.dropped = {}

Stages == \A o \in Op : OpOK(op[o])

Base == Types /\ Links /\ Stages

(***************************************************************************)
(* The count of a server's map.                                            *)
(***************************************************************************)
Adding(s) == {k \in Conn : conn[k].srv = s /\ conn[k].login = "added"}
Deleting(s) == {k \in Conn : conn[k].srv = s /\ conn[k].close = "dec"}

(* What the count misses is what the halves of Swap and Delete still have  *)
(* to do.                                                                  *)
Counted(s) ==
  /\ IsFiniteSet(Keys(s)) /\ IsFiniteSet(Adding(s)) /\ IsFiniteSet(Deleting(s))
  /\ length[s] = Cardinality(Keys(s)) - Cardinality(Adding(s)) + Cardinality(Deleting(s))

CountInv == \A s \in Server \ torn : Counted(s)

(***************************************************************************)
(* The flag.                                                               *)
(***************************************************************************)
Starting == {o \in Op : op[o].pc \in {"make", "store"}}

Serving == current # 0 /\ current \notin shut

(* A start and a stop exclude each other, and the one that is under way    *)
(* has the flag on its side; if none is, the flag is true.                 *)
FlagInv ==
  /\ panicked => made = 0
  /\ \A o, p \in Starting \cup Stopping : o = p
  /\ Stopping # {} => ~started /\ Serving /\ listen[current] = "listening"
  /\ \A o \in Op : op[o].pc = "make" => started /\ ~Serving
  /\ \A o \in Op : op[o].pc = "store" => started /\ Serving
  /\ Starting \cup Stopping = {} => (started <=> Serving)

(***************************************************************************)
(* What a stop closes.                                                     *)
(***************************************************************************)

(* A connection that the range of o has found is closed, or was taken out  *)
(* of the map; or it is there, and the range has still to visit it.        *)
Gone(o, k) == conn[k].close # "no" \/ Taken(k) \/ \E p \in Op \ {o} : k \in op[p].dropped

Ahead(o, k) ==
  /\ op[o].pc = "range" /\ conn[k].srv = op[o].srv
  /\ conn[k].cid \in op[o].must \ op[o].seen
  /\ conns[conn[k].srv][conn[k].cid] = k

ExpelInv ==
  \A o \in Op : \A k \in op[o].began :
    conn[k].login \in Logged /\ (Gone(o, k) \/ Ahead(o, k))

(***************************************************************************)
(* The goodbyes.                                                           *)
(***************************************************************************)

(* An operation waits for its own Close; one Shutdown stops the cluster.   *)
ShutInv ==
  /\ \A o, p \in Op : op[o].kind = "shutdown" /\ op[p].kind = "shutdown" => o = p
  /\ raft = "removed" => \E o \in Op : op[o].kind = "remove"
  /\ raft = "stopped" => \E o \in Op : op[o].kind = "shutdown" /\ op[o].pc = "done"
  /\ \A k \in Conn : conn[k].by \in Op =>
       /\ op[conn[k].by].pc # "new"
       /\ conn[k].close # "done" =>
            op[conn[k].by].pc \in {"range", "loop"} /\ op[conn[k].by].waits = k
  /\ GoodbyesSaid

Inv == Base /\ CountInv /\ (~rash => FlagInv) /\ ExpelInv /\ ShutInv

-----------------------------------------------------------------------------
(***************************************************************************)
(* The steps of a connection.                                              *)
(***************************************************************************)

(* Connection k becomes r: it keeps its server and client id, is not       *)
(* opened again, and who closes it stays the same.                         *)
Turn(k, r) ==
  /\ conn' = [conn EXCEPT ![k] = r] /\ r \in ConnRec /\ ConnOK(r)
  /\ conn[k].login # "new" => r.login # "new" /\ r.srv = conn[k].srv /\ r.cid = conn[k].cid
  /\ conn[k].login \in Logged => r.login \in Logged
  /\ conn[k].close # "no" => r.close # "no" /\ r.by = conn[k].by
  /\ conn[k].close = "done" => r.close = "done"

(* No half of a Swap or a Delete is done.                                  *)
Uncounted(k, r) ==
  /\ r.login = "added" <=> conn[k].login = "added"
  /\ r.close = "dec" <=> conn[k].close = "dec"

(* The connection it replaces is kept, or is closed.                       *)
KeepsOld(k, r) == r.old = conn[k].old \/ (r.old = None /\ conn[conn[k].old].close # "no")

(* No operation closes it, and no proposal is lost.                        *)
KeepsWord(k, r) == (r.by = conn[k].by \/ r.by \in Conn) /\ (r.lost => conn[k].lost)

Calm(k, r) == Turn(k, r) /\ Uncounted(k, r) /\ KeepsOld(k, r)

(* Operation o becomes q: it keeps its kind, or begins, the only Shutdown  *)
(* if it is one; and it does not leave a Close of its own behind.          *)
Move(o, q) ==
  /\ op' = [op EXCEPT ![o] = q] /\ q \in OpRec /\ OpOK(q)
  /\ op[o].pc # "done" /\ q.pc # "new"
  /\ \/ q.kind = op[o].kind
     \/ op[o].pc = "new" /\ (q.kind = "shutdown" => \A p \in Op : op[p].kind # "shutdown")
  /\ op[o].pc \in {"range", "loop"} => Free(o)

(* It is not in a range that it leaves, and keeps what it found there.     *)
Unranged(o, q) ==
  op[o].pc # "range" /\ q.began = op[o].began /\ q.dropped = op[o].dropped

(* Raft goes on, unless the operation removes the broker or stops it.      *)
Says(q) ==
  \/ raft' = raft
  \/ raft' = "removed" /\ q.kind = "remove"
  \/ raft' = "stopped" /\ q.kind = "shutdown" /\ q.pc = "done"
=============================================================================
