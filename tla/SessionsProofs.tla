---------------------------- MODULE SessionsProofs ----------------------------
(***************************************************************************)
(* For any brokers, networks, users, clients and connections, and any      *)
(* interleaving of their logins, kicks and closes: a closed connection     *)
(* leaves its map, a kick closes what it found, a settled directory leads  *)
(* to live connections only, and to every one that is its client's only    *)
(* login at its broker.                                                    *)
(***************************************************************************)
EXTENDS Sessions, TLAPS

LogOps == UserOpenedOps \cup UserClosedOps

(***************************************************************************)
(* What the log says of a client.                                          *)
(***************************************************************************)
Same(op, n, u, c) == op.nodeID = n /\ op.uid = u /\ op.cid = c

(* The last of the first m entries of l that are about client c of user u  *)
(* at broker n opened it, on network w.                                    *)
OpenIn(l, m, n, u, c, w) ==
  \E i \in 1..m :
    /\ Same(l[i], n, u, c) /\ l[i].type = "userOpened" /\ l[i].net = w
    /\ \A j \in 1..m : j > i => ~Same(l[j], n, u, c)

(***************************************************************************)
(* The inductive invariant.                                                *)
(***************************************************************************)

(* A connection that the map has is in it under its own server and client  *)
(* id, after its Swap and before its OnClose; none is closed before it.    *)
MapInv ==
  /\ \A k \in Conn : conn[k].phase \in {"idle", "kick", "swap"} => closer[k] = "no"
  /\ \A k \in Conn : conn[k].phase # "idle" => conn[k].id \in Identities
  /\ \A s \in Server, c \in Client : conns[s][c] # NoConn =>
       /\ conn[conns[s][c]].at = s /\ conn[conns[s][c]].id[2] = c
       /\ conn[conns[s][c]].phase \in {"ack", "open"}
       /\ closer[conns[s][c]] \in {"no", "closing"}

KickInv ==
  \A p \in kicked :
    /\ conn[p[1]].phase # "idle" /\ conn[p[2]].phase # "idle"
    /\ conn[p[1]].at[2] = conn[p[2]].at[2] => closer[p[2]] # "no"

(* A broker's directory lists what its prefix of the log opened.           *)
DirInv ==
  \A b, n \in Broker, u \in User, c \in Client, w \in Net :
    directory[b].userClients[n][u][c] = w <=> OpenIn(log, applied[b], n, u, c, w)

(* Connection k is the only one that its client has, or had, at its        *)
(* broker, and its userOpenedOp was not lost.                              *)
Sole(k) ==
  /\ \A op \in lost : op.type = "userOpened" =>
       <<op.nodeID, op.uid, op.cid>> # <<conn[k].at[1], conn[k].id[1], conn[k].id[2]>>
  /\ \A q \in Conn \ {k} : conn[q].phase = "idle" \/ conn[q].at[1] # conn[k].at[1]
                           \/ conn[q].id[2] # conn[k].id[2]

SoleInv ==
  \A k \in Conn : Sole(k) /\ closer[k] = "no" /\ conn[k].phase \in {"swap", "ack", "open"} =>
    /\ OpenIn(log, Len(log), conn[k].at[1], conn[k].id[1], conn[k].id[2], conn[k].at[2])
    /\ conn[k].phase # "swap" => conns[conn[k].at][conn[k].id[2]] = k

(* A client id belongs to one user.                                        *)
OneUser == \A i, j \in Identities : i[2] = j[2] => i = j

(* What the log has open is in the map, or is about to be put there; or a  *)
(* Close has taken it out, and has still to report, or its report is lost. *)
AwaitedOf(k, n, u, c, w) ==
  /\ conn[k].id = <<u, c>>
  /\ \/ conn[k].phase = "swap" /\ conn[k].at = <<n, w>>
     \/ closer[k] = "report" /\ conn[k].at[1] = n

RouteInv ==
  /\ \A i \in 1..Len(log) : <<log[i].uid, log[i].cid>> \in Identities
  /\ \A n \in Broker, u \in User, c \in Client, w \in Net :
       OpenIn(log, Len(log), n, u, c, w) =>
         \/ [type |-> "userClosed", nodeID |-> n, uid |-> u, cid |-> c] \in lost
         \/ conns[<<n, w>>][c] # NoConn
         \/ \E k \in Conn : AwaitedOf(k, n, u, c, w)

Inv == TypeOK /\ MapInv /\ KickInv /\ DirInv /\ SoleInv /\ (OneUser => RouteInv)

-----------------------------------------------------------------------------
(***************************************************************************)
(* The log and the directory.                                              *)
(***************************************************************************)

(* What one more entry makes of it.                                        *)
LEMMA OpenNext ==
  ASSUME NEW l, NEW m \in Nat, NEW n, NEW u, NEW c, NEW w
  PROVE  OpenIn(l, m + 1, n, u, c, w) <=>
           IF Same(l[m + 1], n, u, c) THEN l[m + 1].type = "userOpened" /\ l[m + 1].net = w
                                      ELSE OpenIn(l, m, n, u, c, w)
  <1>1. \A i \in 1..m + 1 : i \in 1..m \/ i = m + 1 OBVIOUS
  <1>2. \A i \in 1..m : i \in 1..m + 1 /\ m + 1 > i OBVIOUS
  <1>3. m + 1 \in 1..m + 1 /\ ~(m + 1 > m + 1) OBVIOUS
  <1>4. CASE Same(l[m + 1], n, u, c)
    <2>1. OpenIn(l, m + 1, n, u, c, w) => l[m + 1].type = "userOpened" /\ l[m + 1].net = w
      BY <1>1, <1>2, <1>3, <1>4, Zenon DEF OpenIn
    <2>2. l[m + 1].type = "userOpened" /\ l[m + 1].net = w => OpenIn(l, m + 1, n, u, c, w)
      <3>1. \A j \in 1..m + 1 : ~(j > m + 1) OBVIOUS
      <3> QED BY <1>3, <1>4, <3>1, Zenon DEF OpenIn
    <2> QED BY <1>4, <2>1, <2>2, Zenon
  <1>5. CASE ~Same(l[m + 1], n, u, c)
    <2>1. OpenIn(l, m + 1, n, u, c, w) => OpenIn(l, m, n, u, c, w)
      BY <1>1, <1>2, <1>5, Zenon DEF OpenIn
    <2>2. OpenIn(l, m, n, u, c, w) => OpenIn(l, m + 1, n, u, c, w)
      BY <1>1, <1>2, <1>5, Zenon DEF OpenIn
    <2> QED BY <1>5, <2>1, <2>2, Zenon
  <1> QED BY <1>4, <1>5, Zenon

LEMMA OpenPrefix ==
  ASSUME NEW l \in Seq(LogOps), NEW op \in LogOps, NEW m \in 0..Len(l),
         NEW n, NEW u, NEW c, NEW w
  PROVE  OpenIn(Append(l, op), m, n, u, c, w) <=> OpenIn(l, m, n, u, c, w)
  <1>1. \A i \in 1..m : Append(l, op)[i] = l[i] OBVIOUS
  <1> QED BY <1>1, Zenon DEF OpenIn

LEMMA OpenAppend ==
  ASSUME NEW l \in Seq(LogOps), NEW op \in LogOps, NEW n, NEW u, NEW c, NEW w
  PROVE  OpenIn(Append(l, op), Len(Append(l, op)), n, u, c, w) <=>
           IF Same(op, n, u, c) THEN op.type = "userOpened" /\ op.net = w
                                ELSE OpenIn(l, Len(l), n, u, c, w)
  <1>1. /\ Len(l) \in Nat /\ Len(l) \in 0..Len(l)
        /\ Len(Append(l, op)) = Len(l) + 1 /\ Append(l, op)[Len(l) + 1] = op
    OBVIOUS
  <1>2. OpenIn(Append(l, op), Len(l), n, u, c, w) <=> OpenIn(l, Len(l), n, u, c, w)
    BY <1>1, OpenPrefix, Zenon
  <1>3. OpenIn(Append(l, op), Len(l) + 1, n, u, c, w) <=>
          IF Same(Append(l, op)[Len(l) + 1], n, u, c)
            THEN /\ Append(l, op)[Len(l) + 1].type = "userOpened"
                 /\ Append(l, op)[Len(l) + 1].net = w
            ELSE OpenIn(Append(l, op), Len(l), n, u, c, w)
    BY <1>1, OpenNext, Zenon
  <1> QED BY <1>1, <1>2, <1>3, Zenon

(* What applying an entry makes of the entries of userClients.             *)
LEMMA AppliedOp ==
  ASSUME NEW d \in Directories, NEW op \in LogOps
  PROVE  /\ applyRaftOp(d, op) \in Directories
         /\ \A n \in Broker, u \in User, c \in Client, w \in Net :
              applyRaftOp(d, op).userClients[n][u][c] = w <=>
                IF Same(op, n, u, c) THEN op.type = "userOpened" /\ op.net = w
                                     ELSE d.userClients[n][u][c] = w
  <1>1. CASE op \in UserOpenedOps
    <2>1. applyRaftOp(d, op) = userOpenedOp(d, op) BY <1>1, Zenon DEF applyRaftOp, UserOpenedOps
    <2>2. userOpenedOp(d, op) \in Directories
      BY <1>1 DEF Directories, userOpenedOp, UserOpenedOps
    <2>3. \A n \in Broker, u \in User, c \in Client :
            userOpenedOp(d, op).userClients[n][u][c] =
              IF Same(op, n, u, c) THEN op.net ELSE d.userClients[n][u][c]
      BY <1>1 DEF Directories, userOpenedOp, UserOpenedOps, Same
    <2>4. op.type = "userOpened" BY <1>1, Zenon DEF UserOpenedOps
    <2> QED BY <2>1, <2>2, <2>3, <2>4
  <1>2. CASE op \in UserClosedOps
    <2>1. applyRaftOp(d, op) = userClosedOp(d, op) BY <1>2, Zenon DEF applyRaftOp, UserClosedOps
    <2>2. userClosedOp(d, op) \in Directories
      BY <1>2 DEF Directories, userClosedOp, UserClosedOps
    <2>3. \A n \in Broker, u \in User, c \in Client :
            userClosedOp(d, op).userClients[n][u][c] =
              IF Same(op, n, u, c) THEN NoNet ELSE d.userClients[n][u][c]
      BY <1>2 DEF Directories, userClosedOp, UserClosedOps, Same
    <2>4. op.type = "userClosed" BY <1>2, Zenon DEF UserClosedOps
    <2> QED BY <2>1, <2>2, <2>3, <2>4, NoNetAssumption
  <1> QED BY <1>1, <1>2, Zenon DEF LogOps

-----------------------------------------------------------------------------
(***************************************************************************)
(* Steps of connections.                                                   *)
(***************************************************************************)

(* Nobody connects twice or changes place, and no Close is undone.         *)
Keeps ==
  /\ conn' \in [Conn -> ConnStates] /\ closer' \in [Conn -> CloserStates]
  /\ \A k \in Conn : conn[k].phase # "idle" =>
       conn'[k].phase # "idle" /\ conn'[k].id = conn[k].id /\ conn'[k].at = conn[k].at
  /\ \A k \in Conn : closer[k] # "no" => closer'[k] # "no"

(* Besides, the maps and the log stay; a Close may begin, and none of the  *)
(* other steps that the log and the maps depend on is taken.               *)
Quiet ==
  /\ Keeps /\ UNCHANGED <<conns, log, lost>>
  /\ \A k \in Conn :
       /\ conn'[k].phase = "swap" <=> conn[k].phase = "swap"
       /\ conn'[k].phase \in {"ack", "open"} <=> conn[k].phase \in {"ack", "open"}
       /\ conn'[k].phase # "idle" => conn'[k].id \in Identities
       /\ conn'[k].phase \in {"idle", "kick", "swap"} => closer'[k] = "no"
       /\ closer'[k] = closer[k] \/ (closer[k] = "no" /\ closer'[k] = "closing")

LEMMA KickKept ==
  ASSUME TypeOK, KickInv, Keeps, UNCHANGED kicked
  PROVE  KickInv'
  BY Zenon DEF TypeOK, KickInv, Keeps

LEMMA SoleBefore ==
  ASSUME TypeOK, Keeps, lost \subseteq lost', NEW k \in Conn, conn[k].phase # "idle", Sole(k)'
  PROVE  Sole(k)
  BY Zenon DEF TypeOK, Keeps, Sole

LEMMA QuietMap == ASSUME TypeOK, MapInv, Quiet PROVE MapInv'
  <1>1. ASSUME NEW s \in Server, NEW c \in Client, conns'[s][c] # NoConn
        PROVE  /\ conn'[conns'[s][c]].at = s /\ conn'[conns'[s][c]].id[2] = c
               /\ conn'[conns'[s][c]].phase \in {"ack", "open"}
               /\ closer'[conns'[s][c]] \in {"no", "closing"}
    <2>0. conns[s][c] # NoConn /\ conns' = conns BY <1>1, Zenon DEF Quiet
    <2>1. PICK k \in Conn : k = conns[s][c] /\ k = conns'[s][c]
      BY <2>0 DEF TypeOK
    <2>2. /\ conn[k].at = s /\ conn[k].id[2] = c /\ conn[k].phase \in {"ack", "open"}
          /\ closer[k] \in {"no", "closing"}
      <3>1. /\ conn[conns[s][c]].at = s /\ conn[conns[s][c]].id[2] = c
            /\ conn[conns[s][c]].phase \in {"ack", "open"}
            /\ closer[conns[s][c]] \in {"no", "closing"}
        BY <2>0, Zenon DEF MapInv
      <3> QED BY <2>1, <3>1, Zenon
    <2>3. conn'[k].at = s /\ conn'[k].id[2] = c BY <2>2, Zenon DEF Quiet, Keeps
    <2>4. conn'[k].phase \in {"ack", "open"} /\ closer'[k] \in {"no", "closing"}
      BY <2>2, Zenon DEF Quiet
    <2> QED BY <2>1, <2>3, <2>4, Zenon
  <1> QED BY <1>1 DEF MapInv, Quiet

LEMMA QuietSole == ASSUME TypeOK, SoleInv, Quiet PROVE SoleInv'
  <1> SUFFICES ASSUME NEW k \in Conn, Sole(k)', closer'[k] = "no",
                      conn'[k].phase \in {"swap", "ack", "open"}
               PROVE  /\ OpenIn(log, Len(log), conn'[k].at[1], conn'[k].id[1], conn'[k].id[2],
                                conn'[k].at[2])
                      /\ conn'[k].phase # "swap" => conns[conn'[k].at][conn'[k].id[2]] = k
    BY Zenon DEF SoleInv, Quiet
  <1>1. conn[k].phase \in {"swap", "ack", "open"} /\ (conn'[k].phase # "swap" => conn[k].phase # "swap")
    BY Zenon DEF Quiet
  <1>2. Sole(k) BY <1>1, SoleBefore, Zenon DEF Quiet
  <1>3. closer[k] = "no" /\ conn'[k].id = conn[k].id /\ conn'[k].at = conn[k].at
    BY <1>1, Zenon DEF Quiet, Keeps
  <1> QED BY <1>1, <1>2, <1>3, Zenon DEF SoleInv

LEMMA AwaitedKept ==
  ASSUME MapInv, Keeps, NEW k \in Conn, NEW n, NEW u, NEW c, NEW w, AwaitedOf(k, n, u, c, w),
         conn[k].phase = "swap" => conn'[k].phase = "swap",
         closer[k] = "report" => closer'[k] = "report"
  PROVE  AwaitedOf(k, n, u, c, w)'
  <1>1. conn[k].phase # "idle" BY Zenon DEF AwaitedOf, MapInv
  <1>2. conn'[k].id = conn[k].id /\ conn'[k].at = conn[k].at BY <1>1, Zenon DEF Keeps
  <1> QED BY <1>2, Zenon DEF AwaitedOf

LEMMA QuietRoute == ASSUME TypeOK, MapInv, RouteInv, Quiet PROVE RouteInv'
  <1>1. \A k \in Conn : /\ conn[k].phase = "swap" => conn'[k].phase = "swap"
                        /\ closer[k] = "report" => closer'[k] = "report"
    BY Zenon DEF Quiet
  <1>2. ASSUME NEW n, NEW u, NEW c, NEW w, NEW k \in Conn, AwaitedOf(k, n, u, c, w)
        PROVE  AwaitedOf(k, n, u, c, w)'
    BY <1>1, <1>2, AwaitedKept, Zenon DEF Quiet
  <1> QED BY <1>2 DEF RouteInv, Quiet

LEMMA QuietInv ==
  ASSUME Inv, Quiet, UNCHANGED <<directory, applied>>, kicked' \subseteq Conn \X Conn, KickInv'
  PROVE  Inv'
  <1>1. TypeOK' BY Zenon DEF Inv, TypeOK, Quiet, Keeps
  <1>2. DirInv' BY DEF Inv, DirInv, Quiet
  <1>3. OneUser' <=> OneUser BY Zenon DEF OneUser
  <1> QED BY <1>1, <1>2, <1>3, QuietMap, QuietSole, QuietRoute, Zenon DEF Inv

LEMMA ArriveInv ==
  ASSUME Inv, NEW k \in Conn, NEW s \in Server, NEW i \in Identities,
         Accept(k, s, i) \/ Refuse(k, s, i)
  PROVE  Inv'
  <1> USE DEF Inv
  <1>1. PICK r \in ConnStates :
          /\ conn[k].phase = "idle" /\ conn' = [conn EXCEPT ![k] = r] /\ r.id = i
          /\ \/ r.phase = "kick" /\ UNCHANGED closer
             \/ r.phase = "refused" /\ closer' = [closer EXCEPT ![k] = "closing"]
    <2>1. i \in User \X Client BY SessionsAssumption, Zenon
    <2> DEFINE r == [phase |-> "kick", id |-> i, at |-> s, todo |-> Broker \ {s[1]},
                     waits |-> NoConn]
               z == [phase |-> "refused", id |-> i, at |-> s, todo |-> {}, waits |-> NoConn]
    <2>2. r \in ConnStates /\ z \in ConnStates BY <2>1, Zenon DEF ConnStates
    <2>3. CASE Accept(k, s, i)
      <3>1. conn[k].phase = "idle" /\ conn' = [conn EXCEPT ![k] = r] /\ UNCHANGED closer
        BY <2>3, Zenon DEF Accept
      <3>2. r.id = i /\ r.phase = "kick" OBVIOUS
      <3> HIDE DEF r
      <3> QED BY <2>2, <3>1, <3>2, Zenon
    <2>4. CASE Refuse(k, s, i)
      <3>1. /\ conn[k].phase = "idle" /\ conn' = [conn EXCEPT ![k] = z]
            /\ closer' = [closer EXCEPT ![k] = "closing"]
        BY <2>4, Zenon DEF Refuse
      <3>2. z.id = i /\ z.phase = "refused" OBVIOUS
      <3> HIDE DEF z
      <3> QED BY <2>2, <3>1, <3>2, Zenon
    <2> QED BY <2>3, <2>4, Zenon
  <1>2. UNCHANGED <<conns, log, lost, directory, applied, kicked>> BY Zenon DEF Accept, Refuse
  <1>3. closer[k] = "no" BY <1>1, Zenon DEF MapInv
  <1>4. Keeps BY <1>1, <1>3, Zenon DEF TypeOK, Keeps, CloserStates
  <1>5. Quiet BY <1>1, <1>2, <1>3, <1>4 DEF TypeOK, MapInv, Quiet
  <1>6. KickInv' BY <1>2, <1>4, KickKept, Zenon
  <1> QED BY <1>2, <1>5, <1>6, QuietInv, Zenon DEF TypeOK

LEMMA ReturnInv == ASSUME Inv, NEW k \in Conn, Return(k) PROVE Inv'
  <1> USE DEF Inv
  <1>1. PICK r \in ConnStates :
          /\ conn[k].phase = "ack" /\ conn' = [conn EXCEPT ![k] = r] /\ r.id = conn[k].id
          /\ r.at = conn[k].at /\ r.phase = "open"
    <2> DEFINE r == [conn[k] EXCEPT !.phase = "open", !.waits = NoConn]
    <2>1. r \in ConnStates /\ r.id = conn[k].id /\ r.at = conn[k].at /\ r.phase = "open"
      BY Zenon DEF TypeOK, ConnStates
    <2>2. conn[k].phase = "ack" /\ conn' = [conn EXCEPT ![k] = r]
      BY Zenon DEF Return, TypeOK, ConnStates
    <2> HIDE DEF r
    <2> QED BY <2>1, <2>2, Zenon
  <1>2. UNCHANGED <<closer, conns, log, lost, directory, applied, kicked>> BY Zenon DEF Return
  <1>3. Keeps BY <1>1, <1>2, Zenon DEF TypeOK, Keeps
  <1>4. Quiet BY <1>1, <1>2, <1>3 DEF TypeOK, MapInv, Quiet
  <1>5. KickInv' BY <1>2, <1>3, KickKept, Zenon
  <1> QED BY <1>2, <1>4, <1>5, QuietInv, Zenon DEF TypeOK

LEMMA DropInv == ASSUME Inv, NEW k \in Conn, Drop(k) PROVE Inv'
  <1> USE DEF Inv, Drop
  <1>1. Keeps BY Zenon DEF TypeOK, Keeps, CloserStates
  <1>2. Quiet BY <1>1 DEF TypeOK, MapInv, Quiet
  <1>3. KickInv' BY <1>1, KickKept, Zenon
  <1> QED BY <1>2, <1>3, QuietInv, Zenon DEF TypeOK

LEMMA InMap ==
  ASSUME TypeOK, MapInv, NEW s \in Server, NEW c \in Client, conns[s][c] # NoConn
  PROVE  /\ conns[s][c] \in Conn
         /\ conn[conns[s][c]].at = s /\ conn[conns[s][c]].id[2] = c
         /\ conn[conns[s][c]].phase \in {"ack", "open"}
         /\ closer[conns[s][c]] \in {"no", "closing"}
  <1>1. conns[s][c] \in Conn BY DEF TypeOK
  <1> QED BY <1>1, Zenon DEF MapInv

(* A kick closes what the map has under the client id, which is what the   *)
(* directory led to if the networks are the same.                          *)
LEMMA KickPeerInv == ASSUME Inv, NEW k \in Conn, NEW b \in Broker, KickPeer(k, b) PROVE Inv'
  <1> USE DEF Inv
  <1>1. conn[k] \in ConnStates /\ conn[k].phase = "kick" /\ b \in conn[k].todo
    BY Zenon DEF TypeOK, KickPeer
  <1>2. PICK a \in Broker, w \in Net : conn[k].at = <<a, w>> BY <1>1 DEF ConnStates, Server
  <1>3. PICK u \in User, c \in Client : conn[k].id = <<u, c>> BY <1>1 DEF ConnStates
  <1>4. PICK s \in Server, x \in Conn \cup {NoConn} : s = <<b, w>> /\ x = conns[s][c]
    <2>1. <<b, w>> \in Server BY Zenon DEF Server
    <2>2. conns[<<b, w>>][c] \in Conn \cup {NoConn} BY <2>1 DEF TypeOK
    <2> QED BY <2>1, <2>2, Zenon
  <1>5. x # NoConn => /\ conn[x].phase \in {"ack", "open"} /\ conn[x].at = s
                      /\ closer[x] \in {"no", "closing"}
    BY <1>4, InMap
  <1>6. UNCHANGED <<conns, log, lost, directory, applied>> BY Zenon DEF KickPeer
  <1>7. \/ /\ HasClient(directory[a], b, u, c)
           /\ kicked' = kicked \cup
                ({<<k, conns[<<b, directory[a].userClients[b][u][c]>>][c]>>} \ {<<k, NoConn>>})
           /\ \/ /\ x # NoConn /\ closer[x] = "no" /\ closer' = [closer EXCEPT ![x] = "closing"]
                 /\ conn' = [conn EXCEPT ![k].todo = @ \ {b}, ![k].waits = x]
              \/ /\ x = NoConn \/ closer[x] # "no"
                 /\ conn' = [conn EXCEPT ![k].todo = @ \ {b}] /\ UNCHANGED closer
        \/ conn' = [conn EXCEPT ![k].todo = @ \ {b}] /\ UNCHANGED <<closer, kicked>>
    <2>1. conn[k].at[1] = a /\ conn[k].at[2] = w /\ conn[k].id[1] = u /\ conn[k].id[2] = c
      BY <1>2, <1>3
    <2>2. Active(<<b, w>>, c) <=> x # NoConn /\ closer[x] = "no" BY <1>4, Zenon DEF Active
    <2>3. conns[<<b, w>>][c] = x BY <1>4, Zenon
    <2> QED BY <2>1, <2>2, <2>3, Zenon DEF KickPeer
  <1>8. PICK r \in ConnStates :
          /\ conn' = [conn EXCEPT ![k] = r] /\ r.phase = "kick"
          /\ r.id = conn[k].id /\ r.at = conn[k].at
    <2> DEFINE y == [conn[k] EXCEPT !.todo = @ \ {b}]
               z == [conn[k] EXCEPT !.todo = @ \ {b}, !.waits = x]
    <2>1. /\ y \in ConnStates /\ y.phase = "kick" /\ y.id = conn[k].id /\ y.at = conn[k].at
          /\ z \in ConnStates /\ z.phase = "kick" /\ z.id = conn[k].id /\ z.at = conn[k].at
      BY <1>1, Zenon DEF ConnStates
    <2>2. conn' = [conn EXCEPT ![k] = y] \/ conn' = [conn EXCEPT ![k] = z]
      BY <1>7, Zenon DEF TypeOK, ConnStates
    <2> HIDE DEF y, z
    <2> QED BY <2>1, <2>2, Zenon
  <1>9. \/ UNCHANGED closer
        \/ x # NoConn /\ closer[x] = "no" /\ closer' = [closer EXCEPT ![x] = "closing"]
    BY <1>7, Zenon
  <1>10. Keeps BY <1>1, <1>5, <1>8, <1>9, Zenon DEF TypeOK, Keeps, CloserStates
  <1>11. Quiet BY <1>1, <1>5, <1>6, <1>8, <1>9, <1>10 DEF TypeOK, MapInv, Quiet
  <1>12. CASE UNCHANGED kicked
    BY <1>6, <1>10, <1>11, <1>12, KickKept, QuietInv, Zenon DEF TypeOK
  <1>13. CASE /\ HasClient(directory[a], b, u, c)
              /\ kicked' = kicked \cup
                   ({<<k, conns[<<b, directory[a].userClients[b][u][c]>>][c]>>} \ {<<k, NoConn>>})
              /\ \/ closer' = [closer EXCEPT ![x] = "closing"]
                 \/ (x = NoConn \/ closer[x] # "no") /\ UNCHANGED closer
    <2>1. PICK v \in Net : v = directory[a].userClients[b][u][c]
      BY <1>13 DEF TypeOK, Directories, HasClient
    <2>2. PICK t \in Server, o \in Conn \cup {NoConn} : t = <<b, v>> /\ o = conns[t][c]
      <3>1. <<b, v>> \in Server BY Zenon DEF Server
      <3>2. conns[<<b, v>>][c] \in Conn \cup {NoConn} BY <3>1 DEF TypeOK
      <3> QED BY <3>1, <3>2, Zenon
    <2>3. kicked' = kicked \cup ({<<k, o>>} \ {<<k, NoConn>>}) BY <1>13, <2>1, <2>2, Zenon
    <2>4. o # NoConn => conn[o].phase \in {"ack", "open"} /\ conn[o].at = t
      BY <2>2, InMap
    <2>5. kicked' \subseteq Conn \X Conn BY <2>3 DEF TypeOK
    <2>6. ASSUME NEW p \in kicked'
          PROVE  /\ conn'[p[1]].phase # "idle" /\ conn'[p[2]].phase # "idle"
                 /\ conn'[p[1]].at[2] = conn'[p[2]].at[2] => closer'[p[2]] # "no"
      <3>1. CASE p \in kicked BY <1>10, <3>1, Zenon DEF KickInv, Keeps, TypeOK
      <3>2. CASE p \notin kicked
        <4>1. o # NoConn /\ p[1] = k /\ p[2] = o BY <2>3, <2>6, <3>2
        <4>2. o \in Conn /\ conn'[o].at = <<b, v>> /\ conn'[o].phase # "idle"
          BY <1>10, <2>2, <2>4, <4>1, Zenon DEF Keeps
        <4>3. conn'[k].at = <<a, w>> /\ conn'[k].phase # "idle"
          BY <1>1, <1>2, <1>10, Zenon DEF Keeps
        <4>4. w = v => closer'[o] # "no"
          BY <1>4, <1>13, <2>2, <4>1, Zenon DEF TypeOK
        <4> QED BY <4>1, <4>2, <4>3, <4>4
      <3> QED BY <3>1, <3>2, Zenon
    <2>7. KickInv' BY <2>6, Zenon DEF KickInv
    <2> QED BY <1>6, <1>11, <2>5, <2>7, QuietInv, Zenon
  <1> QED BY <1>7, <1>12, <1>13, Zenon

(* A broker that applies the next entry follows the log.                   *)
LEMMA ApplyInv == ASSUME Inv, NEW b \in Broker, Apply(b) PROVE Inv'
  <1> USE DEF Inv
  <1>1. UNCHANGED <<conn, closer, conns, log, lost, kicked>> BY Zenon DEF Apply
  <1>2. Keeps BY <1>1, Zenon DEF TypeOK, Keeps
  <1>3. Quiet BY <1>1, <1>2, Zenon DEF Quiet, MapInv
  <1>4. PICK m \in Nat, op \in LogOps :
          /\ m = applied[b] /\ m + 1 \in 1..Len(log) /\ op = log[m + 1]
          /\ directory' = [directory EXCEPT ![b] = applyRaftOp(directory[b], op)]
          /\ applied' = [applied EXCEPT ![b] = m + 1]
    <2>1. applied[b] \in Nat /\ Len(log) \in Nat /\ applied[b] < Len(log)
      BY DEF TypeOK, Apply
    <2>2. applied[b] + 1 \in 1..Len(log) BY <2>1
    <2>3. log[applied[b] + 1] \in LogOps BY <2>2 DEF TypeOK, LogOps
    <2> QED BY <2>1, <2>2, <2>3, Zenon DEF Apply
  <1>5. TypeOK'
    <2>1. directory' \in [Broker -> Directories] BY <1>4, AppliedOp DEF TypeOK
    <2>2. applied' \in [Broker -> 0..Len(log)]
      <3>1. m + 1 \in 0..Len(log) BY <1>4
      <3> QED BY <1>4, <3>1, Zenon DEF TypeOK
    <2> QED BY <1>1, <2>1, <2>2, Zenon DEF TypeOK
  <1>6. ASSUME NEW a \in Broker, NEW n \in Broker, NEW u \in User, NEW c \in Client, NEW w \in Net
        PROVE  directory'[a].userClients[n][u][c] = w <=> OpenIn(log', applied'[a], n, u, c, w)
    <2>1. CASE a # b BY <1>1, <1>4, <2>1 DEF DirInv, TypeOK
    <2>2. CASE a = b
      <3>1. /\ directory[b] \in Directories /\ directory'[b] = applyRaftOp(directory[b], op)
            /\ applied'[b] = m + 1
        BY <1>4, Zenon DEF TypeOK
      <3>2. directory[b].userClients[n][u][c] = w <=> OpenIn(log, m, n, u, c, w)
        BY <1>4, Zenon DEF DirInv
      <3>3. applyRaftOp(directory[b], op).userClients[n][u][c] = w <=>
              IF Same(op, n, u, c) THEN op.type = "userOpened" /\ op.net = w
                                   ELSE directory[b].userClients[n][u][c] = w
        BY <3>1, AppliedOp
      <3>4. OpenIn(log, m + 1, n, u, c, w) <=>
              IF Same(log[m + 1], n, u, c)
                THEN log[m + 1].type = "userOpened" /\ log[m + 1].net = w
                ELSE OpenIn(log, m, n, u, c, w)
        BY OpenNext, Zenon
      <3> QED BY <1>1, <1>4, <2>2, <3>1, <3>2, <3>3, <3>4, Zenon
    <2> QED BY <2>1, <2>2, Zenon
  <1>7. DirInv' BY <1>6, Zenon DEF DirInv
  <1>8. KickInv' BY <1>1, <1>2, KickKept, Zenon
  <1>9. OneUser' <=> OneUser BY Zenon DEF OneUser
  <1> QED BY <1>3, <1>5, <1>7, <1>8, <1>9, QuietMap, QuietSole, QuietRoute, Zenon

(* A proposal leaves what the brokers have applied.                        *)
LEMMA SubmitTypes ==
  ASSUME TypeOK, DirInv, NEW op \in LogOps, SubmitOperation(op), UNCHANGED <<directory, applied>>
  PROVE  /\ log' \in Seq(UserOpenedOps \cup UserClosedOps) /\ lost \subseteq lost'
         /\ lost' \subseteq UserOpenedOps \cup UserClosedOps
         /\ applied' \in [Broker -> 0..Len(log')] /\ DirInv'
  <1>1. log \in Seq(LogOps) /\ lost \subseteq LogOps /\ applied \in [Broker -> 0..Len(log)]
    BY Zenon DEF TypeOK, LogOps
  <1>2. CASE log' = Append(log, op) /\ UNCHANGED lost
    <2>1. log' \in Seq(LogOps) /\ Len(log') = Len(log) + 1 BY <1>1, <1>2
    <2>2. \A m \in 0..Len(log) : m \in 0..Len(log') BY <1>1, <2>1
    <2>3. applied' \in [Broker -> 0..Len(log')] BY <1>1, <2>2, Zenon
    <2>4. ASSUME NEW b \in Broker, NEW n \in Broker, NEW u \in User, NEW c \in Client, NEW w \in Net
          PROVE  directory'[b].userClients[n][u][c] = w <=> OpenIn(log', applied'[b], n, u, c, w)
      <3>1. applied[b] \in 0..Len(log) BY <1>1, Zenon
      <3>2. OpenIn(Append(log, op), applied[b], n, u, c, w) <=> OpenIn(log, applied[b], n, u, c, w)
        BY <1>1, <3>1, OpenPrefix, Zenon
      <3> QED BY <1>2, <3>2 DEF DirInv
    <2>5. DirInv' BY <2>4, Zenon DEF DirInv
    <2> QED BY <1>1, <1>2, <2>1, <2>3, <2>5, Zenon DEF LogOps
  <1>3. CASE lost' = lost \cup {op} /\ UNCHANGED log
    <2>1. DirInv' BY <1>3, Zenon DEF DirInv
    <2> QED BY <1>1, <1>3, <2>1, Zenon DEF LogOps
  <1> QED BY <1>2, <1>3, Zenon DEF SubmitOperation

LEMMA SubmitOther ==
  ASSUME TypeOK, NEW op \in LogOps, SubmitOperation(op),
         NEW n, NEW u, NEW c, NEW w, ~Same(op, n, u, c)
  PROVE  OpenIn(log', Len(log'), n, u, c, w) <=> OpenIn(log, Len(log), n, u, c, w)
  <1>1. log \in Seq(LogOps) BY Zenon DEF TypeOK, LogOps
  <1>2. CASE log' = Append(log, op)
    <2>1. OpenIn(Append(log, op), Len(Append(log, op)), n, u, c, w) <=>
           IF Same(op, n, u, c) THEN op.type = "userOpened" /\ op.net = w
                                ELSE OpenIn(log, Len(log), n, u, c, w)
      BY <1>1, OpenAppend, Zenon
    <2> QED BY <1>2, <2>1, Zenon
  <1>3. CASE UNCHANGED log BY <1>3, Zenon
  <1> QED BY <1>2, <1>3, Zenon DEF SubmitOperation

(* What another connection that is not idle does is about another client,  *)
(* or at another broker, than what a sole login does.                      *)
LEMMA SoleOther ==
  ASSUME TypeOK, NEW k \in Conn, NEW j \in Conn, j # k, conn[j].phase # "idle", Sole(k),
         NEW op, op.nodeID = conn[j].at[1], op.cid = conn[j].id[2]
  PROVE  /\ ~Same(op, conn[k].at[1], conn[k].id[1], conn[k].id[2])
         /\ conn[j].at # conn[k].at \/ conn[j].id[2] # conn[k].id[2]
  BY Zenon DEF Sole, Same

(* The entry of a login is the last about its client until the client      *)
(* closes or logs in again.                                                *)
LEMMA SubmitOpenedInv == ASSUME Inv, NEW k \in Conn, SubmitOpened(k) PROVE Inv'
  <1> USE DEF Inv
  <1>1. /\ conn[k] \in ConnStates /\ conn[k].phase = "kick" /\ conn[k].id \in Identities
        /\ closer[k] = "no"
    BY DEF TypeOK, SubmitOpened, MapInv
  <1>2. PICK a \in Broker, w \in Net : conn[k].at = <<a, w>> BY <1>1 DEF ConnStates, Server
  <1>3. PICK u \in User, c \in Client : conn[k].id = <<u, c>> BY <1>1 DEF ConnStates
  <1>4. PICK op \in UserOpenedOps :
          /\ SubmitOperation(op)
          /\ op.nodeID = a /\ op.uid = u /\ op.cid = c /\ op.net = w /\ op.type = "userOpened"
    <2>1. PICK chs \in SUBSET Channel :
            SubmitOperation([type |-> "userOpened", nodeID |-> conn[k].at[1],
                             uid |-> conn[k].id[1], cid |-> conn[k].id[2],
                             net |-> conn[k].at[2], channels |-> chs])
      BY Zenon DEF SubmitOpened
    <2> DEFINE e == [type |-> "userOpened", nodeID |-> a, uid |-> u, cid |-> c,
                     net |-> w, channels |-> chs]
    <2>2. SubmitOperation(e) BY <1>2, <1>3, <2>1
    <2>3. /\ e \in UserOpenedOps /\ e.nodeID = a /\ e.uid = u /\ e.cid = c /\ e.net = w
          /\ e.type = "userOpened"
      BY Zenon DEF UserOpenedOps
    <2> HIDE DEF e
    <2> QED BY <2>2, <2>3, Zenon
  <1>5. op \in LogOps BY Zenon DEF LogOps
  <1>6. UNCHANGED <<closer, conns, directory, applied, kicked>> BY Zenon DEF SubmitOpened
  <1>7. PICK r \in ConnStates :
          /\ conn' = [conn EXCEPT ![k] = r] /\ r.phase = "swap"
          /\ r.id = conn[k].id /\ r.at = conn[k].at
    <2> DEFINE r == [conn[k] EXCEPT !.phase = "swap", !.waits = NoConn]
    <2>1. r \in ConnStates /\ r.id = conn[k].id /\ r.at = conn[k].at /\ r.phase = "swap"
      BY <1>1, Zenon DEF ConnStates
    <2>2. conn' = [conn EXCEPT ![k] = r] BY Zenon DEF SubmitOpened, TypeOK, ConnStates
    <2> HIDE DEF r
    <2> QED BY <2>1, <2>2, Zenon
  <1>8. conn'[k] = r /\ \A j \in Conn \ {k} : conn'[j] = conn[j] BY <1>7, Zenon DEF TypeOK
  <1>9. Keeps BY <1>1, <1>6, <1>7, Zenon DEF TypeOK, Keeps
  <1>10. lost \subseteq lost' /\ TypeOK' /\ DirInv'
    <2>1. /\ log' \in Seq(UserOpenedOps \cup UserClosedOps) /\ lost \subseteq lost'
          /\ lost' \subseteq UserOpenedOps \cup UserClosedOps
          /\ applied' \in [Broker -> 0..Len(log')] /\ DirInv'
      BY <1>4, <1>5, <1>6, SubmitTypes, Zenon
    <2> QED BY <1>6, <1>9, <2>1, Zenon DEF TypeOK, Keeps
  <1>11. MapInv'
    <2>1. ASSUME NEW s \in Server, NEW x \in Client, conns'[s][x] # NoConn
          PROVE  /\ conn'[conns'[s][x]].at = s /\ conn'[conns'[s][x]].id[2] = x
                 /\ conn'[conns'[s][x]].phase \in {"ack", "open"}
                 /\ closer'[conns'[s][x]] \in {"no", "closing"}
      <3>1. /\ conns[s][x] \in Conn /\ conn[conns[s][x]].at = s /\ conn[conns[s][x]].id[2] = x
            /\ conn[conns[s][x]].phase \in {"ack", "open"}
            /\ closer[conns[s][x]] \in {"no", "closing"}
        BY <1>6, <2>1, InMap
      <3>2. conn'[conns[s][x]] = conn[conns[s][x]] BY <1>1, <1>8, <3>1, Zenon
      <3> QED BY <1>6, <3>1, <3>2, Zenon
    <2>2. \A j \in Conn : conn'[j].phase \in {"idle", "kick", "swap"} => closer'[j] = "no"
      BY <1>1, <1>6, <1>8 DEF MapInv
    <2>3. \A j \in Conn : conn'[j].phase # "idle" => conn'[j].id \in Identities
      BY <1>1, <1>7, <1>8 DEF MapInv
    <2> QED BY <2>1, <2>2, <2>3, Zenon DEF MapInv
  <1>12. KickInv' BY <1>6, <1>9, KickKept, Zenon
  <1>13. SoleInv'
    <2> SUFFICES ASSUME NEW j \in Conn, Sole(j)', closer'[j] = "no",
                        conn'[j].phase \in {"swap", "ack", "open"}
                 PROVE  /\ OpenIn(log', Len(log'), conn'[j].at[1], conn'[j].id[1],
                                  conn'[j].id[2], conn'[j].at[2])
                        /\ conn'[j].phase # "swap" => conns'[conn'[j].at][conn'[j].id[2]] = j
      BY Zenon DEF SoleInv
    <2>1. CASE j = k
      <3>1. conn'[k].at = <<a, w>> /\ conn'[k].id = <<u, c>> /\ conn'[k].phase = "swap"
        BY <1>2, <1>3, <1>7, <1>8, Zenon
      <3>2. op \notin lost' BY <1>4, <2>1, <3>1 DEF Sole
      <3>3. log' = Append(log, op) BY <1>4, <3>2, Zenon DEF SubmitOperation
      <3>4. OpenIn(Append(log, op), Len(Append(log, op)), a, u, c, w)
        <4>1. log \in Seq(LogOps) BY Zenon DEF TypeOK, LogOps
        <4> QED BY <1>4, <1>5, <4>1, OpenAppend, Zenon DEF Same
      <3> QED BY <2>1, <3>1, <3>3, <3>4
    <2>2. CASE j # k
      <3>1. conn'[j] = conn[j] /\ conn[j].phase # "idle" BY <1>8, <2>2, Zenon
      <3>2. Sole(j) BY <1>9, <1>10, <3>1, SoleBefore, Zenon
      <3>3. ~Same(op, conn[j].at[1], conn[j].id[1], conn[j].id[2])
        BY <1>1, <1>2, <1>3, <1>4, <2>2, <3>2, SoleOther
      <3>4. /\ OpenIn(log, Len(log), conn[j].at[1], conn[j].id[1], conn[j].id[2], conn[j].at[2])
            /\ conn[j].phase # "swap" => conns[conn[j].at][conn[j].id[2]] = j
        BY <1>6, <3>1, <3>2, Zenon DEF SoleInv
      <3> QED BY <1>4, <1>5, <1>6, <3>1, <3>3, <3>4, SubmitOther, Zenon
    <2> QED BY <2>1, <2>2, Zenon
  <1>14. ASSUME OneUser PROVE RouteInv'
    <2>1. \A i \in 1..Len(log') : <<log'[i].uid, log'[i].cid>> \in Identities
      <3>1. CASE log' = log BY <1>14, <3>1, Zenon DEF RouteInv
      <3>2. CASE log' = Append(log, op)
        <4>1. \A i \in 1..Len(log') : (i \in 1..Len(log) /\ log'[i] = log[i]) \/ log'[i] = op
          BY <1>5, <3>2 DEF TypeOK
        <4>2. <<op.uid, op.cid>> \in Identities BY <1>1, <1>3, <1>4, Zenon
        <4> QED BY <1>14, <4>1, <4>2, Zenon DEF RouteInv
      <3> QED BY <1>4, <3>1, <3>2, Zenon DEF SubmitOperation
    <2>2. ASSUME NEW n \in Broker, NEW v \in User, NEW x \in Client, NEW z \in Net,
                 OpenIn(log', Len(log'), n, v, x, z)
          PROVE  \/ [type |-> "userClosed", nodeID |-> n, uid |-> v, cid |-> x] \in lost'
                 \/ conns'[<<n, z>>][x] # NoConn
                 \/ \E j \in Conn : AwaitedOf(j, n, v, x, z)'
      <3>1. CASE OpenIn(log, Len(log), n, v, x, z)
        <4>1. ASSUME NEW j \in Conn, AwaitedOf(j, n, v, x, z) PROVE AwaitedOf(j, n, v, x, z)'
          <5>1. conn[j].phase = "swap" => conn'[j].phase = "swap" BY <1>1, <1>8, Zenon
          <5> QED BY <1>6, <1>9, <4>1, <5>1, AwaitedKept, Zenon
        <4> QED BY <1>6, <1>10, <1>14, <3>1, <4>1, Zenon DEF RouteInv
      <3>2. CASE ~OpenIn(log, Len(log), n, v, x, z)
        <4>1. Same(op, n, v, x) BY <1>4, <1>5, <2>2, <3>2, SubmitOther, Zenon
        <4>2. log' = Append(log, op) BY <1>4, <2>2, <3>2, Zenon DEF SubmitOperation
        <4>3. op.net = z
          <5>1. log \in Seq(LogOps) BY Zenon DEF TypeOK, LogOps
          <5> QED BY <1>5, <2>2, <4>1, <4>2, <5>1, OpenAppend, Zenon
        <4>4. conn'[k].id = <<v, x>> /\ conn'[k].at = <<n, z>> /\ conn'[k].phase = "swap"
          BY <1>2, <1>3, <1>4, <1>7, <1>8, <4>1, <4>3, Zenon DEF Same
        <4> QED BY <4>4, Zenon DEF AwaitedOf
      <3> QED BY <3>1, <3>2, Zenon
    <2> QED BY <2>1, <2>2, Zenon DEF RouteInv
  <1>15. OneUser' <=> OneUser BY Zenon DEF OneUser
  <1> QED BY <1>10, <1>11, <1>12, <1>13, <1>14, <1>15, Zenon

(* The report of a Close ends what the log has open of the client.         *)
LEMMA UserClosedInv == ASSUME Inv, NEW k \in Conn, onUserClosed(k) PROVE Inv'
  <1> USE DEF Inv
  <1>1. /\ conn[k] \in ConnStates /\ conn[k].phase \notin {"idle", "kick", "swap"}
        /\ conn[k].id \in Identities /\ closer[k] = "report"
    BY DEF TypeOK, onUserClosed, MapInv
  <1>2. PICK a \in Broker, w \in Net : conn[k].at = <<a, w>> BY <1>1 DEF ConnStates, Server
  <1>3. PICK u \in User, c \in Client : conn[k].id = <<u, c>> BY <1>1 DEF ConnStates
  <1>4. PICK op \in UserClosedOps :
          /\ SubmitOperation(op)
          /\ op.nodeID = a /\ op.uid = u /\ op.cid = c /\ op.type = "userClosed"
          /\ op = [type |-> "userClosed", nodeID |-> a, uid |-> u, cid |-> c]
    <2> DEFINE e == [type |-> "userClosed", nodeID |-> a, uid |-> u, cid |-> c]
    <2>1. SubmitOperation(e) BY <1>2, <1>3 DEF onUserClosed
    <2>2. e \in UserClosedOps /\ e.nodeID = a /\ e.uid = u /\ e.cid = c /\ e.type = "userClosed"
      BY Zenon DEF UserClosedOps
    <2> QED BY <2>1, <2>2, Zenon
  <1>5. op \in LogOps BY Zenon DEF LogOps
  <1>6. /\ UNCHANGED <<conn, conns, directory, applied, kicked>>
        /\ closer' = [closer EXCEPT ![k] = "done"]
    BY Zenon DEF onUserClosed
  <1>7. closer'[k] = "done" /\ \A j \in Conn \ {k} : closer'[j] = closer[j] BY <1>6, Zenon DEF TypeOK
  <1>8. Keeps BY <1>6, <1>7, Zenon DEF TypeOK, Keeps, CloserStates
  <1>9. lost \subseteq lost' /\ TypeOK' /\ DirInv'
    <2>1. /\ log' \in Seq(UserOpenedOps \cup UserClosedOps) /\ lost \subseteq lost'
          /\ lost' \subseteq UserOpenedOps \cup UserClosedOps
          /\ applied' \in [Broker -> 0..Len(log')] /\ DirInv'
      BY <1>4, <1>5, <1>6, SubmitTypes, Zenon
    <2> QED BY <1>6, <1>8, <2>1, Zenon DEF TypeOK, Keeps
  <1>10. MapInv'
    <2>1. ASSUME NEW s \in Server, NEW x \in Client, conns'[s][x] # NoConn
          PROVE  /\ conn'[conns'[s][x]].at = s /\ conn'[conns'[s][x]].id[2] = x
                 /\ conn'[conns'[s][x]].phase \in {"ack", "open"}
                 /\ closer'[conns'[s][x]] \in {"no", "closing"}
      <3>1. /\ conns[s][x] \in Conn /\ conn[conns[s][x]].at = s /\ conn[conns[s][x]].id[2] = x
            /\ conn[conns[s][x]].phase \in {"ack", "open"}
            /\ closer[conns[s][x]] \in {"no", "closing"}
        BY <1>6, <2>1, InMap
      <3>2. closer'[conns[s][x]] = closer[conns[s][x]] BY <1>1, <1>7, <3>1, Zenon
      <3> QED BY <1>6, <3>1, <3>2, Zenon
    <2> QED BY <1>1, <1>6, <1>7, <2>1 DEF MapInv
  <1>11. KickInv' BY <1>6, <1>8, KickKept, Zenon
  <1>12. SoleInv'
    <2> SUFFICES ASSUME NEW j \in Conn, Sole(j)', closer'[j] = "no",
                        conn[j].phase \in {"swap", "ack", "open"}
                 PROVE  /\ OpenIn(log', Len(log'), conn[j].at[1], conn[j].id[1],
                                  conn[j].id[2], conn[j].at[2])
                        /\ conn[j].phase # "swap" => conns[conn[j].at][conn[j].id[2]] = j
      BY <1>6, Zenon DEF SoleInv
    <2>1. j # k /\ closer[j] = "no" BY <1>7, Zenon
    <2>2. Sole(j) BY <1>8, <1>9, SoleBefore, Zenon
    <2>3. ~Same(op, conn[j].at[1], conn[j].id[1], conn[j].id[2])
      BY <1>1, <1>2, <1>3, <1>4, <2>1, <2>2, SoleOther
    <2>4. /\ OpenIn(log, Len(log), conn[j].at[1], conn[j].id[1], conn[j].id[2], conn[j].at[2])
          /\ conn[j].phase # "swap" => conns[conn[j].at][conn[j].id[2]] = j
      BY <2>1, <2>2, Zenon DEF SoleInv
    <2> QED BY <1>4, <1>5, <2>3, <2>4, SubmitOther, Zenon
  <1>13. ASSUME OneUser PROVE RouteInv'
    <2>1. \A i \in 1..Len(log') : <<log'[i].uid, log'[i].cid>> \in Identities
      <3>1. CASE log' = log BY <1>13, <3>1, Zenon DEF RouteInv
      <3>2. CASE log' = Append(log, op)
        <4>1. \A i \in 1..Len(log') : (i \in 1..Len(log) /\ log'[i] = log[i]) \/ log'[i] = op
          BY <1>5, <3>2 DEF TypeOK
        <4>2. <<op.uid, op.cid>> \in Identities BY <1>1, <1>3, <1>4, Zenon
        <4> QED BY <1>13, <4>1, <4>2, Zenon DEF RouteInv
      <3> QED BY <1>4, <3>1, <3>2, Zenon DEF SubmitOperation
    <2>2. ASSUME NEW n \in Broker, NEW v \in User, NEW x \in Client, NEW z \in Net,
                 OpenIn(log', Len(log'), n, v, x, z)
          PROVE  \/ [type |-> "userClosed", nodeID |-> n, uid |-> v, cid |-> x] \in lost'
                 \/ conns'[<<n, z>>][x] # NoConn
                 \/ \E j \in Conn : AwaitedOf(j, n, v, x, z)'
      <3>1. CASE Same(op, n, v, x)
        <4>1. log' # Append(log, op)
          <5>1. log \in Seq(LogOps) BY Zenon DEF TypeOK, LogOps
          <5>2. ~OpenIn(Append(log, op), Len(Append(log, op)), n, v, x, z)
            BY <1>4, <1>5, <3>1, <5>1, OpenAppend, Zenon
          <5> QED BY <2>2, <5>2, Zenon
        <4>2. op \in lost' BY <1>4, <4>1, Zenon DEF SubmitOperation
        <4> QED BY <1>4, <3>1, <4>2, Zenon DEF Same
      <3>2. CASE ~Same(op, n, v, x)
        <4>1. OpenIn(log, Len(log), n, v, x, z) BY <1>4, <1>5, <2>2, <3>2, SubmitOther, Zenon
        <4>2. ASSUME NEW j \in Conn, AwaitedOf(j, n, v, x, z) PROVE AwaitedOf(j, n, v, x, z)'
          <5>1. j # k BY <1>1, <1>2, <1>3, <1>4, <3>2, <4>2 DEF AwaitedOf, Same
          <5> QED BY <1>6, <1>7, <1>8, <4>2, <5>1, AwaitedKept, Zenon
        <4> QED BY <1>6, <1>9, <1>13, <4>1, <4>2, Zenon DEF RouteInv
      <3> QED BY <3>1, <3>2, Zenon
    <2> QED BY <2>1, <2>2, Zenon DEF RouteInv
  <1>14. OneUser' <=> OneUser BY Zenon DEF OneUser
  <1> QED BY <1>9, <1>10, <1>11, <1>12, <1>13, <1>14, Zenon

(* A login that takes a place in the map is not closed; what it replaces   *)
(* gives way to it.                                                        *)
LEMMA SwapInv == ASSUME Inv, NEW k \in Conn, Swap(k) PROVE Inv'
  <1> USE DEF Inv
  <1>1. conn[k] \in ConnStates /\ conn[k].phase = "swap" /\ closer[k] = "no"
        /\ conn[k].id \in Identities
    BY DEF TypeOK, Swap, MapInv
  <1>2. PICK s \in Server : s = conn[k].at BY <1>1, Zenon DEF ConnStates
  <1>3. PICK c \in Client : c = conn[k].id[2] BY <1>1, Zenon DEF ConnStates
  <1>4. PICK x \in Conn \cup {NoConn} : x = conns[s][c] BY DEF TypeOK
  <1>5. x # NoConn => /\ conn[x].phase \in {"ack", "open"} /\ x # k
                      /\ closer[x] \in {"no", "closing"}
    BY <1>1, <1>4, InMap
  <1>6. /\ conns' = [conns EXCEPT ![s][c] = k]
        /\ UNCHANGED <<log, lost, directory, applied, kicked>>
    BY <1>2, <1>3, Zenon DEF Swap
  <1>7. \/ UNCHANGED closer
        \/ x # NoConn /\ closer[x] = "no" /\ closer' = [closer EXCEPT ![x] = "closing"]
    BY <1>2, <1>3, <1>4, Zenon DEF Swap, Active
  <1>8. PICK r \in ConnStates :
          /\ conn' = [conn EXCEPT ![k] = r] /\ r.phase = "ack"
          /\ r.id = conn[k].id /\ r.at = conn[k].at
    <2> DEFINE y == [conn[k] EXCEPT !.phase = "ack"]
               z == [conn[k] EXCEPT !.phase = "ack", !.waits = x]
    <2>1. /\ y \in ConnStates /\ y.phase = "ack" /\ y.id = conn[k].id /\ y.at = conn[k].at
          /\ z \in ConnStates /\ z.phase = "ack" /\ z.id = conn[k].id /\ z.at = conn[k].at
      BY <1>1, Zenon DEF ConnStates
    <2>2. \/ conn' = [conn EXCEPT ![k].phase = "ack", ![k].waits = x]
          \/ conn' = [conn EXCEPT ![k].phase = "ack"]
      BY <1>2, <1>3, <1>4, Zenon DEF Swap
    <2>3. conn' = [conn EXCEPT ![k] = y] \/ conn' = [conn EXCEPT ![k] = z]
      BY <2>2, Zenon DEF TypeOK, ConnStates
    <2> HIDE DEF y, z
    <2> QED BY <2>1, <2>3, Zenon
  <1>9. conn'[k] = r /\ \A j \in Conn \ {k} : conn'[j] = conn[j] BY <1>8, Zenon DEF TypeOK
  <1>10. /\ closer' \in [Conn -> CloserStates] /\ closer'[k] = "no"
         /\ \A j \in Conn : closer'[j] = closer[j] \/
              (j = x /\ closer[j] = "no" /\ closer'[j] = "closing")
    BY <1>1, <1>5, <1>7, Zenon DEF TypeOK, CloserStates
  <1>11. Keeps BY <1>1, <1>8, <1>9, <1>10, Zenon DEF TypeOK, Keeps
  <1>12. /\ conns' \in [Server -> [Client -> Conn \cup {NoConn}]] /\ conns'[s][c] = k
         /\ \A t \in Server, d \in Client : t # s \/ d # c => conns'[t][d] = conns[t][d]
    BY <1>6, Zenon DEF TypeOK
  <1>13. TypeOK' BY <1>6, <1>11, <1>12, Zenon DEF TypeOK, Keeps
  <1>14. DirInv' BY <1>6 DEF DirInv
  <1>15. KickInv' BY <1>6, <1>11, KickKept, Zenon
  <1>16. MapInv'
    <2>1. ASSUME NEW t \in Server, NEW d \in Client, conns'[t][d] # NoConn
          PROVE  /\ conn'[conns'[t][d]].at = t /\ conn'[conns'[t][d]].id[2] = d
                 /\ conn'[conns'[t][d]].phase \in {"ack", "open"}
                 /\ closer'[conns'[t][d]] \in {"no", "closing"}
      <3>1. CASE t = s /\ d = c
        <4>1. conn'[k].at = s /\ conn'[k].id[2] = c /\ conn'[k].phase = "ack"
          BY <1>2, <1>3, <1>8, <1>9, Zenon
        <4> QED BY <1>10, <1>12, <3>1, <4>1, Zenon
      <3>2. CASE t # s \/ d # c
        <4>1. conns'[t][d] = conns[t][d] BY <1>12, <3>2, Zenon
        <4>2. /\ conns[t][d] \in Conn /\ conn[conns[t][d]].at = t /\ conn[conns[t][d]].id[2] = d
              /\ conn[conns[t][d]].phase \in {"ack", "open"}
              /\ closer[conns[t][d]] \in {"no", "closing"}
          BY <2>1, <4>1, InMap
        <4>3. conn'[conns[t][d]] = conn[conns[t][d]] BY <1>1, <1>9, <4>2, Zenon
        <4>4. closer'[conns[t][d]] \in {"no", "closing"} BY <1>10, <4>2, Zenon
        <4> QED BY <4>1, <4>2, <4>3, <4>4, Zenon
      <3> QED BY <3>1, <3>2, Zenon
    <2>2. \A j \in Conn : conn'[j].phase \in {"idle", "kick", "swap"} => closer'[j] = "no"
      <3> SUFFICES ASSUME NEW j \in Conn, conn'[j].phase \in {"idle", "kick", "swap"}
                   PROVE  closer'[j] = "no"
        OBVIOUS
      <3>1. j # k /\ conn[j].phase \in {"idle", "kick", "swap"} BY <1>8, <1>9, Zenon
      <3>2. closer[j] = "no" /\ j # x BY <1>5, <3>1, SessionsAssumption DEF MapInv
      <3> QED BY <1>10, <3>2, Zenon
    <2>3. \A j \in Conn : conn'[j].phase # "idle" => conn'[j].id \in Identities
      <3>1. conn'[k].id \in Identities BY <1>1, <1>8, <1>9, Zenon
      <3>2. \A j \in Conn \ {k} : conn'[j].phase # "idle" => conn'[j].id \in Identities
        BY <1>9, Zenon DEF MapInv
      <3> QED BY <3>1, <3>2, Zenon
    <2> QED BY <2>1, <2>2, <2>3, Zenon DEF MapInv
  <1>17. SoleInv'
    <2> SUFFICES ASSUME NEW j \in Conn, Sole(j)', closer'[j] = "no",
                        conn'[j].phase \in {"swap", "ack", "open"}
                 PROVE  /\ OpenIn(log, Len(log), conn'[j].at[1], conn'[j].id[1],
                                  conn'[j].id[2], conn'[j].at[2])
                        /\ conn'[j].phase # "swap" => conns'[conn'[j].at][conn'[j].id[2]] = j
      BY <1>6, Zenon DEF SoleInv
    <2>1. conn[j].phase \in {"swap", "ack", "open"} BY <1>1, <1>9, Zenon
    <2>2. conn'[j].id = conn[j].id /\ conn'[j].at = conn[j].at BY <1>11, <2>1, Zenon DEF Keeps
    <2>3. Sole(j) BY <1>6, <1>11, <2>1, SoleBefore, Zenon
    <2>4. closer[j] = "no" BY <1>10, Zenon
    <2>5. /\ OpenIn(log, Len(log), conn[j].at[1], conn[j].id[1], conn[j].id[2], conn[j].at[2])
          /\ conn[j].phase # "swap" => conns[conn[j].at][conn[j].id[2]] = j
      BY <2>1, <2>3, <2>4, Zenon DEF SoleInv
    <2>6. conn'[j].phase # "swap" => conns'[conn[j].at][conn[j].id[2]] = j
      <3>1. CASE j = k BY <1>2, <1>3, <1>12, <3>1, Zenon
      <3>2. CASE j # k
        <4>1. conn[k].at # conn[j].at \/ conn[k].id[2] # conn[j].id[2]
          BY <1>1, <2>3, <3>2, Zenon DEF Sole
        <4>2. conn[j].at \in Server /\ conn[j].id[2] \in Client BY Zenon DEF TypeOK, ConnStates
        <4> QED BY <1>2, <1>3, <1>9, <1>12, <2>5, <3>2, <4>1, <4>2, Zenon
      <3> QED BY <3>1, <3>2, Zenon
    <2> QED BY <2>2, <2>5, <2>6, Zenon
  <1>18. ASSUME OneUser PROVE RouteInv'
    <2>1. ASSUME NEW n \in Broker, NEW v \in User, NEW d \in Client, NEW z \in Net,
                 OpenIn(log, Len(log), n, v, d, z)
          PROVE  \/ [type |-> "userClosed", nodeID |-> n, uid |-> v, cid |-> d] \in lost
                 \/ conns'[<<n, z>>][d] # NoConn
                 \/ \E j \in Conn : AwaitedOf(j, n, v, d, z)'
      <3>1. PICK t \in Server : t = <<n, z>> BY Zenon DEF Server
      <3>2. conns[t][d] # NoConn => conns'[t][d] # NoConn BY <1>12, SessionsAssumption, Zenon
      <3>3. ASSUME NEW j \in Conn, AwaitedOf(j, n, v, d, z)
            PROVE  conns'[t][d] # NoConn \/ AwaitedOf(j, n, v, d, z)'
        <4>1. CASE j = k
          <5>1. s = t /\ c = d BY <1>1, <1>2, <1>3, <3>1, <3>3, <4>1 DEF AwaitedOf
          <5> QED BY <1>12, <5>1, SessionsAssumption, Zenon
        <4>2. CASE j # k
          <5>1. /\ conn[j].phase = "swap" => conn'[j].phase = "swap"
                /\ closer[j] = "report" => closer'[j] = "report"
            BY <1>9, <1>10, <4>2, Zenon
          <5> QED BY <1>11, <3>3, <5>1, AwaitedKept, Zenon
        <4> QED BY <4>1, <4>2, Zenon
      <3> QED BY <1>18, <2>1, <3>1, <3>2, <3>3, Zenon DEF RouteInv
    <2> QED BY <1>6, <1>18, <2>1 DEF RouteInv
  <1>19. OneUser' <=> OneUser BY Zenon DEF OneUser
  <1> QED BY <1>13, <1>14, <1>15, <1>16, <1>17, <1>18, <1>19, Zenon

(* OnClose takes out whatever the map has under the client id, and then    *)
(* reports it.                                                             *)
LEMMA OnCloseInv == ASSUME Inv, NEW k \in Conn, OnClose(k) PROVE Inv'
  <1> USE DEF Inv
  <1>1. /\ conn[k] \in ConnStates /\ conn[k].phase \notin {"idle", "kick", "swap"}
        /\ conn[k].id \in Identities /\ closer[k] = "closing"
    BY DEF TypeOK, OnClose, MapInv
  <1>2. PICK s \in Server : s = conn[k].at BY <1>1, Zenon DEF ConnStates
  <1>3. PICK c \in Client : c = conn[k].id[2] BY <1>1, Zenon DEF ConnStates
  <1>4. PICK e \in CloserStates : /\ closer' = [closer EXCEPT ![k] = e]
                                  /\ e \in {"report", "done"}
                                  /\ conns[s][c] # NoConn => e = "report"
    BY <1>2, <1>3, Zenon DEF OnClose, CloserStates
  <1>5. /\ conns' = [conns EXCEPT ![s][c] = NoConn]
        /\ UNCHANGED <<conn, log, lost, directory, applied, kicked>>
    BY <1>2, <1>3, Zenon DEF OnClose
  <1>6. /\ closer' \in [Conn -> CloserStates] /\ closer'[k] = e
        /\ \A j \in Conn \ {k} : closer'[j] = closer[j]
    BY <1>4, Zenon DEF TypeOK
  <1>7. Keeps BY <1>1, <1>4, <1>5, <1>6, Zenon DEF TypeOK, Keeps
  <1>8. /\ conns' \in [Server -> [Client -> Conn \cup {NoConn}]] /\ conns'[s][c] = NoConn
        /\ \A t \in Server, d \in Client : t # s \/ d # c => conns'[t][d] = conns[t][d]
    BY <1>5, Zenon DEF TypeOK
  <1>9. TypeOK' BY <1>5, <1>6, <1>8, Zenon DEF TypeOK
  <1>10. DirInv' BY <1>5, Zenon DEF DirInv
  <1>11. KickInv' BY <1>5, <1>7, KickKept, Zenon
  <1>12. MapInv'
    <2>1. ASSUME NEW t \in Server, NEW d \in Client, conns'[t][d] # NoConn
          PROVE  /\ conn'[conns'[t][d]].at = t /\ conn'[conns'[t][d]].id[2] = d
                 /\ conn'[conns'[t][d]].phase \in {"ack", "open"}
                 /\ closer'[conns'[t][d]] \in {"no", "closing"}
      <3>1. (t # s \/ d # c) /\ conns'[t][d] = conns[t][d] BY <1>8, <2>1, Zenon
      <3>2. /\ conns[t][d] \in Conn /\ conn[conns[t][d]].at = t /\ conn[conns[t][d]].id[2] = d
            /\ conn[conns[t][d]].phase \in {"ack", "open"}
            /\ closer[conns[t][d]] \in {"no", "closing"}
        BY <2>1, <3>1, InMap
      <3>3. conns[t][d] # k BY <1>2, <1>3, <3>1, <3>2, Zenon
      <3> QED BY <1>5, <1>6, <3>1, <3>2, <3>3, Zenon
    <2>2. \A j \in Conn : conn'[j].phase \in {"idle", "kick", "swap"} => closer'[j] = "no"
      BY <1>1, <1>5, <1>6 DEF MapInv
    <2>3. \A j \in Conn : conn'[j].phase # "idle" => conn'[j].id \in Identities
      BY <1>5, Zenon DEF MapInv
    <2> QED BY <2>1, <2>2, <2>3, Zenon DEF MapInv
  <1>13. SoleInv'
    <2> SUFFICES ASSUME NEW j \in Conn, Sole(j)', closer'[j] = "no",
                        conn[j].phase \in {"swap", "ack", "open"}
                 PROVE  /\ OpenIn(log, Len(log), conn[j].at[1], conn[j].id[1],
                                  conn[j].id[2], conn[j].at[2])
                        /\ conn[j].phase # "swap" => conns'[conn[j].at][conn[j].id[2]] = j
      BY <1>5, Zenon DEF SoleInv
    <2>1. Sole(j) BY <1>5, <1>7, SoleBefore, Zenon
    <2>2. j # k /\ closer[j] = "no" BY <1>4, <1>6, Zenon
    <2>3. /\ OpenIn(log, Len(log), conn[j].at[1], conn[j].id[1], conn[j].id[2], conn[j].at[2])
          /\ conn[j].phase # "swap" => conns[conn[j].at][conn[j].id[2]] = j
      BY <2>1, <2>2, Zenon DEF SoleInv
    <2>4. conn[k].at # conn[j].at \/ conn[k].id[2] # conn[j].id[2]
      BY <1>1, <2>1, <2>2, Zenon DEF Sole
    <2>5. conn[j].at \in Server /\ conn[j].id[2] \in Client BY Zenon DEF TypeOK, ConnStates
    <2> QED BY <1>2, <1>3, <1>8, <2>3, <2>4, <2>5, Zenon
  <1>14. ASSUME OneUser PROVE RouteInv'
    <2>1. ASSUME NEW n \in Broker, NEW v \in User, NEW d \in Client, NEW z \in Net,
                 OpenIn(log, Len(log), n, v, d, z)
          PROVE  \/ [type |-> "userClosed", nodeID |-> n, uid |-> v, cid |-> d] \in lost
                 \/ conns'[<<n, z>>][d] # NoConn
                 \/ \E j \in Conn : AwaitedOf(j, n, v, d, z)'
      <3>1. PICK t \in Server : t = <<n, z>> BY Zenon DEF Server
      <3>2. ASSUME conns[t][d] # NoConn, t = s, d = c
            PROVE  AwaitedOf(k, n, v, d, z)'
        <4>1. PICK i \in 1..Len(log) : log[i].uid = v /\ log[i].cid = d
          BY <2>1, Zenon DEF OpenIn, Same
        <4>2. <<v, d>> \in Identities BY <1>14, <4>1, Zenon DEF RouteInv
        <4>3. conn[k].id = <<v, d>>
          <5>1. <<v, d>>[2] = conn[k].id[2] BY <1>3, <3>2, Zenon
          <5> QED BY <1>1, <1>14, <4>2, <5>1, Zenon DEF OneUser
        <4>4. closer'[k] = "report" /\ conn[k].at[1] = n BY <1>2, <1>4, <1>6, <3>1, <3>2
        <4> QED BY <1>5, <4>3, <4>4, Zenon DEF AwaitedOf
      <3>3. ASSUME NEW j \in Conn, AwaitedOf(j, n, v, d, z)
            PROVE  AwaitedOf(j, n, v, d, z)'
        <4>1. j # k BY <1>1, <3>3, Zenon DEF AwaitedOf
        <4>2. closer[j] = "report" => closer'[j] = "report" BY <1>6, <4>1, Zenon
        <4> QED BY <1>5, <3>3, <4>2, Zenon DEF AwaitedOf
      <3>4. conns[t][d] # NoConn => conns'[t][d] # NoConn \/ AwaitedOf(k, n, v, d, z)'
        BY <1>8, <3>2, Zenon
      <3> QED BY <1>14, <2>1, <3>1, <3>3, <3>4, Zenon DEF RouteInv
    <2> QED BY <1>5, <1>14, <2>1, Zenon DEF RouteInv
  <1>15. OneUser' <=> OneUser BY Zenon DEF OneUser
  <1> QED BY <1>9, <1>10, <1>11, <1>12, <1>13, <1>14, <1>15, Zenon

-----------------------------------------------------------------------------
LEMMA InitInv == Init => Inv
  <1> SUFFICES ASSUME Init PROVE Inv OBVIOUS
  <1>1. \A n, u, c, w : ~OpenIn(log, 0, n, u, c, w) BY DEF OpenIn
  <1>2. log = <<>> /\ Len(log) = 0 BY Zenon DEF Init
  <1>3. (CHOOSE i \in User \X Client : TRUE) \in User \X Client
    <2>1. PICK u \in User, c \in Client : TRUE BY SessionsAssumption, Zenon
    <2>2. <<u, c>> \in User \X Client OBVIOUS
    <2> QED BY <2>2, Zenon
  <1>4. (CHOOSE s \in Server : TRUE) \in Server
    <2>1. PICK b \in Broker, w \in Net : TRUE BY SessionsAssumption, Zenon
    <2>2. <<b, w>> \in Server BY Zenon DEF Server
    <2> QED BY <2>2, Zenon
  <1>5. conn \in [Conn -> ConnStates] /\ \A k \in Conn : conn[k].phase = "idle"
    BY <1>3, <1>4, Zenon DEF Init, ConnStates
  <1>6. EmptyDirectory \in Directories
        /\ \A n \in Broker, u \in User, c \in Client, w \in Net :
             EmptyDirectory.userClients[n][u][c] # w
    <2>1. EmptyDirectory \in Directories BY Zenon DEF EmptyDirectory, Directories
    <2> QED BY <2>1, NoNetAssumption, Zenon DEF EmptyDirectory
  <1>7. TypeOK
    <2>1. applied \in [Broker -> 0..Len(log)] BY <1>2 DEF Init
    <2> QED BY <1>5, <1>6, <2>1 DEF Init, TypeOK, CloserStates
  <1>8. MapInv BY <1>5, Zenon DEF Init, MapInv
  <1>9. KickInv BY Zenon DEF Init, KickInv
  <1>10. DirInv BY <1>1, <1>6, Zenon DEF Init, DirInv
  <1>11. SoleInv BY <1>5, Zenon DEF SoleInv
  <1>12. RouteInv BY <1>1, <1>2 DEF RouteInv
  <1> QED BY <1>7, <1>8, <1>9, <1>10, <1>11, <1>12, Zenon DEF Inv

LEMMA StepInv == Inv /\ [Next]_vars => Inv'
  <1> SUFFICES ASSUME Inv, [Next]_vars PROVE Inv' OBVIOUS
  <1>1. ASSUME NEW k \in Conn, NEW s \in Server, NEW i \in Identities,
               Accept(k, s, i) \/ Refuse(k, s, i)
        PROVE  Inv'
    BY <1>1, ArriveInv, Zenon
  <1>2. ASSUME NEW k \in Conn, Drop(k) PROVE Inv' BY <1>2, DropInv, Zenon
  <1>3. ASSUME NEW k \in Conn, NEW b \in Broker, KickPeer(k, b) PROVE Inv'
    BY <1>3, KickPeerInv, Zenon
  <1>4. ASSUME NEW k \in Conn, SubmitOpened(k) PROVE Inv' BY <1>4, SubmitOpenedInv
  <1>5. ASSUME NEW k \in Conn, Swap(k) PROVE Inv' BY <1>5, SwapInv
  <1>6. ASSUME NEW k \in Conn, Return(k) PROVE Inv' BY <1>6, ReturnInv
  <1>7. ASSUME NEW k \in Conn, OnClose(k) PROVE Inv' BY <1>7, OnCloseInv
  <1>8. ASSUME NEW k \in Conn, onUserClosed(k) PROVE Inv' BY <1>8, UserClosedInv
  <1>9. ASSUME NEW b \in Broker, Apply(b) PROVE Inv' BY <1>9, ApplyInv
  <1>10. CASE UNCHANGED vars
    <2>1. UNCHANGED <<conn, closer, conns, log, lost, directory, applied, kicked>>
      BY <1>10, Zenon DEF vars
    <2>2. Keeps BY <2>1, Zenon DEF Inv, TypeOK, Keeps
    <2>3. Quiet BY <2>1, <2>2, Zenon DEF Inv, Quiet, MapInv
    <2>4. KickInv' BY <2>1, <2>2, KickKept, Zenon DEF Inv
    <2> QED BY <2>1, <2>3, <2>4, QuietInv, Zenon DEF Inv, TypeOK
  <1> QED BY <1>1, <1>2, <1>3, <1>4, <1>5, <1>6, <1>7, <1>8, <1>9, <1>10, Zenon DEF Next, Step

LEMMA Always == Spec => []Inv
  BY InitInv, StepInv, PTL DEF Spec

(* server.OnClose takes the closed connection out of the map, whatever     *)
(* logins, kicks and closes of the same client overlap with it.            *)
THEOREM ClosedLeave == Spec => []ClosedLeavesMap
  <1>1. Inv => ClosedLeavesMap BY Zenon DEF Inv, MapInv, ClosedLeavesMap
  <1> QED BY <1>1, Always, PTL

(* The kick of onUserConnect closes the connection that the directory led  *)
(* to, if it is on the network of the new one.                             *)
THEOREM DuplicateKicked == Spec => []SameNetKicked
  <1>1. Inv => SameNetKicked BY Zenon DEF Inv, KickInv, SameNetKicked
  <1> QED BY <1>1, Always, PTL

(* A client's only login at a broker (onUserConnect, Swap) is online for   *)
(* every broker once the log is applied, unless its proposal was lost.     *)
THEOREM SoleLoginIsOnline == Spec => []SoleLoginOnline
  <1>1. ASSUME Inv, Quiescent, NEW k \in Conn, conn[k].phase = "open", closer[k] = "no",
               Sole(k), NEW b \in Broker
        PROVE  IsOnline(b, conn[k].id[1])
    <2>1. conn[k] \in ConnStates BY <1>1, Zenon DEF Inv, TypeOK
    <2>2. PICK a \in Broker, w \in Net : conn[k].at = <<a, w>> BY <2>1 DEF ConnStates, Server
    <2>3. PICK u \in User, c \in Client : conn[k].id = <<u, c>> BY <2>1 DEF ConnStates
    <2>4. OpenIn(log, Len(log), a, u, c, w) /\ conns[<<a, w>>][c] = k
      BY <1>1, <2>2, <2>3 DEF Inv, SoleInv
    <2>5. applied[b] = Len(log) BY <1>1, Zenon DEF Quiescent
    <2>6. directory[b].userClients[a][u][c] = w BY <1>1, <2>4, <2>5 DEF Inv, DirInv
    <2>7. HasClient(directory[b], a, u, c) BY <2>6, NoNetAssumption, Zenon DEF HasClient
    <2>8. Active(<<a, w>>, c) BY <1>1, <2>4, SessionsAssumption, Zenon DEF Active
    <2> QED BY <2>3, <2>6, <2>7, <2>8 DEF IsOnline
  <1>2. Inv => SoleLoginOnline BY <1>1, Zenon DEF SoleLoginOnline, Sole
  <1> QED BY <1>2, Always, PTL

(* When client ids are not shared between users, a settled directory leads *)
(* to live connections only: whatever onUserConnect proposed is in the     *)
(* map, or an OnClose has removed it and onUserClosed reported it.         *)
THEOREM RoutesAreLive == ASSUME OneUser PROVE Spec => []NoStaleRoute
  <1>1. ASSUME Inv, Quiescent, NEW b \in Broker, NEW n \in Broker, NEW u \in User,
               NEW c \in Client, HasClient(directory[b], n, u, c),
               [type |-> "userClosed", nodeID |-> n, uid |-> u, cid |-> c] \notin lost
        PROVE  LET k == conns[<<n, directory[b].userClients[n][u][c]>>][c]
               IN k # NoConn /\ closer[k] = "no" /\ conn[k].id = <<u, c>>
    <2>1. PICK w \in Net : w = directory[b].userClients[n][u][c]
      <3>1. directory[b] \in Directories BY <1>1, Zenon DEF Inv, TypeOK
      <3> QED BY <1>1, <3>1 DEF Directories, HasClient
    <2>2. PICK s \in Server : s = <<n, w>> BY Zenon DEF Server
    <2>3. OpenIn(log, Len(log), n, u, c, w)
      <3>1. applied[b] = Len(log) BY <1>1, Zenon DEF Quiescent
      <3>2. DirInv BY <1>1, Zenon DEF Inv
      <3>3. OpenIn(log, applied[b], n, u, c, w) BY <2>1, <3>2 DEF DirInv
      <3> QED BY <3>1, <3>3, Zenon
    <2>4. \A j \in Conn : ~AwaitedOf(j, n, u, c, w) BY <1>1, Zenon DEF Quiescent, AwaitedOf
    <2>5. conns[s][c] # NoConn BY <1>1, <2>2, <2>3, <2>4, Zenon DEF Inv, RouteInv
    <2>6. PICK k \in Conn : /\ k = conns[s][c] /\ conn[k].id[2] = c
                            /\ conn[k].phase \in {"ack", "open"}
                            /\ closer[k] \in {"no", "closing"}
      <3>1. TypeOK /\ MapInv BY <1>1, Zenon DEF Inv
      <3>2. /\ conns[s][c] \in Conn /\ conn[conns[s][c]].id[2] = c
            /\ conn[conns[s][c]].phase \in {"ack", "open"}
            /\ closer[conns[s][c]] \in {"no", "closing"}
        BY <2>5, <3>1, InMap
      <3> QED BY <3>2, Zenon
    <2>7. closer[k] = "no" BY <1>1, <2>6, Zenon DEF Quiescent
    <2>8. PICK i \in 1..Len(log) : log[i].uid = u /\ log[i].cid = c
      BY <2>3, Zenon DEF OpenIn, Same
    <2>9. <<u, c>> \in Identities BY <1>1, <2>8, Zenon DEF Inv, RouteInv
    <2>10. conn[k].id \in Identities /\ <<u, c>>[2] = conn[k].id[2]
      <3>1. MapInv BY <1>1, Zenon DEF Inv
      <3>2. conn[k].phase # "idle" BY <2>6, Zenon
      <3>3. conn[k].id \in Identities BY <3>1, <3>2, Zenon DEF MapInv
      <3> QED BY <2>6, <3>3, Zenon
    <2>11. conn[k].id = <<u, c>> BY <2>9, <2>10, Zenon DEF OneUser
    <2> QED BY <2>1, <2>2, <2>5, <2>6, <2>7, <2>11, Zenon
  <1>2. Inv => NoStaleRoute BY <1>1, ZenonT(40) DEF NoStaleRoute
  <1> QED BY <1>2, Always, PTL
=============================================================================
