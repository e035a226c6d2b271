------------------------------- MODULE RoutingProofs ------------------------
(***************************************************************************)
(* What Routing promises for any number of brokers, clients and            *)
(* connections, any log entries, any number of attempts, and however many  *)
(* entries are applied while an operation runs.  RoutingStepProofs has the *)
(* lemmas on the other steps.                                              *)
(***************************************************************************)
EXTENDS RoutingStepProofs

-----------------------------------------------------------------------------
(* The executions of requests serve their targets.                         *)

\* What serving target t does to an execution, from j to r: ok says that the
\* client's connection was open and, for a send, took the message.
ServedAs(j, r, t, ok) ==
  /\ r \in JobRec /\ r.pc = j.pc
  /\ r.left = IF op.kind = "online" /\ ok THEN {} ELSE j.left \ {t}
  /\ r.success = j.success + (IF op.kind # "kick" /\ ok THEN 1 ELSE 0)
  /\ op.kind \in Sends => r.total = j.total + 1 \/ (~ok /\ r.total = j.total)

Serves(n, a, t, ok) == OnlyJob(n, a) /\ ServedAs(job[n][a], job'[n][a], t, ok)

\* k is the open connection of target t at broker n.
Found(n, t, k) ==
  k \in Conn /\ conn[k].st = "open" /\ conn[k].at = <<n, t[2]>> /\ conn[k].cid = t[1]

\* Connections may close but are where they were; queues grow.
ClientsKept ==
  /\ conn' \in [Conn -> ConnRec] /\ SamePlaces
  /\ \A j \in Conn : conn[j].st # "new" <=> conn'[j].st # "new"

QueuesGrow ==
  /\ got' \in [Conn -> Nat] /\ failed' \in BOOLEAN /\ (failed => failed')
  /\ \A j \in Conn : got'[j] >= got[j] /\ (conn[j].st = "new" => got'[j] = got[j])

\* What a step of sendToClients, sendToAll, isActive or kickConn does; k is what
\* is in the map for target t.
Outcome(n, t, k, ok) ==
  \/ op.kind \in Sends /\ ok /\ got' = [got EXCEPT ![k] = @ + 1] /\ failed' = failed
  \/ op.kind \in Sends /\ ~ok /\ got' = got /\ failed' = TRUE
  \/ op.kind = "kick" /\ ok /\ got' = got /\ failed' = failed /\ conn'[k].st = "closing"
  \/ op.kind = "online" /\ ok /\ got' = got /\ failed' = failed
  \/ ~ok /\ got' = got /\ failed' = failed /\ ~Active(<<n, t[2]>>, t[1])

Meets(n, a, t, k) ==
  /\ directory' = directory /\ conns' = conns /\ op' = op /\ call' = call /\ Watch
  /\ op.pc # "idle" /\ job[n][a].pc = "run" /\ t \in job[n][a].left
  /\ k = conns[<<n, t[2]>>][t[1]]

Delivers(n, a, t, k, ok) ==
  /\ Meets(n, a, t, k) /\ Serves(n, a, t, ok) /\ ClientsKept /\ QueuesGrow
  /\ ok => Found(n, t, k)
  /\ Outcome(n, t, k, ok)

LEMMA ServedTyped ==
  ASSUME NEW j \in JobRec, NEW t, NEW ok \in BOOLEAN, NEW present \in BOOLEAN, ok => present
  PROVE  ServedAs(j, Served(j, t, ok, present), t, ok)
  <1> DEFINE left == IF op.kind = "online" /\ ok THEN {} ELSE j.left \ {t}
             total == j.total + (IF op.kind \in InTurn \/ (op.kind = "all" /\ ~present) THEN 0 ELSE 1)
             success == j.success + (IF op.kind # "kick" /\ ok THEN 1 ELSE 0)
             r == Served(j, t, ok, present)
  <1>1. left \in SUBSET Target /\ total \in Nat /\ success \in Nat BY DEF JobRec
  <1>2. op.kind \in Sends => total = j.total + 1 \/ (~ok /\ total = j.total)
    BY DEF Sends, InTurn, JobRec
  <1>3. r = [j EXCEPT !.left = left, !.total = total, !.success = success] BY Zenon DEF Served
  <1> HIDE DEF left, total, success, r
  <1>4. /\ r \in JobRec /\ r.pc = j.pc
        /\ r.left = left /\ r.success = success /\ r.total = total
    BY <1>1, <1>3, Zenon DEF JobRec
  <1>5. ServedAs(j, r, t, ok) BY <1>2, <1>4, Zenon DEF left, success, ServedAs
  <1> QED BY <1>5, Zenon DEF r

ServedTo(n, a, t, ok, present, k) ==
  \/ job' = [job EXCEPT ![n][a] = Served(@, t, ok, present)]
  \/ job' = [job EXCEPT ![n][a] = [Served(@, t, ok, present) EXCEPT !.waits = k]]

LEMMA ServesEffect ==
  ASSUME Types, NEW n \in Broker, NEW a \in 1 .. MaxAttempts, NEW t, NEW ok \in BOOLEAN,
         NEW present \in BOOLEAN, ok => present, NEW k \in Conn \cup {NoConn},
         ServedTo(n, a, t, ok, present, k)
  PROVE  Serves(n, a, t, ok)
  <1> DEFINE j == job[n][a]
             r == Served(j, t, ok, present)
             s == [r EXCEPT !.waits = k]
  <1>0. JobBecomes(n, a, r) \/ JobBecomes(n, a, s) BY Zenon DEF JobBecomes, ServedTo
  <1>j. j \in JobRec BY JobNat, Zenon
  <1> HIDE DEF j
  <1>1. ServedAs(j, r, t, ok) BY <1>j, ServedTyped, Zenon
  <1> HIDE DEF r
  <1>2. ServedAs(j, s, t, ok)
    <2>1. r \in JobRec BY <1>1, Zenon DEF ServedAs
    <2>2. s \in JobRec /\ s.pc = r.pc /\ s.left = r.left /\ s.success = r.success /\ s.total = r.total
      BY <2>1, Zenon DEF JobRec
    <2> HIDE DEF s
    <2> QED BY <1>1, <2>2, Zenon DEF ServedAs
  <1> HIDE DEF s
  <1>3. ASSUME NEW x, ServedAs(j, x, t, ok), JobBecomes(n, a, x)
        PROVE  Serves(n, a, t, ok)
    <2>1. x \in JobRec BY <1>3, Zenon DEF ServedAs
    <2>2. OnlyJob(n, a) /\ job'[n][a] = x BY <1>3, <2>1, JobSet, Zenon
    <2> QED BY <1>3, <2>2, Zenon DEF Serves, j
  <1> QED BY <1>0, <1>1, <1>2, <1>3, Zenon

LEMMA FoundOpen ==
  ASSUME Inv, NEW n \in Broker, NEW t \in Target, Active(<<n, t[2]>>, t[1])
  PROVE  Found(n, t, conns[<<n, t[2]>>][t[1]])
  <1> DEFINE s == <<n, t[2]>>
             k == conns[s][t[1]]
  <1>1. s \in Server /\ t[1] \in Client BY Zenon DEF Target, Server
  <1>2. k \in Conn \cup {NoConn} BY <1>1 DEF Inv, Types
  <1>3. k # NoConn /\ conn[k].st = "open" BY Zenon DEF Active
  <1>4. conn[k].at = s /\ conn[k].cid = t[1] BY <1>1, <1>3 DEF Inv, Stages, Placed
  <1> QED BY <1>2, <1>3, <1>4, Zenon DEF Found

LEMMA ConnsStay ==
  ASSUME Types, conn' = conn PROVE ClientsKept
  BY Zenon DEF Types, ClientsKept, SamePlaces

\* kickConn closes the connection it finds.
LEMMA ConnCloses ==
  ASSUME Types, NEW k \in Conn, conn[k].st = "open", conn' = [conn EXCEPT ![k].st = "closing"]
  PROVE  ClientsKept /\ conn'[k].st = "closing"
  <1>1. conn \in [Conn -> ConnRec] BY Zenon DEF Types
  <1>2. /\ conn' \in [Conn -> ConnRec] /\ conn'[k].st = "closing"
        /\ \A j \in Conn : /\ conn'[j].at = conn[j].at /\ conn'[j].cid = conn[j].cid
                           /\ j # k => conn'[j] = conn[j]
    BY <1>1, Zenon DEF ConnRec
  <1> QED BY <1>2, Zenon DEF ClientsKept, SamePlaces

LEMMA OutcomeQueues ==
  ASSUME Inv, NEW n, NEW t, NEW k, NEW ok \in BOOLEAN, Outcome(n, t, k, ok), ok => Found(n, t, k)
  PROVE  QueuesGrow
  <1>1. got \in [Conn -> Nat] /\ failed \in BOOLEAN BY Zenon DEF Inv, Types
  <1>2. failed' \in BOOLEAN /\ (failed => failed') BY <1>1, Zenon DEF Outcome
  <1>3. CASE got' = got BY <1>1, <1>2, <1>3 DEF QueuesGrow
  <1>4. CASE ok /\ got' = [got EXCEPT ![k] = @ + 1] BY <1>1, <1>2, <1>4 DEF QueuesGrow, Found
  <1> QED BY <1>3, <1>4, Zenon DEF Outcome

\* The five outcomes.
LEMMA ServeOutcome ==
  ASSUME Inv, NEW n \in Broker, NEW a \in 1 .. MaxAttempts, NEW t \in Target, NEW k,
         k = conns[<<n, t[2]>>][t[1]],
         \/ SendMessage(n, a, t) \/ QueueFull(n, a, t)
         \/ kickConn(n, a, t) \/ isActive(n, a, t) \/ NotFound(n, a, t)
  PROVE  \E ok \in BOOLEAN :
           Serves(n, a, t, ok) /\ ClientsKept /\ (ok => Found(n, t, k)) /\ Outcome(n, t, k, ok)
  <1>0. Types BY Zenon DEF Inv
  <1>k. k \in Conn \cup {NoConn}
    <2>1. <<n, t[2]>> \in Server /\ t[1] \in Client BY Zenon DEF Target, Server
    <2> QED BY <2>1, <1>0 DEF Types
  <1>f. Active(<<n, t[2]>>, t[1]) => Found(n, t, k) BY FoundOpen, Zenon
  <1>1. CASE SendMessage(n, a, t)
    <2>1. /\ op.kind \in Sends /\ Active(<<n, t[2]>>, t[1]) /\ conn' = conn /\ failed' = failed
          /\ got' = [got EXCEPT ![k] = @ + 1]
          /\ ServedTo(n, a, t, TRUE, TRUE, k)
      BY <1>1, Zenon DEF SendMessage, ServedTo
    <2>2. Serves(n, a, t, TRUE) BY <2>1, <1>0, <1>k, ServesEffect, Zenon
    <2>3. Outcome(n, t, k, TRUE) BY <2>1, Zenon DEF Outcome
    <2> QED BY <2>1, <2>2, <2>3, <1>0, <1>f, ConnsStay, Zenon
  <1>2. CASE QueueFull(n, a, t)
    <2>1. /\ op.kind \in Sends /\ conn' = conn /\ failed' = TRUE /\ got' = got
          /\ ServedTo(n, a, t, FALSE, TRUE, k)
      BY <1>2, Zenon DEF QueueFull, ServedTo
    <2>2. Serves(n, a, t, FALSE) BY <2>1, <1>0, <1>k, ServesEffect, Zenon
    <2>3. Outcome(n, t, k, FALSE) BY <2>1, Zenon DEF Outcome
    <2> QED BY <2>1, <2>2, <2>3, <1>0, ConnsStay, Zenon
  <1>3. CASE kickConn(n, a, t)
    <2>1. /\ op.kind = "kick" /\ Active(<<n, t[2]>>, t[1]) /\ failed' = failed /\ got' = got
          /\ conn' = [conn EXCEPT ![k].st = "closing"]
          /\ ServedTo(n, a, t, TRUE, TRUE, k)
      BY <1>3, Zenon DEF kickConn, ServedTo
    <2>2. Serves(n, a, t, TRUE) BY <2>1, <1>0, <1>k, ServesEffect, Zenon
    <2>0. k \in Conn /\ conn[k].st = "open" BY <2>1, <1>f, Zenon DEF Found
    <2>3. ClientsKept /\ conn'[k].st = "closing" BY <2>0, <2>1, <1>0, ConnCloses, Zenon
    <2>4. Outcome(n, t, k, TRUE) BY <2>1, <2>3, Zenon DEF Outcome
    <2> QED BY <2>1, <2>2, <2>3, <2>4, <1>f, Zenon
  <1>4. CASE isActive(n, a, t)
    <2>1. /\ op.kind = "online" /\ Active(<<n, t[2]>>, t[1]) /\ conn' = conn /\ failed' = failed
          /\ got' = got /\ ServedTo(n, a, t, TRUE, TRUE, k)
      BY <1>4, Zenon DEF isActive, ServedTo
    <2>2. Serves(n, a, t, TRUE) BY <2>1, <1>0, <1>k, ServesEffect, Zenon
    <2>3. Outcome(n, t, k, TRUE) BY <2>1, Zenon DEF Outcome
    <2> QED BY <2>1, <2>2, <2>3, <1>0, <1>f, ConnsStay, Zenon
  <1>5. CASE NotFound(n, a, t)
    <2> DEFINE present == k # NoConn
    <2>1. /\ ~Active(<<n, t[2]>>, t[1]) /\ conn' = conn /\ failed' = failed /\ got' = got
          /\ ServedTo(n, a, t, FALSE, present, k)
      BY <1>5, Zenon DEF NotFound, ServedTo
    <2>2. present \in BOOLEAN BY Zenon
    <2> HIDE DEF present
    <2>3. Serves(n, a, t, FALSE) BY <2>1, <2>2, <1>0, <1>k, ServesEffect, Zenon
    <2>4. Outcome(n, t, k, FALSE) BY <2>1, Zenon DEF Outcome
    <2> QED BY <2>1, <2>3, <2>4, <1>0, ConnsStay, Zenon
  <1> QED BY <1>1, <1>2, <1>3, <1>4, <1>5, Zenon

LEMMA DeliverEffect ==
  ASSUME Inv, NEW n \in Broker, NEW a \in 1 .. MaxAttempts, NEW t \in Target, Deliver(n, a, t)
  PROVE  \E k : \E ok \in BOOLEAN : Delivers(n, a, t, k, ok)
  <1> DEFINE k == conns[<<n, t[2]>>][t[1]]
  <1>1. PICK ok \in BOOLEAN :
          Serves(n, a, t, ok) /\ ClientsKept /\ (ok => Found(n, t, k)) /\ Outcome(n, t, k, ok)
    BY ServeOutcome, Zenon DEF Deliver
  <1>2. Meets(n, a, t, k)
    <2>1. NoJobs[a].pc # "run" BY Zenon DEF NoJobs, NoJob
    <2>2. job[n][a].pc = "run" BY Zenon DEF Deliver
    <2>3. op.pc # "idle" BY <2>1, <2>2, Zenon DEF Inv, Stages, Idle
    <2> QED BY <2>2, <2>3, Zenon DEF Deliver, Meets
  <1> HIDE DEF k
  <1>3. QueuesGrow BY <1>1, OutcomeQueues, Zenon
  <1>4. Delivers(n, a, t, k, ok) BY <1>1, <1>2, <1>3, Zenon DEF Delivers
  <1> QED BY <1>4, Zenon

LEMMA DeliverTypes ==
  ASSUME Types, NEW n \in Broker, NEW a \in 1 .. MaxAttempts, NEW t, NEW k, NEW ok,
         Delivers(n, a, t, k, ok)
  PROVE  Types'
  <1>1. /\ directory' = directory /\ conns' = conns /\ op' = op /\ call' = call
        /\ steady' \subseteq Conn
    BY Zenon DEF Delivers, Meets, Watch, Types
  <1>2. /\ conn' \in [Conn -> ConnRec] /\ got' \in [Conn -> Nat] /\ failed' \in BOOLEAN
        /\ job' \in [Broker -> [1 .. MaxAttempts -> JobRec]]
    BY Zenon DEF Delivers, Serves, OnlyJob, ClientsKept, QueuesGrow
  <1> QED BY <1>1, <1>2, Zenon DEF Types

LEMMA PlacedKept ==
  ASSUME Types, Placed, ClientsKept, QueuesGrow, conns' = conns PROVE Placed'
  <1>1. ASSUME NEW j \in Conn
        PROVE  /\ conn'[j].st # "new" => conn'[j].at \in Server /\ conn'[j].cid \in Client
               /\ conn'[j].st = "new" => got'[j] = 0
    <2>1. conn[j].st # "new" <=> conn'[j].st # "new" BY Zenon DEF ClientsKept
    <2> QED BY <2>1, Zenon DEF ClientsKept, SamePlaces, QueuesGrow, Placed
  <1>2. ASSUME NEW r \in Server, NEW d \in Client, conns[r][d] # NoConn
        PROVE  /\ conn'[conns[r][d]].st # "new"
               /\ conn'[conns[r][d]].at = r /\ conn'[conns[r][d]].cid = d
    <2>1. conns[r][d] \in Conn BY <1>2 DEF Types
    <2>2. /\ conn[conns[r][d]].st # "new"
          /\ conn[conns[r][d]].at = r /\ conn[conns[r][d]].cid = d
      BY <1>2, Zenon DEF Placed
    <2> QED BY <2>1, <2>2, Zenon DEF ClientsKept, SamePlaces
  <1> QED BY <1>1, <1>2 DEF Placed

LEMMA DeliverJobOK ==
  ASSUME Types, NEW n \in Broker, NEW a \in 1 .. MaxAttempts, NEW t, NEW k, NEW ok,
         Delivers(n, a, t, k, ok), NEW m \in Broker, NEW b \in 1 .. MaxAttempts, JobOK(m, b)
  PROVE  JobOK(m, b)'
  <1>1. op' = op /\ call' = call BY Zenon DEF Delivers, Meets
  <1>2. CASE m # n \/ b # a
    <2>1. job'[m][b] = job[m][b] BY <1>2, Zenon DEF Delivers, Serves, OnlyJob
    <2> QED BY <1>1, <2>1, Zenon DEF JobOK, Functional
  <1>3. CASE m = n /\ b = a
    <2>1. ServedAs(job[m][b], job'[m][b], t, ok) /\ job[m][b].pc = "run"
      BY <1>3, Zenon DEF Delivers, Serves, Meets
    <2>2. job'[m][b].pc = "run" /\ job'[m][b].left \subseteq job[m][b].left BY <2>1, Zenon DEF ServedAs
    <2>3. op.kind # "all" => Functional(job'[m][b].left) BY <2>2, Zenon DEF JobOK, Functional
    <2>4. op.kind \in Sends => job'[m][b].success <= job'[m][b].total
      <3>1. job[m][b].success \in Nat /\ job[m][b].total \in Nat BY JobNat, Zenon
      <3>2. op.kind \in Sends => job[m][b].success <= job[m][b].total BY Zenon DEF JobOK
      <3> QED BY <2>1, <3>1, <3>2 DEF ServedAs
    <2>5. b <= call[m].attempt BY <2>1, Zenon DEF JobOK
    <2> QED BY <1>1, <2>2, <2>3, <2>4, <2>5, Zenon DEF JobOK, Functional
  <1> QED BY <1>2, <1>3, Zenon

LEMMA DeliverStages ==
  ASSUME Inv, NEW n \in Broker, NEW a \in 1 .. MaxAttempts, NEW t, NEW k, NEW ok,
         Delivers(n, a, t, k, ok)
  PROVE  Stages'
  <1>0. conns' = conns /\ op' = op /\ call' = call /\ op.pc # "idle" /\ ClientsKept /\ QueuesGrow
    BY Zenon DEF Delivers, Meets
  <1>1. Idle' BY <1>0, Zenon DEF Idle
  <1>2. Placed' BY <1>0, PlacedKept, Zenon DEF Inv, Stages
  <1>3. ASSUME NEW m \in Broker PROVE CallOK(m)'
    <2>1. CallOK(m) /\ (failed => failed') BY <1>0, Zenon DEF Inv, Stages, QueuesGrow
    <2> QED BY <1>0, <2>1, Zenon DEF CallOK, Functional
  <1>4. \A m \in Broker, b \in 1 .. MaxAttempts : JobOK(m, b)' BY DeliverJobOK, Zenon DEF Inv, Stages
  <1> QED BY <1>0, <1>1, <1>2, <1>3, <1>4, Zenon DEF Inv, Stages

\* A connection that has the message is where it was.
LEMMA GotPlace ==
  ASSUME Inv, ClientsKept, QueuesGrow, NEW j \in Conn, got'[j] > 0
  PROVE  /\ conn'[j].at = conn[j].at /\ conn'[j].cid = conn[j].cid
         /\ Host(j)' = Host(j) /\ Host(j) \in Broker
  <1>1. conn[j].st # "new" BY DEF QueuesGrow, Inv, Stages, Placed
  <1>2. conn'[j].at = conn[j].at /\ conn'[j].cid = conn[j].cid BY <1>1, Zenon DEF ClientsKept, SamePlaces
  <1>3. Host(j) \in Broker BY PlaceBroker, Zenon DEF Inv
  <1> QED BY <1>2, <1>3, Zenon DEF Host

\* Serving leaves an execution with fewer targets.
LEMMA DeliverPast ==
  ASSUME Inv, NEW n \in Broker, NEW a \in 1 .. MaxAttempts, NEW t, NEW k, NEW ok,
         Delivers(n, a, t, k, ok), NEW j \in Conn, got'[j] > 0,
         NEW m \in Broker, NEW b \in 1 .. MaxAttempts, Past(j, m, b)
  PROVE  Past(j, m, b)'
  <1>1. conn'[j].at = conn[j].at /\ conn'[j].cid = conn[j].cid /\ op' = op
    BY GotPlace, Zenon DEF Delivers, Meets
  <1>2. job'[m][b].left \subseteq job[m][b].left BY Zenon DEF Delivers, Serves, ServedAs, OnlyJob
  <1> QED BY <1>1, <1>2, Zenon DEF Past

\* The connection that takes the message was ahead and is not any more.
LEMMA SentPast ==
  ASSUME Inv, NEW n \in Broker, NEW a \in 1 .. MaxAttempts, NEW t, NEW k \in Conn,
         Delivers(n, a, t, k, TRUE), op.kind \in Sends
  PROVE  ~Past(k, n, a) /\ Past(k, n, a)' /\ Host(k) = n
  <1>1. conn[k].st = "open" /\ conn[k].at = <<n, t[2]>> /\ conn[k].cid = t[1]
    BY Zenon DEF Delivers, Found
  <1>2. conn'[k].at = <<n, t[2]>> /\ conn'[k].cid = t[1]
    BY <1>1, Zenon DEF Delivers, ClientsKept, SamePlaces
  <1>3. job'[n][a].left = job[n][a].left \ {t} /\ t \in job[n][a].left /\ op' = op
    BY Zenon DEF Delivers, Meets, Serves, ServedAs, Sends
  <1>4. ~Past(k, n, a) BY <1>1, <1>3 DEF Past
  <1>5. Past(k, n, a)'
    <2> SUFFICES ASSUME NEW x \in job'[n][a].left, x[1] = t[1] PROVE op.kind = "all" /\ x[2] # t[2]
      BY <1>2, <1>3 DEF Past
    <2>1. x # t /\ x \in job[n][a].left BY <1>3, Zenon
    <2>2. op.kind = "all" BY <1>3, <2>1, Zenon DEF Inv, Stages, JobOK, Functional
    <2>3. x \in Target /\ t \in Target
      <3>1. job[n][a].left \subseteq Target BY JobNat, Zenon DEF Inv, JobRec
      <3> QED BY <1>3, <2>1, <3>1, Zenon
    <2> QED BY <2>1, <2>2, <2>3 DEF Target
  <1> QED BY <1>1, <1>4, <1>5 DEF Host

\* One more element makes one more.
LEMMA OneMore ==
  ASSUME Sizes, NEW S, NEW T, S \subseteq T, IsFiniteSet(T), NEW x, x \in T, x \notin S
  PROVE  Cardinality(S) \in Nat /\ Cardinality(T) \in Nat /\ Cardinality(S) + 1 <= Cardinality(T)
  <1>1. IsFiniteSet(S) /\ Cardinality(S) \in Nat /\ Cardinality(T) \in Nat BY Smaller, Zenon
  <1>2. Cardinality(S \cup {x}) = Cardinality(S) + 1 BY <1>1, Zenon DEF Sizes
  <1>3. S \cup {x} \subseteq T BY Zenon
  <1>4. Cardinality(S \cup {x}) <= Cardinality(T) BY <1>3, Smaller, Zenon
  <1> QED BY <1>1, <1>2, <1>4, Zenon

LEMMA DeliverCounted ==
  ASSUME Sizes, Inv, NEW n \in Broker, NEW a \in 1 .. MaxAttempts, NEW t, NEW k, NEW ok,
         Delivers(n, a, t, k, ok), op.success <= Cardinality(Counted)
  PROVE  op'.success <= Cardinality(Counted')
  <1>0. op' = op /\ call' = call /\ ClientsKept /\ QueuesGrow BY Zenon DEF Delivers, Meets
  <1>1. Counted \subseteq Counted'
    <2> SUFFICES ASSUME NEW j \in Counted PROVE j \in Counted' BY Zenon
    <2>1. j \in Conn /\ got[j] > 0 /\ call[Host(j)].pc = "done" BY Zenon DEF Counted
    <2>2. got'[j] > 0 BY <1>0, <2>1 DEF QueuesGrow, Inv, Types
    <2>3. Host(j)' = Host(j) BY <1>0, <2>1, <2>2, GotPlace, Zenon
    <2> QED BY <1>0, <2>1, <2>2, <2>3, Zenon DEF Counted
  <1>2. IsFiniteSet(Counted') BY FiniteConns, Zenon DEF Counted
  <1>3. /\ Cardinality(Counted) <= Cardinality(Counted')
        /\ Cardinality(Counted) \in Nat /\ Cardinality(Counted') \in Nat
    BY <1>1, <1>2, Smaller, Zenon
  <1>4. op.success \in Nat BY OpNat, Zenon DEF Inv
  <1> QED BY <1>0, <1>3, <1>4

\* An execution counts a success when it puts the message in one more queue.
LEMMA DeliverServed ==
  ASSUME Sizes, Inv, NEW n \in Broker, NEW a \in 1 .. MaxAttempts, NEW t, NEW k, NEW ok \in BOOLEAN,
         Delivers(n, a, t, k, ok), op.kind \in Sends,
         NEW m \in Broker, NEW b \in 1 .. MaxAttempts, job[m][b].success <= Cardinality(ServedBy(m, b))
  PROVE  job'[m][b].success <= Cardinality(ServedBy(m, b)')
  <1>0. ClientsKept /\ QueuesGrow /\ OnlyJob(n, a) BY Zenon DEF Delivers, Serves
  <1>1. ServedBy(m, b) \subseteq ServedBy(m, b)'
    <2> SUFFICES ASSUME NEW j \in ServedBy(m, b) PROVE j \in ServedBy(m, b)' BY Zenon
    <2>1. j \in Conn /\ got[j] > 0 /\ Host(j) = m /\ Past(j, m, b) BY Zenon DEF ServedBy
    <2>2. got'[j] > 0 BY <1>0, <2>1 DEF QueuesGrow, Inv, Types
    <2>3. Host(j)' = m BY <1>0, <2>1, <2>2, GotPlace, Zenon
    <2>4. Past(j, m, b)' BY <2>1, <2>2, DeliverPast, Zenon
    <2> QED BY <2>1, <2>2, <2>3, <2>4, Zenon DEF ServedBy
  <1>2. IsFiniteSet(ServedBy(m, b)') BY FiniteConns, Zenon DEF ServedBy
  <1>3. /\ Cardinality(ServedBy(m, b)) <= Cardinality(ServedBy(m, b)')
        /\ Cardinality(ServedBy(m, b)) \in Nat /\ Cardinality(ServedBy(m, b)') \in Nat
    BY <1>1, <1>2, Smaller, Zenon
  <1>4. job[m][b].success \in Nat BY JobNat, Zenon DEF Inv
  <1>5. CASE m # n \/ b # a
    <2>1. job'[m][b] = job[m][b] BY <1>0, <1>5, Zenon DEF OnlyJob
    <2> QED BY <1>3, <1>4, <2>1
  <1>6. CASE m = n /\ b = a
    <2>1. ServedAs(job[m][b], job'[m][b], t, ok) BY <1>6, Zenon DEF Delivers, Serves
    <2>2. CASE ~ok
      <3>1. job'[m][b].success = job[m][b].success BY <1>4, <2>1, <2>2 DEF ServedAs
      <3> QED BY <1>3, <1>4, <3>1
    <2>3. CASE ok
      <3>1. job'[m][b].success = job[m][b].success + 1 BY <2>1, <2>3, Zenon DEF ServedAs, Sends
      <3>2. k \in Conn /\ Delivers(n, a, t, k, TRUE) BY <2>3, Zenon DEF Delivers, Found
      <3>0. ~Past(k, n, a) /\ Past(k, n, a)' /\ Host(k) = n BY <3>2, SentPast, Zenon
      <3>3. ~Past(k, m, b) /\ Past(k, m, b)' /\ Host(k) = m BY <1>6, <3>0, Zenon
      <3>4. got'[k] > 0
        <4>1. got' = [got EXCEPT ![k] = @ + 1] BY <2>3, Zenon DEF Delivers, Outcome, Sends
        <4> QED BY <3>2, <4>1 DEF Inv, Types
      <3>5. k \notin ServedBy(m, b) BY <3>3, Zenon DEF ServedBy
      <3>6. k \in ServedBy(m, b)' BY <1>0, <3>2, <3>3, <3>4, GotPlace DEF ServedBy
      <3>7. Cardinality(ServedBy(m, b)) + 1 <= Cardinality(ServedBy(m, b)')
        BY <1>1, <1>2, <3>5, <3>6, OneMore, Zenon
      <3> QED BY <1>3, <1>4, <3>1, <3>7
    <2> QED BY <2>2, <2>3, Zenon
  <1> QED BY <1>5, <1>6, Zenon

LEMMA DeliverCount ==
  ASSUME Sizes, Inv, NEW n \in Broker, NEW a \in 1 .. MaxAttempts, NEW t, NEW k, NEW ok \in BOOLEAN,
         Delivers(n, a, t, k, ok)
  PROVE  CountInv'
  <1>0. op' = op BY Zenon DEF Delivers, Meets
  <1>1. SUFFICES ASSUME op.kind \in Sends, ~op.grew
                 PROVE  /\ op'.success <= Cardinality(Counted')
                        /\ \A m \in Broker, b \in 1 .. MaxAttempts :
                             job'[m][b].success <= Cardinality(ServedBy(m, b)')
    BY <1>0, Zenon DEF CountInv
  <1>2. /\ op.success <= Cardinality(Counted)
        /\ \A m \in Broker, b \in 1 .. MaxAttempts : job[m][b].success <= Cardinality(ServedBy(m, b))
    BY <1>1, Zenon DEF Inv, CountInv
  <1>3. op'.success <= Cardinality(Counted') BY <1>2, DeliverCounted, Zenon
  <1>4. ASSUME NEW m \in Broker, NEW b \in 1 .. MaxAttempts
        PROVE  job'[m][b].success <= Cardinality(ServedBy(m, b)')
    BY <1>1, <1>2, DeliverServed, Zenon
  <1> QED BY <1>3, <1>4, Zenon

\* A connection gets the message from an attempt that had it ahead.
LEMMA DeliverAttempts ==
  ASSUME Sizes, Inv, Types', NEW n \in Broker, NEW a \in 1 .. MaxAttempts, NEW t, NEW k,
         NEW ok \in BOOLEAN, Delivers(n, a, t, k, ok), NEW j \in Conn, got'[j] > 0,
         got[j] <= Cardinality(Attempts(j))
  PROVE  got'[j] <= Cardinality(Attempts(j)')
  <1>0. call' = call /\ ClientsKept /\ QueuesGrow BY Zenon DEF Delivers, Meets
  <1>h. Host(j)' = Host(j) /\ Host(j) \in Broker BY <1>0, GotPlace, Zenon
  <1>n. call[Host(j)].attempt \in Nat BY <1>h, AttemptNat, Zenon DEF Inv
  <1>1. Attempts(j) \subseteq Attempts(j)'
    <2> SUFFICES ASSUME NEW b \in Attempts(j) PROVE b \in Attempts(j)' BY Zenon
    <2>1. b \in 1 .. call[Host(j)].attempt /\ Past(j, Host(j), b) BY Zenon DEF Attempts
    <2>2. b \in 1 .. MaxAttempts BY <2>1, AttemptInRange, Zenon DEF Inv
    <2>3. \A m \in Broker : Past(j, m, b) => Past(j, m, b)' BY <2>2, DeliverPast, Zenon
    <2>4. Past(j, Host(j), b)' BY <1>h, <2>1, <2>3, Zenon
    <2> QED BY <1>0, <1>h, <2>1, <2>4, Zenon DEF Attempts
  <1>2. IsFiniteSet(Attempts(j)') BY <1>0, <1>h, <1>n, AttemptsFinite, Zenon DEF Attempts
  <1>3. /\ Cardinality(Attempts(j)) <= Cardinality(Attempts(j)')
        /\ Cardinality(Attempts(j)) \in Nat /\ Cardinality(Attempts(j)') \in Nat
    BY <1>1, <1>2, Smaller, Zenon
  <1>g. got \in [Conn -> Nat] BY Zenon DEF Inv, Types
  <1>4. CASE got'[j] = got[j] BY <1>3, <1>4, <1>g
  <1>5. CASE got'[j] # got[j]
    <2>1. op.kind \in Sends /\ ok /\ k = j /\ got'[j] = got[j] + 1
      <3>1. op.kind \in Sends /\ ok /\ got' = [got EXCEPT ![k] = @ + 1]
        BY <1>5, Zenon DEF Delivers, Outcome
      <3> QED BY <1>5, <1>g, <3>1, Zenon
    <2>2. Delivers(n, a, t, j, TRUE) BY <2>1, Zenon
    <2>3. ~Past(j, n, a) /\ Past(j, n, a)' /\ Host(j) = n BY <2>1, <2>2, SentPast, Zenon
    <2>4. a <= call[n].attempt BY Zenon DEF Delivers, Meets, Inv, Stages, JobOK
    <2>5. a \notin Attempts(j) BY <2>3, Zenon DEF Attempts
    <2>6. a \in Attempts(j)'
      <3>1. a \in 1 .. call[n].attempt BY <1>n, <2>3, <2>4
      <3> QED BY <1>0, <1>h, <2>3, <3>1, Zenon DEF Attempts
    <2>7. Cardinality(Attempts(j)) + 1 <= Cardinality(Attempts(j)') BY <1>1, <1>2, <2>5, <2>6, OneMore, Zenon
    <2> QED BY <1>3, <1>g, <2>1, <2>7
  <1> QED BY <1>4, <1>5, Zenon

LEMMA DeliverOnce ==
  ASSUME Sizes, Inv, Types', NEW n \in Broker, NEW a \in 1 .. MaxAttempts, NEW t, NEW k,
         NEW ok \in BOOLEAN, Delivers(n, a, t, k, ok), steady' \subseteq steady
  PROVE  OnceInv'
  <1>0. op' = op /\ call' = call /\ ClientsKept /\ QueuesGrow BY Zenon DEF Delivers, Meets
  <1>1. SUFFICES ASSUME NEW j \in Conn, (~op.grew \/ j \in steady \/ Host(j) # Self)'
                 PROVE  got'[j] <= Cardinality(Attempts(j)')
    BY Zenon DEF OnceInv
  <1>2. CASE got'[j] > 0
    <2>1. Host(j)' = Host(j) BY <1>0, <1>2, GotPlace, Zenon
    <2>2. got[j] <= Cardinality(Attempts(j)) BY <1>0, <1>1, <2>1, Zenon DEF Inv, OnceInv
    <2> QED BY <1>2, <2>2, DeliverAttempts, Zenon
  <1>3. CASE ~(got'[j] > 0)
    <2>1. got'[j] = 0 BY <1>3 DEF Types
    <2>2. Cardinality(Attempts(j)') \in Nat BY AttemptsCount, Zenon
    <2> QED BY <2>1, <2>2
  <1> QED BY <1>2, <1>3, Zenon

\* The connection that is met is served in its turn.
LEMMA DeliverMet ==
  ASSUME Inv, NEW n \in Broker, NEW t, NEW k \in Conn, NEW j, NEW ok \in BOOLEAN,
         Delivers(n, 1, t, j, ok), ~failed', Reachable(k, op), Reachable(k, op)',
         Host(k) = n, <<conn[k].cid, conn[k].at[2]>> = t, ~(op.kind = "online" /\ ok)
  PROVE  Done(k)'
  <1>1. conn[k].at = <<n, t[2]>> /\ conn[k].cid = t[1]
    <2>1. conn[k].at \in Server BY Zenon DEF Reachable, Inv, Stages, Placed
    <2> QED BY <2>1 DEF Server, Host
  <1>2. conns[<<n, t[2]>>][t[1]] = k /\ conn[k].st = "open" BY <1>1, Zenon DEF Reachable
  <1>3. j = k /\ Active(<<n, t[2]>>, t[1]) BY <1>2, RoutingAssumption, Zenon DEF Active, Delivers, Meets
  <1>4. conn'[k].st = "open" BY Zenon DEF Reachable
  <1>5. op.kind \in Sends /\ got' = [got EXCEPT ![k] = @ + 1]
    BY <1>3, <1>4, Zenon DEF Delivers, Outcome
  <1>6. got'[k] = got[k] + 1 /\ got[k] \in Nat BY <1>5, Zenon DEF Inv, Types
  <1> QED BY <1>5, <1>6 DEF Done, Delivers, Meets

\* Those that are not met stay ahead.
LEMMA DeliverOthers ==
  ASSUME Inv, NEW n \in Broker, NEW a \in 1 .. MaxAttempts, NEW t, NEW j, NEW ok \in BOOLEAN,
         Delivers(n, a, t, j, ok), NEW k \in Conn, Reachable(k, op), Ahead(k),
         \/ Host(k) # n \/ a # 1
         \/ <<conn[k].cid, conn[k].at[2]>> # t \/ (op.kind = "online" /\ ok)
  PROVE  Ahead(k)'
  <1>0. op' = op /\ call' = call BY Zenon DEF Delivers, Meets
  <1>p. conn'[k].at = conn[k].at /\ conn'[k].cid = conn[k].cid /\ Host(k) \in Broker
    BY PlaceBroker, Zenon DEF Reachable, Delivers, ClientsKept, SamePlaces, Inv
  <1>h. Host(k)' = Host(k) BY <1>p, Zenon DEF Host
  <1>1. CASE Host(k) # n \/ a # 1
    <2>1. job'[Host(k)][1] = job[Host(k)][1] BY <1>p, <1>1, Bounds, Zenon DEF Delivers, Serves, OnlyJob
    <2> QED BY <1>0, <1>p, <1>h, <2>1 DEF Ahead
  <1>2. CASE Host(k) = n /\ a = 1
    <2>1. ServedAs(job[n][1], job'[n][1], t, ok) BY <1>2, Zenon DEF Delivers, Serves
    <2>2. /\ job[n][1].success \in Nat /\ job'[n][1].pc = job[n][1].pc
          /\ job'[n][1].success >= job[n][1].success
          /\ op.kind = "online" /\ ok => job'[n][1].success > 0
      BY <2>1, Bounds, JobNat DEF ServedAs, Inv
    <2>3. ~(op.kind = "online" /\ ok) => job'[n][1].left = job[n][1].left \ {t}
      BY <2>1, Zenon DEF ServedAs
    <2>4. CASE n \in op.todo \/ (call[n].pc = "load" /\ call[n].live)
      BY <1>0, <1>2, <1>h, <2>4, Zenon DEF Ahead
    <2>5. CASE /\ call[n].pc = "wait" /\ job[n][1].pc = "run"
               /\ \/ <<conn[k].cid, conn[k].at[2]>> \in job[n][1].left
                  \/ op.kind = "online" /\ job[n][1].success > 0
      <3>1. \/ <<conn[k].cid, conn[k].at[2]>> \in job'[n][1].left
            \/ op.kind = "online" /\ job'[n][1].success > 0
        <4>1. job'[n][1].success \in Nat BY <2>1, Zenon DEF ServedAs, JobRec
        <4> QED BY <1>2, <2>2, <2>3, <2>5, <4>1
      <3> QED BY <1>0, <1>2, <1>p, <1>h, <2>2, <2>5, <3>1, Zenon DEF Ahead
    <2> QED BY <1>2, <2>4, <2>5, Zenon DEF Ahead
  <1> QED BY <1>1, <1>2, Zenon

LEMMA DeliverSteady ==
  ASSUME Inv, NEW n \in Broker, NEW a \in 1 .. MaxAttempts, NEW t, NEW j, NEW ok \in BOOLEAN,
         Delivers(n, a, t, j, ok)
  PROVE  SteadyInv' /\ steady' \subseteq steady
  <1>1. ASSUME NEW k \in Conn, ~failed', Reachable(k, op), Reachable(k, op)', Done(k) \/ Ahead(k)
        PROVE  (Done(k) \/ Ahead(k))'
    <2>1. CASE Done(k)
      <3>1. op' = op /\ got'[k] >= got[k] /\ got'[k] \in Nat /\ got[k] \in Nat
        BY Zenon DEF Delivers, Meets, QueuesGrow, Inv, Types
      <3> QED BY <2>1, <3>1 DEF Done
    <2>2. CASE Ahead(k) BY <1>1, <2>2, DeliverMet, DeliverOthers, Zenon
    <2> QED BY <1>1, <2>1, <2>2, Zenon
  <1>2. Watch /\ failed' \in BOOLEAN BY Zenon DEF Delivers, Meets, QueuesGrow
  <1> QED BY <1>1, <1>2, SteadyKept, Zenon

LEMMA DeliverInv ==
  ASSUME Sizes, Inv, NEW n \in Broker, NEW a \in 1 .. MaxAttempts, NEW t \in Target, Deliver(n, a, t)
  PROVE  Inv'
  <1>0. PICK k : \E ok \in BOOLEAN : Delivers(n, a, t, k, ok) BY DeliverEffect, Zenon
  <1>k. PICK ok \in BOOLEAN : Delivers(n, a, t, k, ok) BY <1>0, Zenon
  <1>1. Types' /\ Stages' BY <1>k, DeliverTypes, DeliverStages, Zenon DEF Inv
  <1>2. SteadyInv' /\ steady' \subseteq steady BY <1>k, DeliverSteady, Zenon
  <1>3. CountInv' /\ OnceInv' BY <1>k, <1>1, <1>2, DeliverCount, DeliverOnce, Zenon
  <1> QED BY <1>1, <1>2, <1>3, Zenon DEF Inv

-----------------------------------------------------------------------------
(* The broker applies log entries.                                         *)

\* What an entry that is applied does to the calls: one whose map is taken
\* away will find it empty.
CallsAfterEntry ==
  /\ call' \in [Broker -> CallRec]
  /\ \A n \in Broker :
       /\ call'[n].pc = call[n].pc /\ call'[n].attempt = call[n].attempt
       /\ call'[n].targets = call[n].targets
       /\ call[n].live /\ HasMap(directory', op, n) => call'[n].live
       /\ ~call[n].live => call'[n] = call[n]

\* To the operation, and to the execution that ranges over the map it changes:
\* more are the targets that the range meets besides.
OpAfterEntry(more) ==
  /\ op' \in OpRec /\ op'.pc = op.pc /\ op'.kind = op.kind /\ op'.to = op.to
  /\ op'.todo = op.todo /\ op'.total = op.total /\ op'.success = op.success
  /\ op'.grew <=> op.grew \/ more # {}

Ranges(more) ==
  \/ more = {} /\ job' = job
  \/ /\ call[Self].live /\ call[Self].pc = "wait" /\ job[Self][1].left # {}
     /\ RangeOn(job[Self][1].left, Listed(directory, op, Self), Listed(directory', op, Self), more)

\* The range goes on over what is listed now.
GoesOn(n, a, more) ==
  /\ n # Self \/ a # 1 => job'[n][a] = job[n][a]
  /\ job'[n][a].pc = job[n][a].pc /\ job'[n][a].total = job[n][a].total
  /\ job'[n][a].success = job[n][a].success
  /\ Functional(job'[n][a].left)
  /\ job[n][a].left = {} => job'[n][a].left = {}
  /\ \A t \in job'[n][a].left :
       \/ op.kind # "all" /\ \E s \in job[n][a].left : s[1] = t[1]
       \/ /\ n = Self /\ a = 1 /\ t \in more
          /\ \A s \in Listed(directory, op, Self) : s[1] # t[1]
  /\ \A t \in job[n][a].left :
       n = Self /\ a = 1 => (t \in Listed(directory', op, Self) => t \in job'[n][a].left)

JobsAfterEntry(more) ==
  /\ job' \in [Broker -> [1 .. MaxAttempts -> JobRec]]
  /\ \A n \in Broker, a \in 1 .. MaxAttempts : GoesOn(n, a, more)
  /\ op.pc = "idle" => more = {} /\ job' = job

Applied(more) ==
  /\ directory' \in Directories
  /\ conn' = conn /\ conns' = conns /\ got' = got /\ failed' = failed /\ Watch
  /\ CallsAfterEntry /\ OpAfterEntry(more) /\ JobsAfterEntry(more)

LEMMA ApplyCalls == ASSUME Types, NEW e, Apply(e) PROVE CallsAfterEntry
  <1>1. call \in [Broker -> CallRec] BY Zenon DEF Types
  <1>2. call' = [n \in Broker |-> [call[n] EXCEPT !.live = @ /\ HasMap(directory', op, n)]]
    BY Zenon DEF Apply
  <1>3. ASSUME NEW n \in Broker
        PROVE  /\ call'[n] \in CallRec
               /\ call'[n].pc = call[n].pc /\ call'[n].attempt = call[n].attempt
               /\ call'[n].targets = call[n].targets
               /\ call[n].live /\ HasMap(directory', op, n) => call'[n].live
               /\ ~call[n].live => call'[n] = call[n]
    <2> DEFINE has == HasMap(directory', op, n)
               c == call[n]
               d == [c EXCEPT !.live = @ /\ has]
    <2>1. c \in CallRec /\ has \in BOOLEAN BY <1>1, Zenon DEF HasMap
    <2>2. call'[n] = d BY <1>2, Zenon
    <2> HIDE DEF has, c
    <2>3. /\ d \in CallRec /\ d.pc = c.pc /\ d.attempt = c.attempt /\ d.targets = c.targets
          /\ c.live /\ has => d.live
      BY <2>1, Zenon DEF CallRec
    <2>4. ~c.live => d = c BY <2>1, Zenon DEF CallRec
    <2> HIDE DEF d
    <2> QED BY <2>2, <2>3, <2>4, Zenon DEF c, has
  <1> QED BY <1>2, <1>3, Zenon DEF CallsAfterEntry

LEMMA ApplyOp ==
  ASSUME Types, NEW e, Apply(e)
  PROVE  \E more \in SUBSET Target : Ranges(more) /\ OpAfterEntry(more)
  <1>1. PICK more \in SUBSET Target :
          /\ IF Ranged(Self) /\ call[Self].pc = "wait"
               THEN RangeOn(job[Self][1].left, Listed(directory, op, Self),
                            Listed(directory', op, Self), more)
               ELSE more = {} /\ UNCHANGED job
          /\ op' = [op EXCEPT !.grew = @ \/ more # {},
                              !.applied = IF op.pc = "idle" THEN 0 ELSE @ + 1]
    BY Zenon DEF Apply, Target
  <1>2. Ranges(more) BY <1>1, Zenon DEF Ranged, Ranges
  <1>3. OpAfterEntry(more)
    <2> DEFINE grew == op.grew \/ more # {}
               applied == IF op.pc = "idle" THEN 0 ELSE op.applied + 1
    <2>1. op \in OpRec BY Zenon DEF Types
    <2>2. grew \in BOOLEAN /\ applied \in Nat BY <2>1 DEF OpRec
    <2>3. op' = [op EXCEPT !.grew = grew, !.applied = applied] BY <1>1, Zenon
    <2> HIDE DEF grew, applied
    <2>4. /\ op' \in OpRec /\ op'.pc = op.pc /\ op'.kind = op.kind /\ op'.to = op.to
          /\ op'.todo = op.todo /\ op'.total = op.total /\ op'.success = op.success
          /\ op'.grew = grew
      BY <2>1, <2>2, <2>3, Zenon DEF OpRec
    <2> QED BY <2>4, Zenon DEF grew, OpAfterEntry
  <1> QED BY <1>2, <1>3, Zenon

LEMMA RangeStill ==
  ASSUME Inv, op.kind # "all" \/ op.pc = "idle", NEW more, more = {}, job' = job
  PROVE  JobsAfterEntry(more)
  <1>1. ASSUME NEW n \in Broker, NEW a \in 1 .. MaxAttempts PROVE GoesOn(n, a, more)
    <2>1. CASE op.kind # "all"
      <3>1. Functional(job[n][a].left) BY <2>1, Zenon DEF Inv, Stages, JobOK
      <3> QED BY <2>1, <3>1, Zenon DEF GoesOn, Functional
    <2>2. CASE op.pc = "idle"
      <3>1. NoJobs[a].left = {} BY Zenon DEF NoJobs, NoJob
      <3>2. job[n][a].left = {} BY <2>2, <3>1, Zenon DEF Inv, Stages, Idle
      <3> QED BY <3>2, Zenon DEF GoesOn, Functional
    <2> QED BY <2>1, <2>2, Zenon
  <1> QED BY <1>1, Zenon DEF JobsAfterEntry, Inv, Types

\* What is left of the range, and what it meets besides.
LEMMA RangeNext ==
  ASSUME Types, directory' \in Directories, op.kind # "all", NEW more, NEW left,
         RangeOn(left, Listed(directory, op, Self), Listed(directory', op, Self), more)
  PROVE  \E next \in SUBSET Target :
           /\ job' = [job EXCEPT ![Self][1] = [job[Self][1] EXCEPT !.left = next]]
           /\ Functional(next)
           /\ \A t \in next : \/ \E s \in left : s[1] = t[1]
                              \/ t \in more /\ \A s \in Listed(directory, op, Self) : s[1] # t[1]
           /\ \A t \in left : t \in Listed(directory', op, Self) => t \in next
  <1> DEFINE old == Listed(directory, op, Self)
             new == Listed(directory', op, Self)
             next == {t \in new : \E s \in left : s[1] = t[1]} \cup more
  <1>0. Self \in Broker /\ 1 \in 1 .. MaxAttempts BY RoutingAssumption, Bounds, Zenon
  <1>t. job \in [Broker -> [1 .. MaxAttempts -> JobRec]] BY Zenon DEF Types
  <1>1. /\ more \subseteq {t \in new : \A s \in old : s[1] # t[1]}
        /\ job' = [job EXCEPT ![Self][1] = [job[Self][1] EXCEPT !.left = next]]
    BY <1>0, <1>t, Zenon DEF RangeOn
  <1>2. new \subseteq Target /\ Functional(new) BY <1>0, ListedOnce, Zenon DEF Types, OpRec
  <1>3. /\ next \subseteq new
        /\ \A t \in next : (\E s \in left : s[1] = t[1]) \/ (t \in more /\ \A s \in old : s[1] # t[1])
        /\ \A t \in left : t \in new => t \in next
    BY <1>1, Zenon
  <1> HIDE DEF next, old, new
  <1>4. next \subseteq Target /\ Functional(next) BY <1>2, <1>3, Zenon DEF Functional
  <1>5. /\ next \in SUBSET Target /\ Functional(next)
        /\ job' = [job EXCEPT ![Self][1] = [job[Self][1] EXCEPT !.left = next]]
        /\ \A t \in next : \/ \E s \in left : s[1] = t[1]
                           \/ t \in more /\ \A s \in Listed(directory, op, Self) : s[1] # t[1]
        /\ \A t \in left : t \in Listed(directory', op, Self) => t \in next
    BY <1>1, <1>3, <1>4, Zenon DEF old, new
  <1> QED BY <1>5, Zenon

LEMMA RangeMoves ==
  ASSUME Inv, directory' \in Directories, op.kind # "all", op.pc # "idle", NEW more,
         job[Self][1].left # {},
         RangeOn(job[Self][1].left, Listed(directory, op, Self), Listed(directory', op, Self), more)
  PROVE  JobsAfterEntry(more)
  <1> DEFINE left == job[Self][1].left
             j == job[Self][1]
  <1>0. Types /\ Self \in Broker /\ 1 \in 1 .. MaxAttempts BY RoutingAssumption, Bounds, Zenon DEF Inv
  <1>1. PICK next \in SUBSET Target :
          /\ job' = [job EXCEPT ![Self][1] = [job[Self][1] EXCEPT !.left = next]]
          /\ Functional(next)
          /\ \A t \in next : \/ \E s \in left : s[1] = t[1]
                             \/ t \in more /\ \A s \in Listed(directory, op, Self) : s[1] # t[1]
          /\ \A t \in left : t \in Listed(directory', op, Self) => t \in next
    BY <1>0, RangeNext
  <1> DEFINE x == [j EXCEPT !.left = next]
  <1>2. JobBecomes(Self, 1, x) BY <1>1, Zenon DEF JobBecomes
  <1>j. j \in JobRec BY <1>0, JobNat, Zenon
  <1> HIDE DEF j
  <1>3. x \in JobRec /\ x.left = next /\ x.pc = j.pc /\ x.total = j.total /\ x.success = j.success
    BY <1>j, Zenon DEF JobRec
  <1> HIDE DEF x
  <1>4. OnlyJob(Self, 1) /\ job'[Self][1] = x BY <1>0, <1>2, <1>3, JobSet, Zenon
  <1>5. ASSUME NEW n \in Broker, NEW a \in 1 .. MaxAttempts PROVE GoesOn(n, a, more)
    <2>1. CASE n = Self /\ a = 1 BY <1>1, <1>3, <1>4, <2>1, Zenon DEF j, GoesOn
    <2>2. CASE n # Self \/ a # 1
      <3>1. job'[n][a] = job[n][a] BY <1>4, <2>2, Zenon DEF OnlyJob
      <3>2. Functional(job[n][a].left) BY Zenon DEF Inv, Stages, JobOK
      <3> QED BY <2>2, <3>1, <3>2, Zenon DEF GoesOn
    <2> QED BY <2>1, <2>2, Zenon
  <1> QED BY <1>4, <1>5, Zenon DEF JobsAfterEntry, OnlyJob

LEMMA ApplyEffect ==
  ASSUME Inv, NEW e \in Entry, Apply(e) PROVE \E more : Applied(more)
  <1>0. Types BY Zenon DEF Inv
  <1>1. directory' \in Directories
    <2>1. e \in Ops /\ directory' = applyRaftOp(directory, e) BY RoutingAssumption, Zenon DEF Apply
    <2> QED BY <2>1, OpsTyped, Zenon DEF Inv, Types
  <1>2. conn' = conn /\ conns' = conns /\ got' = got /\ failed' = failed /\ Watch BY Zenon DEF Apply
  <1>3. PICK more \in SUBSET Target : Ranges(more) /\ OpAfterEntry(more) BY <1>0, ApplyOp, Zenon
  <1>4. op.kind # "all" \/ op.pc = "idle" BY Zenon DEF Apply
  <1>5. JobsAfterEntry(more)
    <2>1. CASE more = {} /\ job' = job BY <1>4, <2>1, RangeStill, Zenon
    <2>2. CASE ~(more = {} /\ job' = job)
      <3>1. /\ call[Self].live /\ job[Self][1].left # {}
            /\ RangeOn(job[Self][1].left, Listed(directory, op, Self), Listed(directory', op, Self), more)
        BY <1>3, <2>2, Zenon DEF Ranges
      <3>2. op.pc # "idle"
        <4>1. Idle /\ Self \in Broker /\ call[Self].live BY <3>1, RoutingAssumption, Zenon DEF Inv, Stages
        <4>2. op.pc = "idle" => call[Self] = NoCall BY <4>1, Zenon DEF Idle
        <4> QED BY <4>1, <4>2 DEF NoCall
      <3> QED BY <1>1, <1>4, <3>1, <3>2, RangeMoves, Zenon
    <2> QED BY <2>1, <2>2, Zenon
  <1>6. CallsAfterEntry BY <1>0, ApplyCalls, Zenon
  <1>7. Applied(more) BY <1>1, <1>2, <1>3, <1>5, <1>6 DEF Applied
  <1> QED BY <1>7, Zenon

LEMMA ApplyTypes == ASSUME Types, NEW more, Applied(more) PROVE Types'
  <1>1. steady' \subseteq Conn BY Zenon DEF Applied, Watch, Types
  <1>2. Addressed(op)' BY Zenon DEF Addressed, Types, Applied, OpAfterEntry
  <1>3. op' \in OpRec /\ call' \in [Broker -> CallRec] /\ job' \in [Broker -> [1 .. MaxAttempts -> JobRec]]
    BY Zenon DEF Applied, OpAfterEntry, CallsAfterEntry, JobsAfterEntry
  <1> QED BY <1>1, <1>2, <1>3, Zenon DEF Types, Applied

LEMMA ApplyIdle == ASSUME Inv, NEW more, Applied(more) PROVE Idle'
  <1>1. SUFFICES ASSUME op'.pc = "idle"
                 PROVE  /\ op'.kind = "all" /\ op'.success = 0 /\ op'.total = 0 /\ steady' = {} /\ ~failed'
                        /\ op'.todo = {} /\ ~op'.grew
                        /\ \A k \in Conn : got'[k] = 0
                        /\ \A n \in Broker : call'[n] = NoCall /\ job'[n] = NoJobs
    BY Zenon DEF Idle
  <1>2. op.pc = "idle" /\ Idle BY <1>1, Zenon DEF Applied, OpAfterEntry, Inv, Stages
  <1>3. job' = job BY <1>2, Zenon DEF Applied, JobsAfterEntry
  <1>4. \A n \in Broker : call'[n] = call[n] BY <1>2 DEF Idle, NoCall, Applied, CallsAfterEntry
  <1>5. steady' = {} BY <1>2, Zenon DEF Idle, Applied, Watch
  <1> QED BY <1>2, <1>3, <1>4, <1>5, Zenon DEF Idle, Applied, OpAfterEntry, JobsAfterEntry

LEMMA ApplyStages == ASSUME Inv, NEW more, Applied(more) PROVE Stages'
  <1>1. Idle' BY ApplyIdle, Zenon
  <1>2. Placed' BY DEF Applied, Inv, Stages, Placed
  <1>0. OpAfterEntry(more) /\ CallsAfterEntry /\ failed' = failed BY Zenon DEF Applied
  <1>3. ASSUME NEW n \in Broker PROVE CallOK(n)'
    <2>1. CallOK(n) BY Zenon DEF Inv, Stages
    <2> QED BY <1>0, <2>1, Zenon DEF CallOK, Functional, OpAfterEntry, CallsAfterEntry
  <1>4. ASSUME NEW n \in Broker, NEW a \in 1 .. MaxAttempts PROVE JobOK(n, a)'
    <2>1. JobOK(n, a) /\ GoesOn(n, a, more) BY Zenon DEF Inv, Stages, Applied, JobsAfterEntry
    <2>2. call'[n].attempt = call[n].attempt /\ op'.kind = op.kind
      BY <1>0, Zenon DEF OpAfterEntry, CallsAfterEntry
    <2> QED BY <2>1, <2>2, Zenon DEF JobOK, GoesOn, Functional
  <1>5. (op.kind \in Sends => op.success <= op.total)'
    BY <1>0, Zenon DEF OpAfterEntry, Inv, Stages
  <1> QED BY <1>1, <1>2, <1>3, <1>4, <1>5, Zenon DEF Stages

\* What the range adds was not listed; a steady connection is.
LEMMA ApplyPast ==
  ASSUME Inv, NEW more, Applied(more), NEW k \in Conn, NEW n \in Broker, NEW a \in 1 .. MaxAttempts,
         Past(k, n, a), more = {} \/ n # Self \/ (k \in steady /\ Host(k) = n)
  PROVE  Past(k, n, a)'
  <1>0. conn' = conn /\ GoesOn(n, a, more) BY Zenon DEF Applied, JobsAfterEntry
  <1>1. SUFFICES ASSUME NEW t \in job'[n][a].left, t[1] = conn[k].cid PROVE FALSE
    BY <1>0, Zenon DEF Past
  <1>2. CASE op.kind # "all" /\ \E s \in job[n][a].left : s[1] = t[1] BY <1>1, <1>2, Zenon DEF Past
  <1>3. CASE n = Self /\ t \in more /\ \A s \in Listed(directory, op, Self) : s[1] # t[1]
    <2>1. k \in steady /\ Host(k) = Self BY <1>3, Zenon
    <2>2. <<conn[k].cid, conn[k].at[2]>> \in Listed(directory, op, Self)
      BY <2>1, Zenon DEF Inv, SteadyInv, Reachable, Host
    <2> QED BY <1>1, <1>3, <2>2, Zenon
  <1> QED BY <1>0, <1>1, <1>2, <1>3, Zenon DEF GoesOn

LEMMA ApplyCount == ASSUME Sizes, Inv, NEW more, Applied(more) PROVE CountInv'
  <1>0. /\ conn' = conn /\ got' = got /\ op'.kind = op.kind /\ op'.success = op.success
        /\ (op.grew => op'.grew) /\ (~op'.grew => more = {})
    BY Zenon DEF Applied, OpAfterEntry
  <1>1. SamePlaces BY <1>0, Zenon DEF SamePlaces
  <1>2. \A n \in Broker : call[n].pc = "done" => call'[n].pc = "done" BY Zenon DEF Applied, CallsAfterEntry
  <1>3. ASSUME NEW n \in Broker, NEW a \in 1 .. MaxAttempts
        PROVE  /\ job'[n][a].success = job[n][a].success
               /\ ~op'.grew => \A k \in Conn :
                    got[k] > 0 /\ Host(k) = n => (Past(k, n, a) => Past(k, n, a)')
    <2>1. job'[n][a].success = job[n][a].success BY DEF Applied, JobsAfterEntry, GoesOn
    <2> QED BY <1>0, <2>1, ApplyPast, Zenon
  <1>4. CountStep BY <1>0, <1>1, <1>2, <1>3, Zenon DEF CountStep
  <1> QED BY <1>4, CountKept, Zenon

LEMMA ApplyOnce ==
  ASSUME Sizes, Inv, Types', NEW more, Applied(more), steady' \subseteq steady PROVE OnceInv'
  <1>0. conn' = conn /\ got' = got /\ (op.grew => op'.grew) /\ (~op'.grew => more = {})
    BY Zenon DEF Applied, OpAfterEntry
  <1>1. SamePlaces BY <1>0, Zenon DEF SamePlaces
  <1>2. \A n \in Broker : call[n].attempt <= call'[n].attempt
    BY AttemptNat DEF Inv, Applied, CallsAfterEntry
  <1>3. ASSUME NEW k \in Conn, ~op'.grew \/ k \in steady' \/ Host(k) # Self,
               NEW a \in 1 .. call[Host(k)].attempt, Past(k, Host(k), a)
        PROVE  Past(k, Host(k), a)'
    <2>1. Host(k) \in Broker /\ a \in 1 .. MaxAttempts BY AttemptInRange, Zenon DEF Inv
    <2>2. more = {} \/ Host(k) # Self \/ k \in steady BY <1>0, <1>3, Zenon
    <2>3. Host(k)' = Host(k) BY <1>0, Zenon DEF Host
    <2>4. \A n \in Broker : n = Host(k) => Past(k, n, a)' BY <1>3, <2>1, <2>2, ApplyPast, Zenon
    <2> QED BY <2>1, <2>3, <2>4, Zenon
  <1>4. OnceStep BY <1>0, <1>1, <1>2, <1>3, Zenon DEF OnceStep
  <1> QED BY <1>4, OnceKept, Zenon

\* A connection that is still listed is still ahead.
LEMMA ApplyAhead ==
  ASSUME Inv, NEW more, Applied(more), NEW k \in Conn, Reachable(k, op)', Ahead(k) PROVE Ahead(k)'
  <1> DEFINE n == Host(k)
             x == <<conn[k].cid, conn[k].at[2]>>
  <1>0. conn' = conn /\ OpAfterEntry(more) /\ CallsAfterEntry BY Zenon DEF Applied
  <1>h. n \in Broker /\ n' = n BY <1>0, PlaceBroker, Zenon DEF Inv, Host
  <1>1. x \in Listed(directory', op, n)
    <2>1. x \in Listed(directory', op', n) BY <1>0, Zenon DEF Reachable, Host
    <2> QED BY <1>0, <2>1, ListedSame, Zenon DEF OpAfterEntry
  <1>2. HasMap(directory', op, n) BY <1>1, Zenon DEF HasMap
  <1>3. GoesOn(n, 1, more) BY <1>h, Bounds, Zenon DEF Applied, JobsAfterEntry
  <1> HIDE DEF n
  <1>4. /\ call'[n].pc = call[n].pc /\ (call[n].live => call'[n].live)
        /\ op'.todo = op.todo /\ op'.kind = op.kind
        /\ job'[n][1].pc = job[n][1].pc /\ job'[n][1].success = job[n][1].success
    BY <1>0, <1>h, <1>2, <1>3 DEF CallsAfterEntry, OpAfterEntry, GoesOn
  <1>5. x \in job[n][1].left => x \in job'[n][1].left BY <1>1, <1>3, Zenon DEF GoesOn, n
  <1>6. x' = x BY <1>0, Zenon
  <1> HIDE DEF x
  <1> QED BY <1>h, <1>4, <1>5, <1>6, Zenon DEF Ahead, n, x

LEMMA ApplySteady ==
  ASSUME Inv, NEW more, Applied(more) PROVE SteadyInv' /\ steady' \subseteq steady
  <1>1. ASSUME NEW k \in Conn, Reachable(k, op)', Done(k) \/ Ahead(k) PROVE (Done(k) \/ Ahead(k))'
    <2>1. CASE Done(k) BY <2>1, Zenon DEF Done, Applied, OpAfterEntry
    <2>2. CASE Ahead(k) BY <1>1, <2>2, ApplyAhead, Zenon
    <2> QED BY <1>1, <2>1, <2>2, Zenon
  <1> QED BY <1>1, SteadyKept DEF Applied, Inv, Types

LEMMA ApplyInv == ASSUME Sizes, Inv, NEW e \in Entry, Apply(e) PROVE Inv'
  <1>0. PICK more : Applied(more) BY ApplyEffect, Zenon
  <1>1. Types' /\ Stages' BY <1>0, ApplyTypes, ApplyStages, Zenon DEF Inv
  <1>2. SteadyInv' /\ steady' \subseteq steady BY <1>0, ApplySteady, Zenon
  <1>3. CountInv' /\ OnceInv' BY <1>0, <1>1, <1>2, ApplyCount, ApplyOnce
  <1> QED BY <1>1, <1>2, <1>3, Zenon DEF Inv

LEMMA ApplyFatalInv == ASSUME Sizes, Inv, NEW e, ApplyFatal(e) PROVE Inv'
  <1>u. directory' = directory /\ conn' = conn /\ conns' = conns /\ failed' = failed
    BY Zenon DEF ApplyFatal, clients
  <1>o. /\ op' \in OpRec /\ op'.pc = "dead" /\ op'.kind = "all" /\ op'.todo = {}
        /\ op'.success = 0 /\ op'.total = 0
    <2>1. op' = [NoOp EXCEPT !.pc = "dead"] BY Zenon DEF ApplyFatal
    <2>2. NoOp \in OpRec BY Zenon DEF NoOp, OpRec, Sends, InTurn
    <2>3. op' \in OpRec BY <2>1, <2>2, Zenon DEF OpRec
    <2> QED BY <2>1, <2>3, Zenon DEF NoOp
  <1>c. /\ call' = [n \in Broker |-> NoCall] /\ job' = [n \in Broker |-> NoJobs]
        /\ got' = [k \in Conn |-> 0] /\ steady' = {}
    BY Zenon DEF ApplyFatal
  <1>1. Types'
    <2>1. call' \in [Broker -> CallRec] BY <1>c, NoCallTyped, Zenon
    <2>2. job' \in [Broker -> [1 .. MaxAttempts -> JobRec]] BY <1>c, Zenon DEF NoJobs, NoJob, JobRec
    <2>3. Addressed(op)' BY <1>o, Zenon DEF Addressed
    <2> QED BY <2>1, <2>2, <2>3, <1>u, <1>o, <1>c, SMTT(30) DEF Inv, Types
  <1>2. Stages'
    <2>1. Idle' BY <1>o, Zenon DEF Idle
    <2>2. Placed' BY <1>u, <1>c DEF Inv, Stages, Placed
    <2>3. ASSUME NEW n \in Broker PROVE CallOK(n)'
      <3>1. call'[n].pc = "none" /\ call'[n].attempt = 0 BY <1>c, Zenon DEF NoCall
      <3> QED BY <3>1, <1>o DEF CallOK
    <2>4. ASSUME NEW n \in Broker, NEW a \in 1 .. MaxAttempts PROVE JobOK(n, a)'
      <3>1. /\ job'[n][a].pc = "none" /\ job'[n][a].left = {}
            /\ job'[n][a].success = 0 /\ job'[n][a].total = 0
        BY <1>c, Zenon DEF NoJobs, NoJob
      <3> QED BY <3>1, <1>o DEF JobOK
    <2>5. (op.kind \in Sends => op.success <= op.total)' BY <1>o
    <2> QED BY <2>1, <2>2, <2>3, <2>4, <2>5 DEF Stages
  <1>3. CountInv' BY <1>o, <1>c, CountAtFirst, Zenon DEF NoJobs, NoJob
  <1>4. OnceInv' BY <1>1, <1>c, OnceAtFirst, Zenon
  <1>5. SteadyInv' BY <1>c, Zenon DEF SteadyInv
  <1> QED BY <1>1, <1>2, <1>3, <1>4, <1>5 DEF Inv

Still == UNCHANGED <<directory, conn, conns, op, call, job, got, failed, steady>>

LEMMA StutterStages == ASSUME Inv, Still PROVE Types' /\ Stages'
  <1>1. Types' BY SMTT(30) DEF Still, Inv, Types, Addressed
  <1>2. Idle' /\ Placed' BY DEF Still, Inv, Stages, Idle, Placed
  <1>3. ASSUME NEW n \in Broker PROVE CallOK(n)' BY DEF Still, Inv, Stages, CallOK, Functional
  <1>4. ASSUME NEW n \in Broker, NEW a \in 1 .. MaxAttempts PROVE JobOK(n, a)'
    BY Zenon DEF Still, Inv, Stages, JobOK, Functional
  <1> QED BY <1>1, <1>2, <1>3, <1>4, SMTT(30) DEF Still, Inv, Stages

LEMMA StutterCount == ASSUME Inv, Still PROVE CountInv'
  <1>1. Counted' = Counted BY Zenon DEF Still, Counted, Host
  <1>2. \A n \in Broker, a \in 1 .. MaxAttempts : ServedBy(n, a)' = ServedBy(n, a)
    BY DEF Still, ServedBy, Past, Host
  <1> QED BY <1>1, <1>2, Zenon DEF Still, Inv, CountInv

LEMMA StutterOnce == ASSUME Inv, Still PROVE OnceInv'
  <1>1. \A k \in Conn : Attempts(k)' = Attempts(k) BY Zenon DEF Still, Attempts, Past, Host
  <1> QED BY <1>1, Zenon DEF Still, Inv, OnceInv, Host

LEMMA StutterSteady == ASSUME Inv, Still PROVE SteadyInv'
  <1>1. ASSUME NEW k \in steady PROVE Reachable(k, op)'
    <2>1. Reachable(k, op) BY Zenon DEF Inv, SteadyInv
    <2> QED BY <2>1, Zenon DEF Still, Reachable
  <1>2. ASSUME NEW k \in steady PROVE (Done(k) \/ Ahead(k))'
    <2>1. CASE Done(k) BY <2>1, Zenon DEF Still, Done
    <2>2. CASE Ahead(k) BY <2>2, AheadStays, Zenon DEF Still
    <2> QED BY <2>1, <2>2, Zenon DEF Inv, SteadyInv
  <1> QED BY <1>1, <1>2, Zenon DEF Still, Inv, SteadyInv

LEMMA StutterInv == ASSUME Inv, UNCHANGED vars PROVE Inv'
  <1>1. Still BY Zenon DEF Still, vars, clients
  <1> QED BY <1>1, StutterStages, StutterCount, StutterOnce, StutterSteady DEF Inv

-----------------------------------------------------------------------------
LEMMA NextInv == ASSUME Sizes, Inv, Next PROVE Inv'
  <1>1. ASSUME NEW o \in Operations, Begin(o) PROVE Inv' BY <1>1, BeginInv, Zenon
  <1>2. ASSUME NEW n \in Broker, Work(n) PROVE Inv'
    <2>1. CASE RangeBroker(n) BY <2>1, RangeInv, Zenon
    <2>2. CASE Load(n) BY <2>2, LoadInv
    <2>3. CASE RpcFails(n) BY <2>3, RpcFailsInv
    <2>4. ASSUME NEW a \in 1 .. MaxAttempts, Finish(n, a) PROVE Inv' BY <2>4, FinishInv, Zenon
    <2>5. ASSUME NEW a \in 1 .. MaxAttempts, NEW t \in Client \X Net, Deliver(n, a, t) PROVE Inv'
      BY <2>5, DeliverInv, Zenon DEF Target
    <2> QED BY <1>2, <2>1, <2>2, <2>3, <2>4, <2>5 DEF Work
  <1>3. ASSUME NEW k \in Conn, Close(k) \/ OnClose(k) PROVE Inv' BY <1>3, ClosedInv, Zenon
  <1>4. ASSUME NEW k \in Conn, NEW l \in Login, Connect(k, l[1], l[2]) PROVE Inv'
    <2>1. l[1] \in Server /\ l[2] \in Client BY RoutingAssumption
    <2> QED BY <1>4, <2>1, ConnectInv, Zenon
  <1>5. ASSUME NEW e \in Entry, Apply(e) PROVE Inv' BY <1>5, ApplyInv
  <1>6. ASSUME NEW e \in Entry, ApplyFatal(e) PROVE Inv' BY <1>6, ApplyFatalInv
  <1> QED BY <1>1, <1>2, <1>3, <1>4, <1>5, <1>6 DEF Next

INSTANCE FiniteSetTheorems

(* What the lemmas assume of finite sets holds.                            *)
LEMMA SizesKnown == Sizes
  <1>1. ASSUME NEW T, IsFiniteSet(T)
        PROVE  /\ Cardinality(T) \in Nat
               /\ \A S \in SUBSET T : IsFiniteSet(S) /\ Cardinality(S) <= Cardinality(T)
    BY <1>1, FS_CardinalityType, FS_Subset, Zenon
  <1>2. ASSUME NEW S, IsFiniteSet(S), NEW x, x \notin S
        PROVE  Cardinality(S \cup {x}) = Cardinality(S) + 1
    BY <1>2, FS_AddElement, Zenon
  <1>3. ASSUME NEW S, NEW T, IsFiniteSet(S), IsFiniteSet(T), S \cap T = {}
        PROVE  Cardinality(S \cup T) = Cardinality(S) + Cardinality(T)
    <2>1. Cardinality(S \cup T) = Cardinality(S) + Cardinality(T) - Cardinality(S \cap T)
      BY <1>3, FS_Union, Zenon
    <2>2. Cardinality(S) \in Nat /\ Cardinality(T) \in Nat /\ Cardinality(S \cap T) = 0
      BY <1>3, FS_CardinalityType, FS_EmptySet, Zenon
    <2> QED BY <2>1, <2>2, SMTT(30)
  <1>4. ASSUME NEW m \in Nat PROVE IsFiniteSet(1 .. m) /\ Cardinality(1 .. m) = m
    BY FS_Interval, SMTT(30)
  <1> QED BY <1>1, <1>2, <1>3, <1>4, Zenon DEF Sizes

(* The invariant holds of every state, whatever broker, client or entry    *)
(* takes the next step.                                                    *)
LEMMA Invariant == Spec => []Inv
  <1>1. Init => Inv BY InitInv, SizesKnown, Zenon
  <1>2. Inv /\ [Next]_vars => Inv' BY NextInv, StutterInv, SizesKnown, Zenon
  <1> QED BY <1>1, <1>2, PTL DEF Spec

-----------------------------------------------------------------------------
\* A send that reports a number of successes (SendToUser, SendToChannel,
\* SendToAll) put the message in the queues of at least as many connections,
\* for any number of brokers, clients and attempts, whatever RPCs fail after
\* the request was served, and whatever entries the Raft loop applies, as long
\* as none adds to the map that is ranged over.
THEOREM SuccessesAreDeliveries == Spec => []CountedIsDelivered
  <1>1. Inv => CountedIsDelivered BY InvCounted, SizesKnown, Zenon
  <1> QED BY <1>1, Invariant, PTL

\* A connection that is open, in its server's map and listed from the
\* beginning to the end of an operation is served by SendToUser,
\* SendToChannel, SendToAll and KickUser, and found by IsOnline, whatever else
\* is applied to the maps meanwhile, unless an RPC failed or a queue was full.
THEOREM SteadyClientsServed == Spec => []SteadyServed
  BY Invariant, InvSteady, PTL

\* A connection gets a message at most as often as the RPC to its broker was
\* attempted: duplicates come from gRPC's retries alone, but for clients that
\* are added to the broker's own map while sendToClients ranges over it.
THEOREM NoDuplicates == Spec => []OncePerAttempt
  <1>1. Inv => OncePerAttempt BY InvOnce, SizesKnown
  <1> QED BY <1>1, Invariant, PTL
=============================================================================
