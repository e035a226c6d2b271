------------------------------ MODULE Channels ------------------------------
(***************************************************************************)
(* The channels of a user are kept twice: in Redis, by the cable server    *)
(* (cmd/cable/booter.go), and in the directory, by the brokers.  A call of *)
(* the API changes Redis first and then proposes the change to the log; a  *)
(* login reads Redis and then proposes the client with what it read.       *)
(* Nothing makes either pair of steps one: calls and logins interleave, a  *)
(* Redis command may fail, or take effect and still report an error, and   *)
(* a proposal may be lost, because SubmitOperation drops Propose's error.  *)
(*                                                                         *)
(* The directory is the one the log determines: an entry is applied where  *)
(* it is proposed (ReplicatedDirectory models the copies).  Redis is       *)
(* enabled.  A client connects as one user, and has one connection at a    *)
(* time (Sessions models logins that overlap).                             *)
(***************************************************************************)
EXTENDS Directory, Api

CONSTANTS
  UserOf,   \* client -> the user it connects as
  Call      \* the API calls that may be under way at the same time

ASSUME ChannelsAssumption == UserOf \in [Client -> User]

VARIABLES
  redis,    \* user -> the fields of the hash JoinKey(uid)
  session,  \* client -> its connection: how far, at which broker, channels read
  call,     \* call -> how far, what it changes, and what it has missed
  removed,  \* the brokers removed from the cluster
  drift     \* auxiliary: <<client, channel>> that may differ, and for what reason below

vars == <<maps, redis, session, call, removed, drift>>

Off  == [pc |-> "off", at |-> NoNet, channels |-> {}]
Idle == [pc |-> "idle", kind |-> "join", uid |-> Absent, channels |-> {},
         owes |-> {}, over |-> {}, late |-> FALSE]

Init ==
  /\ DirectoryInit
  /\ redis = [u \in User |-> {}]
  /\ session = [c \in Client |-> Off]
  /\ call = [k \in Call |-> Idle]
  /\ removed = {}
  /\ drift = {}

Clients(u, pcs) == {c \in Client : UserOf[c] = u /\ session[c].pc \in pcs}

Listed(c) == HasClient(maps, session[c].at, UserOf[c], c)

\* SubmitOperation at one of the brokers at: the entry is committed and
\* applied, or lost.
Submit(op, at, lost) ==
  /\ (at \subseteq removed) => lost
  /\ maps' = IF lost THEN maps ELSE applyRaftOp(maps, op)

-----------------------------------------------------------------------------
(* Logins.                                                                 *)

\* The auth methods of the configuration: pass, or one that compares the
\* password with a token, an account, a Redis key or a remote answer.
OnUserConnect(method, matches) == method = "pass" \/ matches

Login(c, n) ==
  /\ session[c].pc = "off"
  /\ \E method \in {"pass", "jwt", "static", "redis", "remote"}, matches \in BOOLEAN :
       OnUserConnect(method, matches)
  /\ session' = [session EXCEPT ![c] = [pc |-> "read", at |-> n, channels |-> {}]]
  /\ UNCHANGED <<maps, redis, call, removed, drift>>

\* HGETALL of the user's channels; onUserConnect goes on without channels if
\* it fails.  The entry of a connection whose close was lost may still be
\* there.
GetUserChannels(c) ==
  LET all == {c} \X Channel
  IN  /\ session[c].pc = "read"
      /\ \/ /\ session' = [session EXCEPT ![c].pc = "propose", ![c].channels = redis[UserOf[c]]]
            /\ drift' = IF Listed(c) THEN drift \cup all ELSE drift
         \/ /\ session' = [session EXCEPT ![c].pc = "propose"]
            /\ drift' = drift \cup all
      /\ UNCHANGED <<maps, redis, call, removed>>

\* The end of onUserConnect.
ProposeOpened(c, net) ==
  LET s  == session[c]
      op == [type |-> "userOpened", nodeID |-> s.at, uid |-> UserOf[c], cid |-> c,
             net |-> net, channels |-> s.channels]
  IN  /\ s.pc = "propose"
      /\ \E lost \in BOOLEAN :
           /\ Submit(op, {s.at}, lost)
           /\ drift' = IF lost THEN drift \cup ({c} \X Channel) ELSE drift
      /\ session' = [session EXCEPT ![c].pc = "open", ![c].channels = {}]
      /\ UNCHANGED <<redis, call, removed>>

onUserClosed(c) ==
  LET s  == session[c]
      op == [type |-> "userClosed", nodeID |-> s.at, uid |-> UserOf[c], cid |-> c]
  IN  /\ s.pc = "open"
      /\ \E lost \in BOOLEAN : Submit(op, {s.at}, lost)
      /\ session' = [session EXCEPT ![c] = Off]
      /\ drift' = drift \ ({c} \X Channel)
      /\ call' = [k \in Call |-> [call[k] EXCEPT !.owes = @ \ {c}]]
      /\ UNCHANGED <<redis, removed>>

-----------------------------------------------------------------------------
(* Calls of the API.                                                       *)

\* Call j, which has taken effect in Redis, must not reach the log after w.
Contradicts(w, j) ==
  /\ call[j].pc = "propose" /\ call[j].uid = w.uid /\ call[j].kind # w.kind
  /\ call[j].channels \cap w.channels # {}

\* Call k is over: it is too late for those that wait for it.
Over(calls, k) ==
  [j \in Call |-> IF j = k THEN Idle
                  ELSE [calls[j] EXCEPT !.over = @ \ {k}, !.late = @ \/ k \in calls[j].over]]

\* Fault: DEL of the hash in place of HDEL of its fields.
Del(u, channels) == redis' = [redis EXCEPT ![u] = {}]

HSet(u, channels) == redis' = [redis EXCEPT ![u] = @ \cup channels]
HDel(u, channels) == redis' = [redis EXCEPT ![u] = @ \ channels]

\* booter.JoinChannel or LeaveChannel: Redis carries the command out, and its
\* reply arrives, or an error instead.  A command that has no field, or that
\* does not reach Redis, changes nothing: the call returns the error.
Write(k, r) ==
  LET known == Clients(r.of, {"propose", "open"})
      w     == [Idle EXCEPT !.pc = "propose", !.kind = r.kind, !.uid = r.of,
                            !.channels = r.channels, !.owes = known]
      calls == [j \in Call |-> IF j = k THEN w
                               ELSE IF Contradicts(w, j) THEN [call[j] EXCEPT !.over = @ \cup {k}]
                               ELSE call[j]]
  IN  /\ call[k].pc = "idle"
      /\ r.kind \in {"join", "leave"} /\ r.of \in User /\ r.channels # {}
      /\ IF r.kind = "join" THEN HSet(r.of, r.channels) ELSE HDel(r.of, r.channels)
      /\ \/ call' = calls /\ UNCHANGED drift
         \/ call' = Over(calls, k) /\ drift' = drift \cup (known \X r.channels)
      /\ UNCHANGED <<maps, session, removed>>

Entry(k) == [type |-> IF call[k].kind = "join" THEN "joinChannel" ELSE "leaveChannel",
             uid |-> call[k].uid, channels |-> call[k].channels]

\* The change is proposed.  It misses the clients that have read Redis before
\* it and are not in the directory yet.  It puts the others right, unless a
\* call that contradicts it came after it in Redis and before it in the log;
\* one still under way then owes all of them its own proposal.
Propose(k) ==
  LET w      == call[k]
      opened == Clients(w.uid, {"open"})
      missed == w.owes \cap Clients(w.uid, {"propose"})
  IN  /\ w.pc = "propose"
      /\ \/ /\ Submit(Entry(k), Broker, FALSE)
            /\ drift' = CASE w.late -> drift \cup ((opened \cup missed) \X w.channels)
                          [] w.over # {} -> drift \cup (missed \X w.channels)
                          [] OTHER -> (drift \ ({c \in opened : Listed(c)} \X w.channels))
                                        \cup (missed \X w.channels)
         \/ /\ Submit(Entry(k), Broker, TRUE)
            /\ drift' = drift \cup (w.owes \X w.channels)
      /\ call' = Over([j \in Call |-> IF j \in w.over THEN [call[j] EXCEPT !.owes = @ \cup opened]
                                      ELSE call[j]], k)
      /\ UNCHANGED <<redis, session, removed>>

\* KickBroker: the broker is removed from the cluster.  It expels its clients
\* one by one, each of them an onUserClosed.
KickNode(r) ==
  LET n == r.of
  IN  /\ r.kind = "kickNode" /\ n \in Broker /\ r.channels = {}
      /\ removed \cup {n} # Broker
      /\ removed' = removed \cup {n}
      /\ Submit([type |-> "removeNode", nodeID |-> n], Broker, FALSE)
      /\ drift' = drift \cup ({c \in Client : session[c].at = n} \X Channel)
      /\ UNCHANGED <<redis, session, call>>

-----------------------------------------------------------------------------
\* What of the requests the API lets through.
Accepted ==
  {[kind |-> r.kind, of |-> r.of, channels |-> r.channels] :
     r \in {r \in Requests(User \cup Broker, {"join", "leave", "kickNode"}, Channel) :
              \E ready \in BOOLEAN : Status(ready, r) = OK}}

Next ==
  \/ \E c \in Client :
       \/ \E n \in Broker : Login(c, n)
       \/ GetUserChannels(c) \/ onUserClosed(c)
       \/ \E net \in Net : ProposeOpened(c, net)
  \/ \E k \in Call : Propose(k) \/ \E r \in Accepted : Write(k, r)
  \/ \E r \in Accepted : KickNode(r)

Spec == Init /\ [][Next]_vars

-----------------------------------------------------------------------------
\* Redis and the directory agree on the channels of an open client of a user
\* none of whose calls is between the two, but for the reasons drift records:
\* the login could not read Redis, or one of its proposals was lost; a call
\* reported an error of Redis that had taken effect, or its proposal was lost;
\* a call changed both between the login's read and its proposal; two calls
\* contradict each other and reached Redis and the log in different orders;
\* or the broker was removed.  Each is forgotten at the next login, and, for
\* a client the directory lists, at the next call for the same channel that
\* succeeds (booter.JoinChannel, LeaveChannel; broker.onUserConnect).
InSync ==
  \A c \in Client, ch \in Channel :
    \/ session[c].pc # "open"
    \/ <<c, ch>> \in drift
    \/ \E k \in Call : call[k].pc = "propose" /\ call[k].uid = UserOf[c] /\ ch \in call[k].channels
    \/ InChannel(maps, session[c].at, ch, c) <=> ch \in redis[UserOf[c]]

=============================================================================
