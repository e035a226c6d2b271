---------------------------- MODULE SessionTable ----------------------------
(***************************************************************************)
(* What the directory promises to the message routers, without the maps    *)
(* that hold it: which client of which user is connected where, and which  *)
(* connected client receives what is sent to which channel.                *)
(***************************************************************************)
CONSTANTS Broker, User, Client, Channel

VARIABLES
  sessions,   \* the connected clients, as triples broker, user, client
  members     \* the channel subscriptions, as triples broker, channel, client

vars == <<sessions, members>>

TypeOK ==
  /\ sessions \subseteq Broker \X User \X Client
  /\ members \subseteq Broker \X Channel \X Client

Init ==
  /\ sessions = {}
  /\ members = {}

Open(n, u, c, channels) ==
  /\ sessions' = sessions \cup {<<n, u, c>>}
  /\ members' = members \cup {<<n, ch, c>> : ch \in channels}

\* A client that goes takes all its subscriptions with it.
Close(n, u, c) ==
  /\ sessions' = sessions \ {<<n, u, c>>}
  /\ members' = members \ {<<n, ch, c>> : ch \in Channel}

\* The subscriptions that clients of user u have, or would have, to channels.
SubscriptionsOf(u, channels) ==
  {m \in Broker \X Channel \X Client :
     m[2] \in channels /\ <<m[1], u, m[3]>> \in sessions}

Join(u, channels) ==
  /\ members' = members \cup SubscriptionsOf(u, channels)
  /\ UNCHANGED sessions

Leave(u, channels) ==
  /\ members' = members \ SubscriptionsOf(u, channels)
  /\ UNCHANGED sessions

Remove(n) ==
  /\ sessions' = {s \in sessions : s[1] # n}
  /\ members' = {m \in members : m[1] # n}

Next ==
  \/ \E n \in Broker, u \in User, c \in Client :
       \/ \E channels \in SUBSET Channel : Open(n, u, c, channels)
       \/ Close(n, u, c)
  \/ \E u \in User, channels \in SUBSET Channel :
       Join(u, channels) \/ Leave(u, channels)
  \/ \E n \in Broker : Remove(n)

Spec == Init /\ [][Next]_vars

=============================================================================
