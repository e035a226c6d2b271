---------------------------- MODULE DirectoryOps ----------------------------
(***************************************************************************)
(* The broker's directory as a value, and the operations of the Raft log   *)
(* as functions from directories to directories.                           *)
(*                                                                         *)
(* A broker keeps three maps (cluster/broker.go, type broker):             *)
(*   userClients     broker id -> user id   -> client id -> network        *)
(*   channelClients  broker id -> channel   -> client id -> network        *)
(*   clientChannels  broker id -> client id -> set of channels             *)
(* The first two say where a message for a user or a channel goes; the     *)
(* third is the reverse index a disconnect uses to find the channels of a  *)
(* client.  Maps are modelled as total functions: NoNet, or the empty set, *)
(* stands for an absent key.  The code never tells an absent inner map     *)
(* from an empty one (safe.KeyMap drops an inner map that becomes empty).  *)
(*                                                                         *)
(* User and channel names are both strings of the application, so the sets *)
(* User and Channel may overlap.                                           *)
(***************************************************************************)
CONSTANTS
  Broker,    \* node ids
  User,      \* user ids
  Client,    \* client ids: one per device of a user
  Net,       \* the networks a broker listens on: tcp, ws, ...
  Channel,   \* channel names
  NoNet      \* absence of an entry

ASSUME NoNetAssumption == NoNet \notin Net

Directories ==
  [userClients    : [Broker -> [User -> [Client -> Net \cup {NoNet}]]],
   channelClients : [Broker -> [Channel -> [Client -> Net \cup {NoNet}]]],
   clientChannels : [Broker -> [Client -> SUBSET Channel]]]

\* The zero value of the three maps.
EmptyDirectory ==
  [userClients    |-> [n \in Broker |-> [u \in User |-> [c \in Client |-> NoNet]]],
   channelClients |-> [n \in Broker |-> [ch \in Channel |-> [c \in Client |-> NoNet]]],
   clientChannels |-> [n \in Broker |-> [c \in Client |-> {}]]]

UserOpenedOps ==
  [type : {"userOpened"}, nodeID : Broker, uid : User, cid : Client,
   net : Net, channels : SUBSET Channel]

UserClosedOps ==
  [type : {"userClosed"}, nodeID : Broker, uid : User, cid : Client]

JoinChannelOps  == [type : {"joinChannel"},  uid : User, channels : SUBSET Channel]
LeaveChannelOps == [type : {"leaveChannel"}, uid : User, channels : SUBSET Channel]

\* A ConfChangeRemoveNode entry.
RemoveNodeOps == [type : {"removeNode"}, nodeID : Broker]

Ops == UserOpenedOps \cup UserClosedOps \cup JoinChannelOps
         \cup LeaveChannelOps \cup RemoveNodeOps

-----------------------------------------------------------------------------
\* Client c of user u is connected to broker n, as far as directory d knows.
HasClient(d, n, u, c) == d.userClients[n][u][c] # NoNet

\* Client c on broker n receives what is sent to channel ch.
InChannel(d, n, ch, c) == d.channelClients[n][ch][c] # NoNet

userOpenedOp(d, op) ==
  [userClients    |-> [d.userClients EXCEPT ![op.nodeID][op.uid][op.cid] = op.net],
   channelClients |-> [n \in Broker |-> [ch \in Channel |-> [c \in Client |->
                         IF n = op.nodeID /\ c = op.cid /\ ch \in op.channels
                           THEN op.net
                           ELSE d.channelClients[n][ch][c]]]],
   clientChannels |-> [d.clientChannels EXCEPT ![op.nodeID][op.cid] = @ \cup op.channels]]

\* The deferred DeleteKey removes the field named op.uid of the client's
\* channel set, and no other.
userClosedOp(d, op) ==
  [userClients    |-> [d.userClients EXCEPT ![op.nodeID][op.uid][op.cid] = NoNet],
   channelClients |-> [n \in Broker |-> [ch \in Channel |-> [c \in Client |->
                         IF n = op.nodeID /\ c = op.cid /\ ch \in d.clientChannels[n][c]
                           THEN NoNet
                           ELSE d.channelClients[n][ch][c]]]],
   clientChannels |-> [d.clientChannels EXCEPT ![op.nodeID][op.cid] = @ \ {op.uid}]]

\* Faulty variants, named for the mistake, precede the operation they vary;
\* no definition uses them.  Here the reverse index is not updated.
JoinedUnindexed(d, op) ==
  [d EXCEPT !.channelClients =
     [n \in Broker |-> [ch \in Channel |-> [c \in Client |->
        IF HasClient(d, n, op.uid, c) /\ ch \in op.channels
          THEN d.userClients[n][op.uid][c]
          ELSE d.channelClients[n][ch][c]]]]]

joinChannelOp(d, op) ==
  [userClients    |-> d.userClients,
   channelClients |-> [n \in Broker |-> [ch \in Channel |-> [c \in Client |->
                         IF HasClient(d, n, op.uid, c) /\ ch \in op.channels
                           THEN d.userClients[n][op.uid][c]
                           ELSE d.channelClients[n][ch][c]]]],
   clientChannels |-> [n \in Broker |-> [c \in Client |->
                         IF HasClient(d, n, op.uid, c)
                           THEN d.clientChannels[n][c] \cup op.channels
                           ELSE d.clientChannels[n][c]]]]

leaveChannelOp(d, op) ==
  [userClients    |-> d.userClients,
   channelClients |-> [n \in Broker |-> [ch \in Channel |-> [c \in Client |->
                         IF HasClient(d, n, op.uid, c) /\ ch \in op.channels
                           THEN NoNet
                           ELSE d.channelClients[n][ch][c]]]],
   clientChannels |-> [n \in Broker |-> [c \in Client |->
                         IF HasClient(d, n, op.uid, c)
                           THEN d.clientChannels[n][c] \ op.channels
                           ELSE d.clientChannels[n][c]]]]

\* The directory's part of applyRemoveNode.
applyRemoveNode(d, id) ==
  [userClients    |-> [d.userClients    EXCEPT ![id] = EmptyDirectory.userClients[id]],
   channelClients |-> [d.channelClients EXCEPT ![id] = EmptyDirectory.channelClients[id]],
   clientChannels |-> [d.clientChannels EXCEPT ![id] = EmptyDirectory.clientChannels[id]]]

applyRaftOp(d, op) ==
  CASE op.type = "userOpened"   -> userOpenedOp(d, op)
    [] op.type = "userClosed"   -> userClosedOp(d, op)
    [] op.type = "joinChannel"  -> joinChannelOp(d, op)
    [] op.type = "leaveChannel" -> leaveChannelOp(d, op)
    [] op.type = "removeNode"   -> applyRemoveNode(d, op.nodeID)

-----------------------------------------------------------------------------
\* The serialised form: the entries that are present, as tuples.
makeSnapshot(d) ==
  [UserClients    |-> {k \in Broker \X User \X Client \X Net :
                         k[4] = d.userClients[k[1]][k[2]][k[3]]},
   ChannelClients |-> {k \in Broker \X Channel \X Client \X Net :
                         k[4] = d.channelClients[k[1]][k[2]][k[3]]},
   ClientChannels |-> {k \in Broker \X Client \X Channel :
                         k[3] \in d.clientChannels[k[1]][k[2]]}]

\* The network a list of entries gives to key k, NoNet if it has none.
NetOf(entries, n, k, c) ==
  IF \E net \in Net : <<n, k, c, net>> \in entries
    THEN CHOOSE net \in Net : <<n, k, c, net>> \in entries
    ELSE NoNet

\* Fault: the reverse index is not restored.
RecoveredUnindexed(s) ==
  [userClients    |-> [n \in Broker |-> [u \in User |-> [c \in Client |->
                         NetOf(s.UserClients, n, u, c)]]],
   channelClients |-> [n \in Broker |-> [ch \in Channel |-> [c \in Client |->
                         NetOf(s.ChannelClients, n, ch, c)]]],
   clientChannels |-> EmptyDirectory.clientChannels]

\* Replaces the three maps by what the snapshot holds.
recoverFromSnapshot(s) ==
  [userClients    |-> [n \in Broker |-> [u \in User |-> [c \in Client |->
                         NetOf(s.UserClients, n, u, c)]]],
   channelClients |-> [n \in Broker |-> [ch \in Channel |-> [c \in Client |->
                         NetOf(s.ChannelClients, n, ch, c)]]],
   clientChannels |-> [n \in Broker |-> [c \in Client |->
                         {ch \in Channel : <<n, c, ch>> \in s.ClientChannels}]]]

-----------------------------------------------------------------------------
\* The reverse index of d is complete: a client that receives a channel's
\* messages has the channel in its own channel set.
Indexed(d) ==
  \A n \in Broker, ch \in Channel, c \in Client :
    InChannel(d, n, ch, c) => ch \in d.clientChannels[n][c]

\* Whoever receives a channel's messages in d is connected as some user.
NoGhosts(d) ==
  \A n \in Broker, ch \in Channel, c \in Client :
    InChannel(d, n, ch, c) => \E u \in User : HasClient(d, n, u, c)

=============================================================================
