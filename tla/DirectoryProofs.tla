---------------------------- MODULE DirectoryProofs ----------------------------
(***************************************************************************)
(* What the log operations preserve, whatever the directory they are       *)
(* applied to; that a snapshot loses nothing; and, for any number of       *)
(* brokers, users, clients, networks and channels, Directory's invariants, *)
(* that it implements SessionTable, and the invariants of its replicas.    *)
(***************************************************************************)
EXTENDS Directory, ReplicatedDirectory, TLAPS

\* What every operation preserves.  Absence of ghosts is not preserved by
\* itself: userClosedOp only unsubscribes a client from the channels the
\* reverse index lists.
Sound(d) == d \in Directories /\ Indexed(d) /\ NoGhosts(d)

\* Opening a session keeps the directory sound: the two channel maps change
\* together.
LEMMA UserOpenedSound ==
  ASSUME NEW d \in Directories, NEW op \in UserOpenedOps, Sound(d)
  PROVE  Sound(userOpenedOp(d, op))
  <1> DEFINE e == userOpenedOp(d, op)
  <1>1. e \in Directories
    BY DEF Sound, Directories, userOpenedOp, UserOpenedOps, HasClient
  <1>2. Indexed(e)
    BY DEF Sound, Directories, Indexed, InChannel, HasClient, userOpenedOp, UserOpenedOps
  <1>3. NoGhosts(e)
    BY NoNetAssumption
    DEF Sound, Directories, Indexed, NoGhosts, InChannel, HasClient, userOpenedOp, UserOpenedOps
  <1>4. QED
    BY <1>1, <1>2, <1>3, Zenon DEF Sound

\* Closing a session keeps the directory sound: the reverse index lists all
\* the channels the client must be taken out of.
LEMMA UserClosedSound ==
  ASSUME NEW d \in Directories, NEW op \in UserClosedOps, Sound(d)
  PROVE  Sound(userClosedOp(d, op))
  <1> DEFINE e == userClosedOp(d, op)
  <1>1. e \in Directories
    BY DEF Sound, Directories, userClosedOp, UserClosedOps, HasClient
  <1>2. Indexed(e)
    BY Zenon DEF Sound, Directories, Indexed, InChannel, HasClient, userClosedOp, UserClosedOps
  <1>3. NoGhosts(e)
    BY NoNetAssumption
    DEF Sound, Directories, Indexed, NoGhosts, InChannel, HasClient, userClosedOp, UserClosedOps
  <1>4. QED
    BY <1>1, <1>2, <1>3 DEF Sound

\* Joining channels keeps the directory sound: only connected clients join.
LEMMA JoinChannelSound ==
  ASSUME NEW d \in Directories, NEW op \in JoinChannelOps, Sound(d)
  PROVE  Sound(joinChannelOp(d, op))
  <1> DEFINE e == joinChannelOp(d, op)
  <1>1. e \in Directories
    BY DEF Sound, Directories, joinChannelOp, JoinChannelOps, HasClient
  <1>2. Indexed(e)
    BY Zenon DEF Sound, Directories, Indexed, InChannel, HasClient, joinChannelOp, JoinChannelOps
  <1>3. NoGhosts(e)
    BY NoNetAssumption
    DEF Sound, Directories, Indexed, NoGhosts, InChannel, HasClient, joinChannelOp, JoinChannelOps
  <1>4. QED
    BY <1>1, <1>2, <1>3 DEF Sound

\* Leaving channels keeps the directory sound.
LEMMA LeaveChannelSound ==
  ASSUME NEW d \in Directories, NEW op \in LeaveChannelOps, Sound(d)
  PROVE  Sound(leaveChannelOp(d, op))
  <1> DEFINE e == leaveChannelOp(d, op)
  <1>1. e \in Directories
    BY DEF Sound, Directories, leaveChannelOp, LeaveChannelOps, HasClient
  <1>2. Indexed(e)
    BY Zenon DEF Sound, Directories, Indexed, InChannel, HasClient, leaveChannelOp, LeaveChannelOps
  <1>3. NoGhosts(e)
    BY NoNetAssumption
    DEF Sound, Directories, Indexed, NoGhosts, InChannel, HasClient, leaveChannelOp, LeaveChannelOps
  <1>4. QED
    BY <1>1, <1>2, <1>3 DEF Sound

\* Removing a broker keeps the directory sound: the three maps of the broker
\* go together.
LEMMA RemoveNodeSound ==
  ASSUME NEW d \in Directories, NEW op \in RemoveNodeOps, Sound(d)
  PROVE  Sound(applyRemoveNode(d, op.nodeID))
  <1> DEFINE e == applyRemoveNode(d, op.nodeID)
  <1>1. e \in Directories
    BY Zenon DEF Sound, Directories, applyRemoveNode, RemoveNodeOps, HasClient, EmptyDirectory
  <1>2. Indexed(e)
    BY Zenon DEF Sound, Directories, Indexed, InChannel, HasClient, applyRemoveNode, RemoveNodeOps, EmptyDirectory
  <1>3. NoGhosts(e)
    BY NoNetAssumption
    DEF Sound, Directories, Indexed, NoGhosts, InChannel, HasClient, applyRemoveNode, RemoveNodeOps, EmptyDirectory
  <1>4. QED
    BY <1>1, <1>2, <1>3, Zenon DEF Sound
-----------------------------------------------------------------------------
\* Which operation applyRaftOp hands each kind of entry to.
LEMMA Dispatch ==
  ASSUME NEW d, NEW op
  PROVE  /\ op \in UserOpenedOps   => applyRaftOp(d, op) = userOpenedOp(d, op)
         /\ op \in UserClosedOps   => applyRaftOp(d, op) = userClosedOp(d, op)
         /\ op \in JoinChannelOps  => applyRaftOp(d, op) = joinChannelOp(d, op)
         /\ op \in LeaveChannelOps => applyRaftOp(d, op) = leaveChannelOp(d, op)
         /\ op \in RemoveNodeOps   => applyRaftOp(d, op) = applyRemoveNode(d, op.nodeID)
  <1>1. op \in UserOpenedOps => applyRaftOp(d, op) = userOpenedOp(d, op)
    BY Zenon DEF applyRaftOp, UserOpenedOps
  <1>2. op \in UserClosedOps => applyRaftOp(d, op) = userClosedOp(d, op)
    BY Zenon DEF applyRaftOp, UserClosedOps
  <1>3. op \in JoinChannelOps => applyRaftOp(d, op) = joinChannelOp(d, op)
    BY Zenon DEF applyRaftOp, JoinChannelOps
  <1>4. op \in LeaveChannelOps => applyRaftOp(d, op) = leaveChannelOp(d, op)
    BY Zenon DEF applyRaftOp, LeaveChannelOps
  <1>5. op \in RemoveNodeOps => applyRaftOp(d, op) = applyRemoveNode(d, op.nodeID)
    BY Zenon DEF applyRaftOp, RemoveNodeOps
  <1>6. QED
    BY <1>1, <1>2, <1>3, <1>4, <1>5, Zenon

\* Whatever entry applyRaftOp is given, a sound directory stays sound.
LEMMA OpsSound ==
  ASSUME NEW d, NEW op \in Ops, Sound(d)
  PROVE  Sound(applyRaftOp(d, op))
  <1>0. d \in Directories
    BY Zenon DEF Sound
  <1>1. CASE op \in UserOpenedOps
    BY <1>0, <1>1, Dispatch, UserOpenedSound, Zenon
  <1>2. CASE op \in UserClosedOps
    BY <1>0, <1>2, Dispatch, UserClosedSound, Zenon
  <1>3. CASE op \in JoinChannelOps
    BY <1>0, <1>3, Dispatch, JoinChannelSound, Zenon
  <1>4. CASE op \in LeaveChannelOps
    BY <1>0, <1>4, Dispatch, LeaveChannelSound, Zenon
  <1>5. CASE op \in RemoveNodeOps
    BY <1>0, <1>5, Dispatch, RemoveNodeSound, Zenon
  <1>6. QED
    BY <1>1, <1>2, <1>3, <1>4, <1>5, Zenon DEF Ops

\* The maps of a broker that just started are sound.
LEMMA EmptySound == Sound(EmptyDirectory)
  <1>1. EmptyDirectory \in Directories
    BY Zenon DEF EmptyDirectory, Directories
  <1>2. Indexed(EmptyDirectory) /\ NoGhosts(EmptyDirectory)
    BY Zenon DEF EmptyDirectory, Indexed, NoGhosts, InChannel
  <1>3. QED
    BY <1>1, <1>2, Zenon DEF Sound

-----------------------------------------------------------------------------
\* A key listed with network x, and no other, is found with network x; a key
\* that is not listed is absent.
LEMMA NetOfEntries ==
  ASSUME NEW E, NEW n, NEW k, NEW c, NEW x \in Net \cup {NoNet},
         \A net \in Net : <<n, k, c, net>> \in E <=> net = x
  PROVE  NetOf(E, n, k, c) = x
  <1>1. CASE x \in Net
    <2>1. \E net \in Net : <<n, k, c, net>> \in E
      BY <1>1, Zenon
    <2>2. (CHOOSE net \in Net : <<n, k, c, net>> \in E) = x
      BY <2>1, Zenon
    <2>3. QED
      BY <2>1, <2>2, Zenon DEF NetOf
  <1>2. CASE x = NoNet
    BY <1>2, NoNetAssumption, Zenon DEF NetOf
  <1>3. QED
    BY <1>1, <1>2, Zenon

\* recoverFromSnapshot restores exactly the maps makeSnapshot wrote.
LEMMA SnapshotRoundTrip ==
  ASSUME NEW d \in Directories
  PROVE  recoverFromSnapshot(makeSnapshot(d)) = d
  <1> DEFINE r == recoverFromSnapshot(makeSnapshot(d))
  <1>1. ASSUME NEW n \in Broker, NEW u \in User, NEW c \in Client
        PROVE  r.userClients[n][u][c] = d.userClients[n][u][c]
    <2>1. d.userClients[n][u][c] \in Net \cup {NoNet}
      BY DEF Directories
    <2>2. \A net \in Net :
            <<n, u, c, net>> \in makeSnapshot(d).UserClients <=> net = d.userClients[n][u][c]
      BY Zenon DEF makeSnapshot
    <2>3. r.userClients[n][u][c] = NetOf(makeSnapshot(d).UserClients, n, u, c)
      BY Zenon DEF recoverFromSnapshot
    <2>4. QED
      BY <2>1, <2>2, <2>3, NetOfEntries
  <1>2. ASSUME NEW n \in Broker, NEW ch \in Channel, NEW c \in Client
        PROVE  r.channelClients[n][ch][c] = d.channelClients[n][ch][c]
    <2>1. d.channelClients[n][ch][c] \in Net \cup {NoNet}
      BY DEF Directories
    <2>2. \A net \in Net :
            <<n, ch, c, net>> \in makeSnapshot(d).ChannelClients <=> net = d.channelClients[n][ch][c]
      BY Zenon DEF makeSnapshot
    <2>3. r.channelClients[n][ch][c] = NetOf(makeSnapshot(d).ChannelClients, n, ch, c)
      BY Zenon DEF recoverFromSnapshot
    <2>4. QED
      BY <2>1, <2>2, <2>3, NetOfEntries
  <1>3. ASSUME NEW n \in Broker, NEW c \in Client
        PROVE  r.clientChannels[n][c] = d.clientChannels[n][c]
    BY DEF recoverFromSnapshot, makeSnapshot, Directories
  <1>4. QED
    BY <1>1, <1>2, <1>3 DEF recoverFromSnapshot, Directories

-----------------------------------------------------------------------------
\* Every step applies one log operation.
LEMMA StepIsOp ==
  ASSUME DirectoryNext
  PROVE  \E op \in Ops : maps' = applyRaftOp(maps, op)
  BY Zenon DEF DirectoryNext, UserOpened, UserClosed, JoinChannel, LeaveChannel, RemoveNode, Ops

\* The directory is always sound; completeness of the reverse index is what
\* makes absence of ghosts inductive.
THEOREM DirectorySound == DirectorySpec => []Sound(maps)
  <1>1. DirectoryInit => Sound(maps)
    BY EmptySound, Zenon DEF DirectoryInit
  <1>2. Sound(maps) /\ [DirectoryNext]_maps => Sound(maps)'
    <2> SUFFICES ASSUME Sound(maps), [DirectoryNext]_maps
                 PROVE  Sound(maps')
      BY Zenon DEF Sound
    <2>1. CASE DirectoryNext
      BY <2>1, StepIsOp, OpsSound, Zenon
    <2>2. CASE UNCHANGED maps
      BY <2>2, Zenon
    <2>3. QED
      BY <2>1, <2>2, Zenon
  <1>3. QED
    BY <1>1, <1>2, PTL DEF DirectorySpec

\* The three maps always have the shape of their declarations.
THEOREM DirectoryTyped == DirectorySpec => []DirectoryTypeOK
  <1>1. Sound(maps) => DirectoryTypeOK
    BY Zenon DEF Sound, DirectoryTypeOK
  <1>2. QED
    BY <1>1, DirectorySound, PTL

\* userOpenedOp, userClosedOp, joinChannelOp, leaveChannelOp and
\* applyRemoveNode keep clientChannels a complete index of channelClients.
THEOREM IndexComplete == DirectorySpec => []ChannelIndexed
  <1>1. Sound(maps) => ChannelIndexed
    BY Zenon DEF Sound, ChannelIndexed
  <1>2. QED
    BY <1>1, DirectorySound, PTL

\* SendToChannel never addresses a client that is not connected: a
\* disconnect ends all of the client's subscriptions.
THEOREM NoGhostSubscriber == DirectorySpec => []NoGhostSubscribers
  <1>1. Sound(maps) => NoGhostSubscribers
    BY Zenon DEF Sound, NoGhostSubscribers
  <1>2. QED
    BY <1>1, DirectorySound, PTL

-----------------------------------------------------------------------------
\* userOpenedOp does what the session table's Open does.
LEMMA OpenedMaps ==
  ASSUME NEW d \in Directories, NEW op \in UserOpenedOps
  PROVE  LET e == userOpenedOp(d, op)
         IN  /\ SessionsOf(e) = SessionsOf(d) \cup {<<op.nodeID, op.uid, op.cid>>}
             /\ MembersOf(e) = MembersOf(d)
                                 \cup {<<op.nodeID, ch, op.cid>> : ch \in op.channels}
  <1> DEFINE e == userOpenedOp(d, op)
  <1>1. SessionsOf(e) = SessionsOf(d) \cup {<<op.nodeID, op.uid, op.cid>>}
    BY NoNetAssumption DEF SessionsOf, HasClient, userOpenedOp, Directories, UserOpenedOps
  <1>2. MembersOf(e) = MembersOf(d) \cup {<<op.nodeID, ch, op.cid>> : ch \in op.channels}
    <2>1. op.nodeID \in Broker /\ op.cid \in Client /\ op.channels \subseteq Channel
      BY Zenon DEF UserOpenedOps
    <2>2. \A n \in Broker, ch \in Channel, c \in Client :
            InChannel(e, n, ch, c) <=>
              InChannel(d, n, ch, c) \/ (n = op.nodeID /\ c = op.cid /\ ch \in op.channels)
      BY NoNetAssumption, SMTT(30) DEF InChannel, userOpenedOp, Directories, UserOpenedOps
    <2> HIDE DEF e
    <2>3. QED
      BY <2>1, <2>2 DEF MembersOf
  <1>3. QED
    BY <1>1, <1>2, Zenon

\* userClosedOp does what Close does, because the reverse index is complete.
LEMMA ClosedMaps ==
  ASSUME NEW d \in Directories, Indexed(d), NEW op \in UserClosedOps
  PROVE  LET e == userClosedOp(d, op)
         IN  /\ SessionsOf(e) = SessionsOf(d) \ {<<op.nodeID, op.uid, op.cid>>}
             /\ MembersOf(e) = MembersOf(d) \ {<<op.nodeID, ch, op.cid>> : ch \in Channel}
  <1> DEFINE e == userClosedOp(d, op)
  <1>1. SessionsOf(e) = SessionsOf(d) \ {<<op.nodeID, op.uid, op.cid>>}
    BY DEF SessionsOf, HasClient, userClosedOp, Directories, UserClosedOps
  <1>2. MembersOf(e) = MembersOf(d) \ {<<op.nodeID, ch, op.cid>> : ch \in Channel}
    <2>1. op.nodeID \in Broker /\ op.cid \in Client
      BY Zenon DEF UserClosedOps
    <2>2. \A n \in Broker, ch \in Channel, c \in Client :
            InChannel(e, n, ch, c) <=>
              InChannel(d, n, ch, c) /\ ~(n = op.nodeID /\ c = op.cid)
      BY SMTT(30) DEF InChannel, Indexed, userClosedOp, Directories, UserClosedOps
    <2> HIDE DEF e
    <2>3. QED
      BY <2>1, <2>2 DEF MembersOf
  <1>3. QED
    BY <1>1, <1>2, Zenon

\* joinChannelOp does what Join does.
LEMMA JoinMaps ==
  ASSUME NEW d \in Directories, NEW op \in JoinChannelOps
  PROVE  LET e == joinChannelOp(d, op)
         IN  /\ SessionsOf(e) = SessionsOf(d)
             /\ MembersOf(e) = MembersOf(d) \cup
                  {m \in Broker \X Channel \X Client :
                     m[2] \in op.channels /\ <<m[1], op.uid, m[3]>> \in SessionsOf(d)}
  <1> DEFINE e == joinChannelOp(d, op)
  <1>1. SessionsOf(e) = SessionsOf(d)
    BY Zenon DEF SessionsOf, HasClient, joinChannelOp
  <1>2. MembersOf(e) = MembersOf(d) \cup
          {m \in Broker \X Channel \X Client :
             m[2] \in op.channels /\ <<m[1], op.uid, m[3]>> \in SessionsOf(d)}
    BY Zenon DEF SessionsOf, MembersOf, HasClient, InChannel, joinChannelOp, Directories, JoinChannelOps
  <1>3. QED
    BY <1>1, <1>2, Zenon

\* leaveChannelOp does what Leave does.
LEMMA LeaveMaps ==
  ASSUME NEW d \in Directories, NEW op \in LeaveChannelOps
  PROVE  LET e == leaveChannelOp(d, op)
         IN  /\ SessionsOf(e) = SessionsOf(d)
             /\ MembersOf(e) = MembersOf(d) \
                  {m \in Broker \X Channel \X Client :
                     m[2] \in op.channels /\ <<m[1], op.uid, m[3]>> \in SessionsOf(d)}
  <1> DEFINE e == leaveChannelOp(d, op)
  <1>1. SessionsOf(e) = SessionsOf(d)
    BY Zenon DEF SessionsOf, HasClient, leaveChannelOp
  <1>2. MembersOf(e) = MembersOf(d) \
          {m \in Broker \X Channel \X Client :
             m[2] \in op.channels /\ <<m[1], op.uid, m[3]>> \in SessionsOf(d)}
    BY Zenon DEF SessionsOf, MembersOf, HasClient, InChannel, leaveChannelOp, Directories, LeaveChannelOps
  <1>3. QED
    BY <1>1, <1>2, Zenon

\* applyRemoveNode does what Remove does.
LEMMA RemoveMaps ==
  ASSUME NEW d \in Directories, NEW id \in Broker
  PROVE  LET e == applyRemoveNode(d, id)
         IN  /\ SessionsOf(e) = {s \in SessionsOf(d) : s[1] # id}
             /\ MembersOf(e) = {m \in MembersOf(d) : m[1] # id}
  BY Zenon DEF SessionsOf, MembersOf, HasClient, InChannel, applyRemoveNode, EmptyDirectory, Directories

\* Every entry that applyRaftOp applies to a sound directory is a step of the
\* session table.
LEMMA StepMaps ==
  ASSUME Sound(maps), NEW op \in Ops, maps' = applyRaftOp(maps, op)
  PROVE  Sessions!Next
  <1>0. maps \in Directories /\ Indexed(maps)
    BY Zenon DEF Sound
  <1>1. CASE op \in UserOpenedOps
    <2>1. Sessions!Open(op.nodeID, op.uid, op.cid, op.channels)
      BY <1>0, <1>1, Dispatch, OpenedMaps DEF Sessions!Open
    <2>2. QED
      BY <1>1, <2>1, Zenon DEF Sessions!Next, UserOpenedOps
  <1>2. CASE op \in UserClosedOps
    <2>1. Sessions!Close(op.nodeID, op.uid, op.cid)
      BY <1>0, <1>2, Dispatch, ClosedMaps DEF Sessions!Close
    <2>2. QED
      BY <1>2, <2>1, Zenon DEF Sessions!Next, UserClosedOps
  <1>3. CASE op \in JoinChannelOps
    <2>1. Sessions!Join(op.uid, op.channels)
      BY <1>0, <1>3, Dispatch, JoinMaps DEF Sessions!Join, Sessions!SubscriptionsOf
    <2>2. QED
      BY <1>3, <2>1, Zenon DEF Sessions!Next, JoinChannelOps
  <1>4. CASE op \in LeaveChannelOps
    <2>1. Sessions!Leave(op.uid, op.channels)
      BY <1>0, <1>4, Dispatch, LeaveMaps DEF Sessions!Leave, Sessions!SubscriptionsOf
    <2>2. QED
      BY <1>4, <2>1, Zenon DEF Sessions!Next, LeaveChannelOps
  <1>5. CASE op \in RemoveNodeOps
    <2>1. op.nodeID \in Broker
      BY <1>5, Zenon DEF RemoveNodeOps
    <2>2. Sessions!Remove(op.nodeID)
      BY <1>0, <1>5, <2>1, Dispatch, RemoveMaps DEF Sessions!Remove
    <2>3. QED
      BY <2>1, <2>2, Zenon DEF Sessions!Next
  <1>6. QED
    BY <1>1, <1>2, <1>3, <1>4, <1>5, Zenon DEF Ops

\* The broker's three maps, changed by the log operations, implement the
\* session table that SendToUser and SendToChannel rely on.
THEOREM DirectoryImplements == DirectorySpec => ImplementsSessionTable
  <1>1. DirectoryInit => Sessions!Init
    BY DEF DirectoryInit, Sessions!Init, SessionsOf, MembersOf, EmptyDirectory, HasClient, InChannel
  <1>2. Sound(maps) /\ [DirectoryNext]_maps => [Sessions!Next]_(Sessions!vars)
    <2> SUFFICES ASSUME Sound(maps), [DirectoryNext]_maps
                 PROVE  [Sessions!Next]_(Sessions!vars)
      OBVIOUS
    <2>1. CASE DirectoryNext
      BY <2>1, StepIsOp, StepMaps, Zenon
    <2>2. CASE UNCHANGED maps
      BY <2>2, Zenon DEF Sessions!vars, SessionsOf, MembersOf
    <2>3. QED
      BY <2>1, <2>2, Zenon
  <1>3. QED
    BY <1>1, <1>2, DirectorySound, PTL DEF DirectorySpec, ImplementsSessionTable, Sessions!Spec

-----------------------------------------------------------------------------
(* The replicas' invariants, for any number of brokers, any proposals, any *)
(* SnapshotGap and logs of any length.                                     *)

\* The auxiliary history is what the log produces, prefix by prefix.
HistoryInv ==
  /\ log \in Seq(Entries)
  /\ history \in Seq(Directories)
  /\ Len(history) = Len(log) + 1
  /\ history[1] = EmptyDirectory
  /\ \A i \in 1..Len(history) : Sound(history[i])
  /\ \A i \in 1..Len(log) : history[i + 1] = applyEntry(history[i], log[i])

\* Where broker b stands: its maps are those of its prefix of the log.
ReplicaInv(b) ==
  /\ cursor[b] \in 0..Len(log)
  /\ directory[b] = history[cursor[b] + 1]

\* A snapshot, stored or under way, is of the prefix that its index names.
SnapshotOf(i, data) == i \in 0..Len(log) /\ data = makeSnapshot(history[i + 1])

\* The indices of broker b and its storage are in order.
StorageInv(b) ==
  /\ appliedIndex[b] \in 0..cursor[b]
  /\ snapshotIndex[b] \in 0..appliedIndex[b]
  /\ storage[b] \in Storages
  /\ storage[b].index <= appliedIndex[b]
  /\ storage[b].compacted <= storage[b].index
  /\ SnapshotOf(storage[b].index, storage[b].data)

\* The domains of the per-broker variables.
ShapeInv ==
  /\ directory \in [Broker -> Directories]
  /\ cursor \in [Broker -> Nat]
  /\ appliedIndex \in [Broker -> Nat]
  /\ snapshotIndex \in [Broker -> Nat]
  /\ confState \in [Broker -> SUBSET Broker]
  /\ storage \in [Broker -> Storages]
  /\ messages \subseteq Messages

\* The inductive invariant.
IInv ==
  /\ ShapeInv
  /\ HistoryInv
  /\ \A b \in Broker : ReplicaInv(b)
  /\ \A b \in Broker : StorageInv(b)
  /\ \A m \in messages : SnapshotOf(m.index, m.data)
-----------------------------------------------------------------------------
\* Applying an entry keeps a directory sound.
LEMMA EntrySound ==
  ASSUME NEW d, NEW e \in Entries, Sound(d)
  PROVE  Sound(applyEntry(d, e))
  <1>1. CASE e.type = "addNode"
    BY <1>1, Zenon DEF applyEntry
  <1>2. CASE e.type # "addNode"
    <2>1. e \in Ops
      BY <1>2, Zenon DEF Entries, AddNodeOps
    <2>2. QED
      BY <1>2, <2>1, OpsSound, Zenon DEF applyEntry
  <1>3. QED
    BY <1>1, <1>2, Zenon

\* makeSnapshot writes a snapshot.
LEMMA SnapshotTyped == ASSUME NEW d PROVE makeSnapshot(d) \in Snapshots
  BY Zenon DEF makeSnapshot, Snapshots

\* Applying a change of membership yields a set of brokers.
LEMMA ConfTyped ==
  ASSUME NEW conf \in SUBSET Broker, NEW e \in Entries
  PROVE  ApplyConfChange(conf, e) \in SUBSET Broker
  <1>1. e.type = "addNode" => e.nodeID \in Broker
    BY Zenon DEF Entries, Ops, AddNodeOps, UserOpenedOps, UserClosedOps, JoinChannelOps,
           LeaveChannelOps, RemoveNodeOps
  <1>2. QED
    BY <1>1, Zenon DEF ApplyConfChange

\* The invariant holds when all brokers have just started.
LEMMA InitIInv == Init => IInv
  <1> SUFFICES ASSUME Init PROVE IInv
    OBVIOUS
  <1>1. ShapeInv
    BY EmptySound, SnapshotTyped, Zenon DEF Init, ShapeInv, Sound, Storages, EmptyStorage
  <1>2. HistoryInv
    BY EmptySound DEF Init, HistoryInv, Sound
  <1>3. ASSUME NEW b \in Broker PROVE ReplicaInv(b) /\ StorageInv(b)
    BY SnapshotTyped
    DEF Init, ReplicaInv, StorageInv, SnapshotOf, Storages, EmptyStorage
  <1>4. QED
    BY <1>1, <1>2, <1>3, Zenon DEF IInv, Init

\* Committing an entry changes no replica and extends the history.
LEMMA CommitIInv ==
  ASSUME IInv, NEW e \in Proposals, Commit(e)
  PROVE  IInv'
  <1> DEFINE h == applyEntry(history[Len(history)], e)
  <1>0. e \in Entries
    BY LogAssumption, Zenon
  <1>1. Sound(h)
    BY <1>0, EntrySound DEF IInv, HistoryInv
  <1>2. ShapeInv'
    BY Zenon DEF IInv, ShapeInv, Commit
  <1>3. HistoryInv'
    BY <1>0, <1>1 DEF IInv, HistoryInv, Commit, Sound
  <1>4. Len(log') = Len(log) + 1 /\ \A i \in 0..Len(log) : history'[i + 1] = history[i + 1]
    BY <1>0 DEF IInv, HistoryInv, Commit
  <1>5. ASSUME NEW b \in Broker PROVE ReplicaInv(b)' /\ StorageInv(b)'
    BY <1>4, SMTT(30) DEF IInv, ReplicaInv, StorageInv, SnapshotOf, HistoryInv, Commit
  <1>6. ASSUME NEW m \in messages' PROVE SnapshotOf(m.index, m.data)'
    BY <1>4 DEF IInv, SnapshotOf, HistoryInv, Commit
  <1>7. QED
    BY <1>2, <1>3, <1>5, <1>6, Zenon DEF IInv

\* Applying the next entry takes the replica to the next prefix.
LEMMA ApplyEntryIInv ==
  ASSUME IInv, NEW b \in Broker, ApplyEntry(b)
  PROVE  IInv'
  <1> DEFINE e == log[cursor[b] + 1]
  <1>0. cursor[b] \in Nat /\ cursor[b] + 1 \in 1..Len(log) /\ e \in Entries
    BY DEF IInv, HistoryInv, ReplicaInv, ApplyEntry
  <1>1. directory'[b] = history[cursor[b] + 2]
    <2>1. directory'[b] = applyEntry(history[cursor[b] + 1], e)
      BY Zenon DEF IInv, ShapeInv, ReplicaInv, ApplyEntry
    <2>2. history[(cursor[b] + 1) + 1] = applyEntry(history[cursor[b] + 1], log[cursor[b] + 1])
      BY <1>0, Zenon DEF IInv, HistoryInv
    <2>3. QED
      BY <1>0, <2>1, <2>2
  <1>2. history[cursor[b] + 2] \in Directories
    BY <1>0 DEF IInv, HistoryInv
  <1>3. ShapeInv'
    <2>1. directory' \in [Broker -> Directories]
      BY <1>1, <1>2, Zenon DEF IInv, ShapeInv, ApplyEntry
    <2>2. confState' \in [Broker -> SUBSET Broker]
      BY <1>0, ConfTyped, Zenon DEF IInv, ShapeInv, ApplyEntry
    <2>3. QED
      BY <1>0, <2>1, <2>2 DEF IInv, ShapeInv, ApplyEntry
  <1>4. HistoryInv'
    BY Zenon DEF IInv, HistoryInv, ApplyEntry
  <1>5. ASSUME NEW a \in Broker PROVE ReplicaInv(a)'
    <2>1. cursor'[a] = IF a = b THEN cursor[b] + 1 ELSE cursor[a]
      BY Zenon DEF IInv, ShapeInv, ApplyEntry
    <2>2. directory'[a] = IF a = b THEN history[cursor[b] + 2] ELSE directory[a]
      BY <1>1, Zenon DEF IInv, ShapeInv, ApplyEntry
    <2>3. QED
      BY <1>0, <2>1, <2>2 DEF IInv, ReplicaInv, ApplyEntry
  <1>6. ASSUME NEW a \in Broker PROVE StorageInv(a)'
    BY <1>0 DEF IInv, ShapeInv, StorageInv, SnapshotOf, ApplyEntry
  <1>7. ASSUME NEW m \in messages' PROVE SnapshotOf(m.index, m.data)'
    BY Zenon DEF IInv, SnapshotOf, ApplyEntry
  <1>8. QED
    BY <1>3, <1>4, <1>5, <1>6, <1>7, Zenon DEF IInv
\* A snapshot taken at the end of a batch is of the prefix just applied, and
\* compaction stays below it.
LEMMA AdvanceIInv ==
  ASSUME IInv, NEW b \in Broker, Advance(b)
  PROVE  IInv'
  <1> DEFINE n == cursor[b]
  <1>0. n \in Nat /\ n \in 0..Len(log) /\ directory[b] = history[n + 1]
    BY DEF IInv, HistoryInv, ReplicaInv
  <1>1. HistoryInv'
    BY Zenon DEF IInv, HistoryInv, Advance
  <1>2. ASSUME NEW a \in Broker PROVE ReplicaInv(a)'
    BY Zenon DEF IInv, ReplicaInv, Advance
  <1>3. ASSUME NEW m \in messages' PROVE SnapshotOf(m.index, m.data)'
    BY Zenon DEF IInv, SnapshotOf, Advance
  <1>4. appliedIndex' = [appliedIndex EXCEPT ![b] = n]
    BY Zenon DEF Advance
  <1>5. CASE n - snapshotIndex[b] <= SnapshotGap
    <2>1. UNCHANGED <<snapshotIndex, storage>>
      BY <1>5, Zenon DEF Advance, attemptSnapshot
    <2>2. ShapeInv'
      BY <1>0, <1>4, <2>1, Zenon DEF IInv, ShapeInv, Advance
    <2>3. ASSUME NEW a \in Broker PROVE StorageInv(a)'
      BY <1>0, <1>4, <2>1 DEF IInv, ShapeInv, StorageInv, SnapshotOf, Advance
    <2>4. QED
      BY <1>1, <1>2, <1>3, <2>2, <2>3, Zenon DEF IInv
  <1>6. CASE ~(n - snapshotIndex[b] <= SnapshotGap)
    <2> DEFINE new == [index |-> n, data |-> makeSnapshot(directory[b]),
                       compacted |-> IF n > SnapshotGap THEN n - SnapshotGap ELSE 1]
    <2>1. /\ snapshotIndex' = [snapshotIndex EXCEPT ![b] = n]
          /\ storage' = [storage EXCEPT ![b] = new]
      BY <1>6, Zenon DEF Advance, attemptSnapshot
    <2>2. snapshotIndex[b] \in Nat /\ SnapshotGap \in Nat
      BY LogAssumption, Zenon DEF IInv, ShapeInv
    <2>3. new \in Storages /\ new.compacted <= n /\ new.index = n
      BY <1>0, <1>6, <2>2, SnapshotTyped DEF Storages
    <2>4. ShapeInv'
      BY <1>0, <1>4, <2>1, <2>3, Zenon DEF IInv, ShapeInv, Advance
    <2>5. ASSUME NEW a \in Broker PROVE StorageInv(a)'
      <3>1. CASE a = b
        <4>1. /\ storage'[a] = new /\ snapshotIndex'[a] = n /\ appliedIndex'[a] = n
              /\ cursor'[a] = n
          BY <3>1, <1>4, <2>1, Zenon DEF IInv, ShapeInv, Advance
        <4>2. SnapshotOf(storage[a].index, storage[a].data)'
          BY <1>0, <4>1 DEF SnapshotOf, Advance
        <4>3. QED
          BY <1>0, <2>3, <4>1, <4>2 DEF StorageInv
      <3>2. CASE a # b
        BY <3>2, <1>4, <2>1 DEF IInv, ShapeInv, StorageInv, SnapshotOf, Advance
      <3>3. QED
        BY <3>1, <3>2, Zenon
    <2>6. QED
      BY <1>1, <1>2, <1>3, <2>4, <2>5 DEF IInv
  <1>7. QED
    BY <1>5, <1>6, Zenon

\* What is sent is the sender's stored snapshot.
LEMMA SendSnapshotIInv ==
  ASSUME IInv, NEW a \in Broker, NEW b \in Broker, SendSnapshot(a, b)
  PROVE  IInv'
  <1> DEFINE new == [to |-> b, index |-> storage[a].index,
                     data |-> storage[a].data, conf |-> confState[a]]
  <1>1. new \in Messages /\ SnapshotOf(new.index, new.data)
    BY Zenon DEF IInv, ShapeInv, StorageInv, Storages, Messages
  <1>2. ShapeInv'
    BY <1>1, Zenon DEF IInv, ShapeInv, SendSnapshot
  <1>3. ASSUME NEW m \in messages' PROVE SnapshotOf(m.index, m.data)'
    <2>1. SnapshotOf(m.index, m.data)
      BY <1>1, Zenon DEF IInv, SendSnapshot
    <2>2. QED
      BY <2>1, Zenon DEF SnapshotOf, SendSnapshot
  <1>4. HistoryInv' /\ \A c \in Broker : ReplicaInv(c)' /\ StorageInv(c)'
    BY Zenon DEF IInv, HistoryInv, ReplicaInv, StorageInv, SnapshotOf, SendSnapshot
  <1>5. QED
    BY <1>2, <1>3, <1>4, Zenon DEF IInv

\* Restoring a snapshot yields the directory of the prefix it was made of.
LEMMA ReadySnapshotIInv ==
  ASSUME IInv, NEW m \in messages, ReadySnapshot(m)
  PROVE  IInv'
  <1> DEFINE b == m.to
  <1>1. m \in Messages /\ b \in Broker /\ m.index \in 0..Len(log)
        /\ m.data = makeSnapshot(history[m.index + 1]) /\ Len(log) \in Nat
    BY DEF IInv, ShapeInv, HistoryInv, SnapshotOf, Messages
  <1>2. m.index + 1 \in 1..Len(history) /\ Sound(history[m.index + 1])
    BY <1>1 DEF IInv, HistoryInv
  <1>3. recoverFromSnapshot(m.data) = history[m.index + 1]
        /\ recoverFromSnapshot(m.data) \in Directories
    BY <1>1, <1>2, SnapshotRoundTrip, Zenon DEF Sound
  <1>4. [index |-> m.index, data |-> m.data, compacted |-> m.index] \in Storages
        /\ m.conf \in SUBSET Broker /\ m.index \in Nat
    BY <1>1, Zenon DEF Messages, Storages
  <1>5. ShapeInv'
    BY <1>1, <1>3, <1>4, Zenon DEF IInv, ShapeInv, ReadySnapshot
  <1>6. HistoryInv'
    BY Zenon DEF IInv, HistoryInv, ReadySnapshot
  <1>7. ASSUME NEW a \in Broker PROVE ReplicaInv(a)'
    BY <1>1, <1>3, Zenon DEF IInv, ShapeInv, ReplicaInv, ReadySnapshot
  <1>8. ASSUME NEW a \in Broker PROVE StorageInv(a)'
    <2>1. CASE a = b
      <3>1. /\ storage'[a] = [index |-> m.index, data |-> m.data, compacted |-> m.index]
            /\ snapshotIndex'[a] = m.index /\ appliedIndex'[a] = m.index
            /\ cursor'[a] = m.index
        BY <2>1, Zenon DEF IInv, ShapeInv, ReadySnapshot
      <3>2. SnapshotOf(storage[a].index, storage[a].data)'
        BY <1>1, <3>1 DEF SnapshotOf, ReadySnapshot
      <3>3. QED
        BY <1>4, <3>1, <3>2 DEF StorageInv
    <2>2. CASE a # b
      BY <2>2, Zenon DEF IInv, ShapeInv, StorageInv, SnapshotOf, ReadySnapshot
    <2>3. QED
      BY <2>1, <2>2, Zenon
  <1>9. \A k \in messages' : SnapshotOf(k.index, k.data)'
    BY Zenon DEF IInv, SnapshotOf, ReadySnapshot
  <1>10. QED
    BY <1>5, <1>6, <1>7, <1>8, <1>9, Zenon DEF IInv

\* A restarted broker has the directory of the empty prefix.
LEMMA RestartIInv ==
  ASSUME IInv, NEW b \in Broker, Restart(b)
  PROVE  IInv'
  <1>1. EmptyStorage \in Storages /\ EmptyDirectory \in Directories
        /\ EmptyStorage.index = 0 /\ EmptyStorage.compacted = 0
        /\ EmptyStorage.data = makeSnapshot(EmptyDirectory)
    BY SnapshotTyped, EmptySound, Zenon DEF EmptyStorage, Storages, Sound
  <1>2. ShapeInv'
    BY <1>1, Zenon DEF IInv, ShapeInv, Restart
  <1>3. HistoryInv'
    BY Zenon DEF IInv, HistoryInv, Restart
  <1>4. history[0 + 1] = EmptyDirectory /\ Len(log) \in Nat
    BY DEF IInv, HistoryInv
  <1>5. ASSUME NEW a \in Broker PROVE ReplicaInv(a)'
    BY <1>4 DEF IInv, ShapeInv, ReplicaInv, Restart
  <1>6. ASSUME NEW a \in Broker PROVE StorageInv(a)'
    <2>1. CASE a = b
      <3>1. /\ storage'[a] = EmptyStorage /\ snapshotIndex'[a] = 0
            /\ appliedIndex'[a] = 0 /\ cursor'[a] = 0
        BY <2>1, Zenon DEF IInv, ShapeInv, Restart
      <3>2. SnapshotOf(storage[a].index, storage[a].data)'
        BY <1>1, <1>4, <3>1 DEF SnapshotOf, Restart
      <3>3. QED
        BY <1>1, <3>1, <3>2 DEF StorageInv
    <2>2. CASE a # b
      BY <2>2, Zenon DEF IInv, ShapeInv, StorageInv, SnapshotOf, Restart
    <2>3. QED
      BY <2>1, <2>2
  <1>7. \A k \in messages' : SnapshotOf(k.index, k.data)'
    BY Zenon DEF IInv, SnapshotOf, Restart
  <1>8. QED
    BY <1>2, <1>3, <1>5, <1>6, <1>7, Zenon DEF IInv

\* Every step preserves the invariant.
LEMMA StepIInv == IInv /\ [Next]_vars => IInv'
  <1> SUFFICES ASSUME IInv, [Next]_vars PROVE IInv'
    OBVIOUS
  <1>1. ASSUME NEW e \in Proposals, Commit(e) PROVE IInv'
    BY <1>1, CommitIInv, Zenon
  <1>2. ASSUME NEW b \in Broker, ApplyEntry(b) PROVE IInv'
    BY <1>2, ApplyEntryIInv
  <1>3. ASSUME NEW b \in Broker, Advance(b) PROVE IInv'
    BY <1>3, AdvanceIInv
  <1>4. ASSUME NEW b \in Broker, Restart(b) PROVE IInv'
    BY <1>4, RestartIInv
  <1>5. ASSUME NEW a \in Broker, NEW b \in Broker, SendSnapshot(a, b) PROVE IInv'
    BY <1>5, SendSnapshotIInv, Zenon
  <1>6. ASSUME NEW m \in messages, ReadySnapshot(m) PROVE IInv'
    BY <1>6, ReadySnapshotIInv, Zenon
  <1>7. CASE UNCHANGED vars
    BY <1>7, Zenon DEF vars, IInv, ShapeInv, HistoryInv, ReplicaInv, StorageInv, SnapshotOf
  <1>8. QED
    BY <1>1, <1>2, <1>3, <1>4, <1>5, <1>6, <1>7, Zenon DEF Next
-----------------------------------------------------------------------------
\* The replicas' inductive invariant.
THEOREM ReplicasSound == Spec => []IInv
  BY InitIInv, StepIInv, PTL DEF Spec

\* The maps, indices, snapshots and messages keep the types of their
\* declarations in broker.go and cluster.go.
THEOREM ReplicasTyped == Spec => []TypeOK
  <1>1. IInv => TypeOK
    BY Zenon DEF IInv, ShapeInv, HistoryInv, TypeOK
  <1>2. QED
    BY <1>1, ReplicasSound, PTL

\* However a broker caught up (entry by entry through applyEntries, from a
\* snapshot through recoverFromSnapshot, after any restarts), its directory
\* is a function of how many entries it applied.
THEOREM ReplicasDetermined == Spec => []DeterminedByPrefix
  <1>1. IInv => DeterminedByPrefix
    BY Zenon DEF IInv, ReplicaInv, DeterminedByPrefix
  <1>2. QED
    BY <1>1, ReplicasSound, PTL

\* No broker ever lists a channel subscriber that is not connected.
THEOREM ReplicasWithoutGhosts == Spec => []NoGhostReplica
  <1>1. ASSUME IInv, NEW b \in Broker PROVE NoGhosts(directory[b])
    <2>1. cursor[b] + 1 \in 1..Len(history) /\ directory[b] = history[cursor[b] + 1]
      BY <1>1 DEF IInv, HistoryInv, ReplicaInv
    <2>2. Sound(history[cursor[b] + 1])
      BY <1>1, <2>1, Zenon DEF IInv, HistoryInv
    <2>3. QED
      BY <2>1, <2>2, Zenon DEF Sound
  <1>2. IInv => NoGhostReplica
    BY <1>1, Zenon DEF NoGhostReplica
  <1>3. QED
    BY <1>2, ReplicasSound, PTL

\* attemptSnapshot never compacts past the snapshot it keeps, and its
\* unsigned subtractions never wrap.
THEOREM ReplicasWithoutGap == Spec => []NoCompactionGap
  <1>1. ASSUME IInv PROVE NoCompactionGap
    <2>1. \A b \in Broker : cursor[b] \in Nat /\ storage[b].compacted \in Nat
                           /\ storage[b].index \in Nat /\ appliedIndex[b] \in Nat
      BY <1>1, Zenon DEF IInv, ShapeInv, Storages
    <2>2. QED
      BY <1>1, <2>1 DEF IInv, StorageInv, NoCompactionGap
  <1>2. QED
    BY <1>1, ReplicasSound, PTL

-----------------------------------------------------------------------------
(* The voters.  A broker that restored a snapshot has the voters of a      *)
(* later point of the log than the snapshot's, and applies the changes in  *)
(* between once more.  So its voters are those of no prefix; but about a   *)
(* broker that the rest of the log does not mention they are right.        *)

\* Entry e adds or removes broker x.
About(e, x) == e.type \in {"addNode", "removeNode"} /\ e.nodeID = x

\* The last entry about x, if there is one, adds it.
Voter(x) ==
  \A i \in 1..Len(log) :
    About(log[i], x) => log[i].type = "addNode" \/ \E j \in 1..Len(log) : j > i /\ About(log[j], x)

\* No entry after the i-th is about x.
Settled(i, x) == \A j \in 1..Len(log) : j > i => ~About(log[j], x)

Votes(i, conf) == \A x \in Broker : Settled(i, x) => (x \in conf <=> Voter(x))

VotersInv ==
  /\ \A b \in Broker : Votes(cursor[b], confState[b])
  /\ \A m \in messages : Votes(m.index, m.conf)

\* Voters that are right after an entry are right, as far as this goes, before.
LEMMA VotesBefore ==
  ASSUME log \in Seq(Entries), NEW i \in Nat, NEW j \in Nat, j <= i, NEW conf, Votes(i, conf)
  PROVE  Votes(j, conf)
  <1>1. ASSUME NEW x, Settled(j, x) PROVE Settled(i, x) BY <1>1 DEF Settled
  <1> QED BY <1>1, Zenon DEF Votes

\* A committed entry changes who is a voter only for the broker it is about,
\* which is then not settled for anyone.
LEMMA VotesCommit ==
  ASSUME log \in Seq(Entries), NEW e \in Entries, log' = Append(log, e),
         NEW i \in 0..Len(log), NEW conf, Votes(i, conf)
  PROVE  Votes(i, conf)'
  <1> DEFINE n == Len(log)
  <1>1. /\ n \in Nat /\ Len(log') = n + 1 /\ log'[n + 1] = e
        /\ \A j \in 1..n : log'[j] = log[j]
    OBVIOUS
  <1> SUFFICES ASSUME NEW x \in Broker, Settled(i, x)' PROVE x \in conf <=> Voter(x)'
    BY Zenon DEF Votes
  <1>2. ~About(e, x)
    <2>1. n + 1 \in 1..Len(log') /\ n + 1 > i BY <1>1
    <2> QED BY <1>1, <2>1, Zenon DEF Settled
  <1>3. Settled(i, x) BY <1>1 DEF Settled
  <1>4. ASSUME NEW j \in 1..(n + 1) PROVE j \in 1..n \/ j = n + 1 BY <1>1
  <1>5. Voter(x)' <=> Voter(x) BY <1>1, <1>2, <1>4 DEF Voter
  <1> QED BY <1>3, <1>5, Zenon DEF Votes

\* Applying the next entry: what it says of a broker is the last word, if the
\* rest of the log is silent about that broker.
LEMMA VotesApply ==
  ASSUME log \in Seq(Entries), NEW i \in Nat, i < Len(log), NEW conf, Votes(i, conf)
  PROVE  Votes(i + 1, ApplyConfChange(conf, log[i + 1]))
  <1> DEFINE e == log[i + 1]
             new == ApplyConfChange(conf, e)
  <1>0. i + 1 \in 1..Len(log) /\ Len(log) \in Nat OBVIOUS
  <1> SUFFICES ASSUME NEW x \in Broker, Settled(i + 1, x) PROVE x \in new <=> Voter(x)
    BY Zenon DEF Votes
  <1>1. CASE About(e, x)
    <2>1. x \in new <=> e.type = "addNode" BY <1>1, Zenon DEF About, ApplyConfChange
    <2>2. Voter(x) => e.type = "addNode" BY <1>0, <1>1, Zenon DEF Voter, Settled
    <2>3. ASSUME e.type = "addNode", NEW j \in 1..Len(log), About(log[j], x)
          PROVE  log[j].type = "addNode" \/ \E k \in 1..Len(log) : k > j /\ About(log[k], x)
      <3>1. ~(j > i + 1) BY <2>3, Zenon DEF Settled
      <3> QED BY <1>0, <1>1, <2>3, <3>1
    <2> QED BY <2>1, <2>2, <2>3, Zenon DEF Voter
  <1>2. CASE ~About(e, x)
    <2>1. x \in new <=> x \in conf BY <1>2, Zenon DEF About, ApplyConfChange
    <2>2. Settled(i, x)
      <3> SUFFICES ASSUME NEW j \in 1..Len(log), j > i PROVE ~About(log[j], x) BY Zenon DEF Settled
      <3>1. j = i + 1 \/ j > i + 1 OBVIOUS
      <3> QED BY <1>2, <3>1, Zenon DEF Settled
    <2> QED BY <2>1, <2>2, Zenon DEF Votes
  <1> QED BY <1>1, <1>2, Zenon

\* The first voters are all brokers.
LEMMA VotesAtFirst ==
  ASSUME log \in Seq(Entries) PROVE Votes(0, Broker)
  <1> SUFFICES ASSUME NEW x \in Broker, Settled(0, x) PROVE Voter(x) BY Zenon DEF Votes
  <1> QED BY DEF Settled, Voter

LEMMA StepVoters ==
  ASSUME IInv, VotersInv, [Next]_vars PROVE VotersInv'
  <1>0. /\ log \in Seq(Entries) /\ Len(log) \in Nat
        /\ \A b \in Broker : cursor[b] \in 0..Len(log) /\ storage[b].index \in 0..cursor[b]
        /\ \A m \in messages : m \in Messages /\ m.index \in 0..Len(log)
        /\ cursor \in [Broker -> Nat] /\ confState \in [Broker -> SUBSET Broker]
    BY DEF IInv, ShapeInv, HistoryInv, ReplicaInv, StorageInv, SnapshotOf, Storages
  <1>s. ASSUME log' = log, NEW i, NEW conf, Votes(i, conf) PROVE Votes(i, conf)'
    BY <1>s, Zenon DEF Votes, Settled, Voter
  <1>1. ASSUME NEW e \in Proposals, Commit(e) PROVE VotersInv'
    <2>1. e \in Entries /\ log' = Append(log, e) /\ UNCHANGED <<cursor, confState, messages>>
      BY <1>1, LogAssumption, Zenon DEF Commit
    <2> QED BY <1>0, <2>1, VotesCommit, Zenon DEF VotersInv
  <1>2. ASSUME NEW b \in Broker, ApplyEntry(b) PROVE VotersInv'
    <2> DEFINE new == ApplyConfChange(confState[b], log[cursor[b] + 1])
    <2>1. /\ cursor[b] < Len(log) /\ log' = log /\ messages' = messages
          /\ cursor' = [cursor EXCEPT ![b] = cursor[b] + 1]
          /\ confState' = [confState EXCEPT ![b] = new]
      BY <1>2, Zenon DEF ApplyEntry
    <2>2. Votes(cursor[b] + 1, new) BY <1>0, <2>1, VotesApply, Zenon DEF VotersInv
    <2>3. ASSUME NEW c \in Broker PROVE Votes(cursor'[c], confState'[c])
      BY <1>0, <2>1, <2>2, Zenon DEF VotersInv
    <2> QED BY <1>s, <2>1, <2>3, Zenon DEF VotersInv
  <1>3. ASSUME NEW b \in Broker, Advance(b) PROVE VotersInv'
    <2>1. UNCHANGED <<log, cursor, confState, messages>> BY <1>3, Zenon DEF Advance
    <2> QED BY <1>s, <2>1, Zenon DEF VotersInv
  <1>4. ASSUME NEW b \in Broker, Restart(b) PROVE VotersInv'
    <2>1. /\ log' = log /\ messages' = messages
          /\ cursor' = [cursor EXCEPT ![b] = 0] /\ confState' = [confState EXCEPT ![b] = Broker]
      BY <1>4, Zenon DEF Restart
    <2>2. ASSUME NEW c \in Broker PROVE Votes(cursor'[c], confState'[c])
      BY <1>0, <2>1, VotesAtFirst, Zenon DEF VotersInv
    <2> QED BY <1>s, <2>1, <2>2, Zenon DEF VotersInv
  <1>5. ASSUME NEW a \in Broker, NEW b \in Broker, SendSnapshot(a, b) PROVE VotersInv'
    <2> DEFINE new == [to |-> b, index |-> storage[a].index,
                       data |-> storage[a].data, conf |-> confState[a]]
    <2>1. UNCHANGED <<log, cursor, confState>> /\ messages' = messages \cup {new}
      BY <1>5, Zenon DEF SendSnapshot
    <2>2. Votes(storage[a].index, confState[a])
      <3>1. cursor[a] \in Nat /\ storage[a].index \in Nat /\ storage[a].index <= cursor[a] BY <1>0
      <3> QED BY <1>0, <3>1, VotesBefore, Zenon DEF VotersInv
    <2>3. ASSUME NEW m \in messages' PROVE Votes(m.index, m.conf)
      BY <2>1, <2>2 DEF VotersInv
    <2> QED BY <1>s, <2>1, <2>3, Zenon DEF VotersInv
  <1>6. ASSUME NEW m \in messages, ReadySnapshot(m) PROVE VotersInv'
    <2>1. /\ log' = log /\ messages' = messages /\ m.to \in Broker
          /\ cursor' = [cursor EXCEPT ![m.to] = m.index]
          /\ confState' = [confState EXCEPT ![m.to] = m.conf]
      BY <1>0, <1>6, Zenon DEF ReadySnapshot, Messages
    <2>2. ASSUME NEW c \in Broker PROVE Votes(cursor'[c], confState'[c])
      BY <1>0, <2>1, Zenon DEF VotersInv
    <2> QED BY <1>s, <2>1, <2>2, Zenon DEF VotersInv
  <1>7. CASE UNCHANGED vars BY <1>s, <1>7, Zenon DEF vars, VotersInv
  <1> QED BY <1>1, <1>2, <1>3, <1>4, <1>5, <1>6, <1>7, Zenon DEF Next

\* Although sendRaftMessags puts the sender's current ConfState on an older
\* snapshot, brokers that have applied the whole log agree on the voters:
\* they are those whose last entry adds them.
THEOREM ReplicasAgreeOnVoters == Spec => []VotersAgree
  <1>1. Init => VotersInv
    <2> SUFFICES ASSUME Init PROVE VotersInv OBVIOUS
    <2>1. log \in Seq(Entries) BY DEF Init
    <2> QED BY <2>1, VotesAtFirst, Zenon DEF Init, VotersInv
  <1>2. IInv /\ VotersInv /\ [Next]_vars => VotersInv' BY StepVoters, Zenon
  <1>3. IInv /\ VotersInv => VotersAgree
    <2> SUFFICES ASSUME IInv, VotersInv, NEW a \in Broker, NEW b \in Broker,
                        cursor[a] = Len(log), cursor[b] = Len(log)
                 PROVE  confState[a] = confState[b]
      BY Zenon DEF VotersAgree
    <2>1. \A x \in Broker : Settled(Len(log), x) BY DEF Settled, IInv, HistoryInv
    <2>2. \A x \in Broker : x \in confState[a] <=> x \in confState[b]
      BY <2>1, Zenon DEF VotersInv, Votes
    <2>3. confState[a] \subseteq Broker /\ confState[b] \subseteq Broker BY Zenon DEF IInv, ShapeInv
    <2> QED BY <2>2, <2>3, Zenon
  <1> QED BY <1>1, <1>2, <1>3, ReplicasSound, PTL DEF Spec
=============================================================================
