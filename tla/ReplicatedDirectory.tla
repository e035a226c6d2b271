------------------------- MODULE ReplicatedDirectory -------------------------
(***************************************************************************)
(* Every broker's copy of the directory, driven by the Raft loop           *)
(* (cluster/cluster_raft.go).  Raft itself is external (go.etcd.io/raft):  *)
(* it is the log of committed entries, of which every broker is given the  *)
(* next one in order, or a snapshot some other broker made of a prefix.    *)
(* The log survives restarts of brokers, though a broker's own storage is  *)
(* raft.MemoryStorage and does not.                                        *)
(*                                                                         *)
(* One iteration of raftLoop with committed entries is several steps here, *)
(* because routers and connection handlers read the maps while entries     *)
(* are applied: ApplyEntry for each entry, then Advance, which publishes   *)
(* appliedIndex and may take a snapshot.                                   *)
(***************************************************************************)
EXTENDS DirectoryOps, Naturals, Sequences

CONSTANTS
  SnapshotGap,   \* 1024 in the code
  Proposals,     \* the entries brokers propose, a set of Entries
  MaxLog         \* bound: the length of the log

VARIABLES
  log,            \* the committed entries
  directory,      \* broker -> the three maps of type broker
  cursor,         \* broker -> entries applied, the current batch included
  appliedIndex,   \* broker -> cluster.appliedIndex
  snapshotIndex,  \* broker -> cluster.snapshotIndex
  confState,      \* broker -> cluster.confState: the voters
  storage,        \* broker -> what its MemoryStorage holds besides entries
  messages,       \* MsgSnap messages sent, each deliverable at any time
  history         \* auxiliary: the directory after each prefix of the log

vars == <<log, directory, cursor, appliedIndex, snapshotIndex, confState,
          storage, messages, history>>

AddNodeOps == [type : {"addNode"}, nodeID : Broker]

Entries == Ops \cup AddNodeOps

ASSUME LogAssumption == SnapshotGap \in Nat /\ Proposals \subseteq Entries

\* The directory's part of applyEntries, for one entry.
applyEntry(d, e) == IF e.type = "addNode" THEN d ELSE applyRaftOp(d, e)

\* raft.Node.ApplyConfChange.
ApplyConfChange(conf, e) ==
  IF e.type = "addNode"         THEN conf \cup {e.nodeID}
  ELSE IF e.type = "removeNode" THEN conf \ {e.nodeID}
  ELSE conf

Snapshots ==
  [UserClients    : SUBSET (Broker \X User \X Client \X Net),
   ChannelClients : SUBSET (Broker \X Channel \X Client \X Net),
   ClientChannels : SUBSET (Broker \X Client \X Channel)]

\* MemoryStorage: compacted is the index of the last entry dropped.
Storages == [index : Nat, data : Snapshots, compacted : Nat]

EmptyStorage == [index |-> 0, data |-> makeSnapshot(EmptyDirectory), compacted |-> 0]

Messages == [to : Broker, index : Nat, data : Snapshots, conf : SUBSET Broker]

Init ==
  /\ log = <<>>
  /\ directory = [b \in Broker |-> EmptyDirectory]
  /\ cursor = [b \in Broker |-> 0]
  /\ appliedIndex = [b \in Broker |-> 0]
  /\ snapshotIndex = [b \in Broker |-> 0]
  /\ confState = [b \in Broker |-> Broker]
  /\ storage = [b \in Broker |-> EmptyStorage]
  /\ messages = {}
  /\ history = <<EmptyDirectory>>

\* Raft commits a proposal of SubmitOperation, addNode or removeNode.
Commit(e) ==
  /\ Len(log) < MaxLog
  /\ log' = Append(log, e)
  /\ history' = Append(history, applyEntry(history[Len(history)], e))
  /\ UNCHANGED <<directory, cursor, appliedIndex, snapshotIndex, confState, storage, messages>>

\* One round of the loop in applyEntries.
ApplyEntry(b) ==
  /\ cursor[b] < Len(log)
  /\ LET e == log[cursor[b] + 1]
     IN /\ directory' = [directory EXCEPT ![b] = applyEntry(@, e)]
        /\ confState' = [confState EXCEPT ![b] = ApplyConfChange(@, e)]
  /\ cursor' = [cursor EXCEPT ![b] = @ + 1]
  /\ UNCHANGED <<log, appliedIndex, snapshotIndex, storage, messages, history>>

\* Fault: the snapshot keeps its old index though the log is compacted.
SnapshotNotMoved(b, applied) ==
  IF applied - snapshotIndex[b] <= SnapshotGap
    THEN UNCHANGED <<snapshotIndex, storage>>
    ELSE /\ snapshotIndex' = [snapshotIndex EXCEPT ![b] = applied]
         /\ storage' = [storage EXCEPT ![b].compacted = applied - SnapshotGap]

\* The storage of b after attemptSnapshot, when applied entries are.
attemptSnapshot(b, applied) ==
  IF applied - snapshotIndex[b] <= SnapshotGap
    THEN UNCHANGED <<snapshotIndex, storage>>
    ELSE /\ snapshotIndex' = [snapshotIndex EXCEPT ![b] = applied]
         /\ storage' = [storage EXCEPT ![b] =
                          [index     |-> applied,
                           data      |-> makeSnapshot(directory[b]),
                           compacted |-> IF applied > SnapshotGap
                                           THEN applied - SnapshotGap ELSE 1]]

\* The end of the iteration that applied a batch.
Advance(b) ==
  /\ appliedIndex[b] < cursor[b]
  /\ appliedIndex' = [appliedIndex EXCEPT ![b] = cursor[b]]
  /\ attemptSnapshot(b, cursor[b])
  /\ UNCHANGED <<log, directory, cursor, confState, messages, history>>

\* sendRaftMessags, for a MsgSnap: Raft picks the snapshot from storage, the
\* code overwrites its ConfState with the sender's current one.
SendSnapshot(a, b) ==
  /\ storage[a].index > cursor[b]
  /\ messages' = messages \cup {[to |-> b, index |-> storage[a].index,
                                 data |-> storage[a].data, conf |-> confState[a]]}
  /\ UNCHANGED <<log, directory, cursor, appliedIndex, snapshotIndex, confState, storage, history>>

\* Fault: the snapshot's ConfState is ignored.
SnapshotWithoutConf(m) ==
  LET b == m.to
  IN /\ m.index > cursor[b]
     /\ appliedIndex[b] = cursor[b]
     /\ directory' = [directory EXCEPT ![b] = recoverFromSnapshot(m.data)]
     /\ cursor' = [cursor EXCEPT ![b] = m.index]
     /\ appliedIndex' = [appliedIndex EXCEPT ![b] = m.index]
     /\ snapshotIndex' = [snapshotIndex EXCEPT ![b] = m.index]
     /\ storage' = [storage EXCEPT ![b] = [index |-> m.index, data |-> m.data,
                                           compacted |-> m.index]]
     /\ UNCHANGED <<log, confState, messages, history>>

\* An iteration with a snapshot: Raft passes on only one that is ahead of
\* what it committed, and no entries with it.
ReadySnapshot(m) ==
  LET b == m.to
  IN /\ m.index > cursor[b]
     /\ appliedIndex[b] = cursor[b]
     /\ directory' = [directory EXCEPT ![b] = recoverFromSnapshot(m.data)]
     /\ confState' = [confState EXCEPT ![b] = m.conf]
     /\ cursor' = [cursor EXCEPT ![b] = m.index]
     /\ appliedIndex' = [appliedIndex EXCEPT ![b] = m.index]
     /\ snapshotIndex' = [snapshotIndex EXCEPT ![b] = m.index]
     /\ storage' = [storage EXCEPT ![b] = [index |-> m.index, data |-> m.data,
                                           compacted |-> m.index]]
     /\ UNCHANGED <<log, messages, history>>

\* The process of b dies and is started again: everything it had was in
\* memory.  Messages on their way to it may still arrive.
Restart(b) ==
  /\ directory' = [directory EXCEPT ![b] = EmptyDirectory]
  /\ cursor' = [cursor EXCEPT ![b] = 0]
  /\ appliedIndex' = [appliedIndex EXCEPT ![b] = 0]
  /\ snapshotIndex' = [snapshotIndex EXCEPT ![b] = 0]
  /\ confState' = [confState EXCEPT ![b] = Broker]
  /\ storage' = [storage EXCEPT ![b] = EmptyStorage]
  /\ UNCHANGED <<log, messages, history>>

Next ==
  \/ \E e \in Proposals : Commit(e)
  \/ \E b \in Broker : ApplyEntry(b) \/ Advance(b) \/ Restart(b)
  \/ \E a, b \in Broker : SendSnapshot(a, b)
  \/ \E m \in messages : ReadySnapshot(m)

Spec == Init /\ [][Next]_vars

-----------------------------------------------------------------------------
\* The maps, indices, snapshots and messages have the types of their
\* declarations in broker.go and cluster.go.
TypeOK ==
  /\ log \in Seq(Entries)
  /\ directory \in [Broker -> Directories]
  /\ cursor \in [Broker -> Nat]
  /\ appliedIndex \in [Broker -> Nat]
  /\ snapshotIndex \in [Broker -> Nat]
  /\ confState \in [Broker -> SUBSET Broker]
  /\ storage \in [Broker -> Storages]
  /\ messages \subseteq Messages
  /\ history \in Seq(Directories)

\* The state machine is deterministic across crashes and both ways of
\* catching up: a broker's directory is the one its prefix of the log
\* produces, whether it applied every entry, restored a snapshot another
\* broker made, or restarted from nothing.  Hence two brokers that applied
\* equally many entries route every message alike.
DeterminedByPrefix ==
  \A b \in Broker : directory[b] = history[cursor[b] + 1]

\* No broker, however it caught up, sends a channel's messages to a client
\* that is not connected as far as that broker knows.
NoGhostReplica == \A b \in Broker : NoGhosts(directory[b])

\* Compaction leaves no gap: whatever entry a follower needs next from a is
\* in a's log or, if compacted away, covered by a's snapshot, and a's log
\* continues where the snapshot ends.  attemptSnapshot's subtraction of
\* unsigned indices never wraps.
NoCompactionGap ==
  \A a \in Broker :
    /\ storage[a].compacted <= storage[a].index
    /\ storage[a].index <= appliedIndex[a]
    /\ snapshotIndex[a] <= appliedIndex[a]
    /\ \A b \in Broker :
         cursor[b] < storage[a].compacted => cursor[b] < storage[a].index

\* Although sendRaftMessags puts the sender's current ConfState on an older
\* snapshot, brokers that have applied the whole log agree on the voters.
VotersAgree ==
  \A a, b \in Broker :
    cursor[a] = Len(log) /\ cursor[b] = Len(log) => confState[a] = confState[b]

=============================================================================
