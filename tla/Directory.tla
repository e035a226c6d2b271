------------------------------ MODULE Directory ------------------------------
(***************************************************************************)
(* One copy of the directory, changed by one log entry after another.      *)
(* Any operation may follow any other: clients connect and go on every     *)
(* broker, the same client id may be opened twice (on two networks, or by  *)
(* two users), and a close may be applied whose open was never committed,  *)
(* because SubmitOperation drops the error of Propose.                     *)
(***************************************************************************)
EXTENDS DirectoryOps

VARIABLE maps   \* userClients, channelClients and clientChannels of type broker

DirectoryInit == maps = EmptyDirectory

UserOpened == \E op \in UserOpenedOps : maps' = applyRaftOp(maps, op)

UserClosed == \E op \in UserClosedOps : maps' = applyRaftOp(maps, op)

JoinChannel == \E op \in JoinChannelOps : maps' = applyRaftOp(maps, op)

LeaveChannel == \E op \in LeaveChannelOps : maps' = applyRaftOp(maps, op)

RemoveNode == \E op \in RemoveNodeOps : maps' = applyRaftOp(maps, op)

DirectoryNext == UserOpened \/ UserClosed \/ JoinChannel \/ LeaveChannel \/ RemoveNode

DirectorySpec == DirectoryInit /\ [][DirectoryNext]_maps

-----------------------------------------------------------------------------
\* The three maps have the shape their declarations in type broker give them.
DirectoryTypeOK == maps \in Directories

\* The reverse index is complete: whenever a client receives a channel's
\* messages (channelClients), the channel is in the client's own channel set
\* (clientChannels).  userClosedOp and leaveChannelOp keep the two maps in
\* step only if every other operation does.
ChannelIndexed == Indexed(maps)

\* No ghost subscribers: a client that receives a channel's messages is
\* connected, as some user, to the broker the messages are sent to.  A
\* client that disconnected (userClosedOp), or whose broker was removed, is
\* in no channel any more.
NoGhostSubscribers == NoGhosts(maps)

\* What SendToUser and SendToChannel see of a directory.
SessionsOf(d) ==
  {s \in Broker \X User \X Client : HasClient(d, s[1], s[2], s[3])}

MembersOf(d) ==
  {m \in Broker \X Channel \X Client : InChannel(d, m[1], m[2], m[3])}

Sessions ==
  INSTANCE SessionTable WITH sessions <- SessionsOf(maps),
                             members  <- MembersOf(maps)

\* The three maps implement the session table: in particular a disconnect,
\* which deletes only the subscriptions the reverse index lists, ends all of
\* the client's subscriptions.
ImplementsSessionTable == Sessions!Spec

=============================================================================
