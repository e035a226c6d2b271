------------------------------ MODULE MCStream ------------------------------
(* Instances of Stream with four byte values, so that length classes end   *)
(* at 15, 63, 255 and 1023: packets of every type, and messages whose      *)
(* bodies lie on both sides of each threshold.                             *)
EXTENDS Stream, LogEntry

Bytes(n) == [i \in 1 .. n |-> (i + 1) % Base]

NoProps == <<>>
TwoProps == [k \in {0, 3} |-> Bytes(k)]

Pkt(type, fields) == [type |-> type, fields |-> fields]

Hello == Pkt(CONNECT, <<1, Bytes(3), Bytes(0), Bytes(1), TwoProps>>)

SmallPackets == {
  Hello,
  Pkt(CONNACK, <<2, NoProps>>),
  Pkt(MESSAGE, <<3, TwoProps, Bytes(2)>>),
  Pkt(REQUEST, <<9, Bytes(2), NoProps, Bytes(1)>>),
  Pkt(RESPONSE, <<14, 3, NoProps, <<>>>>),
  Pkt(PING, <<NoProps>>),
  Pkt(PONG, <<TwoProps>>),
  Pkt(CLOSE, <<1, NoProps>>)}

(* A message without properties has two bytes besides its payload; the     *)
(* last payload is one Marshal refuses.                                    *)
LongMessages == {Pkt(MESSAGE, <<0, NoProps, Bytes(n - 2)>>) :
                   n \in {15, 16, 63, 64, 255, 256, 1023, 1024}}

AllPackets == SmallPackets \cup LongMessages

(* Node ids at both ends of their range, strings and maps on both sides of *)
(* the threshold where a varint takes a second byte.                       *)
Strings == {Bytes(n) : n \in {0, 1, 2, 5}}
NodeIDs == {0, 1, Base ^ 7, Base ^ 8 - 1}
ChannelMaps == {[k \in {Bytes(i) : i \in ks} |-> Bytes(2 * Len(k))] : ks \in SUBSET {0, 1, 3}}

AllOps ==
  {[opt |-> optypeUserOpened, fields |-> <<u, c, Bytes(3), n, m>>] :
      u \in Strings, c \in Strings, n \in NodeIDs, m \in ChannelMaps}
  \cup {[opt |-> optypeUserClosed, fields |-> <<u, c, n>>] :
      u \in Strings, c \in Strings, n \in NodeIDs}
  \cup {[opt |-> opt, fields |-> <<u, m>>] :
      opt \in {optypeJoinChannel, optypeLeaveChannel}, u \in Strings, m \in ChannelMaps}

AllKept == \A op \in AllOps : Kept(op)

(* What was encoded is decoded as it was: the packet Marshal wrote last,   *)
(* by Unmarshal, and the log entries, by applyRaftOp, which skips an entry *)
(* it cannot decode, so that a replica would differ.  (The second is the   *)
(* same in all states, and looked at in those before the first packet.)    *)
RoundTrip == PacketsKept /\ (sent = <<>> => AllKept)
=============================================================================
