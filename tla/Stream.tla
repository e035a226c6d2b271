------------------------------- MODULE Stream -------------------------------
(***************************************************************************)
(* A byte-stream connection (TCP, TLS, WebSocket, QUIC) read by a server:  *)
(* the peer writes frames with WriteTo; the server waits for a CONNECT     *)
(* (waitConnPacket), then handles one packet after another (handleConn),   *)
(* each obtained by packet.ReadFrom.                                       *)
(*                                                                         *)
(* ReadFrom makes up to three reads: the header, the further length bytes, *)
(* the body.  Each is one r.Read, which returns when it has some bytes,    *)
(* not when it has them all: the rest of the buffer stays zero.            *)
(***************************************************************************)
EXTENDS Codec

CONSTANTS
  Packet,      \* the packets the peer may write
  MaxPackets,  \* bound: packets written on the connection
  MaxShort     \* bound: bytes a read shorter than asked for returns

(* Every packet has room for its number of properties in one byte.         *)
ASSUME PacketAssumption ==
  \A p \in Packet : p.type \in PacketType /\ Cardinality(DOMAIN Props(p)) < Base

ASSUME BoundAssumption == MaxPackets \in Nat /\ MaxShort \in Nat

VARIABLES
  sent,    \* the packets written, in order
  stream,  \* the bytes written and not yet read
  eof,     \* the peer has closed its end
  raw,     \* the server's end is open
  phase,   \* what the server's goroutine is doing
  rd,      \* the state of its current ReadFrom
  full,    \* every read so far returned all it was asked for
  got      \* the packets ReadFrom has returned, in order

vars == <<sent, stream, eof, raw, phase, rd, full, got>>

(* A ReadFrom about to read its header.                                    *)
Start == [stage |-> "header", type |-> 0, length |-> 0, need |-> 2]

Init ==
  /\ sent = <<>>
  /\ stream = <<>>
  /\ eof = FALSE
  /\ raw = TRUE
  /\ phase = "await"
  /\ rd = Start
  /\ full = TRUE
  /\ got = <<>>

Reading == phase \in {"await", "open"}

(* The peer writes a packet; one whose body is too long is refused.        *)
Write(p) ==
  /\ ~eof
  /\ Len(sent) < MaxPackets
  /\ \E data \in Marshal(p) : stream' = stream \o data
  /\ sent' = Append(sent, p)
  /\ UNCHANGED <<eof, raw, phase, rd, full, got>>

Hangup ==
  /\ ~eof
  /\ eof' = TRUE
  /\ UNCHANGED <<sent, stream, raw, phase, rd, full, got>>

(* One r.Read of rd.need bytes returns k of them.                          *)
Take(k) ==
  /\ Reading
  /\ raw
  /\ k <= Len(stream)
  /\ k = rd.need \/ (k < rd.need /\ k <= MaxShort)
  /\ stream' = SubSeq(stream, k + 1, Len(stream))
  /\ full' = (full /\ k = rd.need)

Buffer(k) == [i \in 1 .. rd.need |-> IF i <= k THEN stream[i] ELSE 0]

Broken == phase' = "closed" /\ raw' = FALSE /\ UNCHANGED <<rd, got>>

(* ReadFrom returns: the first packet goes to waitConnPacket, the others   *)
(* to the goroutine that handles them; an error ends the connection.       *)
Return(packets) ==
  \/ \E p \in packets :
       /\ got' = Append(got, p)
       /\ rd' = Start
       /\ phase' = IF phase = "await" THEN "connect" ELSE phase
       /\ UNCHANGED raw
  \/ packets = {} /\ Broken

(* The next read of ReadFrom: the body, if there is one.                   *)
Proceed(type, length) ==
  IF length > 0
  THEN /\ rd' = [stage |-> "data", type |-> type, length |-> length, need |-> length]
       /\ UNCHANGED <<raw, phase, got>>
  ELSE Return(unpack(type, <<>>))

ReadHeader(k) ==
  /\ rd.stage = "header"
  /\ Take(k)
  /\ LET h == Buffer(k)
     IN  IF CountOf(h) > 0
         THEN /\ rd' = [stage |-> "length", type |-> TypeOf(h),
                        length |-> LengthOf(h), need |-> CountOf(h)]
              /\ UNCHANGED <<raw, phase, got>>
         ELSE Proceed(TypeOf(h), LengthOf(h))
  /\ UNCHANGED <<sent, eof>>

\* Fault: the header's two bytes are counted as part of the body.
ReadLengthAndHeader(k) ==
  /\ rd.stage = "length"
  /\ Take(k)
  /\ Proceed(rd.type, LengthWith(rd.length, Buffer(k)) + 2)
  /\ UNCHANGED <<sent, eof>>

ReadLength(k) ==
  /\ rd.stage = "length"
  /\ Take(k)
  /\ Proceed(rd.type, LengthWith(rd.length, Buffer(k)))
  /\ UNCHANGED <<sent, eof>>

ReadBody(k) ==
  /\ rd.stage = "data"
  /\ Take(k)
  /\ Return(unpack(rd.type, Buffer(k)))
  /\ UNCHANGED <<sent, eof>>

\* Fault: the loop ends at the end of the stream only.
ReadFailsAtEnd ==
  /\ Reading
  /\ eof /\ stream = <<>>
  /\ Broken
  /\ UNCHANGED <<sent, stream, eof, full>>

(* A read on a connection closed at this end, or at the other end with     *)
(* nothing left, returns an error.                                         *)
ReadFails ==
  /\ Reading
  /\ ~raw \/ (eof /\ stream = <<>>)
  /\ Broken
  /\ UNCHANGED <<sent, stream, eof, full>>

(* waitConnPacket stops its timer and looks at the packet; OnConnect may   *)
(* refuse the client.                                                      *)
Connect ==
  /\ phase = "connect"
  /\ \/ got[1].type = CONNECT /\ phase' = "open" /\ UNCHANGED raw
     \/ phase' = "closed" /\ raw' = FALSE
  /\ UNCHANGED <<sent, stream, eof, rd, full, got>>

(* The timer of waitConnPacket, which may fire after the packet was read.  *)
AuthTimeout ==
  /\ phase \in {"await", "connect"}
  /\ raw
  /\ raw' = FALSE
  /\ UNCHANGED <<sent, stream, eof, phase, rd, full, got>>

(* The server closes the connection: conn.Close from a kick, a ping        *)
(* timeout or an expulsion.                                                *)
Close ==
  /\ phase = "open"
  /\ raw
  /\ raw' = FALSE
  /\ UNCHANGED <<sent, stream, eof, phase, rd, full, got>>

ReadStep == \E k \in 1 .. Len(stream) : ReadHeader(k) \/ ReadLength(k) \/ ReadBody(k)

Next ==
  \/ \E p \in Packet : Write(p)
  \/ Hangup
  \/ ReadStep
  \/ ReadFails
  \/ Connect
  \/ AuthTimeout
  \/ Close

(* The network delivers what was written and the goroutine runs; nobody    *)
(* has to write, hang up, time out or close.                               *)
Fairness == WF_vars(ReadStep) /\ WF_vars(ReadFails) /\ WF_vars(Connect)

Spec == Init /\ [][Next]_vars /\ Fairness

(***************************************************************************)
(* Properties.                                                             *)
(***************************************************************************)

(* The variables have their types, and no read asks for nothing: an r.Read *)
(* with an empty buffer would return at once for ever.                     *)
TypeOK ==
  /\ \A i \in DOMAIN sent : sent[i] \in Packet
  /\ \A i \in DOMAIN got : got[i].type \in PacketType
  /\ \A i \in DOMAIN stream : stream[i] \in Byte \cup 0 .. 127
  /\ eof \in BOOLEAN /\ raw \in BOOLEAN /\ full \in BOOLEAN
  /\ phase \in {"await", "connect", "open", "closed"}
  /\ rd.stage \in {"header", "length", "data"}
  /\ rd.need > 0

(* Unmarshal gives back every packet Marshal accepts, whatever the order   *)
(* in which the properties were written: what UDP, the discovery and the   *)
(* peers' messages rely on, for all types and every class of length.       *)
PacketsKept ==
  sent # <<>> =>
    \A data \in Marshal(Last(sent)) :
      Unmarshal(data) = {Last(sent)}

(* As long as every r.Read fills its buffer, the packets handed to the     *)
(* handlers are the ones written, in their order: the three reads of       *)
(* ReadFrom consume exactly one frame.  (With the type invariant.)         *)
FullReadsKeepFrames == TypeOK /\ (full => IsPrefix(got, sent))

(* As long as every r.Read fills its buffer, a packet that was written is  *)
(* returned by ReadFrom or the connection ends: the reader never waits for *)
(* bytes that no frame holds.                                              *)
WrittenIsRead ==
  \A i \in 1 .. MaxPackets :
    Len(sent) >= i ~> (Len(got) >= i \/ phase = "closed" \/ ~full)
=============================================================================
