------------------------------- MODULE Codec -------------------------------
(***************************************************************************)
(* The binary format of packages coder and packet: how a packet becomes    *)
(* bytes (Marshal) and how bytes become a packet (Unmarshal, unpack).      *)
(*                                                                         *)
(* A byte has Base values: 256 in the code, fewer in the checked           *)
(* instances, so that bodies reach every class of length.  The first byte  *)
(* of a frame keeps the code's layout: four bits of type, two of byte      *)
(* count, two of length.  A string is a sequence of bytes.  A packet is    *)
(* its type and the values of its fields in the order of its WriteTo.      *)
(***************************************************************************)
EXTENDS Integers, Sequences, FiniteSets, SequencesExt

CONSTANT Base

ASSUME BaseAssumption == Base \in Nat /\ Base >= 4 /\ Base % 2 = 0

Byte == 0 .. Base - 1

CONNECT == 0
CONNACK == 1
MESSAGE == 2
REQUEST == 3
RESPONSE == 4
PING == 5
PONG == 6
CLOSE == 7

PacketType == CONNECT .. CLOSE

(* The longest body a header with k further length bytes can announce:     *)
(* MID_LEN_1, MID_LEN_2, MID_LEN_3 and MAX_LEN.                            *)
MaxLength(k) == 4 * Base ^ (k + 1) - 1

(***************************************************************************)
(* The encoder.                                                            *)
(***************************************************************************)

WriteUInt16(i) == <<(i \div Base) % Base, i % Base>>

WriteUInt64(i) == [b \in 1 .. 8 |-> (i \div Base ^ (8 - b)) % Base]

Half == Base \div 2

WriteVarint[i \in Nat] ==
  IF i < Half THEN <<i>> ELSE <<Half + (i % Half)>> \o WriteVarint[i \div Half]

WriteData(s) == WriteVarint[Len(s)] \o s

(* A Go map is ranged over in any order: ord is one order of its keys.     *)
WriteUInt8Map(m, ord) ==
  <<Len(ord) % Base>> \o FlattenSeq([i \in DOMAIN ord |-> <<ord[i]>> \o WriteData(m[ord[i]])])

WriteStrMap(m, ord) ==
  WriteVarint[Len(ord)]
    \o FlattenSeq([i \in DOMAIN ord |-> WriteData(ord[i]) \o WriteData(m[ord[i]])])

WriteField(kind, v, ord) ==
  CASE kind = "UInt8"    -> <<v>>
    [] kind = "UInt16"   -> WriteUInt16(v)
    [] kind = "String"   -> WriteData(v)
    [] kind = "UInt8Map" -> WriteUInt8Map(v, ord)
    [] kind = "UInt64"   -> WriteUInt64(v)
    [] kind = "StrMap"   -> WriteStrMap(v, ord)
    [] kind = "Bytes"    -> v

(* The fields each WriteTo writes, in its order.                           *)
PropsWriteTo == <<"UInt8Map">>
IdentityWriteTo == <<"String", "String", "String">>
ConnectWriteTo == <<"UInt8">> \o IdentityWriteTo \o PropsWriteTo
ConnackWriteTo == <<"UInt8">> \o PropsWriteTo
MessageWriteTo == <<"UInt8">> \o PropsWriteTo \o <<"Bytes">>
RequestWriteTo == <<"UInt16", "String">> \o PropsWriteTo \o <<"Bytes">>
ResponseWriteTo == <<"UInt16", "UInt8">> \o PropsWriteTo \o <<"Bytes">>
CloseWriteTo == <<"UInt8">> \o PropsWriteTo

WriteTo(type) ==
  CASE type = CONNECT  -> ConnectWriteTo
    [] type = CONNACK  -> ConnackWriteTo
    [] type = MESSAGE  -> MessageWriteTo
    [] type = REQUEST  -> RequestWriteTo
    [] type = RESPONSE -> ResponseWriteTo
    [] type = CLOSE    -> CloseWriteTo
    [] OTHER           -> PropsWriteTo

(* The properties of a packet: the value of its UInt8Map field.            *)
Props(p) == p.fields[CHOOSE i \in DOMAIN p.fields : WriteTo(p.type)[i] = "UInt8Map"]

Body(p, ord) ==
  FlattenSeq([i \in DOMAIN p.fields |-> WriteField(WriteTo(p.type)[i], p.fields[i], ord)])

\* Fault: a threshold one too high.
CountPastThreshold(n) == CHOOSE k \in 0 .. 3 :
  /\ n <= MaxLength(k) + 1
  /\ \A j \in 0 .. k - 1 : n > MaxLength(j) + 1

(* The number of length bytes beyond the first that a body of n needs.     *)
ByteCount(n) == CHOOSE k \in 0 .. 3 :
  /\ n <= MaxLength(k)
  /\ \A j \in 0 .. k - 1 : n > MaxLength(j)

Header(type, n) ==
  LET k == ByteCount(n)
  IN  <<16 * type + 4 * k + (n \div Base ^ (k + 1))>>
        \o [i \in 1 .. k + 1 |-> (n \div Base ^ (k + 1 - i)) % Base]

(* The frames Marshal can return for p, none when its body is too long:    *)
(* the error ErrPacketSizeTooLarge.                                        *)
Marshal(p) ==
  {Header(p.type, Len(body)) \o body :
      body \in {b \in {Body(p, ord) : ord \in SetToSeqs(DOMAIN Props(p))} :
                   Len(b) <= MaxLength(3)}}

(***************************************************************************)
(* The decoder.  A read at a position of a buffer is the set of its        *)
(* results: one value and the position after it, or none when it fails.    *)
(***************************************************************************)

Result(v, pos) == {[val |-> v, pos |-> pos]}

(* pos and l are uint64, so their sum has eight bytes; one that wraps      *)
(* around would slice out of range, and has no value here either.          *)
ReadBytes(buf, pos, l) ==
  IF l > 0 /\ (pos + l) % Base ^ 8 > Len(buf) THEN {} ELSE Result(SubSeq(buf, pos + 1, pos + l), pos + l)

ReadUInt8(buf, pos) ==
  IF pos + 1 > Len(buf) THEN {} ELSE Result(buf[pos + 1], pos + 1)

ReadUInt16(buf, pos) ==
  UNION {Result(r.val[1] * Base + r.val[2], r.pos) : r \in ReadBytes(buf, pos, 2)}

(* Bytes of the longest varint of a 64-bit, that is eight-byte, integer.   *)
MaxVarintLen == CHOOSE n \in 1 .. 64 : Half ^ n >= Base ^ 8

(* The bytes of a varint carry the low part first; the first byte below    *)
(* Half is its last.                                                       *)
ReadVarint(buf, pos) ==
  LET value[i \in Nat] ==
        IF buf[i] < Half THEN buf[i] ELSE (buf[i] % Half) + Half * value[i + 1]
  IN  UNION {Result(value[pos + 1], last) :
               last \in {i \in pos + 1 .. Len(buf) :
                          /\ i <= pos + MaxVarintLen
                          /\ buf[i] < Half
                          /\ \A j \in pos + 1 .. i - 1 : buf[j] >= Half}}

ReadData(buf, pos) == UNION {ReadBytes(buf, l.pos, l.val) : l \in ReadVarint(buf, pos)}

(* Sets m[k], for a new or an old key k.                                   *)
Put(m, k, v) == [x \in DOMAIN m \cup {k} |-> IF x = k THEN v ELSE m[x]]

ReadEntry(buf, m, pos) ==
  UNION {UNION {Result(Put(m, k.val, v.val), v.pos) : v \in ReadData(buf, k.pos)} :
           k \in ReadUInt8(buf, pos)}

ReadUInt8Map(buf, pos) ==
  LET entries[i \in Nat] ==
        IF i = 0 THEN UNION {Result(<<>>, l.pos) : l \in ReadUInt8(buf, pos)}
        ELSE UNION {ReadEntry(buf, e.val, e.pos) : e \in entries[i - 1]}
  IN  UNION {entries[l.val] : l \in ReadUInt8(buf, pos)}

ReadUInt64(buf, pos) ==
  UNION {Result(FoldLeft(LAMBDA n, b : n * Base + b, 0, r.val), r.pos) :
           r \in ReadBytes(buf, pos, 8)}

ReadStrEntry(buf, m, pos) ==
  UNION {UNION {Result(Put(m, k.val, v.val), v.pos) : v \in ReadData(buf, k.pos)} :
           k \in ReadData(buf, pos)}

(* The number of entries is an int, negative from half of its range on.    *)
ReadStrMap(buf, pos) ==
  LET entries[i \in Nat] ==
        IF i = 0 THEN UNION {Result(<<>>, l.pos) : l \in ReadVarint(buf, pos)}
        ELSE UNION {ReadStrEntry(buf, e.val, e.pos) : e \in entries[i - 1]}
  IN  UNION {entries[IF l.val < Base ^ 8 \div 2 THEN l.val ELSE 0] : l \in ReadVarint(buf, pos)}

ReadAll(buf, pos) == Result(SubSeq(buf, pos + 1, Len(buf)), Len(buf))

ReadField(kind, buf, pos) ==
  CASE kind = "UInt8"    -> ReadUInt8(buf, pos)
    [] kind = "UInt16"   -> ReadUInt16(buf, pos)
    [] kind = "String"   -> ReadData(buf, pos)
    [] kind = "UInt8Map" -> ReadUInt8Map(buf, pos)
    [] kind = "UInt64"   -> ReadUInt64(buf, pos)
    [] kind = "StrMap"   -> ReadStrMap(buf, pos)
    [] kind = "All"      -> ReadAll(buf, pos)

(* The fields each ReadFrom reads, in its order.                           *)
PropsReadFrom == <<"UInt8Map">>
IdentityReadFrom == <<"String", "String", "String">>
ConnectReadFrom == <<"UInt8">> \o IdentityReadFrom \o PropsReadFrom
ConnackReadFrom == <<"UInt8">> \o PropsReadFrom
MessageReadFrom == <<"UInt8">> \o PropsReadFrom \o <<"All">>
RequestReadFrom == <<"UInt16", "String">> \o PropsReadFrom \o <<"All">>
ResponseReadFrom == <<"UInt16", "UInt8">> \o PropsReadFrom \o <<"All">>
CloseReadFrom == <<"UInt8">> \o PropsReadFrom

ReadFields(kinds, buf) ==
  LET after[i \in Nat] ==
        IF i = 0 THEN Result(<<>>, 0)
        ELSE UNION {UNION {Result(Append(d.val, f.val), f.pos) :
                             f \in ReadField(kinds[i], buf, d.pos)} : d \in after[i - 1]}
  IN  {d.val : d \in after[Len(kinds)]}

ReadFrom(type) ==
  CASE type = CONNECT  -> ConnectReadFrom
    [] type = CONNACK  -> ConnackReadFrom
    [] type = MESSAGE  -> MessageReadFrom
    [] type = REQUEST  -> RequestReadFrom
    [] type = RESPONSE -> ResponseReadFrom
    [] type = CLOSE    -> CloseReadFrom
    [] OTHER           -> PropsReadFrom

(* The packet a body decodes to by the type in the first header byte, or   *)
(* none when the type is unknown or a field cannot be read.                *)
unpack(type, data) ==
  IF type \in PacketType
  THEN {[type |-> type, fields |-> fields] : fields \in ReadFields(ReadFrom(type), data)}
  ELSE {}

TypeOf(header) == header[1] \div 16
CountOf(header) == (header[1] \div 4) % 4
LengthOf(header) == (header[1] % 4) * Base + header[2]

(* The length once the further length bytes bs are shifted in.             *)
LengthWith(length, bs) == FoldLeft(LAMBDA n, b : n * Base + b, length, bs)

(* Decodes one whole datagram.                                             *)
Unmarshal(bytes) ==
  UNION {UNION {UNION {unpack(TypeOf(h.val), data.val) :
                  data \in ReadBytes(bytes, bs.pos, LengthWith(LengthOf(h.val), bs.val))} :
                bs \in ReadBytes(bytes, h.pos, CountOf(h.val))} :
         h \in ReadBytes(bytes, 0, 2)}
=============================================================================
