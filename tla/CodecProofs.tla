----------------------------- MODULE CodecProofs -----------------------------
(***************************************************************************)
(* What is written is read again, for every number of values a byte can    *)
(* have and every largest size of a message that CodecAssumption admits.   *)
(* First numbers cut in two, then bytes found at an offset, then integers, *)
(* the whole message, and one payload after the other.                     *)
(***************************************************************************)
EXTENDS Codec, TLAPS

-----------------------------------------------------------------------------
(* Division.                                                               *)

\* A number is its quotient and its remainder.
LEMMA Divided ==
  ASSUME NEW b \in Nat \ {0}, NEW v \in Nat
  PROVE  /\ v \div b \in Nat /\ v % b \in 0 .. b - 1
         /\ v = (v \div b) * b + (v % b)
  OBVIOUS

\* A number below a product has its quotient below the other factor.
LEMMA QuotientBelow ==
  ASSUME NEW a \in Nat \ {0}, NEW b \in Nat \ {0}, NEW v \in 0 .. a * b - 1
  PROVE  /\ v \div b \in 0 .. a - 1 /\ v % b \in 0 .. b - 1
         /\ v = (v \div b) * b + (v % b)
  OBVIOUS

\* The values of the widths, and that each is twice the one before.
LEMMA Widths ==
  /\ Base \in Nat \ {0} /\ Base > 2
  /\ Word \in Nat \ {0} /\ Word = Base * Base
  /\ Long \in Nat \ {0} /\ Long = Word * Word
  /\ Quad \in Nat \ {0} /\ Quad = Long * Long
<1>1. Base \in Nat \ {0} /\ Base > 2
  BY CodecAssumption
<1>2. \A n \in Nat \ {0} : n * n \in Nat \ {0}
  OBVIOUS
<1> QED
  BY <1>1, <1>2 DEF Word, Long, Quad

\* Quotient and remainder are the only such numbers.
LEMMA Rejoined ==
  ASSUME NEW b \in Nat \ {0}, NEW q \in Nat, NEW r \in 0 .. b - 1
  PROVE  (q * b + r) \div b = q /\ (q * b + r) % b = r
<1> DEFINE v == q * b + r
           p == v \div b
           s == v % b
<1>1. v \in Nat
  OBVIOUS
<1> HIDE DEF v
<1>2. p \in Nat /\ s \in 0 .. b - 1 /\ v = p * b + s
  BY <1>1, Divided
<1> HIDE DEF p, s
<1>3. ~(q + 1 <= p)
  <2> SUFFICES ASSUME q + 1 <= p PROVE FALSE
    OBVIOUS
  <2>1. PICK d \in Nat : p = q + 1 + d
    <3>1. p - (q + 1) \in Nat /\ p = q + 1 + (p - (q + 1))
      BY <1>2
    <3> QED
      BY <3>1
  <2>2. p * b = q * b + b + d * b /\ d * b \in Nat /\ q * b \in Nat
    BY <2>1
  <2> QED
    BY <1>2, <2>2 DEF v
<1>4. ~(p + 1 <= q)
  <2> SUFFICES ASSUME p + 1 <= q PROVE FALSE
    OBVIOUS
  <2>1. PICK d \in Nat : q = p + 1 + d
    <3>1. q - (p + 1) \in Nat /\ q = p + 1 + (q - (p + 1))
      BY <1>2
    <3> QED
      BY <3>1
  <2>2. q * b = p * b + b + d * b /\ d * b \in Nat /\ p * b \in Nat
    BY <1>2, <2>1
  <2> QED
    BY <1>2, <2>2 DEF v
<1>5. p = q
  BY <1>2, <1>3, <1>4
<1>6. s = r
  BY <1>2, <1>5 DEF v
<1> QED
  BY <1>5, <1>6 DEF p, s, v

-----------------------------------------------------------------------------
(* Bytes at an offset.                                                     *)

\* data has these bytes after the first offset ones.
Holds(data, offset, bytes) == \A i \in 1 .. Len(bytes) : data[offset + i] = bytes[i]

\* Pieces put together.
LEMMA Joined ==
  \A s, t \in Seq(Byte) : s \o t \in Seq(Byte) /\ Len(s \o t) = Len(s) + Len(t)
  OBVIOUS

\* Two pieces one after the other.
LEMMA HoldsBoth ==
  ASSUME NEW data, NEW offset \in Nat, NEW s \in Seq(Byte), NEW t \in Seq(Byte),
         Holds(data, offset, s \o t)
  PROVE  Holds(data, offset, s) /\ Holds(data, offset + Len(s), t)
<1>1. ASSUME NEW i \in 1 .. Len(s)
      PROVE  data[offset + i] = s[i]
  <2>1. (s \o t)[i] = s[i] /\ i \in 1 .. Len(s \o t)
    OBVIOUS
  <2> QED
    BY <2>1 DEF Holds
<1>2. ASSUME NEW i \in 1 .. Len(t)
      PROVE  data[offset + Len(s) + i] = t[i]
  <2>1. (s \o t)[Len(s) + i] = t[i] /\ Len(s) + i \in 1 .. Len(s \o t)
    OBVIOUS
  <2>2. offset + (Len(s) + i) = offset + Len(s) + i
    OBVIOUS
  <2> QED
    BY <2>1, <2>2 DEF Holds
<1> QED
  BY <1>1, <1>2 DEF Holds

\* Bytes hold themselves, also when others come after or before them.
LEMMA HoldsItself ==
  ASSUME NEW s \in Seq(Byte), NEW t \in Seq(Byte)
  PROVE  Holds(s, 0, s) /\ Holds(s \o t, 0, s) /\ Holds(s \o t, Len(s), t)
<1>1. \A i \in 1 .. Len(s) : 0 + i = i /\ (s \o t)[i] = s[i]
  OBVIOUS
<1>2. \A i \in 1 .. Len(t) : (s \o t)[Len(s) + i] = t[i]
  OBVIOUS
<1> QED
  BY <1>1, <1>2 DEF Holds

-----------------------------------------------------------------------------
(* Integers.                                                               *)

\* A byte is read where it was written (ReadUint8, WriteUint8).
LEMMA ReadsByte ==
  ASSUME NEW value, NEW data, NEW offset \in Nat, Holds(data, offset, <<value>>)
  PROVE  ReadUint8(data, offset) = value
  BY DEF Holds, ReadUint8

\* Two bytes (ReadUint16, WriteUint16).
LEMMA ReadsUint16 ==
  ASSUME NEW value \in Uint16
  PROVE  /\ WriteUint16(value) \in Seq(Byte) /\ Len(WriteUint16(value)) = 2
         /\ \A data : \A offset \in Nat :
               Holds(data, offset, WriteUint16(value)) => ReadUint16(data, offset) = value
<1>1. /\ value \div Base \in Byte /\ value % Base \in Byte
      /\ value = (value \div Base) * Base + (value % Base)
  <2>1. value \in 0 .. Base * Base - 1
    BY Widths DEF Uint16
  <2> QED
    BY <2>1, Widths, QuotientBelow DEF Byte
<1>2. WriteUint16(value) \in Seq(Byte) /\ Len(WriteUint16(value)) = 2
  BY <1>1 DEF WriteUint16
<1>3. ASSUME NEW data, NEW offset \in Nat, Holds(data, offset, WriteUint16(value))
      PROVE  ReadUint16(data, offset) = value
  <2>1. data[offset + 1] = value \div Base /\ data[offset + 2] = value % Base
    BY <1>3, <1>2 DEF Holds, WriteUint16
  <2> QED
    BY <2>1, <1>1 DEF ReadUint16
<1> QED
  BY <1>2, <1>3

\* Four bytes (ReadUint32, WriteUint32; a float is written as its bits).
LEMMA ReadsUint32 ==
  ASSUME NEW value \in Uint32
  PROVE  /\ WriteUint32(value) \in Seq(Byte) /\ Len(WriteUint32(value)) = 4
         /\ \A data : \A offset \in Nat :
               Holds(data, offset, WriteUint32(value)) => ReadUint32(data, offset) = value
<1>1. PICK high \in Uint16, low \in Uint16 :
         /\ value = high * Word + low
         /\ WriteUint32(value) = WriteUint16(high) \o WriteUint16(low)
  <2>1. value \in 0 .. Word * Word - 1
    BY Widths DEF Uint32
  <2>2. Word \in Nat \ {0}
    BY Widths
  <2>3. /\ value \div Word \in 0 .. Word - 1 /\ value % Word \in 0 .. Word - 1
        /\ value = (value \div Word) * Word + (value % Word)
    BY <2>1, <2>2, QuotientBelow
  <2> QED
    BY <2>3 DEF Uint16, WriteUint32
<1>2. WriteUint16(high) \in Seq(Byte) /\ WriteUint16(low) \in Seq(Byte)
  BY <1>1, ReadsUint16
<1>3. Len(WriteUint16(high)) = 2 /\ Len(WriteUint16(low)) = 2
  BY <1>1, ReadsUint16
<1>4. WriteUint32(value) \in Seq(Byte) /\ Len(WriteUint32(value)) = 4
  <2>1. /\ WriteUint32(value) \in Seq(Byte)
        /\ Len(WriteUint32(value)) = Len(WriteUint16(high)) + Len(WriteUint16(low))
    BY <1>1, <1>2, Joined
  <2> QED
    BY <1>3, <2>1
<1>5. ASSUME NEW data, NEW offset \in Nat, Holds(data, offset, WriteUint32(value))
      PROVE  ReadUint32(data, offset) = value
  <2>1. Holds(data, offset, WriteUint16(high)) /\ Holds(data, offset + 2, WriteUint16(low))
    BY <1>1, <1>2, <1>3, <1>5, HoldsBoth
  <2>2. ReadUint16(data, offset) = high /\ ReadUint16(data, offset + 2) = low
    BY <1>1, <2>1, ReadsUint16
  <2> QED
    BY <1>1, <2>2 DEF ReadUint32
<1> QED
  BY <1>4, <1>5

\* Eight bytes (ReadUint64, WriteUint64).
LEMMA ReadsUint64 ==
  ASSUME NEW value \in Uint64
  PROVE  /\ WriteUint64(value) \in Seq(Byte) /\ Len(WriteUint64(value)) = 8
         /\ \A data : \A offset \in Nat :
               Holds(data, offset, WriteUint64(value)) => ReadUint64(data, offset) = value
<1>1. PICK high \in Uint32, low \in Uint32 :
         /\ value = high * Long + low
         /\ WriteUint64(value) = WriteUint32(high) \o WriteUint32(low)
  <2>1. value \in 0 .. Long * Long - 1
    BY Widths DEF Uint64
  <2>2. Long \in Nat \ {0}
    BY Widths
  <2>3. /\ value \div Long \in 0 .. Long - 1 /\ value % Long \in 0 .. Long - 1
        /\ value = (value \div Long) * Long + (value % Long)
    BY <2>1, <2>2, QuotientBelow
  <2> QED
    BY <2>3 DEF Uint32, WriteUint64
<1>2. WriteUint32(high) \in Seq(Byte) /\ WriteUint32(low) \in Seq(Byte)
  BY <1>1, ReadsUint32
<1>3. Len(WriteUint32(high)) = 4 /\ Len(WriteUint32(low)) = 4
  BY <1>1, ReadsUint32
<1>4. WriteUint64(value) \in Seq(Byte) /\ Len(WriteUint64(value)) = 8
  <2>1. /\ WriteUint64(value) \in Seq(Byte)
        /\ Len(WriteUint64(value)) = Len(WriteUint32(high)) + Len(WriteUint32(low))
    BY <1>1, <1>2, Joined
  <2> QED
    BY <1>3, <2>1
<1>5. ASSUME NEW data, NEW offset \in Nat, Holds(data, offset, WriteUint64(value))
      PROVE  ReadUint64(data, offset) = value
  <2>1. Holds(data, offset, WriteUint32(high)) /\ Holds(data, offset + 4, WriteUint32(low))
    BY <1>1, <1>2, <1>3, <1>5, HoldsBoth
  <2>2. ReadUint32(data, offset) = high /\ ReadUint32(data, offset + 4) = low
    BY <1>1, <2>1, ReadsUint32
  <2> QED
    BY <1>1, <2>2 DEF ReadUint64
<1> QED
  BY <1>4, <1>5

\* A word has two halves.
LEMMA HalfOfWord == HalfWord \in Nat /\ Word = HalfWord + HalfWord
<1>1. PICK half \in Nat : Base = 2 * half
  <2>1. Base = 2 * (Base \div 2) /\ Base \div 2 \in Nat
    BY CodecAssumption
  <2> QED
    BY <2>1
<1>2. Base * Base = 2 * (half * Base) /\ half * Base \in Nat
  BY <1>1
<1> QED
  BY <1>2 DEF HalfWord, Word

\* The bits of a signed number (std::bit_cast).
LEMMA ReadsInt16 ==
  ASSUME NEW value \in Int16
  PROVE  ToUint16(value) \in Uint16 /\ ToInt16(ToUint16(value)) = value
<1>1. HalfWord \in Nat /\ Word = HalfWord + HalfWord
  BY HalfOfWord
<1> QED
  BY <1>1 DEF Int16, Uint16, ToUint16, ToInt16

\* Every pattern of bits is one of a signed number.
LEMMA WritesInt16 ==
  ASSUME NEW bits \in Uint16
  PROVE  ToInt16(bits) \in Int16 /\ ToUint16(ToInt16(bits)) = bits
<1>1. HalfWord \in Nat /\ Word = HalfWord + HalfWord
  BY HalfOfWord
<1> QED
  BY <1>1 DEF Int16, Uint16, ToUint16, ToInt16

\* Two bytes that are read as a number are what it is written as.
LEMMA WritesUint16 ==
  ASSUME NEW high \in Byte, NEW low \in Byte
  PROVE  /\ high * Base + low \in Uint16
         /\ WriteUint16(high * Base + low) = <<high, low>>
<1>1. /\ Base \in Nat \ {0} /\ Word = Base * Base
      /\ high \in Nat /\ high <= Base - 1 /\ low \in 0 .. Base - 1
  BY Widths DEF Byte
<1>2. (high * Base + low) \div Base = high /\ (high * Base + low) % Base = low
  BY <1>1, Rejoined
<1>3. high * Base + low \in 0 .. Base * Base - 1
  <2>1. PICK d \in Nat : Base = high + 1 + d
    <3>1. Base - (high + 1) \in Nat /\ Base = high + 1 + (Base - (high + 1))
      BY <1>1
    <3> QED
      BY <3>1
  <2>2. /\ Base * Base = high * Base + Base + d * Base
        /\ d * Base \in Nat /\ high * Base \in Nat
    BY <1>1, <2>1
  <2> QED
    BY <1>1, <2>2
<1> QED
  BY <1>1, <1>2, <1>3 DEF Uint16, WriteUint16

-----------------------------------------------------------------------------
(* A message.                                                              *)

\* The bytes of a header, and that they are read again wherever they are.
LEMMA ReadsHeader ==
  ASSUME NEW header \in MessageHeader
  PROVE  /\ EncodeMessageHeader(header) \in Seq(Byte)
         /\ Len(EncodeMessageHeader(header)) = MessageHeaderSize
         /\ \A data : Holds(data, 0, EncodeMessageHeader(header)) =>
                         DecodedMessageHeader(data) = header
<1>1. header.size \in Uint16 /\ header.type \in Uint16
      /\ header = [size |-> header.size, type |-> header.type]
  BY DEF MessageHeader
<1>2. WriteUint16(header.size) \in Seq(Byte) /\ WriteUint16(header.type) \in Seq(Byte)
  BY <1>1, ReadsUint16
<1>3. Len(WriteUint16(header.size)) = 2 /\ Len(WriteUint16(header.type)) = 2
  BY <1>1, ReadsUint16
<1>4. /\ EncodeMessageHeader(header) \in Seq(Byte)
      /\ Len(EncodeMessageHeader(header)) = MessageHeaderSize
  <2>1. /\ EncodeMessageHeader(header) \in Seq(Byte)
        /\ Len(EncodeMessageHeader(header)) =
              Len(WriteUint16(header.size)) + Len(WriteUint16(header.type))
    BY <1>2, Joined DEF EncodeMessageHeader
  <2> QED
    BY <1>3, <2>1 DEF MessageHeaderSize
<1>5. ASSUME NEW data, Holds(data, 0, EncodeMessageHeader(header))
      PROVE  DecodedMessageHeader(data) = header
  <2>1. /\ Holds(data, 0, WriteUint16(header.size))
        /\ Holds(data, 0 + 2, WriteUint16(header.type))
    BY <1>2, <1>3, <1>5, HoldsBoth DEF EncodeMessageHeader
  <2>2. ReadUint16(data, 0) = header.size /\ ReadUint16(data, 2) = header.type
    BY <1>1, <2>1, ReadsUint16
  <2> QED
    BY <1>1, <2>2 DEF DecodedMessageHeader
<1> QED
  BY <1>4, <1>5

\* A piece of a sequence made of two.
LEMMA Cut ==
  ASSUME NEW s \in Seq(Byte), NEW t \in Seq(Byte)
  PROVE  /\ SubSeq(s \o t, 1, Len(s)) = s
         /\ SubSeq(s \o t, Len(s) + 1, Len(s) + Len(t)) = t
  OBVIOUS

\* Whatever follows a message in the stream, its header is decoded first, the
\* size in it ends the message, between the two is the payload, and what is
\* left over is what followed (EncodeMessage against ProcessMessages of both
\* ends).
THEOREM MessageCutExactly ==
  ASSUME NEW type \in Uint16, NEW payload \in Seq(Byte), NEW rest \in Seq(Byte),
         EncodesMessage(payload)
  PROVE  LET message == EncodedMessage(type, payload)
             buffer == message \o rest
             header == DecodedMessageHeader(buffer)
         IN  /\ DecodesMessageHeader(buffer)
             /\ header.type = type /\ header.size = Len(message)
             /\ SubSeq(buffer, MessageHeaderSize + 1, header.size) = payload
             /\ SubSeq(buffer, header.size + 1, Len(buffer)) = rest
<1> DEFINE header == [size |-> MessageHeaderSize + Len(payload), type |-> type]
           encoded == EncodeMessageHeader(header)
           message == EncodedMessage(type, payload)
           buffer == message \o rest
<1>1. header \in MessageHeader
  <2>1. Len(payload) \in Nat /\ MessageHeaderSize + Len(payload) <= MaxMessageSize
    BY DEF EncodesMessage
  <2>2. \A length \in Nat : MessageHeaderSize + length <= MaxMessageSize =>
                               MessageHeaderSize + length \in Uint16
    BY CodecAssumption, Widths DEF Uint16, MessageHeaderSize
  <2> QED
    BY <2>1, <2>2 DEF MessageHeader
<1>2. header.size = MessageHeaderSize + Len(payload) /\ header.type = type
  OBVIOUS
<1>3. encoded \in Seq(Byte) /\ message = encoded \o payload
  BY <1>1, ReadsHeader DEF EncodedMessage
<1>4. Len(encoded) = MessageHeaderSize
  BY <1>1, ReadsHeader
<1>5. \A data : Holds(data, 0, encoded) => DecodedMessageHeader(data) = header
  BY <1>1, ReadsHeader
<1> HIDE DEF header, encoded, message
<1>6. /\ message \in Seq(Byte) /\ buffer \in Seq(Byte)
      /\ Len(message) = Len(encoded) + Len(payload)
      /\ Len(buffer) = Len(message) + Len(rest)
  BY <1>3, Joined
<1>7. DecodesMessageHeader(buffer)
  BY <1>4, <1>6 DEF DecodesMessageHeader
<1>8. DecodedMessageHeader(buffer) = header
  <2>1. Holds(buffer, 0, message)
    BY <1>6, HoldsItself
  <2>2. Holds(buffer, 0, encoded)
    BY <1>3, <2>1, HoldsBoth
  <2> QED
    BY <1>5, <2>2
<1>9. header.size = Len(message)
  BY <1>2, <1>4, <1>6
<1>10. SubSeq(buffer, MessageHeaderSize + 1, Len(message)) = payload
  <2>1. \A i \in 1 .. Len(message) : buffer[i] = message[i]
    BY <1>6
  <2>2. SubSeq(message, Len(encoded) + 1, Len(encoded) + Len(payload)) = payload
    BY <1>3, Cut
  <2>3. SubSeq(buffer, Len(encoded) + 1, Len(message)) =
        SubSeq(message, Len(encoded) + 1, Len(message))
    BY <1>3, <1>6, <2>1
  <2> QED
    BY <1>4, <1>6, <2>2, <2>3
<1>11. SubSeq(buffer, Len(message) + 1, Len(buffer)) = rest
  BY <1>6, Cut
<1> QED
  BY <1>2, <1>7, <1>8, <1>9, <1>10, <1>11 DEF message

-----------------------------------------------------------------------------
(* The payloads.                                                           *)

\* Bytes of a known number.
Piece(bytes, size) == bytes \in Seq(Byte) /\ Len(bytes) = size

\* A piece and the one after it.
LEMMA Appended ==
  ASSUME NEW s, NEW n \in Nat, Piece(s, n), NEW t, NEW m \in Nat, Piece(t, m)
  PROVE  /\ Piece(s \o t, n + m)
         /\ \A data : \A offset \in Nat : Holds(data, offset, s \o t) =>
                         Holds(data, offset, s) /\ Holds(data, offset + n, t)
<1>1. s \in Seq(Byte) /\ t \in Seq(Byte)
  BY DEF Piece
<1>2. Len(s) = n /\ Len(t) = m
  BY DEF Piece
<1>3. s \o t \in Seq(Byte) /\ Len(s \o t) = Len(s) + Len(t)
  BY <1>1, Joined
<1>4. Piece(s \o t, n + m)
  BY <1>2, <1>3 DEF Piece
<1>5. \A data : \A offset \in Nat : Holds(data, offset, s \o t) =>
         Holds(data, offset, s) /\ Holds(data, offset + Len(s), t)
  BY <1>1, HoldsBoth
<1> QED
  BY <1>2, <1>4, <1>5

\* A payload holds itself.
LEMMA HoldsAll ==
  ASSUME NEW bytes, NEW n \in Nat, Piece(bytes, n)
  PROVE  Holds(bytes, 0, bytes)
  BY HoldsItself DEF Piece

\* What is sent of a ping comes back in the pong (TryEncodePingPayload,
\* TryDecodePingPayload).
THEOREM PingRoundTrip ==
  ASSUME NEW ping \in PingPayload
  PROVE  LET payload == EncodedPingPayload(ping)
         IN  DecodesPingPayload(payload) /\ DecodedPingPayload(payload) = ping
<1> DEFINE payload == EncodedPingPayload(ping)
<1>1. /\ ping.clientPingTxTimestampNanoseconds \in Uint64
      /\ ping = [clientPingTxTimestampNanoseconds |-> ping.clientPingTxTimestampNanoseconds]
  BY DEF PingPayload
<1>2. Piece(payload, 8)
  BY <1>1, ReadsUint64 DEF EncodedPingPayload, Piece
<1>3. Holds(payload, 0, payload)
  BY <1>2, HoldsAll
<1>4. ReadUint64(payload, 0) = ping.clientPingTxTimestampNanoseconds
  BY <1>1, <1>3, ReadsUint64 DEF EncodedPingPayload
<1>5. DecodesPingPayload(payload)
  BY <1>2 DEF Piece, DecodesPingPayload
<1> QED
  BY <1>1, <1>4, <1>5 DEF DecodedPingPayload

\* The room and player a client is told are the ones the server meant
\* (TryEncodePlayerIdentityPayload, TryDecodePlayerIdentityPayload).
THEOREM IdentityRoundTrip ==
  ASSUME NEW identity \in PlayerIdentityPayload, EncodesPlayerIdentityPayload(identity)
  PROVE  LET payload == EncodedPlayerIdentityPayload(identity)
         IN  /\ DecodesPlayerIdentityPayload(payload)
             /\ DecodedPlayerIdentityPayload(payload) = identity
<1> DEFINE payload == EncodedPlayerIdentityPayload(identity)
<1>1. /\ identity.roomId \in Uint32 /\ identity.playerId \in Uint32
      /\ identity = [roomId |-> identity.roomId, playerId |-> identity.playerId]
  BY DEF PlayerIdentityPayload
<1>2. Piece(WriteUint32(identity.roomId), 4) /\ Piece(WriteUint32(identity.playerId), 4)
  BY <1>1, ReadsUint32 DEF Piece
<1>3. /\ Piece(payload, 4 + 4)
      /\ \A data : \A offset \in Nat : Holds(data, offset, payload) =>
            /\ Holds(data, offset, WriteUint32(identity.roomId))
            /\ Holds(data, offset + 4, WriteUint32(identity.playerId))
  BY <1>2, Appended DEF EncodedPlayerIdentityPayload
<1>4. Holds(payload, 0, payload)
  BY <1>3, HoldsAll
<1>5. /\ Holds(payload, 0, WriteUint32(identity.roomId))
      /\ Holds(payload, 0 + 4, WriteUint32(identity.playerId))
  BY <1>3, <1>4
<1>6. ReadUint32(payload, 0) = identity.roomId /\ ReadUint32(payload, 4) = identity.playerId
  BY <1>1, <1>5, ReadsUint32
<1>7. DecodedPlayerIdentityPayload(payload) = identity
  BY <1>1, <1>6 DEF DecodedPlayerIdentityPayload
<1>8. DecodesPlayerIdentityPayload(payload)
  BY <1>3, <1>7 DEF Piece, DecodesPlayerIdentityPayload
<1> QED
  BY <1>7, <1>8

\* A valid input that is written is accepted and read as it was.
LEMMA InputRead ==
  ASSUME NEW input \in PlayerInputPayload, IsValidPlayerInput(input)
  PROVE  LET payload == EncodedPlayerInputPayload(input)
         IN  /\ DecodesPlayerInputPayload(payload)
             /\ DecodedPlayerInputPayload(payload) = input
<1> DEFINE payload == EncodedPlayerInputPayload(input)
           bits(value) == ToUint16(value)
           dash == IF input.dash THEN 1 ELSE 0
           x == WriteUint16(bits(input.moveX))
           y == WriteUint16(bits(input.moveY))
           z == WriteUint16(bits(input.moveZ))
           last == <<dash>>
<1>1. /\ input.moveX \in Int16 /\ input.moveY \in Int16 /\ input.moveZ \in Int16
      /\ input.dash \in BOOLEAN
      /\ input = [moveX |-> input.moveX, moveY |-> input.moveY, moveZ |-> input.moveZ,
                  dash |-> input.dash]
  BY DEF PlayerInputPayload
<1>2. /\ bits(input.moveX) \in Uint16 /\ ToInt16(bits(input.moveX)) = input.moveX
      /\ bits(input.moveY) \in Uint16 /\ ToInt16(bits(input.moveY)) = input.moveY
      /\ bits(input.moveZ) \in Uint16 /\ ToInt16(bits(input.moveZ)) = input.moveZ
  BY <1>1, ReadsInt16
<1>3. Piece(x, 2) /\ Piece(y, 2) /\ Piece(z, 2)
  BY <1>2, ReadsUint16 DEF Piece
<1>4. dash \in Byte /\ dash \in {0, 1} /\ (dash # 0) = input.dash
  BY <1>1, Widths DEF Byte
<1>5. Piece(last, 1)
  BY <1>4 DEF Piece
<1>6. payload = x \o y \o z \o last
  BY DEF EncodedPlayerInputPayload
<1> HIDE DEF payload, x, y, z, last, dash
<1>7. /\ Piece(x \o y, 2 + 2)
      /\ \A data : \A offset \in Nat : Holds(data, offset, x \o y) =>
            Holds(data, offset, x) /\ Holds(data, offset + 2, y)
  BY <1>3, Appended
<1>8. /\ Piece(x \o y \o z, 4 + 2)
      /\ \A data : \A offset \in Nat : Holds(data, offset, x \o y \o z) =>
            Holds(data, offset, x \o y) /\ Holds(data, offset + 4, z)
  BY <1>3, <1>7, Appended
<1>9. /\ Piece(payload, 6 + 1)
      /\ \A data : \A offset \in Nat : Holds(data, offset, payload) =>
            Holds(data, offset, x \o y \o z) /\ Holds(data, offset + 6, last)
  BY <1>5, <1>6, <1>8, Appended
<1>10. Holds(payload, 0, payload)
  BY <1>9, HoldsAll
<1>11. /\ Holds(payload, 0, x) /\ Holds(payload, 0 + 2, y)
       /\ Holds(payload, 0 + 4, z) /\ Holds(payload, 0 + 6, last)
  BY <1>7, <1>8, <1>9, <1>10
<1>12. /\ ReadUint16(payload, 0) = bits(input.moveX)
       /\ ReadUint16(payload, 2) = bits(input.moveY)
       /\ ReadUint16(payload, 4) = bits(input.moveZ)
  BY <1>2, <1>11, ReadsUint16 DEF x, y, z
<1>13. ReadUint8(payload, 6) = dash
  BY <1>11, ReadsByte DEF last
<1>14. DecodedPlayerInputPayload(payload) = input
  BY <1>1, <1>2, <1>4, <1>12, <1>13 DEF DecodedPlayerInputPayload
<1>15. DecodesPlayerInputPayload(payload)
  BY <1>4, <1>9, <1>13, <1>14 DEF Piece, DecodesPlayerInputPayload
<1> QED
  BY <1>14, <1>15 DEF payload

\* Two sequences end to end are the one that begins as the first and goes on
\* as the second.
LEMMA EndToEnd ==
  \A s, t, r \in Seq(Byte) :
     /\ Len(r) = Len(s) + Len(t)
     /\ \A i \in 1 .. Len(s) : r[i] = s[i]
     /\ \A i \in 1 .. Len(t) : r[Len(s) + i] = t[i]
     => s \o t = r
<1> SUFFICES ASSUME NEW s \in Seq(Byte), NEW t \in Seq(Byte), NEW r \in Seq(Byte),
                    Len(r) = Len(s) + Len(t),
                    \A i \in 1 .. Len(s) : r[i] = s[i],
                    \A i \in 1 .. Len(t) : r[Len(s) + i] = t[i]
             PROVE  s \o t = r
  OBVIOUS
<1>1. s \o t \in Seq(Byte) /\ Len(s \o t) = Len(r)
  OBVIOUS
<1>2. \A i \in 1 .. Len(r) : (s \o t)[i] = r[i]
  <2> TAKE i \in 1 .. Len(r)
  <2>1. CASE i <= Len(s)
    BY <2>1
  <2>2. CASE i > Len(s)
    <3>1. i - Len(s) \in 1 .. Len(t) /\ i = Len(s) + (i - Len(s))
      BY <2>2
    <3>2. r[i] = t[i - Len(s)]
      BY <3>1
    <3> QED
      BY <2>2, <3>1, <3>2
  <2> QED
    BY <2>1, <2>2
<1> QED
  BY <1>1, <1>2

\* The pieces of an input, end to end.
LEMMA SevenBytes ==
  ASSUME NEW a \in Byte, NEW b \in Byte, NEW c \in Byte, NEW d \in Byte,
         NEW e \in Byte, NEW f \in Byte, NEW g \in Byte
  PROVE  <<a, b>> \o <<c, d>> \o <<e, f>> \o <<g>> = <<a, b, c, d, e, f, g>>
<1>1. <<a, b>> \o <<c, d>> = <<a, b, c, d>>
  <2> DEFINE s == <<a, b>>
             t == <<c, d>>
             r == <<a, b, c, d>>
  <2>1. /\ s \in Seq(Byte) /\ Len(s) = 2
        /\ t \in Seq(Byte) /\ Len(t) = 2
        /\ r \in Seq(Byte) /\ Len(r) = 4
    OBVIOUS
  <2>2. /\ r[1] = s[1] /\ r[2] = s[2]
        /\ r[2 + 1] = t[1] /\ r[2 + 2] = t[2]
    OBVIOUS
  <2> HIDE DEF s, t, r
  <2>3. /\ Len(r) = Len(s) + Len(t)
        /\ \A i \in 1 .. Len(s) : r[i] = s[i]
        /\ \A i \in 1 .. Len(t) : r[Len(s) + i] = t[i]
    <3>1. /\ \A i \in 1 .. 2 : r[i] = s[i]
          /\ \A i \in 1 .. 2 : r[2 + i] = t[i]
      BY <2>2
    <3> QED
      BY <2>1, <3>1
  <2>4. s \o t = r
    BY <2>1, <2>3, EndToEnd
  <2> QED
    BY <2>4 DEF s, t, r
<1>2. <<a, b, c, d>> \o <<e, f>> = <<a, b, c, d, e, f>>
  <2> DEFINE s == <<a, b, c, d>>
             t == <<e, f>>
             r == <<a, b, c, d, e, f>>
  <2>1. /\ s \in Seq(Byte) /\ Len(s) = 4
        /\ t \in Seq(Byte) /\ Len(t) = 2
        /\ r \in Seq(Byte) /\ Len(r) = 6
    OBVIOUS
  <2>2. /\ r[1] = s[1] /\ r[2] = s[2] /\ r[3] = s[3] /\ r[4] = s[4]
        /\ r[4 + 1] = t[1] /\ r[4 + 2] = t[2]
    OBVIOUS
  <2> HIDE DEF s, t, r
  <2>3. /\ Len(r) = Len(s) + Len(t)
        /\ \A i \in 1 .. Len(s) : r[i] = s[i]
        /\ \A i \in 1 .. Len(t) : r[Len(s) + i] = t[i]
    <3>1. /\ \A i \in 1 .. 4 : r[i] = s[i]
          /\ \A i \in 1 .. 2 : r[4 + i] = t[i]
      BY <2>2
    <3> QED
      BY <2>1, <3>1
  <2>4. s \o t = r
    BY <2>1, <2>3, EndToEnd
  <2> QED
    BY <2>4 DEF s, t, r
<1>3. <<a, b, c, d, e, f>> \o <<g>> = <<a, b, c, d, e, f, g>>
  <2> DEFINE s == <<a, b, c, d, e, f>>
             t == <<g>>
             r == <<a, b, c, d, e, f, g>>
  <2>1. /\ s \in Seq(Byte) /\ Len(s) = 6
        /\ t \in Seq(Byte) /\ Len(t) = 1
        /\ r \in Seq(Byte) /\ Len(r) = 7
    OBVIOUS
  <2>2. /\ r[1] = s[1] /\ r[2] = s[2] /\ r[3] = s[3] /\ r[4] = s[4] /\ r[5] = s[5] /\ r[6] = s[6]
        /\ r[6 + 1] = t[1]
    OBVIOUS
  <2> HIDE DEF s, t, r
  <2>3. /\ Len(r) = Len(s) + Len(t)
        /\ \A i \in 1 .. Len(s) : r[i] = s[i]
        /\ \A i \in 1 .. Len(t) : r[Len(s) + i] = t[i]
    <3>1. /\ \A i \in 1 .. 6 : r[i] = s[i]
          /\ \A i \in 1 .. 1 : r[6 + i] = t[i]
      BY <2>2
    <3> QED
      BY <2>1, <3>1
  <2>4. s \o t = r
    BY <2>1, <2>3, EndToEnd
  <2> QED
    BY <2>4 DEF s, t, r
<1> QED
  BY <1>1, <1>2, <1>3

\* A payload that is accepted is what the input it is read as is written as.
LEMMA InputRewritten ==
  ASSUME NEW payload \in Seq(Byte), DecodesPlayerInputPayload(payload)
  PROVE  LET input == DecodedPlayerInputPayload(payload)
         IN  /\ input \in PlayerInputPayload /\ IsValidPlayerInput(input)
             /\ EncodedPlayerInputPayload(input) = payload
<1> DEFINE input == DecodedPlayerInputPayload(payload)
           x == ReadUint16(payload, 0)
           y == ReadUint16(payload, 2)
           z == ReadUint16(payload, 4)
<1>1. /\ Len(payload) = 7 /\ IsValidPlayerInput(input) /\ ReadUint8(payload, 6) <= 1
  BY DEF DecodesPlayerInputPayload
<1>2. \A i \in 1 .. 7 : payload[i] \in Byte
  <2>1. \A i \in 1 .. Len(payload) : payload[i] \in Byte
    OBVIOUS
  <2> QED
    BY <1>1, <2>1
<1>3. /\ x \in Uint16 /\ WriteUint16(x) = <<payload[1], payload[2]>>
      /\ y \in Uint16 /\ WriteUint16(y) = <<payload[3], payload[4]>>
      /\ z \in Uint16 /\ WriteUint16(z) = <<payload[5], payload[6]>>
  <2>1. \A i \in {0, 2, 4} : /\ payload[i + 1] \in Byte /\ payload[i + 2] \in Byte
                             /\ ReadUint16(payload, i) = payload[i + 1] * Base + payload[i + 2]
    BY <1>2 DEF ReadUint16
  <2>2. \A i \in {0, 2, 4} :
           /\ ReadUint16(payload, i) \in Uint16
           /\ WriteUint16(ReadUint16(payload, i)) = <<payload[i + 1], payload[i + 2]>>
    <3> TAKE i \in {0, 2, 4}
    <3> QED
      BY <2>1, WritesUint16
  <2> QED
    BY <2>2
<1>4. /\ input.moveX = ToInt16(x) /\ input.moveY = ToInt16(y) /\ input.moveZ = ToInt16(z)
      /\ input.dash = (payload[7] # 0)
      /\ input = [moveX |-> ToInt16(x), moveY |-> ToInt16(y), moveZ |-> ToInt16(z),
                  dash |-> payload[7] # 0]
  BY DEF DecodedPlayerInputPayload, ReadUint8
<1> HIDE DEF input, x, y, z
<1>5. /\ ToInt16(x) \in Int16 /\ ToUint16(ToInt16(x)) = x
      /\ ToInt16(y) \in Int16 /\ ToUint16(ToInt16(y)) = y
      /\ ToInt16(z) \in Int16 /\ ToUint16(ToInt16(z)) = z
  BY <1>3, WritesInt16
<1>6. input \in PlayerInputPayload
  BY <1>4, <1>5 DEF PlayerInputPayload
<1>7. (IF input.dash THEN 1 ELSE 0) = payload[7]
  <2>1. payload[7] \in {0, 1}
    <3>1. payload[7] \in Nat /\ payload[7] <= 1
      BY <1>1, <1>2, Widths DEF Byte, ReadUint8
    <3> QED
      BY <3>1
  <2> QED
    BY <1>4, <2>1
<1>8. EncodedPlayerInputPayload(input) =
         <<payload[1], payload[2]>> \o <<payload[3], payload[4]>> \o
         <<payload[5], payload[6]>> \o <<payload[7]>>
  BY <1>3, <1>4, <1>5, <1>7 DEF EncodedPlayerInputPayload
<1>9. <<payload[1], payload[2]>> \o <<payload[3], payload[4]>> \o
      <<payload[5], payload[6]>> \o <<payload[7]>> = payload
  <2> DEFINE bytes == <<payload[1], payload[2], payload[3], payload[4],
                        payload[5], payload[6], payload[7]>>
  <2>1. bytes = payload
    <3>1. bytes \in Seq(Byte) /\ Len(bytes) = 7
      BY <1>2
    <3>2. \A i \in 1 .. 7 : bytes[i] = payload[i]
      <4> TAKE i \in 1 .. 7
      <4>1. i \in {1, 2, 3, 4, 5, 6, 7}
        OBVIOUS
      <4> QED
        BY <4>1
    <3> QED
      BY <1>1, <3>1, <3>2
  <2>2. /\ payload[1] \in Byte /\ payload[2] \in Byte /\ payload[3] \in Byte
        /\ payload[4] \in Byte /\ payload[5] \in Byte /\ payload[6] \in Byte
        /\ payload[7] \in Byte
    BY <1>2
  <2> QED
    BY <2>1, <2>2, SevenBytes
<1> QED
  BY <1>1, <1>6, <1>8, <1>9 DEF input

\* A valid input moves the player the way the client asked, the sign of each
\* axis included, and a payload is accepted only if it is the encoding of a
\* valid input, of the one it is read as (TryEncodePlayerInputPayload,
\* TryDecodePlayerInputPayload).
THEOREM InputRoundTrip ==
  /\ \A input \in PlayerInputPayload : IsValidPlayerInput(input) =>
        /\ DecodesPlayerInputPayload(EncodedPlayerInputPayload(input))
        /\ DecodedPlayerInputPayload(EncodedPlayerInputPayload(input)) = input
  /\ \A payload \in Seq(Byte) : DecodesPlayerInputPayload(payload) =>
        /\ DecodedPlayerInputPayload(payload) \in PlayerInputPayload
        /\ IsValidPlayerInput(DecodedPlayerInputPayload(payload))
        /\ EncodedPlayerInputPayload(DecodedPlayerInputPayload(payload)) = payload
BY InputRead, InputRewritten

\* The part of one player, wherever it is in a payload (AppendPlayerState,
\* ReadPlayerState).
LEMMA ReadsPlayerState ==
  ASSUME NEW state \in PlayerStateSnapshot
  PROVE  /\ Piece(EncodedPlayerState(state), PlayerStateSnapshotSize)
         /\ \A data : \A offset \in Nat : Holds(data, offset, EncodedPlayerState(state)) =>
                         DecodedPlayerState(data, offset) = state
<1> DEFINE w1 == WriteUint32(state.playerId)
           w2 == <<state.side>>
           w3 == WriteUint32(state.positionX)
           w4 == WriteUint32(state.positionY)
           w5 == WriteUint32(state.positionZ)
           w6 == WriteUint32(state.directionX)
           w7 == WriteUint32(state.directionY)
           p2 == w1 \o w2
           p3 == p2 \o w3
           p4 == p3 \o w4
           p5 == p4 \o w5
           p6 == p5 \o w6
           p7 == p6 \o w7
<1>1. /\ state.playerId \in Uint32 /\ state.side \in Byte
      /\ state.positionX \in Uint32 /\ state.positionY \in Uint32
      /\ state.positionZ \in Uint32
      /\ state.directionX \in Uint32 /\ state.directionY \in Uint32
      /\ state = [playerId |-> state.playerId, side |-> state.side,
                  positionX |-> state.positionX, positionY |-> state.positionY,
                  positionZ |-> state.positionZ,
                  directionX |-> state.directionX, directionY |-> state.directionY]
  BY DEF PlayerStateSnapshot
<1>2. Piece(w2, 1)
  BY <1>1 DEF Piece
<1>3. /\ Piece(w1, 4) /\ Piece(w2, 1) /\ Piece(w3, 4) /\ Piece(w4, 4) /\ Piece(w5, 4)
      /\ Piece(w6, 4) /\ Piece(w7, 4)
  BY <1>1, <1>2, ReadsUint32 DEF Piece
<1>4. EncodedPlayerState(state) = p7
  BY DEF EncodedPlayerState
<1>5. \A data : \A offset \in Nat :
         /\ Holds(data, offset, w1) => ReadUint32(data, offset) = state.playerId
         /\ Holds(data, offset, w3) => ReadUint32(data, offset) = state.positionX
         /\ Holds(data, offset, w4) => ReadUint32(data, offset) = state.positionY
         /\ Holds(data, offset, w5) => ReadUint32(data, offset) = state.positionZ
         /\ Holds(data, offset, w6) => ReadUint32(data, offset) = state.directionX
         /\ Holds(data, offset, w7) => ReadUint32(data, offset) = state.directionY
         /\ Holds(data, offset, w2) => ReadUint8(data, offset) = state.side
  BY <1>1, ReadsUint32, ReadsByte
<1> HIDE DEF w1, w2, w3, w4, w5, w6, w7, p2, p3, p4, p5, p6, p7
<1>6. /\ Piece(p2, 4 + 1)
      /\ \A data : \A offset \in Nat : Holds(data, offset, p2) =>
            Holds(data, offset, w1) /\ Holds(data, offset + 4, w2)
  BY <1>3, Appended DEF p2
<1>7. /\ Piece(p3, 5 + 4)
      /\ \A data : \A offset \in Nat : Holds(data, offset, p3) =>
            Holds(data, offset, p2) /\ Holds(data, offset + 5, w3)
  BY <1>3, <1>6, Appended DEF p3
<1>8. /\ Piece(p4, 9 + 4)
      /\ \A data : \A offset \in Nat : Holds(data, offset, p4) =>
            Holds(data, offset, p3) /\ Holds(data, offset + 9, w4)
  BY <1>3, <1>7, Appended DEF p4
<1>9. /\ Piece(p5, 13 + 4)
      /\ \A data : \A offset \in Nat : Holds(data, offset, p5) =>
            Holds(data, offset, p4) /\ Holds(data, offset + 13, w5)
  BY <1>3, <1>8, Appended DEF p5
<1>10. /\ Piece(p6, 17 + 4)
      /\ \A data : \A offset \in Nat : Holds(data, offset, p6) =>
            Holds(data, offset, p5) /\ Holds(data, offset + 17, w6)
  BY <1>3, <1>9, Appended DEF p6
<1>11. /\ Piece(p7, 21 + 4)
      /\ \A data : \A offset \in Nat : Holds(data, offset, p7) =>
            Holds(data, offset, p6) /\ Holds(data, offset + 21, w7)
  BY <1>3, <1>10, Appended DEF p7
<1>12. Piece(EncodedPlayerState(state), PlayerStateSnapshotSize)
  BY <1>4, <1>11 DEF PlayerStateSnapshotSize
<1>13. ASSUME NEW data, NEW offset \in Nat, Holds(data, offset, EncodedPlayerState(state))
       PROVE  DecodedPlayerState(data, offset) = state
  <2>1. /\ Holds(data, offset, w1) /\ Holds(data, offset + 4, w2)
        /\ Holds(data, offset + 5, w3) /\ Holds(data, offset + 9, w4)
        /\ Holds(data, offset + 13, w5) /\ Holds(data, offset + 17, w6)
        /\ Holds(data, offset + 21, w7)
    BY <1>4, <1>6, <1>7, <1>8, <1>9, <1>10, <1>11, <1>13
  <2>2. \A k \in Nat : offset + k \in Nat
    OBVIOUS
  <2>3. /\ ReadUint32(data, offset) = state.playerId
        /\ ReadUint32(data, offset + 5) = state.positionX
        /\ ReadUint32(data, offset + 9) = state.positionY
        /\ ReadUint32(data, offset + 13) = state.positionZ
        /\ ReadUint32(data, offset + 17) = state.directionX
        /\ ReadUint32(data, offset + 21) = state.directionY
        /\ ReadUint8(data, offset + 4) = state.side
    BY <1>5, <2>1, <2>2
  <2> QED
    BY <1>1, <2>3 DEF DecodedPlayerState
<1> QED
  BY <1>12, <1>13

\* The part before the players (AppendFixedWorldState, ReadFixedWorldState).
LEMMA ReadsWorldState ==
  ASSUME NEW snapshot \in WorldStateSnapshot, Len(snapshot.players) \in Uint16
  PROVE  /\ Piece(EncodedWorldState(snapshot), WorldStateSnapshotFixedPayloadSize)
         /\ \A data : Holds(data, 0, EncodedWorldState(snapshot)) =>
               /\ DecodedPlayerCount(data) = Len(snapshot.players)
               /\ [DecodedWorldStateSnapshotPayload(data) EXCEPT !.players = snapshot.players]
                     = snapshot
<1> DEFINE w1 == WriteUint64(snapshot.serverTick)
           w2 == WriteUint32(snapshot.roomId)
           w3 == <<snapshot.gamePlayState, snapshot.attackingSide, snapshot.winningSide>>
           w4 == WriteUint32(snapshot.gameRemainingSeconds)
           w5 == WriteUint32(snapshot.attackRoleSwitchRemainingSeconds)
           w6 == WriteUint32(snapshot.flameScore)
           w7 == WriteUint32(snapshot.frostScore)
           w8 == WriteUint16(Len(snapshot.players))
           p2 == w1 \o w2
           p3 == p2 \o w3
           p4 == p3 \o w4
           p5 == p4 \o w5
           p6 == p5 \o w6
           p7 == p6 \o w7
           p8 == p7 \o w8
<1>1. /\ snapshot.serverTick \in Uint64 /\ snapshot.roomId \in Uint32
      /\ snapshot.gamePlayState \in Byte /\ snapshot.attackingSide \in Byte
      /\ snapshot.winningSide \in Byte
      /\ snapshot.gameRemainingSeconds \in Uint32
      /\ snapshot.attackRoleSwitchRemainingSeconds \in Uint32
      /\ snapshot.flameScore \in Uint32 /\ snapshot.frostScore \in Uint32
      /\ snapshot =
           [serverTick |-> snapshot.serverTick, roomId |-> snapshot.roomId,
            gamePlayState |-> snapshot.gamePlayState,
            attackingSide |-> snapshot.attackingSide,
            winningSide |-> snapshot.winningSide,
            gameRemainingSeconds |-> snapshot.gameRemainingSeconds,
            attackRoleSwitchRemainingSeconds |-> snapshot.attackRoleSwitchRemainingSeconds,
            flameScore |-> snapshot.flameScore, frostScore |-> snapshot.frostScore,
            players |-> snapshot.players]
  BY DEF WorldStateSnapshot
<1>2. Piece(w3, 3)
  BY <1>1 DEF Piece
<1>3. /\ Piece(w1, 8) /\ Piece(w2, 4) /\ Piece(w3, 3) /\ Piece(w4, 4) /\ Piece(w5, 4)
      /\ Piece(w6, 4) /\ Piece(w7, 4) /\ Piece(w8, 2)
  BY <1>1, <1>2, ReadsUint16, ReadsUint32, ReadsUint64 DEF Piece
<1>4. EncodedWorldState(snapshot) = p8
  BY DEF EncodedWorldState
<1>5. \A data : \A offset \in Nat :
         /\ Holds(data, offset, w1) =>
              ReadUint64(data, offset) = snapshot.serverTick
         /\ Holds(data, offset, w2) =>
              ReadUint32(data, offset) = snapshot.roomId
         /\ Holds(data, offset, w4) =>
              ReadUint32(data, offset) = snapshot.gameRemainingSeconds
         /\ Holds(data, offset, w5) =>
              ReadUint32(data, offset) = snapshot.attackRoleSwitchRemainingSeconds
         /\ Holds(data, offset, w6) =>
              ReadUint32(data, offset) = snapshot.flameScore
         /\ Holds(data, offset, w7) =>
              ReadUint32(data, offset) = snapshot.frostScore
         /\ Holds(data, offset, w8) =>
              ReadUint16(data, offset) = Len(snapshot.players)
         /\ Holds(data, offset, w3) =>
              /\ ReadUint8(data, offset) = snapshot.gamePlayState
              /\ ReadUint8(data, offset + 1) = snapshot.attackingSide
              /\ ReadUint8(data, offset + 2) = snapshot.winningSide
  <2>1. ASSUME NEW data, NEW offset \in Nat, Holds(data, offset, w3)
        PROVE  /\ ReadUint8(data, offset) = snapshot.gamePlayState
               /\ ReadUint8(data, offset + 1) = snapshot.attackingSide
               /\ ReadUint8(data, offset + 2) = snapshot.winningSide
    BY <2>1 DEF Holds, ReadUint8
  <2> QED
    BY <1>1, <2>1, ReadsUint16, ReadsUint32, ReadsUint64
<1> HIDE DEF w1, w2, w3, w4, w5, w6, w7, w8, p2, p3, p4, p5, p6, p7, p8
<1>6. /\ Piece(p2, 8 + 4)
      /\ \A data : \A offset \in Nat : Holds(data, offset, p2) =>
            Holds(data, offset, w1) /\ Holds(data, offset + 8, w2)
  BY <1>3, Appended DEF p2
<1>7. /\ Piece(p3, 12 + 3)
      /\ \A data : \A offset \in Nat : Holds(data, offset, p3) =>
            Holds(data, offset, p2) /\ Holds(data, offset + 12, w3)
  BY <1>3, <1>6, Appended DEF p3
<1>8. /\ Piece(p4, 15 + 4)
      /\ \A data : \A offset \in Nat : Holds(data, offset, p4) =>
            Holds(data, offset, p3) /\ Holds(data, offset + 15, w4)
  BY <1>3, <1>7, Appended DEF p4
<1>9. /\ Piece(p5, 19 + 4)
      /\ \A data : \A offset \in Nat : Holds(data, offset, p5) =>
            Holds(data, offset, p4) /\ Holds(data, offset + 19, w5)
  BY <1>3, <1>8, Appended DEF p5
<1>10. /\ Piece(p6, 23 + 4)
      /\ \A data : \A offset \in Nat : Holds(data, offset, p6) =>
            Holds(data, offset, p5) /\ Holds(data, offset + 23, w6)
  BY <1>3, <1>9, Appended DEF p6
<1>11. /\ Piece(p7, 27 + 4)
      /\ \A data : \A offset \in Nat : Holds(data, offset, p7) =>
            Holds(data, offset, p6) /\ Holds(data, offset + 27, w7)
  BY <1>3, <1>10, Appended DEF p7
<1>12. /\ Piece(p8, 31 + 2)
      /\ \A data : \A offset \in Nat : Holds(data, offset, p8) =>
            Holds(data, offset, p7) /\ Holds(data, offset + 31, w8)
  BY <1>3, <1>11, Appended DEF p8
<1>13. Piece(EncodedWorldState(snapshot), WorldStateSnapshotFixedPayloadSize)
  BY <1>4, <1>12 DEF WorldStateSnapshotFixedPayloadSize
<1>14. ASSUME NEW data, Holds(data, 0, EncodedWorldState(snapshot))
       PROVE  /\ DecodedPlayerCount(data) = Len(snapshot.players)
              /\ [DecodedWorldStateSnapshotPayload(data) EXCEPT !.players = snapshot.players]
                    = snapshot
  <2>1. /\ Holds(data, 0, w1) /\ Holds(data, 0 + 8, w2)
        /\ Holds(data, 0 + 12, w3) /\ Holds(data, 0 + 15, w4)
        /\ Holds(data, 0 + 19, w5) /\ Holds(data, 0 + 23, w6)
        /\ Holds(data, 0 + 27, w7) /\ Holds(data, 0 + 31, w8)
    BY <1>4, <1>6, <1>7, <1>8, <1>9, <1>10, <1>11, <1>12, <1>14
  <2>2. /\ ReadUint64(data, 0) = snapshot.serverTick
        /\ ReadUint32(data, 8) = snapshot.roomId
        /\ ReadUint32(data, 15) = snapshot.gameRemainingSeconds
        /\ ReadUint32(data, 19) = snapshot.attackRoleSwitchRemainingSeconds
        /\ ReadUint32(data, 23) = snapshot.flameScore
        /\ ReadUint32(data, 27) = snapshot.frostScore
        /\ ReadUint16(data, 31) = Len(snapshot.players)
        /\ ReadUint8(data, 12) = snapshot.gamePlayState
        /\ ReadUint8(data, 13) = snapshot.attackingSide
        /\ ReadUint8(data, 14) = snapshot.winningSide
    BY <1>5, <2>1
  <2> QED
    BY <1>1, <2>2 DEF DecodedPlayerCount, DecodedWorldStateSnapshotPayload
<1> QED
  BY <1>13, <1>14

\* The parts of the players, one after the other.
LEMMA ReadsPlayerStates ==
  ASSUME NEW players \in Seq(PlayerStateSnapshot)
  PROVE  LET states == EncodedPlayerStates(players)
         IN  /\ Piece(states, Len(players) * PlayerStateSnapshotSize)
             /\ \A data : \A offset \in Nat : Holds(data, offset, states) =>
                   \A i \in 1 .. Len(players) :
                      DecodedPlayerState(data, offset + (i - 1) * PlayerStateSnapshotSize)
                         = players[i]
<1> DEFINE states == EncodedPlayerStates(players)
           part(i) == EncodedPlayerState(players[i])
<1>1. \A i \in 1 .. Len(players) : players[i] \in PlayerStateSnapshot
  OBVIOUS
<1>2. \A i \in 1 .. Len(players) : part(i) \in Seq(Byte) /\ Len(part(i)) = 25
  BY <1>1, ReadsPlayerState DEF Piece, PlayerStateSnapshotSize
<1>3. \A i \in 1 .. Len(players) : \A j \in 1 .. 25 : part(i)[j] \in Byte
  <2>1. \A s \in Seq(Byte) : \A j \in 1 .. Len(s) : s[j] \in Byte
    OBVIOUS
  <2> HIDE DEF part
  <2> QED
    BY <1>2, <2>1
<1>4. \A k \in 1 .. Len(players) * 25 :
         (k - 1) \div 25 + 1 \in 1 .. Len(players) /\ ((k - 1) % 25) + 1 \in 1 .. 25
  OBVIOUS
<1>5. states = [k \in 1 .. Len(players) * 25 |->
                  part((k - 1) \div 25 + 1)[((k - 1) % 25) + 1]]
  BY DEF EncodedPlayerStates, PlayerStateSnapshotSize
<1>6. Piece(states, Len(players) * PlayerStateSnapshotSize)
  <2>1. Len(players) * 25 \in Nat
    OBVIOUS
  <2>2. states \in [1 .. Len(players) * 25 -> Byte]
    BY <1>3, <1>4, <1>5
  <2> QED
    BY <2>1, <2>2 DEF Piece, PlayerStateSnapshotSize
<1>7. ASSUME NEW data, NEW offset \in Nat, Holds(data, offset, states),
             NEW i \in 1 .. Len(players)
      PROVE  DecodedPlayerState(data, offset + (i - 1) * PlayerStateSnapshotSize) = players[i]
  <2>1. Len(states) = Len(players) * 25
    BY <1>6 DEF Piece, PlayerStateSnapshotSize
  <2>2. ASSUME NEW j \in 1 .. 25
        PROVE  data[offset + (i - 1) * 25 + j] = part(i)[j]
    <3> DEFINE k == (i - 1) * 25 + j
    <3>1. k \in 1 .. Len(players) * 25 /\ (k - 1) \div 25 + 1 = i /\ ((k - 1) % 25) + 1 = j
      OBVIOUS
    <3>2. states[k] = part(i)[j]
      BY <1>5, <3>1
    <3>3. data[offset + k] = states[k]
      BY <1>7, <2>1, <3>1 DEF Holds
    <3>4. offset + k = offset + (i - 1) * 25 + j
      OBVIOUS
    <3> QED
      BY <3>2, <3>3, <3>4
  <2>3. Holds(data, offset + (i - 1) * 25, part(i))
    BY <1>2, <2>2 DEF Holds
  <2>4. offset + (i - 1) * 25 \in Nat
    OBVIOUS
  <2> QED
    BY <1>1, <2>3, <2>4, ReadsPlayerState DEF PlayerStateSnapshotSize
<1> QED
  BY <1>6, <1>7

\* The world a client draws is the one the server simulated: a snapshot that is
\* accepted for sending fits a message and is decoded to itself, players in the
\* same order (TryEncodeWorldStateSnapshotPayload,
\* TryDecodeWorldStateSnapshotPayload).
THEOREM SnapshotRoundTrip ==
  ASSUME NEW snapshot \in WorldStateSnapshot, EncodesWorldStateSnapshotPayload(snapshot)
  PROVE  LET payload == EncodedWorldStateSnapshotPayload(snapshot)
         IN  /\ EncodesMessage(payload)
             /\ DecodesWorldStateSnapshotPayload(payload)
             /\ DecodedWorldStateSnapshotPayload(payload) = snapshot
<1> DEFINE payload == EncodedWorldStateSnapshotPayload(snapshot)
           players == snapshot.players
           world == EncodedWorldState(snapshot)
           states == EncodedPlayerStates(players)
           decoded == DecodedWorldStateSnapshotPayload(payload)
<1>1. players \in Seq(PlayerStateSnapshot) /\ Len(players) \in Nat
  BY DEF WorldStateSnapshot
<1>2. 37 + Len(players) * 25 <= MaxMessageSize
  <2>1. Len(players) <= (MaxMessageSize - 37) \div 25
    BY DEF EncodesWorldStateSnapshotPayload, MaxWorldStateSnapshotPlayerCount,
           MessageHeaderSize, WorldStateSnapshotFixedPayloadSize, PlayerStateSnapshotSize
  <2>2. MaxMessageSize \in Int
    BY CodecAssumption, Widths DEF Uint16
  <2> QED
    BY <1>1, <2>1, <2>2
<1>3. Len(players) \in Uint16
  BY <1>1, <1>2, CodecAssumption, Widths DEF Uint16
<1>4. /\ Piece(world, 33)
      /\ \A data : Holds(data, 0, world) =>
            /\ DecodedPlayerCount(data) = Len(players)
            /\ [DecodedWorldStateSnapshotPayload(data) EXCEPT !.players = players] = snapshot
  BY <1>3, ReadsWorldState DEF WorldStateSnapshotFixedPayloadSize
<1>5. /\ Piece(states, Len(players) * 25)
      /\ \A data : \A offset \in Nat : Holds(data, offset, states) =>
            \A i \in 1 .. Len(players) :
               DecodedPlayerState(data, offset + (i - 1) * 25) = players[i]
  BY <1>1, ReadsPlayerStates DEF PlayerStateSnapshotSize
<1>6. payload = world \o states
  BY DEF EncodedWorldStateSnapshotPayload
<1> HIDE DEF world, states, payload, players
<1>7. /\ Piece(payload, 33 + Len(players) * 25)
      /\ \A data : \A offset \in Nat : Holds(data, offset, payload) =>
            Holds(data, offset, world) /\ Holds(data, offset + 33, states)
  <2>1. \A m \in Nat : Piece(states, m) =>
           /\ Piece(payload, 33 + m)
           /\ \A data : \A offset \in Nat : Holds(data, offset, payload) =>
                 Holds(data, offset, world) /\ Holds(data, offset + 33, states)
    BY <1>4, <1>6, Appended
  <2>2. Len(players) * 25 \in Nat
    BY <1>1
  <2> QED
    BY <1>5, <2>1, <2>2
<1>8. 33 + Len(players) * 25 \in Nat
  BY <1>1
<1>9. Holds(payload, 0, payload)
  BY <1>7, <1>8, HoldsAll
<1>10. Holds(payload, 0, world) /\ Holds(payload, 0 + 33, states)
  BY <1>7, <1>9
<1>11. /\ DecodedPlayerCount(payload) = Len(players)
       /\ [decoded EXCEPT !.players = players] = snapshot
  BY <1>4, <1>10
<1>12. \A i \in 1 .. Len(players) : DecodedPlayerState(payload, 33 + (i - 1) * 25) = players[i]
  BY <1>5, <1>10
<1>13. decoded = snapshot
  <2>1. decoded.players = [i \in 1 .. Len(players) |->
                              DecodedPlayerState(payload, 33 + (i - 1) * 25)]
    BY <1>11 DEF DecodedWorldStateSnapshotPayload,
                 WorldStateSnapshotFixedPayloadSize, PlayerStateSnapshotSize
  <2>2. decoded.players = players
    BY <1>1, <1>12, <2>1
  <2> QED
    BY <1>11, <2>2 DEF DecodedWorldStateSnapshotPayload
<1>14. Len(payload) = 33 + Len(players) * 25
  BY <1>7 DEF Piece
<1>15. EncodesMessage(payload)
  <2>1. \A length \in Nat : 37 + length * 25 <= MaxMessageSize =>
           4 + (33 + length * 25) <= MaxMessageSize
    BY CodecAssumption, Widths DEF Uint16
  <2> QED
    BY <1>1, <1>2, <1>14, <2>1 DEF EncodesMessage, MessageHeaderSize
<1>16. DecodesWorldStateSnapshotPayload(payload)
  <2>1. 33 + Len(players) * 25 >= 33
    BY <1>1
  <2>2. Len(players) <= MaxWorldStateSnapshotPlayerCount
    BY DEF EncodesWorldStateSnapshotPayload, players
  <2> QED
    BY <1>11, <1>13, <1>14, <2>1, <2>2 DEF DecodesWorldStateSnapshotPayload,
       WorldStateSnapshotFixedPayloadSize, PlayerStateSnapshotSize
<1> QED
  BY <1>13, <1>15, <1>16 DEF payload

=============================================================================
