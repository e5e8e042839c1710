------------------------------- MODULE Codec -------------------------------
(***************************************************************************)
(* How messages become bytes and bytes messages.  A function of the code   *)
(* that returns bool and fills an output parameter is two operators here:  *)
(* Encodes... or Decodes... for the result, Encoded... or Decoded... for   *)
(* the output when the result is true.  A float is its bit pattern.        *)
(***************************************************************************)
EXTENDS Integers, Sequences

CONSTANTS
    Base,                       \* values of a byte
    MaxMessageSize,             \* largest size of a message
    MaxPlayerInputAxisRawValue, \* largest input on an axis
    NonFinite,                  \* bit patterns of floats that are not finite
    Negative                    \* bit patterns of the floats below zero

HalfWord == (Base * Base) \div 2
Word == Base * Base             \* values of a uint16
Long == Word * Word             \* values of a uint32
Quad == Long * Long             \* values of a uint64

Byte == 0 .. Base - 1
Uint16 == 0 .. Word - 1
Int16 == -HalfWord .. HalfWord - 1
Uint32 == 0 .. Long - 1
Uint64 == 0 .. Quad - 1

MessageHeaderSize == 4

ASSUME CodecAssumption ==
    /\ Base \in Nat /\ Base > 2 /\ Base % 2 = 0
    /\ MaxMessageSize \in Uint16
    /\ MaxPlayerInputAxisRawValue \in 0 .. HalfWord - 1
    /\ NonFinite \subseteq Uint32 /\ Negative \subseteq Uint32

-----------------------------------------------------------------------------
(* Integers, the most significant byte first.                              *)

WriteUint16(value) == <<value \div Base, value % Base>>
WriteUint32(value) == WriteUint16(value \div Word) \o WriteUint16(value % Word)
WriteUint64(value) == WriteUint32(value \div Long) \o WriteUint32(value % Long)

ReadUint8(data, offset) == data[offset + 1]
ReadUint16(data, offset) == data[offset + 1] * Base + data[offset + 2]
ReadUint32(data, offset) ==
    ReadUint16(data, offset) * Word + ReadUint16(data, offset + 2)
ReadUint64(data, offset) ==
    ReadUint32(data, offset) * Long + ReadUint32(data, offset + 4)

\* std::bit_cast between the two's complement int16 and the uint16.
ToUint16(value) == IF value < 0 THEN value + Word ELSE value
ToInt16(value) == IF value < HalfWord THEN value ELSE value - Word

-----------------------------------------------------------------------------
(* The header, and a whole message.                                        *)

MessageHeader == [size : Uint16, type : Uint16]

EncodeMessageHeader(header) == WriteUint16(header.size) \o WriteUint16(header.type)

DecodesMessageHeader(data) == Len(data) >= MessageHeaderSize
DecodedMessageHeader(data) == [size |-> ReadUint16(data, 0), type |-> ReadUint16(data, 2)]

EncodesMessage(payload) == MessageHeaderSize + Len(payload) <= MaxMessageSize
EncodedMessage(type, payload) ==
    EncodeMessageHeader([size |-> MessageHeaderSize + Len(payload), type |-> type]) \o payload

-----------------------------------------------------------------------------
(* The payloads of a ping, a pong, an identity and an input.               *)

PingPayload == [clientPingTxTimestampNanoseconds : Uint64]

EncodedPingPayload(ping) == WriteUint64(ping.clientPingTxTimestampNanoseconds)
DecodesPingPayload(payload) == Len(payload) = 8
DecodedPingPayload(payload) ==
    [clientPingTxTimestampNanoseconds |-> ReadUint64(payload, 0)]

PlayerIdentityPayload == [roomId : Uint32, playerId : Uint32]

EncodesPlayerIdentityPayload(identity) == identity.roomId # 0 /\ identity.playerId # 0
EncodedPlayerIdentityPayload(identity) ==
    WriteUint32(identity.roomId) \o WriteUint32(identity.playerId)
DecodedPlayerIdentityPayload(payload) ==
    [roomId |-> ReadUint32(payload, 0), playerId |-> ReadUint32(payload, 4)]
DecodesPlayerIdentityPayload(payload) ==
    /\ Len(payload) = 8
    /\ EncodesPlayerIdentityPayload(DecodedPlayerIdentityPayload(payload))

PlayerInputPayload == [moveX : Int16, moveY : Int16, moveZ : Int16, dash : BOOLEAN]

IsValidPlayerInputAxisRawValue(value) ==
    value \in -MaxPlayerInputAxisRawValue .. MaxPlayerInputAxisRawValue
IsValidPlayerInput(input) ==
    /\ IsValidPlayerInputAxisRawValue(input.moveX)
    /\ IsValidPlayerInputAxisRawValue(input.moveY)
    /\ IsValidPlayerInputAxisRawValue(input.moveZ)

EncodedPlayerInputPayload(input) ==
    WriteUint16(ToUint16(input.moveX)) \o WriteUint16(ToUint16(input.moveY)) \o
    WriteUint16(ToUint16(input.moveZ)) \o <<IF input.dash THEN 1 ELSE 0>>
DecodedPlayerInputPayload(payload) ==
    [moveX |-> ToInt16(ReadUint16(payload, 0)),
     moveY |-> ToInt16(ReadUint16(payload, 2)),
     moveZ |-> ToInt16(ReadUint16(payload, 4)),
     dash |-> ReadUint8(payload, 6) # 0]
DecodesPlayerInputPayload(payload) ==
    /\ Len(payload) = 7
    /\ IsValidPlayerInput(DecodedPlayerInputPayload(payload))
    /\ ReadUint8(payload, 6) <= 1

-----------------------------------------------------------------------------
(* The payload of a snapshot: a fixed part, then one part for each player. *)

WorldStateSnapshotFixedPayloadSize == 33
PlayerStateSnapshotSize == 25
MaxWorldStateSnapshotPlayerCount ==
    (MaxMessageSize - (MessageHeaderSize + WorldStateSnapshotFixedPayloadSize)) \div
        PlayerStateSnapshotSize

Floats == {"positionX", "positionY", "positionZ", "directionX", "directionY"}
PlayerStateSnapshot ==
    [playerId : Uint32, side : Byte, positionX : Uint32, positionY : Uint32,
     positionZ : Uint32, directionX : Uint32, directionY : Uint32]
WorldStateSnapshot ==
    [serverTick : Uint64, roomId : Uint32, gamePlayState : Byte, attackingSide : Byte,
     winningSide : Byte, gameRemainingSeconds : Uint32,
     attackRoleSwitchRemainingSeconds : Uint32, flameScore : Uint32, frostScore : Uint32,
     players : Seq(PlayerStateSnapshot)]

\* Waiting, Playing, Finished and None, Flame, Frost have the values 0, 1, 2.
IsValidState(value) == value \in 0 .. 2
IsValidPlayerStateSnapshot(state) ==
    /\ state.playerId # 0
    /\ state.side \in 1 .. 2
    /\ \A float \in Floats : state[float] \notin NonFinite
IsValidWorldState(snapshot) ==
    /\ snapshot.serverTick # 0 /\ snapshot.roomId # 0
    /\ IsValidState(snapshot.gamePlayState)
    /\ IsValidState(snapshot.attackingSide)
    /\ IsValidState(snapshot.winningSide)
    /\ snapshot.gameRemainingSeconds \notin NonFinite \cup Negative
    /\ snapshot.attackRoleSwitchRemainingSeconds \notin NonFinite \cup Negative

EncodedPlayerState(state) ==
    WriteUint32(state.playerId) \o <<state.side>> \o
    WriteUint32(state.positionX) \o WriteUint32(state.positionY) \o
    WriteUint32(state.positionZ) \o WriteUint32(state.directionX) \o
    WriteUint32(state.directionY)

\* Byte k of the players' parts is in the part of one of them.
EncodedPlayerStates(players) ==
    [k \in 1 .. Len(players) * PlayerStateSnapshotSize |->
        EncodedPlayerState(players[(k - 1) \div PlayerStateSnapshotSize + 1])
            [((k - 1) % PlayerStateSnapshotSize) + 1]]

EncodedWorldState(snapshot) ==
    WriteUint64(snapshot.serverTick) \o WriteUint32(snapshot.roomId) \o
    <<snapshot.gamePlayState, snapshot.attackingSide, snapshot.winningSide>> \o
    WriteUint32(snapshot.gameRemainingSeconds) \o
    WriteUint32(snapshot.attackRoleSwitchRemainingSeconds) \o
    WriteUint32(snapshot.flameScore) \o WriteUint32(snapshot.frostScore) \o
    WriteUint16(Len(snapshot.players))

EncodesWorldStateSnapshotPayload(snapshot) ==
    /\ IsValidWorldState(snapshot)
    /\ Len(snapshot.players) <= MaxWorldStateSnapshotPlayerCount
    /\ \A i \in DOMAIN snapshot.players : IsValidPlayerStateSnapshot(snapshot.players[i])
EncodedWorldStateSnapshotPayload(snapshot) ==
    EncodedWorldState(snapshot) \o EncodedPlayerStates(snapshot.players)

DecodedPlayerState(payload, offset) ==
    [playerId |-> ReadUint32(payload, offset), side |-> ReadUint8(payload, offset + 4),
     positionX |-> ReadUint32(payload, offset + 5),
     positionY |-> ReadUint32(payload, offset + 9),
     positionZ |-> ReadUint32(payload, offset + 13),
     directionX |-> ReadUint32(payload, offset + 17),
     directionY |-> ReadUint32(payload, offset + 21)]

DecodedPlayerCount(payload) == ReadUint16(payload, 31)
DecodedWorldStateSnapshotPayload(payload) ==
    [serverTick |-> ReadUint64(payload, 0), roomId |-> ReadUint32(payload, 8),
     gamePlayState |-> ReadUint8(payload, 12), attackingSide |-> ReadUint8(payload, 13),
     winningSide |-> ReadUint8(payload, 14),
     gameRemainingSeconds |-> ReadUint32(payload, 15),
     attackRoleSwitchRemainingSeconds |-> ReadUint32(payload, 19),
     flameScore |-> ReadUint32(payload, 23), frostScore |-> ReadUint32(payload, 27),
     players |->
        [i \in 1 .. DecodedPlayerCount(payload) |->
            DecodedPlayerState(payload, WorldStateSnapshotFixedPayloadSize +
                                            (i - 1) * PlayerStateSnapshotSize)]]

\* The players are read only when the size is what their number makes it.
DecodesWorldStateSnapshotPayload(payload) ==
    /\ Len(payload) >= WorldStateSnapshotFixedPayloadSize
    /\ DecodedPlayerCount(payload) <= MaxWorldStateSnapshotPlayerCount
    /\ Len(payload) = WorldStateSnapshotFixedPayloadSize +
                          DecodedPlayerCount(payload) * PlayerStateSnapshotSize
    /\ EncodesWorldStateSnapshotPayload(DecodedWorldStateSnapshotPayload(payload))

=============================================================================
