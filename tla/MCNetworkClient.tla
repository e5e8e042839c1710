--------------------------- MODULE MCNetworkClient ---------------------------
(***************************************************************************)
(* NetworkClient for TLC.  Sizes keep the order of the encoded ones: a     *)
(* player input (16 bytes) is larger than a ping (12 bytes).  The codec is *)
(* evaluated here too, for bytes of few values: every boundary of the      *)
(* widths, and snapshots of zero to two players.                           *)
(***************************************************************************)
EXTENDS NetworkClient, Codec

MCMessageSize == [type \in SendableTypes |-> IF type = "PlayerInput" THEN 2 ELSE 1]

\* Values at the edges of a byte and of each width.
Edges == {0, 1, Base - 1, Base, Base + 1, Word - 1, Word, Word + 1, Long - 1}
LongEdges == Edges \cup {Long, Long + 1, Long * Base + 5, Quad - 1}

States(ids, floats) ==
    [playerId : ids, side : 0 .. 3, positionX : floats, positionY : {0, Long - 1},
     positionZ : {3}, directionX : {1}, directionY : floats]

Snapshots ==
    [serverTick : {0, 1, Quad - 1}, roomId : {0, Long - 1}, gamePlayState : {0, 2, 3},
     attackingSide : {1, 3}, winningSide : {0, 3}, gameRemainingSeconds : {0, 5, 7},
     attackRoleSwitchRemainingSeconds : {9}, flameScore : {Long - 1}, frostScore : {2},
     players : {<<>>} \cup {<<p>> : p \in States({0, Base}, {4, 5})} \cup
               {<<p, q>> : p \in States({1}, {4}), q \in States({Long - 1}, {5, 6})}]

ASSUME IntegersRoundTrip ==
    /\ \A v \in LongEdges : ReadUint64(<<0>> \o WriteUint64(v), 1) = v
    /\ \A v \in Edges : ReadUint32(<<0>> \o WriteUint32(v), 1) = v
    /\ \A v \in Uint16 : ReadUint16(WriteUint16(v), 0) = v
    /\ \A v \in Int16 : ToInt16(ToUint16(v)) = v

ASSUME SnapshotsRoundTrip ==
    \A snapshot \in Snapshots :
        LET payload == EncodedWorldStateSnapshotPayload(snapshot)
        IN  /\ EncodesWorldStateSnapshotPayload(snapshot) =
                   DecodesWorldStateSnapshotPayload(payload)
            /\ EncodesWorldStateSnapshotPayload(snapshot) =>
                   /\ DecodedWorldStateSnapshotPayload(payload) = snapshot
                   /\ EncodesMessage(payload)

=============================================================================
