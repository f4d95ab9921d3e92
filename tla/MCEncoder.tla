------------------------------ MODULE MCEncoder ------------------------------
(***************************************************************************)
(* Instances of the encoder.  A frame of the tight context has room for    *)
(* two payload bytes; one of the wide context has room for a message of 22 *)
(* bytes or for two short ones, and is padded below 40.                    *)
(***************************************************************************)
EXTENDS CmpEncoderProps

P(id, type, length) ==
    [id |-> id, version |-> 1, messageType |-> type, payloadType |-> 1,
     errorInPayload |-> FALSE, payloadLength |-> length]

None == P("none", "data", 0)
Byte == P("byte", "data", 1)
Long == P("long", "data", 6)
Huge == P("huge", "data", 45)
Stat == P("stat", "status", 3)

MCIds == {"none", "byte", "long", "huge", "stat"}
Tight == [minBytesPerMessage |-> 0, maxBytesPerMessage |-> 26]
Wide == [minBytesPerMessage |-> 40, maxBytesPerMessage |-> 46]

SomePackets == {None, Byte, Long, Huge, Stat}
AllContexts == {Tight, Wide}
AllRequests == BoundedSeq(SomePackets, 3)

\* Requests in which every packet has a payload, of one message type.
PlainPackets == {Byte, Long}
PlainRequests == BoundedSeq(PlainPackets, 2) \ {<<>>}

\* Requests of two message types.
TypedPackets == {Byte, Stat}
TypedRequests == BoundedSeq(TypedPackets, 2) \ {<<>>}
=============================================================================
