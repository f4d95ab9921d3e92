------------------------------ MODULE CmpDecoder ------------------------------
(***************************************************************************)
(* ASAM::CMP::Decoder.  One call of decode() handles one datagram: it      *)
(* walks the data messages behind the CMP header, returns the packets it   *)
(* completes and keeps, for each endpoint (device, stream), at most one    *)
(* segmented packet under assembly.  The decoder object is not shared      *)
(* between threads, so a call is a run of its own steps: Decode opens it,  *)
(* one action per branch of the loop body handles one data message, and    *)
(* Return closes it.                                                       *)
(***************************************************************************)
EXTENDS CmpMessages

CONSTANTS
    DeviceId, StreamId,     \* the endpoints on the network
    Version,                \* non-zero CMP versions
    MessageType,            \* CMP message types
    Data,                   \* opaque payload contents
    Datagrams,              \* the datagrams the network may hand over
    NoFrame                 \* decode() is not running

Endpoint == DeviceId \X StreamId

(***************************************************************************)
(* A data message as it lies in a frame: the fields of its header that the *)
(* decoder reads, and its payload.  payloadType 0 is the undefined type.   *)
(***************************************************************************)
MessageHeader ==
    [segmentType: SegmentType, payloadLength: Length, errorInPayload: BOOLEAN,
     payloadType: Nat, data: Data]

(***************************************************************************)
(* A datagram of "size" bytes.  "body" lists the data messages from the    *)
(* CMP header on; bytes behind them are zero.  When size is smaller than   *)
(* header and body together the datagram is truncated.                     *)
(***************************************************************************)
Frame ==
    [version: Version \cup {0}, deviceId: DeviceId, streamId: StreamId,
     messageType: MessageType, sequenceCounter: Counter, size: Nat,
     body: Seq(MessageHeader)]

ASSUME VersionAssumption == Version \subseteq Nat \ {0}
ASSUME DatagramsAssumption == Datagrams \subseteq Frame
ASSUME NoFrameAssumption == NoFrame \notin Frame

\* What the decoder reads in the zeros behind the last data message.
Padding ==
    [segmentType |-> "unsegmented", payloadLength |-> 0,
     errorInPayload |-> FALSE, payloadType |-> 0]

(***************************************************************************)
(* A run of payload bytes: "length" bytes that a message header announced, *)
(* followed by "trailing" bytes of its frame that no header announced.     *)
(***************************************************************************)
Piece == [data: Data, length: Length, trailing: Nat]

SegmentedPacket ==
    [payload: Seq(Piece), payloadSize: Nat, payloadLength: Length,
     segmentType: SegmentType, curVersion: Version \cup {0},
     curMessageType: MessageType \cup {"undefined"}, curSegment: Counter]

\* SegmentedPacket() as operator[] creates it for an absent endpoint.
DefaultSegmentedPacket ==
    [payload |-> <<>>, payloadSize |-> 0, payloadLength |-> 0,
     segmentType |-> "unsegmented", curVersion |-> 0,
     curMessageType |-> "undefined", curSegment |-> 0]

Packet ==
    [version: Version, deviceId: DeviceId, streamId: StreamId,
     messageType: MessageType, segmentFlags: SegmentType,
     payloadLength: Length, payload: Seq(Piece)]

VARIABLES
    segmentedPackets,   \* endpoint -> packet under assembly (partial)
    frame,              \* the datagram being decoded, or NoFrame
    body,               \* its messages not handled yet (packetPtr)
    curSize,            \* bytes of it not handled yet
    packets             \* the packets this call returns

vars == <<segmentedPackets, frame, body, curSize, packets>>

TypeOK ==
    /\ DOMAIN segmentedPackets \subseteq Endpoint
    /\ \A e \in DOMAIN segmentedPackets : segmentedPackets[e] \in SegmentedPacket
    /\ frame \in Frame \cup {NoFrame}
    /\ body \in Seq(MessageHeader)
    /\ curSize \in Nat
    /\ packets \in Seq(Packet)

Init ==
    /\ segmentedPackets = [e \in {} |-> DefaultSegmentedPacket]
    /\ frame = NoFrame
    /\ body = <<>>
    /\ curSize = 0
    /\ packets = <<>>
-----------------------------------------------------------------------------
\* Mutant of Erase: clear().
EraseAll(map, key) == [k \in {} |-> map[k]]

\* std::unordered_map: erase(key), m[key] = value, and reading m[key].
Erase(map, key) == [k \in DOMAIN map \ {key} |-> map[k]]
Put(map, key, value) ==
    [k \in DOMAIN map \cup {key} |-> IF k = key THEN value ELSE map[k]]
At(map, key) ==
    IF key \in DOMAIN map THEN map[key] ELSE DefaultSegmentedPacket

\* Mutant of endpoint: the stream is ignored.
endpointOfDevice == <<frame.deviceId, CHOOSE x \in StreamId : TRUE>>

endpoint == <<frame.deviceId, frame.streamId>>

\* The message at packetPtr.
message == IF body = <<>> THEN Padding ELSE Head(body)

IsValidPacket(m, size) ==
    /\ size >= MessageHeaderSize
    /\ m.payloadLength <= size - MessageHeaderSize
    /\ ~ m.errorInPayload
    /\ m.payloadType # 0

\* The SegmentedPacket constructor: it keeps the whole rest of the frame.
FirstSegment(m, size, f) ==
    [payload |-> << [data |-> m.data, length |-> m.payloadLength,
                     trailing |-> size - MessageHeaderSize - m.payloadLength] >>,
     payloadSize |-> size - MessageHeaderSize,
     payloadLength |-> m.payloadLength,
     segmentType |-> "firstSegment",
     curVersion |-> f.version,
     curMessageType |-> f.messageType,
     curSegment |-> f.sequenceCounter]

ValidSegmentTypes(type) ==
    IF type \in {"unsegmented", "lastSegment"}
        THEN {"unsegmented", "firstSegment"}
        ELSE {"intermediarySegment", "lastSegment"}

\* Mutants of CanAddSegment: the counter is not checked; it may only grow.
CanAddSegmentAnyCounter(s, m, size, f) ==
    /\ s.curVersion = f.version
    /\ s.curMessageType = f.messageType
    /\ m.payloadLength <= size - MessageHeaderSize
    /\ m.segmentType \in ValidSegmentTypes(s.segmentType)
CanAddSegmentLaterCounter(s, m, size, f) ==
    /\ CanAddSegmentAnyCounter(s, m, size, f)
    /\ f.sequenceCounter > s.curSegment

\* The checks of addSegment.  curSegment + 1 is computed in int: no wrap.
CanAddSegment(s, m, size, f) ==
    /\ s.curVersion = f.version
    /\ s.curMessageType = f.messageType
    /\ f.sequenceCounter = s.curSegment + 1
    /\ m.payloadLength <= size - MessageHeaderSize
    /\ m.segmentType \in ValidSegmentTypes(s.segmentType)

\* Mutants of AddSegment: the length does not wrap; it is the last segment's.
AddSegmentWide(s, m) ==
    [s EXCEPT !.payload = Append(@, [data |-> m.data, length |-> m.payloadLength,
                                     trailing |-> 0]),
              !.payloadSize = @ + m.payloadLength,
              !.payloadLength = s.payloadSize + m.payloadLength,
              !.curSegment = NextCounter(@),
              !.segmentType = m.segmentType]
AddSegmentLastLength(s, m) ==
    [AddSegmentWide(s, m) EXCEPT !.payloadLength = m.payloadLength]

\* What addSegment makes of the entry when the checks pass.
AddSegment(s, m) ==
    [s EXCEPT !.payload = Append(@, [data |-> m.data, length |-> m.payloadLength,
                                     trailing |-> 0]),
              !.payloadSize = @ + m.payloadLength,
              !.payloadLength = (s.payloadSize + m.payloadLength) % LengthMod,
              !.curSegment = NextCounter(@),
              !.segmentType = m.segmentType]

\* An unsegmented message as a packet, and an assembled one (getPacket): the
\* latter is parsed from the first segment's header, whose flags it keeps.
UnsegmentedPacket(m, f) ==
    [version |-> f.version, deviceId |-> f.deviceId, streamId |-> f.streamId,
     messageType |-> f.messageType, segmentFlags |-> m.segmentType,
     payloadLength |-> m.payloadLength,
     payload |-> << [data |-> m.data, length |-> m.payloadLength, trailing |-> 0] >>]

\* The payload of the packet is the first payloadLength bytes of its pieces
\* one after another.
AssembledPacket(s, f) ==
    [version |-> s.curVersion, deviceId |-> f.deviceId, streamId |-> f.streamId,
     messageType |-> s.curMessageType, segmentFlags |-> "firstSegment",
     payloadLength |-> s.payloadLength, payload |-> s.payload]
-----------------------------------------------------------------------------
\* decode() returns at once: no room for a CMP header.
IgnoreShort(f) ==
    /\ frame = NoFrame
    /\ f.size < CmpHeaderSize
    /\ packets' = <<>>
    /\ UNCHANGED <<segmentedPackets, frame, body, curSize>>

\* A zero version byte: TECMP::Decoder answers, this object is not touched.
\* The packets of the TECMP decoder are not part of this module.
RouteToTecmp(f) ==
    /\ frame = NoFrame
    /\ f.size >= CmpHeaderSize
    /\ f.version = 0
    /\ packets' = <<>>
    /\ UNCHANGED <<segmentedPackets, frame, body, curSize>>

\* Mutant of Decode: the packets of the call before are returned again.
DecodeKeepingPackets(f) ==
    /\ frame = NoFrame
    /\ f.size >= CmpHeaderSize
    /\ f.version # 0
    /\ frame' = f
    /\ body' = f.body
    /\ curSize' = f.size - CmpHeaderSize
    /\ UNCHANGED <<segmentedPackets, packets>>

Decode(f) ==
    /\ frame = NoFrame
    /\ f.size >= CmpHeaderSize
    /\ f.version # 0
    /\ frame' = f
    /\ body' = f.body
    /\ curSize' = f.size - CmpHeaderSize
    /\ packets' = <<>>
    /\ UNCHANGED segmentedPackets

\* The loop is entered with bytes left in the frame.
InLoop == frame # NoFrame /\ curSize > 0

\* break: the rest of the frame is not looked at.
Break ==
    /\ curSize' = 0
    /\ body' = <<>>
    /\ UNCHANGED frame

\* Mutant of DropInvalid: the assembly survives.
DropInvalidKeepingAssembly ==
    /\ InLoop
    /\ ~ IsValidPacket(message, curSize)
    /\ Break
    /\ UNCHANGED <<segmentedPackets, packets>>

DropInvalid ==
    /\ InLoop
    /\ ~ IsValidPacket(message, curSize)
    /\ segmentedPackets' = Erase(segmentedPackets, endpoint)
    /\ Break
    /\ UNCHANGED packets

\* Mutant of DecodeUnsegmented: the rest of the frame is not looked at.
DecodeOneUnsegmented ==
    /\ InLoop
    /\ IsValidPacket(message, curSize)
    /\ message.segmentType = "unsegmented"
    /\ segmentedPackets' = Erase(segmentedPackets, endpoint)
    /\ packets' = << UnsegmentedPacket(message, frame) >>
    /\ Break

DecodeUnsegmented ==
    /\ InLoop
    /\ IsValidPacket(message, curSize)
    /\ message.segmentType = "unsegmented"
    /\ segmentedPackets' = Erase(segmentedPackets, endpoint)
    /\ packets' = Append(packets, UnsegmentedPacket(message, frame))
    /\ body' = Tail(body)
    /\ curSize' = curSize - (MessageHeaderSize + message.payloadLength)
    /\ UNCHANGED frame

StartAssembly ==
    /\ InLoop
    /\ IsValidPacket(message, curSize)
    /\ message.segmentType = "firstSegment"
    /\ segmentedPackets' =
           Put(segmentedPackets, endpoint, FirstSegment(message, curSize, frame))
    /\ Break
    /\ UNCHANGED packets

LaterSegment ==
    /\ InLoop
    /\ IsValidPacket(message, curSize)
    /\ message.segmentType \in {"intermediarySegment", "lastSegment"}

RejectSegment ==
    /\ LaterSegment
    /\ ~ CanAddSegment(At(segmentedPackets, endpoint), message, curSize, frame)
    /\ segmentedPackets' = Erase(segmentedPackets, endpoint)
    /\ Break
    /\ UNCHANGED packets

ContinueAssembly ==
    LET s == At(segmentedPackets, endpoint)
        added == AddSegment(s, message)
    IN  /\ LaterSegment
        /\ CanAddSegment(s, message, curSize, frame)
        /\ added.segmentType # "lastSegment"
        /\ segmentedPackets' = Put(segmentedPackets, endpoint, added)
        /\ Break
        /\ UNCHANGED packets

FinishAssembly ==
    LET s == At(segmentedPackets, endpoint)
        added == AddSegment(s, message)
    IN  /\ LaterSegment
        /\ CanAddSegment(s, message, curSize, frame)
        /\ added.segmentType = "lastSegment"
        /\ packets' = Append(packets, AssembledPacket(added, frame))
        /\ segmentedPackets' = Erase(segmentedPackets, endpoint)
        /\ Break

Return ==
    /\ frame # NoFrame
    /\ curSize = 0
    /\ frame' = NoFrame
    /\ body' = <<>>
    /\ UNCHANGED <<segmentedPackets, curSize, packets>>

\* decode() is called with datagram f.
Receive(f) == IgnoreShort(f) \/ RouteToTecmp(f) \/ Decode(f)

\* One turn of the loop, by the branch it takes.
Iterate ==
    \/ DropInvalid
    \/ DecodeUnsegmented
    \/ StartAssembly
    \/ RejectSegment
    \/ ContinueAssembly
    \/ FinishAssembly

Next ==
    \/ \E f \in Datagrams : Receive(f)
    \/ Iterate
    \/ Return

Spec == Init /\ [][Next]_vars
=============================================================================
