------------------------------ MODULE CmpEncoder ------------------------------
(***************************************************************************)
(* ASAM::CMP::Encoder.  One call of encode() turns a list of packets into  *)
(* a list of frames whose sizes the DataContext bounds.  A packet that     *)
(* does not fit behind the ones already in the open frame starts a new     *)
(* frame; one that does not fit in a frame at all is cut into segments.    *)
(* The steps of a call are BeginEncode (init), StartPacket (putPacket up   *)
(* to its loop), PutSegment (one turn of the loop), FinishPacket and       *)
(* ReturnFrames (getEncodedData).                                          *)
(*                                                                         *)
(* The object is the record "enc", field by field the class's members.     *)
(* While a frame is open its size is maxBytesPerMessage and bytesLeft of   *)
(* them are free; closing it cuts it to what is used, or pads it with      *)
(* zeros up to minBytesPerMessage.                                         *)
(***************************************************************************)
EXTENDS CmpMessages

CONSTANTS
    DeviceId, StreamId, Version, MessageType,
    PacketId,           \* identities of the packets of a run
    Packets,            \* the packets an application may encode
    Requests,           \* the lists of packets it may pass to encode()
    DataContexts        \* the DataContext values it may pass

ASSUME UndefinedTypeAssumption == "undefined" \notin MessageType

\* What the encoder reads of a Packet.  getPayloadLength() is a uint16_t.
Packet ==
    [id: PacketId, version: Version, messageType: MessageType,
     payloadType: Nat, errorInPayload: BOOLEAN, payloadLength: Length]

\* Room for the two headers and at least one byte, and min <= max.  Nothing in
\* the code checks this; with fewer bytes putPacket does not terminate.
DataContext ==
    {c \in [minBytesPerMessage: Nat, maxBytesPerMessage: Nat] :
        /\ c.maxBytesPerMessage > CmpHeaderSize + MessageHeaderSize
        /\ c.minBytesPerMessage <= c.maxBytesPerMessage}

ASSUME PacketsAssumption == Packets \subseteq Packet
ASSUME PacketIdsAssumption == \A p, q \in Packets : p.id = q.id => p = q
ASSUME RequestsAssumption == Requests \subseteq Seq(Packets)
ASSUME DataContextsAssumption == DataContexts \subseteq DataContext

CmpHeader ==
    [version: Version, deviceId: DeviceId, streamId: StreamId,
     messageType: MessageType]

(***************************************************************************)
(* The payload bytes of a data message.  They belong at "position" of the  *)
(* payload of "packet", which is "whole" bytes long; they were copied from *)
(* "source" of that payload.                                               *)
(***************************************************************************)
PayloadData == [packet: PacketId, position: Nat, source: Nat, whole: Nat]

MessageHeader ==
    [segmentType: SegmentType, payloadLength: Length, errorInPayload: BOOLEAN,
     payloadType: Nat, data: PayloadData]

Frame ==
    [version: Version, deviceId: DeviceId, streamId: StreamId,
     messageType: MessageType, sequenceCounter: Counter, size: Nat,
     body: Seq(MessageHeader)]

\* The data members; a vector that is empty or holds one header is <<>> or <<h>>.
EncoderState ==
    [minBytesPerMessage: Nat, maxBytesPerMessage: Nat,
     deviceId: DeviceId, streamId: StreamId, cmpFrameTemplate: Seq(CmpHeader),
     bytesLeft: Nat, sequenceCounter: Counter,
     messageType: MessageType \cup {"undefined"}, cmpFrames: Seq(Frame)]

VARIABLES
    enc,                \* the encoder object
    pc,                 \* where the running call is; "idle" between calls
    request,            \* the packets of the last call
    next,               \* index in request of the packet being put
    currentPayloadPos, isSegmented, segmentInd,     \* putPacket's locals
    frames              \* what the last call returned

putVars == <<next, currentPayloadPos, isSegmented, segmentInd>>
vars == <<enc, pc, request, next, currentPayloadPos, isSegmented, segmentInd, frames>>

Location == {"idle", "packet", "loop", "undefined"}

TypeOK ==
    /\ enc \in EncoderState
    /\ pc \in Location
    /\ request \in Seq(Packet)
    /\ next \in Nat
    /\ currentPayloadPos \in Nat
    /\ isSegmented \in BOOLEAN
    /\ segmentInd \in Nat
    /\ frames \in Seq(Frame)

Init ==
    /\ \E d \in DeviceId, s \in StreamId :
         enc = [minBytesPerMessage |-> 0, maxBytesPerMessage |-> 0,
                deviceId |-> d, streamId |-> s, cmpFrameTemplate |-> <<>>,
                bytesLeft |-> 0, sequenceCounter |-> 0,
                messageType |-> "undefined", cmpFrames |-> <<>>]
    /\ pc = "idle"
    /\ request = <<>>
    /\ next = 1
    /\ currentPayloadPos = 0
    /\ isSegmented = FALSE
    /\ segmentInd = 0
    /\ frames = <<>>
-----------------------------------------------------------------------------
Least(a, b) == IF a <= b THEN a ELSE b
Greatest(a, b) == IF a >= b THEN a ELSE b

\* Mutant of ClearEncodingMetadata: the template survives it.
ClearEncodingMetadataButTemplate(e, clearSequenceCounter) ==
    [e EXCEPT !.bytesLeft = 0, !.cmpFrames = <<>>,
              !.sequenceCounter = IF clearSequenceCounter THEN 0 ELSE @]

\* clearEncodingMetadata: the message type survives it.
ClearEncodingMetadata(e, clearSequenceCounter) ==
    [e EXCEPT !.bytesLeft = 0, !.cmpFrames = <<>>, !.cmpFrameTemplate = <<>>,
              !.sequenceCounter = IF clearSequenceCounter THEN 0 ELSE @]

\* Mutant of ClosedFrames: the minimum is forgotten.
ClosedFramesUnpadded(e) ==
    IF e.cmpFrames = <<>> THEN <<>>
    ELSE [e.cmpFrames EXCEPT ![Len(e.cmpFrames)].size = @ - e.bytesLeft]

\* cmpFrames with the last frame cut to its used bytes or padded.
ClosedFrames(e) ==
    IF e.cmpFrames = <<>> THEN <<>>
    ELSE [e.cmpFrames EXCEPT ![Len(e.cmpFrames)].size =
                Greatest(@ - e.bytesLeft, e.minBytesPerMessage)]

\* The template of a call is made from the first packet that needs one.
FrameTemplate(e, p) ==
    IF e.cmpFrameTemplate # <<>> THEN e.cmpFrameTemplate[1]
    ELSE [version |-> p.version, deviceId |-> e.deviceId,
          streamId |-> e.streamId, messageType |-> p.messageType]

AddNewCMPFrame(e, p) ==
    LET header == FrameTemplate(e, p)
        counter == NextCounter(e.sequenceCounter)
    IN  [e EXCEPT
            !.cmpFrameTemplate = <<header>>,
            !.sequenceCounter = counter,
            !.bytesLeft = e.maxBytesPerMessage - CmpHeaderSize,
            !.cmpFrames = Append(ClosedFrames(e),
                [version |-> header.version, deviceId |-> header.deviceId,
                 streamId |-> header.streamId, messageType |-> header.messageType,
                 sequenceCounter |-> counter, size |-> e.maxBytesPerMessage,
                 body |-> <<>>])]

\* Mutants of SetMessageType: the counter is put back after the frame was
\* opened; a frame is opened only if there is none.
SetMessageTypeUncounted(e, p) ==
    [AddNewCMPFrame([e EXCEPT !.messageType = p.messageType], p)
        EXCEPT !.sequenceCounter = e.sequenceCounter]
SetMessageTypeSameFrame(e, p) ==
    LET typed == [e EXCEPT !.messageType = p.messageType]
    IN  IF e.cmpFrames = <<>> THEN AddNewCMPFrame(typed, p) ELSE typed

SetMessageType(e, p) ==
    AddNewCMPFrame([e EXCEPT !.messageType = p.messageType], p)

\* Mutant of DoesNotFit: the message header is not counted.
DoesNotFitBare(e, p) == e.cmpFrames # <<>> /\ e.bytesLeft < p.payloadLength

\* The condition of checkIfSegmented, evaluated twice there.
DoesNotFit(e, p) ==
    /\ e.cmpFrames # <<>>
    /\ e.bytesLeft < MessageHeaderSize + p.payloadLength

\* Room for a message header is needed in the open frame.
NeedsFrame(e) == e.bytesLeft < MessageHeaderSize

\* Mutants of MoreToPut (a single byte is not enough to enter the loop) and of
\* BytesToAdd (the end of the payload is forgotten; one byte is left free).
MoreThanOneToPut(position, length) == position + 1 < length
BytesToAddFull(e, length, position) == e.bytesLeft - MessageHeaderSize
BytesToAddShort(e, length, position) ==
    Least(e.bytesLeft - MessageHeaderSize - 1, length - position)

\* The condition of putPacket's loop, and the payload bytes of one turn.
MoreToPut(position, length) == position < length
BytesToAdd(e, length, position) ==
    Least(e.bytesLeft - MessageHeaderSize, length - position)

\* Mutants of SegmentationFlag: the end is tested before anything else;
\* it is tested without the bytes being added; the first segment is not marked.
SegmentationFlagEager(segmented, index, bytesToAdd, length, position) ==
    IF position + bytesToAdd = length THEN "lastSegment"
    ELSE IF ~ segmented THEN "unsegmented"
    ELSE IF index = 0 THEN "firstSegment"
    ELSE "intermediarySegment"
SegmentationFlagLate(segmented, index, bytesToAdd, length, position) ==
    IF ~ segmented THEN "unsegmented"
    ELSE IF index = 0 THEN "firstSegment"
    ELSE IF position = length THEN "lastSegment"
    ELSE "intermediarySegment"
SegmentationFlagNoFirst(segmented, index, bytesToAdd, length, position) ==
    IF ~ segmented \/ index = 0 THEN "unsegmented"
    ELSE IF position + bytesToAdd = length THEN "lastSegment"
    ELSE "intermediarySegment"

SegmentationFlag(segmented, index, bytesToAdd, length, position) ==
    IF ~ segmented THEN "unsegmented"
    ELSE IF index = 0 THEN "firstSegment"
    ELSE IF position + bytesToAdd = length THEN "lastSegment"
    ELSE "intermediarySegment"

\* addNewDataHeader and the memcpy behind it, which copies from the start of
\* the payload whatever the position.
AddMessage(e, p, bytesToAdd, flag, position) ==
    [e EXCEPT
        !.bytesLeft = @ - MessageHeaderSize - bytesToAdd,
        !.cmpFrames[Len(e.cmpFrames)].body = Append(@,
            [segmentType |-> flag, payloadLength |-> bytesToAdd,
             errorInPayload |-> p.errorInPayload, payloadType |-> p.payloadType,
             data |-> [packet |-> p.id, position |-> position, source |-> 0,
                       whole |-> p.payloadLength]])]
-----------------------------------------------------------------------------
SetDeviceId(d) ==
    /\ pc = "idle"
    /\ enc' = ClearEncodingMetadata([enc EXCEPT !.deviceId = d], TRUE)
    /\ UNCHANGED <<pc, request, putVars, frames>>

SetStreamId(s) ==
    /\ pc = "idle"
    /\ enc' = ClearEncodingMetadata([enc EXCEPT !.streamId = s], TRUE)
    /\ UNCHANGED <<pc, request, putVars, frames>>

Restart ==
    /\ pc = "idle"
    /\ enc' = [enc EXCEPT !.sequenceCounter = 0]
    /\ UNCHANGED <<pc, request, putVars, frames>>

BeginEncode(r, context) ==
    /\ pc = "idle"
    /\ enc' = [ClearEncodingMetadata(enc, FALSE) EXCEPT
                 !.minBytesPerMessage = context.minBytesPerMessage,
                 !.maxBytesPerMessage = context.maxBytesPerMessage]
    /\ request' = r
    /\ next' = 1
    /\ pc' = "packet"
    /\ frames' = <<>>
    /\ UNCHANGED <<currentPayloadPos, isSegmented, segmentInd>>

\* putPacket up to the loop: setMessageType and checkIfSegmented.
StartPacket ==
    /\ pc = "packet"
    /\ next <= Len(request)
    /\ LET p == request[next]
           typed == IF enc.messageType # p.messageType
                      THEN SetMessageType(enc, p) ELSE enc
           placed == IF DoesNotFit(typed, p) THEN AddNewCMPFrame(typed, p) ELSE typed
       IN  /\ enc' = placed
           /\ isSegmented' = (DoesNotFit(typed, p) /\ DoesNotFit(placed, p))
    /\ currentPayloadPos' = 0
    /\ segmentInd' = 0
    /\ pc' = "loop"
    /\ UNCHANGED <<request, next, frames>>

PutSegment ==
    /\ pc = "loop"
    /\ MoreToPut(currentPayloadPos, request[next].payloadLength)
    /\ LET p == request[next]
           open == IF NeedsFrame(enc) THEN AddNewCMPFrame(enc, p) ELSE enc
           bytesToAdd == BytesToAdd(open, p.payloadLength, currentPayloadPos)
           flag == SegmentationFlag(isSegmented, segmentInd, bytesToAdd,
                                    p.payloadLength, currentPayloadPos)
           filled == AddMessage(open, p, bytesToAdd, flag, currentPayloadPos)
       IN  /\ enc' = IF flag = "lastSegment" THEN AddNewCMPFrame(filled, p) ELSE filled
           /\ currentPayloadPos' = currentPayloadPos + bytesToAdd
    /\ segmentInd' = segmentInd + 1
    /\ UNCHANGED <<pc, request, next, isSegmented, frames>>

\* Mutant of FinishPacket: the loop is left only after a turn of it.
FinishPacketWritten ==
    /\ pc = "loop"
    /\ segmentInd > 0
    /\ ~ MoreToPut(currentPayloadPos, request[next].payloadLength)
    /\ next' = next + 1
    /\ pc' = "packet"
    /\ currentPayloadPos' = 0
    /\ isSegmented' = FALSE
    /\ segmentInd' = 0
    /\ UNCHANGED <<enc, request, frames>>

FinishPacket ==
    /\ pc = "loop"
    /\ ~ MoreToPut(currentPayloadPos, request[next].payloadLength)
    /\ next' = next + 1
    /\ pc' = "packet"
    /\ currentPayloadPos' = 0      \* the locals of putPacket are gone
    /\ isSegmented' = FALSE
    /\ segmentInd' = 0
    /\ UNCHANGED <<enc, request, frames>>

ReturnFrames ==
    /\ pc = "packet"
    /\ next > Len(request)
    /\ enc.cmpFrames # <<>>
    /\ frames' = ClosedFrames(enc)
    /\ enc' = ClearEncodingMetadata(enc, FALSE)
    /\ pc' = "idle"
    /\ UNCHANGED <<request, putVars>>

\* back() of an empty vector: nothing is known of the program from here on.
ReturnUndefined ==
    /\ pc = "packet"
    /\ next > Len(request)
    /\ enc.cmpFrames = <<>>
    /\ pc' = "undefined"
    /\ UNCHANGED <<enc, request, putVars, frames>>

Configure ==
    \/ \E d \in DeviceId : SetDeviceId(d)
    \/ \E s \in StreamId : SetStreamId(s)
    \/ Restart

Call == \E r \in Requests, context \in DataContexts : BeginEncode(r, context)

\* The steps of a call that is running, up to the one that returns its frames.
Step == StartPacket \/ PutSegment \/ FinishPacket \/ ReturnUndefined
Run == Step \/ ReturnFrames

Next == Configure \/ Call \/ Run

Spec == Init /\ [][Next]_vars

\* encode() runs to completion on the caller's thread.
FairSpec == Spec /\ WF_vars(Run)
=============================================================================
