--------------------------- MODULE CmpEncoderProps ---------------------------
(***************************************************************************)
(* What the frames of an encode() call are worth: properties of "frames"   *)
(* once the call has returned, related to the request it was given.        *)
(***************************************************************************)
EXTENDS CmpEncoder, SequencesExt

Returned == pc = "idle"

Messages(fs) == FlattenSeq([i \in DOMAIN fs |-> fs[i].body])

UsedBytes(f) ==
    CmpHeaderSize + SumFunction([k \in DOMAIN f.body |->
                        MessageHeaderSize + f.body[k].payloadLength])

\* The message holds the first, or the last, byte of its packet's payload.
AtStart(m) == m.data.position = 0
AtEnd(m) == m.data.position + m.payloadLength = m.data.whole
IsPartial(m) == ~ (AtStart(m) /\ AtEnd(m))
IsSegment(m) == m.segmentType # "unsegmented"

\* The ids of the request's packets that have a payload, in order; and of the
\* packets that start in a sequence of messages.
PayloadIds ==
    FlattenSeq([i \in DOMAIN request |->
        IF request[i].payloadLength > 0 THEN <<request[i].id>> ELSE <<>>])
StartedIds(m) ==
    FlattenSeq([k \in DOMAIN m |->
        IF AtStart(m[k]) THEN <<m[k].data.packet>> ELSE <<>>])

TypeOf(id) == (CHOOSE p \in Packets : p.id = id).messageType

(***************************************************************************)
(* Every frame has at least minBytesPerMessage and at most                 *)
(* maxBytesPerMessage bytes, holds the messages it was given, and is       *)
(* padded only to reach the minimum: the open-frame arithmetic of size and *)
(* bytesLeft never loses or invents a byte (encoder.cpp:38, 115, 123).     *)
(***************************************************************************)
FramesWithinContext ==
    Returned => \A i \in DOMAIN frames :
        /\ frames[i].size \in enc.minBytesPerMessage .. enc.maxBytesPerMessage
        /\ frames[i].size = Greatest(UsedBytes(frames[i]), enc.minBytesPerMessage)

(***************************************************************************)
(* Read in order, the messages of the returned frames are meant for places *)
(* that tile the payloads of the request: every packet with a payload      *)
(* starts once, in the order of the request, its pieces follow one another *)
(* without gap or overlap, and the last piece reaches its end              *)
(* (encoder.cpp:68-93, encoder.h:101-106).  This is about positions and    *)
(* lengths; which bytes are copied to a place is SegmentContent's matter.  *)
(***************************************************************************)
PayloadsTiled ==
    Returned /\ frames # <<>> =>
        LET m == Messages(frames)
        IN  /\ \A k \in DOMAIN m :
                 IF k = 1 \/ AtEnd(m[IF k = 1 THEN 1 ELSE k - 1])
                   THEN AtStart(m[k])
                   ELSE /\ m[k].data.packet = m[k-1].data.packet
                        /\ m[k].data.position = m[k-1].data.position
                                                  + m[k-1].payloadLength
            /\ m # <<>> => AtEnd(m[Len(m)])
            /\ StartedIds(m) = PayloadIds

(***************************************************************************)
(* A segment is alone in its frame; its flag tells the truth about its     *)
(* position; and the next segment of the packet is in the very next frame, *)
(* under the next sequence counter, which is what the decoder insists on   *)
(* (encoder.cpp:91-92, 122, 137-162; decoder.cpp:110).                     *)
(***************************************************************************)
SegmentsFormRuns ==
    Returned => \A i \in DOMAIN frames : \A k \in DOMAIN frames[i].body :
        LET m == frames[i].body[k]
        IN  IsSegment(m) =>
              /\ Len(frames[i].body) = 1
              /\ m.segmentType = "firstSegment" <=> AtStart(m)
              /\ m.segmentType = "lastSegment" <=> AtEnd(m)
              /\ ~ AtEnd(m) =>
                   /\ i + 1 \in DOMAIN frames
                   /\ frames[i+1].sequenceCounter
                        = NextCounter(frames[i].sequenceCounter)
                   /\ Len(frames[i+1].body) = 1
                   /\ IsSegment(frames[i+1].body[1])
                   /\ frames[i+1].body[1].data.packet = m.data.packet

\* Every message that is written carries at least one byte, so each turn of
\* putPacket's loop makes progress (encoder.cpp:73-93).
NoEmptyMessage ==
    \A i \in DOMAIN enc.cmpFrames : \A k \in DOMAIN enc.cmpFrames[i].body :
        enc.cmpFrames[i].body[k].payloadLength > 0

(***************************************************************************)
(* The frames of a call are numbered without a gap up to the counter that  *)
(* getSequenceCounter() reports, over a wrap too, also while the call runs *)
(* and several branches of it open frames (encoder.cpp:112-124).           *)
(***************************************************************************)
FramesNumbered ==
    LET n == Len(enc.cmpFrames)
    IN  /\ n > 0 => enc.cmpFrames[n].sequenceCounter = enc.sequenceCounter
        /\ \A i \in 2 .. n : enc.cmpFrames[i].sequenceCounter
                               = NextCounter(enc.cmpFrames[i-1].sequenceCounter)

(***************************************************************************)
(* A frame never mixes messages of different CMP message types, and its    *)
(* header names the type of the message's packet or of an earlier one of   *)
(* the same request, never one that an earlier call left: a request of one *)
(* type goes out under that type (encoder.cpp:31-34, 65-66, 112-118,       *)
(* 164-172).                                                               *)
(***************************************************************************)
FrameTypesOfCall ==
    Returned => \A i \in DOMAIN frames : \A k \in DOMAIN frames[i].body :
        LET id == frames[i].body[k].data.packet
        IN  /\ \A l \in DOMAIN frames[i].body :
                 TypeOf(frames[i].body[l].data.packet) = TypeOf(id)
            /\ \A n \in DOMAIN request : request[n].id = id =>
                 \E j \in 1 .. n : request[j].messageType = frames[i].messageType

\* A piece of a packet that is not marked as a segment belongs to the first
\* payload of the request, never to a later one (encoder.cpp:137-146).
UnmarkedPiecesAreFirst ==
    Returned /\ frames # <<>> =>
        LET m == Messages(frames)
        IN  \A k \in DOMAIN m :
              IsPartial(m[k]) /\ ~ IsSegment(m[k]) =>
                  m[k].data.packet = Head(PayloadIds)

\* encode() reads an absent frame only if the request had no payload at all
\* (encoder.cpp:38).
UndefinedOnlyWithoutPayload == pc = "undefined" => PayloadIds = <<>>

(***************************************************************************)
(* A frame without a message, which uses up a sequence number all the      *)
(* same, is returned only next to a packet that was cut, behind its last   *)
(* piece or in front of its first, or for a packet without payload: frames *)
(* are opened in four places, in the hope of a message                     *)
(* (encoder.cpp:33, 75, 91-92, 137-146).                                   *)
(***************************************************************************)
EmptyFramesBesidePieces ==
    Returned /\ (\A j \in DOMAIN request : request[j].payloadLength > 0) =>
      \A i \in DOMAIN frames :
        LET behind == IF i > 1 THEN frames[i-1].body ELSE <<>>
            ahead == IF i < Len(frames) THEN frames[i+1].body ELSE <<>>
        IN  frames[i].body = <<>> =>
              \/ behind # <<>> /\ IsPartial(Last(behind)) /\ AtEnd(Last(behind))
              \/ ahead # <<>> /\ IsPartial(Head(ahead)) /\ AtStart(Head(ahead))

\* Every call of encode() comes to its end (encoder.cpp:63-95).
CallsReturn == pc \in {"packet", "loop"} ~> pc \in {"idle", "undefined"}
-----------------------------------------------------------------------------
\* What the example says of a round trip, "Check equality of source and decoded
\* packets" (example/main.cpp:111-116), needs of the encoder:

\* - the bytes put at a position of the payload are the bytes at that position;
SegmentContent ==
    \A i \in DOMAIN frames : \A k \in DOMAIN frames[i].body :
        frames[i].body[k].data.source = frames[i].body[k].data.position

\* - a piece of a packet is marked as a segment, so that it is not taken for a
\*   packet of its own;
PiecesAreSegments ==
    \A i \in DOMAIN frames : \A k \in DOMAIN frames[i].body :
        IsPartial(frames[i].body[k]) => IsSegment(frames[i].body[k])

\* - the header of a frame, from which decode() takes the message type, names
\*   the type of the packets in the frame.
HeadersTellTypes ==
    \A i \in DOMAIN frames : \A k \in DOMAIN frames[i].body :
        frames[i].messageType = TypeOf(frames[i].body[k].data.packet)
=============================================================================
