-------------------------- MODULE CmpDecoderHistory --------------------------
(***************************************************************************)
(* The decoder with two history variables, and what it promises in terms   *)
(* of them.  "seen" is, for each endpoint, the data messages of that       *)
(* endpoint's frames in the order the loop of decode() met them;           *)
(* "delivered" is, for each endpoint, the packets handed to the caller     *)
(* together with the message that completed them.  The reference           *)
(* definition below reads the packets off an endpoint's own messages       *)
(* alone, without any of the decoder's state.                              *)
(***************************************************************************)
EXTENDS CmpDecoder, Functions

CONSTANT MaxSeen        \* bound on the messages recorded, of all endpoints

ASSUME MaxSeenAssumption == MaxSeen \in Nat

VARIABLES seen, delivered

hvars == <<segmentedPackets, frame, body, curSize, packets, seen, delivered>>

\* A message as the loop meets it: its header, the bytes left in its frame
\* (header included), and the CMP header above it.
Met ==
    [version |-> frame.version, messageType |-> frame.messageType,
     sequenceCounter |-> frame.sequenceCounter,
     size |-> curSize, message |-> message]

\* The endpoint of the frame being decoded.
From == <<frame.deviceId, frame.streamId>>

HInit ==
    /\ Init
    /\ seen = [e \in Endpoint |-> <<>>]
    /\ delivered = [e \in Endpoint |-> {}]

\* The endpoint a packet says it is from, and the packets added by a step.
PacketEndpoint(p) == <<p.deviceId, p.streamId>>
Added(e) ==
    {packets'[i] : i \in {j \in DOMAIN packets' \ DOMAIN packets :
                            PacketEndpoint(packets'[j]) = e}}

Recorded == SumFunction([e \in Endpoint |-> Len(seen[e])])

\* Every turn of the loop is recorded.
HIterate ==
    /\ Iterate
    /\ Recorded < MaxSeen
    /\ seen' = [seen EXCEPT ![From] = Append(@, Met)]
    /\ delivered' =
           [e \in Endpoint |-> delivered[e] \cup
               {[at |-> Len(seen[From]) + 1, packet |-> p] : p \in Added(e)}]

HOther ==
    /\ \/ \E f \in Datagrams : Receive(f)
       \/ Return
    /\ UNCHANGED <<seen, delivered>>

HNext == HIterate \/ HOther

HSpec == HInit /\ [][HNext]_hvars
-----------------------------------------------------------------------------
(***************************************************************************)
(* The reference definition over the messages s of one endpoint.           *)
(***************************************************************************)
Sound(r) == IsValidPacket(r.message, r.size)
Starts(r) == Sound(r) /\ r.message.segmentType = "firstSegment"

\* r is the next segment of the packet that q is a segment of.
Follows(r, q) ==
    /\ Sound(r)
    /\ r.version = q.version
    /\ r.messageType = q.messageType
    /\ r.sequenceCounter = q.sequenceCounter + 1

\* s[i..j] is a first segment and the intermediary segments that follow it.
OpenRun(s, i, j) ==
    /\ i <= j
    /\ Starts(s[i])
    /\ \A k \in i+1 .. j : /\ Follows(s[k], s[k-1])
                           /\ s[k].message.segmentType = "intermediarySegment"

CompleteRun(s, i, j) ==
    /\ OpenRun(s, i, j-1)
    /\ Follows(s[j], s[j-1])
    /\ s[j].message.segmentType = "lastSegment"

\* The payload of s[i..j]: what each header announces and, behind the first
\* segment only, whatever else its frame holds.
RunPayload(s, i, j) ==
    [k \in 1 .. j - i + 1 |->
        [data |-> s[i+k-1].message.data,
         length |-> s[i+k-1].message.payloadLength,
         trailing |-> IF k = 1 THEN s[i].size - MessageHeaderSize
                                        - s[i].message.payloadLength
                               ELSE 0]]

\* What a packet says, its length apart.
Content(p) ==
    [version |-> p.version, messageType |-> p.messageType, payload |-> p.payload]
ContentOf(s, i, j) ==
    [version |-> s[i].version, messageType |-> s[i].messageType,
     payload |-> RunPayload(s, i, j)]

ExpectedAssembled(s) ==
    {[at |-> ij[2], content |-> ContentOf(s, ij[1], ij[2])] :
        ij \in {ij \in (DOMAIN s) \X (DOMAIN s) : CompleteRun(s, ij[1], ij[2])}}

Unsegmented(s) ==
    {j \in DOMAIN s : Sound(s[j]) /\ s[j].message.segmentType = "unsegmented"}

Assembled(e) == {d \in delivered[e] : d.packet.segmentFlags = "firstSegment"}

(***************************************************************************)
(* An endpoint has an entry in segmentedPackets exactly while the last     *)
(* messages of that endpoint, and no other endpoint's, are a first segment *)
(* and its successors without a gap; and the entry holds their bytes in    *)
(* order.  Whatever ends the run -- an unsegmented message, padding, an    *)
(* invalid message, a jump of the counter, another version or type --      *)
(* leaves no entry behind (decoder.cpp:29-81).                             *)
(***************************************************************************)
AssemblyIsOpenRun ==
    \A e \in Endpoint :
        LET s == seen[e]
            n == Len(s)
        IN  /\ e \in DOMAIN segmentedPackets <=> \E i \in 1 .. n : OpenRun(s, i, n)
            /\ \A i \in 1 .. n : OpenRun(s, i, n) =>
                 /\ segmentedPackets[e].payload = RunPayload(s, i, n)
                 /\ segmentedPackets[e].curVersion = s[n].version
                 /\ segmentedPackets[e].curMessageType = s[n].messageType
                 /\ segmentedPackets[e].curSegment = s[n].sequenceCounter

(***************************************************************************)
(* The packets assembled for an endpoint are exactly the complete runs of  *)
(* that endpoint's own messages, each handed over once, with the last      *)
(* segment, and with the bytes of its segments in order: nothing is        *)
(* spliced, lost, repeated or taken from another endpoint, in whatever     *)
(* order the endpoints' frames arrive (decoder.cpp:49-76, 107-143).        *)
(***************************************************************************)
AssembledExactly ==
    \A e \in Endpoint :
        {[at |-> d.at, content |-> Content(d.packet)] : d \in Assembled(e)}
            = ExpectedAssembled(seen[e])

(***************************************************************************)
(* Every sound unsegmented message of a frame is handed over once, under   *)
(* the endpoint of its frame and whatever assembly is pending; and decode  *)
(* does not stop behind one before the end of the frame, so the ones       *)
(* further back come too (decoder.cpp:37-48, 78-80).                       *)
(***************************************************************************)
UnsegmentedExactly ==
    \A e \in Endpoint :
     /\ {[at |-> d.at, content |-> Content(d.packet)] :
            d \in delivered[e] \ Assembled(e)}
          = {[at |-> j, content |->
                [version |-> seen[e][j].version,
                 messageType |-> seen[e][j].messageType,
                 payload |-> << [data |-> seen[e][j].message.data,
                                 length |-> seen[e][j].message.payloadLength,
                                 trailing |-> 0] >>]] :
               j \in Unsegmented(seen[e])}
     /\ seen[e] # <<>> /\ (frame = NoFrame \/ curSize = 0) =>
          LET r == seen[e][Len(seen[e])]
          IN  Len(seen[e]) \in Unsegmented(seen[e])
                => r.size = MessageHeaderSize + r.message.payloadLength

\* The bytes of a payload.
Bytes(payload) ==
    SumFunction([k \in DOMAIN payload |-> payload[k].length + payload[k].trailing])

(***************************************************************************)
(* The length an assembled packet reports covers every byte collected for  *)
(* it as long as these are fewer than a uint16_t can count; the length     *)
(* field is rewritten at every segment (decoder.cpp:122-125, 138-143).     *)
(***************************************************************************)
AssembledLength ==
    \A e \in Endpoint : \A d \in Assembled(e) :
        Bytes(d.packet.payload) < LengthMod
            => d.packet.payloadLength = Bytes(d.packet.payload)
=============================================================================
