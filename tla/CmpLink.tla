------------------------------- MODULE CmpLink -------------------------------
(***************************************************************************)
(* An encoder, a network and a decoder, as the example puts them together: *)
(* an application encodes requests and sends the frames that encode()      *)
(* returns, in order; every datagram that arrives is passed to decode();   *)
(* what decode() returns is appended to the decoded packets.  The library  *)
(* has no acknowledgement and no retry, so a frame that the network drops  *)
(* is gone.  The network is the users' Ethernet: it may drop frames, and,  *)
(* when the constants say so, repeat or overtake them.                     *)
(***************************************************************************)
EXTENDS CmpEncoder, SequencesExt

CONSTANTS
    NoFrame,            \* see CmpDecoder
    Scenarios           \* the applications and networks of an instance

(***************************************************************************)
(* A scenario: what the application encodes, and what the network may do   *)
(* to a frame besides delivering it; and the bounds on how often.          *)
(***************************************************************************)
Scenario ==
    [requests: SUBSET Requests, contexts: SUBSET DataContexts,
     duplicating: BOOLEAN,  \* may the network repeat a frame?
     reordering: BOOLEAN,   \* may a frame overtake another?
     maxCalls: Nat,         \* bound: calls of encode()
     maxFaults: Nat,        \* bound: frames dropped or repeated
     maxRestarts: Nat]      \* bound: restart(), setDeviceId(), setStreamId()

ASSUME ScenariosAssumption == Scenarios \subseteq Scenario
ASSUME NoFrameAssumption == NoFrame \notin Frame

VARIABLES
    network,            \* the frames in flight, in the order sent
    segmentedPackets, frame, body, curSize, packets,
    decoded,            \* every packet decode() has returned, in order
    sent,               \* history: every packet passed to encode(), in order
    epochOf,            \* history: sequence counter resets before its call
    calls, faults, restarts,
    scenario            \* the one of this behaviour

Dec == INSTANCE CmpDecoder WITH Data <- PayloadData, Datagrams <- {}

decVars == <<segmentedPackets, frame, body, curSize, packets>>
histVars == <<sent, epochOf>>
linkVars == <<vars, decVars, histVars, network, decoded, calls, faults, restarts, scenario>>

LinkInit ==
    /\ Init
    /\ Dec!Init
    /\ network = <<>>
    /\ decoded = <<>>
    /\ sent = <<>>
    /\ epochOf = [id \in PacketId |-> 0]
    /\ calls = 0 /\ faults = 0 /\ restarts = 0
    /\ scenario \in Scenarios

\* encode() is called; a packet is encoded once.
CallEncode ==
    /\ calls < scenario.maxCalls
    /\ \E r \in scenario.requests, context \in scenario.contexts :
         /\ \A i \in DOMAIN r : r[i].id \notin ToSet(sent)
         /\ \A i, j \in DOMAIN r : r[i].id = r[j].id => i = j
         /\ BeginEncode(r, context)
         /\ sent' = sent \o [i \in DOMAIN r |-> r[i].id]
         /\ epochOf' = [id \in PacketId |->
                IF \E i \in DOMAIN r : r[i].id = id THEN restarts ELSE epochOf[id]]
    /\ calls' = calls + 1
    /\ UNCHANGED <<decVars, network, decoded, faults, restarts, scenario>>

Reconfigure ==
    /\ restarts < scenario.maxRestarts
    /\ Configure
    /\ restarts' = restarts + 1
    /\ UNCHANGED <<decVars, histVars, network, decoded, calls, faults, scenario>>

Encode ==
    /\ Step
    /\ UNCHANGED <<decVars, histVars, network, decoded, calls, faults, restarts, scenario>>

\* encode() returns and the application sends what it returned.
SendFrames ==
    /\ ReturnFrames
    /\ network' = network \o frames'
    /\ UNCHANGED <<decVars, histVars, decoded, calls, faults, restarts, scenario>>

Deliver ==
    /\ frame = NoFrame
    /\ \E i \in DOMAIN network :
         /\ scenario.reordering \/ i = 1
         /\ Dec!Receive(network[i])
         /\ network' = RemoveAt(network, i)
    /\ UNCHANGED <<vars, histVars, decoded, calls, faults, restarts, scenario>>

Decode ==
    /\ Dec!Iterate
    /\ UNCHANGED <<vars, histVars, network, decoded, calls, faults, restarts, scenario>>

ReturnPackets ==
    /\ Dec!Return
    /\ decoded' = decoded \o packets
    /\ UNCHANGED <<vars, histVars, network, calls, faults, restarts, scenario>>

Lose ==
    /\ faults < scenario.maxFaults
    /\ \E i \in DOMAIN network : network' = RemoveAt(network, i)
    /\ faults' = faults + 1
    /\ UNCHANGED <<vars, decVars, histVars, decoded, calls, restarts, scenario>>

Duplicate ==
    /\ scenario.duplicating
    /\ faults < scenario.maxFaults
    /\ \E i \in DOMAIN network : network' = InsertAt(network, i, network[i])
    /\ faults' = faults + 1
    /\ UNCHANGED <<vars, decVars, histVars, decoded, calls, restarts, scenario>>

LinkNext ==
    \/ CallEncode \/ Reconfigure \/ Encode \/ SendFrames
    \/ Deliver \/ Decode \/ ReturnPackets
    \/ Lose \/ Duplicate

LinkSpec == LinkInit /\ [][LinkNext]_linkVars

\* Both objects run to completion once called, and a datagram that is not
\* dropped is passed on.
FairLinkSpec ==
    /\ LinkSpec
    /\ WF_linkVars(Encode \/ SendFrames)
    /\ WF_linkVars(Deliver \/ Decode \/ ReturnPackets)
-----------------------------------------------------------------------------
\* What has been decoded, the packets of the running decode() included.
Decoded == IF frame = NoFrame THEN decoded ELSE decoded \o packets

\* p is the whole payload of one encoded packet, piece by piece and nothing else.
HasWholePayload(p) ==
    /\ p.payload[1].data.position = 0
    /\ Last(p.payload).data.position + Last(p.payload).length
         = Last(p.payload).data.whole
    /\ \A k \in DOMAIN p.payload :
         /\ p.payload[k].trailing = 0
         /\ k > 1 => /\ p.payload[k].data.packet = p.payload[k-1].data.packet
                     /\ p.payload[k].data.position
                          = p.payload[k-1].data.position + p.payload[k-1].length

\* p is one encoded packet, as the example compares them: its whole payload
\* under its own message type, version and length.
Whole(p) ==
    /\ HasWholePayload(p)
    /\ \E q \in Packets :
         /\ q.id = p.payload[1].data.packet
         /\ p.messageType = q.messageType
         /\ p.version = q.version
         /\ p.payloadLength = q.payloadLength

IsAssembled(p) == p.segmentFlags # "unsegmented"
Epochs(p) == {epochOf[p.payload[k].data.packet] : k \in DOMAIN p.payload}

IndexOf(id) == CHOOSE i \in DOMAIN sent : sent[i] = id
IndexIfWhole(p) ==
    IF HasWholePayload(p) THEN <<IndexOf(p.payload[1].data.packet)>> ELSE <<>>

(***************************************************************************)
(* The payload of a packet put together from segments is that of one       *)
(* encoded packet, all places of it in order, and of its length, whatever  *)
(* the network did, unless the encoder's counter was reset between the     *)
(* frames it is made of (decoder.cpp:107-143 against encoder.cpp:63-124).  *)
(***************************************************************************)
SplicesOnlyAcrossRestart ==
    \A i \in DOMAIN Decoded :
        LET p == Decoded[i]
        IN  IsAssembled(p) /\ Cardinality(Epochs(p)) = 1 =>
              /\ HasWholePayload(p)
              /\ p.payloadLength = p.payload[1].data.whole

\* Encoder, network and decoder implement the channel, when the network keeps
\* the order of the frames and does not repeat them.
InOrder == ~scenario.duplicating /\ ~scenario.reordering
Received ==
    IF InOrder THEN FlattenSeq([i \in DOMAIN Decoded |-> IndexIfWhole(Decoded[i])])
    ELSE <<>>
Channel == INSTANCE PacketChannel WITH received <- Received

\* Without reordering and repetition whole payloads are received in order and
\* once, and none that was not encoded.  The channel says nothing of the message
\* type they are received under; RoundTrip does.
ImplementsChannel == Channel!Spec

(***************************************************************************)
(* The requests that come through.  Their packets have one message type    *)
(* and version, since the header of a call's first packet is that of all   *)
(* its frames; none is marked as erroneous, which the decoder drops; and   *)
(* the first one has a payload that fits in a frame, since a larger one    *)
(* is cut into pieces that are not marked.                                 *)
(***************************************************************************)
ComesThrough(r, context) ==
    /\ \A i \in DOMAIN r : /\ r[i].messageType = r[1].messageType
                          /\ r[i].version = r[1].version
                          /\ ~ r[i].errorInPayload
    /\ r # <<>> =>
         /\ r[1].payloadLength > 0
         /\ CmpHeaderSize + MessageHeaderSize + r[1].payloadLength
               <= context.maxBytesPerMessage

Regular(s) == \A r \in s.requests, context \in s.contexts : ComesThrough(r, context)

\* No call is running and no frame is under way.
AtRest == pc = "idle" /\ network = <<>> /\ frame = NoFrame

WithPayload == {p.id : p \in {q \in Packets : q.payloadLength > 0}}


\* A packet with a payload that was encoded is decoded in the end
\* (example/main.cpp:111-116; decoder.cpp:110).
EveryPacketDecoded ==
    \A id \in WithPayload :
        id \in ToSet(sent) ~> \E i \in DOMAIN decoded :
                                /\ Whole(decoded[i])
                                /\ decoded[i].payload[1].data.packet = id
=============================================================================
