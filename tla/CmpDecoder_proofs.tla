-------------------------- MODULE CmpDecoder_proofs --------------------------
(***************************************************************************)
(* Theorems about the decoder, for any endpoints, datagrams of any number  *)
(* of messages, and histories of any length: first of the decoder by       *)
(* itself, then against the reference definition over its history.         *)
(***************************************************************************)
EXTENDS CmpDecoderHistory, ProofBasics

\* A packet under assembly is one that a first segment opened and that waits
\* for another segment.
Pending(s) == s.segmentType \in {"firstSegment", "intermediarySegment"}

IInv ==
    /\ TypeOK
    /\ frame # NoFrame => frame.version \in Version
    /\ \A e \in DOMAIN segmentedPackets : Pending(segmentedPackets[e])

LEMMA DefaultType == DefaultSegmentedPacket \in SegmentedPacket
BY CounterModAssumption, LengthModAssumption
   DEF DefaultSegmentedPacket, SegmentedPacket, SegmentType, Length, Counter

LEMMA FirstSegmentType ==
    ASSUME NEW m \in MessageHeader, NEW size \in Nat, NEW f \in Frame,
           IsValidPacket(m, size)
    PROVE  /\ FirstSegment(m, size, f) \in SegmentedPacket
           /\ Pending(FirstSegment(m, size, f))
<1> DEFINE piece == [data |-> m.data, length |-> m.payloadLength,
                     trailing |-> size - MessageHeaderSize - m.payloadLength]
<1>1. m.payloadLength \in Nat /\ MessageHeaderSize \in Nat
        /\ size - MessageHeaderSize - m.payloadLength \in Nat
        /\ size - MessageHeaderSize \in Nat
  BY DEF MessageHeader, Length, IsValidPacket, MessageHeaderSize
<1>2. piece \in Piece
  BY <1>1 DEF MessageHeader, Piece
<1>3. <<piece>> \in Seq(Piece)
  BY <1>2
<1> HIDE DEF piece
<1>4. FirstSegment(m, size, f) =
        [payload |-> <<piece>>, payloadSize |-> size - MessageHeaderSize,
         payloadLength |-> m.payloadLength, segmentType |-> "firstSegment",
         curVersion |-> f.version, curMessageType |-> f.messageType,
         curSegment |-> f.sequenceCounter]
  BY DEF FirstSegment, piece
<1> QED
  BY <1>1, <1>3, <1>4 DEF SegmentedPacket, MessageHeader, Frame, SegmentType, Pending

LEMMA AddSegmentType ==
    ASSUME NEW s \in SegmentedPacket, NEW m \in MessageHeader
    PROVE  /\ AddSegment(s, m) \in SegmentedPacket
           /\ AddSegment(s, m).payload
                = Append(s.payload, [data |-> m.data, length |-> m.payloadLength,
                                     trailing |-> 0])
           /\ AddSegment(s, m).curVersion = s.curVersion
           /\ AddSegment(s, m).curMessageType = s.curMessageType
           /\ AddSegment(s, m).curSegment = NextCounter(s.curSegment)
           /\ AddSegment(s, m).segmentType = m.segmentType
<1> DEFINE piece == [data |-> m.data, length |-> m.payloadLength, trailing |-> 0]
<1>1. piece \in Piece
  BY DEF MessageHeader, Piece
<1>2. Append(s.payload, piece) \in Seq(Piece)
  BY <1>1 DEF SegmentedPacket
<1>3. s.payloadSize + m.payloadLength \in Nat
        /\ (s.payloadSize + m.payloadLength) % LengthMod \in Length
  BY LengthModAssumption DEF SegmentedPacket, MessageHeader, Length
<1>4. NextCounter(s.curSegment) \in Counter
  BY CounterModAssumption DEF SegmentedPacket, NextCounter, Counter
<1>5. m.segmentType \in SegmentType
  BY DEF MessageHeader
<1> HIDE DEF piece
<1>6. AddSegment(s, m) =
        [s EXCEPT !.payload = Append(@, piece),
                  !.payloadSize = @ + m.payloadLength,
                  !.payloadLength = (s.payloadSize + m.payloadLength) % LengthMod,
                  !.curSegment = NextCounter(@),
                  !.segmentType = m.segmentType]
  BY DEF AddSegment, piece
<1> QED
  BY <1>2, <1>3, <1>4, <1>5, <1>6 DEF SegmentedPacket, piece

LEMMA AssembledType ==
    ASSUME NEW s \in SegmentedPacket, NEW f \in Frame,
           s.curVersion \in Version, s.curMessageType \in MessageType
    PROVE  AssembledPacket(s, f) \in Packet
BY DEF AssembledPacket, Packet, SegmentedPacket, Frame, SegmentType

LEMMA UnsegmentedType ==
    ASSUME NEW m \in MessageHeader, NEW f \in Frame, f.version \in Version
    PROVE  UnsegmentedPacket(m, f) \in Packet
<1> DEFINE piece == [data |-> m.data, length |-> m.payloadLength, trailing |-> 0]
<1>1. piece \in Piece
  BY DEF MessageHeader, Piece
<1>2. <<piece>> \in Seq(Piece)
  BY <1>1
<1> HIDE DEF piece
<1>3. UnsegmentedPacket(m, f) =
        [version |-> f.version, deviceId |-> f.deviceId, streamId |-> f.streamId,
         messageType |-> f.messageType, segmentFlags |-> m.segmentType,
         payloadLength |-> m.payloadLength, payload |-> <<piece>>]
  BY DEF UnsegmentedPacket, piece
<1> QED
  BY <1>2, <1>3 DEF Packet, MessageHeader, Frame
-----------------------------------------------------------------------------
\* A turn of the loop that goes on past isValidPacket has a real message.
LEMMA LoopIs ==
    ASSUME IInv, InLoop
    PROVE  /\ frame \in Frame /\ frame.version \in Version
           /\ endpoint \in Endpoint
           /\ body \in Seq(MessageHeader) /\ curSize \in Nat
           /\ IsValidPacket(message, curSize) =>
                 body # <<>> /\ message = Head(body) /\ message \in MessageHeader
<1>1. frame \in Frame
  BY DEF IInv, TypeOK, InLoop
<1>2. endpoint \in Endpoint
  BY <1>1 DEF endpoint, Endpoint, Frame
<1>3. ~ IsValidPacket(Padding, curSize)
  BY DEF IsValidPacket, Padding
<1>4. ASSUME body # <<>>
      PROVE  message = Head(body) /\ message \in MessageHeader
  BY <1>4 DEF message, IInv, TypeOK
<1> QED
  BY <1>1, <1>2, <1>3, <1>4 DEF IInv, TypeOK, InLoop, message

\* What the map holds for an endpoint, and what operator[] makes of it.
LEMMA AtIs ==
    ASSUME IInv, NEW e
    PROVE  /\ At(segmentedPackets, e) \in SegmentedPacket
           /\ e \in DOMAIN segmentedPackets => Pending(At(segmentedPackets, e))
           /\ e \notin DOMAIN segmentedPackets => At(segmentedPackets, e).curVersion = 0
BY DefaultType DEF At, IInv, TypeOK, DefaultSegmentedPacket

LEMMA MapTypes ==
    ASSUME IInv, NEW e \in Endpoint, NEW s \in SegmentedPacket, Pending(s)
    PROVE  /\ DOMAIN Put(segmentedPackets, e, s) = DOMAIN segmentedPackets \cup {e}
           /\ DOMAIN Erase(segmentedPackets, e) = DOMAIN segmentedPackets \ {e}
           /\ \A k \in DOMAIN Put(segmentedPackets, e, s) :
                Put(segmentedPackets, e, s)[k] = IF k = e THEN s ELSE segmentedPackets[k]
           /\ \A k \in DOMAIN Erase(segmentedPackets, e) :
                Erase(segmentedPackets, e)[k] = segmentedPackets[k]
BY DEF Put, Erase

\* The conjuncts of IInv about the map.
MapOK ==
    /\ DOMAIN segmentedPackets \subseteq Endpoint
    /\ \A e \in DOMAIN segmentedPackets : /\ segmentedPackets[e] \in SegmentedPacket
                                          /\ Pending(segmentedPackets[e])

LEMMA IInvStep ==
    ASSUME IInv, [Next]_vars
    PROVE  IInv'
<1>0. /\ MapOK
      /\ frame \in Frame \cup {NoFrame}
      /\ body \in Seq(MessageHeader) /\ curSize \in Nat /\ packets \in Seq(Packet)
  BY DEF IInv, TypeOK, MapOK
<1>a. ASSUME MapOK', frame' \in Frame \cup {NoFrame},
             frame' # NoFrame => frame'.version \in Version,
             body' \in Seq(MessageHeader), curSize' \in Nat, packets' \in Seq(Packet)
      PROVE  IInv'
  BY <1>a DEF IInv, TypeOK, MapOK
<1>b. ASSUME segmentedPackets' = Erase(segmentedPackets, endpoint)
      PROVE  MapOK'
  BY <1>0, <1>b DEF MapOK, Erase
<1>c. ASSUME InLoop, NEW s \in SegmentedPacket, Pending(s),
             segmentedPackets' = Put(segmentedPackets, endpoint, s)
      PROVE  MapOK'
  BY <1>0, <1>c, LoopIs DEF MapOK, Put
<1>d. ASSUME Break, InLoop
      PROVE  /\ frame' \in Frame \cup {NoFrame} /\ body' \in Seq(MessageHeader)
             /\ frame' # NoFrame => frame'.version \in Version
             /\ curSize' \in Nat
  BY <1>d, LoopIs DEF Break
<1>1. ASSUME NEW f \in Datagrams, Receive(f)
      PROVE  IInv'
  <2>1. f \in Frame /\ f # NoFrame
    BY DatagramsAssumption, NoFrameAssumption
  <2>2. CASE IgnoreShort(f) \/ RouteToTecmp(f)
    <3>1. /\ UNCHANGED <<segmentedPackets, frame, body, curSize>>
          /\ frame = NoFrame /\ packets' = <<>>
      BY <2>2 DEF IgnoreShort, RouteToTecmp
    <3>2. MapOK'
      BY <1>0, <3>1 DEF MapOK
    <3> QED
      BY <1>0, <1>a, <3>1, <3>2
  <2>3. CASE Decode(f)
    <3>1. curSize' \in Nat /\ frame' \in Frame /\ frame'.version \in Version
            /\ body' \in Seq(MessageHeader)
      BY <2>1, <2>3, VersionAssumption DEF Decode, Frame, CmpHeaderSize
    <3> QED
      BY <1>0, <1>a, <2>3, <3>1 DEF Decode, MapOK
  <2> QED
    BY <1>1, <2>2, <2>3 DEF Receive
<1>2. CASE DropInvalid
  BY <1>0, <1>2, <1>a, <1>b, <1>d DEF DropInvalid
<1>3. CASE DecodeUnsegmented
  <2>1. message \in MessageHeader /\ body # <<>> /\ frame \in Frame
          /\ frame.version \in Version
    BY <1>3, LoopIs DEF DecodeUnsegmented
  <2>2. packets' \in Seq(Packet)
    BY <1>0, <1>3, <2>1, UnsegmentedType DEF DecodeUnsegmented
  <2>3. curSize' \in Nat
    BY SMTT(30), <1>0, <1>3, <2>1
       DEF DecodeUnsegmented, IsValidPacket, MessageHeader, Length, MessageHeaderSize
  <2>4. body' \in Seq(MessageHeader)
    BY <1>0, <1>3, <2>1 DEF DecodeUnsegmented
  <2> QED
    BY <1>3, <1>a, <1>b, <2>1, <2>2, <2>3, <2>4 DEF DecodeUnsegmented
<1>4. CASE StartAssembly
  <2>1. /\ FirstSegment(message, curSize, frame) \in SegmentedPacket
        /\ Pending(FirstSegment(message, curSize, frame))
    BY <1>4, LoopIs, FirstSegmentType DEF StartAssembly
  <2> QED
    BY <1>0, <1>4, <1>a, <1>c, <1>d, <2>1 DEF StartAssembly
<1>5. CASE RejectSegment
  BY <1>0, <1>5, <1>a, <1>b, <1>d DEF RejectSegment, LaterSegment
<1>6. CASE ContinueAssembly
  <2> DEFINE s == At(segmentedPackets, endpoint)
             added == AddSegment(s, message)
  <2>1. message \in MessageHeader /\ InLoop
    BY <1>6, LoopIs DEF ContinueAssembly, LaterSegment
  <2>2. added \in SegmentedPacket /\ added.segmentType = message.segmentType
    BY <2>1, AtIs, AddSegmentType
  <2>3. Pending(added)
    BY <1>6, <2>2 DEF ContinueAssembly, LaterSegment, Pending
  <2>4. segmentedPackets' = Put(segmentedPackets, endpoint, added)
    BY <1>6 DEF ContinueAssembly
  <2> HIDE DEF added
  <2> QED
    BY <1>0, <1>6, <1>a, <1>c, <1>d, <2>1, <2>2, <2>3, <2>4 DEF ContinueAssembly
<1>7. CASE FinishAssembly
  <2> DEFINE s == At(segmentedPackets, endpoint)
             added == AddSegment(s, message)
  <2>1. message \in MessageHeader /\ InLoop /\ frame \in Frame
          /\ frame.version \in Version
    BY <1>7, LoopIs DEF FinishAssembly, LaterSegment
  <2>2. /\ added \in SegmentedPacket
        /\ added.curVersion = s.curVersion /\ added.curMessageType = s.curMessageType
    BY <2>1, AtIs, AddSegmentType
  <2>3. added.curVersion \in Version /\ added.curMessageType \in MessageType
    BY <1>7, <2>1, <2>2 DEF FinishAssembly, CanAddSegment, Frame
  <2>4. packets' \in Seq(Packet)
    BY <1>0, <1>7, <2>1, <2>2, <2>3, AssembledType DEF FinishAssembly
  <2> QED
    BY <1>0, <1>7, <1>a, <1>b, <1>d, <2>1, <2>4 DEF FinishAssembly
<1>8. CASE Return
  BY <1>0, <1>8, <1>a DEF Return, MapOK
<1>9. CASE UNCHANGED vars
  BY <1>9 DEF vars, IInv, TypeOK
<1> QED
  BY <1>1, <1>2, <1>3, <1>4, <1>5, <1>6, <1>7, <1>8, <1>9 DEF Next, Iterate

LEMMA IInvInit == Init => IInv
BY DEF Init, IInv, TypeOK

LEMMA IInvInvariant == Spec => []IInv
BY IInvInit, IInvStep, PTL DEF Spec

(***************************************************************************)
(* Whatever datagrams arrive: the bytes left in a frame never go below     *)
(* zero, no packet leaves with the default entry's version or type, and    *)
(* every length fits the 16 bits of its field (decoder.cpp:29-84).         *)
(***************************************************************************)
THEOREM TypeCorrect == Spec => []TypeOK
BY IInvInvariant, PTL DEF IInv

\* Between two turns of the loop every entry of segmentedPackets waits for
\* another segment: a finished or an empty one is never kept, so a segment of
\* the next packet cannot join it (decoder.cpp:57-74).
THEOREM EntriesPending == Spec => [](\A e \in DOMAIN segmentedPackets : Pending(segmentedPackets[e]))
BY IInvInvariant, PTL DEF IInv
-----------------------------------------------------------------------------
\* What seen records.
Meeting ==
    [version: Version, messageType: MessageType, sequenceCounter: Counter,
     size: Nat, message: MessageHeader \cup {Padding}]

PieceOf(m, trailing) ==
    [data |-> m.data, length |-> m.payloadLength, trailing |-> trailing]

\* What one more message changes in the runs of a history, and what it does
\* not: runs that end before it are the same, and so are their payloads; a run
\* that ends with it extends one that ended just before, or starts with it.
LEMMA OpenRunAppend ==
    ASSUME NEW s \in Seq(Meeting), NEW r \in Meeting
    PROVE  /\ \A i, j \in 1 .. Len(s) : OpenRun(Append(s, r), i, j) <=> OpenRun(s, i, j)
           /\ \A i \in 1 .. Len(s) : OpenRun(Append(s, r), i, Len(s) + 1)
                <=> /\ OpenRun(s, i, Len(s))
                    /\ Follows(r, s[Len(s)])
                    /\ r.message.segmentType = "intermediarySegment"
           /\ OpenRun(Append(s, r), Len(s) + 1, Len(s) + 1) <=> Starts(r)
<1> DEFINE t == Append(s, r)
           n == Len(s)
<1>1. n \in Nat /\ t[n + 1] = r /\ \A k \in 1 .. n : t[k] = s[k]
  OBVIOUS
<1> HIDE DEF t, n
<1>2. ASSUME NEW i \in 1 .. n, NEW j \in 1 .. n
      PROVE  OpenRun(t, i, j) <=> OpenRun(s, i, j)
  <2>1. \A k \in i+1 .. j : k \in 1 .. n /\ k - 1 \in 1 .. n
    BY <1>1
  <2> QED
    BY <1>1, <2>1 DEF OpenRun
<1>3. ASSUME NEW i \in 1 .. n
      PROVE  OpenRun(t, i, n + 1)
                <=> /\ OpenRun(s, i, n)
                    /\ Follows(r, s[n])
                    /\ r.message.segmentType = "intermediarySegment"
  <2>1. i <= n /\ i <= n + 1 /\ t[i] = s[i] /\ (n + 1) - 1 = n /\ t[n] = s[n]
    BY <1>1
  <2>2. i+1 .. n+1 = (i+1 .. n) \cup {n + 1}
    BY <1>1
  <2>3. \A k \in i+1 .. n : t[k] = s[k] /\ t[k-1] = s[k-1]
    BY <1>1
  <2> QED
    BY <1>1, <2>1, <2>2, <2>3 DEF OpenRun
<1>4. OpenRun(t, n + 1, n + 1) <=> Starts(r)
  <2>1. (n + 1) + 1 .. n + 1 = {} /\ n + 1 <= n + 1
    BY <1>1
  <2> QED
    BY <1>1, <2>1 DEF OpenRun
<1> QED
  BY <1>2, <1>3, <1>4 DEF t, n

LEMMA CompleteRunAppend ==
    ASSUME NEW s \in Seq(Meeting), NEW r \in Meeting
    PROVE  /\ \A i, j \in 1 .. Len(s) :
                CompleteRun(Append(s, r), i, j) <=> CompleteRun(s, i, j)
           /\ \A i \in 1 .. Len(s) : CompleteRun(Append(s, r), i, Len(s) + 1)
                <=> /\ OpenRun(s, i, Len(s))
                    /\ Follows(r, s[Len(s)])
                    /\ r.message.segmentType = "lastSegment"
           /\ \A j \in 1 .. Len(s) + 1 : ~ CompleteRun(Append(s, r), Len(s) + 1, j)
<1> DEFINE t == Append(s, r)
           n == Len(s)
<1>1. n \in Nat /\ t[n + 1] = r /\ \A k \in 1 .. n : t[k] = s[k]
  OBVIOUS
<1>2. \A i, j \in 1 .. n : OpenRun(t, i, j) <=> OpenRun(s, i, j)
  BY OpenRunAppend
<1> HIDE DEF t, n
<1>3. ASSUME NEW i \in 1 .. n, NEW j \in 1 .. n
      PROVE  CompleteRun(t, i, j) <=> CompleteRun(s, i, j)
  <2>1. CASE i <= j - 1
    <3>1. j - 1 \in 1 .. n
      BY <1>1, <2>1
    <3> QED
      BY <1>1, <1>2, <3>1 DEF CompleteRun
  <2>2. CASE ~ (i <= j - 1)
    BY <2>2 DEF CompleteRun, OpenRun
  <2> QED
    BY <2>1, <2>2
<1>4. ASSUME NEW i \in 1 .. n
      PROVE  CompleteRun(t, i, n + 1)
                <=> /\ OpenRun(s, i, n)
                    /\ Follows(r, s[n])
                    /\ r.message.segmentType = "lastSegment"
  <2>1. (n + 1) - 1 = n /\ n \in 1 .. n
    BY <1>1
  <2> QED
    BY <1>1, <1>2, <2>1 DEF CompleteRun
<1>5. ASSUME NEW j \in 1 .. n + 1
      PROVE  ~ CompleteRun(t, n + 1, j)
  <2>1. ~ (n + 1 <= j - 1)
    BY <1>1
  <2> QED
    BY <2>1 DEF CompleteRun, OpenRun
<1> QED
  BY <1>3, <1>4, <1>5 DEF t, n

LEMMA RunPayloadAppend ==
    ASSUME NEW s \in Seq(Meeting), NEW r \in Meeting
    PROVE  /\ \A i, j \in 1 .. Len(s) : RunPayload(Append(s, r), i, j) = RunPayload(s, i, j)
           /\ \A i \in 1 .. Len(s) :
                RunPayload(Append(s, r), i, Len(s) + 1)
                  = Append(RunPayload(s, i, Len(s)), PieceOf(r.message, 0))
           /\ RunPayload(Append(s, r), Len(s) + 1, Len(s) + 1)
                = << PieceOf(r.message, r.size - MessageHeaderSize - r.message.payloadLength) >>
<1> DEFINE t == Append(s, r)
           n == Len(s)
<1>1. n \in Nat /\ t[n + 1] = r /\ \A k \in 1 .. n : t[k] = s[k]
  OBVIOUS
<1> HIDE DEF t, n
<1>2. ASSUME NEW i \in 1 .. n, NEW j \in 1 .. n
      PROVE  RunPayload(t, i, j) = RunPayload(s, i, j)
  <2>1. \A k \in 1 .. j - i + 1 : i + k - 1 \in 1 .. n
    BY <1>1
  <2>2. \A k \in 1 .. j - i + 1 : t[i + k - 1] = s[i + k - 1]
    BY <1>1, <2>1
  <2> QED
    BY <1>1, <2>2 DEF RunPayload
<1>3. ASSUME NEW i \in 1 .. n
      PROVE  RunPayload(t, i, n + 1) = Append(RunPayload(s, i, n), PieceOf(r.message, 0))
  <2> DEFINE a == RunPayload(t, i, n + 1)
             p == RunPayload(s, i, n)
             b == Append(p, PieceOf(r.message, 0))
  <2>1. n - i + 1 \in Nat /\ (n + 1) - i + 1 = (n - i + 1) + 1 /\ n - i + 1 >= 1
    BY <1>1
  <2>2. p = [k \in 1 .. n - i + 1 |-> p[k]]
    BY DEF RunPayload
  <2>3. DOMAIN a = 1 .. (n - i + 1) + 1
    BY <2>1 DEF RunPayload
  <2>4. b = [k \in 1 .. (n - i + 1) + 1 |->
               IF k = (n - i + 1) + 1 THEN PieceOf(r.message, 0) ELSE p[k]]
    <3> DEFINE l == n - i + 1
               e == PieceOf(r.message, 0)
    <3>1. l \in Nat /\ p = [k \in 1 .. l |-> p[k]]
      BY <2>1, <2>2
    <3> HIDE DEF p, l, e
    <3>2. /\ Append(p, e) = [k \in 1 .. l + 1 |-> Append(p, e)[k]]
          /\ \A k \in 1 .. l : Append(p, e)[k] = p[k]
          /\ Append(p, e)[l + 1] = e
      BY <3>1, AppendIs
    <3>3. \A k \in 1 .. l + 1 : k = l + 1 \/ (k # l + 1 /\ k \in 1 .. l)
      BY <3>1
    <3> QED
      BY <3>2, <3>3 DEF l, e
  <2>5. ASSUME NEW k \in 1 .. n - i + 1 PROVE a[k] = p[k]
    <3>1. i + k - 1 \in 1 .. n /\ t[i + k - 1] = s[i + k - 1] /\ t[i] = s[i]
      BY <1>1
    <3>2. k \in 1 .. (n + 1) - i + 1
      BY <1>1
    <3> QED
      BY <3>1, <3>2 DEF RunPayload
  <2>6. a[(n - i + 1) + 1] = PieceOf(r.message, 0)
    <3>1. (n - i + 1) + 1 \in 1 .. (n + 1) - i + 1 /\ (n - i + 1) + 1 # 1
            /\ i + ((n - i + 1) + 1) - 1 = n + 1
      BY <2>1, <1>1
    <3>2. \A k \in 1 .. (n + 1) - i + 1 : i + k - 1 = n + 1 /\ k # 1 =>
             a[k] = PieceOf(r.message, 0)
      BY <1>1 DEF RunPayload, PieceOf
    <3> QED
      BY <3>1, <3>2
  <2>7. a = [k \in 1 .. (n - i + 1) + 1 |-> a[k]]
    BY <2>1 DEF RunPayload
  <2> HIDE DEF a, b, p
  <2>8. \A k \in 1 .. (n - i + 1) + 1 :
           a[k] = IF k = (n - i + 1) + 1 THEN PieceOf(r.message, 0) ELSE p[k]
    BY <2>1, <2>5, <2>6
  <2>9. a = b
    BY <2>4, <2>7, <2>8
  <2> QED
    BY <2>9 DEF a, b, p
<1>4. RunPayload(t, n + 1, n + 1)
        = << PieceOf(r.message, r.size - MessageHeaderSize - r.message.payloadLength) >>
  <2>1. (n + 1) - (n + 1) + 1 = 1 /\ (n + 1) + 1 - 1 = n + 1
    BY <1>1
  <2>2. RunPayload(t, n + 1, n + 1)
          = [k \in 1 .. 1 |-> PieceOf(r.message, r.size - MessageHeaderSize
                                                   - r.message.payloadLength)]
    BY <1>1, <2>1 DEF RunPayload, PieceOf
  <2> QED
    BY <2>2
<1> QED
  BY <1>2, <1>3, <1>4 DEF t, n
-----------------------------------------------------------------------------
\* All the messages of a run have the version and type of the last one.
RunsUniform ==
    \A e \in Endpoint : \A i \in 1 .. Len(seen[e]) :
        OpenRun(seen[e], i, Len(seen[e])) =>
            /\ seen[e][i].version = seen[e][Len(seen[e])].version
            /\ seen[e][i].messageType = seen[e][Len(seen[e])].messageType

HTypeOK == seen \in [Endpoint -> Seq(Meeting)]

HInv == IInv /\ HTypeOK /\ AssemblyIsOpenRun /\ RunsUniform

\* One endpoint's part of AssemblyIsOpenRun and RunsUniform, for the messages
\* s and the map m.
Tracks(e, s, m) ==
    /\ e \in DOMAIN m <=> \E i \in 1 .. Len(s) : OpenRun(s, i, Len(s))
    /\ \A i \in 1 .. Len(s) : OpenRun(s, i, Len(s)) =>
         /\ m[e].payload = RunPayload(s, i, Len(s))
         /\ m[e].curVersion = s[Len(s)].version
         /\ m[e].curMessageType = s[Len(s)].messageType
         /\ m[e].curSegment = s[Len(s)].sequenceCounter
         /\ s[i].version = s[Len(s)].version
         /\ s[i].messageType = s[Len(s)].messageType

LEMMA TracksIs ==
    AssemblyIsOpenRun /\ RunsUniform
        <=> \A e \in Endpoint : Tracks(e, seen[e], segmentedPackets)
BY DEF AssemblyIsOpenRun, RunsUniform, Tracks

LEMMA MetIs ==
    ASSUME IInv, InLoop
    PROVE  /\ Met \in Meeting /\ From \in Endpoint /\ From = endpoint
           /\ Met.message = message /\ Met.size = curSize
           /\ Met.version = frame.version /\ Met.messageType = frame.messageType
           /\ Met.sequenceCounter = frame.sequenceCounter
<1>1. message \in MessageHeader \cup {Padding}
  BY DEF message, IInv, TypeOK
<1>2. frame \in Frame /\ frame.version \in Version /\ curSize \in Nat
  BY LoopIs
<1> QED
  BY <1>1, <1>2, LoopIs DEF Met, Meeting, From, endpoint, Frame

\* Below the last value of the counter ++ does not wrap.
LEMMA NextCounterIs ==
    ASSUME NEW c \in 0 .. CounterMod - 1, c + 1 \in 0 .. CounterMod - 1
    PROVE  NextCounter(c) = c + 1
BY CounterModAssumption DEF NextCounter

(***************************************************************************)
(* addSegment accepts a message exactly when it continues a run that the   *)
(* endpoint's messages end with; the counter it then stores is the         *)
(* message's, because curSegment + 1 of a value below the wrap is no wrap. *)
(***************************************************************************)
LEMMA CanAddIs ==
    ASSUME HInv, LaterSegment,
           NEW s, s = seen[endpoint], NEW n, n = Len(s),
           NEW entry, entry = At(segmentedPackets, endpoint)
    PROVE  /\ CanAddSegment(entry, message, curSize, frame)
                <=> \E i \in 1 .. n : OpenRun(s, i, n) /\ Follows(Met, s[n])
           /\ CanAddSegment(entry, message, curSize, frame) =>
                /\ endpoint \in DOMAIN segmentedPackets
                /\ entry = segmentedPackets[endpoint]
                /\ Follows(Met, s[n])
                /\ NextCounter(entry.curSegment) = Met.sequenceCounter
<1> USE DEF HInv
<1>1. /\ InLoop /\ IsValidPacket(message, curSize)
      /\ message.segmentType \in {"intermediarySegment", "lastSegment"}
  BY DEF LaterSegment
<1>2. /\ endpoint \in Endpoint /\ Met.message = message /\ Met.size = curSize
      /\ Met.version = frame.version /\ Met.messageType = frame.messageType
      /\ Met.sequenceCounter = frame.sequenceCounter
      /\ frame.version \in Version /\ frame \in Frame
  BY <1>1, MetIs, LoopIs
<1>3. Tracks(endpoint, s, segmentedPackets)
  BY <1>2, TracksIs
<1>4. Sound(Met)
  BY <1>1, <1>2 DEF Sound
<1>5. CASE endpoint \notin DOMAIN segmentedPackets
  <2>1. entry.curVersion = 0
    BY <1>5, AtIs
  <2>2. frame.version # 0
    BY <1>2, VersionAssumption
  <2>3. ~ CanAddSegment(entry, message, curSize, frame)
    BY <2>1, <2>2 DEF CanAddSegment
  <2> QED
    BY <1>3, <1>5, <2>3 DEF Tracks
<1>6. CASE endpoint \in DOMAIN segmentedPackets
  <2>1. PICK i \in 1 .. n : OpenRun(s, i, n)
    BY <1>3, <1>6 DEF Tracks
  <2>2. /\ entry = segmentedPackets[endpoint]
        /\ entry.curVersion = s[n].version
        /\ entry.curMessageType = s[n].messageType
        /\ entry.curSegment = s[n].sequenceCounter
    BY <1>3, <1>6, <2>1 DEF Tracks, At
  <2>3. entry \in SegmentedPacket /\ Pending(entry)
    BY <1>6, AtIs
  <2>4. message.segmentType \in ValidSegmentTypes(entry.segmentType)
    BY <1>1, <2>3 DEF ValidSegmentTypes, Pending
  <2>5. message.payloadLength <= curSize - MessageHeaderSize
    BY <1>1 DEF IsValidPacket
  <2>6. CanAddSegment(entry, message, curSize, frame) <=> Follows(Met, s[n])
    BY <1>2, <1>4, <2>2, <2>4, <2>5 DEF CanAddSegment, Follows
  <2>7. ASSUME CanAddSegment(entry, message, curSize, frame)
        PROVE  NextCounter(entry.curSegment) = Met.sequenceCounter
    <3>1. frame.sequenceCounter = entry.curSegment + 1
      BY <2>7 DEF CanAddSegment
    <3>2. frame.sequenceCounter \in 0 .. CounterMod - 1
            /\ entry.curSegment \in 0 .. CounterMod - 1
      BY <1>2, <2>3 DEF Frame, SegmentedPacket, Counter
    <3> QED
      BY <1>2, <3>1, <3>2, NextCounterIs
  <2> QED
    BY <1>6, <2>1, <2>2, <2>6, <2>7
<1> QED
  BY <1>5, <1>6

\* What each turn of the loop makes of the endpoint's entry.
LEMMA TurnTracks ==
    ASSUME HInv, Iterate
    PROVE  Tracks(endpoint, Append(seen[endpoint], Met), segmentedPackets')
<1> USE DEF HInv
<1> DEFINE e == endpoint
           s == seen[e]
           n == Len(s)
           r == Met
           t == Append(s, r)
<1>1. InLoop
  BY DEF Iterate, DropInvalid, DecodeUnsegmented, StartAssembly, RejectSegment,
         ContinueAssembly, FinishAssembly, LaterSegment
<1>2. /\ e \in Endpoint /\ r \in Meeting /\ r.message = message /\ r.size = curSize
      /\ r.version = frame.version /\ r.messageType = frame.messageType
      /\ r.sequenceCounter = frame.sequenceCounter
  BY <1>1, MetIs
<1>3. s \in Seq(Meeting) /\ n \in Nat
  BY <1>2 DEF HTypeOK
<1>4. Tracks(e, s, segmentedPackets)
  BY <1>2, TracksIs
<1>5. Len(t) = n + 1 /\ t[n + 1] = r /\ \A k \in 1 .. n : t[k] = s[k]
  BY <1>2, <1>3
<1>6. /\ \A i \in 1 .. n : OpenRun(t, i, n + 1)
            <=> /\ OpenRun(s, i, n)
                /\ Follows(r, s[n])
                /\ r.message.segmentType = "intermediarySegment"
      /\ OpenRun(t, n + 1, n + 1) <=> Starts(r)
  BY <1>2, <1>3, OpenRunAppend
<1>7. /\ \A i \in 1 .. n : RunPayload(t, i, n + 1)
            = Append(RunPayload(s, i, n), PieceOf(r.message, 0))
      /\ RunPayload(t, n + 1, n + 1)
           = << PieceOf(r.message, r.size - MessageHeaderSize - r.message.payloadLength) >>
  BY <1>2, <1>3, RunPayloadAppend
<1>8. Sound(r) <=> IsValidPacket(message, curSize)
  BY <1>2 DEF Sound
<1>9. 1 .. n + 1 = (1 .. n) \cup {n + 1}
  BY <1>3
<1> SUFFICES Tracks(e, t, segmentedPackets')
  OBVIOUS
<1> HIDE DEF t, s, n
\* No run ends with the message, and the entry goes.
<1>10. ASSUME segmentedPackets' = Erase(segmentedPackets, e), ~ Starts(r),
              \A i \in 1 .. n : ~ (/\ OpenRun(s, i, n) /\ Follows(r, s[n])
                                   /\ r.message.segmentType = "intermediarySegment")
       PROVE  Tracks(e, t, segmentedPackets')
  <2>1. \A i \in 1 .. n + 1 : ~ OpenRun(t, i, n + 1)
    BY <1>6, <1>9, <1>10
  <2>2. e \notin DOMAIN segmentedPackets'
    BY <1>10 DEF Erase
  <2> QED
    BY <1>5, <2>1, <2>2 DEF Tracks
<1>11. CASE DropInvalid
  BY <1>8, <1>10, <1>11 DEF DropInvalid, Starts, Follows
<1>12. CASE DecodeUnsegmented
  BY <1>2, <1>10, <1>12 DEF DecodeUnsegmented, Starts
<1>13. CASE StartAssembly
  <2> DEFINE first == FirstSegment(message, curSize, frame)
  <2>1. message.segmentType = "firstSegment" /\ IsValidPacket(message, curSize)
    BY <1>13 DEF StartAssembly
  <2>2. /\ e \in DOMAIN segmentedPackets' /\ segmentedPackets'[e] = first
    BY <1>13 DEF StartAssembly, Put
  <2>3. \A i \in 1 .. n + 1 : OpenRun(t, i, n + 1) <=> i = n + 1
    <3>1. \A i \in 1 .. n : i # n + 1
      BY <1>3 DEF n
    <3> QED
      BY <1>2, <1>6, <1>8, <1>9, <2>1, <3>1 DEF Starts
  <2>4. /\ first.payload = RunPayload(t, n + 1, n + 1)
        /\ first.curVersion = r.version /\ first.curMessageType = r.messageType
        /\ first.curSegment = r.sequenceCounter
    BY <1>2, <1>7 DEF FirstSegment, PieceOf
  <2>5. n + 1 \in 1 .. n + 1
    BY <1>9
  <2> HIDE DEF first
  <2> QED
    BY <1>5, <2>2, <2>3, <2>4, <2>5 DEF Tracks
<1>14. CASE RejectSegment
  <2>1. LaterSegment /\ ~ CanAddSegment(At(segmentedPackets, e), message, curSize, frame)
    BY <1>14 DEF RejectSegment
  <2>2. \A i \in 1 .. n : ~ (OpenRun(s, i, n) /\ Follows(r, s[n]))
    BY <2>1, CanAddIs DEF s, n
  <2>3. ~ Starts(r)
    BY <1>2, <2>1 DEF LaterSegment, Starts
  <2> QED
    BY <1>10, <1>14, <2>2, <2>3 DEF RejectSegment
<1>15. CASE ContinueAssembly
  <2> DEFINE entry == At(segmentedPackets, e)
             added == AddSegment(entry, message)
  <2>1. LaterSegment /\ CanAddSegment(entry, message, curSize, frame)
    BY <1>15 DEF ContinueAssembly
  <2>2. /\ e \in DOMAIN segmentedPackets /\ entry = segmentedPackets[e]
        /\ Follows(r, s[n]) /\ NextCounter(entry.curSegment) = r.sequenceCounter
    BY <2>1, CanAddIs DEF s, n
  <2>3. message \in MessageHeader
    BY <1>1, <2>1, LoopIs DEF LaterSegment
  <2>4. /\ added.payload = Append(entry.payload, PieceOf(message, 0))
        /\ added.curVersion = entry.curVersion
        /\ added.curMessageType = entry.curMessageType
        /\ added.curSegment = NextCounter(entry.curSegment)
        /\ added.segmentType = message.segmentType
    BY <2>3, AtIs, AddSegmentType DEF PieceOf
  <2>5. message.segmentType = "intermediarySegment"
    BY <1>15, <2>1, <2>4 DEF ContinueAssembly, LaterSegment
  <2>6. e \in DOMAIN segmentedPackets' /\ segmentedPackets'[e] = added
    BY <1>15 DEF ContinueAssembly, Put
  <2>7. \A i \in 1 .. n + 1 : OpenRun(t, i, n + 1) <=> i \in 1 .. n /\ OpenRun(s, i, n)
    <3>1. ~ Starts(r) /\ n + 1 \notin 1 .. n
      BY <1>2, <1>3, <2>5 DEF Starts, n
    <3> QED
      BY <1>2, <1>6, <1>9, <2>2, <2>5, <3>1
  <2>8. r.version = s[n].version /\ r.messageType = s[n].messageType
    BY <2>2 DEF Follows
  <2> HIDE DEF entry, added
  <2>9. ASSUME NEW i \in 1 .. n, OpenRun(s, i, n)
        PROVE  /\ added.payload = RunPayload(t, i, n + 1)
               /\ added.curVersion = r.version
               /\ added.curMessageType = r.messageType
               /\ added.curSegment = r.sequenceCounter
               /\ t[i].version = r.version /\ t[i].messageType = r.messageType
    <3>1. /\ entry.payload = RunPayload(s, i, n)
          /\ entry.curVersion = s[n].version
          /\ entry.curMessageType = s[n].messageType
          /\ s[i].version = s[n].version /\ s[i].messageType = s[n].messageType
      BY <1>4, <2>2, <2>9 DEF Tracks, n
    <3> QED
      BY <1>2, <1>5, <1>7, <2>2, <2>4, <2>8, <3>1
  <2>10. \E i \in 1 .. n : OpenRun(s, i, n)
    BY <1>4, <2>2 DEF Tracks, n
  <2> QED
    BY <1>5, <1>9, <2>6, <2>7, <2>9, <2>10 DEF Tracks
<1>16. CASE FinishAssembly
  <2> DEFINE entry == At(segmentedPackets, e)
  <2>1. LaterSegment /\ InLoop
    BY <1>1, <1>16 DEF FinishAssembly
  <2>2. message \in MessageHeader
    BY <2>1, LoopIs DEF LaterSegment
  <2>3. message.segmentType = "lastSegment"
    BY <1>16, <2>2, AtIs, AddSegmentType DEF FinishAssembly
  <2> QED
    BY <1>2, <1>10, <1>16, <2>3 DEF FinishAssembly, Starts
<1> QED
  BY <1>11, <1>12, <1>13, <1>14, <1>15, <1>16 DEF Iterate
-----------------------------------------------------------------------------
LEMMA HInvStep ==
    ASSUME HInv, [HNext]_hvars
    PROVE  HInv'
<1>1. CASE HIterate
  <2>1. Iterate /\ InLoop
    BY <1>1 DEF HIterate, Iterate, DropInvalid, DecodeUnsegmented, StartAssembly,
                RejectSegment, ContinueAssembly, FinishAssembly, LaterSegment
  <2>2. IInv'
    BY <2>1, IInvStep DEF HInv, Next
  <2>3. /\ From = endpoint /\ From \in Endpoint /\ Met \in Meeting
    BY <2>1, MetIs DEF HInv
  <2>4. seen' = [seen EXCEPT ![From] = Append(@, Met)]
    BY <1>1 DEF HIterate
  <2>5. HTypeOK'
    BY <2>3, <2>4 DEF HTypeOK, HInv
  <2>6. Tracks(From, seen'[From], segmentedPackets')
    BY <2>1, <2>3, <2>4, TurnTracks DEF HInv, HTypeOK
  <2>7. ASSUME NEW e \in Endpoint, e # From
        PROVE  Tracks(e, seen'[e], segmentedPackets')
    <3>1. seen'[e] = seen[e]
      BY <2>3, <2>4, <2>7 DEF HInv, HTypeOK
    <3>2. /\ e \in DOMAIN segmentedPackets' <=> e \in DOMAIN segmentedPackets
          /\ e \in DOMAIN segmentedPackets => segmentedPackets'[e] = segmentedPackets[e]
      BY <2>1, <2>3, <2>7
         DEF Iterate, DropInvalid, DecodeUnsegmented, StartAssembly, RejectSegment,
             ContinueAssembly, FinishAssembly, Erase, Put
    <3>3. Tracks(e, seen[e], segmentedPackets)
      BY TracksIs DEF HInv
    <3> QED
      BY <3>1, <3>2, <3>3 DEF Tracks
  <2>8. \A e \in Endpoint : Tracks(e, seen'[e], segmentedPackets')
    BY <2>6, <2>7
  <2>9. AssemblyIsOpenRun' /\ RunsUniform'
    BY <2>8 DEF AssemblyIsOpenRun, RunsUniform, Tracks
  <2> QED
    BY <2>2, <2>5, <2>9 DEF HInv
<1>2. CASE HOther
  <2>1. IInv'
    BY <1>2, IInvStep DEF HOther, HInv, Next
  <2>2. UNCHANGED <<segmentedPackets, seen>>
    BY <1>2 DEF HOther, Receive, IgnoreShort, RouteToTecmp, Decode, Return
  <2> QED
    BY <2>1, <2>2 DEF HInv, HTypeOK, AssemblyIsOpenRun, RunsUniform
<1>3. CASE UNCHANGED hvars
  <2>1. IInv'
    BY <1>3, IInvStep DEF HInv, hvars, vars
  <2> QED
    BY <1>3, <2>1 DEF hvars, HInv, HTypeOK, AssemblyIsOpenRun, RunsUniform
<1> QED
  BY <1>1, <1>2, <1>3 DEF HNext

LEMMA HInvInvariant == HSpec => []HInv
<1>1. HInit => HInv
  <2> SUFFICES ASSUME HInit PROVE HInv
    OBVIOUS
  <2>1. IInv
    BY IInvInit DEF HInit
  <2>2. \A e \in Endpoint : seen[e] = <<>>
    BY DEF HInit
  <2>3. HTypeOK
    BY DEF HInit, HTypeOK
  <2>4. AssemblyIsOpenRun /\ RunsUniform
    <3>1. DOMAIN segmentedPackets = {}
      BY DEF HInit, Init
    <3> QED
      BY <2>2, <3>1 DEF AssemblyIsOpenRun, RunsUniform
  <2> QED
    BY <2>1, <2>3, <2>4 DEF HInv
<1> QED
  BY <1>1, HInvStep, PTL DEF HSpec

(***************************************************************************)
(* However the frames of any number of endpoints interleave, an endpoint   *)
(* has a packet under assembly exactly while its own last messages are a   *)
(* first segment and its successors without a gap, and the packet holds    *)
(* the bytes of just these messages, in order (decoder.cpp:29-81).         *)
(***************************************************************************)
THEOREM AssemblyFollowsRun == HSpec => []AssemblyIsOpenRun
BY HInvInvariant, PTL DEF HInv
-----------------------------------------------------------------------------
\* The packets a step hands over to an endpoint, with the message that completed
\* them, and what they say.
Handed(e) == {[at |-> Len(seen[From]) + 1, packet |-> p] : p \in Added(e)}
Said(d) == [at |-> d.at, content |-> Content(d.packet)]
IsAssembly(d) == d.packet.segmentFlags = "firstSegment"
Assemblies(D) == {Said(d) : d \in {d \in D : IsAssembly(d)}}
Others(D) == {Said(d) : d \in {d \in D : ~ IsAssembly(d)}}

\* The complete runs that end with one more message r.
Ends(s, r) ==
    {i \in 1 .. Len(s) : /\ OpenRun(s, i, Len(s))
                         /\ Follows(r, s[Len(s)])
                         /\ r.message.segmentType = "lastSegment"}

\* What an unsegmented message says.
SaidUnsegmented(s, j) ==
    [at |-> j, content |->
        [version |-> s[j].version, messageType |-> s[j].messageType,
         payload |-> << PieceOf(s[j].message, 0) >>]]

\* What a message r behind the messages s completes, and says itself.
Completes(s, r) ==
    {[at |-> Len(s) + 1, content |-> ContentOf(Append(s, r), i, Len(s) + 1)]
       : i \in Ends(s, r)}
SaysItself(s, r) ==
    {SaidUnsegmented(Append(s, r), j) :
        j \in {j \in {Len(s) + 1} : /\ Sound(r)
                                    /\ r.message.segmentType = "unsegmented"}}

LEMMA ExpectedIs ==
    ASSUME NEW s, NEW x
    PROVE  x \in ExpectedAssembled(s) <=>
             \E i, j \in DOMAIN s : CompleteRun(s, i, j)
                                    /\ x = [at |-> j, content |-> ContentOf(s, i, j)]
<1>1. ASSUME x \in ExpectedAssembled(s)
      PROVE  \E i, j \in DOMAIN s : CompleteRun(s, i, j)
                                    /\ x = [at |-> j, content |-> ContentOf(s, i, j)]
  <2>1. PICK ij \in (DOMAIN s) \X (DOMAIN s) :
           /\ CompleteRun(s, ij[1], ij[2])
           /\ x = [at |-> ij[2], content |-> ContentOf(s, ij[1], ij[2])]
    BY <1>1 DEF ExpectedAssembled
  <2> QED
    BY <2>1
<1>2. ASSUME NEW i \in DOMAIN s, NEW j \in DOMAIN s, CompleteRun(s, i, j),
             x = [at |-> j, content |-> ContentOf(s, i, j)]
      PROVE  x \in ExpectedAssembled(s)
  <2>1. /\ <<i, j>> \in (DOMAIN s) \X (DOMAIN s)
        /\ CompleteRun(s, <<i, j>>[1], <<i, j>>[2])
        /\ x = [at |-> <<i, j>>[2], content |-> ContentOf(s, <<i, j>>[1], <<i, j>>[2])]
    BY <1>2
  <2> QED
    BY <2>1, Zenon DEF ExpectedAssembled
<1> QED
  BY <1>1, <1>2

LEMMA ExpectedAppend ==
    ASSUME NEW s \in Seq(Meeting), NEW r \in Meeting
    PROVE  ExpectedAssembled(Append(s, r))
             = ExpectedAssembled(s) \cup Completes(s, r)
<1> DEFINE t == Append(s, r)
           n == Len(s)
<1>1. /\ n \in Nat /\ DOMAIN s = 1 .. n /\ DOMAIN t = (1 .. n) \cup {n + 1}
      /\ \A k \in 1 .. n : t[k] = s[k]
  OBVIOUS
<1>2. /\ \A i, j \in 1 .. n : CompleteRun(t, i, j) <=> CompleteRun(s, i, j)
      /\ \A i \in 1 .. n : CompleteRun(t, i, n + 1) <=> i \in Ends(s, r)
      /\ \A j \in 1 .. n + 1 : ~ CompleteRun(t, n + 1, j)
  BY CompleteRunAppend DEF Ends
<1>3. \A i, j \in 1 .. n : ContentOf(t, i, j) = ContentOf(s, i, j)
  BY <1>1, RunPayloadAppend DEF ContentOf
<1>4. Ends(s, r) \subseteq 1 .. n
  BY DEF Ends
<1>5. (1 .. n) \cup {n + 1} = 1 .. n + 1
  BY <1>1
<1> HIDE DEF t, n
<1>6. \A x : x \in ExpectedAssembled(t) <=>
         \E i, j \in DOMAIN t : CompleteRun(t, i, j)
                                /\ x = [at |-> j, content |-> ContentOf(t, i, j)]
  BY ExpectedIs
<1>7. \A x : x \in ExpectedAssembled(s) <=>
         \E i, j \in DOMAIN s : CompleteRun(s, i, j)
                                /\ x = [at |-> j, content |-> ContentOf(s, i, j)]
  BY ExpectedIs
<1> DEFINE new == {[at |-> n + 1, content |-> ContentOf(t, i, n + 1)] : i \in Ends(s, r)}
<1>8. ASSUME NEW x \in ExpectedAssembled(t)
      PROVE  x \in ExpectedAssembled(s) \cup new
  <2>1. PICK i, j \in DOMAIN t : CompleteRun(t, i, j)
                                 /\ x = [at |-> j, content |-> ContentOf(t, i, j)]
    BY <1>6
  <2>2. i \in 1 .. n
    BY <1>1, <1>2, <1>5, <2>1
  <2>3. CASE j \in 1 .. n
    BY <1>1, <1>2, <1>3, <1>7, <2>1, <2>2, <2>3
  <2>4. CASE j = n + 1
    BY <1>2, <2>1, <2>2, <2>4
  <2> QED
    BY <1>1, <2>1, <2>3, <2>4
<1>9. ASSUME NEW x \in ExpectedAssembled(s)
      PROVE  x \in ExpectedAssembled(t)
  <2>1. PICK i, j \in 1 .. n : CompleteRun(s, i, j)
                               /\ x = [at |-> j, content |-> ContentOf(s, i, j)]
    BY <1>1, <1>7
  <2> QED
    BY <1>1, <1>2, <1>3, <1>6, <2>1
<1>10. ASSUME NEW x \in new
       PROVE  x \in ExpectedAssembled(t)
  <2>1. PICK i \in Ends(s, r) : x = [at |-> n + 1, content |-> ContentOf(t, i, n + 1)]
    OBVIOUS
  <2>2. i \in DOMAIN t /\ n + 1 \in DOMAIN t /\ CompleteRun(t, i, n + 1)
    BY <1>1, <1>2, <1>4
  <2> QED
    BY <1>6, <2>1, <2>2
<1>11. ExpectedAssembled(t) = ExpectedAssembled(s) \cup new
  BY <1>8, <1>9, <1>10
<1> QED
  BY <1>11 DEF t, n, Completes

LEMMA AddedNone ==
    ASSUME packets \in Seq(Packet), UNCHANGED packets, NEW e
    PROVE  Added(e) = {}
BY DEF Added

LEMMA AddedOne ==
    ASSUME packets \in Seq(Packet), NEW p, packets' = Append(packets, p), NEW e
    PROVE  Added(e) = IF PacketEndpoint(p) = e THEN {p} ELSE {}
<1>1. /\ DOMAIN packets' \ DOMAIN packets = {Len(packets) + 1}
      /\ packets'[Len(packets) + 1] = p
  OBVIOUS
<1> QED
  BY <1>1 DEF Added

\* What a turn of the loop hands over, and to whom.
LEMMA TurnHands ==
    ASSUME HInv, Iterate
    PROVE  /\ \A e \in Endpoint : e # endpoint => Handed(e) = {}
           /\ Assemblies(Handed(endpoint)) = Completes(seen[endpoint], Met)
           /\ Others(Handed(endpoint)) = SaysItself(seen[endpoint], Met)
<1> USE DEF HInv
<1> DEFINE e0 == endpoint
           r == Met
           s == seen[endpoint]
           n == Len(s)
           t == Append(s, r)
<1>1. InLoop
  BY DEF Iterate, DropInvalid, DecodeUnsegmented, StartAssembly, RejectSegment,
         ContinueAssembly, FinishAssembly, LaterSegment
<1>2. /\ e0 \in Endpoint /\ From = e0 /\ r \in Meeting /\ r.message = message
      /\ r.size = curSize
      /\ r.version = frame.version /\ r.messageType = frame.messageType
  BY <1>1, MetIs
<1>3. /\ s \in Seq(Meeting) /\ n \in Nat /\ packets \in Seq(Packet)
      /\ t[n + 1] = r /\ \A k \in 1 .. n : t[k] = s[k]
  BY <1>2 DEF HTypeOK, IInv, TypeOK
<1>4. Sound(r) <=> IsValidPacket(message, curSize)
  BY <1>2 DEF Sound
<1>5. From = <<frame.deviceId, frame.streamId>>
  BY DEF From
\* A step that hands over nothing.
<1>6. ASSUME UNCHANGED packets, Ends(s, r) = {},
             ~ (Sound(r) /\ message.segmentType = "unsegmented")
      PROVE  /\ \A e \in Endpoint : e # e0 => Handed(e) = {}
             /\ Assemblies(Handed(e0)) = Completes(s, r)
             /\ Others(Handed(e0)) = SaysItself(s, r)
  <2>1. \A e : Handed(e) = {}
    BY <1>3, <1>6, AddedNone DEF Handed
  <2> QED
    BY <1>2, <1>6, <2>1 DEF Assemblies, Others, Completes, SaysItself
<1>7. CASE DropInvalid
  BY <1>4, <1>6, <1>7 DEF DropInvalid, Ends, Follows
<1>8. CASE StartAssembly
  BY <1>2, <1>6, <1>8 DEF StartAssembly, Ends
<1>9. CASE RejectSegment
  <2>1. LaterSegment /\ ~ CanAddSegment(At(segmentedPackets, e0), message, curSize, frame)
    BY <1>9 DEF RejectSegment
  <2>2. Ends(s, r) = {}
    BY <2>1, CanAddIs DEF Ends
  <2> QED
    BY <1>6, <1>9, <2>1, <2>2 DEF RejectSegment, LaterSegment
<1>10. CASE ContinueAssembly
  <2>1. LaterSegment /\ message \in MessageHeader
    BY <1>1, <1>10, LoopIs DEF ContinueAssembly, LaterSegment
  <2>2. message.segmentType # "lastSegment"
    BY <1>10, <2>1, AtIs, AddSegmentType DEF ContinueAssembly
  <2> QED
    BY <1>2, <1>6, <1>10, <2>1, <2>2 DEF ContinueAssembly, LaterSegment, Ends
<1>11. CASE DecodeUnsegmented
  <2> DEFINE p == UnsegmentedPacket(message, frame)
             d0 == [at |-> n + 1, packet |-> p]
  <2>1. /\ IsValidPacket(message, curSize) /\ message.segmentType = "unsegmented"
        /\ packets' = Append(packets, p)
    BY <1>11 DEF DecodeUnsegmented
  <2>2. /\ PacketEndpoint(p) = e0 /\ p.segmentFlags = "unsegmented"
        /\ Content(p) = [version |-> r.version, messageType |-> r.messageType,
                         payload |-> << PieceOf(message, 0) >>]
    BY <1>2, <1>5, <2>1 DEF UnsegmentedPacket, PacketEndpoint, Content, PieceOf
  <2>3. Ends(s, r) = {}
    BY <1>2, <2>1 DEF Ends
  <2> HIDE DEF p
  <2>4. \A e : Handed(e) = IF e = e0 THEN {d0} ELSE {}
    <3> TAKE e
    <3>1. Added(e) = IF e = e0 THEN {p} ELSE {}
      BY <1>3, <2>1, <2>2, AddedOne
    <3>2. Len(seen[From]) = n
      BY <1>2
    <3> QED
      BY <3>1, <3>2 DEF Handed
  <2>5. ~ IsAssembly(d0) /\ Said(d0) = SaidUnsegmented(t, n + 1)
    BY <1>2, <1>3, <2>2 DEF IsAssembly, Said, SaidUnsegmented
  <2> HIDE DEF d0
  <2> QED
    BY <1>2, <1>4, <2>1, <2>3, <2>4, <2>5 DEF Assemblies, Others, Completes, SaysItself
<1>12. CASE FinishAssembly
  <2> DEFINE entry == At(segmentedPackets, e0)
             added == AddSegment(entry, message)
             p == AssembledPacket(added, frame)
             d0 == [at |-> n + 1, packet |-> p]
  <2>1. /\ LaterSegment /\ CanAddSegment(entry, message, curSize, frame)
        /\ packets' = Append(packets, p) /\ added.segmentType = "lastSegment"
    BY <1>12 DEF FinishAssembly
  <2>2. message \in MessageHeader
    BY <1>1, <2>1, LoopIs DEF LaterSegment
  <2>3. /\ added.payload = Append(entry.payload, PieceOf(message, 0))
        /\ added.curVersion = entry.curVersion
        /\ added.curMessageType = entry.curMessageType
        /\ message.segmentType = "lastSegment"
    BY <2>1, <2>2, AtIs, AddSegmentType DEF PieceOf
  <2>4. /\ e0 \in DOMAIN segmentedPackets /\ entry = segmentedPackets[e0]
        /\ Follows(r, s[n])
        /\ \E i \in 1 .. n : OpenRun(s, i, n) /\ Follows(r, s[n])
    BY <2>1, CanAddIs
  <2> HIDE DEF entry, added
  <2>5. /\ PacketEndpoint(p) = e0 /\ p.segmentFlags = "firstSegment"
        /\ Content(p) = [version |-> entry.curVersion,
                         messageType |-> entry.curMessageType,
                         payload |-> Append(entry.payload, PieceOf(message, 0))]
    BY <1>2, <1>5, <2>3 DEF AssembledPacket, PacketEndpoint, Content
  <2> HIDE DEF p
  <2>6. ASSUME NEW i \in Ends(s, r)
        PROVE  ContentOf(t, i, n + 1) = Content(p)
    <3>1. i \in 1 .. n /\ OpenRun(s, i, n)
      BY DEF Ends
    <3>2. Tracks(e0, s, segmentedPackets)
      BY <1>2, TracksIs
    <3>3. /\ entry.payload = RunPayload(s, i, n)
          /\ entry.curVersion = s[i].version
          /\ entry.curMessageType = s[i].messageType
      BY <2>4, <3>1, <3>2 DEF Tracks
    <3>4. RunPayload(t, i, n + 1) = Append(RunPayload(s, i, n), PieceOf(message, 0))
      BY <1>2, <1>3, <3>1, RunPayloadAppend
    <3> QED
      BY <1>3, <2>5, <3>1, <3>3, <3>4 DEF ContentOf
  <2>7. Ends(s, r) # {}
    BY <1>2, <2>3, <2>4 DEF Ends
  <2>8. \A e : Handed(e) = IF e = e0 THEN {d0} ELSE {}
    <3> TAKE e
    <3>1. Added(e) = IF e = e0 THEN {p} ELSE {}
      BY <1>3, <2>1, <2>5, AddedOne
    <3>2. Len(seen[From]) = n
      BY <1>2
    <3> QED
      BY <3>1, <3>2 DEF Handed
  <2>9. IsAssembly(d0) /\ Said(d0) = [at |-> n + 1, content |-> Content(p)]
    BY <2>5 DEF IsAssembly, Said
  <2> HIDE DEF d0
  <2>10. {[at |-> n + 1, content |-> ContentOf(t, i, n + 1)] : i \in Ends(s, r)}
           = {Said(d0)}
    BY <2>6, <2>7, <2>9
  <2> QED
    BY <1>2, <2>3, <2>8, <2>9, <2>10 DEF Assemblies, Others, Completes, SaysItself
<1> QED
  BY <1>7, <1>8, <1>9, <1>10, <1>11, <1>12 DEF Iterate
-----------------------------------------------------------------------------
\* The last message that was met does not leave a sound message unread.
ReadToEnd(s) ==
    s # <<>> /\ Len(s) \in Unsegmented(s)
        => s[Len(s)].size = MessageHeaderSize + s[Len(s)].message.payloadLength

DInv ==
    /\ \A e \in Endpoint : Assemblies(delivered[e]) = ExpectedAssembled(seen[e])
    /\ \A e \in Endpoint :
         Others(delivered[e])
           = {SaidUnsegmented(seen[e], j) : j \in Unsegmented(seen[e])}
    /\ \A e \in Endpoint :
         frame = NoFrame \/ curSize = 0 \/ e # From => ReadToEnd(seen[e])

LEMMA DInvIs == DInv => AssembledExactly /\ UnsegmentedExactly
<1> SUFFICES ASSUME DInv PROVE AssembledExactly /\ UnsegmentedExactly
  OBVIOUS
<1>1. AssembledExactly
  BY DEF DInv, AssembledExactly, Assemblies, Assembled, Said, IsAssembly
<1>2. \A e \in Endpoint : {d \in delivered[e] : ~ IsAssembly(d)}
                             = delivered[e] \ Assembled(e)
  BY DEF Assembled, IsAssembly
<1>3. \A e \in Endpoint :
        {[at |-> d.at, content |-> Content(d.packet)] :
            d \in delivered[e] \ Assembled(e)}
          = {SaidUnsegmented(seen[e], j) : j \in Unsegmented(seen[e])}
  BY <1>2 DEF DInv, Others, Said
<1>4. UnsegmentedExactly
  BY <1>3 DEF DInv, UnsegmentedExactly, SaidUnsegmented, PieceOf, ReadToEnd
<1> QED
  BY <1>1, <1>4

LEMMA UnsegmentedAppend ==
    ASSUME NEW s \in Seq(Meeting), NEW r \in Meeting
    PROVE  /\ Unsegmented(Append(s, r))
                = Unsegmented(s) \cup
                    {j \in {Len(s) + 1} : /\ Sound(r)
                                          /\ r.message.segmentType = "unsegmented"}
           /\ \A j \in Unsegmented(s) :
                SaidUnsegmented(Append(s, r), j) = SaidUnsegmented(s, j)
<1> DEFINE t == Append(s, r)
           n == Len(s)
<1>1. /\ DOMAIN s = 1 .. n /\ DOMAIN t = (1 .. n) \cup {n + 1}
      /\ n + 1 \notin 1 .. n
      /\ t[n + 1] = r /\ \A k \in 1 .. n : t[k] = s[k]
  OBVIOUS
<1> HIDE DEF t, n
<1>2. Unsegmented(t) = Unsegmented(s) \cup
        {j \in {n + 1} : Sound(r) /\ r.message.segmentType = "unsegmented"}
  BY <1>1 DEF Unsegmented
<1>3. \A j \in Unsegmented(s) : SaidUnsegmented(t, j) = SaidUnsegmented(s, j)
  BY <1>1 DEF Unsegmented, SaidUnsegmented
<1> QED
  BY <1>2, <1>3 DEF t, n

LEMMA DInvStep ==
    ASSUME HInv, DInv, [HNext]_hvars
    PROVE  DInv'
<1>1. CASE HIterate
  <2>1. Iterate /\ InLoop
    BY <1>1 DEF HIterate, Iterate, DropInvalid, DecodeUnsegmented, StartAssembly,
                RejectSegment, ContinueAssembly, FinishAssembly, LaterSegment
  <2>2. /\ From = endpoint /\ From \in Endpoint /\ Met \in Meeting
        /\ Met.message = message /\ Met.size = curSize
    BY <2>1, MetIs DEF HInv
  <2> DEFINE s == seen[From]
             n == Len(s)
             t == Append(s, Met)
  <2>3. s \in Seq(Meeting) /\ seen \in [Endpoint -> Seq(Meeting)]
    BY <2>2 DEF HInv, HTypeOK
  <2>4. /\ seen'[From] = t
        /\ \A e \in Endpoint : e # From => seen'[e] = seen[e]
    BY <1>1, <2>2, <2>3 DEF HIterate
  <2>5. \A e \in Endpoint : delivered'[e] = delivered[e] \cup Handed(e)
    BY <1>1 DEF HIterate, Handed
  <2>6. /\ \A e \in Endpoint : e # From => Handed(e) = {}
        /\ Assemblies(Handed(From)) = Completes(s, Met)
        /\ Others(Handed(From)) = SaysItself(s, Met)
    BY <2>1, <2>2, TurnHands
  <2>7. \A D, H : /\ Assemblies(D \cup H) = Assemblies(D) \cup Assemblies(H)
                  /\ Others(D \cup H) = Others(D) \cup Others(H)
    BY DEF Assemblies, Others
  <2>8. ExpectedAssembled(t) = ExpectedAssembled(s) \cup Completes(s, Met)
    BY <2>2, <2>3, ExpectedAppend
  <2>9. /\ Unsegmented(t) = Unsegmented(s) \cup
             {j \in {n + 1} : Sound(Met) /\ message.segmentType = "unsegmented"}
        /\ \A j \in Unsegmented(s) : SaidUnsegmented(t, j) = SaidUnsegmented(s, j)
    BY <2>2, <2>3, UnsegmentedAppend
  <2>10. /\ t # <<>> /\ Len(t) = n + 1 /\ t[n + 1] = Met /\ n \in Nat
         /\ n + 1 \notin Unsegmented(s)
    BY <2>2, <2>3 DEF Unsegmented
  <2> HIDE DEF s, n, t
  <2>11. Assemblies(delivered'[From]) = ExpectedAssembled(seen'[From])
    <3>1. Assemblies(delivered[From]) = ExpectedAssembled(s)
      BY <2>2 DEF DInv, s
    <3> QED
      BY <2>2, <2>4, <2>5, <2>6, <2>7, <2>8, <3>1
  <2>12. Others(delivered'[From])
           = {SaidUnsegmented(seen'[From], j) : j \in Unsegmented(seen'[From])}
    <3>1. Others(delivered[From]) = {SaidUnsegmented(s, j) : j \in Unsegmented(s)}
      BY <2>2 DEF DInv, s
    <3>2. {SaidUnsegmented(s, j) : j \in Unsegmented(s)}
            = {SaidUnsegmented(t, j) : j \in Unsegmented(s)}
      BY <2>9
    <3> DEFINE N == {j \in {n + 1} : Sound(Met) /\ message.segmentType = "unsegmented"}
    <3> HIDE DEF N
    <3>3. {SaidUnsegmented(t, j) : j \in Unsegmented(t)}
            = {SaidUnsegmented(t, j) : j \in Unsegmented(s)}
                \cup {SaidUnsegmented(t, j) : j \in N}
      BY <2>9 DEF N
    <3>4. Others(Handed(From)) = {SaidUnsegmented(t, j) : j \in N}
      BY <2>2, <2>6 DEF N, SaysItself, s, n, t
    <3> QED
      BY <2>2, <2>4, <2>5, <2>7, <3>1, <3>2, <3>3, <3>4
  <2>13. curSize' = 0 => ReadToEnd(t)
    <3> SUFFICES ASSUME curSize' = 0, Sound(Met), message.segmentType = "unsegmented"
                 PROVE  Met.size = MessageHeaderSize + message.payloadLength
      BY <2>2, <2>9, <2>10 DEF ReadToEnd
    <3>1. IsValidPacket(message, curSize)
      BY <2>2 DEF Sound
    <3>2. DecodeUnsegmented
      BY <2>1, <3>1, AtIs
         DEF Iterate, DropInvalid, StartAssembly, RejectSegment, ContinueAssembly,
             FinishAssembly, LaterSegment
    <3>3. message \in MessageHeader /\ curSize \in Nat
      BY <2>1, <3>1, LoopIs DEF HInv
    <3> QED
      BY <2>2, <3>2, <3>3 DEF DecodeUnsegmented, MessageHeaderSize, MessageHeader, Length
  <2>14. frame' = frame /\ frame # NoFrame
    BY <2>1 DEF Iterate, DropInvalid, DecodeUnsegmented, StartAssembly, RejectSegment,
                ContinueAssembly, FinishAssembly, Break, InLoop
  <2>15. From' = From
    BY <2>14 DEF From
  <2>16. ASSUME NEW e \in Endpoint
         PROVE  /\ Assemblies(delivered'[e]) = ExpectedAssembled(seen'[e])
                /\ Others(delivered'[e])
                     = {SaidUnsegmented(seen'[e], j) : j \in Unsegmented(seen'[e])}
                /\ frame' = NoFrame \/ curSize' = 0 \/ e # From' => ReadToEnd(seen'[e])
    <3>1. CASE e = From
      BY <2>4, <2>11, <2>12, <2>13, <2>14, <2>15, <3>1
    <3>2. CASE e # From
      <4>1. delivered'[e] = delivered[e] /\ seen'[e] = seen[e]
        BY <2>4, <2>5, <2>6, <3>2
      <4> QED
        BY <3>2, <4>1 DEF DInv
    <3> QED
      BY <3>1, <3>2
  <2> QED
    BY <2>16 DEF DInv, Assemblies, Others, IsAssembly, Said
<1>2. CASE HOther
  <2>1. UNCHANGED <<seen, delivered>>
    BY <1>2 DEF HOther
  <2>2. \A e \in Endpoint :
           frame' = NoFrame \/ curSize' = 0 \/ e # From' => ReadToEnd(seen[e])
    <3>1. CASE Return
      BY <3>1 DEF Return, DInv
    <3>2. CASE \E f \in Datagrams : Receive(f)
      BY <3>2 DEF Receive, IgnoreShort, RouteToTecmp, Decode, DInv
    <3> QED
      BY <1>2, <3>1, <3>2 DEF HOther
  <2> QED
    BY <2>1, <2>2 DEF DInv
<1>3. CASE UNCHANGED hvars
  BY <1>3 DEF hvars, DInv, From
<1> QED
  BY <1>1, <1>2, <1>3 DEF HNext

LEMMA DInvInvariant == HSpec => []DInv
<1>1. HInit => DInv
  <2> SUFFICES ASSUME HInit PROVE DInv
    OBVIOUS
  <2>1. \A e \in Endpoint : seen[e] = <<>> /\ delivered[e] = {}
    BY DEF HInit
  <2>2. \A x : x \notin ExpectedAssembled(<<>>)
    BY ExpectedIs
  <2>3. Assemblies({}) = {} /\ Others({}) = {} /\ Unsegmented(<<>>) = {}
    BY DEF Assemblies, Others, Unsegmented
  <2> QED
    BY <2>1, <2>2, <2>3 DEF DInv, ReadToEnd
<1> QED
  BY <1>1, DInvStep, HInvInvariant, PTL DEF HSpec

(***************************************************************************)
(* However frames are lost, repeated, reordered and interleaved, the       *)
(* packets put together for an endpoint are exactly the complete runs of   *)
(* segments among its own messages, each once (decoder.cpp:49-76,107-143). *)
(***************************************************************************)
THEOREM AssemblyIsExact == HSpec => []AssembledExactly
BY DInvInvariant, DInvIs, PTL

\* Every sound unsegmented message is handed over once, and decode() does not
\* stop behind one before the end of its frame (decoder.cpp:37-48, 78-80).
THEOREM UnsegmentedIsExact == HSpec => []UnsegmentedExactly
BY DInvInvariant, DInvIs, PTL
-----------------------------------------------------------------------------
\* The bytes of a payload, one piece at a time.
LEMMA BytesType ==
    ASSUME NEW p \in Seq(Piece) PROVE Bytes(p) \in Nat
<1> DEFINE s == [k \in DOMAIN p |-> p[k].length + p[k].trailing]
<1>1. Len(p) \in Nat /\ DOMAIN p = 1 .. Len(p) /\ \A k \in 1 .. Len(p) : p[k] \in Piece
  OBVIOUS
<1>2. IsFiniteSet(DOMAIN s)
  <2>1. IsFiniteSet(1 .. Len(p))
    BY <1>1, FS_Interval
  <2> QED
    BY <1>1, <2>1
<1>3. \A k \in DOMAIN s : s[k] \in Nat
  BY <1>1 DEF Piece, Length
<1> HIDE DEF s
<1>4. SumFunction(s) \in Nat
  BY <1>2, <1>3, SumType DEF Numeric
<1> QED
  BY <1>4 DEF Bytes, s

LEMMA BytesAppend ==
    ASSUME NEW p \in Seq(Piece), NEW piece \in Piece
    PROVE  Bytes(Append(p, piece)) = Bytes(p) + (piece.length + piece.trailing)
<1> DEFINE q == Append(p, piece)
           n == Len(p)
           x == n + 1
           sp == [k \in DOMAIN p |-> p[k].length + p[k].trailing]
           sq == [k \in DOMAIN q |-> q[k].length + q[k].trailing]
<1>1. /\ n \in Nat /\ DOMAIN p = 1 .. n /\ DOMAIN q = 1 .. n + 1 /\ q[n + 1] = piece
      /\ \A k \in 1 .. n : q[k] = p[k] /\ p[k] \in Piece
  OBVIOUS
<1> HIDE DEF q, n
<1>2. /\ DOMAIN sp = 1 .. n /\ DOMAIN sq = DOMAIN sp \cup {x} /\ x \notin DOMAIN sp
      /\ sq[x] = piece.length + piece.trailing
      /\ \A k \in DOMAIN sp : sq[k] = sp[k]
  BY <1>1
<1>3. \A k \in DOMAIN sq : sq[k] \in Nat
  <2>1. \A k \in 1 .. n + 1 : q[k] \in Piece
    BY <1>1
  <2> QED
    BY <1>1, <2>1 DEF Piece, Length
<1>4. Bytes(p) = SumFunction(sp) /\ Bytes(q) = SumFunction(sq)
  BY DEF Bytes
<1> HIDE DEF x, sp, sq
<1>5. IsFiniteSet(DOMAIN sp)
  <2>1. IsFiniteSet(1 .. n)
    BY <1>1, FS_Interval
  <2> QED
    BY <1>2, <2>1
<1>6. Numeric(sq, DOMAIN sq)
  BY <1>3 DEF Numeric
<1>7. SumFunction(sq) = SumFunction(sp) + sq[x]
  BY <1>2, <1>5, <1>6, SumMore
<1> QED
  BY <1>2, <1>4, <1>7 DEF q

LEMMA BytesOne ==
    ASSUME NEW piece \in Piece
    PROVE  Bytes(<<piece>>) = piece.length + piece.trailing
<1> DEFINE s == [k \in DOMAIN <<>> |-> <<>>[k].length + <<>>[k].trailing]
<1>1. DOMAIN s = {}
  OBVIOUS
<1> HIDE DEF s
<1>2. SumFunction(s) = 0
  BY <1>1, SumEmpty
<1>3. Bytes(<<>>) = 0
  BY <1>2 DEF Bytes, s
<1>4. <<>> \in Seq(Piece) /\ <<piece>> = Append(<<>>, piece)
  OBVIOUS
<1>5. piece.length \in Nat /\ piece.trailing \in Nat
  BY DEF Piece, Length
<1>6. Bytes(<<piece>>) = 0 + (piece.length + piece.trailing)
  BY <1>3, <1>4, BytesAppend
<1> QED
  BY <1>5, <1>6

\* The size of a packet under assembly is what its pieces amount to.
Weighed(s) == s.payloadSize = Bytes(s.payload)

LEMMA FirstWeighed ==
    ASSUME NEW m \in MessageHeader, NEW size \in Nat, NEW f \in Frame,
           IsValidPacket(m, size)
    PROVE  Weighed(FirstSegment(m, size, f))
<1> DEFINE rest == size - MessageHeaderSize - m.payloadLength
           piece == PieceOf(m, rest)
<1>1. m.payloadLength \in Nat /\ rest \in Nat
        /\ m.payloadLength + rest = size - MessageHeaderSize
  BY DEF MessageHeader, Length, IsValidPacket, MessageHeaderSize
<1>2. FirstSegment(m, size, f).payload = <<piece>>
        /\ FirstSegment(m, size, f).payloadSize = size - MessageHeaderSize
  BY DEF FirstSegment, PieceOf
<1>3. piece \in Piece /\ piece.length = m.payloadLength /\ piece.trailing = rest
  BY <1>1 DEF PieceOf, Piece, MessageHeader
<1> HIDE DEF piece, rest
<1> QED
  BY <1>1, <1>2, <1>3, BytesOne DEF Weighed

\* addSegment keeps it so, and writes it to the length field as far as this counts.
LEMMA AddedWeighed ==
    ASSUME NEW s \in SegmentedPacket, Weighed(s), NEW m \in MessageHeader
    PROVE  /\ Weighed(AddSegment(s, m))
           /\ AddSegment(s, m).payloadLength
                = Bytes(AddSegment(s, m).payload) % LengthMod
<1> DEFINE a == AddSegment(s, m)
           piece == PieceOf(m, 0)
<1>1. s.payload \in Seq(Piece) /\ s.payloadSize \in Nat /\ m.payloadLength \in Nat
  BY DEF SegmentedPacket, MessageHeader, Length
<1>2. piece \in Piece /\ piece.length = m.payloadLength /\ piece.trailing = 0
  BY DEF PieceOf, Piece, MessageHeader
<1>3. /\ a.payload = Append(s.payload, piece)
      /\ a.payloadSize = s.payloadSize + m.payloadLength
      /\ a.payloadLength = (s.payloadSize + m.payloadLength) % LengthMod
  BY DEF AddSegment, SegmentedPacket, PieceOf
<1> HIDE DEF a, piece
<1>4. Bytes(a.payload) = Bytes(s.payload) + (m.payloadLength + 0)
  BY <1>1, <1>2, <1>3, BytesAppend
<1>5. Bytes(a.payload) = a.payloadSize
  BY <1>1, <1>3, <1>4 DEF Weighed
<1> QED
  BY <1>3, <1>5 DEF Weighed, a

\* The assembled packets among D report what their pieces amount to.
Reported(D) ==
    \A d \in D : IsAssembly(d) =>
        d.packet.payload \in Seq(Piece)
        /\ d.packet.payloadLength = Bytes(d.packet.payload) % LengthMod

WInv ==
    /\ \A e \in DOMAIN segmentedPackets : Weighed(segmentedPackets[e])
    /\ \A e \in Endpoint : Reported(delivered[e])

LEMMA TurnWeighs ==
    ASSUME HInv, WInv, Iterate
    PROVE  /\ \A e \in DOMAIN segmentedPackets' : Weighed(segmentedPackets'[e])
           /\ \A e \in Endpoint : Reported(Handed(e))
<1> USE DEF HInv
<1> DEFINE map == segmentedPackets
           entry == At(map, endpoint)
           added == AddSegment(entry, message)
<1>1. InLoop
  BY DEF Iterate, DropInvalid, DecodeUnsegmented, StartAssembly, RejectSegment,
         ContinueAssembly, FinishAssembly, LaterSegment
<1>2. /\ packets \in Seq(Packet) /\ curSize \in Nat /\ frame \in Frame
      /\ IsValidPacket(message, curSize) => message \in MessageHeader
  BY <1>1, LoopIs DEF IInv, TypeOK
<1>3. \A e \in DOMAIN map : Weighed(map[e])
  BY DEF WInv
\* What the map keeps is weighed.
<1>4. ASSUME segmentedPackets' = Erase(map, endpoint)
      PROVE  \A e \in DOMAIN segmentedPackets' : Weighed(segmentedPackets'[e])
  BY <1>3, <1>4 DEF Erase
<1>5. ASSUME NEW s, Weighed(s), segmentedPackets' = Put(map, endpoint, s)
      PROVE  \A e \in DOMAIN segmentedPackets' : Weighed(segmentedPackets'[e])
  BY <1>3, <1>5 DEF Put
<1>6. ASSUME UNCHANGED packets
      PROVE  \A e \in Endpoint : Reported(Handed(e))
  BY <1>2, <1>6, AddedNone DEF Handed, Reported
\* A segment that is accepted continues a packet under assembly.
<1>7. ASSUME LaterSegment, CanAddSegment(entry, message, curSize, frame)
      PROVE  /\ Weighed(added)
             /\ added.payload \in Seq(Piece)
             /\ added.payloadLength = Bytes(added.payload) % LengthMod
  <2>1. endpoint \in DOMAIN map /\ entry = map[endpoint]
    BY <1>7, CanAddIs
  <2>2. Weighed(entry) /\ entry \in SegmentedPacket
    BY <1>3, <2>1, AtIs
  <2>3. message \in MessageHeader
    BY <1>2, <1>7 DEF LaterSegment
  <2> HIDE DEF entry
  <2>4. added \in SegmentedPacket
    BY <2>2, <2>3, AddSegmentType
  <2>5. added.payload \in Seq(Piece)
    <3> HIDE DEF added
    <3> QED
      BY <2>4 DEF SegmentedPacket
  <2> QED
    BY <2>2, <2>3, <2>5, AddedWeighed
<1> HIDE DEF map, entry, added
<1>8. CASE DropInvalid
  BY <1>4, <1>6, <1>8 DEF DropInvalid, map
<1>9. CASE RejectSegment
  BY <1>4, <1>6, <1>9 DEF RejectSegment, map
<1>10. CASE StartAssembly
  <2>1. Weighed(FirstSegment(message, curSize, frame))
    BY <1>2, <1>10, FirstWeighed DEF StartAssembly
  <2> QED
    BY <1>5, <1>6, <1>10, <2>1 DEF StartAssembly, map
<1>11. CASE ContinueAssembly
  <2>1. /\ LaterSegment /\ CanAddSegment(entry, message, curSize, frame)
        /\ segmentedPackets' = Put(map, endpoint, added) /\ UNCHANGED packets
    BY <1>11 DEF ContinueAssembly, map, entry, added
  <2> QED
    BY <1>5, <1>6, <1>7, <2>1
<1>12. CASE DecodeUnsegmented
  <2> DEFINE p == UnsegmentedPacket(message, frame)
  <2>1. /\ packets' = Append(packets, p)
        /\ segmentedPackets' = Erase(map, endpoint)
        /\ message.segmentType = "unsegmented"
    BY <1>12 DEF DecodeUnsegmented, map
  <2>2. p.segmentFlags # "firstSegment"
    BY <2>1 DEF UnsegmentedPacket
  <2> HIDE DEF p
  <2>3. \A e \in Endpoint : Added(e) \subseteq {p}
    BY <1>2, <2>1, AddedOne
  <2>4. \A e \in Endpoint : Reported(Handed(e))
    BY <2>2, <2>3 DEF Handed, Reported, IsAssembly
  <2> QED
    BY <1>4, <2>1, <2>4
<1>13. CASE FinishAssembly
  <2> DEFINE p == AssembledPacket(added, frame)
  <2>1. /\ LaterSegment /\ CanAddSegment(entry, message, curSize, frame)
        /\ segmentedPackets' = Erase(map, endpoint)
        /\ packets' = Append(packets, p)
    BY <1>13 DEF FinishAssembly, map, entry, added
  <2>2. p.payload = added.payload /\ p.payloadLength = added.payloadLength
    BY DEF AssembledPacket
  <2> HIDE DEF p
  <2>3. \A e \in Endpoint : Added(e) \subseteq {p}
    BY <1>2, <2>1, AddedOne
  <2>4. p.payload \in Seq(Piece) /\ p.payloadLength = Bytes(p.payload) % LengthMod
    BY <1>7, <2>1, <2>2
  <2>5. \A e \in Endpoint : Reported(Handed(e))
    BY <2>3, <2>4 DEF Handed, Reported
  <2> QED
    BY <1>4, <2>1, <2>5
<1> QED
  BY <1>8, <1>9, <1>10, <1>11, <1>12, <1>13 DEF Iterate

LEMMA WInvStep ==
    ASSUME HInv, WInv, [HNext]_hvars
    PROVE  WInv'
<1>1. CASE HIterate
  <2>1. Iterate
    BY <1>1 DEF HIterate
  <2>2. /\ \A e \in DOMAIN segmentedPackets' : Weighed(segmentedPackets'[e])
        /\ \A e \in Endpoint : Reported(Handed(e))
    BY <2>1, TurnWeighs
  <2>3. \A e \in Endpoint : delivered'[e] = delivered[e] \cup Handed(e)
    BY <1>1 DEF HIterate, Handed
  <2>4. \A e \in Endpoint : Reported(delivered'[e])
    BY <2>2, <2>3 DEF WInv, Reported
  <2> QED
    BY <2>2, <2>4 DEF WInv, Weighed, Bytes, Reported, IsAssembly
<1>2. CASE HOther
  <2>1. UNCHANGED <<segmentedPackets, delivered>>
    BY <1>2 DEF HOther, Receive, IgnoreShort, RouteToTecmp, Decode, Return
  <2> QED
    BY <2>1 DEF WInv, Weighed, Bytes, Reported, IsAssembly
<1>3. CASE UNCHANGED hvars
  BY <1>3 DEF hvars, WInv, Weighed, Bytes, Reported, IsAssembly
<1> QED
  BY <1>1, <1>2, <1>3 DEF HNext

LEMMA WInvIs == WInv => AssembledLength
<1> SUFFICES ASSUME WInv, NEW e \in Endpoint, NEW d \in Assembled(e),
                    Bytes(d.packet.payload) < LengthMod
             PROVE  d.packet.payloadLength = Bytes(d.packet.payload)
  BY DEF AssembledLength
<1>1. /\ d.packet.payload \in Seq(Piece)
      /\ d.packet.payloadLength = Bytes(d.packet.payload) % LengthMod
  BY DEF WInv, Reported, Assembled, IsAssembly
<1>2. Bytes(d.packet.payload) \in Nat
  BY <1>1, BytesType
<1> DEFINE b == Bytes(d.packet.payload)
<1> HIDE DEF b
<1>3. b % LengthMod = b
  <2>1. b \in Nat /\ b < LengthMod
    BY <1>2 DEF b
  <2> QED
    BY <2>1, LengthModAssumption
<1> QED
  BY <1>1, <1>3 DEF b

(***************************************************************************)
(* A packet assembled from any number of segments reports the bytes of all *)
(* of them, the trailing ones of the first frame included, as long as a    *)
(* uint16_t counts them: payloadSize is their sum at every step, and the   *)
(* length field its value modulo 2^16 (decoder.cpp:95-104, 122-125,        *)
(* 138-143).                                                               *)
(***************************************************************************)
THEOREM AssembledLengthCovers == HSpec => []AssembledLength
<1>1. HInit => WInv
  <2> SUFFICES ASSUME HInit PROVE WInv
    OBVIOUS
  <2>1. DOMAIN segmentedPackets = {}
    BY DEF HInit, Init
  <2>2. \A e \in Endpoint : delivered[e] = {}
    BY DEF HInit
  <2> QED
    BY <2>1, <2>2 DEF WInv, Reported
<1> QED
  BY <1>1, WInvStep, WInvIs, HInvInvariant, PTL DEF HSpec
=============================================================================
