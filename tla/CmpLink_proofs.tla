--------------------------- MODULE CmpLink_proofs ---------------------------
(***************************************************************************)
(* Theorems about the encoder, for requests of any length, packets and     *)
(* frames of any size and counters of any width; and, from the second half *)
(* on, about the encoder, the network and the decoder together: what the   *)
(* decoder returns of what the encoder was given.                          *)
(***************************************************************************)
EXTENDS CmpEncoderProps, CmpLink, ProofBasics

USE CounterModAssumption, LengthModAssumption

LastFrame(e) == e.cmpFrames[Len(e.cmpFrames)]

\* The limits of the running call leave room for a payload byte.
Roomy(e) ==
    /\ e.maxBytesPerMessage > CmpHeaderSize + MessageHeaderSize
    /\ e.minBytesPerMessage <= e.maxBytesPerMessage

\* The open frame is as long as a frame may be, and its header is not free.
OpenFrame(e) ==
    /\ e.cmpFrames = <<>> => e.bytesLeft = 0
    /\ e.cmpFrames # <<>> =>
         /\ LastFrame(e).size = e.maxBytesPerMessage
         /\ e.bytesLeft <= e.maxBytesPerMessage - CmpHeaderSize

\* The size the open frame has once it is closed.
ClosedSize(e) == Greatest(e.maxBytesPerMessage - e.bytesLeft, e.minBytesPerMessage)

\* The message type under which the next frame of e is opened, for a packet of
\* the object's message type; and what the frames' headers say.
HeaderType(e) ==
    IF e.cmpFrameTemplate = <<>> THEN e.messageType
    ELSE e.cmpFrameTemplate[1].messageType

Headed(e) ==
    \A i \in DOMAIN e.cmpFrames :
        /\ e.cmpFrameTemplate # <<>>
        /\ e.cmpFrames[i].messageType = HeaderType(e)

KeepsHeader(e, f) ==
    /\ HeaderType(f) = HeaderType(e)
    /\ Headed(e) => Headed(f)

\* f is e with a new frame behind the others; only the size of the last of
\* those has changed.
Opened(e, f) ==
    LET n == Len(e.cmpFrames)
    IN  /\ f \in EncoderState
        /\ OpenFrame(f)
        /\ f.minBytesPerMessage = e.minBytesPerMessage
        /\ f.maxBytesPerMessage = e.maxBytesPerMessage
        /\ f.messageType = e.messageType
        /\ f.cmpFrameTemplate # <<>> /\ KeepsHeader(e, f)
        /\ f.bytesLeft = e.maxBytesPerMessage - CmpHeaderSize
        /\ f.sequenceCounter = NextCounter(e.sequenceCounter)
        /\ Len(f.cmpFrames) = n + 1
        /\ f.cmpFrames[n + 1].sequenceCounter = f.sequenceCounter
        /\ f.cmpFrames[n + 1].body = <<>>
        /\ \A i \in 1 .. n :
             /\ f.cmpFrames[i].body = e.cmpFrames[i].body
             /\ f.cmpFrames[i].sequenceCounter = e.cmpFrames[i].sequenceCounter
             /\ f.cmpFrames[i].size = IF i = n THEN ClosedSize(e) ELSE e.cmpFrames[i].size

\* g is f with message m behind the last frame's messages.
Filled(f, g, m) ==
    LET n == Len(f.cmpFrames)
    IN  /\ g \in EncoderState
        /\ OpenFrame(g)
        /\ g.minBytesPerMessage = f.minBytesPerMessage
        /\ g.maxBytesPerMessage = f.maxBytesPerMessage
        /\ g.messageType = f.messageType
        /\ g.cmpFrameTemplate = f.cmpFrameTemplate /\ KeepsHeader(f, g)
        /\ g.bytesLeft = f.bytesLeft - MessageHeaderSize - m.payloadLength
        /\ g.sequenceCounter = f.sequenceCounter
        /\ Len(g.cmpFrames) = n
        /\ g.cmpFrames[n].body = Append(f.cmpFrames[n].body, m)
        /\ \A i \in 1 .. n - 1 : g.cmpFrames[i].body = f.cmpFrames[i].body
        /\ \A i \in 1 .. n :
             /\ g.cmpFrames[i].sequenceCounter = f.cmpFrames[i].sequenceCounter
             /\ g.cmpFrames[i].size = f.cmpFrames[i].size

LEMMA NextCounterType ==
    ASSUME NEW c \in Counter PROVE NextCounter(c) \in Counter
BY DEF NextCounter, Counter

LEMMA ClosedFramesIs ==
    ASSUME NEW e \in EncoderState, OpenFrame(e)
    PROVE  /\ ClosedFrames(e) \in Seq(Frame)
           /\ Len(ClosedFrames(e)) = Len(e.cmpFrames)
           /\ \A i \in 1 .. Len(e.cmpFrames) :
                /\ ClosedFrames(e)[i].body = e.cmpFrames[i].body
                /\ ClosedFrames(e)[i].sequenceCounter = e.cmpFrames[i].sequenceCounter
                /\ ClosedFrames(e)[i].messageType = e.cmpFrames[i].messageType
                /\ ClosedFrames(e)[i].size =
                      IF i = Len(e.cmpFrames) THEN ClosedSize(e) ELSE e.cmpFrames[i].size
<1>1. CASE e.cmpFrames = <<>>
  BY <1>1 DEF ClosedFrames
<1>2. CASE e.cmpFrames # <<>>
  <2> DEFINE n == Len(e.cmpFrames)
             s == Greatest(e.cmpFrames[n].size - e.bytesLeft, e.minBytesPerMessage)
             c == [e.cmpFrames[n] EXCEPT !.size = s]
  <2>1. e.cmpFrames \in Seq(Frame) /\ n \in 1 .. n /\ e.cmpFrames[n] \in Frame
    BY <1>2 DEF EncoderState
  <2>2. s \in Nat /\ s = ClosedSize(e)
    BY <1>2, <2>1
       DEF EncoderState, OpenFrame, LastFrame, Greatest, Frame, CmpHeaderSize, ClosedSize
  <2>3. c \in Frame /\ c.body = e.cmpFrames[n].body /\ c.size = ClosedSize(e)
          /\ c.sequenceCounter = e.cmpFrames[n].sequenceCounter
          /\ c.messageType = e.cmpFrames[n].messageType
    BY <2>1, <2>2 DEF Frame
  <2>4. ClosedFrames(e) = [e.cmpFrames EXCEPT ![n] = c]
    BY <1>2 DEF ClosedFrames
  <2> HIDE DEF c
  <2> QED
    BY <2>1, <2>3, <2>4
<1> QED
  BY <1>1, <1>2

LEMMA ClosedFramesHold ==
    ASSUME NEW e \in EncoderState, OpenFrame(e)
    PROVE  /\ ClosedFrames(e) \in Seq(Frame)
           /\ DOMAIN ClosedFrames(e) = DOMAIN e.cmpFrames
           /\ \A i \in DOMAIN e.cmpFrames :
                /\ ClosedFrames(e)[i].body = e.cmpFrames[i].body
                /\ ClosedFrames(e)[i].sequenceCounter = e.cmpFrames[i].sequenceCounter
                /\ ClosedFrames(e)[i].messageType = e.cmpFrames[i].messageType
<1> DEFINE c == ClosedFrames(e)
<1>1. e.cmpFrames \in Seq(Frame)
  BY DEF EncoderState
<1>2. c \in Seq(Frame) /\ Len(c) = Len(e.cmpFrames)
  BY ClosedFramesIs
<1>3. DOMAIN c = 1 .. Len(c) /\ DOMAIN e.cmpFrames = 1 .. Len(e.cmpFrames)
  BY <1>1, <1>2
<1> QED
  BY <1>2, <1>3, ClosedFramesIs

LEMMA Opening ==
    ASSUME NEW e \in EncoderState, OpenFrame(e), NEW p \in Packet,
           e.maxBytesPerMessage >= CmpHeaderSize, e.messageType = p.messageType
    PROVE  Opened(e, AddNewCMPFrame(e, p))
<1> DEFINE header == FrameTemplate(e, p)
           counter == NextCounter(e.sequenceCounter)
           new == [version |-> header.version, deviceId |-> header.deviceId,
                   streamId |-> header.streamId, messageType |-> header.messageType,
                   sequenceCounter |-> counter, size |-> e.maxBytesPerMessage,
                   body |-> <<>>]
           f == AddNewCMPFrame(e, p)
           fs == Append(ClosedFrames(e), new)
<1>1. header \in CmpHeader /\ header.messageType = HeaderType(e)
  <2>1. CASE e.cmpFrameTemplate # <<>>
    BY <2>1 DEF FrameTemplate, EncoderState, HeaderType
  <2>2. CASE e.cmpFrameTemplate = <<>>
    BY <2>2 DEF FrameTemplate, EncoderState, CmpHeader, Packet, HeaderType
  <2> QED
    BY <2>1, <2>2
<1>2. counter \in Counter
  BY NextCounterType DEF EncoderState
<1>3. new \in Frame /\ new.body = <<>> /\ new.sequenceCounter = counter
        /\ new.size = e.maxBytesPerMessage /\ new.messageType = header.messageType
  BY <1>1, <1>2 DEF CmpHeader, Frame, EncoderState
<1>9. f = [e EXCEPT !.cmpFrameTemplate = <<header>>, !.sequenceCounter = counter,
                    !.bytesLeft = e.maxBytesPerMessage - CmpHeaderSize,
                    !.cmpFrames = fs]
  BY DEF AddNewCMPFrame
<1> HIDE DEF header, counter, new, f, fs
<1>4. /\ f.minBytesPerMessage = e.minBytesPerMessage
      /\ f.maxBytesPerMessage = e.maxBytesPerMessage
      /\ f.deviceId = e.deviceId
      /\ f.streamId = e.streamId
      /\ f.messageType = e.messageType
      /\ f.cmpFrameTemplate = <<header>>
      /\ f.bytesLeft = e.maxBytesPerMessage - CmpHeaderSize
      /\ f.sequenceCounter = counter
      /\ f.cmpFrames = fs
      /\ f = [minBytesPerMessage |-> f.minBytesPerMessage,
              maxBytesPerMessage |-> f.maxBytesPerMessage,
              deviceId |-> f.deviceId, streamId |-> f.streamId,
              cmpFrameTemplate |-> f.cmpFrameTemplate, bytesLeft |-> f.bytesLeft,
              sequenceCounter |-> f.sequenceCounter, messageType |-> f.messageType,
              cmpFrames |-> f.cmpFrames]
  BY <1>9 DEF EncoderState
<1>5. /\ fs \in Seq(Frame)
      /\ Len(fs) = Len(e.cmpFrames) + 1
      /\ fs[Len(e.cmpFrames) + 1] = new
      /\ \A i \in 1 .. Len(e.cmpFrames) :
           /\ fs[i].body = e.cmpFrames[i].body
           /\ fs[i].sequenceCounter = e.cmpFrames[i].sequenceCounter
           /\ fs[i].messageType = e.cmpFrames[i].messageType
           /\ fs[i].size = IF i = Len(e.cmpFrames) THEN ClosedSize(e)
                          ELSE e.cmpFrames[i].size
  <2>1. e.cmpFrames \in Seq(Frame)
    BY DEF EncoderState
  <2> QED
    BY <1>3, <2>1, ClosedFramesIs DEF fs
<1>6. <<header>> \in Seq(CmpHeader)
  BY <1>1
<1>7. f \in EncoderState
  <2>1. /\ e.minBytesPerMessage \in Nat /\ e.maxBytesPerMessage \in Nat
        /\ e.deviceId \in DeviceId /\ e.streamId \in StreamId
        /\ e.messageType \in MessageType \cup {"undefined"}
    BY DEF EncoderState
  <2>2. f.bytesLeft \in Nat
    BY <1>4, <2>1 DEF CmpHeaderSize
  <2>3. f.cmpFrameTemplate \in Seq(CmpHeader)
    BY <1>4, <1>6
  <2> QED
    BY <1>2, <1>4, <1>5, <2>1, <2>2, <2>3 DEF EncoderState
<1>8. OpenFrame(f)
  BY <1>3, <1>4, <1>5 DEF OpenFrame, LastFrame, EncoderState, CmpHeaderSize
<1>10. f.cmpFrameTemplate # <<>> /\ KeepsHeader(e, f)
  <2>1. HeaderType(f) = HeaderType(e)
    BY <1>1, <1>4 DEF HeaderType
  <2>2. ASSUME Headed(e) PROVE Headed(f)
    <3>1. DOMAIN fs = 1 .. Len(e.cmpFrames) + 1 /\ DOMAIN e.cmpFrames = 1 .. Len(e.cmpFrames)
      BY <1>5 DEF EncoderState
    <3>2. \A i \in DOMAIN fs : fs[i].messageType = HeaderType(e)
      BY <1>1, <1>3, <1>5, <2>2, <3>1 DEF Headed, EncoderState
    <3> QED
      BY <1>4, <2>1, <3>2 DEF Headed
  <2> QED
    BY <1>4, <2>1, <2>2 DEF KeepsHeader
<1> QED
  BY <1>3, <1>4, <1>5, <1>7, <1>8, <1>10 DEF Opened, f, counter

\* The message that AddMessage puts.
Message(p, bytesToAdd, flag, position) ==
    [segmentType |-> flag, payloadLength |-> bytesToAdd,
     errorInPayload |-> p.errorInPayload, payloadType |-> p.payloadType,
     data |-> [packet |-> p.id, position |-> position, source |-> 0,
               whole |-> p.payloadLength]]

LEMMA Filling ==
    ASSUME NEW f \in EncoderState, OpenFrame(f), f.cmpFrames # <<>>,
           NEW p \in Packet, NEW position \in Nat, NEW bytes \in Nat,
           position + bytes <= p.payloadLength,
           MessageHeaderSize + bytes <= f.bytesLeft,
           NEW flag \in SegmentType
    PROVE  Filled(f, AddMessage(f, p, bytes, flag, position),
                  Message(p, bytes, flag, position))
<1> DEFINE m == Message(p, bytes, flag, position)
           g == AddMessage(f, p, bytes, flag, position)
           n == Len(f.cmpFrames)
           last == [f.cmpFrames[n] EXCEPT !.body = Append(@, m)]
           fs == [f.cmpFrames EXCEPT ![n] = last]
<1>1. m \in MessageHeader /\ m.payloadLength = bytes
  <2>1. p.payloadLength \in Nat /\ p.payloadLength < LengthMod
    BY DEF Packet, Length
  <2>2. bytes \in Length
    BY <2>1 DEF Length
  <2> QED
    BY <2>1, <2>2 DEF Message, MessageHeader, PayloadData, Packet
<1>2. f.cmpFrames \in Seq(Frame) /\ n \in 1 .. n /\ f.cmpFrames[n] \in Frame
  BY DEF EncoderState
<1>3. g = [f EXCEPT !.bytesLeft = @ - MessageHeaderSize - bytes, !.cmpFrames = fs]
  BY <1>2 DEF AddMessage, Message, EncoderState
<1> HIDE DEF m
<1>4. /\ last \in Frame /\ last.body = Append(f.cmpFrames[n].body, m)
      /\ last.sequenceCounter = f.cmpFrames[n].sequenceCounter
      /\ last.messageType = f.cmpFrames[n].messageType
      /\ last.size = f.cmpFrames[n].size
  <2>1. Append(f.cmpFrames[n].body, m) \in Seq(MessageHeader)
    BY <1>1, <1>2 DEF Frame
  <2> QED
    BY <1>2, <2>1 DEF Frame
<1> HIDE DEF last
<1>5. /\ fs \in Seq(Frame) /\ Len(fs) = n /\ fs # <<>> /\ fs[n] = last
      /\ \A i \in 1 .. n - 1 : fs[i] = f.cmpFrames[i]
  BY <1>2, <1>4
<1> HIDE DEF fs, g
<1>6. /\ g.minBytesPerMessage = f.minBytesPerMessage
      /\ g.maxBytesPerMessage = f.maxBytesPerMessage
      /\ g.deviceId = f.deviceId
      /\ g.streamId = f.streamId
      /\ g.messageType = f.messageType
      /\ g.cmpFrameTemplate = f.cmpFrameTemplate
      /\ g.bytesLeft = f.bytesLeft - MessageHeaderSize - bytes
      /\ g.sequenceCounter = f.sequenceCounter
      /\ g.cmpFrames = fs
      /\ g = [minBytesPerMessage |-> g.minBytesPerMessage,
              maxBytesPerMessage |-> g.maxBytesPerMessage,
              deviceId |-> g.deviceId, streamId |-> g.streamId,
              cmpFrameTemplate |-> g.cmpFrameTemplate, bytesLeft |-> g.bytesLeft,
              sequenceCounter |-> g.sequenceCounter, messageType |-> g.messageType,
              cmpFrames |-> g.cmpFrames]
  BY <1>3 DEF EncoderState
<1>7. g \in EncoderState
  <2>1. f.bytesLeft \in Nat
    BY DEF EncoderState
  <2>2. g.bytesLeft \in Nat
    BY <1>6, <2>1 DEF MessageHeaderSize
  <2> QED
    BY <1>5, <1>6, <2>2 DEF EncoderState
<1>8. OpenFrame(g)
  <2>1. f.bytesLeft \in Nat /\ f.maxBytesPerMessage \in Nat
    BY DEF EncoderState
  <2>2. /\ f.cmpFrames[n].size = f.maxBytesPerMessage
        /\ f.bytesLeft <= f.maxBytesPerMessage - CmpHeaderSize
    BY DEF OpenFrame, LastFrame
  <2>3. g.cmpFrames # <<>> /\ g.cmpFrames[Len(g.cmpFrames)].size = g.maxBytesPerMessage
    BY <1>4, <1>5, <1>6, <2>2
  <2>4. g.bytesLeft <= g.maxBytesPerMessage - CmpHeaderSize
    BY SMTT(30), <1>6, <2>1, <2>2 DEF MessageHeaderSize, CmpHeaderSize
  <2> QED
    BY <2>3, <2>4 DEF OpenFrame, LastFrame
<1>9. Filled(f, g, m)
  <2>1. \A i \in 1 .. n :
          /\ g.cmpFrames[i].sequenceCounter = f.cmpFrames[i].sequenceCounter
          /\ g.cmpFrames[i].size = f.cmpFrames[i].size
    <3> SUFFICES ASSUME NEW i \in 1 .. n
                 PROVE  /\ fs[i].sequenceCounter = f.cmpFrames[i].sequenceCounter
                        /\ fs[i].size = f.cmpFrames[i].size
      BY <1>6
    <3> QED
      BY <1>2, <1>4, <1>5
  <2>2. KeepsHeader(f, g)
    <3>1. HeaderType(g) = HeaderType(f)
      BY <1>6 DEF HeaderType
    <3>2. DOMAIN fs = 1 .. n /\ DOMAIN f.cmpFrames = 1 .. n
      BY <1>2, <1>5
    <3>3. ASSUME NEW i \in 1 .. n PROVE fs[i].messageType = f.cmpFrames[i].messageType
      <4>1. CASE i = n
        BY <1>4, <1>5, <4>1
      <4>2. CASE i # n
        <5>1. i \in 1 .. n - 1
          BY <1>2, <4>2
        <5> QED
          BY <1>5, <5>1
      <4> QED
        BY <4>1, <4>2
    <3> QED
      BY <1>6, <3>1, <3>2, <3>3 DEF KeepsHeader, Headed
  <2> QED
    BY <1>1, <1>4, <1>5, <1>6, <1>7, <1>8, <2>1, <2>2 DEF Filled
<1> QED
  BY <1>9 DEF g, m
-----------------------------------------------------------------------------
\* What holds of the object's frames at any time.
Numbered(e) ==
    LET n == Len(e.cmpFrames)
    IN  /\ n > 0 => e.cmpFrames[n].sequenceCounter = e.sequenceCounter
        /\ \A i \in 2 .. n : e.cmpFrames[i].sequenceCounter
                               = NextCounter(e.cmpFrames[i-1].sequenceCounter)

NoneEmpty(fs) ==
    \A i \in DOMAIN fs : \A k \in DOMAIN fs[i].body : fs[i].body[k].payloadLength > 0

Uniform(fs) ==
    \A i \in DOMAIN fs : \A k, l \in DOMAIN fs[i].body :
        TypeOf(fs[i].body[k].data.packet) = TypeOf(fs[i].body[l].data.packet)

Sound(e) ==
    /\ e \in EncoderState
    /\ OpenFrame(e)
    /\ Numbered(e)
    /\ NoneEmpty(e.cmpFrames)
    /\ Uniform(e.cmpFrames)

\* The open frame's messages are of the object's message type.
LastTyped(e) ==
    e.cmpFrames # <<>> =>
        \A k \in DOMAIN LastFrame(e).body :
            TypeOf(LastFrame(e).body[k].data.packet) = e.messageType

LEMMA SoundOpened ==
    ASSUME NEW e, Sound(e), NEW f, Opened(e, f)
    PROVE  Sound(f) /\ LastTyped(f) /\ f.cmpFrames # <<>>
<1> DEFINE n == Len(e.cmpFrames)
<1>1. /\ e.cmpFrames \in Seq(Frame) /\ f.cmpFrames \in Seq(Frame)
      /\ n \in Nat /\ Len(f.cmpFrames) = n + 1
      /\ DOMAIN e.cmpFrames = 1 .. n /\ DOMAIN f.cmpFrames = 1 .. n + 1
  BY DEF Sound, Opened, EncoderState
<1>2. Numbered(f)
  BY SMTT(30), <1>1 DEF Sound, Opened, Numbered
<1>3. NoneEmpty(f.cmpFrames) /\ Uniform(f.cmpFrames)
  <2>1. \A i \in 1 .. n + 1 :
          (DOMAIN f.cmpFrames[i].body = {}) \/
          (i \in DOMAIN e.cmpFrames /\ f.cmpFrames[i].body = e.cmpFrames[i].body)
    BY <1>1 DEF Opened
  <2>2. NoneEmpty(e.cmpFrames) /\ Uniform(e.cmpFrames)
    BY DEF Sound
  <2> QED
    BY <1>1, <2>1, <2>2 DEF NoneEmpty, Uniform
<1> QED
  BY <1>1, <1>2, <1>3 DEF Sound, Opened, LastTyped, LastFrame

LEMMA SoundFilled ==
    ASSUME NEW f, Sound(f), LastTyped(f), f.cmpFrames # <<>>,
           NEW g, NEW m \in MessageHeader, Filled(f, g, m), m.payloadLength > 0,
           TypeOf(m.data.packet) = f.messageType
    PROVE  Sound(g) /\ LastTyped(g) /\ g.cmpFrames # <<>>
<1> DEFINE n == Len(f.cmpFrames)
<1>1. /\ f.cmpFrames \in Seq(Frame) /\ g.cmpFrames \in Seq(Frame)
      /\ n \in Nat /\ n > 0 /\ Len(g.cmpFrames) = n
      /\ DOMAIN f.cmpFrames = 1 .. n /\ DOMAIN g.cmpFrames = 1 .. n
  BY DEF Sound, Filled, EncoderState
<1>2. Numbered(g)
  <2>1. /\ f.cmpFrames[n].sequenceCounter = f.sequenceCounter
        /\ \A i \in 2 .. n : f.cmpFrames[i].sequenceCounter
                               = NextCounter(f.cmpFrames[i-1].sequenceCounter)
    BY <1>1 DEF Sound, Numbered
  <2>2. /\ g.sequenceCounter = f.sequenceCounter
        /\ \A i \in 1 .. n : g.cmpFrames[i].sequenceCounter = f.cmpFrames[i].sequenceCounter
    BY DEF Filled
  <2> QED
    BY <1>1, <2>1, <2>2 DEF Numbered
<1>3. /\ f.cmpFrames[n].body \in Seq(MessageHeader)
      /\ g.cmpFrames[n].body = Append(f.cmpFrames[n].body, m)
      /\ \A i \in 1 .. n - 1 : g.cmpFrames[i].body = f.cmpFrames[i].body
  <2>1. n \in DOMAIN f.cmpFrames /\ f.cmpFrames[n] \in Frame
    BY <1>1
  <2> QED
    BY <2>1 DEF Frame, Filled
<1>4. NoneEmpty(g.cmpFrames)
  <2> SUFFICES ASSUME NEW i \in 1 .. n, NEW k \in DOMAIN g.cmpFrames[i].body
               PROVE  g.cmpFrames[i].body[k].payloadLength > 0
    BY <1>1 DEF NoneEmpty
  <2>1. \A j \in 1 .. n : \A l \in DOMAIN f.cmpFrames[j].body :
          f.cmpFrames[j].body[l].payloadLength > 0
    BY <1>1 DEF Sound, NoneEmpty
  <2>2. CASE i = n
    <3> DEFINE b == f.cmpFrames[n].body
    <3>1. b \in Seq(MessageHeader) /\ g.cmpFrames[i].body = Append(b, m)
      BY <1>3, <2>2
    <3>2. \A l \in DOMAIN b : b[l].payloadLength > 0
      BY <1>1, <2>1
    <3> HIDE DEF b
    <3>3. k \in DOMAIN Append(b, m)
      BY <3>1
    <3>4. Append(b, m)[k] = m \/ (k \in DOMAIN b /\ Append(b, m)[k] = b[k])
      BY <3>1, <3>3
    <3> QED
      BY <3>1, <3>2, <3>4
  <2>3. CASE i # n
    <3>1. i \in 1 .. n - 1
      BY <1>1, <2>3
    <3> QED
      BY <1>3, <2>1, <3>1
  <2> QED
    BY <2>2, <2>3
<1>5. LastTyped(g)
  <2> DEFINE b == f.cmpFrames[n].body
  <2>1. b \in Seq(MessageHeader) /\ LastFrame(g).body = Append(b, m)
    BY <1>1, <1>3 DEF LastFrame
  <2>2. \A l \in DOMAIN b : TypeOf(b[l].data.packet) = f.messageType
    BY DEF LastTyped, LastFrame
  <2>3. g.messageType = f.messageType
    BY DEF Filled
  <2> HIDE DEF b
  <2> SUFFICES ASSUME NEW k \in DOMAIN Append(b, m)
               PROVE  TypeOf(Append(b, m)[k].data.packet) = f.messageType
    BY <2>1, <2>3 DEF LastTyped
  <2>4. Append(b, m)[k] = m \/ (k \in DOMAIN b /\ Append(b, m)[k] = b[k])
    BY <2>1
  <2> QED
    BY <2>2, <2>4
<1>6. Uniform(g.cmpFrames)
  <2> SUFFICES ASSUME NEW i \in 1 .. n,
                      NEW k \in DOMAIN g.cmpFrames[i].body,
                      NEW l \in DOMAIN g.cmpFrames[i].body
               PROVE  TypeOf(g.cmpFrames[i].body[k].data.packet)
                        = TypeOf(g.cmpFrames[i].body[l].data.packet)
    BY <1>1 DEF Uniform
  <2>1. CASE i = n
    BY <1>1, <1>5, <2>1 DEF LastTyped, LastFrame
  <2>2. CASE i # n
    <3>1. i \in 1 .. n - 1
      BY <1>1, <2>2
    <3>2. \A a, b \in DOMAIN f.cmpFrames[i].body :
            TypeOf(f.cmpFrames[i].body[a].data.packet)
              = TypeOf(f.cmpFrames[i].body[b].data.packet)
      BY <1>1 DEF Sound, Uniform
    <3> QED
      BY <1>3, <3>1, <3>2
  <2> QED
    BY <2>1, <2>2
<1> QED
  BY <1>1, <1>2, <1>4, <1>5, <1>6 DEF Sound, Filled
-----------------------------------------------------------------------------
(***************************************************************************)
(* The inductive invariant.  While a packet is put the object is of its    *)
(* type, and there is not just enough room for a message header, which     *)
(* would be written with no byte behind it.                                *)
(***************************************************************************)
LoopInv ==
    /\ next <= Len(request)
    /\ currentPayloadPos <= request[next].payloadLength
    /\ enc.messageType = request[next].messageType
    /\ MoreToPut(currentPayloadPos, request[next].payloadLength) =>
          enc.bytesLeft # MessageHeaderSize

IInv ==
    /\ TypeOK
    /\ request \in Seq(Packets)
    /\ next # 0
    /\ Sound(enc)
    /\ LastTyped(enc)
    /\ pc \in {"packet", "loop"} => Roomy(enc)
    /\ pc = "idle" => enc.cmpFrames = <<>>
    /\ pc = "loop" => LoopInv
    /\ Uniform(frames)

LEMMA TypeOfIs ==
    ASSUME NEW p \in Packets PROVE TypeOf(p.id) = p.messageType
BY PacketIdsAssumption DEF TypeOf

LEMMA Retyped ==
    ASSUME NEW e, Sound(e), NEW t \in MessageType
    PROVE  LET r == [e EXCEPT !.messageType = t]
           IN  /\ Sound(r)
               /\ r.messageType = t
               /\ r.minBytesPerMessage = e.minBytesPerMessage
               /\ r.maxBytesPerMessage = e.maxBytesPerMessage
               /\ r.cmpFrames = e.cmpFrames
<1> DEFINE r == [e EXCEPT !.messageType = t]
<1>1. /\ r \in EncoderState
      /\ r.messageType = t
      /\ r.minBytesPerMessage = e.minBytesPerMessage
      /\ r.maxBytesPerMessage = e.maxBytesPerMessage
      /\ r.bytesLeft = e.bytesLeft
      /\ r.sequenceCounter = e.sequenceCounter
      /\ r.cmpFrames = e.cmpFrames
  BY DEF Sound, EncoderState
<1> HIDE DEF r
<1>2. Sound(r)
  BY <1>1 DEF Sound, OpenFrame, LastFrame, Numbered
<1> QED
  BY <1>1, <1>2 DEF r

\* The packet at hand, its frame opened if its type is a new one, and a frame
\* opened for it if it does not fit in that.
LEMMA StartPacketIs ==
    ASSUME IInv, StartPacket
    PROVE  LET p == request[next]
           IN  /\ p \in Packets /\ p \in Packet
               /\ \E typed :
                    /\ IF enc.messageType = p.messageType THEN typed = enc
                       ELSE Opened([enc EXCEPT !.messageType = p.messageType], typed)
                    /\ Sound(typed) /\ LastTyped(typed) /\ Roomy(typed)
                    /\ typed.messageType = p.messageType
                    /\ IF DoesNotFit(typed, p) THEN Opened(typed, enc') ELSE enc' = typed
                    /\ Sound(enc') /\ LastTyped(enc') /\ Roomy(enc')
                    /\ enc'.messageType = p.messageType
                    /\ isSegmented' = (DoesNotFit(typed, p) /\ DoesNotFit(enc', p))
<1> DEFINE p == request[next]
           r == [enc EXCEPT !.messageType = p.messageType]
           typed == IF enc.messageType # p.messageType THEN SetMessageType(enc, p)
                    ELSE enc
<1>1. p \in Packets /\ p \in Packet /\ p.messageType \in MessageType
  BY PacketsAssumption DEF IInv, TypeOK, StartPacket, Packet
<1>2. Roomy(enc) /\ Sound(enc)
  BY DEF IInv, StartPacket
<1>3. /\ Sound(r) /\ Roomy(r) /\ r.messageType = p.messageType
      /\ r \in EncoderState /\ OpenFrame(r)
  BY <1>1, <1>2, Retyped DEF Roomy, Sound
<1>4. /\ enc' = IF DoesNotFit(typed, p) THEN AddNewCMPFrame(typed, p) ELSE typed
      /\ isSegmented' = (DoesNotFit(typed, p) /\ DoesNotFit(enc', p))
  BY DEF StartPacket
<1>5. /\ IF enc.messageType = p.messageType THEN typed = enc ELSE Opened(r, typed)
      /\ Sound(typed) /\ LastTyped(typed) /\ Roomy(typed)
      /\ typed.messageType = p.messageType
  <2>1. CASE enc.messageType = p.messageType
    BY <1>2, <2>1 DEF IInv
  <2>2. CASE enc.messageType # p.messageType
    <3>1. typed = AddNewCMPFrame(r, p)
      BY <2>2 DEF SetMessageType
    <3> HIDE DEF r, typed, p
    <3>2. r.maxBytesPerMessage >= CmpHeaderSize
      BY <1>3 DEF Roomy, CmpHeaderSize, MessageHeaderSize, EncoderState
    <3>3. Opened(r, typed)
      BY <1>1, <1>3, <3>1, <3>2, Opening
    <3>4. Sound(typed) /\ LastTyped(typed)
      BY <1>3, <3>3, SoundOpened
    <3> QED
      BY <1>3, <2>2, <3>3, <3>4 DEF Opened, Roomy
  <2> QED
    BY <2>1, <2>2
<1> HIDE DEF typed, p, r
<1>6. /\ IF DoesNotFit(typed, p) THEN Opened(typed, enc') ELSE enc' = typed
      /\ Sound(enc') /\ LastTyped(enc') /\ Roomy(enc')
      /\ enc'.messageType = p.messageType
  <2>1. CASE ~ DoesNotFit(typed, p)
    BY <1>4, <1>5, <2>1
  <2>2. CASE DoesNotFit(typed, p)
    <3>1. typed \in EncoderState /\ OpenFrame(typed)
            /\ typed.maxBytesPerMessage >= CmpHeaderSize
      BY <1>5 DEF Sound, Roomy, CmpHeaderSize, MessageHeaderSize, EncoderState
    <3>2. Opened(typed, enc')
      BY <1>1, <1>4, <1>5, <2>2, <3>1, Opening
    <3> QED
      BY <1>5, <2>2, <3>2, SoundOpened DEF Opened, Roomy
  <2> QED
    BY <2>1, <2>2
<1> QED
  BY <1>1, <1>4, <1>5, <1>6 DEF p, r

\* One turn of the loop: a frame is opened if needed, a message is put in it,
\* and another frame is opened behind a last segment.
LEMMA PutSegmentIs ==
    ASSUME IInv, PutSegment
    PROVE  LET p == request[next]
           IN  /\ p \in Packets /\ p \in Packet
               /\ \E f, g, m :
                    /\ IF NeedsFrame(enc) THEN Opened(enc, f)
                       ELSE f = enc
                    /\ Sound(f) /\ f.cmpFrames # <<>>
                    /\ f.bytesLeft \in Nat /\ f.bytesLeft > MessageHeaderSize
                    /\ LET bytes == BytesToAdd(f, p.payloadLength, currentPayloadPos)
                           flag == SegmentationFlag(isSegmented, segmentInd, bytes,
                                                    p.payloadLength, currentPayloadPos)
                       IN  /\ bytes \in Nat /\ bytes > 0
                           /\ currentPayloadPos + bytes <= p.payloadLength
                           /\ m = Message(p, bytes, flag, currentPayloadPos)
                           /\ m \in MessageHeader
                           /\ Filled(f, g, m)
                           /\ IF flag = "lastSegment" THEN Opened(g, enc')
                              ELSE enc' = g
                           /\ currentPayloadPos' = currentPayloadPos + bytes
                    /\ Sound(enc') /\ LastTyped(enc') /\ Roomy(enc')
                    /\ enc'.messageType = p.messageType
<1> DEFINE p == request[next]
           f == IF NeedsFrame(enc) THEN AddNewCMPFrame(enc, p) ELSE enc
           bytes == BytesToAdd(f, p.payloadLength, currentPayloadPos)
           flag == SegmentationFlag(isSegmented, segmentInd, bytes,
                                    p.payloadLength, currentPayloadPos)
           m == Message(p, bytes, flag, currentPayloadPos)
           g == AddMessage(f, p, bytes, flag, currentPayloadPos)
<1>1. /\ p \in Packets /\ p \in Packet /\ p.payloadLength \in Nat
      /\ currentPayloadPos \in Nat /\ currentPayloadPos < p.payloadLength
      /\ enc.messageType = p.messageType /\ enc.bytesLeft # MessageHeaderSize
  BY PacketsAssumption
     DEF IInv, TypeOK, LoopInv, PutSegment, MoreToPut, Packet, Length
<1>2. /\ Roomy(enc) /\ Sound(enc) /\ LastTyped(enc)
      /\ enc.bytesLeft \in Nat /\ enc.maxBytesPerMessage \in Nat
  BY DEF IInv, PutSegment, Sound, EncoderState
<1>3. /\ enc' = IF flag = "lastSegment" THEN AddNewCMPFrame(g, p) ELSE g
      /\ currentPayloadPos' = currentPayloadPos + bytes
  BY DEF PutSegment
<1> HIDE DEF p
<1>4. /\ IF NeedsFrame(enc) THEN Opened(enc, f) ELSE f = enc
      /\ f.cmpFrames # <<>> /\ Sound(f) /\ LastTyped(f) /\ Roomy(f)
      /\ f.messageType = p.messageType
      /\ f.bytesLeft \in Nat /\ f.bytesLeft > MessageHeaderSize
  <2>1. CASE NeedsFrame(enc)
    <3>1. f = AddNewCMPFrame(enc, p) /\ enc.maxBytesPerMessage >= CmpHeaderSize
      BY <1>2, <2>1 DEF Roomy, CmpHeaderSize, MessageHeaderSize
    <3>2. Opened(enc, f)
      BY <1>1, <1>2, <3>1, Opening DEF Sound
    <3> HIDE DEF f
    <3>3. f.cmpFrames # <<>> /\ Sound(f) /\ LastTyped(f)
      BY <1>2, <3>2, SoundOpened
    <3>4. f.bytesLeft \in Nat /\ f.bytesLeft > MessageHeaderSize
      BY <1>2, <3>2 DEF Opened, Roomy, CmpHeaderSize, MessageHeaderSize
    <3> QED
      BY <1>1, <1>2, <2>1, <3>2, <3>3, <3>4 DEF Opened, Roomy
  <2>2. CASE ~ NeedsFrame(enc)
    <3>1. f = enc /\ enc.bytesLeft > MessageHeaderSize
      BY <1>1, <1>2, <2>2 DEF NeedsFrame, MessageHeaderSize
    <3>2. enc.cmpFrames # <<>>
      BY <1>2, <3>1 DEF Sound, OpenFrame, MessageHeaderSize
    <3> QED
      BY <1>1, <1>2, <2>2, <3>1, <3>2
  <2> QED
    BY <2>1, <2>2
<1> HIDE DEF f
<1>5. /\ bytes \in Nat /\ bytes > 0 /\ currentPayloadPos + bytes <= p.payloadLength
      /\ MessageHeaderSize + bytes <= f.bytesLeft
  BY <1>1, <1>4 DEF BytesToAdd, Least, MessageHeaderSize
<1> HIDE DEF bytes
<1>6. flag \in SegmentType
  BY DEF SegmentationFlag, SegmentType
<1> HIDE DEF flag
<1>7. Filled(f, g, m)
  BY <1>1, <1>4, <1>5, <1>6, Filling DEF Sound
<1>8. m \in MessageHeader /\ m.payloadLength = bytes /\ m.data.packet = p.id
  <2>1. p.payloadLength < LengthMod
    BY <1>1 DEF Packet, Length
  <2>2. bytes \in Length
    BY <1>1, <1>5, <2>1 DEF Length
  <2> QED
    BY <1>1, <1>6, <2>2 DEF Message, MessageHeader, PayloadData, Packet
<1>9. Sound(g) /\ LastTyped(g) /\ g.cmpFrames # <<>>
  <2>1. TypeOf(m.data.packet) = f.messageType
    BY <1>1, <1>4, <1>8, TypeOfIs
  <2> HIDE DEF g, m
  <2> QED
    BY <1>4, <1>5, <1>7, <1>8, <2>1, SoundFilled
<1>10. Roomy(g) /\ g.messageType = p.messageType
  BY <1>4, <1>7 DEF Filled, Roomy
<1> HIDE DEF g, m
<1>11. /\ IF flag = "lastSegment" THEN Opened(g, enc') ELSE enc' = g
       /\ Sound(enc') /\ LastTyped(enc') /\ Roomy(enc')
       /\ enc'.messageType = p.messageType
  <2>1. CASE flag = "lastSegment"
    <3>1. /\ g \in EncoderState /\ OpenFrame(g)
          /\ g.maxBytesPerMessage >= CmpHeaderSize
      BY <1>9, <1>10 DEF Sound, Roomy, CmpHeaderSize, MessageHeaderSize, EncoderState
    <3>2. Opened(g, enc')
      BY <1>1, <1>3, <1>10, <2>1, <3>1, Opening
    <3> QED
      BY <1>9, <1>10, <2>1, <3>2, SoundOpened DEF Opened, Roomy
  <2>2. CASE flag # "lastSegment"
    BY <1>3, <1>9, <1>10, <2>2
  <2> QED
    BY <2>1, <2>2
<1> QED
  BY <1>1, <1>3, <1>4, <1>5, <1>7, <1>8, <1>11 DEF p, m, flag, bytes
-----------------------------------------------------------------------------
\* An encoder without frames is sound.
LEMMA SoundCleared ==
    ASSUME NEW e \in EncoderState, e.bytesLeft = 0, e.cmpFrames = <<>>
    PROVE  Sound(e) /\ LastTyped(e)
BY DEF Sound, OpenFrame, Numbered, NoneEmpty, Uniform, LastTyped

LEMMA ClearedIs ==
    ASSUME NEW e \in EncoderState, NEW b \in BOOLEAN
    PROVE  LET c == ClearEncodingMetadata(e, b)
           IN  /\ c \in EncoderState
               /\ c.bytesLeft = 0 /\ c.cmpFrames = <<>>
<1> DEFINE counter == IF b THEN 0 ELSE e.sequenceCounter
           c == [e EXCEPT !.bytesLeft = 0, !.cmpFrames = <<>>,
                          !.cmpFrameTemplate = <<>>, !.sequenceCounter = counter]
<1>1. counter \in Counter
  BY DEF EncoderState, Counter
<1>2. ClearEncodingMetadata(e, b) = c
  BY DEF ClearEncodingMetadata, EncoderState
<1> HIDE DEF counter
<1>3. <<>> \in Seq(Frame) /\ <<>> \in Seq(CmpHeader)
  OBVIOUS
<1>4. c \in EncoderState /\ c.bytesLeft = 0 /\ c.cmpFrames = <<>>
  BY <1>1, <1>3 DEF EncoderState
<1> QED
  BY <1>2, <1>4

LEMMA IInvInit == Init => IInv
<1> SUFFICES ASSUME Init PROVE IInv
  OBVIOUS
<1>1. /\ enc \in EncoderState /\ enc.bytesLeft = 0 /\ enc.cmpFrames = <<>>
  <2>1. PICK d \in DeviceId, s \in StreamId :
          enc = [minBytesPerMessage |-> 0, maxBytesPerMessage |-> 0,
                 deviceId |-> d, streamId |-> s, cmpFrameTemplate |-> <<>>,
                 bytesLeft |-> 0, sequenceCounter |-> 0,
                 messageType |-> "undefined", cmpFrames |-> <<>>]
    BY DEF Init
  <2>2. <<>> \in Seq(Frame) /\ <<>> \in Seq(CmpHeader) /\ 0 \in Counter
    BY DEF Counter
  <2> QED
    BY <2>1, <2>2 DEF EncoderState
<1>2. Sound(enc) /\ LastTyped(enc)
  BY <1>1, SoundCleared
<1> QED
  <2>1. /\ request \in Seq(Packets) /\ request \in Seq(Packet)
        /\ frames \in Seq(Frame) /\ Uniform(frames)
    BY DEF Init, Uniform
  <2>2. next \in Nat /\ next # 0 /\ currentPayloadPos \in Nat /\ segmentInd \in Nat
    BY DEF Init
  <2>3. isSegmented \in BOOLEAN /\ pc \in Location /\ pc = "idle"
    BY DEF Init, Location
  <2> QED
    BY <1>1, <1>2, <2>1, <2>2, <2>3 DEF IInv, TypeOK

LEMMA IInvStep ==
    ASSUME IInv, [Next]_vars
    PROVE  IInv'
<1> USE DEF IInv
<1>1. ASSUME NEW d \in DeviceId, SetDeviceId(d) PROVE IInv'
  <2> DEFINE e == [enc EXCEPT !.deviceId = d]
  <2>1. e \in EncoderState
    BY DEF TypeOK, EncoderState
  <2>2. enc' = ClearEncodingMetadata(e, TRUE)
    BY <1>1 DEF SetDeviceId
  <2> HIDE DEF e
  <2>3. enc' \in EncoderState /\ Sound(enc') /\ LastTyped(enc') /\ enc'.cmpFrames = <<>>
    BY <2>1, <2>2, ClearedIs, SoundCleared
  <2> QED
    BY <1>1, <2>3 DEF SetDeviceId, putVars, TypeOK
<1>2. ASSUME NEW s \in StreamId, SetStreamId(s) PROVE IInv'
  <2> DEFINE e == [enc EXCEPT !.streamId = s]
  <2>1. e \in EncoderState
    BY DEF TypeOK, EncoderState
  <2>2. enc' = ClearEncodingMetadata(e, TRUE)
    BY <1>2 DEF SetStreamId
  <2> HIDE DEF e
  <2>3. enc' \in EncoderState /\ Sound(enc') /\ LastTyped(enc') /\ enc'.cmpFrames = <<>>
    BY <2>1, <2>2, ClearedIs, SoundCleared
  <2> QED
    BY <1>2, <2>3 DEF SetStreamId, putVars, TypeOK
<1>3. ASSUME Restart PROVE IInv'
  <2>1. enc' \in EncoderState /\ enc'.cmpFrames = <<>> /\ enc'.bytesLeft = 0
    <3>1. 0 \in Counter
      BY DEF Counter
    <3>2. /\ enc \in EncoderState /\ enc.cmpFrames = <<>> /\ enc.bytesLeft = 0
          /\ enc' = [enc EXCEPT !.sequenceCounter = 0]
      BY <1>3 DEF Restart, Sound, OpenFrame
    <3> QED
      BY <3>1, <3>2 DEF EncoderState
  <2>2. Sound(enc') /\ LastTyped(enc')
    BY <2>1, SoundCleared
  <2> QED
    BY <1>3, <2>1, <2>2 DEF Restart, putVars, TypeOK
<1>4. ASSUME NEW r \in Requests, NEW context \in DataContexts, BeginEncode(r, context)
      PROVE  IInv'
  <2> DEFINE c == ClearEncodingMetadata(enc, FALSE)
  <2>1. /\ context.minBytesPerMessage \in Nat /\ context.maxBytesPerMessage \in Nat
        /\ context.maxBytesPerMessage > CmpHeaderSize + MessageHeaderSize
        /\ context.minBytesPerMessage <= context.maxBytesPerMessage
    BY DataContextsAssumption DEF DataContext
  <2>2. c \in EncoderState /\ c.bytesLeft = 0 /\ c.cmpFrames = <<>>
    BY ClearedIs DEF TypeOK
  <2>3. enc' = [c EXCEPT !.minBytesPerMessage = context.minBytesPerMessage,
                         !.maxBytesPerMessage = context.maxBytesPerMessage]
    BY <1>4 DEF BeginEncode
  <2> HIDE DEF c
  <2>4. /\ enc' \in EncoderState /\ enc'.cmpFrames = <<>> /\ enc'.bytesLeft = 0
        /\ enc'.minBytesPerMessage = context.minBytesPerMessage
        /\ enc'.maxBytesPerMessage = context.maxBytesPerMessage
    BY <2>1, <2>2, <2>3 DEF EncoderState
  <2>5. Sound(enc') /\ LastTyped(enc') /\ Roomy(enc')
    BY <2>1, <2>4, SoundCleared DEF Roomy
  <2>6. request' \in Seq(Packets) /\ request' \in Seq(Packet)
    BY <1>4, RequestsAssumption, PacketsAssumption DEF BeginEncode
  <2>7. frames' \in Seq(Frame) /\ Uniform(frames')
    BY <1>4 DEF BeginEncode, Uniform
  <2> QED
    BY <1>4, <2>4, <2>5, <2>6, <2>7 DEF BeginEncode, TypeOK, Location
<1>5. ASSUME StartPacket PROVE IInv'
  <2> DEFINE p == request[next]
  <2>1. /\ Sound(enc') /\ LastTyped(enc') /\ Roomy(enc')
        /\ enc'.messageType = p.messageType
        /\ p \in Packet /\ isSegmented' \in BOOLEAN
        /\ enc'.bytesLeft = MessageHeaderSize => ~ MoreToPut(0, p.payloadLength)
    <3>1. PICK typed :
            /\ Roomy(typed) /\ Sound(typed)
            /\ IF DoesNotFit(typed, p) THEN Opened(typed, enc') ELSE enc' = typed
            /\ isSegmented' = (DoesNotFit(typed, p) /\ DoesNotFit(enc', p))
      BY <1>5, StartPacketIs
    <3>2. p \in Packet /\ p.payloadLength \in Nat
      BY <1>5, StartPacketIs DEF Packet, Length
    <3>3. typed.bytesLeft \in Nat /\ typed.maxBytesPerMessage \in Nat
      BY <3>1 DEF Sound, EncoderState
    <3>4. enc'.bytesLeft = MessageHeaderSize => ~ MoreToPut(0, p.payloadLength)
      <4>1. CASE DoesNotFit(typed, p)
        BY <3>1, <3>3, <4>1 DEF Opened, Roomy, CmpHeaderSize, MessageHeaderSize
      <4>2. CASE ~ DoesNotFit(typed, p)
        BY <3>1, <3>2, <3>3, <4>2
           DEF DoesNotFit, MoreToPut, Sound, OpenFrame, MessageHeaderSize
      <4> QED
        BY <4>1, <4>2
    <3> QED
      BY <1>5, <3>1, <3>2, <3>4, StartPacketIs DEF DoesNotFit
  <2>2. LoopInv'
    BY <1>5, <2>1 DEF StartPacket, LoopInv, Packet, Length
  <2> QED
    BY <1>5, <2>1, <2>2 DEF StartPacket, TypeOK, Location, Sound
<1>6. ASSUME PutSegment PROVE IInv'
  <2> DEFINE p == request[next]
  <2>1. PICK f, g, m :
          /\ f.bytesLeft \in Nat /\ f.bytesLeft > MessageHeaderSize
          /\ LET bytes == BytesToAdd(f, p.payloadLength, currentPayloadPos)
                 flag == SegmentationFlag(isSegmented, segmentInd, bytes,
                                          p.payloadLength, currentPayloadPos)
             IN  /\ bytes \in Nat /\ bytes > 0
                 /\ currentPayloadPos + bytes <= p.payloadLength
                 /\ m = Message(p, bytes, flag, currentPayloadPos)
                 /\ Filled(f, g, m)
                 /\ IF flag = "lastSegment" THEN Opened(g, enc') ELSE enc' = g
                 /\ currentPayloadPos' = currentPayloadPos + bytes
          /\ Sound(enc') /\ LastTyped(enc') /\ Roomy(enc')
          /\ enc'.messageType = p.messageType
    BY <1>6, PutSegmentIs
  <2>2. p \in Packet /\ p.payloadLength \in Nat /\ currentPayloadPos \in Nat
    BY <1>6, PutSegmentIs DEF Packet, Length, TypeOK
  <2> DEFINE bytes == BytesToAdd(f, p.payloadLength, currentPayloadPos)
             flag == SegmentationFlag(isSegmented, segmentInd, bytes,
                                      p.payloadLength, currentPayloadPos)
  <2>3. /\ bytes \in Nat /\ currentPayloadPos + bytes <= p.payloadLength
        /\ currentPayloadPos' = currentPayloadPos + bytes
    BY <2>1
  <2>4. enc'.bytesLeft = MessageHeaderSize =>
          ~ MoreToPut(currentPayloadPos', p.payloadLength)
    <3>1. CASE flag = "lastSegment"
      <4>1. enc'.bytesLeft = g.maxBytesPerMessage - CmpHeaderSize
              /\ enc'.maxBytesPerMessage = g.maxBytesPerMessage
        BY <2>1, <3>1 DEF Opened
      <4> QED
        BY SMTT(30), <2>1, <4>1 DEF Roomy, Sound, EncoderState, CmpHeaderSize, MessageHeaderSize
    <3>2. CASE flag # "lastSegment"
      <4>1. enc' = g /\ g.bytesLeft = f.bytesLeft - MessageHeaderSize - bytes
        BY <2>1, <3>2 DEF Filled, Message
      <4>2. bytes = f.bytesLeft - MessageHeaderSize
              \/ bytes = p.payloadLength - currentPayloadPos
        BY DEF BytesToAdd, Least
      <4> HIDE DEF bytes
      <4> QED
        BY SMTT(30), <2>1, <2>2, <2>3, <4>1, <4>2 DEF MoreToPut, MessageHeaderSize
    <3> QED
      BY <3>1, <3>2
  <2>5. LoopInv'
    BY <1>6, <2>1, <2>3, <2>4 DEF PutSegment, LoopInv
  <2> HIDE DEF bytes
  <2>6. currentPayloadPos' \in Nat /\ segmentInd' \in Nat
    BY <1>6, <2>2, <2>3 DEF PutSegment, TypeOK
  <2>7. enc' \in EncoderState
    BY <2>1 DEF Sound
  <2>8. pc' = "loop" /\ UNCHANGED <<request, next, isSegmented, frames>>
    BY <1>6 DEF PutSegment
  <2>9. TypeOK'
    BY <2>6, <2>7, <2>8 DEF TypeOK, Location
  <2> QED
    BY <2>1, <2>5, <2>8, <2>9
<1>7. ASSUME FinishPacket PROVE IInv'
  <2>1. next' \in Nat /\ next' # 0 /\ currentPayloadPos' \in Nat /\ segmentInd' \in Nat
    BY <1>7 DEF FinishPacket, TypeOK
  <2>2. /\ pc = "loop" /\ pc' = "packet" /\ isSegmented' \in BOOLEAN
        /\ UNCHANGED <<enc, request, frames>>
    BY <1>7 DEF FinishPacket
  <2> QED
    BY <2>1, <2>2 DEF TypeOK, Location
<1>8. ASSUME ReturnUndefined PROVE IInv'
  BY <1>8 DEF ReturnUndefined, putVars, TypeOK, Location
<1>9. ASSUME ReturnFrames PROVE IInv'
  <2>1. enc' \in EncoderState /\ enc'.bytesLeft = 0 /\ enc'.cmpFrames = <<>>
    BY <1>9, ClearedIs DEF ReturnFrames, TypeOK
  <2>2. Sound(enc') /\ LastTyped(enc')
    BY <2>1, SoundCleared
  <2>3. frames' \in Seq(Frame) /\ Uniform(frames')
    <3>1. /\ enc \in EncoderState /\ OpenFrame(enc) /\ Uniform(enc.cmpFrames)
          /\ frames' = ClosedFrames(enc)
      BY <1>9 DEF ReturnFrames, Sound
    <3>2. /\ frames' \in Seq(Frame) /\ DOMAIN frames' = DOMAIN enc.cmpFrames
          /\ \A i \in DOMAIN frames' : frames'[i].body = enc.cmpFrames[i].body
      BY <3>1, ClosedFramesHold
    <3> QED
      BY <3>1, <3>2 DEF Uniform
  <2> QED
    BY <1>9, <2>1, <2>2, <2>3 DEF ReturnFrames, putVars, TypeOK, Location
<1>10. CASE UNCHANGED vars
  BY <1>10 DEF vars, TypeOK, LoopInv
<1> QED
  BY <1>1, <1>2, <1>3, <1>4, <1>5, <1>6, <1>7, <1>8, <1>9, <1>10
     DEF Next, Configure, Call, Run, Step

LEMMA IInvInvariant == Spec => []IInv
<1>1. IInv /\ [Next]_vars => IInv'
  BY IInvStep
<1> QED
  BY <1>1, IInvInit, PTL DEF Spec

(***************************************************************************)
(* The members of the encoder and the locals of a call keep their types:   *)
(* no subtraction of sizes goes below zero and no length or counter        *)
(* exceeds its width (encoder.cpp:36-172).                                 *)
(***************************************************************************)
THEOREM TypeCorrect == Spec => []TypeOK
<1>1. IInv => TypeOK
  BY DEF IInv
<1> QED
  BY <1>1, IInvInvariant, PTL

(***************************************************************************)
(* No message is written without a byte, whatever the sizes: a frame never *)
(* has room for a message header alone when one is put (encoder.cpp:73-93).*)
(***************************************************************************)
THEOREM MessagesHaveBytes == Spec => []NoEmptyMessage
<1>1. IInv => NoEmptyMessage
  BY DEF IInv, Sound, NoneEmpty, NoEmptyMessage
<1> QED
  BY <1>1, IInvInvariant, PTL

\* The frames of a call are numbered without a gap up to the counter, over any
\* number of wraps (encoder.cpp:112-124).
THEOREM FramesAreNumbered == Spec => []FramesNumbered
<1>1. IInv => FramesNumbered
  BY DEF IInv, Sound, Numbered, FramesNumbered
<1> QED
  BY <1>1, IInvInvariant, PTL

-----------------------------------------------------------------------------
(***************************************************************************)
(* Message types.  While a call runs its template, once made, has the type *)
(* of a packet up to the one at hand, and it is made by the first packet   *)
(* with a payload at the latest.                                           *)
(***************************************************************************)
TypedBy(n, t) == \E j \in DOMAIN request : j <= n /\ request[j].messageType = t

\* Every message is of a packet that has a payload.
OfPayloads(fs) ==
    \A i \in DOMAIN fs : \A k \in DOMAIN fs[i].body :
        \E q \in Packets : q.id = fs[i].body[k].data.packet /\ q.payloadLength > 0

\* The headers of fs name the type of the message's packet or of an earlier one.
HeadersOfCall(fs) ==
    \A i \in DOMAIN fs : \A k \in DOMAIN fs[i].body : \A n \in DOMAIN request :
        request[n].id = fs[i].body[k].data.packet => TypedBy(n, fs[i].messageType)

TemplateInv ==
    /\ enc.cmpFrameTemplate # <<>> => TypedBy(next, HeaderType(enc))
    /\ \A n \in DOMAIN request :
         n < next /\ request[n].payloadLength > 0 =>
             enc.cmpFrameTemplate # <<>> /\ TypedBy(n, HeaderType(enc))
    /\ pc = "loop" /\ currentPayloadPos # 0 => enc.cmpFrameTemplate # <<>>

HInv ==
    /\ Headed(enc)
    /\ OfPayloads(enc.cmpFrames)
    /\ pc \in {"packet", "loop"} => TemplateInv
    /\ HeadersOfCall(frames)

LEMMA OfPayloadsOpened ==
    ASSUME NEW e \in EncoderState, NEW f, Opened(e, f), OfPayloads(e.cmpFrames)
    PROVE  OfPayloads(f.cmpFrames)
<1> DEFINE n == Len(e.cmpFrames)
<1>1. /\ DOMAIN e.cmpFrames = 1 .. n /\ DOMAIN f.cmpFrames = 1 .. n + 1 /\ n \in Nat
      /\ f.cmpFrames[n + 1].body = <<>>
      /\ \A i \in 1 .. n : f.cmpFrames[i].body = e.cmpFrames[i].body
  BY DEF Opened, EncoderState
<1>2. \A i \in DOMAIN f.cmpFrames :
        (DOMAIN f.cmpFrames[i].body = {}) \/
        (i \in DOMAIN e.cmpFrames /\ f.cmpFrames[i].body = e.cmpFrames[i].body)
  BY <1>1
<1> QED
  BY <1>2 DEF OfPayloads

LEMMA OfPayloadsFilled ==
    ASSUME NEW f \in EncoderState, f.cmpFrames # <<>>, OfPayloads(f.cmpFrames),
           NEW g, NEW m, Filled(f, g, m),
           NEW q \in Packets, q.id = m.data.packet, q.payloadLength > 0
    PROVE  OfPayloads(g.cmpFrames)
<1> DEFINE n == Len(f.cmpFrames)
           b == f.cmpFrames[n].body
<1>1. /\ DOMAIN f.cmpFrames = 1 .. n /\ DOMAIN g.cmpFrames = 1 .. n /\ n \in 1 .. n
      /\ b \in Seq(MessageHeader) /\ g.cmpFrames[n].body = Append(b, m)
      /\ \A i \in 1 .. n - 1 : g.cmpFrames[i].body = f.cmpFrames[i].body
  <2>1. /\ f.cmpFrames \in Seq(Frame) /\ n \in 1 .. n /\ f.cmpFrames[n] \in Frame
        /\ g.cmpFrames \in Seq(Frame)
    BY DEF EncoderState, Filled
  <2> QED
    BY <2>1 DEF Filled, Frame
<1>2. \A i \in DOMAIN f.cmpFrames : \A k \in DOMAIN f.cmpFrames[i].body :
        \E r \in Packets : r.id = f.cmpFrames[i].body[k].data.packet /\ r.payloadLength > 0
  BY DEF OfPayloads
<1>3. SUFFICES ASSUME NEW i \in DOMAIN g.cmpFrames, NEW k \in DOMAIN g.cmpFrames[i].body
               PROVE  \E r \in Packets : r.id = g.cmpFrames[i].body[k].data.packet
                                         /\ r.payloadLength > 0
  BY DEF OfPayloads
<1>4. CASE i = n
  <2>1. \A l \in DOMAIN b : \E r \in Packets : r.id = b[l].data.packet /\ r.payloadLength > 0
    BY <1>1, <1>2
  <2> HIDE DEF b
  <2>2. Append(b, m)[k] = m \/ (k \in DOMAIN b /\ Append(b, m)[k] = b[k])
    BY <1>1, <1>3, <1>4
  <2> QED
    BY <1>1, <1>4, <2>1, <2>2
<1>5. CASE i # n
  <2>1. i \in 1 .. n - 1 /\ i \in DOMAIN f.cmpFrames
    BY <1>1, <1>3, <1>5
  <2> QED
    BY <1>1, <1>2, <1>3, <2>1
<1> QED
  BY <1>4, <1>5

LEMMA HeadersStart ==
    ASSUME IInv, HInv, StartPacket
    PROVE  /\ Headed(enc') /\ OfPayloads(enc'.cmpFrames)
           /\ IF enc.cmpFrameTemplate = <<>>
                THEN enc'.cmpFrameTemplate # <<>> =>
                         HeaderType(enc') = request[next].messageType
                ELSE enc'.cmpFrameTemplate # <<>> /\ HeaderType(enc') = HeaderType(enc)
<1> DEFINE p == request[next]
           r == [enc EXCEPT !.messageType = p.messageType]
<1>1. PICK typed :
        /\ IF enc.messageType = p.messageType THEN typed = enc ELSE Opened(r, typed)
        /\ Sound(typed)
        /\ typed.messageType = p.messageType
        /\ IF DoesNotFit(typed, p) THEN Opened(typed, enc') ELSE enc' = typed
  BY StartPacketIs
<1>2. enc \in EncoderState /\ p.messageType \in MessageType
  BY StartPacketIs DEF IInv, Sound, Packet
<1>3. /\ r \in EncoderState /\ r.cmpFrames = enc.cmpFrames
      /\ r.cmpFrameTemplate = enc.cmpFrameTemplate /\ r.messageType = p.messageType
  BY <1>2 DEF EncoderState
<1> HIDE DEF r, p
<1> DEFINE Kept(e) ==
        /\ e \in EncoderState /\ Headed(e) /\ OfPayloads(e.cmpFrames)
        /\ e.messageType = p.messageType
        /\ IF enc.cmpFrameTemplate = <<>> THEN HeaderType(e) = p.messageType
           ELSE e.cmpFrameTemplate # <<>> /\ HeaderType(e) = HeaderType(enc)
<1>4. ASSUME NEW e, NEW f, Kept(e), Opened(e, f) PROVE Kept(f)
  <2>1. /\ f \in EncoderState /\ Headed(f) /\ HeaderType(f) = HeaderType(e)
        /\ f.cmpFrameTemplate # <<>> /\ f.messageType = e.messageType
    BY <1>4 DEF Opened, KeepsHeader
  <2>2. OfPayloads(f.cmpFrames)
    BY <1>4, OfPayloadsOpened
  <2> QED
    BY <1>4, <2>1, <2>2
<1>5. Kept(typed)
  <2>1. CASE enc.messageType = p.messageType
    BY <1>1, <1>2, <2>1 DEF HInv, HeaderType
  <2>2. CASE enc.messageType # p.messageType
    <3>1. enc.cmpFrameTemplate = <<>> => enc.cmpFrames = <<>>
      <4>1. DOMAIN enc.cmpFrames = 1 .. Len(enc.cmpFrames) /\ Len(enc.cmpFrames) \in Nat
              /\ enc.cmpFrames \in Seq(Frame)
        BY <1>2 DEF EncoderState
      <4>2. enc.cmpFrameTemplate = <<>> => DOMAIN enc.cmpFrames = {}
        BY DEF HInv, Headed
      <4> DEFINE s == enc.cmpFrames
                 n == Len(s)
      <4>3. n = 0 => s = <<>>
        BY ONLY <4>1
      <4>4. DOMAIN s = 1 .. n /\ n \in Nat
        BY ONLY <4>1
      <4> HIDE DEF n, s
      <4>5. DOMAIN s = {} => n = 0
        BY ONLY <4>4
      <4>6. enc.cmpFrameTemplate = <<>> => DOMAIN s = {}
        BY ONLY <4>2 DEF s
      <4>7. enc.cmpFrameTemplate = <<>> => s = <<>>
        BY ONLY <4>3, <4>5, <4>6
      <4> QED
        BY ONLY <4>7 DEF s
    <3>2. Headed(r)
      BY <1>3, <3>1 DEF HInv, Headed, HeaderType
    <3>3. Kept(r)
      BY <1>3, <3>2 DEF HInv, HeaderType
    <3> HIDE DEF Kept
    <3> QED
      BY <1>1, <1>4, <2>2, <3>3
  <2> QED
    BY <2>1, <2>2
<1>6. Kept(enc')
  <2> HIDE DEF Kept
  <2> QED
    BY <1>1, <1>4, <1>5
<1> QED
  BY <1>6 DEF p

LEMMA HeadersPut ==
    ASSUME IInv, HInv, PutSegment
    PROVE  /\ Headed(enc') /\ OfPayloads(enc'.cmpFrames)
           /\ enc'.cmpFrameTemplate # <<>>
           /\ IF enc.cmpFrameTemplate = <<>> THEN HeaderType(enc') = request[next].messageType
              ELSE HeaderType(enc') = HeaderType(enc)
<1> DEFINE p == request[next]
<1>1. PICK f, g, m, flag :
        /\ IF NeedsFrame(enc) THEN Opened(enc, f) ELSE f = enc
        /\ Sound(f) /\ f.cmpFrames # <<>>
        /\ m.data.packet = p.id
        /\ Filled(f, g, m)
        /\ IF flag = "lastSegment" THEN Opened(g, enc') ELSE enc' = g
  BY PutSegmentIs DEF Message
<1>2. /\ enc \in EncoderState /\ p \in Packets /\ p.payloadLength > 0
      /\ enc.messageType = p.messageType
  <2>1. p \in Packets /\ p.payloadLength \in Nat /\ currentPayloadPos \in Nat
    BY PutSegmentIs DEF IInv, TypeOK, Packet, Length
  <2> QED
    BY <2>1 DEF IInv, Sound, PutSegment, MoreToPut, LoopInv
<1> HIDE DEF p
<1> DEFINE Kept(e) ==
        /\ e \in EncoderState /\ Headed(e) /\ OfPayloads(e.cmpFrames)
        /\ HeaderType(e) = HeaderType(enc)
<1>3. ASSUME NEW e, NEW d, Kept(e), Opened(e, d)
      PROVE  Kept(d) /\ d.cmpFrameTemplate # <<>>
  <2>1. /\ d \in EncoderState /\ Headed(d) /\ HeaderType(d) = HeaderType(e)
        /\ d.cmpFrameTemplate # <<>>
    BY <1>3 DEF Opened, KeepsHeader
  <2>2. OfPayloads(d.cmpFrames)
    BY <1>3, OfPayloadsOpened
  <2> QED
    BY <1>3, <2>1, <2>2
<1>4. Kept(enc)
  BY <1>2 DEF HInv
<1>5. Kept(f) /\ f.cmpFrameTemplate # <<>>
  <2>1. CASE NeedsFrame(enc)
    <3> HIDE DEF Kept
    <3> QED
      BY <1>1, <1>3, <1>4, <2>1
  <2>2. CASE ~ NeedsFrame(enc)
    <3>1. f = enc /\ enc.cmpFrames # <<>>
      BY <1>1, <2>2
    <3>2. 1 \in DOMAIN enc.cmpFrames
      BY <1>2, <3>1 DEF EncoderState
    <3>3. enc.cmpFrameTemplate # <<>>
      BY <3>2 DEF HInv, Headed
    <3> QED
      BY <1>4, <3>1, <3>3
  <2> QED
    BY <2>1, <2>2
<1>6. Kept(g) /\ g.cmpFrameTemplate # <<>>
  <2>1. /\ g \in EncoderState /\ Headed(g) /\ HeaderType(g) = HeaderType(f)
        /\ g.cmpFrameTemplate # <<>>
    BY <1>1, <1>5 DEF Filled, KeepsHeader
  <2>2. OfPayloads(g.cmpFrames)
    BY <1>1, <1>2, <1>5, OfPayloadsFilled
  <2> QED
    BY <1>5, <2>1, <2>2
<1>7. Kept(enc') /\ enc'.cmpFrameTemplate # <<>>
  <2> HIDE DEF Kept
  <2> QED
    BY <1>1, <1>3, <1>6
<1> QED
  BY <1>2, <1>7 DEF HeaderType, p

LEMMA HInvInit == Init => HInv
<1> SUFFICES ASSUME Init PROVE HInv
  OBVIOUS
<1>1. enc.cmpFrames = <<>> /\ frames = <<>> /\ pc = "idle"
  BY DEF Init
<1> QED
  BY <1>1 DEF HInv, Headed, OfPayloads, HeadersOfCall

LEMMA HInvStep ==
    ASSUME IInv, HInv, [Next]_vars
    PROVE  HInv'
<1>1. ASSUME enc'.cmpFrames = <<>>, UNCHANGED <<request, frames>>,
             pc' \notin {"packet", "loop"}
      PROVE  HInv'
  BY <1>1 DEF HInv, Headed, OfPayloads, HeadersOfCall, TypedBy
<1>2. ASSUME Configure PROVE HInv'
  <2>1. ASSUME NEW d \in DeviceId, SetDeviceId(d) PROVE HInv'
    <3>1. [enc EXCEPT !.deviceId = d] \in EncoderState
      BY DEF IInv, TypeOK, EncoderState
    <3> QED
      BY <1>1, <2>1, <3>1, ClearedIs DEF SetDeviceId
  <2>2. ASSUME NEW d \in StreamId, SetStreamId(d) PROVE HInv'
    <3>1. [enc EXCEPT !.streamId = d] \in EncoderState
      BY DEF IInv, TypeOK, EncoderState
    <3> QED
      BY <1>1, <2>2, <3>1, ClearedIs DEF SetStreamId
  <2>3. ASSUME Restart PROVE HInv'
    <3>1. enc \in EncoderState /\ enc.cmpFrames = <<>>
      BY <2>3 DEF Restart, IInv, Sound
    <3>2. enc'.cmpFrames = <<>>
      BY <2>3, <3>1 DEF Restart, EncoderState
    <3> QED
      BY <1>1, <2>3, <3>2 DEF Restart
  <2> QED
    BY <1>2, <2>1, <2>2, <2>3 DEF Configure
<1>3. ASSUME NEW r \in Requests, NEW context \in DataContexts, BeginEncode(r, context)
      PROVE  HInv'
  <2> DEFINE c == ClearEncodingMetadata(enc, FALSE)
  <2>1. c \in EncoderState /\ c.cmpFrames = <<>> /\ c.cmpFrameTemplate = <<>>
    <3>1. c \in EncoderState /\ c.cmpFrames = <<>>
      BY ClearedIs DEF IInv, TypeOK
    <3>2. c.cmpFrameTemplate = <<>>
      BY DEF ClearEncodingMetadata, IInv, TypeOK, EncoderState
    <3> QED
      BY <3>1, <3>2
  <2>2. enc' = [c EXCEPT !.minBytesPerMessage = context.minBytesPerMessage,
                         !.maxBytesPerMessage = context.maxBytesPerMessage]
    BY <1>3 DEF BeginEncode
  <2> HIDE DEF c
  <2>3. enc'.cmpFrames = <<>> /\ enc'.cmpFrameTemplate = <<>>
    BY <2>1, <2>2 DEF EncoderState
  <2>4. /\ frames' = <<>> /\ next' = 1 /\ pc' = "packet"
        /\ request' = r /\ r \in Seq(Packets)
    BY <1>3, RequestsAssumption DEF BeginEncode
  <2>5. TemplateInv'
    <3>1. \A n \in DOMAIN r : ~ (n < 1)
      BY <2>4
    <3> QED
      BY <2>3, <2>4, <3>1 DEF TemplateInv
  <2> QED
    BY <2>3, <2>4, <2>5 DEF HInv, Headed, OfPayloads, HeadersOfCall
<1>4. ASSUME StartPacket PROVE HInv'
  <2>1. /\ pc = "packet" /\ pc' = "loop" /\ currentPayloadPos' = 0
        /\ next \in DOMAIN request /\ next \in Nat
        /\ UNCHANGED <<request, next, frames>>
    BY <1>4 DEF StartPacket, IInv, TypeOK
  <2>2. TemplateInv
    BY <2>1 DEF HInv
  <2>3. TemplateInv'
    <3>1. enc'.cmpFrameTemplate # <<>> => TypedBy(next, HeaderType(enc'))
      BY <1>4, <2>1, <2>2, HeadersStart DEF TemplateInv, TypedBy
    <3>2. \A n \in DOMAIN request : n < next /\ request[n].payloadLength > 0 =>
             enc'.cmpFrameTemplate # <<>> /\ TypedBy(n, HeaderType(enc'))
      BY <1>4, <2>2, HeadersStart DEF TemplateInv
    <3> QED
      BY <2>1, <3>1, <3>2 DEF TemplateInv, TypedBy
  <2> QED
    BY <1>4, <2>1, <2>3, HeadersStart DEF HInv, HeadersOfCall, TypedBy
<1>5. ASSUME PutSegment PROVE HInv'
  <2>1. /\ pc = "loop" /\ pc' = "loop"
        /\ next \in DOMAIN request /\ next \in Nat
        /\ UNCHANGED <<request, next, frames>>
    BY <1>5 DEF PutSegment, IInv, TypeOK, LoopInv
  <2>2. TemplateInv
    BY <2>1 DEF HInv
  <2>3. TemplateInv'
    <3>1. enc'.cmpFrameTemplate # <<>> /\ TypedBy(next, HeaderType(enc'))
      BY <1>5, <2>1, <2>2, HeadersPut DEF TemplateInv, TypedBy
    <3>2. \A n \in DOMAIN request : n < next /\ request[n].payloadLength > 0 =>
             TypedBy(n, HeaderType(enc'))
      BY <1>5, <2>2, HeadersPut DEF TemplateInv
    <3> QED
      BY <2>1, <3>1, <3>2 DEF TemplateInv, TypedBy
  <2> QED
    BY <1>5, <2>1, <2>3, HeadersPut DEF HInv, HeadersOfCall, TypedBy
<1>6. ASSUME FinishPacket PROVE HInv'
  <2>1. /\ pc = "loop" /\ pc' = "packet" /\ next' = next + 1
        /\ next \in DOMAIN request /\ next \in Nat /\ DOMAIN request \subseteq Nat
        /\ UNCHANGED <<enc, request, frames>>
    BY <1>6 DEF FinishPacket, IInv, TypeOK, LoopInv
  <2>2. TemplateInv
    BY <2>1 DEF HInv
  <2>3. request[next].payloadLength > 0 => enc.cmpFrameTemplate # <<>>
    <3>1. currentPayloadPos \in Nat /\ request[next].payloadLength \in Nat
      <4>1. request \in Seq(Packets) /\ Packets \subseteq Packet
        BY <2>1, PacketsAssumption DEF IInv, TypeOK
      <4>2. request[next] \in Packet
        BY <2>1, <4>1
      <4> QED
        BY <4>2 DEF IInv, TypeOK, Packet, Length
    <3> QED
      BY <1>6, <2>1, <2>2, <3>1 DEF FinishPacket, MoreToPut, TemplateInv
  <2>4. TemplateInv'
    <3>1. enc.cmpFrameTemplate # <<>> => TypedBy(next + 1, HeaderType(enc))
      BY <2>1, <2>2 DEF TemplateInv, TypedBy
    <3>2. \A n \in DOMAIN request : n < next + 1 /\ request[n].payloadLength > 0 =>
             enc.cmpFrameTemplate # <<>> /\ TypedBy(n, HeaderType(enc))
      <4> SUFFICES ASSUME NEW n \in DOMAIN request, n < next + 1,
                          request[n].payloadLength > 0
                   PROVE  enc.cmpFrameTemplate # <<>> /\ TypedBy(n, HeaderType(enc))
        OBVIOUS
      <4>1. n = next \/ n < next
        BY <2>1
      <4> QED
        BY <2>2, <2>3, <4>1 DEF TemplateInv
    <3> QED
      BY <2>1, <3>1, <3>2 DEF TemplateInv, TypedBy
  <2> QED
    BY <2>1, <2>4 DEF HInv, HeadersOfCall, TypedBy
<1>7. ASSUME ReturnUndefined PROVE HInv'
  BY <1>1, <1>7 DEF ReturnUndefined
<1>8. ASSUME ReturnFrames PROVE HInv'
  <2>1. /\ pc = "packet" /\ pc' = "idle" /\ next > Len(request)
        /\ enc \in EncoderState /\ OpenFrame(enc)
        /\ frames' = ClosedFrames(enc) /\ UNCHANGED request
        /\ enc' = ClearEncodingMetadata(enc, FALSE)
    BY <1>8 DEF ReturnFrames, IInv, Sound
  <2>2. enc'.cmpFrames = <<>>
    BY <2>1, ClearedIs
  <2>3. HeadersOfCall(frames')
    <3> SUFFICES ASSUME NEW i \in DOMAIN frames', NEW k \in DOMAIN frames'[i].body,
                        NEW n \in DOMAIN request,
                        request[n].id = frames'[i].body[k].data.packet
                 PROVE  TypedBy(n, frames'[i].messageType)
      BY DEF HeadersOfCall
    <3>1. /\ i \in DOMAIN enc.cmpFrames
          /\ frames'[i].body = enc.cmpFrames[i].body
          /\ frames'[i].messageType = enc.cmpFrames[i].messageType
      BY <2>1, ClosedFramesHold
    <3>2. PICK q \in Packets : q.id = frames'[i].body[k].data.packet /\ q.payloadLength > 0
      BY <3>1 DEF HInv, OfPayloads
    <3>3. request \in Seq(Packets) /\ request[n] \in Packets /\ next \in Nat /\ n < next
      BY <2>1 DEF IInv, TypeOK
    <3>4. request[n] = q
      BY <3>2, <3>3, PacketIdsAssumption
    <3>5. TypedBy(n, HeaderType(enc))
      BY <2>1, <3>2, <3>3, <3>4 DEF HInv, TemplateInv
    <3> QED
      BY <3>1, <3>5 DEF HInv, Headed
  <2>4. Headed(enc') /\ OfPayloads(enc'.cmpFrames)
    <3>1. DOMAIN enc'.cmpFrames = {}
      BY <2>2
    <3> QED
      BY ONLY <3>1 DEF Headed, OfPayloads
  <2>5. HeadersOfCall(frames)'
    BY <2>1, <2>3 DEF HeadersOfCall, TypedBy
  <2> QED
    BY <2>1, <2>4, <2>5 DEF HInv, Headed, OfPayloads
<1>9. CASE UNCHANGED vars
  BY <1>9 DEF vars, HInv, Headed, HeaderType, OfPayloads, HeadersOfCall, TypedBy, TemplateInv
<1> QED
  BY <1>2, <1>3, <1>4, <1>5, <1>6, <1>7, <1>8, <1>9 DEF Next, Call, Run, Step

LEMMA HInvInvariant == Spec => []HInv
<1>1. IInv /\ HInv /\ [Next]_vars => HInv'
  BY HInvStep
<1> QED
  BY <1>1, HInvInit, IInvInvariant, PTL DEF Spec

(***************************************************************************)
(* A returned frame holds messages of one type only, and its header names  *)
(* the type of the message's packet or of an earlier one of the request:   *)
(* the template outlives a change of type but no call (encoder.cpp:31-34,  *)
(* 65-66, 112-118, 164-172).                                               *)
(***************************************************************************)
THEOREM FramesHaveTypesOfCall == Spec => []FrameTypesOfCall
<1>1. IInv /\ HInv => FrameTypesOfCall
  <2> SUFFICES ASSUME IInv, HInv,
                      NEW i \in DOMAIN frames, NEW k \in DOMAIN frames[i].body
               PROVE  LET id == frames[i].body[k].data.packet
                      IN  /\ \A l \in DOMAIN frames[i].body :
                               TypeOf(frames[i].body[l].data.packet) = TypeOf(id)
                          /\ \A n \in DOMAIN request : request[n].id = id =>
                               \E j \in 1 .. n : request[j].messageType
                                                   = frames[i].messageType
    BY DEF FrameTypesOfCall
  <2>1. \A l \in DOMAIN frames[i].body :
          TypeOf(frames[i].body[l].data.packet) = TypeOf(frames[i].body[k].data.packet)
    BY DEF IInv, Uniform
  <2>2. \A n \in DOMAIN request : request[n].id = frames[i].body[k].data.packet =>
          \E j \in DOMAIN request :
             j <= n /\ request[j].messageType = frames[i].messageType
    BY DEF HInv, HeadersOfCall, TypedBy
  <2>3. \A n, j \in DOMAIN request : j <= n => j \in 1 .. n
    BY DEF IInv
  <2> QED
    BY <2>1, <2>2, <2>3
<1> QED
  BY <1>1, IInvInvariant, HInvInvariant, PTL
-----------------------------------------------------------------------------
(***************************************************************************)
(* Segments.  In a sequence of frames every segment is alone in its frame, *)
(* under a flag that tells the truth, and followed by the next one of its  *)
(* packet; only the segment in frame "open" may still wait for it.         *)
(***************************************************************************)
Truthful(m) ==
    /\ m.segmentType = "firstSegment" <=> AtStart(m)
    /\ m.segmentType = "lastSegment" <=> AtEnd(m)

Followed(fs, i, m) ==
    /\ i + 1 \in DOMAIN fs
    /\ fs[i+1].sequenceCounter = NextCounter(fs[i].sequenceCounter)
    /\ Len(fs[i+1].body) = 1
    /\ IsSegment(fs[i+1].body[1])
    /\ fs[i+1].body[1].data.packet = m.data.packet

Runs(fs, open) ==
    \A i \in DOMAIN fs : \A k \in DOMAIN fs[i].body :
        LET m == fs[i].body[k]
        IN  IsSegment(m) =>
              /\ Len(fs[i].body) = 1
              /\ Truthful(m)
              /\ ~ AtEnd(m) => i = open \/ Followed(fs, i, m)

NoSegment(f) == \A k \in DOMAIN f.body : ~ IsSegment(f.body[k])

LEMMA RunsOpened ==
    ASSUME NEW e \in EncoderState, NEW f, Opened(e, f), NEW open, Runs(e.cmpFrames, open)
    PROVE  Runs(f.cmpFrames, open) /\ NoSegment(LastFrame(f)) /\ LastFrame(f).body = <<>>
<1> DEFINE n == Len(e.cmpFrames)
           es == e.cmpFrames
           fs == f.cmpFrames
<1>1. /\ n \in Nat /\ Len(fs) = n + 1 /\ DOMAIN es = 1 .. n /\ DOMAIN fs = 1 .. n + 1
      /\ fs[n + 1].body = <<>>
      /\ \A i \in 1 .. n : fs[i].body = es[i].body
                           /\ fs[i].sequenceCounter = es[i].sequenceCounter
  BY DEF Opened, EncoderState
<1> HIDE DEF n, es, fs
<1>2. SUFFICES ASSUME NEW i \in DOMAIN fs, NEW k \in DOMAIN fs[i].body,
                      IsSegment(fs[i].body[k])
               PROVE  /\ Len(fs[i].body) = 1
                      /\ Truthful(fs[i].body[k])
                      /\ ~ AtEnd(fs[i].body[k]) =>
                            i = open \/ Followed(fs, i, fs[i].body[k])
  BY <1>1 DEF Runs, NoSegment, LastFrame, fs
<1>3. i \in DOMAIN es /\ fs[i].body = es[i].body
  BY <1>1
<1>4. /\ Len(es[i].body) = 1 /\ Truthful(es[i].body[k])
      /\ ~ AtEnd(es[i].body[k]) => i = open \/ Followed(es, i, es[i].body[k])
  BY <1>2, <1>3 DEF Runs, es
<1> QED
  BY <1>1, <1>3, <1>4 DEF Followed

\* The frames before and after a message was put into the last one.
LEMMA FilledFrames ==
    ASSUME NEW f \in EncoderState, f.cmpFrames # <<>>, NEW m, NEW g, Filled(f, g, m)
    PROVE  LET fs == f.cmpFrames
               gs == g.cmpFrames
               n == Len(fs)
           IN  /\ fs \in Seq(Frame) /\ gs \in Seq(Frame) /\ n \in Nat /\ n > 0
               /\ DOMAIN fs = 1 .. n /\ DOMAIN gs = 1 .. n /\ Len(gs) = n
               /\ fs[n].body \in Seq(MessageHeader)
               /\ gs[n].body = Append(fs[n].body, m)
               /\ \A i \in 1 .. n - 1 : gs[i].body = fs[i].body
               /\ \A i \in 1 .. n : gs[i].sequenceCounter = fs[i].sequenceCounter
<1> DEFINE fs == f.cmpFrames
           gs == g.cmpFrames
           n == Len(fs)
<1>1. fs \in Seq(Frame) /\ fs # <<>>
  BY DEF EncoderState
<1>2. /\ g \in EncoderState /\ Len(gs) = n
      /\ gs[n].body = Append(fs[n].body, m)
      /\ \A i \in 1 .. n - 1 : gs[i].body = fs[i].body
      /\ \A i \in 1 .. n : gs[i].sequenceCounter = fs[i].sequenceCounter
  BY ONLY Filled(f, g, m) DEF Filled
<1>3. gs \in Seq(Frame)
  BY ONLY <1>2 DEF EncoderState
<1> HIDE DEF fs, gs
<1>4. /\ n \in Nat /\ n > 0 /\ DOMAIN fs = 1 .. n /\ DOMAIN gs = 1 .. n
      /\ fs[n] \in Frame
  BY ONLY <1>1, <1>2, <1>3
<1>5. fs[n].body \in Seq(MessageHeader)
  BY ONLY <1>4 DEF Frame
<1> QED
  BY <1>1, <1>2, <1>3, <1>4, <1>5, Zenon DEF fs, gs

LEMMA RunsFilled ==
    ASSUME NEW f \in EncoderState, f.cmpFrames # <<>>, Numbered(f),
           NEW g, NEW m \in MessageHeader, Filled(f, g, m),
           NEW open \in {0, Len(f.cmpFrames) - 1}, Runs(f.cmpFrames, open),
           NoSegment(LastFrame(f)),
           open # 0 => /\ IsSegment(m)
                       /\ \A k \in DOMAIN f.cmpFrames[open].body :
                            f.cmpFrames[open].body[k].data.packet = m.data.packet,
           IsSegment(m) => LastFrame(f).body = <<>> /\ Truthful(m)
    PROVE  /\ Runs(g.cmpFrames, IF IsSegment(m) /\ ~ AtEnd(m)
                                    THEN Len(g.cmpFrames) ELSE 0)
           /\ ~ IsSegment(m) => NoSegment(LastFrame(g))
           /\ IsSegment(m) => LastFrame(g).body = <<m>>
<1> DEFINE n == Len(f.cmpFrames)
           fs == f.cmpFrames
           gs == g.cmpFrames
           b == fs[n].body
<1>1. /\ n \in Nat /\ n > 0 /\ DOMAIN fs = 1 .. n /\ DOMAIN gs = 1 .. n /\ Len(gs) = n
      /\ b \in Seq(MessageHeader) /\ gs[n].body = Append(b, m)
      /\ \A i \in 1 .. n - 1 : gs[i].body = fs[i].body
      /\ \A i \in 1 .. n : gs[i].sequenceCounter = fs[i].sequenceCounter
  BY ONLY f \in EncoderState, f.cmpFrames # <<>>, Filled(f, g, m), FilledFrames
<1>2. \A i \in 2 .. n : fs[i].sequenceCounter = NextCounter(fs[i-1].sequenceCounter)
  BY DEF Numbered
<1>3. \A k \in DOMAIN b : ~ IsSegment(b[k])
  BY DEF NoSegment, LastFrame
<1>4. IsSegment(m) => b = <<>> /\ Truthful(m)
  BY DEF LastFrame
<1>5. Runs(fs, open) /\ open \in {0, n - 1}
  OBVIOUS
<1>6. open # 0 => /\ IsSegment(m)
                  /\ \A k \in DOMAIN fs[open].body :
                       fs[open].body[k].data.packet = m.data.packet
  OBVIOUS
<1>7. LastFrame(g) = gs[n]
  BY <1>1 DEF LastFrame
<1> HIDE DEF n, fs, gs, b
<1>8. ~ IsSegment(m) => NoSegment(gs[n])
  <2> SUFFICES ASSUME ~ IsSegment(m), NEW k \in DOMAIN Append(b, m)
               PROVE  ~ IsSegment(Append(b, m)[k])
    BY <1>1 DEF NoSegment
  <2>1. Append(b, m)[k] = m \/ (k \in DOMAIN b /\ Append(b, m)[k] = b[k])
    BY <1>1
  <2> QED
    BY <1>3, <2>1
<1>9. IsSegment(m) => gs[n].body = <<m>>
  BY <1>1, <1>4
<1> DEFINE new == IF IsSegment(m) /\ ~ AtEnd(m) THEN n ELSE 0
<1>10. Runs(gs, new)
  <2> SUFFICES ASSUME NEW i \in DOMAIN gs, NEW k \in DOMAIN gs[i].body,
                      IsSegment(gs[i].body[k])
               PROVE  /\ Len(gs[i].body) = 1
                      /\ Truthful(gs[i].body[k])
                      /\ ~ AtEnd(gs[i].body[k]) =>
                            i = new \/ Followed(gs, i, gs[i].body[k])
    BY DEF Runs
  <2>1. CASE i = n
    <3>1. IsSegment(m)
      BY <1>8, <2>1 DEF NoSegment
    <3>2. gs[n].body = <<m>> /\ k = 1 /\ Truthful(m)
      BY <1>4, <1>9, <2>1, <3>1
    <3> QED
      BY <2>1, <3>1, <3>2
  <2>2. CASE i # n
    <3>1. i \in 1 .. n - 1 /\ i \in DOMAIN fs /\ gs[i].body = fs[i].body
            /\ gs[i].sequenceCounter = fs[i].sequenceCounter
      BY <1>1, <2>2
    <3>2. /\ Len(fs[i].body) = 1 /\ Truthful(fs[i].body[k])
          /\ ~ AtEnd(fs[i].body[k]) => i = open \/ Followed(fs, i, fs[i].body[k])
      BY <1>5, <3>1 DEF Runs
    <3>3. ASSUME ~ AtEnd(fs[i].body[k]) PROVE Followed(gs, i, fs[i].body[k])
      <4>1. i + 1 \in DOMAIN gs
              /\ gs[i+1].sequenceCounter = NextCounter(gs[i].sequenceCounter)
        BY <1>1, <1>2, <3>1
      <4>2. CASE i = open
        <5>1. i + 1 = n /\ IsSegment(m) /\ fs[i].body[k].data.packet = m.data.packet
          BY <1>1, <1>5, <1>6, <3>1, <4>2
        <5>2. gs[i+1] = gs[n] /\ gs[n].body = <<m>>
          BY <1>9, <5>1
        <5>3. Len(<<m>>) = 1 /\ <<m>>[1] = m
          OBVIOUS
        <5> QED
          BY <4>1, <5>1, <5>2, <5>3 DEF Followed
      <4>3. CASE i # open
        <5>1. Followed(fs, i, fs[i].body[k])
          BY <3>2, <3>3, <4>3
        <5>2. i + 1 # n
          BY <1>1, <1>3, <5>1 DEF Followed, b
        <5>3. gs[i+1].body = fs[i+1].body
          BY <1>1, <3>1, <5>2
        <5> QED
          BY <4>1, <5>1, <5>3 DEF Followed
      <4> QED
        BY <4>2, <4>3
    <3> QED
      BY <3>1, <3>2, <3>3
  <2> QED
    BY <2>1, <2>2
<1> QED
  BY <1>1, <1>7, <1>8, <1>9, <1>10 DEF gs
-----------------------------------------------------------------------------
\* A segment was put and its successor is still to come.
Waiting ==
    /\ pc = "loop" /\ isSegmented /\ segmentInd > 0
    /\ MoreToPut(currentPayloadPos, request[next].payloadLength)

\* The open frame is empty and still too small for the packet.
FirstToCome ==
    /\ enc.cmpFrames # <<>>
    /\ LastFrame(enc).body = <<>>
    /\ enc.bytesLeft = enc.maxBytesPerMessage - CmpHeaderSize
    /\ enc.bytesLeft < MessageHeaderSize + request[next].payloadLength

\* The open frame is full of the last segment put.
NextToCome ==
    /\ enc.cmpFrames # <<>>
    /\ enc.bytesLeft = 0
    /\ Runs(enc.cmpFrames, Len(enc.cmpFrames))
    /\ \A k \in DOMAIN LastFrame(enc).body :
         LastFrame(enc).body[k].data.packet = request[next].id

Complete(e) ==
    /\ Runs(e.cmpFrames, 0)
    /\ e.cmpFrames # <<>> => NoSegment(LastFrame(e))

SInv ==
    /\ pc = "loop" => (segmentInd = 0 <=> currentPayloadPos = 0)
    /\ pc = "loop" /\ isSegmented /\ segmentInd = 0 => FirstToCome
    /\ Waiting => NextToCome
    /\ ~ Waiting => Complete(enc)
    /\ Runs(frames, 0)

LEMMA CompleteOpened ==
    ASSUME NEW e \in EncoderState, NEW f, Opened(e, f), Complete(e)
    PROVE  Complete(f) /\ f.cmpFrames # <<>> /\ LastFrame(f).body = <<>>
<1>1. f.cmpFrames # <<>>
  BY DEF Opened, EncoderState
<1> QED
  BY <1>1, RunsOpened DEF Complete

LEMMA CompleteCleared ==
    ASSUME NEW e, e.cmpFrames = <<>> PROVE Complete(e)
BY DEF Complete, Runs

LEMMA SegmentsStart ==
    ASSUME IInv, SInv, StartPacket
    PROVE  Complete(enc') /\ (isSegmented' => FirstToCome')
<1> DEFINE p == request[next]
           r == [enc EXCEPT !.messageType = p.messageType]
<1>1. PICK typed :
        /\ IF enc.messageType = p.messageType THEN typed = enc ELSE Opened(r, typed)
        /\ Sound(typed) /\ Roomy(typed)
        /\ IF DoesNotFit(typed, p) THEN Opened(typed, enc') ELSE enc' = typed
        /\ isSegmented' = (DoesNotFit(typed, p) /\ DoesNotFit(enc', p))
  BY StartPacketIs
<1>2. Complete(enc) /\ Sound(enc) /\ p.messageType \in MessageType
  BY StartPacketIs DEF StartPacket, SInv, Waiting, IInv, Packet
<1>3. r \in EncoderState /\ r.cmpFrames = enc.cmpFrames
  BY <1>2, Retyped DEF Sound
<1>4. Complete(r)
  BY <1>2, <1>3 DEF Complete, LastFrame
<1> HIDE DEF r
<1>5. Complete(typed) /\ typed \in EncoderState
  BY <1>1, <1>2, <1>3, <1>4, CompleteOpened DEF Sound
<1>6. CASE DoesNotFit(typed, p)
  <2>1. Opened(typed, enc')
    BY <1>1, <1>6
  <2>2. Complete(enc') /\ enc'.cmpFrames # <<>> /\ LastFrame(enc').body = <<>>
    BY <1>5, <2>1, CompleteOpened
  <2>3. UNCHANGED <<request, next>>
    BY DEF StartPacket
  <2> QED
    BY <1>1, <2>1, <2>2, <2>3 DEF Opened, FirstToCome, DoesNotFit, LastFrame
<1>7. CASE ~ DoesNotFit(typed, p)
  BY <1>1, <1>5, <1>7
<1> QED
  BY <1>6, <1>7

\* A turn of the loop, by the segment that is put: none, the first, a later one.
LEMMA SegmentsPut ==
    ASSUME IInv, SInv, PutSegment
    PROVE  /\ Waiting' => NextToCome'
           /\ ~ Waiting' => Complete(enc')
           /\ segmentInd' # 0 /\ currentPayloadPos' # 0
<1> DEFINE p == request[next]
<1>1. PICK f, g, m :
        /\ IF NeedsFrame(enc) THEN Opened(enc, f) ELSE f = enc
        /\ Sound(f) /\ f.cmpFrames # <<>>
        /\ f.bytesLeft \in Nat /\ f.bytesLeft > MessageHeaderSize
        /\ LET bytes == BytesToAdd(f, p.payloadLength, currentPayloadPos)
               flag == SegmentationFlag(isSegmented, segmentInd, bytes,
                                        p.payloadLength, currentPayloadPos)
           IN  /\ bytes \in Nat /\ bytes > 0
               /\ currentPayloadPos + bytes <= p.payloadLength
               /\ m = Message(p, bytes, flag, currentPayloadPos)
               /\ m \in MessageHeader
               /\ Filled(f, g, m)
               /\ IF flag = "lastSegment" THEN Opened(g, enc') ELSE enc' = g
               /\ currentPayloadPos' = currentPayloadPos + bytes
  BY PutSegmentIs
<1> DEFINE bytes == BytesToAdd(f, p.payloadLength, currentPayloadPos)
           flag == SegmentationFlag(isSegmented, segmentInd, bytes,
                                    p.payloadLength, currentPayloadPos)
           pos == currentPayloadPos
           n == Len(f.cmpFrames)
<1>2. /\ pos \in Nat /\ segmentInd \in Nat /\ isSegmented \in BOOLEAN
      /\ p.payloadLength \in Nat /\ pos < p.payloadLength
      /\ pc = "loop" /\ pc' = "loop" /\ segmentInd' = segmentInd + 1
      /\ UNCHANGED <<request, next, isSegmented>>
      /\ segmentInd = 0 <=> pos = 0
      /\ enc \in EncoderState /\ Sound(enc)
  <2>1. p \in Packet
    BY PutSegmentIs
  <2> QED
    BY <2>1 DEF IInv, SInv, TypeOK, PutSegment, MoreToPut, Packet, Length
<1>3. /\ bytes \in Nat /\ bytes > 0 /\ pos + bytes <= p.payloadLength
      /\ pos' = pos + bytes
      /\ bytes <= f.bytesLeft - MessageHeaderSize
      /\ bytes = f.bytesLeft - MessageHeaderSize \/ bytes = p.payloadLength - pos
  BY <1>1, <1>2 DEF BytesToAdd, Least, MessageHeaderSize
<1>4. /\ m.segmentType = flag /\ m.data.packet = p.id
      /\ AtStart(m) <=> pos = 0
      /\ AtEnd(m) <=> pos + bytes = p.payloadLength
  BY <1>1 DEF Message, AtStart, AtEnd
<1>5. /\ f \in EncoderState /\ Numbered(f) /\ f.cmpFrames # <<>>
      /\ m \in MessageHeader /\ Filled(f, g, m) /\ g \in EncoderState
      /\ n \in Nat /\ Len(g.cmpFrames) = n /\ n > 0
  <2>1. f \in EncoderState /\ Numbered(f) /\ f.cmpFrames # <<>>
    BY <1>1 DEF Sound
  <2>2. m \in MessageHeader /\ Filled(f, g, m)
    BY <1>1
  <2>3. g \in EncoderState /\ Len(g.cmpFrames) = n
    BY <2>2 DEF Filled
  <2>4. n \in Nat /\ n > 0
    BY <2>1 DEF EncoderState
  <2> QED
    BY <2>1, <2>2, <2>3, <2>4
<1>6. /\ g.bytesLeft = f.bytesLeft - MessageHeaderSize - bytes
      /\ f.bytesLeft \in Nat
  BY <1>1 DEF Filled, Message
<1>7. IF flag = "lastSegment" THEN Opened(g, enc') ELSE enc' = g
  BY <1>1
<1>8. segmentInd' # 0 /\ pos' # 0
  BY <1>2, <1>3
<1>9. flag = IF ~ isSegmented THEN "unsegmented"
             ELSE IF segmentInd = 0 THEN "firstSegment"
             ELSE IF pos + bytes = p.payloadLength THEN "lastSegment"
             ELSE "intermediarySegment"
  BY DEF SegmentationFlag
<1>10. Waiting' <=> (isSegmented /\ pos + bytes < p.payloadLength)
  BY <1>2, <1>3 DEF Waiting, MoreToPut
<1>11. g.cmpFrames # <<>>
  BY <1>5
<1> HIDE DEF bytes, flag, p, n
<1>12. CASE ~ isSegmented
  <2>1. Complete(enc)
    BY <1>12 DEF SInv, Waiting
  <2>2. Complete(f)
    BY <1>1, <1>2, <2>1, CompleteOpened
  <2>3. ~ IsSegment(m) /\ enc' = g
    BY <1>4, <1>7, <1>9, <1>12 DEF IsSegment
  <2>4. Complete(g)
    BY <1>5, <2>2, <2>3, RunsFilled DEF Complete
  <2> QED
    BY <1>8, <1>10, <1>12, <2>3, <2>4
<1>13. CASE isSegmented /\ segmentInd = 0
  <2>1. Complete(enc) /\ FirstToCome
    BY <1>2, <1>13 DEF SInv, Waiting
  <2>2. f = enc
    BY <1>1, <1>2, <2>1 DEF NeedsFrame, FirstToCome, IInv, Roomy, EncoderState,
                            PutSegment, CmpHeaderSize, MessageHeaderSize
  <2>3. /\ f.bytesLeft < MessageHeaderSize + p.payloadLength
        /\ LastFrame(f).body = <<>> /\ Complete(f)
    BY <2>1, <2>2 DEF FirstToCome, p
  <2>4. pos = 0 /\ bytes = f.bytesLeft - MessageHeaderSize /\ bytes < p.payloadLength
    BY <1>2, <1>3, <1>6, <1>13, <2>3 DEF MessageHeaderSize
  <2>5. /\ IsSegment(m) /\ ~ AtEnd(m) /\ Truthful(m) /\ enc' = g
    BY <1>2, <1>3, <1>4, <1>7, <1>9, <1>13, <2>4 DEF IsSegment, Truthful
  <2>6. Runs(g.cmpFrames, n) /\ LastFrame(g).body = <<m>>
    BY <1>5, <2>3, <2>5, RunsFilled DEF Complete
  <2>7. g.bytesLeft = 0 /\ Waiting'
    BY <1>6, <1>10, <1>13, <2>4 DEF MessageHeaderSize
  <2>8. NextToCome'
    BY <1>2, <1>4, <1>5, <1>11, <2>5, <2>6, <2>7 DEF NextToCome, LastFrame, p
  <2> QED
    BY <1>8, <2>7, <2>8
<1>14. CASE isSegmented /\ segmentInd # 0
  <2>1. NextToCome
    BY <1>2, <1>14 DEF SInv, Waiting, MoreToPut, p
  <2>2. Opened(enc, f)
    BY <1>1, <2>1 DEF NeedsFrame, NextToCome, MessageHeaderSize
  <2>3. /\ n = Len(enc.cmpFrames) + 1
        /\ f.bytesLeft = enc.maxBytesPerMessage - CmpHeaderSize
        /\ f.maxBytesPerMessage = enc.maxBytesPerMessage
        /\ Len(enc.cmpFrames) \in Nat /\ Len(enc.cmpFrames) # 0
        /\ f.cmpFrames[n - 1].body = LastFrame(enc).body
    BY <1>2, <2>1, <2>2 DEF Opened, NextToCome, LastFrame, EncoderState, n
  <2>4. Runs(f.cmpFrames, n - 1) /\ NoSegment(LastFrame(f)) /\ LastFrame(f).body = <<>>
    BY <1>2, <2>1, <2>2, <2>3, RunsOpened DEF NextToCome
  <2>5. \A k \in DOMAIN f.cmpFrames[n-1].body :
          f.cmpFrames[n-1].body[k].data.packet = m.data.packet
    BY <1>4, <2>1, <2>3 DEF NextToCome, p
  <2>6. pos # 0 /\ IsSegment(m) /\ Truthful(m)
    BY <1>2, <1>4, <1>9, <1>14 DEF IsSegment, Truthful
  <2>7. /\ Runs(g.cmpFrames, IF ~ AtEnd(m) THEN n ELSE 0)
        /\ LastFrame(g).body = <<m>>
    BY <1>5, <2>4, <2>5, <2>6, RunsFilled DEF n
  <2>8. CASE AtEnd(m)
    <3>1. Opened(g, enc') /\ ~ Waiting'
      BY <1>2, <1>3, <1>4, <1>7, <1>9, <1>10, <1>14, <2>8
    <3>2. Runs(enc'.cmpFrames, 0) /\ NoSegment(LastFrame(enc'))
      BY <1>5, <2>7, <2>8, <3>1, RunsOpened
    <3> QED
      BY <1>8, <3>1, <3>2 DEF Complete
  <2>9. CASE ~ AtEnd(m)
    <3>1. enc' = g /\ Waiting' /\ bytes = f.bytesLeft - MessageHeaderSize
      BY <1>2, <1>3, <1>4, <1>7, <1>9, <1>10, <1>14, <2>9
    <3>2. g.bytesLeft = 0
      BY <1>6, <3>1 DEF MessageHeaderSize
    <3>3. NextToCome'
      BY <1>2, <1>4, <1>5, <1>11, <2>7, <2>9, <3>1, <3>2 DEF NextToCome, LastFrame, p
    <3> QED
      BY <1>8, <3>1, <3>3
  <2> QED
    BY <2>8, <2>9
<1> QED
  BY <1>2, <1>12, <1>13, <1>14

LEMMA SInvInit == Init => SInv
BY CompleteCleared DEF Init, SInv, Waiting, Runs

LEMMA SInvStep ==
    ASSUME IInv, SInv, [Next]_vars
    PROVE  SInv'
<1>1. ASSUME NEW d \in DeviceId, SetDeviceId(d) PROVE SInv'
  <2>1. [enc EXCEPT !.deviceId = d] \in EncoderState
    BY DEF IInv, TypeOK, EncoderState
  <2>2. Complete(enc')
    BY <1>1, <2>1, ClearedIs, CompleteCleared DEF SetDeviceId
  <2> QED
    BY <1>1, <2>2 DEF SetDeviceId, SInv, Waiting
<1>2. ASSUME NEW s \in StreamId, SetStreamId(s) PROVE SInv'
  <2>1. [enc EXCEPT !.streamId = s] \in EncoderState
    BY DEF IInv, TypeOK, EncoderState
  <2>2. Complete(enc')
    BY <1>2, <2>1, ClearedIs, CompleteCleared DEF SetStreamId
  <2> QED
    BY <1>2, <2>2 DEF SetStreamId, SInv, Waiting
<1>3. ASSUME Restart PROVE SInv'
  <2>1. enc'.cmpFrames = <<>>
    BY <1>3 DEF Restart, IInv, TypeOK, EncoderState
  <2> QED
    BY <1>3, <2>1, CompleteCleared DEF Restart, SInv, Waiting
<1>4. ASSUME NEW r \in Requests, NEW context \in DataContexts, BeginEncode(r, context)
      PROVE  SInv'
  <2> DEFINE c == ClearEncodingMetadata(enc, FALSE)
  <2>1. c \in EncoderState /\ c.cmpFrames = <<>>
    BY ClearedIs DEF IInv, TypeOK
  <2>2. enc' = [c EXCEPT !.minBytesPerMessage = context.minBytesPerMessage,
                         !.maxBytesPerMessage = context.maxBytesPerMessage]
    BY <1>4 DEF BeginEncode
  <2> HIDE DEF c
  <2>3. enc'.cmpFrames = <<>>
    BY <2>1, <2>2 DEF EncoderState
  <2>4. Runs(frames', 0) /\ pc' = "packet"
    BY <1>4 DEF BeginEncode, Runs
  <2> QED
    BY <2>3, <2>4, CompleteCleared DEF SInv, Waiting
<1>5. ASSUME StartPacket PROVE SInv'
  <2>1. Complete(enc') /\ (isSegmented' => FirstToCome')
    BY <1>5, SegmentsStart
  <2> QED
    BY <1>5, <2>1 DEF StartPacket, SInv, Waiting
<1>6. ASSUME PutSegment PROVE SInv'
  <2>1. /\ Waiting' => NextToCome'
        /\ ~ Waiting' => Complete(enc')
        /\ segmentInd' # 0 /\ currentPayloadPos' # 0
    BY <1>6, SegmentsPut
  <2>2. Runs(frames', 0)
    BY <1>6 DEF PutSegment, SInv
  <2> QED
    BY <2>1, <2>2 DEF SInv
<1>7. ASSUME FinishPacket PROVE SInv'
  BY <1>7 DEF FinishPacket, SInv, Waiting
<1>8. ASSUME ReturnUndefined PROVE SInv'
  BY <1>8 DEF ReturnUndefined, putVars, SInv, Waiting
<1>9. ASSUME ReturnFrames PROVE SInv'
  <2>1. enc'.cmpFrames = <<>>
    BY <1>9, ClearedIs DEF ReturnFrames, IInv, TypeOK
  <2>2. Runs(frames', 0)
    <3>1. /\ enc \in EncoderState /\ OpenFrame(enc) /\ frames' = ClosedFrames(enc)
          /\ Runs(enc.cmpFrames, 0)
      BY <1>9 DEF ReturnFrames, IInv, Sound, SInv, Waiting, Complete
    <3>2. /\ DOMAIN frames' = DOMAIN enc.cmpFrames
          /\ \A i \in DOMAIN frames' :
               /\ frames'[i].body = enc.cmpFrames[i].body
               /\ frames'[i].sequenceCounter = enc.cmpFrames[i].sequenceCounter
      BY <3>1, ClosedFramesHold
    <3> QED
      BY <3>1, <3>2 DEF Runs, Followed
  <2> QED
    BY <1>9, <2>1, <2>2, CompleteCleared DEF ReturnFrames, SInv, Waiting
<1>10. CASE UNCHANGED vars
  BY <1>10 DEF vars, SInv, Waiting, FirstToCome, NextToCome
<1> QED
  BY <1>1, <1>2, <1>3, <1>4, <1>5, <1>6, <1>7, <1>8, <1>9, <1>10
     DEF Next, Configure, Call, Run, Step

(***************************************************************************)
(* In what a call returns, a segment is alone in its frame, its flag tells *)
(* the truth, and the next segment of its packet is in the very next frame *)
(* under the next counter, over a wrap too (encoder.cpp:91-92, 137-162).   *)
(***************************************************************************)
THEOREM SegmentsRun == Spec => []SegmentsFormRuns
<1>1. IInv /\ SInv /\ [Next]_vars => SInv'
  BY SInvStep
<1>2. IInv /\ SInv => SegmentsFormRuns
  <2> SUFFICES ASSUME IInv, SInv PROVE SegmentsFormRuns
    OBVIOUS
  <2>1. 0 \notin DOMAIN frames
    BY DEF IInv, TypeOK
  <2> QED
    BY <2>1 DEF SInv, Runs, Followed, Truthful, SegmentsFormRuns
<1> QED
  BY <1>1, <1>2, IInvInvariant, SInvInit, PTL DEF Spec
-----------------------------------------------------------------------------
\* The messages of all frames so far, which neither the opening nor the
\* closing of a frame changes.
Written(e) == Messages(e.cmpFrames)
Bodies(fs) == [i \in DOMAIN fs |-> fs[i].body]

LEMMA BodyType ==
    ASSUME NEW fs \in Seq(Frame), NEW i \in 1 .. Len(fs)
    PROVE  fs[i].body \in Seq(MessageHeader)
<1>1. fs[i] \in Frame
  OBVIOUS
<1> QED
  BY <1>1 DEF Frame

LEMMA BodiesType ==
    ASSUME NEW fs \in Seq(Frame)
    PROVE  /\ Bodies(fs) \in Seq(Seq(MessageHeader))
           /\ Len(Bodies(fs)) = Len(fs)
           /\ \A i \in 1 .. Len(fs) : Bodies(fs)[i] = fs[i].body
           /\ Messages(fs) = FlattenSeq(Bodies(fs))
           /\ Messages(fs) \in Seq(MessageHeader)
<1> DEFINE n == Len(fs)
           S == Seq(MessageHeader)
<1>1. n \in Nat /\ DOMAIN fs = 1 .. n
  OBVIOUS
<1>2. \A i \in 1 .. n : fs[i].body \in S
  BY BodyType
<1> HIDE DEF n, S
<1>3. Bodies(fs) = [i \in 1 .. n |-> fs[i].body]
  BY <1>1 DEF Bodies
<1>4. Bodies(fs) \in Seq(S) /\ Len(Bodies(fs)) = n
      /\ \A i \in 1 .. n : Bodies(fs)[i] = fs[i].body
  BY <1>1, <1>2, <1>3
<1>5. Messages(fs) = FlattenSeq(Bodies(fs))
  BY DEF Messages, Bodies
<1> QED
  BY <1>4, <1>5, FlattenType DEF n, S

LEMMA MessagesSame ==
    ASSUME NEW fs \in Seq(Frame), NEW gs \in Seq(Frame), Len(fs) = Len(gs),
           \A i \in 1 .. Len(fs) : fs[i].body = gs[i].body
    PROVE  Messages(fs) = Messages(gs)
<1>1. Bodies(fs) = Bodies(gs)
  BY DEF Bodies
<1> QED
  BY <1>1, BodiesType

\* Sequences of the same length with the same members are the same.
LEMMA SameSeq ==
    ASSUME NEW S, NEW T, NEW s \in Seq(S), NEW t \in Seq(T), Len(s) = Len(t),
           \A i \in 1 .. Len(s) : s[i] = t[i]
    PROVE  s = t
OBVIOUS

\* The messages before the last frame, in front of that frame's.
LEMMA MessagesLast ==
    ASSUME NEW fs \in Seq(Frame), NEW es \in Seq(Frame), NEW n \in Nat,
           Len(es) = n, Len(fs) = n + 1,
           \A i \in 1 .. n : fs[i].body = es[i].body
    PROVE  Messages(fs) = Messages(es) \o fs[n + 1].body
<1> DEFINE b == fs[n + 1].body
           S == Seq(MessageHeader)
           be == Bodies(es)
           bf == Bodies(fs)
<1>1. b \in S
  BY BodyType
<1>2. /\ be \in Seq(S) /\ bf \in Seq(S)
      /\ Len(be) = n /\ Len(bf) = n + 1
      /\ Messages(es) = FlattenSeq(be) /\ Messages(fs) = FlattenSeq(bf)
      /\ \A i \in 1 .. n : bf[i] = be[i]
      /\ bf[n + 1] = b
  <2>1. n + 1 \in 1 .. Len(fs) /\ \A i \in 1 .. n : i \in 1 .. Len(fs)
    OBVIOUS
  <2>2. /\ be \in Seq(S) /\ Len(be) = n /\ Messages(es) = FlattenSeq(be)
        /\ \A i \in 1 .. n : be[i] = es[i].body
    BY BodiesType
  <2>3. /\ bf \in Seq(S) /\ Len(bf) = n + 1 /\ Messages(fs) = FlattenSeq(bf)
        /\ \A i \in 1 .. n + 1 : bf[i] = fs[i].body
    BY BodiesType
  <2> HIDE DEF be, bf
  <2> QED
    BY <2>1, <2>2, <2>3
<1> HIDE DEF b, S, be, bf
<1>3. bf = Append(be, b)
  <2>1. Append(be, b) \in Seq(S) /\ Len(Append(be, b)) = Len(bf)
    BY <1>1, <1>2
  <2>2. \A i \in 1 .. Len(bf) : Append(be, b)[i] = bf[i]
    BY <1>1, <1>2
  <2> HIDE DEF S
  <2> QED
    BY <1>2, <2>1, <2>2, SameSeq
<1>4. FlattenSeq(Append(be, b)) = FlattenSeq(be) \o b
  BY <1>1, <1>2, FlattenAppend DEF S
<1> QED
  BY <1>2, <1>3, <1>4 DEF b

LEMMA MessagesOpened ==
    ASSUME NEW e \in EncoderState, NEW f, Opened(e, f)
    PROVE  Written(f) = Written(e)
<1> DEFINE es == e.cmpFrames
           fs == f.cmpFrames
           n == Len(es)
<1>1. es \in Seq(Frame) /\ fs \in Seq(Frame) /\ n \in Nat /\ Len(fs) = n + 1
  BY DEF Opened, EncoderState
<1>2. fs[n + 1].body = <<>> /\ \A i \in 1 .. n : fs[i].body = es[i].body
  BY DEF Opened
<1> HIDE DEF es, fs
<1>3. Messages(fs) = Messages(es) \o <<>>
  BY <1>1, <1>2, MessagesLast
<1>4. Messages(es) \in Seq(MessageHeader)
  BY <1>1, BodiesType
<1> QED
  BY <1>3, <1>4 DEF Written, es, fs

LEMMA MessagesFilled ==
    ASSUME NEW f \in EncoderState, f.cmpFrames # <<>>, NEW m \in MessageHeader,
           NEW g, Filled(f, g, m)
    PROVE  Written(f) \in Seq(MessageHeader) /\ Written(g) = Append(Written(f), m)
<1> DEFINE fs == f.cmpFrames
           gs == g.cmpFrames
           n == Len(fs) - 1
           es == SubSeq(fs, 1, n)
           last == fs[n + 1].body
<1>1. /\ fs \in Seq(Frame) /\ gs \in Seq(Frame) /\ n \in Nat
      /\ Len(fs) = n + 1 /\ Len(gs) = n + 1
  BY DEF Filled, EncoderState
<1>2. /\ gs[n + 1].body = Append(last, m)
      /\ \A i \in 1 .. n : gs[i].body = fs[i].body
  BY <1>1 DEF Filled
<1> HIDE DEF fs, gs, n
<1>3. es \in Seq(Frame) /\ Len(es) = n /\ \A i \in 1 .. n : es[i] = fs[i]
  BY <1>1
<1>4. last \in Seq(MessageHeader)
  BY <1>1, BodyType
<1>5. Messages(es) \in Seq(MessageHeader) /\ Messages(fs) \in Seq(MessageHeader)
  BY <1>1, <1>3, BodiesType
<1> HIDE DEF es, last
<1>6. Messages(fs) = Messages(es) \o last
  BY <1>1, <1>3, MessagesLast DEF last
<1>7. Messages(gs) = Messages(es) \o Append(last, m)
  BY <1>1, <1>2, <1>3, MessagesLast
<1> DEFINE a == Messages(es)
<1> HIDE DEF a
<1>8. ASSUME a \in Seq(MessageHeader)
      PROVE  a \o Append(last, m) = Append(a \o last, m)
  BY <1>4, <1>8
<1> QED
  BY <1>5, <1>6, <1>7, <1>8 DEF Written, fs, gs, a

LEMMA MessagesNone ==
    ASSUME NEW e, e.cmpFrames = <<>> PROVE Written(e) = <<>>
<1>1. Bodies(<<>>) = <<>>
  BY DEF Bodies
<1> QED
  BY <1>1, FlattenEmpty DEF Written, Messages, Bodies
-----------------------------------------------------------------------------
\* The bytes of a frame without messages, and of one more message.
LEMMA UsedNone ==
    ASSUME NEW f, f.body = <<>> PROVE UsedBytes(f) = CmpHeaderSize
<1> DEFINE sizes == [k \in DOMAIN f.body |-> MessageHeaderSize + f.body[k].payloadLength]
<1>1. DOMAIN sizes = {}
  OBVIOUS
<1> HIDE DEF sizes
<1>2. SumFunction(sizes) = 0
  BY <1>1, SumEmpty
<1> QED
  BY <1>2 DEF UsedBytes, sizes, CmpHeaderSize

LEMMA UsedMore ==
    ASSUME NEW f \in Frame, NEW g, NEW m \in MessageHeader,
           g.body = Append(f.body, m)
    PROVE  /\ UsedBytes(f) \in Int
           /\ UsedBytes(g) = UsedBytes(f) + MessageHeaderSize + m.payloadLength
<1> DEFINE b == f.body
           c == g.body
           n == Len(b)
           sb == [k \in DOMAIN b |-> MessageHeaderSize + b[k].payloadLength]
           sc == [k \in DOMAIN c |-> MessageHeaderSize + c[k].payloadLength]
<1>1. b \in Seq(MessageHeader) /\ n \in Nat
  BY DEF Frame
<1>2. /\ DOMAIN b = 1 .. n /\ DOMAIN c = 1 .. n + 1 /\ c[n + 1] = m
      /\ \A k \in 1 .. n : c[k] = b[k] /\ b[k] \in MessageHeader
  BY <1>1
<1> HIDE DEF b, c, n
<1>3. /\ DOMAIN sb = 1 .. n /\ DOMAIN sc = (DOMAIN sb) \cup {n + 1}
      /\ n + 1 \notin DOMAIN sb
      /\ sc[n + 1] = MessageHeaderSize + m.payloadLength
      /\ \A k \in DOMAIN sb : sc[k] = sb[k]
  BY <1>1, <1>2
<1>4. \A k \in DOMAIN sc : sc[k] \in Nat
  <2>1. \A k \in 1 .. n + 1 : c[k] \in MessageHeader
    BY <1>1, <1>2
  <2> QED
    BY <1>2, <2>1 DEF MessageHeader, Length, MessageHeaderSize
<1>5. UsedBytes(f) = CmpHeaderSize + SumFunction(sb)
      /\ UsedBytes(g) = CmpHeaderSize + SumFunction(sc)
  BY DEF UsedBytes, b, c
<1>6. sc = [k \in DOMAIN sc |-> sc[k]] /\ sb = [k \in DOMAIN sb |-> sb[k]]
  OBVIOUS
<1> HIDE DEF sb, sc
<1>7. IsFiniteSet(DOMAIN sb)
  <2>1. IsFiniteSet(1 .. n)
    BY <1>1, FS_Interval
  <2> QED
    BY <1>3, <2>1
<1>8. SumFunction(sc) = SumFunction(sb) + sc[n + 1] /\ SumFunction(sb) \in Nat
  <2>1. Numeric(sc, DOMAIN sc) /\ Numeric(sb, DOMAIN sb)
    BY <1>3, <1>4 DEF Numeric
  <2> DEFINE x == n + 1
  <2> HIDE DEF x
  <2>2. x \notin DOMAIN sb /\ DOMAIN sc = DOMAIN sb \cup {x}
          /\ \A k \in DOMAIN sb : sc[k] = sb[k]
    BY <1>3 DEF x
  <2>3. SumFunction(sc) = SumFunction(sb) + sc[x]
    BY <1>7, <2>1, <2>2, SumMore
  <2>4. SumFunction(sb) \in Nat
    BY <1>7, <2>1, SumType
  <2> QED
    BY <2>3, <2>4 DEF x
<1>9. m.payloadLength \in Nat
  BY DEF MessageHeader, Length
<1> DEFINE A == SumFunction(sb)
           B == SumFunction(sc)
           u == UsedBytes(f)
           v == UsedBytes(g)
           l == m.payloadLength
<1>10. A \in Nat /\ l \in Nat /\ B = A + (MessageHeaderSize + l)
  BY <1>3, <1>8, <1>9
<1>11. u = CmpHeaderSize + A /\ v = CmpHeaderSize + B
  BY <1>5
<1> HIDE DEF A, B, u, v, l
<1>12. u \in Int /\ v = u + MessageHeaderSize + l
  BY <1>10, <1>11 DEF CmpHeaderSize, MessageHeaderSize
<1> QED
  BY <1>12 DEF u, v, l

\* A closed frame is within the context, and as long as what it holds or the
\* minimum; the open one is what it holds and what is left.
Closed(f, e) ==
    /\ UsedBytes(f) <= e.maxBytesPerMessage
    /\ f.size = Greatest(UsedBytes(f), e.minBytesPerMessage)

Sized(e) ==
    LET n == Len(e.cmpFrames)
    IN  /\ \A i \in 1 .. n - 1 : Closed(e.cmpFrames[i], e)
        /\ n > 0 => UsedBytes(e.cmpFrames[n]) + e.bytesLeft = e.maxBytesPerMessage

LEMMA UsedType ==
    ASSUME NEW f \in Frame PROVE UsedBytes(f) \in Nat
<1> DEFINE b == f.body
           s == [k \in DOMAIN b |-> MessageHeaderSize + b[k].payloadLength]
<1>1. b \in Seq(MessageHeader) /\ Len(b) \in Nat /\ DOMAIN b = 1 .. Len(b)
  BY DEF Frame
<1> HIDE DEF b
<1>2. IsFiniteSet(DOMAIN s)
  <2>1. IsFiniteSet(1 .. Len(b))
    BY <1>1, FS_Interval
  <2> QED
    BY <1>1, <2>1
<1>3. \A k \in DOMAIN s : s[k] \in Nat
  <2>1. \A k \in 1 .. Len(b) : b[k] \in MessageHeader
    BY <1>1
  <2> QED
    BY <1>1, <2>1 DEF MessageHeader, Length, MessageHeaderSize
<1> HIDE DEF s
<1>4. SumFunction(s) \in Nat
  BY <1>2, <1>3, SumType DEF Numeric
<1> QED
  BY <1>4 DEF UsedBytes, CmpHeaderSize, s, b

LEMMA UsedSame ==
    ASSUME NEW f, NEW g, f.body = g.body PROVE UsedBytes(f) = UsedBytes(g)
BY DEF UsedBytes

LEMMA FrameAt ==
    ASSUME NEW fs \in Seq(Frame), NEW i \in 1 .. Len(fs) PROVE fs[i] \in Frame
OBVIOUS

LEMMA SizedClosed ==
    ASSUME NEW e \in EncoderState, Sized(e), NEW i \in 1 .. Len(e.cmpFrames),
           NEW f, f.body = e.cmpFrames[i].body,
           f.size = IF i = Len(e.cmpFrames) THEN ClosedSize(e) ELSE e.cmpFrames[i].size
    PROVE  Closed(f, e)
<1> DEFINE n == Len(e.cmpFrames)
           u == UsedBytes(e.cmpFrames[i])
<1>1. n \in Nat /\ e.bytesLeft \in Nat /\ e.maxBytesPerMessage \in Nat
        /\ e.cmpFrames \in Seq(Frame)
  BY DEF EncoderState
<1>2. u \in Nat
  BY <1>1, FrameAt, UsedType
<1>3. UsedBytes(f) = u
  BY UsedSame
<1>4. CASE i = n
  <2>1. u + e.bytesLeft = e.maxBytesPerMessage
    BY <1>1, <1>4 DEF Sized
  <2>2. f.size = ClosedSize(e)
    BY <1>4
  <2> HIDE DEF u
  <2> QED
    BY <1>1, <1>2, <1>3, <2>1, <2>2 DEF Closed, ClosedSize
<1>5. CASE i # n
  <2>1. i \in 1 .. n - 1
    BY <1>1, <1>5
  <2> QED
    BY <1>3, <1>5, <2>1 DEF Sized, Closed
<1> QED
  BY <1>4, <1>5

LEMMA SizedOpened ==
    ASSUME NEW e \in EncoderState, Sized(e), NEW f, Opened(e, f)
    PROVE  Sized(f)
<1> DEFINE n == Len(e.cmpFrames)
           fs == f.cmpFrames
<1>1. /\ n \in Nat /\ Len(fs) = n + 1 /\ fs[n + 1].body = <<>>
      /\ f.minBytesPerMessage = e.minBytesPerMessage
      /\ f.maxBytesPerMessage = e.maxBytesPerMessage
      /\ f.bytesLeft = e.maxBytesPerMessage - CmpHeaderSize
      /\ e.maxBytesPerMessage \in Nat
  BY DEF Opened, EncoderState
<1>2. \A i \in 1 .. n : fs[i].body = e.cmpFrames[i].body
        /\ fs[i].size = IF i = n THEN ClosedSize(e) ELSE e.cmpFrames[i].size
  BY DEF Opened
<1>3. \A i \in 1 .. n : Closed(fs[i], e)
  BY <1>2, SizedClosed
<1>4. UsedBytes(fs[n + 1]) = CmpHeaderSize
  BY <1>1, UsedNone
<1> HIDE DEF n, fs
<1>5. \A i \in 1 .. n : Closed(fs[i], f)
  BY <1>1, <1>3 DEF Closed
<1>6. UsedBytes(fs[n + 1]) + f.bytesLeft = f.maxBytesPerMessage
  BY <1>1, <1>4 DEF CmpHeaderSize
<1> QED
  BY <1>1, <1>5, <1>6 DEF Sized, fs

LEMMA SizedFilled ==
    ASSUME NEW f \in EncoderState, f.cmpFrames # <<>>, Sized(f),
           NEW m \in MessageHeader, NEW g, Filled(f, g, m)
    PROVE  Sized(g)
<1> DEFINE n == Len(f.cmpFrames)
           fs == f.cmpFrames
           gs == g.cmpFrames
<1>1. /\ n \in Nat /\ n > 0 /\ Len(gs) = n /\ fs \in Seq(Frame)
      /\ g.minBytesPerMessage = f.minBytesPerMessage
      /\ g.maxBytesPerMessage = f.maxBytesPerMessage
      /\ g.bytesLeft = f.bytesLeft - MessageHeaderSize - m.payloadLength
      /\ f.bytesLeft \in Nat /\ f.maxBytesPerMessage \in Nat
  BY DEF Filled, EncoderState
<1>2. /\ gs[n].body = Append(fs[n].body, m)
      /\ \A i \in 1 .. n - 1 : gs[i].body = fs[i].body
      /\ \A i \in 1 .. n : gs[i].size = fs[i].size
  BY DEF Filled
<1>3. /\ \A i \in 1 .. n - 1 : Closed(fs[i], f)
      /\ UsedBytes(fs[n]) + f.bytesLeft = f.maxBytesPerMessage
  BY <1>1 DEF Sized
<1>4. fs[n] \in Frame /\ m.payloadLength \in Nat
  BY <1>1, FrameAt DEF MessageHeader, Length
<1>5. /\ UsedBytes(fs[n]) \in Int
      /\ UsedBytes(gs[n]) = UsedBytes(fs[n]) + MessageHeaderSize + m.payloadLength
  BY <1>2, <1>4, UsedMore
<1> HIDE DEF n, fs, gs
<1>6. \A i \in 1 .. n - 1 : UsedBytes(gs[i]) = UsedBytes(fs[i]) /\ gs[i].size = fs[i].size
  <2> SUFFICES ASSUME NEW i \in 1 .. n - 1
               PROVE  UsedBytes(gs[i]) = UsedBytes(fs[i]) /\ gs[i].size = fs[i].size
    OBVIOUS
  <2>1. gs[i].body = fs[i].body /\ gs[i].size = fs[i].size
    BY <1>1, <1>2
  <2> QED
    BY <2>1, UsedSame
<1>7. \A i \in 1 .. n - 1 : Closed(gs[i], g)
  BY <1>1, <1>3, <1>6 DEF Closed
<1>8. UsedBytes(gs[n]) + g.bytesLeft = g.maxBytesPerMessage
  <2> DEFINE u == UsedBytes(fs[n])
             v == UsedBytes(gs[n])
             l == m.payloadLength
  <2>1. /\ u \in Int /\ v = u + MessageHeaderSize + l /\ l \in Nat
        /\ u + f.bytesLeft = f.maxBytesPerMessage
    BY <1>3, <1>4, <1>5
  <2>2. /\ g.bytesLeft = f.bytesLeft - MessageHeaderSize - l /\ f.bytesLeft \in Nat
        /\ g.maxBytesPerMessage = f.maxBytesPerMessage
    BY <1>1
  <2> HIDE DEF u, v, l
  <2>3. v + g.bytesLeft = g.maxBytesPerMessage
    BY <2>1, <2>2 DEF MessageHeaderSize
  <2> QED
    BY <2>3 DEF v
<1> QED
  BY <1>1, <1>7, <1>8 DEF Sized, gs
-----------------------------------------------------------------------------
\* The sizes of a call's frames account for every byte, used, free or padding.
SizeInv == Sized(enc) /\ FramesWithinContext

LEMMA SizedNone ==
    ASSUME NEW e, e.cmpFrames = <<>> PROVE Sized(e)
BY DEF Sized

LEMMA SizeInvInit == Init => SizeInv
BY SizedNone DEF Init, SizeInv, FramesWithinContext

LEMMA SizeInvStep ==
    ASSUME IInv, SizeInv, [Next]_vars
    PROVE  SizeInv'
<1> USE DEF SizeInv
<1>1. ASSUME enc'.cmpFrames = <<>>,
             enc'.minBytesPerMessage = enc.minBytesPerMessage,
             enc'.maxBytesPerMessage = enc.maxBytesPerMessage,
             pc = "idle", UNCHANGED <<pc, frames>>
      PROVE  SizeInv'
  BY <1>1, SizedNone DEF FramesWithinContext, Returned
<1>2. enc \in EncoderState /\ Sound(enc)
  BY DEF IInv, Sound
<1>3. ASSUME Configure PROVE SizeInv'
  <2>1. ASSUME NEW d \in DeviceId, SetDeviceId(d) PROVE SizeInv'
    BY <1>1, <1>2, <2>1 DEF SetDeviceId, ClearEncodingMetadata, EncoderState
  <2>2. ASSUME NEW s \in StreamId, SetStreamId(s) PROVE SizeInv'
    BY <1>1, <1>2, <2>2 DEF SetStreamId, ClearEncodingMetadata, EncoderState
  <2>3. ASSUME Restart PROVE SizeInv'
    BY <1>1, <1>2, <2>3 DEF Restart, EncoderState, IInv
  <2> QED
    BY <1>3, <2>1, <2>2, <2>3 DEF Configure
<1>4. ASSUME NEW r \in Requests, NEW context \in DataContexts, BeginEncode(r, context)
      PROVE  SizeInv'
  <2>1. enc'.cmpFrames = <<>> /\ pc' = "packet"
    BY <1>2, <1>4 DEF BeginEncode, ClearEncodingMetadata, EncoderState
  <2> QED
    BY <2>1, SizedNone DEF FramesWithinContext, Returned
<1>5. ASSUME StartPacket PROVE SizeInv'
  <2> DEFINE p == request[next]
             r == [enc EXCEPT !.messageType = p.messageType]
  <2>1. PICK typed :
          /\ IF enc.messageType = p.messageType THEN typed = enc ELSE Opened(r, typed)
          /\ Sound(typed)
          /\ IF DoesNotFit(typed, p) THEN Opened(typed, enc') ELSE enc' = typed
    BY <1>5, StartPacketIs
  <2>2. /\ r \in EncoderState /\ r.cmpFrames = enc.cmpFrames
        /\ r.minBytesPerMessage = enc.minBytesPerMessage
        /\ r.maxBytesPerMessage = enc.maxBytesPerMessage /\ r.bytesLeft = enc.bytesLeft
    <3>1. p.messageType \in MessageType
      BY <1>5, StartPacketIs DEF Packet
    <3> QED
      BY <1>2, <3>1 DEF EncoderState
  <2>3. Sized(r)
    BY <2>2 DEF Sized, Closed
  <2> HIDE DEF r
  <2>4. Sized(typed) /\ typed \in EncoderState
    BY <2>1, <2>2, <2>3, SizedOpened DEF Sound
  <2>5. Sized(enc')
    BY <2>1, <2>4, SizedOpened
  <2> QED
    BY <1>5, <2>5 DEF StartPacket, FramesWithinContext, Returned
<1>6. ASSUME PutSegment PROVE SizeInv'
  <2> DEFINE p == request[next]
  <2>1. PICK f, g, m :
          /\ IF NeedsFrame(enc) THEN Opened(enc, f) ELSE f = enc
          /\ Sound(f) /\ f.cmpFrames # <<>>
          /\ m \in MessageHeader /\ Filled(f, g, m)
          /\ Opened(g, enc') \/ enc' = g
    BY <1>6, PutSegmentIs
  <2>2. Sized(f) /\ f \in EncoderState
    BY <1>2, <2>1, SizedOpened DEF Sound
  <2>3. Sized(g) /\ g \in EncoderState
    BY <2>1, <2>2, SizedFilled DEF Filled
  <2>4. Sized(enc')
    BY <2>1, <2>3, SizedOpened
  <2> QED
    BY <1>6, <2>4 DEF PutSegment, FramesWithinContext, Returned
<1>7. ASSUME FinishPacket PROVE SizeInv'
  BY <1>7 DEF FinishPacket, FramesWithinContext, Returned
<1>8. ASSUME ReturnUndefined PROVE SizeInv'
  BY <1>8 DEF ReturnUndefined, FramesWithinContext, Returned
<1>9. ASSUME ReturnFrames PROVE SizeInv'
  <2>1. /\ enc'.cmpFrames = <<>>
        /\ enc'.minBytesPerMessage = enc.minBytesPerMessage
        /\ enc'.maxBytesPerMessage = enc.maxBytesPerMessage
    BY <1>2, <1>9 DEF ReturnFrames, ClearEncodingMetadata, EncoderState
  <2>2. frames' = ClosedFrames(enc) /\ OpenFrame(enc) /\ Roomy(enc)
    BY <1>9 DEF ReturnFrames, IInv, Sound
  <2>3. /\ frames' \in Seq(Frame) /\ Len(frames') = Len(enc.cmpFrames)
        /\ \A i \in 1 .. Len(enc.cmpFrames) :
             /\ frames'[i].body = enc.cmpFrames[i].body
             /\ frames'[i].size = IF i = Len(enc.cmpFrames) THEN ClosedSize(enc)
                                  ELSE enc.cmpFrames[i].size
    BY <1>2, <2>2, ClosedFramesIs
  <2>4. \A i \in DOMAIN frames' : Closed(frames'[i], enc) /\ frames'[i] \in Frame
    BY <1>2, <2>3, SizedClosed
  <2>5. /\ enc.minBytesPerMessage \in Nat /\ enc.maxBytesPerMessage \in Nat
        /\ enc.minBytesPerMessage <= enc.maxBytesPerMessage
    BY <1>2, <2>2 DEF Roomy, EncoderState
  <2>6. ASSUME NEW i \in DOMAIN frames'
        PROVE  /\ frames'[i].size \in enc'.minBytesPerMessage .. enc'.maxBytesPerMessage
               /\ frames'[i].size = Greatest(UsedBytes(frames'[i]), enc'.minBytesPerMessage)
    <3> DEFINE u == UsedBytes(frames'[i])
               size == frames'[i].size
    <3>1. u \in Nat
      BY <2>4, UsedType
    <3>2. u <= enc.maxBytesPerMessage /\ size = Greatest(u, enc.minBytesPerMessage)
      BY <2>4 DEF Closed
    <3> HIDE DEF u, size
    <3>3. size \in enc.minBytesPerMessage .. enc.maxBytesPerMessage
      BY <2>5, <3>1, <3>2 DEF Greatest
    <3> QED
      BY <2>1, <3>2, <3>3 DEF u, size
  <2> QED
    BY <2>1, <2>6, SizedNone DEF FramesWithinContext
<1>10. CASE UNCHANGED vars
  BY <1>10 DEF vars, FramesWithinContext, Returned
<1> QED
  BY <1>3, <1>4, <1>5, <1>6, <1>7, <1>8, <1>9, <1>10 DEF Next, Call, Run, Step

(***************************************************************************)
(* Every returned frame is between the two limits of its context, and as   *)
(* long as its headers and messages or the minimum, whatever the sizes     *)
(* (encoder.cpp:38, 115, 123).                                             *)
(***************************************************************************)
THEOREM FramesKeepWithinContext == Spec => []FramesWithinContext
<1>1. IInv /\ SizeInv /\ [Next]_vars => SizeInv'
  BY SizeInvStep
<1>2. SizeInv => FramesWithinContext
  BY DEF SizeInv
<1> QED
  BY <1>1, <1>2, IInvInvariant, SizeInvInit, PTL DEF Spec
-----------------------------------------------------------------------------
(***************************************************************************)
(* Tiling.  The messages of all frames so far, one after another, continue *)
(* one another; between two packets the last one has reached its end, and  *)
(* inside a packet it ends where the next one is to start.                 *)
(***************************************************************************)
Ids(p) == IF p.payloadLength > 0 THEN <<p.id>> ELSE <<>>
IdsUpTo(n) == FlattenSeq([i \in 1 .. n |-> Ids(request[i])])

Start(m) == IF AtStart(m) THEN <<m.data.packet>> ELSE <<>>

Joined(m) ==
    \A k \in DOMAIN m :
        IF k = 1 \/ AtEnd(m[IF k = 1 THEN 1 ELSE k - 1])
          THEN AtStart(m[k])
          ELSE /\ m[k].data.packet = m[k-1].data.packet
               /\ m[k].data.position = m[k-1].data.position + m[k-1].payloadLength

Between(m, n) ==
    /\ m # <<>> => AtEnd(Last(m))
    /\ StartedIds(m) = IdsUpTo(n)

Inside(m, p, position) ==
    /\ m # <<>>
    /\ Last(m).data.packet = p.id
    /\ Last(m).data.position + Last(m).payloadLength = position
    /\ Last(m).data.whole = p.payloadLength

LEMMA StartedMore ==
    ASSUME NEW s \in Seq(MessageHeader), NEW m \in MessageHeader
    PROVE  /\ StartedIds(s) \in Seq(PacketId)
           /\ StartedIds(Append(s, m)) = StartedIds(s) \o Start(m)
<1> DEFINE n == Len(s)
           t == Append(s, m)
           S == Seq(PacketId)
           a == [k \in DOMAIN s |-> Start(s[k])]
           b == [k \in DOMAIN t |-> Start(t[k])]
<1>1. \A x \in MessageHeader : Start(x) \in S
  BY DEF Start, MessageHeader, PayloadData
<1>2. /\ n \in Nat /\ DOMAIN s = 1 .. n /\ DOMAIN t = 1 .. n + 1 /\ t[n + 1] = m
      /\ \A k \in 1 .. n : t[k] = s[k] /\ s[k] \in MessageHeader
  OBVIOUS
<1>3. StartedIds(s) = FlattenSeq(a) /\ StartedIds(t) = FlattenSeq(b)
  BY DEF StartedIds, Start
<1> HIDE DEF n, t, S
<1>4. a = [k \in 1 .. n |-> Start(s[k])] /\ b = [k \in 1 .. n + 1 |-> Start(t[k])]
  BY <1>2
<1> HIDE DEF a, b
<1>5. a \in Seq(S) /\ Len(a) = n /\ \A k \in 1 .. n : a[k] = Start(s[k])
  <2>1. \A k \in 1 .. n : Start(s[k]) \in S
    BY <1>1, <1>2
  <2> QED
    BY <1>2, <1>4, <2>1
<1>6. b \in Seq(S) /\ Len(b) = n + 1 /\ \A k \in 1 .. n + 1 : b[k] = Start(t[k])
  <2>1. \A k \in 1 .. n + 1 : Start(t[k]) \in S
    BY <1>1, <1>2
  <2> QED
    BY <1>2, <1>4, <2>1
<1>7. b = Append(a, Start(m))
  <2>1. Append(a, Start(m)) \in Seq(S) /\ Len(Append(a, Start(m))) = Len(b)
    BY <1>1, <1>5, <1>6
  <2>2. \A k \in 1 .. Len(b) : b[k] = Append(a, Start(m))[k]
    BY <1>2, <1>5, <1>6
  <2> QED
    BY <1>6, <2>1, <2>2, SameSeq
<1>8. FlattenSeq(Append(a, Start(m))) = FlattenSeq(a) \o Start(m) /\ FlattenSeq(a) \in S
  BY <1>1, <1>5, FlattenAppend, FlattenType DEF S
<1> QED
  BY <1>3, <1>7, <1>8 DEF S, t

LEMMA IdsMore ==
    ASSUME request \in Seq(Packet), NEW n \in Nat, n < Len(request)
    PROVE  /\ IdsUpTo(n) \in Seq(PacketId)
           /\ IdsUpTo(n + 1) = IdsUpTo(n) \o Ids(request[n + 1])
<1> DEFINE S == Seq(PacketId)
           a == [i \in 1 .. n |-> Ids(request[i])]
           b == [i \in 1 .. n + 1 |-> Ids(request[i])]
<1>1. \A p \in Packet : Ids(p) \in S
  BY DEF Ids, Packet
<1>2. \A i \in 1 .. n + 1 : request[i] \in Packet
  OBVIOUS
<1>3. \A i \in 1 .. n + 1 : Ids(request[i]) \in S
  BY <1>1, <1>2
<1>4. \A i \in 1 .. n : i \in 1 .. n + 1
  OBVIOUS
<1> HIDE DEF S
<1>5. a \in Seq(S) /\ Len(a) = n /\ \A i \in 1 .. n : a[i] = Ids(request[i])
  BY <1>3, <1>4
<1>6. b \in Seq(S) /\ Len(b) = n + 1 /\ \A i \in 1 .. n + 1 : b[i] = Ids(request[i])
  BY <1>3
<1>7. Ids(request[n + 1]) \in S
  BY <1>3
<1>8. IdsUpTo(n) = FlattenSeq(a) /\ IdsUpTo(n + 1) = FlattenSeq(b)
  BY DEF IdsUpTo
<1> HIDE DEF a, b
<1> DEFINE c == Ids(request[n + 1])
<1> HIDE DEF c
<1>9. b = Append(a, c)
  <2>1. Append(a, c) \in Seq(S) /\ Len(Append(a, c)) = Len(b)
    BY <1>5, <1>6, <1>7 DEF c
  <2>2. \A i \in 1 .. Len(b) : b[i] = Append(a, c)[i]
    BY <1>5, <1>6 DEF c
  <2> QED
    BY <1>6, <2>1, <2>2, SameSeq
<1>10. FlattenSeq(Append(a, c)) = FlattenSeq(a) \o c /\ FlattenSeq(a) \in S
  BY <1>5, <1>7, FlattenAppend, FlattenType DEF S, c
<1> QED
  BY <1>8, <1>9, <1>10 DEF S, c

LEMMA IdsNone == IdsUpTo(0) = <<>> /\ StartedIds(<<>>) = <<>>
<1>1. [i \in 1 .. 0 |-> Ids(request[i])] = <<>>
  OBVIOUS
<1>2. [k \in DOMAIN <<>> |-> IF AtStart(<<>>[k]) THEN <<<<>>[k].data.packet>> ELSE <<>>] = <<>>
  OBVIOUS
<1>3. IdsUpTo(0) = <<>>
  BY <1>1, FlattenEmpty DEF IdsUpTo
<1>4. StartedIds(<<>>) = FlattenSeq(<<>>)
  BY <1>2 DEF StartedIds
<1> QED
  BY <1>3, <1>4, FlattenEmpty

LEMMA IdsAll ==
    ASSUME request \in Seq(Packet) PROVE IdsUpTo(Len(request)) = PayloadIds
<1>1. DOMAIN request = 1 .. Len(request)
  OBVIOUS
<1> QED
  BY <1>1 DEF IdsUpTo, PayloadIds, Ids

LEMMA JoinedMore ==
    ASSUME NEW s \in Seq(MessageHeader), Joined(s), NEW m,
           s = <<>> \/ AtEnd(Last(s)) => AtStart(m),
           s # <<>> /\ ~ AtEnd(Last(s)) =>
             /\ m.data.packet = Last(s).data.packet
             /\ m.data.position = Last(s).data.position + Last(s).payloadLength
    PROVE  Joined(Append(s, m))
<1> DEFINE t == Append(s, m)
           n == Len(s)
<1>1. /\ n \in Nat /\ DOMAIN s = 1 .. n /\ DOMAIN t = 1 .. n + 1 /\ t[n + 1] = m
      /\ \A k \in 1 .. n : t[k] = s[k]
      /\ s = <<>> <=> n = 0
      /\ Last(s) = s[n]
  BY DEF Last
<1> HIDE DEF t, n
<1> SUFFICES ASSUME NEW k \in 1 .. n + 1
             PROVE  IF k = 1 \/ AtEnd(t[IF k = 1 THEN 1 ELSE k - 1])
                      THEN AtStart(t[k])
                      ELSE /\ t[k].data.packet = t[k-1].data.packet
                           /\ t[k].data.position = t[k-1].data.position
                                                     + t[k-1].payloadLength
  BY <1>1 DEF Joined, t
<1>2. CASE k \in 1 .. n
  <2>1. t[k] = s[k] /\ (k # 1 => t[k-1] = s[k-1])
    BY <1>1, <1>2
  <2> QED
    BY <1>1, <1>2, <2>1 DEF Joined
<1>3. CASE k = n + 1
  <2>1. CASE n = 0
    BY <1>1, <1>3, <2>1
  <2>2. CASE n # 0
    <3>1. k # 1 /\ t[k-1] = s[n] /\ t[k] = m /\ s # <<>>
      BY <1>1, <1>3, <2>2
    <3> QED
      BY <1>1, <3>1
  <2> QED
    BY <2>1, <2>2
<1> QED
  BY <1>1, <1>2, <1>3
TileInv ==
    /\ pc \in {"packet", "loop"} => Joined(Written(enc))
    /\ pc = "packet" => next <= Len(request) + 1 /\ Between(Written(enc), next - 1)
    /\ pc = "loop" =>
         IF currentPayloadPos = 0 THEN Between(Written(enc), next - 1)
         ELSE /\ Inside(Written(enc), request[next], currentPayloadPos)
              /\ StartedIds(Written(enc)) = IdsUpTo(next)
    /\ PayloadsTiled

\* What the frames say once the packet at hand is started, and of one turn of
\* its loop.
LEMMA WrittenStarted ==
    ASSUME IInv, StartPacket PROVE Written(enc') = Written(enc)
<1> DEFINE p == request[next]
           r == [enc EXCEPT !.messageType = p.messageType]
<1>1. PICK typed :
        /\ IF enc.messageType = p.messageType THEN typed = enc ELSE Opened(r, typed)
        /\ Sound(typed)
        /\ IF DoesNotFit(typed, p) THEN Opened(typed, enc') ELSE enc' = typed
  BY StartPacketIs
<1>2. enc \in EncoderState /\ p.messageType \in MessageType
  BY StartPacketIs DEF Packet, IInv, Sound
<1>3. r \in EncoderState /\ r.cmpFrames = enc.cmpFrames
  BY <1>2 DEF EncoderState
<1> HIDE DEF r
<1>4. Written(typed) = Written(enc)
  BY <1>1, <1>3, MessagesOpened DEF Written
<1> QED
  BY <1>1, <1>4, MessagesOpened DEF Sound

LEMMA OpenedAny ==
    ASSUME NEW e \in EncoderState, NEW f, Opened(e, f) PROVE f.cmpFrames # <<>>
<1>1. /\ Len(e.cmpFrames) \in Nat /\ Len(f.cmpFrames) = Len(e.cmpFrames) + 1
      /\ f.cmpFrames \in Seq(Frame)
  BY DEF Opened, EncoderState
<1> QED
  BY <1>1

LEMMA WrittenPut ==
    ASSUME IInv, PutSegment
    PROVE  LET p == request[next]
           IN  /\ p \in Packets /\ p \in Packet
               /\ \E m \in MessageHeader :
                    /\ m.data.packet = p.id
                    /\ m.data.position = currentPayloadPos
                    /\ m.data.whole = p.payloadLength
                    /\ m.payloadLength > 0
                    /\ currentPayloadPos' = currentPayloadPos + m.payloadLength
                    /\ currentPayloadPos' <= p.payloadLength
                    /\ m.segmentType = "unsegmented" => ~ isSegmented
                    /\ currentPayloadPos = 0
                         /\ enc.bytesLeft >= MessageHeaderSize + p.payloadLength =>
                            m.payloadLength = p.payloadLength
                    /\ enc'.cmpFrames # <<>>
                    /\ Written(enc) \in Seq(MessageHeader)
                    /\ Written(enc') = Append(Written(enc), m)
<1> DEFINE p == request[next]
<1>1. PICK f, g, m :
        /\ IF NeedsFrame(enc) THEN Opened(enc, f) ELSE f = enc
        /\ Sound(f) /\ f.cmpFrames # <<>>
        /\ LET bytes == BytesToAdd(f, p.payloadLength, currentPayloadPos)
               flag == SegmentationFlag(isSegmented, segmentInd, bytes,
                                        p.payloadLength, currentPayloadPos)
           IN  /\ bytes \in Nat /\ bytes > 0
               /\ currentPayloadPos + bytes <= p.payloadLength
               /\ m = Message(p, bytes, flag, currentPayloadPos)
               /\ m \in MessageHeader
               /\ Filled(f, g, m)
               /\ IF flag = "lastSegment" THEN Opened(g, enc') ELSE enc' = g
               /\ currentPayloadPos' = currentPayloadPos + bytes
  BY PutSegmentIs
<1>2. /\ m \in MessageHeader /\ Filled(f, g, m)
      /\ m.data.packet = p.id
      /\ m.data.position = currentPayloadPos
      /\ m.data.whole = p.payloadLength
      /\ m.payloadLength > 0
      /\ currentPayloadPos' = currentPayloadPos + m.payloadLength
      /\ currentPayloadPos' <= p.payloadLength
      /\ Opened(g, enc') \/ enc' = g
      /\ m.segmentType = "unsegmented" => ~ isSegmented
      /\ m.payloadLength = BytesToAdd(f, p.payloadLength, currentPayloadPos)
  BY <1>1 DEF Message, SegmentationFlag
<1>7. ASSUME currentPayloadPos = 0, enc.bytesLeft >= MessageHeaderSize + p.payloadLength
      PROVE  m.payloadLength = p.payloadLength
  <2>1. enc.bytesLeft \in Nat
    BY DEF IInv, TypeOK, EncoderState
  <2>2. p.payloadLength \in Nat
    BY PutSegmentIs DEF Packet, Length
  <2> DEFINE l == p.payloadLength
  <2> HIDE DEF l
  <2>3. ~ NeedsFrame(enc)
    BY <1>7, <2>1, <2>2 DEF NeedsFrame, MessageHeaderSize, l
  <2>4. f = enc
    BY <1>1, <2>3
  <2>5. BytesToAdd(enc, l, 0) = l
    BY <1>7, <2>1, <2>2 DEF BytesToAdd, Least, MessageHeaderSize, l
  <2> QED
    <3>1. m.payloadLength = BytesToAdd(enc, l, 0)
      BY <1>2, <1>7, <2>4 DEF l
    <3> QED
      BY <2>5, <3>1 DEF l
<1>3. enc \in EncoderState /\ f \in EncoderState /\ g \in EncoderState
  BY <1>1, <1>2 DEF IInv, Sound, Filled
<1>8. enc'.cmpFrames # <<>>
  <2>1. g.cmpFrames # <<>>
    <3>1. Len(g.cmpFrames) = Len(f.cmpFrames) /\ f.cmpFrames # <<>>
      BY <1>1, <1>2 DEF Filled
    <3>2. f.cmpFrames \in Seq(Frame) /\ g.cmpFrames \in Seq(Frame)
      BY <1>3 DEF EncoderState
    <3> QED
      BY <3>1, <3>2
  <2> QED
    BY <1>2, <1>3, <2>1, OpenedAny
<1>4. Written(f) = Written(enc)
  BY <1>1, <1>3, MessagesOpened
<1>5. Written(f) \in Seq(MessageHeader) /\ Written(g) = Append(Written(f), m)
  BY <1>1, <1>2, <1>3, MessagesFilled
<1>6. Written(enc') = Written(g)
  BY <1>2, <1>3, MessagesOpened
<1> QED
  BY <1>2, <1>4, <1>5, <1>6, <1>7, <1>8, PutSegmentIs

LEMMA TilePut ==
    ASSUME IInv, TileInv, PutSegment
    PROVE  TileInv'
<1> DEFINE p == request[next]
           s == Written(enc)
           pos == currentPayloadPos
<1>1. PICK m \in MessageHeader :
        /\ m.data.packet = p.id
        /\ m.data.position = pos
        /\ m.data.whole = p.payloadLength
        /\ m.payloadLength > 0
        /\ pos' = pos + m.payloadLength
        /\ pos' <= p.payloadLength
        /\ s \in Seq(MessageHeader)
        /\ s' = Append(s, m)
  BY WrittenPut
<1>2. /\ pc = "loop" /\ pc' = "loop" /\ UNCHANGED <<request, next, frames>>
      /\ next \in Nat /\ next # 0 /\ next <= Len(request) /\ pos \in Nat
      /\ pos < p.payloadLength /\ p.payloadLength \in Nat
      /\ request \in Seq(Packet)
  <2>1. p \in Packet
    BY WrittenPut
  <2> QED
    BY <2>1 DEF PutSegment, IInv, TypeOK, LoopInv, MoreToPut, Packet, Length
<1>3. m.payloadLength \in Nat /\ pos' # 0
  BY <1>1, <1>2 DEF MessageHeader, Length
<1>4. s' # <<>> /\ Last(s') = m
  BY <1>1 DEF Last
<1>5. PayloadsTiled'
  BY <1>2 DEF PayloadsTiled, Returned
<1>6. Joined(s)
  BY <1>2 DEF TileInv
<1>7. StartedIds(s') = StartedIds(s) \o Start(m) /\ StartedIds(s) \in Seq(PacketId)
  BY <1>1, StartedMore
<1>8. Inside(s', p, pos')
  BY <1>1, <1>2, <1>3, <1>4 DEF Inside
<1>9. CASE pos = 0
  <2>1. Between(s, next - 1) /\ AtStart(m)
    BY <1>1, <1>2, <1>9 DEF TileInv, AtStart
  <2>2. Joined(s')
    BY <1>1, <1>6, <2>1, JoinedMore DEF Between
  <2>3. IdsUpTo(next) = IdsUpTo(next - 1) \o Ids(p)
    <3>1. next - 1 \in Nat /\ next - 1 < Len(request) /\ (next - 1) + 1 = next
      BY <1>2
    <3> QED
      BY <1>2, <3>1, IdsMore
  <2>4. StartedIds(s') = IdsUpTo(next)
    <3>1. Start(m) = <<p.id>>
      BY <1>1, <2>1 DEF Start
    <3>2. Ids(p) = <<p.id>>
      BY <1>2 DEF Ids
    <3>3. StartedIds(s) = IdsUpTo(next - 1)
      BY <2>1 DEF Between
    <3> QED
      BY <1>7, <2>3, <3>1, <3>2, <3>3
  <2> QED
    BY <1>2, <1>3, <1>5, <1>8, <2>2, <2>4 DEF TileInv, IdsUpTo
<1>10. CASE pos # 0
  <2>1. Inside(s, p, pos) /\ StartedIds(s) = IdsUpTo(next) /\ ~ AtStart(m)
    BY <1>1, <1>2, <1>10 DEF TileInv, AtStart
  <2>2. ~ AtEnd(Last(s))
    BY <1>2, <2>1 DEF Inside, AtEnd
  <2>3. Joined(s')
    BY <1>1, <1>6, <2>1, <2>2, JoinedMore DEF Inside
  <2>4. StartedIds(s') = IdsUpTo(next)
    BY <1>7, <2>1 DEF Start
  <2> QED
    BY <1>2, <1>3, <1>5, <1>8, <2>3, <2>4 DEF TileInv, IdsUpTo
<1> QED
  BY <1>9, <1>10

LEMMA TileFinish ==
    ASSUME IInv, TileInv, FinishPacket
    PROVE  TileInv'
<1> DEFINE p == request[next]
           s == Written(enc)
           pos == currentPayloadPos
<1>1. /\ pc = "loop" /\ pc' = "packet" /\ UNCHANGED <<enc, request, frames>>
      /\ next' = next + 1
      /\ next \in Nat /\ next # 0 /\ next <= Len(request) /\ pos \in Nat
      /\ pos = p.payloadLength /\ p.payloadLength \in Nat
      /\ request \in Seq(Packet)
  <2>1. /\ pc = "loop" /\ pc' = "packet" /\ UNCHANGED <<enc, request, frames>>
        /\ next' = next + 1
        /\ next \in Nat /\ next # 0 /\ next <= Len(request) /\ pos \in Nat
        /\ ~ (pos < p.payloadLength) /\ pos <= p.payloadLength
        /\ request \in Seq(Packet)
    BY DEF FinishPacket, IInv, TypeOK, LoopInv, MoreToPut
  <2>2. p \in Packet
    BY <2>1
  <2>3. p.payloadLength \in Nat
    BY <2>2 DEF Packet, Length
  <2> HIDE DEF p
  <2> QED
    BY <2>1, <2>3
<1>2. Joined(s') /\ PayloadsTiled'
  BY <1>1 DEF TileInv, PayloadsTiled, Returned
<1>3. IdsUpTo(next) = IdsUpTo(next - 1) \o Ids(p) /\ IdsUpTo(next - 1) \in Seq(PacketId)
  <2>1. next - 1 \in Nat /\ next - 1 < Len(request) /\ (next - 1) + 1 = next
    BY <1>1
  <2> QED
    BY <1>1, <2>1, IdsMore
<1>4. Between(s, next)
  <2>1. CASE pos = 0
    BY <1>1, <1>3, <2>1 DEF TileInv, Between, Ids
  <2>2. CASE pos # 0
    BY <1>1, <2>2 DEF TileInv, Between, Inside, AtEnd
  <2> QED
    BY <2>1, <2>2
<1> QED
  BY <1>1, <1>2, <1>4 DEF TileInv, Between, IdsUpTo

LEMMA MessagesClosed ==
    ASSUME NEW e \in EncoderState, OpenFrame(e)
    PROVE  Messages(ClosedFrames(e)) = Written(e)
<1>1. /\ ClosedFrames(e) \in Seq(Frame) /\ Len(ClosedFrames(e)) = Len(e.cmpFrames)
      /\ e.cmpFrames \in Seq(Frame)
      /\ \A i \in 1 .. Len(e.cmpFrames) : ClosedFrames(e)[i].body = e.cmpFrames[i].body
  BY ClosedFramesIs DEF EncoderState
<1> QED
  BY <1>1, MessagesSame DEF Written

LEMMA TileReturn ==
    ASSUME IInv, TileInv, ReturnFrames
    PROVE  TileInv'
<1> DEFINE s == Written(enc)
<1>1. /\ pc = "packet" /\ pc' = "idle" /\ request' = request
      /\ next = Len(request) + 1 /\ request \in Seq(Packet)
      /\ frames' = ClosedFrames(enc)
      /\ enc \in EncoderState /\ OpenFrame(enc)
  BY DEF ReturnFrames, IInv, TypeOK, TileInv, Sound
<1>2. Messages(frames') = s
  BY <1>1, MessagesClosed
<1>3. Joined(s) /\ Between(s, Len(request))
  BY <1>1 DEF TileInv
<1>4. StartedIds(s) = PayloadIds
  BY <1>1, <1>3, IdsAll DEF Between
<1>5. PayloadIds' = PayloadIds
  BY <1>1 DEF PayloadIds
<1>6. PayloadsTiled'
  BY <1>2, <1>3, <1>4, <1>5 DEF PayloadsTiled, Joined, Between, Last
<1> QED
  BY <1>1, <1>6 DEF TileInv

LEMMA TileInvInit == Init => TileInv
BY DEF Init, TileInv, PayloadsTiled

LEMMA TileInvStep ==
    ASSUME IInv, TileInv, [Next]_vars
    PROVE  TileInv'
<1>1. ASSUME Configure PROVE TileInv'
  <2>1. pc = "idle" /\ UNCHANGED <<pc, request, frames>>
    BY <1>1 DEF Configure, SetDeviceId, SetStreamId, Restart
  <2> QED
    BY <2>1 DEF TileInv, PayloadsTiled, Returned, PayloadIds
<1>2. ASSUME NEW r \in Requests, NEW context \in DataContexts, BeginEncode(r, context)
      PROVE  TileInv'
  <2>1. enc'.cmpFrames = <<>> /\ pc' = "packet" /\ next' = 1
    BY <1>2 DEF BeginEncode, ClearEncodingMetadata, IInv, TypeOK, EncoderState
  <2>2. Written(enc') = <<>>
    BY <2>1, MessagesNone
  <2>3. request' \in Seq(Packet)
    BY <1>2, RequestsAssumption, PacketsAssumption DEF BeginEncode
  <2>4. IdsUpTo(0)' = <<>> /\ StartedIds(<<>>) = <<>>
    <3>1. IdsUpTo(0) = <<>> /\ StartedIds(<<>>) = <<>>
      BY IdsNone
    <3>2. [i \in 1 .. 0 |-> Ids(request'[i])] = <<>>
      OBVIOUS
    <3> QED
      BY <3>1, <3>2, FlattenEmpty DEF IdsUpTo
  <2>5. Joined(<<>>)
    BY DEF Joined
  <2>6. next' <= Len(request') + 1 /\ next' - 1 = 0
    BY <2>1, <2>3
  <2> QED
    BY <2>1, <2>2, <2>4, <2>5, <2>6 DEF TileInv, Between, PayloadsTiled, Returned
<1>3. ASSUME StartPacket PROVE TileInv'
  <2>1. Written(enc') = Written(enc)
    BY <1>3, WrittenStarted
  <2> QED
    BY <1>3, <2>1 DEF StartPacket, TileInv, Between, IdsUpTo, PayloadsTiled, Returned
<1>4. ASSUME PutSegment PROVE TileInv'
  BY <1>4, TilePut
<1>5. ASSUME FinishPacket PROVE TileInv'
  BY <1>5, TileFinish
<1>6. ASSUME ReturnUndefined PROVE TileInv'
  BY <1>6 DEF ReturnUndefined, TileInv, PayloadsTiled, Returned
<1>7. ASSUME ReturnFrames PROVE TileInv'
  BY <1>7, TileReturn
<1>8. CASE UNCHANGED vars
  BY <1>8 DEF vars, TileInv, Between, Inside, IdsUpTo, PayloadsTiled, Returned, PayloadIds
<1> QED
  BY <1>1, <1>2, <1>3, <1>4, <1>5, <1>6, <1>7, <1>8 DEF Next, Call, Run, Step

LEMMA TileInvInvariant == Spec => []TileInv
<1>1. IInv /\ TileInv /\ [Next]_vars => TileInv'
  BY TileInvStep
<1> QED
  BY <1>1, IInvInvariant, TileInvInit, PTL DEF Spec

(***************************************************************************)
(* The messages of what a call returns, read in order, stand for positions *)
(* and lengths that tile the payloads of its request, for requests of any  *)
(* length and payloads and frames of any size.  It says nothing of the     *)
(* bytes copied for a position, which encoder.cpp:86 takes from elsewhere  *)
(* (encoder.cpp:68-93, encoder.h:101-106).                                 *)
(***************************************************************************)
THEOREM PayloadsAreTiled == Spec => []PayloadsTiled
<1>1. TileInv => PayloadsTiled
  BY DEF TileInv
<1> QED
  BY <1>1, TileInvInvariant, PTL
-----------------------------------------------------------------------------
(***************************************************************************)
(* Pieces that are not marked.  A packet is put without the test for room  *)
(* only while there is no frame, that is before the first payload.         *)
(***************************************************************************)
NoneBefore(n) == \A i \in 1 .. n - 1 : request[i].payloadLength = 0

IsFirst(id) ==
    \E i \in DOMAIN request :
        /\ request[i].id = id /\ request[i].payloadLength > 0 /\ NoneBefore(i)

Unmarked(m) ==
    \A k \in DOMAIN m :
        IsPartial(m[k]) /\ ~ IsSegment(m[k]) => IsFirst(m[k].data.packet)

\* The packet fits into the open frame.
Fitting ==
    /\ currentPayloadPos = 0
    /\ enc.cmpFrames # <<>>
    /\ enc.bytesLeft >= MessageHeaderSize + request[next].payloadLength

MarkInv ==
    /\ pc \in {"packet", "loop"} /\ enc.cmpFrames = <<>> => NoneBefore(next)
    /\ pc \in {"packet", "loop"} => Unmarked(Written(enc))
    /\ pc = "loop" /\ ~ isSegmented
         /\ MoreToPut(currentPayloadPos, request[next].payloadLength) =>
          NoneBefore(next) \/ Fitting
    /\ pc = "undefined" => NoneBefore(Len(request) + 1)
    /\ Returned /\ frames # <<>> => Unmarked(Messages(frames))

LEMMA NoIds ==
    ASSUME request \in Seq(Packet), NEW n \in Nat, n <= Len(request),
           NoneBefore(n + 1)
    PROVE  IdsUpTo(n) = <<>>
<1> DEFINE T == {k \in Nat : k <= n => IdsUpTo(k) = <<>>}
<1>1. 0 \in T
  BY IdsNone
<1>2. ASSUME NEW k \in T PROVE k + 1 \in T
  <2> SUFFICES ASSUME k + 1 <= n PROVE IdsUpTo(k + 1) = <<>>
    OBVIOUS
  <2>1. IdsUpTo(k) = <<>> /\ k < Len(request)
    OBVIOUS
  <2>2. IdsUpTo(k + 1) = IdsUpTo(k) \o Ids(request[k + 1])
    BY <2>1, IdsMore
  <2>3. k + 1 \in 1 .. (n + 1) - 1
    OBVIOUS
  <2>4. Ids(request[k + 1]) = <<>>
    BY <2>3 DEF NoneBefore, Ids
  <2> QED
    BY <2>1, <2>2, <2>4
<1> HIDE DEF T
<1>3. T = Nat
  BY <1>1, <1>2, SetInduction DEF T
<1> QED
  BY <1>3 DEF T

LEMMA FirstId ==
    ASSUME request \in Seq(Packet), NEW id, IsFirst(id)
    PROVE  PayloadIds # <<>> /\ Head(PayloadIds) = id
<1>1. PICK i \in 1 .. Len(request) :
        request[i].id = id /\ request[i].payloadLength > 0 /\ NoneBefore(i)
  BY DEF IsFirst
<1> DEFINE T == {k \in Nat : i + k <= Len(request) =>
                               IdsUpTo(i + k) # <<>> /\ Head(IdsUpTo(i + k)) = id}
<1>2. IdsUpTo(i) = <<id>> /\ id \in PacketId
  <2> DEFINE n == i - 1
  <2>1. n \in Nat /\ n < Len(request) /\ n + 1 = i
    OBVIOUS
  <2> HIDE DEF n
  <2>2. IdsUpTo(n) = <<>>
    BY <1>1, <2>1, NoIds
  <2>3. IdsUpTo(n + 1) = IdsUpTo(n) \o Ids(request[n + 1])
    BY <2>1, IdsMore
  <2>4. Ids(request[n + 1]) = <<id>> /\ id \in PacketId
    <3>1. request[i] \in Packet /\ request[n + 1] = request[i]
      BY <2>1
    <3> QED
      BY <1>1, <3>1 DEF Ids, Packet
  <2> QED
    BY <2>1, <2>2, <2>3, <2>4
<1>3. 0 \in T
  BY <1>2
<1>4. ASSUME NEW k \in T PROVE k + 1 \in T
  <2> SUFFICES ASSUME i + (k + 1) <= Len(request)
               PROVE  IdsUpTo(i + (k + 1)) # <<>> /\ Head(IdsUpTo(i + (k + 1))) = id
    OBVIOUS
  <2> DEFINE n == i + k
             p == request[n + 1]
  <2>1. n \in Nat /\ n < Len(request) /\ i + (k + 1) = n + 1
    OBVIOUS
  <2>2. IdsUpTo(n) # <<>> /\ Head(IdsUpTo(n)) = id
    BY <2>1
  <2> HIDE DEF n
  <2>3. IdsUpTo(n) \in Seq(PacketId) /\ IdsUpTo(n + 1) = IdsUpTo(n) \o Ids(p)
    BY <2>1, IdsMore
  <2>4. Ids(p) \in Seq(PacketId)
    <3>1. p \in Packet
      BY <2>1
    <3> HIDE DEF p
    <3> QED
      BY <3>1 DEF Ids, Packet
  <2> DEFINE a == IdsUpTo(n)
             b == Ids(p)
  <2> HIDE DEF a, b
  <2>5. ASSUME a \in Seq(PacketId), b \in Seq(PacketId), a # <<>>
        PROVE  a \o b # <<>> /\ Head(a \o b) = Head(a)
    BY <2>5
  <2> QED
    BY <2>1, <2>2, <2>3, <2>4, <2>5 DEF a, b
<1> HIDE DEF T
<1>5. T = Nat
  BY <1>3, <1>4, SetInduction DEF T
<1>6. Len(request) - i \in T /\ i + (Len(request) - i) = Len(request)
  BY <1>5
<1>7. IdsUpTo(Len(request)) # <<>> /\ Head(IdsUpTo(Len(request))) = id
  BY <1>6 DEF T
<1> QED
  BY <1>7, IdsAll

LEMMA UnmarkedMore ==
    ASSUME NEW s \in Seq(MessageHeader), Unmarked(s), NEW m,
           IsPartial(m) /\ ~ IsSegment(m) => IsFirst(m.data.packet)
    PROVE  Unmarked(Append(s, m))
<1> DEFINE t == Append(s, m)
<1>1. \A k \in DOMAIN t : t[k] = m \/ (k \in DOMAIN s /\ t[k] = s[k])
  OBVIOUS
<1> HIDE DEF t
<1> QED
  BY <1>1 DEF Unmarked, t

LEMMA MarkPut ==
    ASSUME IInv, MarkInv, PutSegment
    PROVE  MarkInv'
<1> DEFINE p == request[next]
           s == Written(enc)
           pos == currentPayloadPos
<1>1. PICK m \in MessageHeader :
        /\ m.data.packet = p.id
        /\ m.data.position = pos
        /\ m.data.whole = p.payloadLength
        /\ m.segmentType = "unsegmented" => ~ isSegmented
        /\ pos = 0 /\ enc.bytesLeft >= MessageHeaderSize + p.payloadLength =>
              m.payloadLength = p.payloadLength
        /\ pos' = pos + m.payloadLength
        /\ enc'.cmpFrames # <<>>
        /\ s \in Seq(MessageHeader)
        /\ s' = Append(s, m)
  BY WrittenPut
<1>2. p.payloadLength \in Nat
  BY WrittenPut DEF Packet, Length
<1>3. /\ pc = "loop" /\ pc' = "loop" /\ UNCHANGED <<request, next, isSegmented, frames>>
      /\ next \in 1 .. Len(request)
      /\ MoreToPut(pos, p.payloadLength) /\ pos < p.payloadLength
  BY DEF PutSegment, MoreToPut, IInv, TypeOK, LoopInv
<1>4. Unmarked(s) /\ (~ isSegmented => NoneBefore(next) \/ Fitting)
  BY <1>3 DEF MarkInv
<1>5. NoneBefore(next)' <=> NoneBefore(next)
  BY <1>3 DEF NoneBefore
<1>6. Fitting => m.payloadLength = p.payloadLength /\ pos = 0
  BY <1>1 DEF Fitting
<1>7. IsPartial(m) /\ ~ IsSegment(m) => IsFirst(p.id)
  <2> SUFFICES ASSUME IsPartial(m), ~ IsSegment(m) PROVE IsFirst(p.id)
    OBVIOUS
  <2>1. ~ isSegmented
    BY <1>1 DEF IsSegment
  <2>2. ~ Fitting
    BY <1>1, <1>2, <1>6 DEF IsPartial, AtStart, AtEnd
  <2>3. NoneBefore(next)
    BY <1>4, <2>1, <2>2
  <2>4. next \in DOMAIN request /\ p.payloadLength > 0
    BY <1>2, <1>3, WrittenPut DEF IInv, TypeOK
  <2> QED
    BY <2>3, <2>4 DEF IsFirst
<1>8. Unmarked(s')
  BY <1>1, <1>4, <1>7, UnmarkedMore
<1>10. MoreToPut(pos', p.payloadLength) /\ ~ isSegmented => NoneBefore(next)
  BY <1>1, <1>2, <1>4, <1>6 DEF MoreToPut
<1> QED
  BY <1>1, <1>3, <1>5, <1>8, <1>10 DEF MarkInv, Returned, Unmarked, IsFirst, NoneBefore

LEMMA MarkInvInit == Init => MarkInv
BY DEF Init, MarkInv

LEMMA MarkInvStep ==
    ASSUME IInv, TileInv, MarkInv, [Next]_vars
    PROVE  MarkInv'
<1>1. ASSUME Configure PROVE MarkInv'
  <2>1. pc = "idle" /\ UNCHANGED <<pc, request, frames>>
    BY <1>1 DEF Configure, SetDeviceId, SetStreamId, Restart
  <2> QED
    BY <2>1 DEF MarkInv, Returned, Unmarked, IsFirst, NoneBefore
<1>2. ASSUME NEW r \in Requests, NEW context \in DataContexts, BeginEncode(r, context)
      PROVE  MarkInv'
  <2>1. enc'.cmpFrames = <<>> /\ pc' = "packet" /\ next' = 1
    BY <1>2 DEF BeginEncode, ClearEncodingMetadata, IInv, TypeOK, EncoderState
  <2>2. Written(enc') = <<>>
    BY <2>1, MessagesNone
  <2> QED
    BY <2>1, <2>2 DEF MarkInv, NoneBefore, Unmarked, Returned
<1>3. ASSUME StartPacket PROVE MarkInv'
  <2> DEFINE p == request[next]
             r == [enc EXCEPT !.messageType = p.messageType]
  <2>1. PICK typed :
          /\ IF enc.messageType = p.messageType THEN typed = enc ELSE Opened(r, typed)
          /\ Sound(typed)
          /\ IF DoesNotFit(typed, p) THEN Opened(typed, enc') ELSE enc' = typed
          /\ isSegmented' = (DoesNotFit(typed, p) /\ DoesNotFit(enc', p))
    BY <1>3, StartPacketIs
  <2>2. /\ pc = "packet" /\ pc' = "loop" /\ currentPayloadPos' = 0
        /\ UNCHANGED <<request, next, frames>>
        /\ enc \in EncoderState /\ enc' \in EncoderState /\ p \in Packet
    BY <1>3, StartPacketIs DEF StartPacket, Sound, IInv
  <2>3. enc'.cmpFrames = <<>> => enc.cmpFrames = <<>>
    <3>1. r \in EncoderState /\ typed \in EncoderState
      BY <2>1, <2>2 DEF EncoderState, Packet, Sound
    <3> HIDE DEF r
    <3> QED
      BY <2>1, <3>1, OpenedAny
  <2>4. enc'.cmpFrames = <<>> => NoneBefore(next)
    BY <2>2, <2>3 DEF MarkInv
  <2>5. ~ isSegmented' =>
          \/ enc'.cmpFrames = <<>>
          \/ enc'.bytesLeft >= MessageHeaderSize + p.payloadLength
    <3>1. ~ isSegmented' => ~ DoesNotFit(enc', p)
      BY <2>1
    <3>2. enc'.bytesLeft \in Nat /\ p.payloadLength \in Nat
      BY <2>2 DEF EncoderState, Packet, Length
    <3> QED
      BY <3>1, <3>2 DEF DoesNotFit, MessageHeaderSize
  <2>6. Written(enc') = Written(enc)
    BY <1>3, WrittenStarted
  <2>7. ~ isSegmented' => NoneBefore(next)' \/ Fitting'
    BY <2>2, <2>4, <2>5 DEF NoneBefore, Fitting
  <2> QED
    BY <2>2, <2>4, <2>6, <2>7
       DEF MarkInv, Returned, Unmarked, IsFirst, NoneBefore
<1>4. ASSUME PutSegment PROVE MarkInv'
  BY <1>4, MarkPut
<1>5. ASSUME FinishPacket PROVE MarkInv'
  <2> DEFINE p == request[next]
  <2>1. /\ pc = "loop" /\ pc' = "packet" /\ UNCHANGED <<enc, request, frames>>
        /\ next' = next + 1 /\ next \in Nat
        /\ currentPayloadPos \in Nat /\ next # 0 /\ next <= Len(request)
        /\ ~ (currentPayloadPos < p.payloadLength) /\ currentPayloadPos <= p.payloadLength
        /\ request \in Seq(Packet)
    BY <1>5 DEF FinishPacket, IInv, TypeOK, LoopInv, MoreToPut
  <2>2. p.payloadLength \in Nat
    <3>1. p \in Packet
      BY <2>1
    <3> QED
      BY <3>1 DEF Packet, Length
  <2>3. ASSUME enc.cmpFrames = <<>> PROVE NoneBefore(next + 1)
    <3>1. Written(enc) = <<>> /\ NoneBefore(next)
      BY <2>1, <2>3, MessagesNone DEF MarkInv
    <3>2. currentPayloadPos = 0
      BY <2>1, <3>1 DEF TileInv, Inside
    <3>3. p.payloadLength = 0
      BY <2>1, <2>2, <3>2
    <3> QED
      BY <2>1, <3>1, <3>3 DEF NoneBefore
  <2> QED
    BY <2>1, <2>3 DEF MarkInv, Returned, Unmarked, IsFirst, NoneBefore
<1>6. ASSUME ReturnUndefined PROVE MarkInv'
  <2>1. /\ pc' = "undefined" /\ request' = request /\ NoneBefore(next)
        /\ next = Len(request) + 1
    BY <1>6 DEF ReturnUndefined, MarkInv, TileInv, IInv, TypeOK
  <2> QED
    BY <2>1 DEF MarkInv, Returned, NoneBefore
<1>7. ASSUME ReturnFrames PROVE MarkInv'
  <2>1. /\ pc = "packet" /\ pc' = "idle" /\ request' = request
        /\ frames' = ClosedFrames(enc)
        /\ enc \in EncoderState /\ OpenFrame(enc)
    BY <1>7 DEF ReturnFrames, IInv, Sound
  <2>2. Messages(frames') = Written(enc)
    BY <2>1, MessagesClosed
  <2>3. Unmarked(Written(enc))
    BY <2>1 DEF MarkInv
  <2> QED
    BY <2>1, <2>2, <2>3 DEF MarkInv, Unmarked, IsFirst, NoneBefore
<1>8. CASE UNCHANGED vars
  BY <1>8 DEF vars, MarkInv, Fitting, Returned, Unmarked, IsFirst, NoneBefore
<1> QED
  BY <1>1, <1>2, <1>3, <1>4, <1>5, <1>6, <1>7, <1>8 DEF Next, Call, Run, Step

LEMMA MarkInvInvariant == Spec => []MarkInv
<1>1. IInv /\ TileInv /\ MarkInv /\ [Next]_vars => MarkInv'
  BY MarkInvStep
<1> QED
  BY <1>1, IInvInvariant, TileInvInvariant, MarkInvInit, PTL DEF Spec

(***************************************************************************)
(* A piece that carries no segment mark, which a receiver takes for a      *)
(* packet of its own, is always one of the first packet with a payload:    *)
(* the first of a call is put before there is a frame to test it against   *)
(* (encoder.cpp:137-146).                                                  *)
(***************************************************************************)
THEOREM UnmarkedPiecesComeFirst == Spec => []UnmarkedPiecesAreFirst
<1>1. IInv /\ MarkInv => UnmarkedPiecesAreFirst
  <2> SUFFICES ASSUME IInv, MarkInv, Returned, frames # <<>>,
                      NEW k \in DOMAIN Messages(frames),
                      IsPartial(Messages(frames)[k]), ~ IsSegment(Messages(frames)[k])
               PROVE  Messages(frames)[k].data.packet = Head(PayloadIds)
    BY DEF UnmarkedPiecesAreFirst
  <2>1. IsFirst(Messages(frames)[k].data.packet)
    BY DEF MarkInv, Unmarked
  <2> QED
    BY <2>1, FirstId DEF IInv, TypeOK
<1> QED
  BY <1>1, IInvInvariant, MarkInvInvariant, PTL

(***************************************************************************)
(* The frame that is not there is read only for a request without any      *)
(* payload: a single byte in any packet is enough (encoder.cpp:38).        *)
(***************************************************************************)
THEOREM UndefinedNeedsNoPayload == Spec => []UndefinedOnlyWithoutPayload
<1>1. IInv /\ MarkInv => UndefinedOnlyWithoutPayload
  <2> SUFFICES ASSUME IInv, MarkInv, pc = "undefined" PROVE PayloadIds = <<>>
    BY DEF UndefinedOnlyWithoutPayload
  <2>1. request \in Seq(Packet) /\ NoneBefore(Len(request) + 1)
    BY DEF IInv, TypeOK, MarkInv
  <2>2. IdsUpTo(Len(request)) = <<>>
    BY <2>1, NoIds
  <2> QED
    BY <2>1, <2>2, IdsAll
<1> QED
  BY <1>1, IInvInvariant, MarkInvInvariant, PTL
-----------------------------------------------------------------------------
(***************************************************************************)
(* Frames without a message.  Every one is behind the last piece of a      *)
(* packet or in front of the first piece of one; only while the packet at  *)
(* hand has not been put yet may the last frame, or the last two, wait for *)
(* it.                                                                     *)
(***************************************************************************)
Behind(fs, i) ==
    i > 1 /\ LET b == fs[i-1].body IN b # <<>> /\ IsPartial(Last(b)) /\ AtEnd(Last(b))
Ahead(fs, i) ==
    i < Len(fs) /\ LET b == fs[i+1].body IN b # <<>> /\ IsPartial(Head(b)) /\ AtStart(Head(b))
Beside(fs, i) == fs[i].body = <<>> => Behind(fs, i) \/ Ahead(fs, i)

\* Frame i waits for the packet that is put.
Awaiting(fs, i) ==
    /\ currentPayloadPos = 0
    /\ \/ i = Len(fs)
       \/ i = Len(fs) - 1 /\ isSegmented /\ fs[Len(fs)].body = <<>>

AllFilled == \A j \in DOMAIN request : request[j].payloadLength > 0

EmptyInv ==
    AllFilled =>
      /\ pc = "packet" => \A i \in DOMAIN enc.cmpFrames : Beside(enc.cmpFrames, i)
      /\ pc = "loop" => \A i \in DOMAIN enc.cmpFrames :
                          Beside(enc.cmpFrames, i) \/ Awaiting(enc.cmpFrames, i)
      /\ Returned => \A i \in DOMAIN frames : Beside(frames, i)

LEMMA BesideSame ==
    ASSUME NEW fs \in Seq(Frame), NEW gs \in Seq(Frame), Len(fs) <= Len(gs),
           \A i \in 1 .. Len(fs) : gs[i].body = fs[i].body,
           NEW i \in 1 .. Len(fs), Beside(fs, i)
    PROVE  Beside(gs, i)
<1>1. gs[i].body = fs[i].body
  OBVIOUS
<1>2. Behind(fs, i) => Behind(gs, i)
  <2>1. i > 1 => gs[i-1].body = fs[i-1].body
    OBVIOUS
  <2> QED
    BY <2>1 DEF Behind
<1>3. Ahead(fs, i) => Ahead(gs, i)
  <2>1. i < Len(fs) => i < Len(gs) /\ gs[i+1].body = fs[i+1].body
    OBVIOUS
  <2> QED
    BY <2>1 DEF Ahead
<1> QED
  BY <1>1, <1>2, <1>3 DEF Beside

LEMMA BesideOpened ==
    ASSUME NEW e \in EncoderState, NEW f, Opened(e, f),
           NEW i \in 1 .. Len(e.cmpFrames), Beside(e.cmpFrames, i)
    PROVE  Beside(f.cmpFrames, i)
<1> DEFINE es == e.cmpFrames
           fs == f.cmpFrames
<1>1. es \in Seq(Frame) /\ fs \in Seq(Frame) /\ Len(es) <= Len(fs)
  BY DEF Opened, EncoderState
<1>2. \A j \in 1 .. Len(es) : fs[j].body = es[j].body
  BY DEF Opened
<1> HIDE DEF es, fs
<1>3. i \in 1 .. Len(es) /\ Beside(es, i)
  BY DEF es
<1>4. Beside(fs, i)
  BY <1>1, <1>2, <1>3, BesideSame
<1> QED
  BY <1>4 DEF fs

\* A message put into the last frame; the frame in front of it may have waited
\* for the first piece of a packet.
LEMMA BesideFilled ==
    ASSUME NEW f \in EncoderState, f.cmpFrames # <<>>, NEW m \in MessageHeader,
           NEW g, Filled(f, g, m), NEW i \in 1 .. Len(f.cmpFrames),
           \/ Beside(f.cmpFrames, i)
           \/ i = Len(f.cmpFrames)
           \/ /\ i = Len(f.cmpFrames) - 1
              /\ LastFrame(f).body = <<>>
              /\ IsPartial(m) /\ AtStart(m)
    PROVE  Beside(g.cmpFrames, i)
<1> DEFINE fs == f.cmpFrames
           gs == g.cmpFrames
           n == Len(fs)
           b == fs[n].body
<1>1. /\ n \in Nat /\ n > 0 /\ Len(gs) = n /\ fs \in Seq(Frame)
      /\ gs[n].body = Append(b, m)
      /\ \A j \in 1 .. n - 1 : gs[j].body = fs[j].body
  BY ONLY f \in EncoderState, f.cmpFrames # <<>>, Filled(f, g, m), FilledFrames
<1>2. b \in Seq(MessageHeader)
  <2>1. n \in 1 .. Len(fs)
    BY <1>1
  <2> QED
    BY <1>1, <2>1, BodyType
<1>3. LastFrame(f).body = b
  BY DEF LastFrame
<1>4. \/ Beside(fs, i) \/ i = n
      \/ i = n - 1 /\ b = <<>> /\ IsPartial(m) /\ AtStart(m)
  BY <1>3
<1> HIDE DEF fs, gs, n, b
<1>5. Append(b, m) # <<>>
        /\ (b # <<>> => Head(Append(b, m)) = Head(b))
        /\ (b = <<>> => Head(Append(b, m)) = m)
  <2>1. Append(b, m) # <<>> /\ Head(Append(b, m)) = Append(b, m)[1]
    BY <1>2
  <2>2. b = <<>> => Append(b, m)[1] = m
    BY <1>2
  <2>3. b # <<>> => Append(b, m)[1] = Head(b)
    BY <1>2
  <2> QED
    BY <2>1, <2>2, <2>3
<1>6. CASE i = n
  <2>1. gs[i].body # <<>>
    BY <1>1, <1>5, <1>6
  <2> QED
    BY <2>1 DEF Beside, gs
<1>7. CASE i # n
  <2>1. i \in 1 .. n - 1 /\ gs[i].body = fs[i].body
    BY <1>1, <1>7 DEF n, fs
  <2>2. CASE Beside(fs, i)
    <3>1. Behind(fs, i) => Behind(gs, i)
      <4>1. i > 1 => gs[i-1].body = fs[i-1].body
        BY <1>1, <2>1
      <4> QED
        BY <4>1 DEF Behind
    <3>2. Ahead(fs, i) => Ahead(gs, i)
      <4>1. CASE i = n - 1
        <5>1. i + 1 = n /\ i < Len(gs) /\ gs[i+1].body = Append(b, m)
          BY <1>1, <2>1, <4>1
        <5>2. Ahead(fs, i) => b # <<>> /\ IsPartial(Head(b)) /\ AtStart(Head(b))
          BY <5>1 DEF Ahead, b
        <5> QED
          BY <1>5, <5>1, <5>2 DEF Ahead
      <4>2. CASE i # n - 1
        <5>1. gs[i+1].body = fs[i+1].body /\ i < Len(gs)
          BY <1>1, <2>1, <4>2
        <5> QED
          BY <5>1 DEF Ahead
      <4> QED
        BY <4>1, <4>2
    <3> QED
      BY <2>1, <2>2, <3>1, <3>2 DEF Beside, gs
  <2>3. CASE i = n - 1 /\ b = <<>> /\ IsPartial(m) /\ AtStart(m)
    <3>1. i < Len(gs) /\ i + 1 = n
      BY <1>1, <2>1, <2>3
    <3>2. gs[i+1].body = Append(b, m) /\ Head(Append(b, m)) = m
      BY <1>1, <1>5, <2>3, <3>1
    <3>3. Ahead(gs, i)
      BY <1>5, <2>3, <3>1, <3>2 DEF Ahead
    <3> QED
      BY <3>3 DEF Beside, gs
  <2> QED
    BY <1>4, <1>7, <2>2, <2>3
<1> QED
  BY <1>6, <1>7

\* The frame opened behind the last piece of a packet.
LEMMA BesideLast ==
    ASSUME NEW f \in EncoderState, f.cmpFrames # <<>>, NEW m \in MessageHeader,
           NEW g, Filled(f, g, m), NEW h, Opened(g, h), IsPartial(m), AtEnd(m)
    PROVE  Beside(h.cmpFrames, Len(h.cmpFrames))
<1> DEFINE hs == h.cmpFrames
           n == Len(f.cmpFrames)
           b == f.cmpFrames[n].body
<1>1. f.cmpFrames \in Seq(Frame) /\ n \in Nat /\ n > 0
  BY DEF EncoderState
<1>2. Len(g.cmpFrames) = n /\ g.cmpFrames[n].body = Append(b, m)
  BY DEF Filled
<1>3. b \in Seq(MessageHeader)
  <2>1. n \in 1 .. Len(f.cmpFrames)
    BY <1>1
  <2> QED
    BY <1>1, <2>1, BodyType
<1>4. Len(hs) = n + 1 /\ hs[n].body = Append(b, m)
  <2>1. Len(hs) = n + 1 /\ \A i \in 1 .. n : hs[i].body = g.cmpFrames[i].body
    BY <1>2 DEF Opened
  <2>2. n \in 1 .. n
    BY <1>1
  <2> QED
    BY <1>2, <2>1, <2>2
<1> HIDE DEF hs, n, b
<1>5. Append(b, m) # <<>> /\ Last(Append(b, m)) = m
  BY <1>3 DEF Last
<1>6. n + 1 > 1 /\ (n + 1) - 1 = n
  BY <1>1
<1>7. Behind(hs, n + 1)
  BY <1>4, <1>5, <1>6 DEF Behind
<1> QED
  BY <1>4, <1>7 DEF Beside, hs
LEMMA FramesOf ==
    ASSUME NEW e \in EncoderState PROVE e.cmpFrames \in Seq(Frame)
BY DEF EncoderState

LEMMA EmptyInvInit == Init => EmptyInv
BY DEF Init, EmptyInv

LEMMA EmptyStart ==
    ASSUME IInv, Sized(enc), EmptyInv, StartPacket
    PROVE  EmptyInv'
<1> DEFINE p == request[next]
           r == [enc EXCEPT !.messageType = p.messageType]
           es == enc.cmpFrames
           hs == enc'.cmpFrames
<1>1. PICK typed :
        /\ IF enc.messageType = p.messageType THEN typed = enc ELSE Opened(r, typed)
        /\ Sound(typed)
        /\ IF DoesNotFit(typed, p) THEN Opened(typed, enc') ELSE enc' = typed
        /\ isSegmented' = (DoesNotFit(typed, p) /\ DoesNotFit(enc', p))
  BY StartPacketIs
<1> DEFINE ts == typed.cmpFrames
<1>2. /\ pc = "packet" /\ pc' = "loop" /\ currentPayloadPos' = 0
      /\ UNCHANGED <<request, next, frames>>
      /\ enc \in EncoderState /\ enc' \in EncoderState /\ typed \in EncoderState
      /\ p.messageType \in MessageType /\ p.payloadLength \in Nat
  BY <1>1, StartPacketIs DEF StartPacket, Sound, IInv, Packet, Length
<1>3. r \in EncoderState /\ r.cmpFrames = es
  BY <1>2 DEF EncoderState
<1> SUFFICES ASSUME AllFilled, NEW i \in DOMAIN hs
             PROVE  \/ Beside(hs, i)
                    \/ i = Len(hs)
                    \/ i = Len(hs) - 1 /\ isSegmented' /\ hs[Len(hs)].body = <<>>
  <2>1. AllFilled' <=> AllFilled
    BY <1>2 DEF AllFilled
  <2>2. AllFilled' /\ pc' = "loop" => \A i \in DOMAIN hs :
          Beside(hs, i) \/ (/\ currentPayloadPos' = 0
                            /\ \/ i = Len(hs)
                               \/ i = Len(hs) - 1 /\ isSegmented' /\ hs[Len(hs)].body = <<>>)
    BY <1>2, <2>1
  <2> QED
    BY <1>2, <2>1, <2>2 DEF EmptyInv, Returned, Awaiting
<1>5. /\ es \in Seq(Frame) /\ ts \in Seq(Frame) /\ hs \in Seq(Frame)
      /\ i \in 1 .. Len(hs)
  <2>1. es \in Seq(Frame) /\ ts \in Seq(Frame) /\ hs \in Seq(Frame)
    BY <1>2, FramesOf
  <2> QED
    BY <2>1
<1>4. \A j \in 1 .. Len(es) : Beside(es, j)
  BY <1>2, <1>5 DEF EmptyInv
<1>6. \A j \in 1 .. Len(ts) :
        \/ Beside(ts, j)
        \/ j = Len(ts) /\ Opened(r, typed)
  <2>1. CASE typed = enc
    BY <1>4, <2>1
  <2>2. CASE Opened(r, typed)
    <3> SUFFICES ASSUME NEW j \in 1 .. Len(ts), j # Len(ts) PROVE Beside(ts, j)
      BY <2>2
    <3>1. Len(ts) = Len(es) + 1
      BY <1>3, <2>2 DEF Opened
    <3>2. j \in 1 .. Len(r.cmpFrames) /\ Beside(r.cmpFrames, j)
      BY <1>3, <1>4, <1>5, <3>1
    <3> HIDE DEF r
    <3> QED
      BY <1>3, <2>2, <3>2, BesideOpened
  <2> QED
    BY <1>1, <2>1, <2>2
<1> HIDE DEF r, es
<1>7. CASE enc' = typed
  BY <1>5, <1>6, <1>7
<1>8. CASE DoesNotFit(typed, p) /\ Opened(typed, enc')
  <2>1. Len(hs) = Len(ts) + 1
    BY <1>8 DEF Opened
  <2>2. CASE i = Len(hs)
    BY <2>2
  <2>3. CASE i \in 1 .. Len(ts) /\ Beside(ts, i)
    BY <1>2, <1>8, <2>3, BesideOpened
  <2>4. CASE i = Len(ts) /\ Opened(r, typed)
    <3>1. DoesNotFit(enc', p)
      <4>1. /\ typed.bytesLeft = r.maxBytesPerMessage - CmpHeaderSize
            /\ typed.maxBytesPerMessage = r.maxBytesPerMessage
        BY <2>4 DEF Opened
      <4>2. enc'.bytesLeft = typed.maxBytesPerMessage - CmpHeaderSize
        BY <1>8 DEF Opened
      <4>3. enc'.cmpFrames # <<>>
        BY <1>2, <1>8, OpenedAny
      <4> QED
        BY <1>8, <4>1, <4>2, <4>3 DEF DoesNotFit
    <3>2. isSegmented'
      BY <1>1, <1>8, <3>1
    <3>3. hs[Len(hs)].body = <<>>
      BY <1>8, <2>1 DEF Opened
    <3>4. i = Len(hs) - 1
      BY <1>5, <2>1, <2>4
    <3> QED
      BY <3>2, <3>3, <3>4
  <2> QED
    BY <1>5, <1>6, <2>1, <2>2, <2>3, <2>4
<1> QED
  BY <1>1, <1>7, <1>8

LEMMA EmptyPut ==
    ASSUME IInv, SInv, Sized(enc), EmptyInv, PutSegment
    PROVE  EmptyInv'
<1> DEFINE p == request[next]
           pos == currentPayloadPos
           es == enc.cmpFrames
           hs == enc'.cmpFrames
<1>1. PICK f, g, m :
        /\ IF NeedsFrame(enc) THEN Opened(enc, f) ELSE f = enc
        /\ Sound(f) /\ f.cmpFrames # <<>>
        /\ f.bytesLeft \in Nat /\ f.bytesLeft > MessageHeaderSize
        /\ LET bytes == BytesToAdd(f, p.payloadLength, currentPayloadPos)
               flag == SegmentationFlag(isSegmented, segmentInd, bytes,
                                        p.payloadLength, currentPayloadPos)
           IN  /\ bytes \in Nat /\ bytes > 0
               /\ currentPayloadPos + bytes <= p.payloadLength
               /\ m = Message(p, bytes, flag, currentPayloadPos)
               /\ m \in MessageHeader
               /\ Filled(f, g, m)
               /\ IF flag = "lastSegment" THEN Opened(g, enc') ELSE enc' = g
               /\ currentPayloadPos' = currentPayloadPos + bytes
  BY PutSegmentIs
<1> DEFINE bytes == BytesToAdd(f, p.payloadLength, pos)
           flag == SegmentationFlag(isSegmented, segmentInd, bytes, p.payloadLength, pos)
           fs == f.cmpFrames
           gs == g.cmpFrames
<1>2. /\ pc = "loop" /\ pc' = "loop" /\ UNCHANGED <<request, next, frames>>
      /\ enc \in EncoderState /\ enc' \in EncoderState
      /\ f \in EncoderState /\ g \in EncoderState
      /\ m \in MessageHeader /\ Filled(f, g, m)
      /\ pos \in Nat /\ p.payloadLength \in Nat /\ pos < p.payloadLength
      /\ isSegmented \in BOOLEAN
  <2>1. /\ pc = "loop" /\ pc' = "loop" /\ UNCHANGED <<request, next, frames>>
        /\ pos \in Nat /\ pos < p.payloadLength /\ enc \in EncoderState
        /\ isSegmented \in BOOLEAN
    BY DEF PutSegment, MoreToPut, IInv, TypeOK
  <2>2. p.payloadLength \in Nat
    BY PutSegmentIs DEF Packet, Length
  <2>3. m \in MessageHeader /\ Filled(f, g, m) /\ f \in EncoderState
    BY <1>1 DEF Sound
  <2>4. g \in EncoderState
    BY <2>3 DEF Filled
  <2>5. enc' \in EncoderState
    <3>1. Opened(g, enc') \/ enc' = g
      BY <1>1
    <3> QED
      BY <2>4, <3>1 DEF Opened
  <2> QED
    BY <2>1, <2>2, <2>3, <2>4, <2>5
<1>3. /\ bytes \in Nat /\ bytes > 0 /\ pos + bytes <= p.payloadLength /\ pos' = pos + bytes
      /\ bytes <= f.bytesLeft - MessageHeaderSize
  BY <1>1, <1>2 DEF BytesToAdd, Least, MessageHeaderSize
<1>4. /\ AtStart(m) <=> pos = 0
      /\ AtEnd(m) <=> pos + bytes = p.payloadLength
  BY <1>1 DEF Message, AtStart, AtEnd
<1>5. IF flag = "lastSegment" THEN Opened(g, enc') ELSE enc' = g
  BY <1>1
<1>6. flag = "lastSegment" => pos # 0 /\ pos + bytes = p.payloadLength
  <2>1. segmentInd = 0 <=> pos = 0
    BY <1>2 DEF SInv
  <2> QED
    BY <2>1 DEF SegmentationFlag
<1>7. /\ es \in Seq(Frame) /\ fs \in Seq(Frame) /\ gs \in Seq(Frame) /\ hs \in Seq(Frame)
      /\ fs # <<>>
  BY <1>1, <1>2, FramesOf
<1> HIDE DEF bytes, flag
<1> SUFFICES ASSUME AllFilled, NEW i \in DOMAIN hs
             PROVE  Beside(hs, i)
  BY <1>2 DEF EmptyInv, AllFilled, Returned
<1>8. \A j \in 1 .. Len(es) : Beside(es, j) \/ Awaiting(es, j)
  BY <1>2, <1>7 DEF EmptyInv
<1>9. \A j \in 1 .. Len(fs) :
        \/ Beside(fs, j) \/ j = Len(fs)
        \/ j = Len(fs) - 1 /\ LastFrame(f).body = <<>> /\ IsPartial(m) /\ AtStart(m)
  <2>1. CASE NeedsFrame(enc)
    <3>1. Opened(enc, f) /\ enc.bytesLeft < MessageHeaderSize
      BY <1>1, <2>1 DEF NeedsFrame
    <3>2. \A j \in 1 .. Len(es) : Beside(es, j)
      <4> SUFFICES ASSUME NEW j \in 1 .. Len(es), Awaiting(es, j) PROVE Beside(es, j)
        BY <1>8
      <4> DEFINE n == Len(es)
      <4>1. n > 0 /\ n \in 1 .. n /\ es[n] \in Frame
        BY <1>7
      <4>2. UsedBytes(es[n]) + enc.bytesLeft = enc.maxBytesPerMessage
        BY <4>1 DEF Sized
      <4>3. es[n].body # <<>>
        <5> SUFFICES ASSUME es[n].body = <<>> PROVE FALSE
          OBVIOUS
        <5>1. CmpHeaderSize + enc.bytesLeft = enc.maxBytesPerMessage
          BY <4>2, UsedNone
        <5>2. /\ enc.maxBytesPerMessage > CmpHeaderSize + MessageHeaderSize
              /\ enc.bytesLeft \in Nat
          BY <1>2 DEF IInv, Roomy, EncoderState
        <5> QED
          BY <3>1, <5>1, <5>2 DEF CmpHeaderSize, MessageHeaderSize
      <4>4. j = n
        BY <4>3 DEF Awaiting
      <4> QED
        BY <4>3, <4>4 DEF Beside
    <3>3. Len(fs) = Len(es) + 1
      BY <3>1 DEF Opened
    <3> SUFFICES ASSUME NEW j \in 1 .. Len(fs), j # Len(fs) PROVE Beside(fs, j)
      OBVIOUS
    <3>4. j \in 1 .. Len(es) /\ Beside(es, j)
      BY <1>7, <3>2, <3>3
    <3> QED
      BY <1>2, <3>1, <3>4, BesideOpened
  <2>2. CASE ~ NeedsFrame(enc)
    <3>1. f = enc
      BY <1>1, <2>2
    <3> SUFFICES ASSUME NEW j \in 1 .. Len(es), Awaiting(es, j), j # Len(es)
                 PROVE  /\ j = Len(es) - 1 /\ LastFrame(enc).body = <<>>
                        /\ IsPartial(m) /\ AtStart(m)
      BY <1>8, <3>1
    <3>2. pos = 0 /\ j = Len(es) - 1 /\ isSegmented /\ LastFrame(enc).body = <<>>
      BY DEF Awaiting, LastFrame
    <3>3. FirstToCome
      BY <1>2, <3>2 DEF SInv
    <3>4. pos + bytes # p.payloadLength
      <4>1. f.bytesLeft < MessageHeaderSize + p.payloadLength /\ f.bytesLeft \in Nat
        BY <1>1, <3>1, <3>3 DEF FirstToCome
      <4> QED
        BY <1>2, <1>3, <3>2, <4>1 DEF MessageHeaderSize
    <3> QED
      BY <1>4, <3>2, <3>4 DEF IsPartial
  <2> QED
    BY <2>1, <2>2
<1>10. \A j \in 1 .. Len(gs) : Beside(gs, j)
  <2> SUFFICES ASSUME NEW j \in 1 .. Len(gs) PROVE Beside(gs, j)
    OBVIOUS
  <2>1. Len(gs) = Len(fs)
    BY <1>2 DEF Filled
  <2>2. \/ Beside(fs, j) \/ j = Len(fs)
        \/ j = Len(fs) - 1 /\ LastFrame(f).body = <<>> /\ IsPartial(m) /\ AtStart(m)
    BY <1>9, <2>1
  <2>3. j \in 1 .. Len(fs)
    BY <2>1
  <2> QED
    BY <1>2, <1>7, <2>2, <2>3, BesideFilled
<1>11. CASE flag = "lastSegment"
  <2>1. Opened(g, enc') /\ IsPartial(m) /\ AtEnd(m)
    BY <1>4, <1>5, <1>6, <1>11 DEF IsPartial
  <2>2. Len(hs) = Len(gs) + 1
    BY <2>1 DEF Opened
  <2>3. CASE i = Len(hs)
    BY <1>2, <1>7, <2>1, <2>3, BesideLast
  <2>4. CASE i # Len(hs)
    <3>1. i \in 1 .. Len(gs) /\ Beside(gs, i)
      BY <1>7, <1>10, <2>2, <2>4
    <3> QED
      BY <1>2, <2>1, <3>1, BesideOpened
  <2> QED
    BY <2>3, <2>4
<1>12. CASE flag # "lastSegment"
  BY <1>5, <1>7, <1>10, <1>12
<1> QED
  BY <1>11, <1>12

LEMMA EmptyInvStep ==
    ASSUME IInv, SInv, SizeInv, EmptyInv, [Next]_vars
    PROVE  EmptyInv'
<1>1. ASSUME Configure PROVE EmptyInv'
  <2>1. pc = "idle" /\ UNCHANGED <<pc, request, frames>>
    BY <1>1 DEF Configure, SetDeviceId, SetStreamId, Restart
  <2> QED
    BY <2>1 DEF EmptyInv, AllFilled, Returned
<1>2. ASSUME NEW r \in Requests, NEW context \in DataContexts, BeginEncode(r, context)
      PROVE  EmptyInv'
  <2>1. enc'.cmpFrames = <<>> /\ pc' = "packet"
    BY <1>2 DEF BeginEncode, ClearEncodingMetadata, IInv, TypeOK, EncoderState
  <2> QED
    BY <2>1 DEF EmptyInv, Returned
<1>3. ASSUME StartPacket PROVE EmptyInv'
  BY <1>3, EmptyStart DEF SizeInv
<1>4. ASSUME PutSegment PROVE EmptyInv'
  BY <1>4, EmptyPut DEF SizeInv
<1>5. ASSUME FinishPacket PROVE EmptyInv'
  <2>1. /\ pc = "loop" /\ pc' = "packet" /\ UNCHANGED <<enc, request, frames>>
        /\ next \in DOMAIN request /\ currentPayloadPos \in Nat
        /\ ~ (currentPayloadPos < request[next].payloadLength)
    BY <1>5 DEF FinishPacket, IInv, TypeOK, LoopInv, MoreToPut
  <2>2. AllFilled => currentPayloadPos # 0
    BY <2>1 DEF AllFilled
  <2> QED
    BY <2>1, <2>2 DEF EmptyInv, AllFilled, Awaiting, Returned
<1>6. ASSUME ReturnUndefined PROVE EmptyInv'
  BY <1>6 DEF ReturnUndefined, EmptyInv, Returned
<1>7. ASSUME ReturnFrames PROVE EmptyInv'
  <2>1. /\ pc = "packet" /\ pc' = "idle" /\ request' = request
        /\ frames' = ClosedFrames(enc)
        /\ enc \in EncoderState /\ OpenFrame(enc)
    BY <1>7 DEF ReturnFrames, IInv, Sound
  <2> DEFINE es == enc.cmpFrames
             fs == frames'
  <2>2. /\ fs \in Seq(Frame) /\ es \in Seq(Frame) /\ Len(fs) = Len(es)
        /\ \A i \in 1 .. Len(es) : fs[i].body = es[i].body
    BY <2>1, ClosedFramesIs DEF EncoderState
  <2>3. AllFilled => \A i \in DOMAIN es : Beside(es, i)
    BY <2>1 DEF EmptyInv
  <2> HIDE DEF es, fs
  <2>4. AllFilled => \A i \in DOMAIN fs : Beside(fs, i)
    BY <2>2, <2>3, BesideSame
  <2> QED
    BY <2>1, <2>4 DEF EmptyInv, AllFilled, fs
<1>8. CASE UNCHANGED vars
  BY <1>8 DEF vars, EmptyInv, AllFilled, Awaiting, Returned
<1> QED
  BY <1>1, <1>2, <1>3, <1>4, <1>5, <1>6, <1>7, <1>8 DEF Next, Call, Run, Step

(***************************************************************************)
(* A frame without a message is returned only behind the last piece of a   *)
(* packet or in front of the first piece of one, unless the request has a  *)
(* packet without payload: none of the four places that open a frame does  *)
(* so in vain otherwise (encoder.cpp:33, 75, 91-92, 137-146).              *)
(***************************************************************************)
THEOREM EmptyFramesAreBesidePieces == Spec => []EmptyFramesBesidePieces
<1>1. IInv /\ SInv /\ [Next]_vars => SInv'
  BY SInvStep
<1>2. IInv /\ SizeInv /\ [Next]_vars => SizeInv'
  BY SizeInvStep
<1>3. IInv /\ SInv /\ SizeInv /\ EmptyInv /\ [Next]_vars => EmptyInv'
  BY EmptyInvStep
<1>4. EmptyInv => EmptyFramesBesidePieces
  BY DEF EmptyInv, EmptyFramesBesidePieces, AllFilled, Beside, Behind, Ahead
<1> QED
  BY <1>1, <1>2, <1>3, <1>4, IInvInvariant, SInvInit, SizeInvInit, EmptyInvInit, PTL
     DEF Spec
-----------------------------------------------------------------------------
(***************************************************************************)
(* The order of the messages of a call: they are pieces of the packets put *)
(* so far, each behind the ones before it.                                 *)
(***************************************************************************)

\* Message m holds at least one byte, inside the payload of its packet.
InPayload(m) ==
    /\ m.payloadLength > 0
    /\ m.data.position + m.payloadLength <= m.data.whole

\* In the list of packets named by ids, n comes later than m: its packet does,
\* or it lies further back in the same payload.
Before(ids, m, n) ==
    \E i, j \in DOMAIN ids :
        /\ ids[i] = m.data.packet
        /\ ids[j] = n.data.packet
        /\ \/ i < j
           \/ i = j /\ m.data.position + m.payloadLength <= n.data.position

RequestIds == [i \in DOMAIN request |-> request[i].id]

\* m is a piece of a packet of the request that has been put already.
Placed(m) ==
    \E j \in DOMAIN request :
        /\ m.data.packet = request[j].id
        /\ m.data.whole = request[j].payloadLength
        /\ \/ j < next
           \/ /\ pc = "loop" /\ j = next
              /\ m.data.position + m.payloadLength <= currentPayloadPos

Sorted(ids, s) == \A k, l \in DOMAIN s : k < l => Before(ids, s[k], s[l])

OrderInv ==
    pc \in {"packet", "loop"} =>
        /\ \A m \in ToSet(Written(enc)) : InPayload(m) /\ Placed(m)
        /\ Sorted(RequestIds, Written(enc))

LEMMA OrderPut ==
    ASSUME IInv, OrderInv, PutSegment
    PROVE  OrderInv'
<1> DEFINE p == request[next]
           s == Written(enc)
           t == Written(enc)'
<1>1. PICK m \in MessageHeader :
        /\ m.data.packet = p.id
        /\ m.data.position = currentPayloadPos
        /\ m.data.whole = p.payloadLength
        /\ m.payloadLength > 0
        /\ currentPayloadPos' = currentPayloadPos + m.payloadLength
        /\ currentPayloadPos' <= p.payloadLength
        /\ s \in Seq(MessageHeader)
        /\ t = Append(s, m)
  BY WrittenPut
<1>2. /\ pc = "loop" /\ pc' = "loop" /\ UNCHANGED <<request, next>>
      /\ currentPayloadPos \in Nat /\ next \in Nat /\ next # 0
      /\ next <= Len(request) /\ request \in Seq(Packet)
  BY DEF PutSegment, IInv, TypeOK, LoopInv
<1>3. /\ \A x \in ToSet(s) : InPayload(x) /\ Placed(x)
      /\ Sorted(RequestIds, s)
  BY <1>2 DEF OrderInv
<1> DEFINE n == Len(s)
<1>4. /\ n \in Nat /\ DOMAIN s = 1 .. n /\ DOMAIN t = 1 .. n + 1 /\ t[n + 1] = m
      /\ \A k \in 1 .. n : t[k] = s[k] /\ s[k] \in MessageHeader
  BY <1>1
<1>5. /\ m.payloadLength \in Nat /\ m.data.position \in Nat /\ m.data.whole \in Nat
      /\ next \in DOMAIN request
      /\ \A x \in MessageHeader : x.data.position + x.payloadLength \in Nat
  <2>1. next \in DOMAIN request
    BY <1>2
  <2>2. \A x \in MessageHeader : /\ x.data.position \in Nat /\ x.data.whole \in Nat
                                 /\ x.payloadLength \in Nat
    BY DEF MessageHeader, PayloadData, Length
  <2> QED
    BY <1>1, <2>1, <2>2
<1> HIDE DEF s, t, n, p
<1>6. InPayload(m) /\ Placed(m)'
  <2>1. InPayload(m)
    BY <1>1, <1>5 DEF InPayload
  <2>2. m.data.position + m.payloadLength <= currentPayloadPos'
    BY <1>1, <1>2, <1>5
  <2> QED
    BY <1>1, <1>2, <1>5, <2>1, <2>2 DEF Placed, p
<1>7. ASSUME NEW x \in MessageHeader, Placed(x)
      PROVE  Placed(x)' /\ Before(RequestIds, x, m)
  <2>1. PICK j \in DOMAIN request :
        /\ x.data.packet = request[j].id
        /\ x.data.whole = request[j].payloadLength
        /\ \/ j < next
           \/ /\ pc = "loop" /\ j = next
              /\ x.data.position + x.payloadLength <= currentPayloadPos
    BY <1>7 DEF Placed
  <2>2. x.data.position + x.payloadLength \in Nat
    BY <1>5
  <2>3. x.data.position + x.payloadLength <= currentPayloadPos =>
          x.data.position + x.payloadLength <= currentPayloadPos'
    BY <1>1, <1>2, <1>5, <2>2
  <2>4. Placed(x)'
    BY <1>2, <2>1, <2>3 DEF Placed
  <2>5. DOMAIN RequestIds = DOMAIN request /\ RequestIds[j] = request[j].id
          /\ RequestIds[next] = request[next].id
    BY <1>5 DEF RequestIds
  <2> QED
    BY <1>1, <1>5, <2>1, <2>4, <2>5 DEF Before, p
<1>8. \A x \in ToSet(t) : InPayload(x) /\ Placed(x)'
  <2>1. \A x \in ToSet(t) : x = m \/ x \in ToSet(s)
    BY <1>4 DEF ToSet
  <2>2. \A x \in ToSet(s) : x \in MessageHeader
    BY <1>4 DEF ToSet
  <2> QED
    BY <1>3, <1>6, <1>7, <2>1, <2>2
<1>9. RequestIds' = RequestIds
  BY <1>2 DEF RequestIds
<1>10. Sorted(RequestIds, t)
  <2> SUFFICES ASSUME NEW k \in 1 .. n + 1, NEW l \in 1 .. n + 1, k < l
               PROVE  Before(RequestIds, t[k], t[l])
    BY <1>4 DEF Sorted
  <2>1. CASE l \in 1 .. n
    <3>1. k \in 1 .. n
      BY <1>4, <2>1
    <3>2. Before(RequestIds, s[k], s[l])
      BY <1>3, <1>4, <2>1, <3>1 DEF Sorted
    <3> QED
      BY <1>4, <2>1, <3>1, <3>2
  <2>2. CASE l = n + 1
    <3>1. k \in 1 .. n
      BY <1>4, <2>2
    <3>2. s[k] \in MessageHeader /\ Placed(s[k])
      BY <1>3, <1>4, <3>1 DEF ToSet
    <3> QED
      BY <1>4, <1>7, <2>2, <3>1, <3>2
  <2> QED
    BY <1>4, <2>1, <2>2
<1> QED
  BY <1>8, <1>9, <1>10 DEF OrderInv, t

LEMMA OrderInvStep ==
    ASSUME IInv, OrderInv, [Next]_vars
    PROVE  OrderInv'
<1>1. ASSUME Configure PROVE OrderInv'
  BY <1>1 DEF Configure, SetDeviceId, SetStreamId, Restart, OrderInv
<1>2. ASSUME NEW r \in Requests, NEW context \in DataContexts, BeginEncode(r, context)
      PROVE  OrderInv'
  <2>1. enc'.cmpFrames = <<>>
    BY <1>2 DEF BeginEncode, ClearEncodingMetadata, IInv, TypeOK, EncoderState
  <2>2. Written(enc') = <<>>
    BY <2>1, MessagesNone
  <2> QED
    BY <2>2 DEF OrderInv, Sorted, ToSet
<1>3. ASSUME StartPacket PROVE OrderInv'
  <2>1. Written(enc') = Written(enc)
    BY <1>3, WrittenStarted
  <2>2. pc = "packet" /\ pc' = "loop" /\ UNCHANGED <<request, next>>
    BY <1>3 DEF StartPacket
  <2>3. ASSUME NEW m, Placed(m) PROVE Placed(m)'
    BY <2>2, <2>3 DEF Placed
  <2>4. RequestIds' = RequestIds
    BY <2>2 DEF RequestIds
  <2> DEFINE s == Written(enc)
  <2>5. /\ \A x \in ToSet(s) : InPayload(x) /\ Placed(x)
        /\ Sorted(RequestIds, s)
    BY <2>2 DEF OrderInv
  <2> HIDE DEF s
  <2>6. \A x \in ToSet(s) : InPayload(x) /\ Placed(x)'
    BY <2>3, <2>5
  <2> QED
    BY <2>1, <2>4, <2>5, <2>6 DEF OrderInv, s
<1>4. ASSUME PutSegment PROVE OrderInv'
  BY <1>4, OrderPut
<1>5. ASSUME FinishPacket PROVE OrderInv'
  <2>1. /\ pc = "loop" /\ pc' = "packet" /\ UNCHANGED <<enc, request>>
        /\ next' = next + 1 /\ next \in Nat /\ request \in Seq(Packet)
    BY <1>5 DEF FinishPacket, IInv, TypeOK
  <2>2. ASSUME NEW m, Placed(m) PROVE Placed(m)'
    BY <2>1, <2>2 DEF Placed
  <2>4. RequestIds' = RequestIds /\ Written(enc') = Written(enc)
    BY <2>1 DEF RequestIds
  <2> DEFINE s == Written(enc)
  <2>5. /\ \A x \in ToSet(s) : InPayload(x) /\ Placed(x)
        /\ Sorted(RequestIds, s)
    BY <2>1 DEF OrderInv
  <2> HIDE DEF s
  <2>6. \A x \in ToSet(s) : InPayload(x) /\ Placed(x)'
    BY <2>2, <2>5
  <2> QED
    BY <2>1, <2>4, <2>5, <2>6 DEF OrderInv, s
<1>6. ASSUME ReturnUndefined PROVE OrderInv'
  BY <1>6 DEF ReturnUndefined, OrderInv
<1>7. ASSUME ReturnFrames PROVE OrderInv'
  BY <1>7 DEF ReturnFrames, OrderInv
<1>8. CASE UNCHANGED vars
  BY <1>8 DEF vars, OrderInv, Placed, RequestIds
<1> QED
  BY <1>1, <1>2, <1>3, <1>4, <1>5, <1>6, <1>7, <1>8 DEF Next, Call, Run, Step
-----------------------------------------------------------------------------
(***************************************************************************)
(* The messages of the frames of a call lie one after another in the       *)
(* messages of all of them.                                                *)
(***************************************************************************)

(***************************************************************************)
(* Where the messages of each frame lie in the messages of all of them.    *)
(***************************************************************************)
LaidOut(fs, o) ==
    /\ \A i \in 1 .. Len(fs) :
         /\ o[i] \in Nat
         /\ o[i] + Len(fs[i].body) <= Len(Messages(fs))
         /\ \A k \in 1 .. Len(fs[i].body) : Messages(fs)[o[i] + k] = fs[i].body[k]
    /\ \A i, j \in 1 .. Len(fs) : i < j => o[i] + Len(fs[i].body) <= o[j]
    /\ \A i \in 1 .. Len(fs) - 1 : o[i + 1] = o[i] + Len(fs[i].body)
    /\ fs # <<>> => Len(Messages(fs)) = o[Len(fs)] + Len(fs[Len(fs)].body)
    /\ fs # <<>> => o[1] = 0

LEMMA MessagesEmpty == Messages(<<>>) = <<>>
<1>1. [i \in DOMAIN <<>> |-> <<>>[i].body] = <<>>
  OBVIOUS
<1> QED
  BY <1>1, FlattenEmpty DEF Messages

LEMMA LaidOutMore ==
    ASSUME NEW n \in Nat, NEW fs \in Seq(Frame), Len(fs) = n + 1,
           NEW es \in Seq(Frame), Len(es) = n, \A i \in 1 .. n : es[i] = fs[i],
           NEW o, LaidOut(es, o)
    PROVE  \E q : LaidOut(fs, q)
<1> DEFINE a == Messages(es)
           b == fs[n + 1].body
           q == [i \in 1 .. n + 1 |-> IF i = n + 1 THEN Len(a) ELSE o[i]]
           L == [i \in 1 .. n + 1 |-> Len(fs[i].body)]
<1>1. Messages(fs) = a \o b /\ a \in Seq(MessageHeader) /\ b \in Seq(MessageHeader)
  <2>1. b \in Seq(MessageHeader)
    BY BodyType
  <2>2. a \in Seq(MessageHeader)
    BY BodiesType
  <2> QED
    BY <2>1, <2>2, MessagesLast
<1>2. \A i \in 1 .. n + 1 : L[i] \in Nat
  BY BodyType
<1>3. /\ Len(a) \in Nat /\ Len(b) = L[n + 1]
      /\ Len(Messages(fs)) = Len(a) + Len(b)
      /\ \A k \in 1 .. Len(a) : Messages(fs)[k] = a[k]
      /\ \A k \in 1 .. Len(b) : Messages(fs)[Len(a) + k] = b[k]
  BY <1>1
<1>4. /\ \A i \in 1 .. n : o[i] \in Nat /\ o[i] + L[i] <= Len(a)
      /\ \A i, j \in 1 .. n : i < j => o[i] + L[i] <= o[j]
      /\ \A i \in 1 .. n - 1 : o[i + 1] = o[i] + L[i]
      /\ n # 0 => Len(a) = o[n] + L[n]
      /\ \A i \in 1 .. n : \A k \in 1 .. L[i] : a[o[i] + k] = fs[i].body[k]
  <2>1. \A i \in 1 .. n : es[i].body = fs[i].body /\ Len(es[i].body) = L[i]
    OBVIOUS
  <2>2. n # 0 => es # <<>> /\ n \in 1 .. n
    OBVIOUS
  <2>3. /\ \A i \in 1 .. n : o[i] \in Nat /\ o[i] + Len(es[i].body) <= Len(a)
        /\ \A i, j \in 1 .. n : i < j => o[i] + Len(es[i].body) <= o[j]
        /\ \A i \in 1 .. n - 1 : o[i + 1] = o[i] + Len(es[i].body)
        /\ n # 0 => Len(a) = o[n] + Len(es[n].body)
    BY Zenon, <2>2 DEF LaidOut
  <2>4. \A i \in 1 .. n : \A k \in 1 .. Len(es[i].body) : a[o[i] + k] = es[i].body[k]
    BY Zenon DEF LaidOut
  <2>5. \A i \in 1 .. n - 1 : i \in 1 .. n
    OBVIOUS
  <2> HIDE DEF a, L
  <2>6. \A i \in 1 .. n : \A k \in 1 .. L[i] : a[o[i] + k] = fs[i].body[k]
    <3> SUFFICES ASSUME NEW i \in 1 .. n, NEW k \in 1 .. L[i]
                 PROVE  a[o[i] + k] = fs[i].body[k]
      OBVIOUS
    <3>1. es[i].body = fs[i].body /\ k \in 1 .. Len(es[i].body)
      BY <2>1
    <3> QED
      BY Zenon, <2>4, <3>1
  <2>7. \A i \in 1 .. n : o[i] \in Nat /\ o[i] + L[i] <= Len(a)
    BY ONLY <2>1, <2>3
  <2>8. \A i, j \in 1 .. n : i < j => o[i] + L[i] <= o[j]
    BY ONLY <2>1, <2>3
  <2>9. \A i \in 1 .. n - 1 : o[i + 1] = o[i] + L[i]
    BY ONLY <2>1, <2>3, <2>5
  <2>10. n # 0 => Len(a) = o[n] + L[n]
    BY ONLY <2>1, <2>2, <2>3
  <2> QED
    BY <2>6, <2>7, <2>8, <2>9, <2>10
<1>a. \A i \in 1 .. n : \A k \in 1 .. L[i] : a[o[i] + k] = fs[i].body[k]
  BY <1>4
<1>b. q[n + 1] = Len(a) /\ \A i \in 1 .. n : q[i] = o[i]
  OBVIOUS
<1> HIDE DEF a, b, q, L
<1>c. Len(a) \in Nat /\ Len(b) \in Nat /\ Len(Messages(fs)) = Len(a) + Len(b)
  BY <1>2, <1>3
<1>5. \A i \in 1 .. n + 1 : q[i] \in Nat /\ q[i] + L[i] <= Len(Messages(fs))
  <2> SUFFICES ASSUME NEW i \in 1 .. n + 1
               PROVE  q[i] \in Nat /\ q[i] + L[i] <= Len(Messages(fs))
    OBVIOUS
  <2>1. CASE i = n + 1
    BY ONLY <1>2, <1>3, <1>b, <2>1, n \in Nat
  <2>2. CASE i # n + 1
    <3>1. i \in 1 .. n
      BY <2>2
    <3> QED
      <4>1. q[i] = o[i] /\ o[i] \in Nat /\ o[i] + L[i] <= Len(a) /\ L[i] \in Nat
        BY Zenon, <1>2, <1>4, <1>b, <3>1
      <4> QED
        BY ONLY <4>1, <1>c
  <2> QED
    BY <2>1, <2>2
<1>6. \A i \in 1 .. n + 1 : \A k \in 1 .. L[i] : Messages(fs)[q[i] + k] = fs[i].body[k]
  <2> SUFFICES ASSUME NEW i \in 1 .. n + 1, NEW k \in 1 .. L[i]
               PROVE  Messages(fs)[q[i] + k] = fs[i].body[k]
    OBVIOUS
  <2>1. CASE i = n + 1
    BY <1>3, <1>b, <2>1 DEF b
  <2>2. CASE i # n + 1
    <3>1. i \in 1 .. n
      BY <2>2
    <3>2. o[i] + k \in 1 .. Len(a)
      <4>1. o[i] \in Nat /\ L[i] \in Nat /\ o[i] + L[i] <= Len(a) /\ Len(a) \in Nat
        BY ONLY <1>2, <1>3, <1>4, <3>1, n \in Nat
      <4> QED
        BY ONLY <4>1, k \in 1 .. L[i]
    <3>3. Messages(fs)[o[i] + k] = a[o[i] + k]
      BY <1>3, <3>2
    <3>4. a[o[i] + k] = fs[i].body[k]
      BY <1>a, <3>1
    <3> QED
      BY <1>b, <3>1, <3>3, <3>4
  <2> QED
    BY <2>1, <2>2
<1>7. \A i, j \in 1 .. n + 1 : i < j => q[i] + L[i] <= q[j]
  <2> SUFFICES ASSUME NEW i \in 1 .. n + 1, NEW j \in 1 .. n + 1, i < j
               PROVE  q[i] + L[i] <= q[j]
    OBVIOUS
  <2>1. i \in 1 .. n /\ (j \in 1 .. n \/ j = n + 1)
    OBVIOUS
  <2> QED
    BY ONLY <1>4, <1>b, <2>1, i < j
<1>8. \A i \in 1 .. (n + 1) - 1 : q[i + 1] = q[i] + L[i]
  <2> SUFFICES ASSUME NEW i \in 1 .. n PROVE q[i + 1] = q[i] + L[i]
    OBVIOUS
  <2>1. (i = n /\ n # 0) \/ (i \in 1 .. n - 1 /\ i + 1 \in 1 .. n)
    OBVIOUS
  <2> QED
    BY ONLY <1>4, <1>b, <2>1, i \in 1 .. n, n \in Nat
<1>9. Len(Messages(fs)) = q[Len(fs)] + Len(fs[Len(fs)].body)
  BY <1>3, <1>b DEF L
<1>d. \A i \in 1 .. n + 1 : L[i] = Len(fs[i].body)
  BY DEF L
<1>e. \A i \in 1 .. (n + 1) - 1 : i \in 1 .. n + 1
  OBVIOUS
<1>10. LaidOut(fs, q)
  <2>1. \A i \in 1 .. n + 1 : q[i] \in Nat /\ q[i] + Len(fs[i].body) <= Len(Messages(fs))
    BY ONLY <1>5, <1>d
  <2>2. \A i \in 1 .. n + 1 : \A k \in 1 .. Len(fs[i].body) :
          Messages(fs)[q[i] + k] = fs[i].body[k]
    <3> SUFFICES ASSUME NEW i \in 1 .. n + 1, NEW k \in 1 .. Len(fs[i].body)
                 PROVE  Messages(fs)[q[i] + k] = fs[i].body[k]
      OBVIOUS
    <3>1. k \in 1 .. L[i]
      BY <1>d
    <3> QED
      BY <1>6, <3>1
  <2>3. \A i, j \in 1 .. n + 1 : i < j => q[i] + Len(fs[i].body) <= q[j]
    BY ONLY <1>7, <1>d
  <2>4. \A i \in 1 .. (n + 1) - 1 : q[i + 1] = q[i] + Len(fs[i].body)
    BY ONLY <1>8, <1>d, <1>e
  <2>5. q[1] = 0
    <3>1. CASE n = 0
      <4>1. a = <<>>
        <5>1. es = <<>>
          BY <3>1
        <5> QED
          BY <5>1, MessagesEmpty DEF a
      <4>2. Len(<<>>) = 0
        OBVIOUS
      <4>3. q[n + 1] = Len(a)
        BY <1>b
      <4> QED
        BY ONLY <3>1, <4>1, <4>2, <4>3
    <3>2. CASE n # 0
      <4>1. 1 \in 1 .. n /\ es # <<>>
        BY <3>2
      <4>2. o[1] = 0
        BY <4>1 DEF LaidOut
      <4> QED
        BY <1>b, <4>1, <4>2
    <3> QED
      BY <3>1, <3>2
  <2> QED
    BY ONLY <2>1, <2>2, <2>3, <2>4, <2>5, <1>9, Len(fs) = n + 1 DEF LaidOut
<1> QED
  BY <1>10

LEMMA LaidOutExists ==
    ASSUME NEW fs \in Seq(Frame)
    PROVE  \E o : LaidOut(fs, o)
<1> DEFINE T == {n \in Nat : \A es \in Seq(Frame) : Len(es) = n => \E o : LaidOut(es, o)}
<1>1. 0 \in T
  <2>1. ASSUME NEW es \in Seq(Frame), Len(es) = 0
        PROVE  LaidOut(es, <<>>)
    BY <2>1 DEF LaidOut
  <2> QED
    BY <2>1
<1>2. ASSUME NEW n \in T PROVE n + 1 \in T
  <2>1. SUFFICES ASSUME NEW gs \in Seq(Frame), Len(gs) = n + 1
                 PROVE  \E o : LaidOut(gs, o)
    OBVIOUS
  <2> DEFINE es == SubSeq(gs, 1, n)
  <2>2. /\ n \in Nat /\ es \in Seq(Frame) /\ Len(es) = n
        /\ \A i \in 1 .. n : es[i] = gs[i]
    BY <2>1
  <2> HIDE DEF es
  <2>3. PICK o : LaidOut(es, o)
    BY <2>2
  <2> QED
    BY <2>1, <2>2, <2>3, LaidOutMore
<1>3. T = Nat
  <2> HIDE DEF T
  <2>1. T \subseteq Nat
    BY DEF T
  <2> QED
    BY <1>1, <1>2, <2>1, SetInduction
<1>4. Len(fs) \in T
  BY <1>3
<1> QED
  BY <1>4

LEMMA LaidAt ==
    ASSUME NEW fs \in Seq(Frame), NEW o, LaidOut(fs, o),
           NEW i \in 1 .. Len(fs), NEW k \in 1 .. Len(fs[i].body)
    PROVE  /\ o[i] \in Nat /\ o[i] + k \in 1 .. Len(Messages(fs))
           /\ Messages(fs)[o[i] + k] = fs[i].body[k]
<1>1. Len(fs[i].body) \in Nat /\ Len(Messages(fs)) \in Nat
  BY BodyType, BodiesType
<1>2. /\ o[i] \in Nat /\ o[i] + Len(fs[i].body) <= Len(Messages(fs))
      /\ Messages(fs)[o[i] + k] = fs[i].body[k]
  BY DEF LaidOut
<1> QED
  BY ONLY <1>1, <1>2, k \in 1 .. Len(fs[i].body)

\* The messages of frames that come later in a call or on the way come later.
InOrderFrames(ids, fs) ==
    \A i, j \in DOMAIN fs : \A k \in DOMAIN fs[i].body, l \in DOMAIN fs[j].body :
        i < j \/ (i = j /\ k < l) => Before(ids, fs[i].body[k], fs[j].body[l])

LEMMA MessageIn ==
    ASSUME NEW fs \in Seq(Frame), NEW i \in DOMAIN fs, NEW k \in DOMAIN fs[i].body
    PROVE  fs[i].body[k] \in ToSet(Messages(fs)) /\ fs[i].body[k] \in MessageHeader
<1>1. PICK o : LaidOut(fs, o)
  BY LaidOutExists
<1>2. i \in 1 .. Len(fs)
  OBVIOUS
<1>3. fs[i].body \in Seq(MessageHeader) /\ Messages(fs) \in Seq(MessageHeader)
  BY <1>2, BodyType, BodiesType
<1>4. k \in 1 .. Len(fs[i].body) /\ Len(fs[i].body) \in Nat
  BY <1>3
<1>5. o[i] + k \in 1 .. Len(Messages(fs)) /\ Messages(fs)[o[i] + k] = fs[i].body[k]
  BY <1>1, <1>2, <1>3, <1>4, LaidAt
<1> QED
  BY <1>3, <1>5 DEF ToSet

LEMMA SortedFrames ==
    ASSUME NEW fs \in Seq(Frame), NEW ids, Sorted(ids, Messages(fs))
    PROVE  InOrderFrames(ids, fs)
<1>1. PICK o : LaidOut(fs, o)
  BY LaidOutExists
<1>2. Messages(fs) \in Seq(MessageHeader)
  BY BodiesType
<1> SUFFICES ASSUME NEW i \in DOMAIN fs, NEW j \in DOMAIN fs,
                    NEW k \in DOMAIN fs[i].body, NEW l \in DOMAIN fs[j].body,
                    i < j \/ (i = j /\ k < l)
             PROVE  Before(ids, fs[i].body[k], fs[j].body[l])
  BY DEF InOrderFrames
<1>3. /\ i \in 1 .. Len(fs) /\ j \in 1 .. Len(fs)
      /\ k \in 1 .. Len(fs[i].body) /\ Len(fs[i].body) \in Nat
      /\ l \in 1 .. Len(fs[j].body) /\ Len(fs[j].body) \in Nat
  <2>1. i \in 1 .. Len(fs) /\ j \in 1 .. Len(fs)
    OBVIOUS
  <2>2. fs[i].body \in Seq(MessageHeader) /\ fs[j].body \in Seq(MessageHeader)
    BY <2>1, BodyType
  <2> QED
    BY <2>1, <2>2
<1>4. /\ o[i] + k \in 1 .. Len(Messages(fs)) /\ Messages(fs)[o[i] + k] = fs[i].body[k]
      /\ o[j] + l \in 1 .. Len(Messages(fs)) /\ Messages(fs)[o[j] + l] = fs[j].body[l]
      /\ o[i] \in Nat /\ o[j] \in Nat
  BY <1>1, <1>3, LaidAt
<1>5. o[i] + k < o[j] + l
  <2>1. CASE i < j
    <3>1. o[i] + Len(fs[i].body) <= o[j]
      BY <1>1, <1>3, <2>1 DEF LaidOut
    <3>2. /\ k \in Nat /\ k <= Len(fs[i].body) /\ l \in Nat /\ l > 0
          /\ Len(fs[i].body) \in Nat /\ o[i] \in Nat /\ o[j] \in Nat
      <4>1. k \in Nat /\ k <= Len(fs[i].body)
        BY ONLY <1>3
      <4>2. l \in Nat /\ l > 0
        BY ONLY <1>3
      <4> QED
        BY Zenon, <4>1, <4>2, <1>3, <1>4
    <3> QED
      BY ONLY <3>1, <3>2
  <2>2. CASE i = j /\ k < l
    BY ONLY <1>3, <1>4, <2>2
  <2> QED
    BY <2>1, <2>2
<1> QED
  BY <1>2, <1>4, <1>5 DEF Sorted
-----------------------------------------------------------------------------
(***************************************************************************)
(* The decoder of the link: the types of its state, and what one turn of   *)
(* decode()'s loop makes of a message.                                     *)
(***************************************************************************)

EntriesOK(entries) == \A e \in DOMAIN entries : entries[e] \in Dec!SegmentedPacket

DecTypes ==
    /\ frame \in Frame \cup {NoFrame}
    /\ body \in Seq(MessageHeader)
    /\ curSize \in Nat
    /\ packets \in Seq(Dec!Packet)
    /\ EntriesOK(segmentedPackets)

LEMMA SameNames ==
    /\ Dec!MessageHeader = MessageHeader
    /\ Dec!SegmentType = SegmentType
    /\ Dec!Length = Length
    /\ Dec!Counter = Counter
    /\ Dec!MessageHeaderSize = MessageHeaderSize
    /\ Dec!CmpHeaderSize = CmpHeaderSize
    /\ \A c : Dec!NextCounter(c) = NextCounter(c)
BY DEF Dec!MessageHeader, MessageHeader, Dec!SegmentType, SegmentType, Dec!Length, Length,
       Dec!Counter, Counter, Dec!MessageHeaderSize, MessageHeaderSize,
       Dec!CmpHeaderSize, CmpHeaderSize, Dec!NextCounter, NextCounter

PieceOf(m, trailing) ==
    [data |-> m.data, length |-> m.payloadLength, trailing |-> trailing]

LEMMA PieceOfType ==
    ASSUME NEW m \in MessageHeader, NEW t \in Nat
    PROVE  PieceOf(m, t) \in Dec!Piece
BY SameNames DEF PieceOf, Dec!Piece, MessageHeader

LEMMA ValidIs ==
    ASSUME NEW m \in MessageHeader, NEW size \in Nat, Dec!IsValidPacket(m, size)
    PROVE  /\ m.payloadLength \in Nat
           /\ size - MessageHeaderSize \in Nat
           /\ size - MessageHeaderSize - m.payloadLength \in Nat
           /\ size >= MessageHeaderSize
BY SameNames DEF Dec!IsValidPacket, MessageHeader, Length, MessageHeaderSize

LEMMA FirstSegmentIs ==
    ASSUME NEW m \in MessageHeader, NEW size \in Nat, NEW f \in Frame,
           Dec!IsValidPacket(m, size)
    PROVE  LET s == Dec!FirstSegment(m, size, f)
           IN  /\ s \in Dec!SegmentedPacket
               /\ s.payload = <<PieceOf(m, size - MessageHeaderSize - m.payloadLength)>>
               /\ s.payloadSize = size - MessageHeaderSize
               /\ s.curSegment = f.sequenceCounter
<1> DEFINE piece == PieceOf(m, size - MessageHeaderSize - m.payloadLength)
<1>1. /\ size - MessageHeaderSize \in Nat
      /\ size - MessageHeaderSize - m.payloadLength \in Nat
  BY ValidIs
<1>2. <<piece>> \in Seq(Dec!Piece)
  BY <1>1, PieceOfType
<1>3. Dec!FirstSegment(m, size, f) =
        [payload |-> <<piece>>, payloadSize |-> size - MessageHeaderSize,
         payloadLength |-> m.payloadLength, segmentType |-> "firstSegment",
         curVersion |-> f.version, curMessageType |-> f.messageType,
         curSegment |-> f.sequenceCounter]
  BY SameNames DEF Dec!FirstSegment, PieceOf
<1> HIDE DEF piece
<1>4. /\ m.payloadLength \in Dec!Length /\ "firstSegment" \in Dec!SegmentType
      /\ f.version \in Version /\ f.messageType \in MessageType
      /\ f.sequenceCounter \in Dec!Counter
  BY SameNames DEF MessageHeader, Frame, SegmentType
<1> QED
  BY <1>1, <1>2, <1>3, <1>4 DEF Dec!SegmentedPacket, piece

LEMMA AddSegmentIs ==
    ASSUME NEW s \in Dec!SegmentedPacket, NEW m \in MessageHeader
    PROVE  LET a == Dec!AddSegment(s, m)
           IN  /\ a \in Dec!SegmentedPacket
               /\ a.payload = Append(s.payload, PieceOf(m, 0))
               /\ a.payloadSize = s.payloadSize + m.payloadLength
               /\ a.payloadLength = (s.payloadSize + m.payloadLength) % LengthMod
               /\ a.curSegment = NextCounter(s.curSegment)
               /\ a.curVersion = s.curVersion
               /\ a.curMessageType = s.curMessageType
<1> DEFINE piece == PieceOf(m, 0)
<1>1. Append(s.payload, piece) \in Seq(Dec!Piece)
  BY PieceOfType DEF Dec!SegmentedPacket
<1>2. s.payloadSize + m.payloadLength \in Nat
        /\ (s.payloadSize + m.payloadLength) % LengthMod \in Dec!Length
  BY LengthModAssumption, SameNames DEF Dec!SegmentedPacket, MessageHeader, Length
<1>3. NextCounter(s.curSegment) \in Dec!Counter
  BY SameNames, NextCounterType DEF Dec!SegmentedPacket
<1>4. m.segmentType \in Dec!SegmentType
  BY SameNames DEF MessageHeader
<1>5. Dec!AddSegment(s, m) =
        [s EXCEPT !.payload = Append(@, piece),
                  !.payloadSize = @ + m.payloadLength,
                  !.payloadLength = (s.payloadSize + m.payloadLength) % LengthMod,
                  !.curSegment = NextCounter(@),
                  !.segmentType = m.segmentType]
  BY SameNames DEF Dec!AddSegment, PieceOf
<1> HIDE DEF piece
<1> QED
  BY <1>1, <1>2, <1>3, <1>4, <1>5 DEF Dec!SegmentedPacket, piece

LEMMA AssembledIs ==
    ASSUME NEW s \in Dec!SegmentedPacket, NEW f \in Frame,
           s.curVersion = f.version, s.curMessageType = f.messageType
    PROVE  LET p == Dec!AssembledPacket(s, f)
           IN  /\ p \in Dec!Packet
               /\ p.payload = s.payload
               /\ p.payloadLength = s.payloadLength
               /\ p.segmentFlags = "firstSegment"
<1>1. /\ s.payloadLength \in Dec!Length /\ s.payload \in Seq(Dec!Piece)
      /\ f.version \in Version /\ f.deviceId \in DeviceId /\ f.streamId \in StreamId
      /\ f.messageType \in MessageType /\ "firstSegment" \in Dec!SegmentType
  BY DEF Dec!SegmentedPacket, Frame, Dec!SegmentType
<1> QED
  BY <1>1 DEF Dec!AssembledPacket, Dec!Packet

LEMMA UnsegmentedIs ==
    ASSUME NEW m \in MessageHeader, NEW f \in Frame
    PROVE  LET p == Dec!UnsegmentedPacket(m, f)
           IN  /\ p \in Dec!Packet
               /\ p.payload = <<PieceOf(m, 0)>>
               /\ p.segmentFlags = m.segmentType
<1>1. <<PieceOf(m, 0)>> \in Seq(Dec!Piece)
  BY PieceOfType
<1>2. /\ m.payloadLength \in Dec!Length /\ m.segmentType \in Dec!SegmentType
      /\ f.version \in Version /\ f.deviceId \in DeviceId /\ f.streamId \in StreamId
      /\ f.messageType \in MessageType
  BY SameNames DEF MessageHeader, Frame
<1>3. Dec!UnsegmentedPacket(m, f) =
        [version |-> f.version, deviceId |-> f.deviceId, streamId |-> f.streamId,
         messageType |-> f.messageType, segmentFlags |-> m.segmentType,
         payloadLength |-> m.payloadLength, payload |-> <<PieceOf(m, 0)>>]
  BY DEF Dec!UnsegmentedPacket, PieceOf
<1> QED
  BY <1>1, <1>2, <1>3 DEF Dec!Packet

\* A turn of the loop that goes on past isValidPacket has a real message.
LEMMA LoopIs ==
    ASSUME DecTypes, Dec!InLoop, Dec!IsValidPacket(Dec!message, curSize)
    PROVE  /\ frame \in Frame /\ body # <<>> /\ body \in Seq(MessageHeader)
           /\ Dec!message = Head(body) /\ Dec!message \in MessageHeader
           /\ curSize \in Nat
<1>1. frame \in Frame /\ body \in Seq(MessageHeader) /\ curSize \in Nat
  BY DEF DecTypes, Dec!InLoop
<1>2. ~ Dec!IsValidPacket(Dec!Padding, curSize)
  BY DEF Dec!IsValidPacket, Dec!Padding
<1>3. body # <<>> /\ Dec!message = Head(body)
  BY <1>2 DEF Dec!message
<1> QED
  BY <1>1, <1>3

LEMMA DefaultIs ==
    /\ Dec!DefaultSegmentedPacket \in Dec!SegmentedPacket
    /\ Dec!DefaultSegmentedPacket.segmentType = "unsegmented"
BY CounterModAssumption, LengthModAssumption
   DEF Dec!DefaultSegmentedPacket, Dec!SegmentedPacket, Dec!SegmentType, Dec!Length, Dec!Counter

\* What a later segment is added to: the entry of the frame's endpoint.
LEMMA AddedTo ==
    ASSUME DecTypes, Dec!LaterSegment,
           Dec!CanAddSegment(Dec!At(segmentedPackets, Dec!endpoint), Dec!message, curSize, frame)
    PROVE  LET s == Dec!At(segmentedPackets, Dec!endpoint)
           IN  /\ Dec!endpoint \in DOMAIN segmentedPackets
               /\ s = segmentedPackets[Dec!endpoint]
               /\ s \in Dec!SegmentedPacket
               /\ s.curVersion = frame.version /\ s.curMessageType = frame.messageType
               /\ frame.sequenceCounter = s.curSegment + 1
<1> DEFINE s == Dec!At(segmentedPackets, Dec!endpoint)
<1>1. /\ s.curVersion = frame.version /\ s.curMessageType = frame.messageType
      /\ frame.sequenceCounter = s.curSegment + 1
      /\ Dec!message.segmentType \in Dec!ValidSegmentTypes(s.segmentType)
  BY DEF Dec!CanAddSegment
<1>2. Dec!message.segmentType \in {"intermediarySegment", "lastSegment"}
  BY DEF Dec!LaterSegment
<1>3. s.segmentType # "unsegmented"
  BY <1>1, <1>2 DEF Dec!ValidSegmentTypes
<1>4. Dec!endpoint \in DOMAIN segmentedPackets /\ s = segmentedPackets[Dec!endpoint]
  BY <1>3, DefaultIs DEF Dec!At
<1> QED
  BY <1>1, <1>4 DEF DecTypes, EntriesOK

LEMMA EntriesErased ==
    ASSUME EntriesOK(segmentedPackets), NEW e,
           segmentedPackets' = Dec!Erase(segmentedPackets, e)
    PROVE  /\ EntriesOK(segmentedPackets')
           /\ \A k \in DOMAIN segmentedPackets' :
                /\ k \in DOMAIN segmentedPackets
                /\ segmentedPackets'[k] = segmentedPackets[k]
BY DEF EntriesOK, Dec!Erase

LEMMA EntriesPut ==
    ASSUME EntriesOK(segmentedPackets), NEW e, NEW s \in Dec!SegmentedPacket,
           segmentedPackets' = Dec!Put(segmentedPackets, e, s)
    PROVE  /\ EntriesOK(segmentedPackets')
           /\ \A k \in DOMAIN segmentedPackets' :
                \/ segmentedPackets'[k] = s
                \/ /\ k \in DOMAIN segmentedPackets
                   /\ segmentedPackets'[k] = segmentedPackets[k]
BY DEF EntriesOK, Dec!Put

(***************************************************************************)
(* What a turn of decode()'s loop makes of message m: nothing, a packet,   *)
(* an entry, a longer entry, or a packet made of an entry.                 *)
(***************************************************************************)
TookNone ==
    /\ body' = <<>> /\ packets' = packets
    /\ segmentedPackets' = Dec!Erase(segmentedPackets, Dec!endpoint)

TookWhole(m, p) ==
    /\ m.segmentType = "unsegmented"
    /\ p \in Dec!Packet /\ p.payload = <<PieceOf(m, 0)>>
    /\ p.segmentFlags = "unsegmented"
    /\ body' = Tail(body) /\ packets' = Append(packets, p)
    /\ segmentedPackets' = Dec!Erase(segmentedPackets, Dec!endpoint)

TookFirst(m, s) ==
    /\ m.segmentType = "firstSegment"
    /\ curSize - MessageHeaderSize - m.payloadLength \in Nat
    /\ s \in Dec!SegmentedPacket
    /\ s.payload = <<PieceOf(m, curSize - MessageHeaderSize - m.payloadLength)>>
    /\ s.payloadSize = curSize - MessageHeaderSize
    /\ s.curSegment = frame.sequenceCounter
    /\ body' = <<>> /\ packets' = packets
    /\ segmentedPackets' = Dec!Put(segmentedPackets, Dec!endpoint, s)

\* The entry s that is added to.
Takes(s) ==
    /\ Dec!endpoint \in DOMAIN segmentedPackets
    /\ s = segmentedPackets[Dec!endpoint]
    /\ s \in Dec!SegmentedPacket
    /\ frame.sequenceCounter = s.curSegment + 1

TookNext(m, s, a) ==
    /\ m.segmentType = "intermediarySegment"
    /\ Takes(s)
    /\ a \in Dec!SegmentedPacket
    /\ a.payload = Append(s.payload, PieceOf(m, 0))
    /\ a.payloadSize = s.payloadSize + m.payloadLength
    /\ a.curSegment = NextCounter(s.curSegment)
    /\ body' = <<>> /\ packets' = packets
    /\ segmentedPackets' = Dec!Put(segmentedPackets, Dec!endpoint, a)

TookLast(m, s, p) ==
    /\ m.segmentType = "lastSegment"
    /\ Takes(s)
    /\ p \in Dec!Packet /\ p.payload = Append(s.payload, PieceOf(m, 0))
    /\ p.payloadLength = (s.payloadSize + m.payloadLength) % LengthMod
    /\ body' = <<>> /\ packets' = Append(packets, p)
    /\ segmentedPackets' = Dec!Erase(segmentedPackets, Dec!endpoint)

Took(m) ==
    \/ \E p : TookWhole(m, p)
    \/ \E s : TookFirst(m, s)
    \/ \E s, a : TookNext(m, s, a)
    \/ \E s, p : TookLast(m, s, p)

LEMMA TurnIs ==
    ASSUME DecTypes, Dec!Iterate
    PROVE  /\ DecTypes'
           /\ frame' = frame /\ frame \in Frame
           /\ \/ TookNone
              \/ /\ body # <<>> /\ Head(body) \in MessageHeader
                 /\ Took(Head(body))
<1> DEFINE m == Dec!message
           s == Dec!At(segmentedPackets, Dec!endpoint)
           added == Dec!AddSegment(s, m)
<1>1. /\ frame \in Frame \cup {NoFrame} /\ body \in Seq(MessageHeader)
      /\ curSize \in Nat /\ packets \in Seq(Dec!Packet) /\ EntriesOK(segmentedPackets)
  BY DEF DecTypes
<1>2. Dec!InLoop /\ frame \in Frame
  BY <1>1 DEF Dec!Iterate, Dec!DropInvalid, Dec!DecodeUnsegmented, Dec!StartAssembly,
              Dec!RejectSegment, Dec!ContinueAssembly, Dec!FinishAssembly,
              Dec!LaterSegment, Dec!InLoop
<1>3. ASSUME Dec!Break
      PROVE  /\ frame' = frame /\ body' = <<>> /\ curSize' = 0
             /\ body' \in Seq(MessageHeader) /\ curSize' \in Nat
  BY <1>3 DEF Dec!Break
<1>4. ASSUME frame' = frame, body' \in Seq(MessageHeader), curSize' \in Nat,
             packets' \in Seq(Dec!Packet), EntriesOK(segmentedPackets')
      PROVE  DecTypes'
  BY <1>1, <1>4 DEF DecTypes, EntriesOK
<1>5. CASE Dec!DropInvalid
  <2>1. EntriesOK(segmentedPackets') /\ Dec!Break /\ packets' = packets
          /\ segmentedPackets' = Dec!Erase(segmentedPackets, Dec!endpoint)
    BY <1>1, <1>5, EntriesErased DEF Dec!DropInvalid
  <2> QED
    BY <1>1, <1>2, <1>3, <1>4, <2>1 DEF TookNone
<1>6. CASE Dec!RejectSegment
  <2>1. EntriesOK(segmentedPackets') /\ Dec!Break /\ packets' = packets
          /\ segmentedPackets' = Dec!Erase(segmentedPackets, Dec!endpoint)
    BY <1>1, <1>6, EntriesErased DEF Dec!RejectSegment
  <2> QED
    BY <1>1, <1>2, <1>3, <1>4, <2>1 DEF TookNone
<1>7. CASE Dec!StartAssembly
  <2> DEFINE first == Dec!FirstSegment(m, curSize, frame)
  <2>1. m \in MessageHeader /\ body # <<>> /\ m = Head(body)
          /\ m.segmentType = "firstSegment"
    BY <1>7, LoopIs DEF Dec!StartAssembly
  <2>2. /\ first \in Dec!SegmentedPacket
        /\ first.payload = <<PieceOf(m, curSize - MessageHeaderSize - m.payloadLength)>>
        /\ first.payloadSize = curSize - MessageHeaderSize
        /\ first.curSegment = frame.sequenceCounter
    BY <1>1, <1>2, <1>7, <2>1, FirstSegmentIs DEF Dec!StartAssembly
  <2>3. Dec!Break /\ packets' = packets
          /\ segmentedPackets' = Dec!Put(segmentedPackets, Dec!endpoint, first)
    BY <1>7 DEF Dec!StartAssembly
  <2>4. curSize - MessageHeaderSize - m.payloadLength \in Nat
    BY <1>1, <1>7, <2>1, ValidIs DEF Dec!StartAssembly
  <2> HIDE DEF first, m
  <2>5. EntriesOK(segmentedPackets')
    BY <1>1, <2>2, <2>3, EntriesPut
  <2>6. TookFirst(m, first)
    BY <1>3, <2>1, <2>2, <2>3, <2>4 DEF TookFirst
  <2> QED
    BY <1>1, <1>2, <1>3, <1>4, <2>1, <2>3, <2>5, <2>6 DEF Took
<1>8. CASE Dec!ContinueAssembly
  <2>1. m \in MessageHeader /\ body # <<>> /\ m = Head(body)
    BY <1>8, LoopIs DEF Dec!ContinueAssembly, Dec!LaterSegment
  <2>2. Takes(s)
    BY <1>8, AddedTo DEF Dec!ContinueAssembly, Takes
  <2>3. /\ added \in Dec!SegmentedPacket
        /\ added.payload = Append(s.payload, PieceOf(m, 0))
        /\ added.payloadSize = s.payloadSize + m.payloadLength
        /\ added.curSegment = NextCounter(s.curSegment)
    BY <2>1, <2>2, AddSegmentIs DEF Takes
  <2>6. m.segmentType = "intermediarySegment"
    <3>1. added.segmentType = m.segmentType
      BY <2>2 DEF Dec!AddSegment, Dec!SegmentedPacket, Takes
    <3> QED
      BY <1>8, <3>1 DEF Dec!ContinueAssembly, Dec!LaterSegment
  <2>4. segmentedPackets' = Dec!Put(segmentedPackets, Dec!endpoint, added)
          /\ Dec!Break /\ packets' = packets
    BY <1>8 DEF Dec!ContinueAssembly
  <2> HIDE DEF added, m, s
  <2>5. EntriesOK(segmentedPackets')
    BY <1>1, <2>3, <2>4, EntriesPut
  <2>7. TookNext(m, s, added)
    BY <1>3, <2>2, <2>3, <2>4, <2>6 DEF TookNext
  <2> QED
    BY <1>1, <1>2, <1>3, <1>4, <2>1, <2>4, <2>5, <2>7 DEF Took
<1>9. CASE Dec!DecodeUnsegmented
  <2> DEFINE p == Dec!UnsegmentedPacket(m, frame)
  <2>1. m \in MessageHeader /\ body # <<>> /\ m = Head(body)
    BY <1>9, LoopIs DEF Dec!DecodeUnsegmented
  <2>2. /\ p \in Dec!Packet /\ p.payload = <<PieceOf(m, 0)>>
        /\ p.segmentFlags = "unsegmented" /\ m.segmentType = "unsegmented"
    BY <1>2, <1>9, <2>1, UnsegmentedIs DEF Dec!DecodeUnsegmented
  <2>4. /\ EntriesOK(segmentedPackets') /\ packets' = Append(packets, p)
        /\ body' = Tail(body) /\ frame' = frame
        /\ curSize' = curSize - (MessageHeaderSize + m.payloadLength)
        /\ segmentedPackets' = Dec!Erase(segmentedPackets, Dec!endpoint)
    BY <1>1, <1>9, EntriesErased, SameNames DEF Dec!DecodeUnsegmented
  <2>5. curSize' \in Nat
    <3>1. /\ m.payloadLength \in Nat
          /\ curSize - MessageHeaderSize - m.payloadLength \in Nat
      BY <1>1, <1>9, <2>1, ValidIs DEF Dec!DecodeUnsegmented
    <3> QED
      BY <1>1, <2>4, <3>1 DEF MessageHeaderSize
  <2> HIDE DEF p
  <2>6. packets' \in Seq(Dec!Packet) /\ body' \in Seq(MessageHeader)
    BY <1>1, <2>1, <2>2, <2>4
  <2> HIDE DEF m
  <2>7. TookWhole(m, p)
    BY <2>2, <2>4 DEF TookWhole
  <2> QED
    BY <1>1, <1>2, <1>4, <2>1, <2>4, <2>5, <2>6, <2>7 DEF Took
<1>10. CASE Dec!FinishAssembly
  <2> DEFINE p == Dec!AssembledPacket(added, frame)
  <2>1. m \in MessageHeader /\ body # <<>> /\ m = Head(body)
    BY <1>10, LoopIs DEF Dec!FinishAssembly, Dec!LaterSegment
  <2>2. Takes(s) /\ m.segmentType = "lastSegment"
          /\ s.curVersion = frame.version /\ s.curMessageType = frame.messageType
    <3>1. added.segmentType = m.segmentType
      BY <1>10, AddedTo DEF Dec!AddSegment, Dec!SegmentedPacket, Dec!FinishAssembly
    <3> QED
      BY <1>10, <3>1, AddedTo DEF Dec!FinishAssembly, Takes
  <2>3. /\ added \in Dec!SegmentedPacket
        /\ added.payload = Append(s.payload, PieceOf(m, 0))
        /\ added.payloadLength = (s.payloadSize + m.payloadLength) % LengthMod
        /\ added.curVersion = frame.version /\ added.curMessageType = frame.messageType
    BY <2>1, <2>2, AddSegmentIs DEF Takes
  <2>4. /\ packets' = Append(packets, p)
        /\ segmentedPackets' = Dec!Erase(segmentedPackets, Dec!endpoint)
        /\ Dec!Break
    BY <1>10 DEF Dec!FinishAssembly
  <2> HIDE DEF added
  <2>5. p \in Dec!Packet /\ p.payload = added.payload /\ p.payloadLength = added.payloadLength
    BY <1>2, <2>3, AssembledIs
  <2>6. EntriesOK(segmentedPackets')
    BY <1>1, <2>4, EntriesErased
  <2> HIDE DEF p, m, s
  <2>7. TookLast(m, s, p)
    BY <1>3, <2>2, <2>3, <2>4, <2>5 DEF TookLast
  <2>10. packets' \in Seq(Dec!Packet)
    BY <1>1, <2>4, <2>5
  <2> QED
    BY <1>2, <1>3, <1>4, <2>1, <2>4, <2>6, <2>7, <2>10 DEF Took
<1> QED
  BY <1>5, <1>6, <1>7, <1>8, <1>9, <1>10 DEF Dec!Iterate

(***************************************************************************)
(* The types of the link's own state.                                      *)
(***************************************************************************)
LinkTypes ==
    /\ DecTypes
    /\ frame = NoFrame => body = <<>>
    /\ network \in Seq(Frame)
    /\ decoded \in Seq(Dec!Packet)
    /\ sent \in Seq(PacketId)
    /\ epochOf \in [PacketId -> Nat]
    /\ restarts \in Nat
    /\ scenario \in Scenarios

LEMMA ConcatBehind ==
    ASSUME NEW S, NEW a \in Seq(S), NEW b \in Seq(S), NEW k \in 1 .. Len(b)
    PROVE  (a \o b)[Len(a) + k] = b[k]
OBVIOUS

LEMMA RemoveAtIs ==
    ASSUME NEW S, NEW s \in Seq(S), NEW i \in DOMAIN s
    PROVE  /\ RemoveAt(s, i) \in Seq(S)
           /\ Len(RemoveAt(s, i)) = Len(s) - 1
           /\ \A j \in 1 .. Len(s) - 1 :
                RemoveAt(s, i)[j] = IF j < i THEN s[j] ELSE s[j + 1]
<1>1. i \in 1 .. Len(s) /\ Len(s) \in Nat
  OBVIOUS
<1>2. /\ SubSeq(s, 1, i - 1) \in Seq(S) /\ Len(SubSeq(s, 1, i - 1)) = i - 1
      /\ \A j \in 1 .. i - 1 : SubSeq(s, 1, i - 1)[j] = s[j]
  BY <1>1
<1>3. /\ SubSeq(s, i + 1, Len(s)) \in Seq(S)
      /\ Len(SubSeq(s, i + 1, Len(s))) = Len(s) - i
      /\ \A j \in 1 .. Len(s) - i : SubSeq(s, i + 1, Len(s))[j] = s[i + j]
  BY <1>1
<1>4. RemoveAt(s, i) = SubSeq(s, 1, i - 1) \o SubSeq(s, i + 1, Len(s))
  BY DEF RemoveAt
<1> DEFINE a == SubSeq(s, 1, i - 1)
           b == SubSeq(s, i + 1, Len(s))
           r == RemoveAt(s, i)
<1> HIDE DEF a, b, r
<1>5. /\ r = a \o b
      /\ a \in Seq(S) /\ b \in Seq(S) /\ Len(a) = i - 1 /\ Len(b) = Len(s) - i
      /\ \A j \in 1 .. i - 1 : a[j] = s[j]
  BY <1>2, <1>3, <1>4 DEF a, b, r
<1>8. \A x \in 1 .. Len(s) - i : b[x] = s[i + x]
  BY <1>3 DEF b
<1>6. r \in Seq(S) /\ Len(r) = Len(s) - 1
  BY <1>1, <1>5
<1>7. ASSUME NEW j \in 1 .. Len(s) - 1
      PROVE  r[j] = IF j < i THEN s[j] ELSE s[j + 1]
  <2>0. i \in Nat /\ i >= 1 /\ i <= Len(s) /\ j \in Nat /\ j >= 1 /\ j <= Len(s) - 1
    BY ONLY <1>1, <1>7
  <2>1. CASE j < i
    <3>1. j \in 1 .. i - 1
      BY ONLY <2>0, <2>1
    <3>2. r[j] = a[j]
      BY ONLY <1>5, <3>1
    <3> QED
      BY <1>5, <2>1, <3>1, <3>2
  <2>2. CASE ~ (j < i)
    <3> DEFINE k == j - (i - 1)
    <3>1. k \in 1 .. Len(s) - i /\ i + k = j + 1 /\ j = (i - 1) + k
      BY ONLY <1>1, <2>0, <2>2
    <3> HIDE DEF k
    <3>2. r[(i - 1) + k] = b[k]
      <4>1. k \in 1 .. Len(b)
        BY Zenon, <1>5, <3>1
      <4>2. (a \o b)[Len(a) + k] = b[k]
        <5>1. a \in Seq(S) /\ b \in Seq(S)
          BY <1>5
        <5> QED
          BY ONLY <4>1, <5>1, ConcatBehind
      <4> QED
        BY Zenon, <1>5, <4>2
    <3>3. b[k] = s[i + k]
      BY <1>8, <3>1
    <3> QED
      BY <2>2, <3>1, <3>2, <3>3
  <2> QED
    BY <2>1, <2>2
<1> QED
  BY <1>6, <1>7 DEF r
-----------------------------------------------------------------------------
(***************************************************************************)
(* The steps of the link: the encoder's, the network's and the decoder's.  *)
(***************************************************************************)

\* A step of the link is one of the encoder's, or leaves it alone.
LEMMA EncoderStep ==
    ASSUME scenario \in Scenarios, [LinkNext]_linkVars
    PROVE  [Next]_vars
<1>1. CASE CallEncode
  <2>1. PICK r \in scenario.requests, context \in scenario.contexts : BeginEncode(r, context)
    BY <1>1 DEF CallEncode
  <2>2. r \in Requests /\ context \in DataContexts
    BY ScenariosAssumption DEF Scenario
  <2> QED
    BY <2>1, <2>2 DEF Next, Call
<1>2. CASE Reconfigure
  BY <1>2 DEF Reconfigure, Next
<1>3. CASE Encode
  BY <1>3 DEF Encode, Next, Run
<1>4. CASE SendFrames
  BY <1>4 DEF SendFrames, Next, Run
<1>5. CASE UNCHANGED vars
  BY <1>5
<1> QED
  BY <1>1, <1>2, <1>3, <1>4, <1>5
     DEF LinkNext, Deliver, Decode, ReturnPackets, Lose, Duplicate, linkVars

\* A datagram leaves the network and is passed to decode().
LEMMA DeliverIs ==
    ASSUME Deliver
    PROVE  \E i \in DOMAIN network :
             /\ scenario.reordering \/ i = 1
             /\ network' = RemoveAt(network, i)
             /\ frame = NoFrame /\ packets' = <<>>
             /\ UNCHANGED segmentedPackets
             /\ \/ UNCHANGED <<frame, body, curSize>>
                \/ /\ frame' = network[i] /\ body' = network[i].body
                   /\ network[i].size >= CmpHeaderSize
                   /\ curSize' = network[i].size - CmpHeaderSize
BY SameNames DEF Deliver, Dec!Receive, Dec!IgnoreShort, Dec!RouteToTecmp, Dec!Decode

LEMMA InsertAtIs ==
    ASSUME NEW S, NEW s \in Seq(S), NEW i \in DOMAIN s
    PROVE  /\ InsertAt(s, i, s[i]) \in Seq(S)
           /\ ToSet(InsertAt(s, i, s[i])) \subseteq ToSet(s)
<1>1. i \in 1 .. Len(s) /\ Len(s) \in Nat /\ s[i] \in S
  OBVIOUS
<1> DEFINE a == SubSeq(s, 1, i - 1)
           b == SubSeq(s, i, Len(s))
           r == InsertAt(s, i, s[i])
<1>2. /\ a \in Seq(S) /\ Len(a) = i - 1
      /\ \A j \in 1 .. i - 1 : a[j] = s[j]
  BY <1>1
<1>3. b \in Seq(S) /\ Len(b) = Len(s) - i + 1
  BY <1>1
<1>4. \A j \in 1 .. Len(s) - i + 1 : b[j] = s[i + j - 1]
  BY <1>1
<1>5. r = a \o <<s[i]>> \o b
  BY DEF InsertAt
<1> HIDE DEF a, b, r
<1> DEFINE c == a \o <<s[i]>>
<1>c. c \in Seq(S) /\ Len(c) = i /\ c[i] = s[i] /\ \A j \in 1 .. i - 1 : c[j] = a[j]
  BY <1>1, <1>2
<1>d. r = c \o b
  BY <1>5
<1> HIDE DEF c
<1>6. r \in Seq(S) /\ Len(r) = Len(s) + 1
  <2>1. c \in Seq(S) /\ b \in Seq(S) /\ Len(c) + Len(b) = Len(s) + 1
    BY <1>1, <1>3, <1>c
  <2>2. (c \o b) \in Seq(S) /\ Len(c \o b) = Len(c) + Len(b)
    BY ONLY <2>1
  <2> QED
    BY <1>d, <2>1, <2>2
<1>e. \A j \in 1 .. i : r[j] = c[j]
  BY ONLY <1>1, <1>3, <1>c, <1>d
<1>7. ASSUME NEW j \in 1 .. Len(r) PROVE r[j] \in ToSet(s)
  <2>0. /\ i \in Nat /\ j \in Nat /\ 1 <= j /\ j <= Len(s) + 1 /\ 1 <= i /\ i <= Len(s)
    BY <1>1, <1>6
  <2>1. CASE j < i
    <3>1. j \in 1 .. i - 1 /\ j \in DOMAIN s
      BY <1>1, <2>0, <2>1
    <3>2. r[j] = s[j]
      BY <1>1, <1>2, <1>c, <1>e, <3>1
    <3> QED
      BY <3>1, <3>2 DEF ToSet
  <2>2. CASE j = i
    <3>1. r[j] = s[i]
      BY <1>1, <1>c, <1>e, <2>2
    <3> QED
      BY <3>1 DEF ToSet
  <2>3. CASE j > i
    <3>1. j - i \in 1 .. Len(s) - i + 1 /\ j - 1 \in DOMAIN s /\ i + (j - i) - 1 = j - 1
      BY <1>1, <2>0, <2>3
    <3>2. r[j] = b[j - i]
      <4>2. j - i \in 1 .. Len(b) /\ i + (j - i) = j
        BY <1>3, <2>0, <3>1
      <4>3. (c \o b)[Len(c) + (j - i)] = b[j - i]
        <5>1. c \in Seq(S) /\ b \in Seq(S)
          BY <1>3, <1>c
        <5> QED
          BY ONLY <4>2, <5>1, ConcatBehind
      <4> QED
        BY <1>c, <1>d, <4>2, <4>3
    <3> QED
      BY <1>4, <3>1, <3>2 DEF ToSet
  <2> QED
    BY <2>0, <2>1, <2>2, <2>3
<1>8. ToSet(r) \subseteq ToSet(s)
  BY <1>6, <1>7 DEF ToSet
<1> QED
  BY <1>6, <1>8 DEF r

\* What is taken off the network was on it.
LEMMA RemovedIs ==
    ASSUME NEW S, NEW s \in Seq(S), NEW i \in DOMAIN s
    PROVE  ToSet(RemoveAt(s, i)) \subseteq ToSet(s)
<1> DEFINE r == RemoveAt(s, i)
<1>1. r \in Seq(S) /\ Len(r) = Len(s) - 1
      /\ \A j \in 1 .. Len(s) - 1 : r[j] = IF j < i THEN s[j] ELSE s[j + 1]
  BY RemoveAtIs
<1> HIDE DEF r
<1>2. \A j \in 1 .. Len(r) : j \in DOMAIN s /\ j + 1 \in DOMAIN s
  BY <1>1
<1>3. \A j \in 1 .. Len(r) : r[j] = s[j] \/ r[j] = s[j + 1]
  BY <1>1
<1>4. ASSUME NEW j \in DOMAIN r PROVE r[j] \in ToSet(s)
  <2>1. j \in 1 .. Len(r)
    BY <1>1
  <2> QED
    BY <1>2, <1>3, <2>1 DEF ToSet
<1>5. ToSet(r) \subseteq ToSet(s)
  BY <1>4 DEF ToSet
<1> QED
  BY <1>5 DEF r

LEMMA ConcatIs ==
    ASSUME NEW S, NEW a \in Seq(S), NEW b \in Seq(S)
    PROVE  /\ a \o b \in Seq(S)
           /\ Len(a \o b) = Len(a) + Len(b)
           /\ \A i \in 1 .. Len(a) : (a \o b)[i] = a[i]
           /\ \A k \in 1 .. Len(b) : (a \o b)[Len(a) + k] = b[k]
OBVIOUS

LEMMA RequestedIs ==
    ASSUME NEW r \in Seq(Packets)
    PROVE  LET ids == [i \in DOMAIN r |-> r[i].id]
           IN  /\ ids \in Seq(PacketId) /\ Len(ids) = Len(r)
               /\ \A i \in 1 .. Len(r) : ids[i] = r[i].id
<1>1. \A i \in 1 .. Len(r) : r[i].id \in PacketId
  BY PacketsAssumption DEF Packet
<1>2. DOMAIN r = 1 .. Len(r) /\ Len(r) \in Nat
  OBVIOUS
<1> QED
  BY <1>1, <1>2

LEMMA LinkTypesInit == LinkInit => LinkTypes
<1> SUFFICES ASSUME LinkInit PROVE LinkTypes
  OBVIOUS
<1>1. /\ frame = NoFrame /\ body = <<>> /\ curSize = 0 /\ packets = <<>>
      /\ EntriesOK(segmentedPackets)
  BY DEF LinkInit, Dec!Init, EntriesOK
<1>2. DecTypes
  BY <1>1 DEF DecTypes
<1>3. /\ network = <<>> /\ decoded = <<>> /\ sent = <<>>
      /\ epochOf = [id \in PacketId |-> 0] /\ restarts = 0 /\ scenario \in Scenarios
  BY DEF LinkInit
<1> QED
  BY <1>1, <1>2, <1>3 DEF LinkTypes

LEMMA LinkTypesStep ==
    ASSUME LinkTypes, IInv', [LinkNext]_linkVars
    PROVE  LinkTypes'
<1>1. /\ DecTypes
      /\ network \in Seq(Frame) /\ decoded \in Seq(Dec!Packet) /\ sent \in Seq(PacketId)
      /\ epochOf \in [PacketId -> Nat] /\ restarts \in Nat /\ scenario \in Scenarios
  BY DEF LinkTypes
<1>a. (frame = NoFrame => body = <<>>)
  BY DEF LinkTypes
<1>b. /\ frame \in Frame \cup {NoFrame} /\ body \in Seq(MessageHeader)
      /\ curSize \in Nat /\ packets \in Seq(Dec!Packet) /\ EntriesOK(segmentedPackets)
  BY <1>1 DEF DecTypes
<1>c. ASSUME UNCHANGED decVars
      PROVE  DecTypes' /\ (frame' = NoFrame => body' = <<>>)
  BY <1>a, <1>b, <1>c DEF DecTypes, EntriesOK, decVars
<1>2. CASE CallEncode
  <2>1. PICK r \in scenario.requests :
          /\ sent' = sent \o [i \in DOMAIN r |-> r[i].id]
          /\ epochOf' = [id \in PacketId |->
                IF \E i \in DOMAIN r : r[i].id = id THEN restarts ELSE epochOf[id]]
    BY <1>2 DEF CallEncode
  <2>2. r \in Seq(Packets)
    BY <1>1, ScenariosAssumption, RequestsAssumption DEF Scenario
  <2>3. sent' \in Seq(PacketId)
    BY <1>1, <2>1, <2>2, RequestedIs
  <2>4. epochOf' \in [PacketId -> Nat]
    BY <1>1, <2>1
  <2> QED
    BY <1>1, <1>2, <1>c, <2>3, <2>4 DEF CallEncode, LinkTypes
<1>3. CASE Reconfigure
  BY <1>1, <1>3, <1>c DEF Reconfigure, LinkTypes, histVars
<1>4. CASE Encode
  BY <1>1, <1>4, <1>c DEF Encode, LinkTypes, histVars
<1>5. CASE SendFrames
  <2>1. network' \in Seq(Frame)
    BY <1>1, <1>5 DEF SendFrames, IInv, TypeOK
  <2> QED
    BY <1>1, <1>5, <1>c, <2>1 DEF SendFrames, LinkTypes, histVars
<1>6. CASE Deliver
  <2>1. PICK i \in DOMAIN network :
             /\ network' = RemoveAt(network, i)
             /\ frame = NoFrame /\ packets' = <<>>
             /\ UNCHANGED segmentedPackets
             /\ \/ UNCHANGED <<frame, body, curSize>>
                \/ /\ frame' = network[i] /\ body' = network[i].body
                   /\ network[i].size >= CmpHeaderSize
                   /\ curSize' = network[i].size - CmpHeaderSize
    BY <1>6, DeliverIs
  <2>2. network' \in Seq(Frame) /\ network[i] \in Frame
    BY <1>1, <2>1, RemoveAtIs
  <2>3. network[i].size \in Nat /\ network[i].body \in Seq(MessageHeader)
    BY <2>2 DEF Frame
  <2>4. /\ frame' \in Frame \cup {NoFrame} /\ body' \in Seq(MessageHeader)
        /\ curSize' \in Nat /\ packets' \in Seq(Dec!Packet)
        /\ (frame' = NoFrame => body' = <<>>)
    <3>1. CASE UNCHANGED <<frame, body, curSize>>
      BY <1>a, <1>b, <2>1, <3>1
    <3>2. CASE /\ frame' = network[i] /\ body' = network[i].body
               /\ network[i].size >= CmpHeaderSize
               /\ curSize' = network[i].size - CmpHeaderSize
      BY <2>1, <2>2, <2>3, <3>2, NoFrameAssumption DEF CmpHeaderSize
    <3> QED
      BY <2>1, <3>1, <3>2
  <2>5. EntriesOK(segmentedPackets')
    BY <1>b, <2>1 DEF EntriesOK
  <2> QED
    BY <1>1, <1>6, <2>2, <2>4, <2>5 DEF Deliver, LinkTypes, histVars, DecTypes, EntriesOK
<1>7. CASE Decode
  <2>1. DecTypes' /\ frame' = frame /\ frame \in Frame
    BY <1>1, <1>7, TurnIs DEF Decode
  <2> QED
    BY <1>1, <1>7, <2>1, NoFrameAssumption DEF Decode, LinkTypes, histVars
<1>8. CASE ReturnPackets
  <2>1. /\ frame' = NoFrame /\ body' = <<>> /\ UNCHANGED <<segmentedPackets, curSize, packets>>
        /\ decoded' = decoded \o packets
    BY <1>8 DEF ReturnPackets, Dec!Return
  <2>2. decoded' \in Seq(Dec!Packet)
    BY <1>1, <1>b, <2>1
  <2>3. DecTypes' /\ (frame' = NoFrame => body' = <<>>)
    BY <1>b, <2>1 DEF DecTypes, EntriesOK
  <2> QED
    BY <1>1, <1>8, <2>2, <2>3 DEF ReturnPackets, LinkTypes, histVars
<1>9. CASE Lose
  <2>1. network' \in Seq(Frame)
    BY <1>1, <1>9, RemoveAtIs DEF Lose
  <2> QED
    BY <1>1, <1>9, <1>c, <2>1 DEF Lose, LinkTypes, histVars
<1>10. CASE Duplicate
  <2>1. network' \in Seq(Frame)
    BY <1>1, <1>10, InsertAtIs DEF Duplicate
  <2> QED
    BY <1>1, <1>10, <1>c, <2>1 DEF Duplicate, LinkTypes, histVars
<1>11. CASE UNCHANGED linkVars
  BY <1>1, <1>11, <1>c DEF linkVars, LinkTypes, histVars
<1> QED
  BY <1>2, <1>3, <1>4, <1>5, <1>6, <1>7, <1>8, <1>9, <1>10, <1>11 DEF LinkNext

-----------------------------------------------------------------------------
Running == pc \in {"packet", "loop"}

\* How many of the packets passed to encode() are in frames that were sent.
Finished == IF Running THEN Len(sent) - Len(request) ELSE Len(sent)

(***************************************************************************)
(* No packet is encoded twice; the last ones are the running call's, and   *)
(* the counter has not been reset since it began.                          *)
(***************************************************************************)
SentInv ==
    /\ \A i, j \in DOMAIN sent : sent[i] = sent[j] => i = j
    /\ Running => Len(request) <= Len(sent)
    /\ Running => \A j \in DOMAIN request :
                    /\ sent[Len(sent) - Len(request) + j] = request[j].id
                    /\ epochOf[request[j].id] = restarts

\* What is remembered stays, and what is behind the encoder stays behind it.
Remembered ==
    /\ Finished' >= Finished
    /\ Len(sent') >= Len(sent)
    /\ \A i \in 1 .. Len(sent) : sent'[i] = sent[i]
    /\ \A i \in 1 .. Len(sent) : epochOf'[sent[i]] = epochOf[sent[i]]
    /\ restarts' >= restarts

LEMMA SentInvInit == LinkInit => SentInv
BY DEF LinkInit, Init, SentInv, Running

LEMMA SentStep ==
    ASSUME LinkTypes, IInv, SentInv, [LinkNext]_linkVars
    PROVE  SentInv' /\ Remembered
<1>1. /\ sent \in Seq(PacketId) /\ Len(sent) \in Nat /\ DOMAIN sent = 1 .. Len(sent)
      /\ epochOf \in [PacketId -> Nat] /\ restarts \in Nat /\ scenario \in Scenarios
      /\ request \in Seq(Packet) /\ Len(request) \in Nat
  BY DEF LinkTypes, IInv, TypeOK
<1>2. CASE CallEncode
  <2>1. PICK r \in scenario.requests :
          /\ \A i \in DOMAIN r : r[i].id \notin ToSet(sent)
          /\ \A i, j \in DOMAIN r : r[i].id = r[j].id => i = j
          /\ pc = "idle" /\ pc' = "packet" /\ request' = r
          /\ sent' = sent \o [i \in DOMAIN r |-> r[i].id]
          /\ epochOf' = [id \in PacketId |->
                IF \E i \in DOMAIN r : r[i].id = id THEN restarts ELSE epochOf[id]]
    BY <1>2 DEF CallEncode, BeginEncode
  <2>2. r \in Seq(Packets) /\ Len(r) \in Nat /\ DOMAIN r = 1 .. Len(r)
    BY <1>1, ScenariosAssumption, RequestsAssumption DEF Scenario
  <2> DEFINE ids == [i \in DOMAIN r |-> r[i].id]
             n == Len(sent)
  <2>3. /\ ids \in Seq(PacketId) /\ Len(ids) = Len(r)
        /\ \A i \in 1 .. Len(r) : ids[i] = r[i].id
    BY <2>2, RequestedIs
  <2>4. sent' = sent \o ids
    BY <2>1
  <2> HIDE DEF ids
  <2>5. /\ Len(sent') = n + Len(r) /\ DOMAIN sent' = 1 .. n + Len(r)
        /\ \A i \in 1 .. n : sent'[i] = sent[i]
        /\ \A j \in 1 .. Len(r) : sent'[n + j] = r[j].id
    <3>1. /\ Len(sent \o ids) = Len(sent) + Len(ids) /\ (sent \o ids) \in Seq(PacketId)
          /\ \A i \in 1 .. Len(sent) : (sent \o ids)[i] = sent[i]
          /\ \A k \in 1 .. Len(ids) : (sent \o ids)[Len(sent) + k] = ids[k]
      <4>1. sent \in Seq(PacketId) /\ ids \in Seq(PacketId)
        BY <1>1, <2>3
      <4> QED
        BY ONLY <4>1, ConcatIs
    <3>2. \A k \in 1 .. Len(r) : sent'[n + k] = r[k].id
      BY <2>3, <2>4, <3>1
    <3>3. DOMAIN (sent \o ids) = 1 .. Len(sent \o ids)
      BY <3>1
    <3> QED
      BY <2>3, <2>4, <3>1, <3>2, <3>3
  <2>6. \A i \in 1 .. n, j \in 1 .. Len(r) : sent[i] # r[j].id
    BY <1>1, <2>1, <2>2 DEF ToSet
  <2>7. \A i, j \in DOMAIN sent' : sent'[i] = sent'[j] => i = j
    <3> SUFFICES ASSUME NEW i \in 1 .. n + Len(r), NEW j \in 1 .. n + Len(r),
                        sent'[i] = sent'[j]
                 PROVE  i = j
      BY <2>5
    <3>1. i \in 1 .. n \/ (i - n \in 1 .. Len(r) /\ i = n + (i - n))
      BY <1>1, <2>2
    <3>2. j \in 1 .. n \/ (j - n \in 1 .. Len(r) /\ j = n + (j - n))
      BY <1>1, <2>2
    <3>3. CASE i \in 1 .. n /\ j \in 1 .. n
      BY <1>1, <2>5, <3>3 DEF SentInv
    <3>4. CASE i \in 1 .. n /\ j - n \in 1 .. Len(r) /\ j = n + (j - n)
      <4>1. sent'[i] = sent[i] /\ sent'[j] = r[j - n].id
        BY <2>5, <3>4
      <4> QED
        BY <2>6, <3>4, <4>1
    <3>5. CASE i - n \in 1 .. Len(r) /\ i = n + (i - n) /\ j \in 1 .. n
      <4>1. sent'[j] = sent[j] /\ sent'[i] = r[i - n].id
        BY <2>5, <3>5
      <4> QED
        BY <2>6, <3>5, <4>1
    <3>6. CASE /\ i - n \in 1 .. Len(r) /\ i = n + (i - n)
               /\ j - n \in 1 .. Len(r) /\ j = n + (j - n)
      <4>1. r[i - n].id = r[j - n].id
        BY <2>5, <3>6
      <4>2. i - n = j - n
        BY <2>1, <2>2, <3>6, <4>1
      <4> QED
        BY <1>1, <4>2
    <3> QED
      BY <3>1, <3>2, <3>3, <3>4, <3>5, <3>6
  <2>8. \A j \in 1 .. Len(r) : r[j].id \in PacketId /\ epochOf'[r[j].id] = restarts
    <3>1. \A j \in 1 .. Len(r) : r[j].id \in PacketId
      BY <2>2, PacketsAssumption DEF Packet
    <3> QED
      BY <2>1, <2>2, <3>1
  <2>9. restarts' = restarts
    BY <1>2 DEF CallEncode
  <2>10. SentInv'
    <3>1. Len(request') = Len(r) /\ DOMAIN request' = 1 .. Len(r)
            /\ Len(sent') - Len(request') = n /\ Len(request') <= Len(sent')
      BY <1>1, <2>1, <2>2, <2>5
    <3>2. \A j \in DOMAIN request' :
                    /\ sent'[Len(sent') - Len(request') + j] = request'[j].id
                    /\ epochOf'[request'[j].id] = restarts'
      BY <2>1, <2>5, <2>8, <2>9, <3>1
    <3> QED
      BY <2>7, <3>1, <3>2 DEF SentInv
  <2>11. Finished = n /\ Finished' = n
    <3>1. ~ Running /\ Running'
      BY <2>1 DEF Running
    <3>2. Len(sent') - Len(request') = n
      BY <1>1, <2>1, <2>2, <2>5
    <3> QED
      BY <3>1, <3>2 DEF Finished
  <2>12. \A i \in 1 .. n : epochOf'[sent[i]] = epochOf[sent[i]]
    <3>1. \A i \in 1 .. n : sent[i] \in PacketId
      BY <1>1
    <3> QED
      BY <2>1, <2>2, <2>6, <3>1
  <2> QED
    BY <1>1, <2>2, <2>5, <2>9, <2>10, <2>11, <2>12 DEF Remembered
<1>3. CASE ~ CallEncode
  <2>1. UNCHANGED <<sent, epochOf>>
    BY <1>3 DEF LinkNext, linkVars, histVars, Reconfigure, Encode, SendFrames, Deliver,
                Decode, ReturnPackets, Lose, Duplicate
  <2>2. request' = request /\ (Running' => Running)
    <3>1. CASE Reconfigure
      BY <3>1 DEF Reconfigure, Configure, SetDeviceId, SetStreamId, Restart, Running
    <3>2. CASE Encode
      BY <3>2 DEF Encode, Step, StartPacket, PutSegment, FinishPacket, ReturnUndefined, Running
    <3>3. CASE SendFrames
      BY <3>3 DEF SendFrames, ReturnFrames, Running
    <3>4. CASE UNCHANGED vars
      BY <3>4 DEF vars, Running
    <3> QED
      BY <1>3, <3>1, <3>2, <3>3, <3>4
         DEF LinkNext, Deliver, Decode, ReturnPackets, Lose, Duplicate, linkVars
  <2>3. restarts' = restarts \/ (restarts' = restarts + 1 /\ ~ Running')
    <3>1. CASE Reconfigure
      BY <3>1 DEF Reconfigure, Configure, SetDeviceId, SetStreamId, Restart, Running
    <3> QED
      BY <1>3, <3>1 DEF LinkNext, Encode, SendFrames, Deliver, Decode, ReturnPackets,
                        Lose, Duplicate, linkVars
  <2>4. SentInv'
    BY <2>1, <2>2, <2>3 DEF SentInv
  <2>5. Finished' >= Finished
    <3>1. Running => Finished = Len(sent) - Len(request) /\ Len(request) <= Len(sent)
      BY DEF Finished, SentInv
    <3>2. ~ Running' => Finished' = Len(sent)
      BY <2>1 DEF Finished
    <3>3. Running' => Finished' = Len(sent) - Len(request)
      BY <2>1, <2>2 DEF Finished
    <3>4. ~ Running => Finished = Len(sent)
      BY DEF Finished
    <3> QED
      BY <1>1, <2>2, <3>1, <3>2, <3>3, <3>4
  <2> QED
    BY <1>1, <2>1, <2>3, <2>4, <2>5 DEF Remembered
<1> QED
  BY <1>2, <1>3
-----------------------------------------------------------------------------
(***************************************************************************)
(* Everything that is on the way or in the decoder was put by the encoder. *)
(***************************************************************************)

(***************************************************************************)
(* Payload bytes d are of a packet of the application, which is in frames  *)
(* that were sent.                                                         *)
(***************************************************************************)
LengthIs(d) == \E p \in Packets : p.id = d.packet /\ p.payloadLength = d.whole
SentBy(d) == \E i \in 1 .. Finished : sent[i] = d.packet

Known(m) == InPayload(m) /\ LengthIs(m.data) /\ SentBy(m.data)

KnownFrame(f) == \A k \in DOMAIN f.body : Known(f.body[k])

KnownPieces(pieces) ==
    /\ pieces # <<>>
    /\ \A k \in DOMAIN pieces : LengthIs(pieces[k].data) /\ SentBy(pieces[k].data)

\* The frames on the way and in the decoder.
Flying == ToSet(network) \cup (IF frame = NoFrame THEN {} ELSE {frame})

Entries == {segmentedPackets[e] : e \in DOMAIN segmentedPackets}

(***************************************************************************)
(* Everything the network and the decoder hold was put by the encoder.     *)
(***************************************************************************)
KnownInv ==
    /\ \A f \in Flying : KnownFrame(f)
    /\ \A m \in ToSet(body) : Known(m)
    /\ \A s \in Entries : KnownPieces(s.payload)
    /\ \A p \in ToSet(Decoded) : KnownPieces(p.payload)

LinkInv == LinkTypes /\ IInv /\ OrderInv /\ SentInv /\ KnownInv

LEMMA FinishedIs ==
    ASSUME LinkTypes, IInv, SentInv
    PROVE  /\ Finished \in Nat /\ Finished <= Len(sent)
           /\ sent \in Seq(PacketId) /\ Len(sent) \in Nat /\ DOMAIN sent = 1 .. Len(sent)
           /\ request \in Seq(Packets) /\ Len(request) \in Nat
           /\ DOMAIN request = 1 .. Len(request)
<1>1. /\ sent \in Seq(PacketId) /\ request \in Seq(Packets)
  BY DEF LinkTypes, IInv
<1>2. Len(sent) \in Nat /\ Len(request) \in Nat /\ DOMAIN sent = 1 .. Len(sent)
        /\ DOMAIN request = 1 .. Len(request)
  BY <1>1
<1>3. Running => Len(request) <= Len(sent)
  BY DEF SentInv
<1> QED
  BY <1>1, <1>2, <1>3 DEF Finished

LEMMA SentStays ==
    ASSUME LinkTypes, IInv, SentInv, LinkTypes', IInv', SentInv', Remembered
    PROVE  /\ \A d : SentBy(d) => SentBy(d)'
           /\ \A m : Known(m) => Known(m)'
           /\ \A f : KnownFrame(f) => KnownFrame(f)'
           /\ \A s : KnownPieces(s) => KnownPieces(s)'
<1>1. /\ Finished \in Nat /\ Finished <= Len(sent) /\ Len(sent) \in Nat
      /\ Finished' >= Finished
      /\ \A i \in 1 .. Len(sent) : sent'[i] = sent[i]
  BY FinishedIs DEF Remembered
<1>a. Finished' \in Nat
  <2>1. Finished' = IF Running' THEN Len(sent') - Len(request') ELSE Len(sent')
    BY DEF Finished
  <2>2. Len(sent') \in Nat /\ Len(request') \in Nat
    BY DEF LinkTypes, IInv, TypeOK
  <2>3. Running' => Len(request') <= Len(sent')
    BY DEF SentInv
  <2> QED
    BY <2>1, <2>2, <2>3
<1>2. ASSUME NEW d, SentBy(d) PROVE SentBy(d)'
  <2>1. PICK i \in 1 .. Finished : sent[i] = d.packet
    BY <1>2 DEF SentBy
  <2>2. i \in 1 .. Finished' /\ i \in 1 .. Len(sent)
    BY <1>1, <1>a
  <2>3. sent'[i] = d.packet
    BY <1>1, <2>1, <2>2
  <2> QED
    BY <2>2, <2>3 DEF SentBy
<1>3. ASSUME NEW m, Known(m) PROVE Known(m)'
  BY <1>2, <1>3 DEF Known, InPayload, LengthIs
<1>4. ASSUME NEW f, KnownFrame(f) PROVE KnownFrame(f)'
  BY <1>3, <1>4 DEF KnownFrame
<1>5. ASSUME NEW s, KnownPieces(s) PROVE KnownPieces(s)'
  BY <1>2, <1>5 DEF KnownPieces, LengthIs
<1> QED
  BY <1>2, <1>3, <1>4, <1>5

\* What encode() has put is known once its frames are sent.
LEMMA SendKnown ==
    ASSUME LinkInv, SendFrames
    PROVE  /\ frames' = ClosedFrames(enc) /\ frames' \in Seq(Frame)
           /\ \A m \in ToSet(Written(enc)) : Known(m)'
           /\ \A f \in ToSet(frames') : KnownFrame(f)'
<1>1. /\ IInv /\ OrderInv /\ SentInv /\ LinkTypes
      /\ pc = "packet" /\ pc' = "idle" /\ frames' = ClosedFrames(enc)
      /\ UNCHANGED <<sent, request>>
  BY DEF LinkInv, SendFrames, ReturnFrames, histVars
<1>2. enc \in EncoderState /\ OpenFrame(enc)
  BY <1>1 DEF IInv, Sound
<1>3. frames' \in Seq(Frame) /\ Messages(frames') = Written(enc)
  BY <1>1, <1>2, ClosedFramesHold, MessagesClosed
<1>4. Finished' = Len(sent)
  BY <1>1 DEF Finished, Running
<1>5. ASSUME NEW m \in ToSet(Written(enc)) PROVE Known(m)'
  <2>1. InPayload(m) /\ Placed(m)
    BY <1>1 DEF OrderInv
  <2>2. PICK j \in DOMAIN request :
          m.data.packet = request[j].id /\ m.data.whole = request[j].payloadLength
    BY <2>1 DEF Placed
  <2>3. /\ sent \in Seq(PacketId) /\ Len(sent) \in Nat
        /\ request \in Seq(Packets) /\ Len(request) \in Nat
        /\ DOMAIN request = 1 .. Len(request)
    BY <1>1, FinishedIs
  <2>4. Len(request) <= Len(sent) /\ sent[Len(sent) - Len(request) + j] = request[j].id
    BY <1>1 DEF SentInv, Running
  <2>5. Len(sent) - Len(request) + j \in 1 .. Len(sent)
    BY <2>3, <2>4
  <2>6. request[j] \in Packets
    BY <2>3
  <2>7. LengthIs(m.data)
    BY <2>2, <2>6 DEF LengthIs
  <2>8. SentBy(m.data)'
    BY <1>1, <1>4, <2>2, <2>4, <2>5 DEF SentBy
  <2> QED
    BY <2>1, <2>7, <2>8 DEF Known, InPayload, LengthIs
<1>6. ASSUME NEW f \in ToSet(frames') PROVE KnownFrame(f)'
  <2> DEFINE fs == frames'
  <2>1. fs \in Seq(Frame) /\ Messages(fs) = Written(enc)
    BY <1>3
  <2>2. PICK i \in DOMAIN fs : f = fs[i]
    BY DEF ToSet
  <2> HIDE DEF fs
  <2>3. ASSUME NEW k \in DOMAIN f.body PROVE f.body[k] \in ToSet(Written(enc))
    BY <2>1, <2>2, MessageIn
  <2> QED
    BY <1>5, <2>3 DEF KnownFrame
<1> QED
  BY <1>1, <1>3, <1>5, <1>6

\* Frames get on the way only when the application sends what encode() returned.
LEMMA FlyingIs ==
    ASSUME LinkTypes, LinkTypes', IInv', [LinkNext]_linkVars
    PROVE  Flying' \subseteq Flying \/ (SendFrames /\ Flying' \subseteq Flying \cup ToSet(frames'))
<1>1. network \in Seq(Frame) /\ frame \in Frame \cup {NoFrame}
  BY DEF LinkTypes, DecTypes
<1>2. CASE CallEncode
  BY <1>2 DEF CallEncode, decVars, Flying
<1>3. CASE Reconfigure
  BY <1>3 DEF Reconfigure, decVars, Flying
<1>4. CASE Encode
  BY <1>4 DEF Encode, decVars, Flying
<1>5. CASE SendFrames
  <2>1. network' = network \o frames' /\ frame' = frame /\ frames' \in Seq(Frame)
    BY <1>5 DEF SendFrames, decVars, IInv, TypeOK
  <2> DEFINE fs == frames'
  <2>a. network' = network \o fs /\ fs \in Seq(Frame)
    BY <2>1
  <2> HIDE DEF fs
  <2>2. ToSet(network') \subseteq ToSet(network) \cup ToSet(fs)
    <3>1. ASSUME NEW x \in ToSet(network \o fs) PROVE x \in ToSet(network) \cup ToSet(fs)
      BY <1>1, <2>a DEF ToSet
    <3> QED
      BY <2>a, <3>1
  <2> QED
    BY <1>5, <2>1, <2>2 DEF Flying, fs
<1>6. CASE Deliver
  <2>1. PICK i \in DOMAIN network :
             /\ network' = RemoveAt(network, i)
             /\ frame = NoFrame
             /\ frame' = frame \/ frame' = network[i]
    BY <1>6, DeliverIs
  <2>2. ToSet(network') \subseteq ToSet(network)
    BY <1>1, <2>1, RemovedIs
  <2>3. network[i] \in ToSet(network)
    BY DEF ToSet
  <2> QED
    BY <2>1, <2>2, <2>3 DEF Flying
<1>7. CASE Decode
  <2>1. frame' = frame /\ network' = network
    BY <1>7, TurnIs DEF Decode, LinkTypes
  <2> QED
    BY <2>1 DEF Flying
<1>8. CASE ReturnPackets
  BY <1>8 DEF ReturnPackets, Dec!Return, Flying
<1>9. CASE Lose
  <2>1. frame' = frame /\ ToSet(network') \subseteq ToSet(network)
    BY <1>1, <1>9, RemovedIs DEF Lose, decVars
  <2> QED
    BY <2>1 DEF Flying
<1>10. CASE Duplicate
  <2>1. frame' = frame /\ ToSet(network') \subseteq ToSet(network)
    BY <1>1, <1>10, InsertAtIs DEF Duplicate, decVars
  <2> QED
    BY <2>1 DEF Flying
<1>11. CASE UNCHANGED linkVars
  BY <1>11 DEF linkVars, decVars, Flying
<1> QED
  BY <1>2, <1>3, <1>4, <1>5, <1>6, <1>7, <1>8, <1>9, <1>10, <1>11 DEF LinkNext

LEMMA ConcatAppend ==
    ASSUME NEW S, NEW a \in Seq(S), NEW b \in Seq(S), NEW x \in S
    PROVE  a \o Append(b, x) = Append(a \o b, x)
<1>1. /\ a \o Append(b, x) \in Seq(S) /\ Append(a \o b, x) \in Seq(S)
      /\ Len(a \o Append(b, x)) = Len(Append(a \o b, x))
  OBVIOUS
<1>2. \A i \in 1 .. Len(a \o Append(b, x)) : (a \o Append(b, x))[i] = Append(a \o b, x)[i]
  OBVIOUS
<1> QED
  BY ONLY <1>1, <1>2, SameSeq

\* A packet is decoded by a turn of decode()'s loop and by nothing else.
LEMMA DecodedIs ==
    ASSUME LinkTypes, LinkTypes', [LinkNext]_linkVars
    PROVE  /\ Decoded \in Seq(Dec!Packet)
           /\ \/ Decoded' = Decoded
              \/ /\ Decode /\ body # <<>> /\ Head(body) \in MessageHeader
                 /\ \E p \in Dec!Packet :
                      /\ Decoded' = Append(Decoded, p)
                      /\ \/ TookWhole(Head(body), p)
                         \/ \E s : TookLast(Head(body), s, p)
<1>1. /\ frame \in Frame \cup {NoFrame} /\ packets \in Seq(Dec!Packet)
      /\ decoded \in Seq(Dec!Packet)
      /\ packets' \in Seq(Dec!Packet) /\ decoded' \in Seq(Dec!Packet)
  BY DEF LinkTypes, DecTypes
<1>2. Decoded \in Seq(Dec!Packet)
  BY <1>1 DEF Decoded
<1>3. CASE UNCHANGED <<frame, packets, decoded>>
  BY <1>2, <1>3 DEF Decoded
<1>4. CASE Deliver
  <2>1. frame = NoFrame /\ packets' = <<>> /\ decoded' = decoded
    BY <1>4, DeliverIs DEF Deliver
  <2>2. decoded \o <<>> = decoded
    BY <1>1
  <2> QED
    BY <1>2, <2>1, <2>2 DEF Decoded
<1>5. CASE ReturnPackets
  BY <1>2, <1>5 DEF ReturnPackets, Dec!Return, Decoded
<1>6. CASE Decode
  <2>1. /\ frame' = frame /\ frame \in Frame /\ decoded' = decoded
        /\ \/ TookNone
           \/ body # <<>> /\ Head(body) \in MessageHeader /\ Took(Head(body))
    BY <1>6, TurnIs DEF Decode, LinkTypes
  <2>2. frame # NoFrame
    BY <2>1, NoFrameAssumption
  <2>3. CASE packets' = packets
    BY <1>2, <2>1, <2>2, <2>3 DEF Decoded
  <2>4. CASE packets' # packets
    <3>1. PICK p : /\ body # <<>> /\ Head(body) \in MessageHeader
                   /\ p \in Dec!Packet /\ packets' = Append(packets, p)
                   /\ TookWhole(Head(body), p) \/ \E s : TookLast(Head(body), s, p)
      BY <2>1, <2>4 DEF TookNone, Took, TookWhole, TookFirst, TookNext, TookLast
    <3>2. Decoded' = Append(Decoded, p)
      BY <1>1, <2>1, <2>2, <3>1, ConcatAppend DEF Decoded
    <3> QED
      BY <1>2, <1>6, <3>1, <3>2
  <2> QED
    BY <2>3, <2>4
<1>7. CASE ~ (Deliver \/ ReturnPackets \/ Decode)
  <2>1. UNCHANGED <<frame, packets, decoded>>
    BY <1>7 DEF LinkNext, linkVars, decVars, CallEncode, Reconfigure, Encode, SendFrames,
                Lose, Duplicate
  <2> QED
    BY <1>3, <2>1
<1> QED
  BY <1>4, <1>5, <1>6, <1>7

\* What is left to be read of a frame was in it.
LEMMA BodyIs ==
    ASSUME LinkTypes, [LinkNext]_linkVars
    PROVE  \/ body' = body
           \/ body' = <<>>
           \/ body # <<>> /\ body' = Tail(body)
           \/ \E f \in ToSet(network) : body' = f.body
<1>1. CASE Deliver
  BY <1>1, DeliverIs DEF ToSet
<1>2. CASE ReturnPackets
  BY <1>2 DEF ReturnPackets, Dec!Return
<1>3. CASE Decode
  <2>1. TookNone \/ (body # <<>> /\ Took(Head(body)))
    BY <1>3, TurnIs DEF Decode, LinkTypes
  <2> QED
    BY <2>1 DEF TookNone, Took, TookWhole, TookFirst, TookNext, TookLast
<1> QED
  BY <1>1, <1>2, <1>3 DEF LinkNext, linkVars, decVars, CallEncode, Reconfigure, Encode,
     SendFrames, Lose, Duplicate

\* What becomes of the entries, by a turn of decode()'s loop.
LEMMA EntriesAre ==
    ASSUME LinkTypes, [LinkNext]_linkVars
    PROVE  \/ UNCHANGED segmentedPackets
           \/ /\ Decode
              /\ \A a \in Entries' :
                   \/ a \in Entries
                   \/ /\ body # <<>> /\ Head(body) \in MessageHeader
                      /\ \/ TookFirst(Head(body), a)
                         \/ \E s : TookNext(Head(body), s, a)
<1>1. CASE Decode
  <2>1. \/ TookNone
        \/ body # <<>> /\ Head(body) \in MessageHeader /\ Took(Head(body))
    BY <1>1, TurnIs DEF Decode, LinkTypes
  <2>2. EntriesOK(segmentedPackets)
    BY DEF LinkTypes, DecTypes
  <2>3. CASE segmentedPackets' = Dec!Erase(segmentedPackets, Dec!endpoint)
    BY <1>1, <2>2, <2>3, EntriesErased DEF Entries
  <2>4. ASSUME body # <<>>, Head(body) \in MessageHeader, NEW s, TookFirst(Head(body), s)
        PROVE  \A a \in Entries' : a \in Entries \/ TookFirst(Head(body), a)
    <3>1. s \in Dec!SegmentedPacket
            /\ segmentedPackets' = Dec!Put(segmentedPackets, Dec!endpoint, s)
      BY <2>4 DEF TookFirst
    <3>2. \A k \in DOMAIN segmentedPackets' :
                \/ segmentedPackets'[k] = s
                \/ /\ k \in DOMAIN segmentedPackets
                   /\ segmentedPackets'[k] = segmentedPackets[k]
      BY <2>2, <3>1, EntriesPut
    <3> QED
      BY <2>4, <3>2 DEF Entries
  <2>5. ASSUME body # <<>>, Head(body) \in MessageHeader,
               NEW s, NEW a, TookNext(Head(body), s, a)
        PROVE  \A x \in Entries' : x \in Entries \/ TookNext(Head(body), s, x)
    <3>1. a \in Dec!SegmentedPacket
            /\ segmentedPackets' = Dec!Put(segmentedPackets, Dec!endpoint, a)
      BY <2>5 DEF TookNext
    <3>2. \A k \in DOMAIN segmentedPackets' :
                \/ segmentedPackets'[k] = a
                \/ /\ k \in DOMAIN segmentedPackets
                   /\ segmentedPackets'[k] = segmentedPackets[k]
      BY <2>2, <3>1, EntriesPut
    <3> QED
      BY <2>5, <3>2 DEF Entries
  <2>6. \/ segmentedPackets' = Dec!Erase(segmentedPackets, Dec!endpoint)
        \/ /\ body # <<>> /\ Head(body) \in MessageHeader
           /\ \/ \E s : TookFirst(Head(body), s)
              \/ \E s, a : TookNext(Head(body), s, a)
    BY <2>1 DEF TookNone, Took, TookWhole, TookLast
  <2> QED
    BY <1>1, <2>3, <2>4, <2>5, <2>6
<1>2. CASE ~ Decode
  <2>1. Deliver => UNCHANGED segmentedPackets
    BY DeliverIs
  <2> QED
    BY <1>2, <2>1 DEF LinkNext, linkVars, decVars, CallEncode, Reconfigure, Encode,
       SendFrames, Lose, Duplicate, ReturnPackets, Dec!Return
<1> QED
  BY <1>1, <1>2

LEMMA KnownInvInit == LinkInit => KnownInv
<1> SUFFICES ASSUME LinkInit PROVE KnownInv
  OBVIOUS
<1>1. /\ network = <<>> /\ frame = NoFrame /\ body = <<>> /\ decoded = <<>>
      /\ DOMAIN segmentedPackets = {}
  BY DEF LinkInit, Dec!Init
<1>2. Flying = {} /\ Decoded = <<>>
  BY <1>1 DEF Flying, Decoded, ToSet
<1> QED
  BY <1>1, <1>2 DEF KnownInv, Entries, ToSet

LEMMA OnePiece ==
    ASSUME NEW m \in MessageHeader, NEW t, LengthIs(m.data), SentBy(m.data)
    PROVE  KnownPieces(<<PieceOf(m, t)>>)
<1>1. PieceOf(m, t).data = m.data
  BY DEF PieceOf
<1> DEFINE p == PieceOf(m, t)
<1>2. <<p>> # <<>> /\ \A k \in DOMAIN <<p>> : <<p>>[k] = p
  OBVIOUS
<1> HIDE DEF p
<1> QED
  BY <1>1, <1>2 DEF KnownPieces, p

LEMMA MorePieces ==
    ASSUME NEW m \in MessageHeader, LengthIs(m.data), SentBy(m.data),
           NEW s \in Seq(Dec!Piece), KnownPieces(s)
    PROVE  KnownPieces(Append(s, PieceOf(m, 0)))
<1> DEFINE p == PieceOf(m, 0)
<1>1. p.data = m.data /\ p \in Dec!Piece
  BY PieceOfType DEF PieceOf
<1> HIDE DEF p
<1>2. /\ Append(s, p) # <<>> /\ Append(s, p)[Len(s) + 1] = p
      /\ \A k \in 1 .. Len(s) : Append(s, p)[k] = s[k]
      /\ DOMAIN Append(s, p) = 1 .. Len(s) + 1 /\ DOMAIN s = 1 .. Len(s)
  BY <1>1
<1>3. \A k \in DOMAIN Append(s, p) : k \in DOMAIN s \/ k = Len(s) + 1
  BY <1>2
<1> QED
  BY <1>1, <1>2, <1>3 DEF KnownPieces, p

\* The first of the messages left is known, and so are the others.
LEMMA HeadKnown ==
    ASSUME LinkTypes, KnownInv, body # <<>>
    PROVE  Known(Head(body)) /\ \A m \in ToSet(Tail(body)) : Known(m)
<1>1. body \in Seq(MessageHeader) /\ \A m \in ToSet(body) : Known(m)
  BY DEF LinkTypes, DecTypes, KnownInv
<1>2. /\ Head(body) = body[1] /\ 1 \in DOMAIN body
      /\ \A k \in DOMAIN Tail(body) : Tail(body)[k] = body[k + 1] /\ k + 1 \in DOMAIN body
  BY <1>1
<1>3. Head(body) \in ToSet(body) /\ ToSet(Tail(body)) \subseteq ToSet(body)
  BY <1>2 DEF ToSet
<1> QED
  BY <1>1, <1>3

LEMMA KnownInvStep ==
    ASSUME LinkInv, LinkTypes', IInv', SentInv', [LinkNext]_linkVars, Remembered
    PROVE  KnownInv'
<1>0. LinkTypes /\ IInv /\ SentInv /\ KnownInv
  BY DEF LinkInv
<1>1. /\ \A d : SentBy(d) => SentBy(d)'
      /\ \A m : Known(m) => Known(m)'
      /\ \A f : KnownFrame(f) => KnownFrame(f)'
      /\ \A s : KnownPieces(s) => KnownPieces(s)'
  BY <1>0, SentStays
<1>2. ASSUME NEW f \in Flying' PROVE KnownFrame(f)'
  <2>1. CASE f \in Flying
    BY <1>0, <1>1, <2>1 DEF KnownInv
  <2>2. CASE SendFrames /\ f \in ToSet(frames')
    BY <2>2, SendKnown
  <2> QED
    BY <1>0, <2>1, <2>2, FlyingIs
<1>3. ASSUME NEW m \in ToSet(body') PROVE Known(m)'
  <2>1. Known(m)
    <3>1. CASE body' = body
      BY <1>0, <1>3, <3>1 DEF KnownInv
    <3>2. CASE body # <<>> /\ body' = Tail(body)
      BY <1>0, <1>3, <3>2, HeadKnown
    <3>3. CASE \E f \in ToSet(network) : body' = f.body
      <4>1. PICK f \in ToSet(network) : body' = f.body
        BY <3>3
      <4>2. KnownFrame(f)
        BY <1>0 DEF KnownInv, Flying
      <4> QED
        BY <1>3, <4>1, <4>2 DEF KnownFrame, ToSet
    <3>4. CASE body' = <<>>
      BY <1>3, <3>4 DEF ToSet
    <3> QED
      BY <1>0, <3>1, <3>2, <3>3, <3>4, BodyIs
  <2> QED
    BY <1>1, <2>1
<1>4. ASSUME body # <<>>
      PROVE  LengthIs(Head(body).data) /\ SentBy(Head(body).data)
  BY <1>0, <1>4, HeadKnown DEF Known
<1>5. ASSUME NEW a \in Entries' PROVE KnownPieces(a.payload)'
  <2>1. \/ a \in Entries
        \/ /\ body # <<>> /\ Head(body) \in MessageHeader
           /\ TookFirst(Head(body), a) \/ \E s : TookNext(Head(body), s, a)
    BY <1>0, EntriesAre DEF Entries
  <2>2. KnownPieces(a.payload)
    <3>1. CASE a \in Entries
      BY <1>0, <3>1 DEF KnownInv
    <3>2. CASE body # <<>> /\ Head(body) \in MessageHeader /\ TookFirst(Head(body), a)
      BY <1>4, <3>2, OnePiece DEF TookFirst
    <3>3. CASE body # <<>> /\ Head(body) \in MessageHeader
                 /\ \E s : TookNext(Head(body), s, a)
      <4>1. PICK s : TookNext(Head(body), s, a)
        BY <3>3
      <4>2. KnownPieces(s.payload) /\ s.payload \in Seq(Dec!Piece)
        BY <1>0, <4>1 DEF KnownInv, TookNext, Takes, Dec!SegmentedPacket, Entries
      <4>3. a.payload = Append(s.payload, PieceOf(Head(body), 0))
        BY <4>1 DEF TookNext
      <4> QED
        BY <1>4, <3>3, <4>2, <4>3, MorePieces
    <3> QED
      BY <2>1, <3>1, <3>2, <3>3
  <2> QED
    BY <1>1, <2>2
<1>6. ASSUME NEW p \in ToSet(Decoded') PROVE KnownPieces(p.payload)'
  <2>1. \/ p \in ToSet(Decoded)
        \/ /\ body # <<>> /\ Head(body) \in MessageHeader
           /\ TookWhole(Head(body), p) \/ \E s : TookLast(Head(body), s, p)
    <3>1. CASE Decoded' = Decoded
      BY <1>6, <3>1
    <3>2. ASSUME NEW q, Decoded' = Append(Decoded, q), q \in Dec!Packet
          PROVE  p = q \/ p \in ToSet(Decoded)
      <4> DEFINE ds == Decoded
      <4>1. ds \in Seq(Dec!Packet) /\ Decoded' = Append(ds, q)
        BY <1>0, <3>2, DecodedIs
      <4> HIDE DEF ds
      <4> QED
        BY <1>6, <3>2, <4>1 DEF ToSet, ds
    <3> QED
      BY <1>0, <3>1, <3>2, DecodedIs
  <2>2. KnownPieces(p.payload)
    <3>1. CASE p \in ToSet(Decoded)
      BY <1>0, <3>1 DEF KnownInv
    <3>2. CASE body # <<>> /\ Head(body) \in MessageHeader /\ TookWhole(Head(body), p)
      BY <1>4, <3>2, OnePiece DEF TookWhole
    <3>3. CASE body # <<>> /\ Head(body) \in MessageHeader
                 /\ \E s : TookLast(Head(body), s, p)
      <4>1. PICK s : TookLast(Head(body), s, p)
        BY <3>3
      <4>2. KnownPieces(s.payload) /\ s.payload \in Seq(Dec!Piece)
        BY <1>0, <4>1 DEF KnownInv, TookLast, Takes, Dec!SegmentedPacket, Entries
      <4>3. p.payload = Append(s.payload, PieceOf(Head(body), 0))
        BY <4>1 DEF TookLast
      <4> QED
        BY <1>4, <3>3, <4>2, <4>3, MorePieces
    <3> QED
      BY <2>1, <3>1, <3>2, <3>3
  <2> QED
    BY <1>1, <2>2
<1>7. \A p \in ToSet(Decoded)' : KnownPieces(p.payload)'
  BY <1>6 DEF ToSet
<1>8. \A m \in ToSet(body)' : Known(m)'
  BY <1>3 DEF ToSet
<1> QED
  BY <1>2, <1>5, <1>7, <1>8 DEF KnownInv

LEMMA LinkInvInit == LinkInit => LinkInv
<1>1. Init => OrderInv
  BY DEF Init, OrderInv
<1> QED
  BY <1>1, LinkTypesInit, IInvInit, SentInvInit, KnownInvInit DEF LinkInit, LinkInv

LEMMA LinkInvStep ==
    ASSUME LinkInv, [LinkNext]_linkVars
    PROVE  LinkInv' /\ Remembered /\ [Next]_vars
<1>1. LinkTypes /\ IInv /\ OrderInv /\ SentInv /\ scenario \in Scenarios
  BY DEF LinkInv, LinkTypes
<1>2. [Next]_vars
  BY <1>1, EncoderStep
<1>3. IInv' /\ OrderInv'
  BY <1>1, <1>2, IInvStep, OrderInvStep
<1>4. LinkTypes'
  BY <1>1, <1>3, LinkTypesStep
<1>5. SentInv' /\ Remembered
  BY <1>1, SentStep
<1>6. KnownInv'
  BY <1>3, <1>4, <1>5, KnownInvStep
<1> QED
  BY <1>2, <1>3, <1>4, <1>5, <1>6 DEF LinkInv

(***************************************************************************)
(* Whatever the network does, what is on the way, waits in the decoder or  *)
(* has been decoded consists of pieces of packets that were passed to      *)
(* encode() and whose frames have been sent; the pieces in the decoder's   *)
(* entries and in its packets have the length of what was encoded          *)
(* (encoder.cpp:63-124, decoder.cpp:22-59).                                *)
(***************************************************************************)
THEOREM OnlyEncodedIsDecoded == LinkSpec => []KnownInv
<1>1. LinkInv /\ [LinkNext]_linkVars => LinkInv'
  BY LinkInvStep
<1>2. LinkInv => KnownInv
  BY DEF LinkInv
<1> QED
  BY <1>1, <1>2, LinkInvInit, PTL DEF LinkSpec
-----------------------------------------------------------------------------
(***************************************************************************)
(* What is received, when the network keeps the order of the frames.       *)
(***************************************************************************)

\* IndexOf, IndexIfWhole and Received of any packets passed to encode() and
\* any decoded packets.
IndexIn(ids, id) == CHOOSE i \in DOMAIN ids : ids[i] = id
IndexFor(ids, p) ==
    IF HasWholePayload(p) THEN <<IndexIn(ids, p.payload[1].data.packet)>> ELSE <<>>
Indexes(ids, ps) == [i \in DOMAIN ps |-> IndexFor(ids, ps[i])]

LEMMA ReceivedIs ==
    /\ Received = IF InOrder THEN FlattenSeq(Indexes(sent, Decoded)) ELSE <<>>
    /\ Received' = IF InOrder' THEN FlattenSeq(Indexes(sent', Decoded')) ELSE <<>>
BY DEF Received, IndexIfWhole, IndexOf, Indexes, IndexFor, IndexIn

LEMMA IndexOfIs ==
    ASSUME SentInv, NEW i \in DOMAIN sent
    PROVE  IndexIn(sent, sent[i]) = i
BY DEF SentInv, IndexIn

LEMMA IndexStays ==
    ASSUME LinkTypes, IInv, SentInv, LinkTypes', SentInv', Remembered, NEW d, SentBy(d)
    PROVE  IndexIn(sent', d.packet) = IndexIn(sent, d.packet)
             /\ IndexIn(sent, d.packet) \in 1 .. Finished
<1>1. PICK i \in 1 .. Finished : sent[i] = d.packet
  BY DEF SentBy
<1>2. /\ i \in 1 .. Len(sent) /\ DOMAIN sent = 1 .. Len(sent) /\ Len(sent) \in Nat
  BY FinishedIs
<1>3. sent'[i] = d.packet /\ Len(sent') >= Len(sent)
  BY <1>1, <1>2 DEF Remembered
<1>4. i \in DOMAIN sent'
  <2>1. sent' \in Seq(PacketId)
    BY DEF LinkTypes
  <2>2. DOMAIN sent' = 1 .. Len(sent') /\ Len(sent') \in Nat
    BY <2>1
  <2> QED
    BY <1>2, <1>3, <2>2
<1>5. IndexIn(sent, d.packet) = i
  BY <1>1, <1>2, IndexOfIs
<1>6. IndexIn(sent', d.packet) = i
  BY <1>3, <1>4 DEF SentInv, IndexIn
<1> QED
  BY <1>5, <1>6

LEMMA FirstPiece ==
    ASSUME NEW p \in Dec!Packet, KnownPieces(p.payload)
    PROVE  /\ p.payload \in Seq(Dec!Piece) /\ Len(p.payload) \in Nat /\ Len(p.payload) > 0
           /\ DOMAIN p.payload = 1 .. Len(p.payload)
           /\ LengthIs(p.payload[1].data) /\ SentBy(p.payload[1].data)
<1>1. p.payload \in Seq(Dec!Piece) /\ p.payload # <<>>
  BY DEF Dec!Packet, KnownPieces
<1>2. Len(p.payload) \in Nat /\ Len(p.payload) > 0 /\ DOMAIN p.payload = 1 .. Len(p.payload)
  BY <1>1
<1> QED
  BY <1>1, <1>2 DEF KnownPieces

LEMMA IndexForIs ==
    ASSUME LinkTypes, IInv, SentInv, LinkTypes', SentInv', Remembered,
           NEW p \in Dec!Packet, KnownPieces(p.payload)
    PROVE  /\ IndexFor(sent', p) = IndexFor(sent, p) /\ IndexFor(sent, p) \in Seq(Nat)
           /\ IndexIn(sent, p.payload[1].data.packet) \in 1 .. Finished
<1> DEFINE i == IndexIn(sent, p.payload[1].data.packet)
<1>1. IndexIn(sent', p.payload[1].data.packet) = i /\ i \in 1 .. Finished
  BY FirstPiece, IndexStays
<1>2. Finished \in Nat
  BY FinishedIs
<1>3. /\ IndexFor(sent, p) = IF HasWholePayload(p) THEN <<i>> ELSE <<>>
      /\ IndexFor(sent', p) = IF HasWholePayload(p) THEN <<i>> ELSE <<>>
  BY <1>1 DEF IndexFor
<1>5. i \in Nat
  BY <1>1, <1>2
<1> HIDE DEF i
<1>6. <<i>> \in Seq(Nat) /\ <<>> \in Seq(Nat)
  BY <1>5
<1> QED
  BY <1>1, <1>3, <1>6 DEF i

\* The pieces of a packet that is whole are of one packet of the application.
LEMMA WholeIsOne ==
    ASSUME NEW p \in Dec!Packet, p.payload # <<>>, HasWholePayload(p)
    PROVE  \A k \in DOMAIN p.payload : p.payload[k].data.packet = p.payload[1].data.packet
<1> DEFINE s == p.payload
           T == {k \in Nat : k \in DOMAIN s => s[k].data.packet = s[1].data.packet}
<1>1. /\ s \in Seq(Dec!Piece) /\ DOMAIN s = 1 .. Len(s) /\ Len(s) \in Nat
  BY DEF Dec!Packet
<1>2. \A k \in DOMAIN s : k > 1 => s[k].data.packet = s[k-1].data.packet
  BY DEF HasWholePayload
<1> HIDE DEF s
<1>3. 0 \in T
  BY <1>1
<1>4. ASSUME NEW k \in T PROVE k + 1 \in T
  <2>1. ASSUME k + 1 \in DOMAIN s PROVE s[k + 1].data.packet = s[1].data.packet
    <3>1. k \in Nat /\ k + 1 \in DOMAIN s
      BY <2>1
    <3>2. CASE k = 0
      BY <3>2
    <3>3. CASE k # 0
      <4>1. k \in DOMAIN s /\ k + 1 > 1 /\ (k + 1) - 1 = k
        BY <1>1, <3>1, <3>3
      <4>2. s[k].data.packet = s[1].data.packet
        BY <4>1
      <4> QED
        BY <1>2, <3>1, <4>1, <4>2
    <3> QED
      BY <3>2, <3>3
  <2> QED
    BY <2>1
<1>5. T = Nat
  <2> HIDE DEF T
  <2>1. T \subseteq Nat
    BY DEF T
  <2> QED
    BY <1>3, <1>4, <2>1, SetInduction
<1> QED
  BY <1>1, <1>5 DEF s

\* A packet that is whole ends with the message that was read last.
LEMMA WholeEnds ==
    ASSUME NEW m \in MessageHeader, NEW p \in Dec!Packet, HasWholePayload(p),
           TookWhole(m, p) \/ \E s : TookLast(m, s, p)
    PROVE  /\ p.payload[1].data.packet = m.data.packet
           /\ m.data.position + m.payloadLength = m.data.whole
<1>1. PICK s \in Seq(Dec!Piece) : p.payload = Append(s, PieceOf(m, 0))
  <2>1. CASE TookWhole(m, p)
    <3> DEFINE e == PieceOf(m, 0)
    <3>1. p.payload = <<e>>
      BY <2>1 DEF TookWhole
    <3>2. Append(<<>>, e) = <<e>> /\ <<>> \in Seq(Dec!Piece)
      OBVIOUS
    <3> QED
      BY <3>1, <3>2
  <2>2. ASSUME NEW s, TookLast(m, s, p)
        PROVE  s.payload \in Seq(Dec!Piece) /\ p.payload = Append(s.payload, PieceOf(m, 0))
    BY <2>2 DEF TookLast, Takes, Dec!SegmentedPacket
  <2> QED
    BY <2>1, <2>2
<1> DEFINE e == PieceOf(m, 0)
<1>2. e \in Dec!Piece /\ e.data = m.data /\ e.length = m.payloadLength
  BY PieceOfType DEF PieceOf
<1> HIDE DEF e
<1>3. /\ Append(s, e) # <<>> /\ Last(Append(s, e)) = e
      /\ Len(s) + 1 \in DOMAIN Append(s, e) /\ Append(s, e)[Len(s) + 1] = e
  BY <1>1, <1>2 DEF Last
<1>4. e.data.packet = p.payload[1].data.packet
  BY <1>1, <1>3, WholeIsOne DEF e
<1>5. e.data.position + e.length = e.data.whole
  BY <1>1, <1>3 DEF HasWholePayload, e
<1> QED
  BY <1>2, <1>4, <1>5

LEMMA IndexesAre ==
    ASSUME LinkInv, LinkTypes', SentInv', Remembered
    PROVE  /\ Decoded \in Seq(Dec!Packet)
           /\ Indexes(sent, Decoded) \in Seq(Seq(Nat))
           /\ Indexes(sent', Decoded) = Indexes(sent, Decoded)
<1>1. LinkTypes /\ IInv /\ SentInv /\ KnownInv
  BY DEF LinkInv
<1> DEFINE ds == Decoded
<1>2. ds \in Seq(Dec!Packet)
  <2>1. decoded \in Seq(Dec!Packet) /\ packets \in Seq(Dec!Packet)
    BY <1>1 DEF LinkTypes, DecTypes
  <2> QED
    BY <2>1 DEF Decoded
<1>3. \A p \in ToSet(ds) : KnownPieces(p.payload)
  BY <1>1 DEF KnownInv
<1> HIDE DEF ds
<1>5. DOMAIN ds = 1 .. Len(ds) /\ Len(ds) \in Nat
  BY <1>2
<1>4. ASSUME NEW i \in 1 .. Len(ds)
      PROVE  IndexFor(sent', ds[i]) = IndexFor(sent, ds[i]) /\ IndexFor(sent, ds[i]) \in Seq(Nat)
  <2>1. ds[i] \in Dec!Packet /\ ds[i] \in ToSet(ds)
    BY <1>2, <1>5 DEF ToSet
  <2> QED
    BY <1>1, <1>3, <2>1, IndexForIs
<1>6. /\ Indexes(sent, ds) = [i \in 1 .. Len(ds) |-> IndexFor(sent, ds[i])]
      /\ Indexes(sent', ds) = [i \in 1 .. Len(ds) |-> IndexFor(sent', ds[i])]
  BY <1>5 DEF Indexes
<1> QED
  BY <1>2, <1>4, <1>5, <1>6 DEF ds

\* One more decoded packet adds its index, if it is whole.
LEMMA IndexesMore ==
    ASSUME NEW ids, NEW ds \in Seq(Dec!Packet), NEW p \in Dec!Packet,
           Indexes(ids, ds) \in Seq(Seq(Nat)), IndexFor(ids, p) \in Seq(Nat)
    PROVE  FlattenSeq(Indexes(ids, Append(ds, p)))
             = FlattenSeq(Indexes(ids, ds)) \o IndexFor(ids, p)
<1> DEFINE a == Indexes(ids, ds)
           b == Indexes(ids, Append(ds, p))
           n == Len(ds)
<1>1. /\ n \in Nat /\ DOMAIN ds = 1 .. n /\ Append(ds, p) \in Seq(Dec!Packet)
      /\ DOMAIN Append(ds, p) = 1 .. n + 1 /\ Append(ds, p)[n + 1] = p
      /\ \A i \in 1 .. n : Append(ds, p)[i] = ds[i]
  OBVIOUS
<1>2. a = [i \in 1 .. n |-> IndexFor(ids, ds[i])]
  BY <1>1 DEF Indexes
<1>3. b = [i \in 1 .. n + 1 |-> IndexFor(ids, Append(ds, p)[i])]
  BY <1>1 DEF Indexes
<1>4. Len(a) = n /\ \A i \in 1 .. n : a[i] = IndexFor(ids, ds[i])
  BY <1>1, <1>2
<1>5. /\ b[n + 1] = IndexFor(ids, p)
      /\ \A i \in 1 .. n : b[i] = IndexFor(ids, ds[i])
  BY <1>1, <1>3
<1> HIDE DEF n, a
<1>6. /\ Append(a, IndexFor(ids, p)) \in Seq(Seq(Nat))
      /\ Len(Append(a, IndexFor(ids, p))) = n + 1
      /\ \A i \in 1 .. n : Append(a, IndexFor(ids, p))[i] = a[i]
      /\ Append(a, IndexFor(ids, p))[n + 1] = IndexFor(ids, p)
  <2>1. a \in Seq(Seq(Nat)) /\ Len(a) = n /\ n \in Nat
    BY <1>1, <1>4 DEF a
  <2> QED
    BY <2>1
<1>7. b = Append(a, IndexFor(ids, p))
  <2> DEFINE c == Append(a, IndexFor(ids, p))
  <2>1. c \in Seq(Seq(Nat)) /\ Len(c) = n + 1
    BY <1>6
  <2>2. \A i \in 1 .. n + 1 : i \in 1 .. n \/ i = n + 1
    BY <1>1 DEF n
  <2>3. \A i \in 1 .. n + 1 : c[i] = b[i]
    BY <1>4, <1>5, <1>6, <2>2
  <2> HIDE DEF c
  <2>4. c = [i \in 1 .. n + 1 |-> c[i]]
    BY <2>1
  <2>5. b = [i \in 1 .. n + 1 |-> b[i]]
    BY <1>3
  <2> HIDE DEF b
  <2>6. c = b
    BY <2>3, <2>4, <2>5
  <2> QED
    BY <2>6 DEF c
<1> HIDE DEF b
<1>8. FlattenSeq(Append(a, IndexFor(ids, p))) = FlattenSeq(a) \o IndexFor(ids, p)
  <2>1. a \in Seq(Seq(Nat))
    BY DEF a
  <2> QED
    BY <2>1, FlattenAppend
<1> QED
  BY <1>7, <1>8 DEF a, b

LEMMA ReceivedType ==
    ASSUME LinkInv, LinkTypes', SentInv', Remembered
    PROVE  Received \in Seq(Nat)
<1>1. FlattenSeq(Indexes(sent, Decoded)) \in Seq(Nat)
  BY IndexesAre, FlattenType
<1>2. <<>> \in Seq(Nat)
  OBVIOUS
<1> QED
  BY <1>1, <1>2, ReceivedIs

\* A packet is received by a turn of decode()'s loop and by nothing else.
LEMMA ReceivedStep ==
    ASSUME LinkInv, LinkInv', [LinkNext]_linkVars, Remembered
    PROVE  \/ Received' = Received
           \/ /\ InOrder /\ Decode /\ body # <<>> /\ Head(body) \in MessageHeader
              /\ \E p \in Dec!Packet :
                   /\ HasWholePayload(p) /\ p.payload[1].data.packet = Head(body).data.packet
                   /\ Head(body).data.position + Head(body).payloadLength
                        = Head(body).data.whole
                   /\ \/ TookWhole(Head(body), p)
                      \/ \E s : TookLast(Head(body), s, p)
                   /\ Received' = Append(Received, IndexIn(sent, Head(body).data.packet))
<1>1. /\ LinkTypes /\ IInv /\ SentInv /\ KnownInv
      /\ LinkTypes' /\ IInv' /\ SentInv' /\ KnownInv'
  BY DEF LinkInv
<1>2. InOrder' = InOrder
  <2>1. scenario' = scenario
    BY DEF LinkNext, linkVars, CallEncode, Reconfigure, Encode, SendFrames, Deliver,
           Decode, ReturnPackets, Lose, Duplicate
  <2> QED
    BY <2>1 DEF InOrder
<1>3. CASE ~ InOrder
  BY <1>2, <1>3, ReceivedIs
<1>4. CASE InOrder /\ Decoded' = Decoded
  <2>1. Indexes(sent', Decoded') = Indexes(sent, Decoded)
    BY <1>1, <1>4, IndexesAre
  <2> QED
    BY <1>2, <1>4, <2>1, ReceivedIs
<1>5. CASE InOrder /\ Decoded' # Decoded
  <2>1. /\ Decode /\ body # <<>> /\ Head(body) \in MessageHeader
        /\ \E p \in Dec!Packet :
                      /\ Decoded' = Append(Decoded, p)
                      /\ \/ TookWhole(Head(body), p)
                         \/ \E s : TookLast(Head(body), s, p)
    BY <1>1, <1>5, DecodedIs
  <2>2. PICK p \in Dec!Packet :
                      /\ Decoded' = Append(Decoded, p)
                      /\ \/ TookWhole(Head(body), p)
                         \/ \E s : TookLast(Head(body), s, p)
    BY <2>1
  <2>3. UNCHANGED <<sent, pc, request>>
    BY <2>1 DEF Decode, histVars, vars
  <2>4. Indexes(sent, Decoded) \in Seq(Seq(Nat)) /\ Decoded \in Seq(Dec!Packet)
    BY <1>1, IndexesAre
  <2>5. KnownPieces(p.payload)
    <3> DEFINE ds == Decoded
               es == Decoded'
    <3>1. ds \in Seq(Dec!Packet) /\ es = Append(ds, p)
      BY <2>2, <2>4
    <3> HIDE DEF ds
    <3>2. p \in ToSet(es)
      <4>1. /\ Append(ds, p)[Len(ds) + 1] = p
            /\ Len(ds) + 1 \in DOMAIN Append(ds, p)
        BY <3>1
      <4> HIDE DEF es
      <4> QED
        BY <3>1, <4>1 DEF ToSet
    <3>3. KnownPieces(p.payload)'
      BY <1>1, <3>2 DEF KnownInv, ToSet
    <3>4. Finished' = Finished
      BY <2>3 DEF Finished, Running
    <3> QED
      BY <2>3, <3>3, <3>4 DEF KnownPieces, SentBy, LengthIs
  <2>6. IndexFor(sent, p) \in Seq(Nat)
    BY <1>1, <2>5, IndexForIs
  <2>7. FlattenSeq(Indexes(sent, Decoded')) = FlattenSeq(Indexes(sent, Decoded)) \o IndexFor(sent, p)
    <3> DEFINE ds == Decoded
    <3>1. ds \in Seq(Dec!Packet) /\ Indexes(sent, ds) \in Seq(Seq(Nat))
      BY <2>4
    <3> HIDE DEF ds
    <3>2. FlattenSeq(Indexes(sent, Append(ds, p))) = FlattenSeq(Indexes(sent, ds)) \o IndexFor(sent, p)
      BY <2>6, <3>1, IndexesMore
    <3> QED
      BY <2>2, <3>2 DEF ds
  <2>8. Received' = Received \o IndexFor(sent, p)
    BY <1>2, <1>5, <2>3, <2>7, ReceivedIs
  <2>9. Received \in Seq(Nat)
    BY <1>1, ReceivedType
  <2> DEFINE r == Received
             q == Received'
             i == IndexIn(sent, p.payload[1].data.packet)
  <2>10. CASE HasWholePayload(p)
    <3>1. p.payload[1].data.packet = Head(body).data.packet
            /\ Head(body).data.position + Head(body).payloadLength = Head(body).data.whole
      BY <2>1, <2>2, <2>10, WholeEnds
    <3>2. q = r \o <<i>> /\ r \in Seq(Nat) /\ <<i>> \in Seq(Nat)
      BY <2>6, <2>8, <2>9, <2>10 DEF IndexFor
    <3> HIDE DEF r, q, i
    <3>3. q = Append(r, i)
      <4>1. i \in Nat
        BY <3>2
      <4> QED
        BY <3>2, <4>1
    <3> QED
      BY <1>5, <2>1, <2>2, <2>10, <3>1, <3>3 DEF r, q, i
  <2>11. CASE ~ HasWholePayload(p)
    <3>1. q = r \o <<>> /\ r \in Seq(Nat)
      BY <2>8, <2>9, <2>11 DEF IndexFor
    <3> HIDE DEF r, q
    <3>2. q = r
      BY <3>1
    <3> QED
      BY <3>2 DEF r, q
  <2> QED
    BY <2>10, <2>11
<1> QED
  BY <1>3, <1>4, <1>5

(***************************************************************************)
(* The messages that may still be decoded: those left in the decoder's     *)
(* frame, and those of each frame on the way.                              *)
(***************************************************************************)
Lined(fs, rest) == [i \in 0 .. Len(fs) |-> IF i = 0 THEN rest ELSE fs[i].body]
Pending == Lined(network, body)

InOrderPending(ids, q) ==
    \A i, j \in DOMAIN q : \A k \in DOMAIN q[i], l \in DOMAIN q[j] :
        i < j \/ (i = j /\ k < l) => Before(ids, q[i][k], q[j][l])

\* The messages of q are of packets behind the r-th.
BehindAll(ids, r, q) ==
    \A i \in DOMAIN q : \A k \in DOMAIN q[i] :
        \E j \in DOMAIN ids : ids[j] = q[i][k].data.packet /\ r < j

(***************************************************************************)
(* On a network that keeps the order, what is still to be decoded is in    *)
(* the order of the packets passed to encode(), and behind what has been   *)
(* received.                                                               *)
(***************************************************************************)
ChannelInv ==
    InOrder =>
        /\ InOrderPending(sent, Pending)
        /\ \A r \in ToSet(Received) : r \in 1 .. Finished /\ BehindAll(sent, r, Pending)

LEMMA PendingIs ==
    ASSUME LinkTypes
    PROVE  /\ DOMAIN Pending = 0 .. Len(network) /\ Len(network) \in Nat
           /\ Pending[0] = body
           /\ \A i \in 1 .. Len(network) : Pending[i] = network[i].body
           /\ \A i \in DOMAIN Pending : Pending[i] \in Seq(MessageHeader)
<1>1. network \in Seq(Frame) /\ body \in Seq(MessageHeader)
  BY DEF LinkTypes, DecTypes
<1>2. DOMAIN Pending = 0 .. Len(network) /\ Len(network) \in Nat /\ Pending[0] = body
  BY <1>1 DEF Pending, Lined
<1>3. \A i \in 1 .. Len(network) : Pending[i] = network[i].body
  BY <1>1 DEF Pending, Lined
<1>4. \A i \in 1 .. Len(network) : network[i].body \in Seq(MessageHeader)
  BY <1>1, BodyType
<1>5. \A i \in 0 .. Len(network) : i = 0 \/ i \in 1 .. Len(network)
  BY <1>2
<1> QED
  BY <1>1, <1>2, <1>3, <1>4, <1>5

LEMMA PendingKnown ==
    ASSUME LinkTypes, KnownInv, NEW i \in DOMAIN Pending, NEW k \in DOMAIN Pending[i]
    PROVE  Known(Pending[i][k]) /\ Pending[i][k] \in MessageHeader
<1>1. Pending[i] \in Seq(MessageHeader)
  BY PendingIs
<1>2. Pending[i][k] \in MessageHeader
  BY <1>1
<1>3. CASE i = 0
  BY <1>2, <1>3, PendingIs DEF KnownInv, ToSet
<1>4. CASE i # 0
  <2>1. i \in 1 .. Len(network) /\ Pending[i] = network[i].body
    BY <1>4, PendingIs
  <2>2. network[i] \in Flying
    <3>1. network \in Seq(Frame)
      BY DEF LinkTypes
    <3> QED
      BY <2>1, <3>1 DEF Flying, ToSet
  <2> QED
    BY <1>2, <2>1, <2>2 DEF KnownInv, KnownFrame
<1> QED
  BY <1>3, <1>4

(***************************************************************************)
(* q is what is left of p: f tells where each part was, d what is gone     *)
(* from its front.                                                         *)
(***************************************************************************)
Embeds(f, d, q, p) ==
    /\ \A i \in DOMAIN q : f[i] \in Nat /\ d[i] \in Nat
    /\ \A i, j \in DOMAIN q : i < j => f[i] < f[j]
    /\ \A i \in DOMAIN q : \A k \in DOMAIN q[i] :
         /\ f[i] \in DOMAIN p /\ k + d[i] \in DOMAIN p[f[i]]
         /\ q[i][k] = p[f[i]][k + d[i]]

LEMMA EmbeddedOrder ==
    ASSUME NEW p, NEW q, NEW f, NEW d, Embeds(f, d, q, p),
           \A i \in DOMAIN q : DOMAIN q[i] \subseteq Nat,
           NEW ids, InOrderPending(ids, p)
    PROVE  InOrderPending(ids, q)
<1> SUFFICES ASSUME NEW i \in DOMAIN q, NEW j \in DOMAIN q,
                    NEW k \in DOMAIN q[i], NEW l \in DOMAIN q[j],
                    i < j \/ (i = j /\ k < l)
             PROVE  Before(ids, q[i][k], q[j][l])
  BY DEF InOrderPending
<1>1. /\ f[i] \in DOMAIN p /\ k + d[i] \in DOMAIN p[f[i]] /\ q[i][k] = p[f[i]][k + d[i]]
      /\ f[j] \in DOMAIN p /\ l + d[j] \in DOMAIN p[f[j]] /\ q[j][l] = p[f[j]][l + d[j]]
  BY DEF Embeds
<1>2. f[i] < f[j] \/ (f[i] = f[j] /\ k + d[i] < l + d[j])
  <2>1. k \in Nat /\ l \in Nat /\ d[i] \in Nat /\ d[j] \in Nat
    BY DEF Embeds
  <2>2. i < j => f[i] < f[j]
    BY DEF Embeds
  <2>3. CASE i = j /\ k < l
    BY <2>1, <2>3
  <2> QED
    BY <2>2, <2>3
<1>3. Before(ids, p[f[i]][k + d[i]], p[f[j]][l + d[j]])
  BY <1>1, <1>2 DEF InOrderPending
<1> QED
  BY <1>1, <1>3

LEMMA EmbeddedBehind ==
    ASSUME NEW p, NEW q, NEW f, NEW d, Embeds(f, d, q, p),
           NEW ids, NEW r, BehindAll(ids, r, p)
    PROVE  BehindAll(ids, r, q)
BY DEF BehindAll, Embeds

\* What is left after any step but one that sends frames; a turn of decode()'s
\* loop takes the first message away at least.
LEMMA PendingStep ==
    ASSUME LinkTypes, LinkTypes', [LinkNext]_linkVars, InOrder, ~ SendFrames
    PROVE  \E f, d : Embeds(f, d, Pending', Pending)
                       /\ (Decode => f[0] = 0 /\ d[0] = 1)
<1> DEFINE n == Len(network)
           p == Pending
           q == Pending'
<1>1. /\ DOMAIN p = 0 .. n /\ n \in Nat /\ p[0] = body
      /\ \A i \in 1 .. n : p[i] = network[i].body
      /\ \A i \in DOMAIN p : p[i] \in Seq(MessageHeader)
      /\ network \in Seq(Frame)
  BY PendingIs DEF LinkTypes
<1>2. /\ DOMAIN q = 0 .. Len(network') /\ Len(network') \in Nat /\ q[0] = body'
      /\ \A i \in 1 .. Len(network') : q[i] = network'[i].body
      /\ \A i \in DOMAIN q : q[i] \in Seq(MessageHeader)
      /\ network' \in Seq(Frame)
  <2>1. network' \in Seq(Frame) /\ body' \in Seq(MessageHeader)
    BY DEF LinkTypes, DecTypes
  <2>2. DOMAIN q = 0 .. Len(network') /\ Len(network') \in Nat /\ q[0] = body'
    BY <2>1 DEF Pending, Lined
  <2>3. \A i \in 1 .. Len(network') : q[i] = network'[i].body
    BY <2>1 DEF Pending, Lined
  <2>4. \A i \in 1 .. Len(network') : network'[i].body \in Seq(MessageHeader)
    BY <2>1, BodyType
  <2>5. \A i \in 0 .. Len(network') : i = 0 \/ i \in 1 .. Len(network')
    BY <2>2
  <2> QED
    BY <2>1, <2>2, <2>3, <2>4, <2>5
<1> HIDE DEF n, p, q
<1>3. CASE Deliver
  <2>1. /\ 1 \in DOMAIN network /\ network' = RemoveAt(network, 1)
        /\ frame = NoFrame
        /\ body' = body \/ body' = network[1].body
    BY <1>3, DeliverIs DEF InOrder
  <2>2. body = <<>>
    BY <2>1 DEF LinkTypes
  <2>3. Len(network') = n - 1 /\ \A j \in 1 .. n - 1 : network'[j] = network[j + 1]
    <3>1. Len(network') = n - 1
            /\ \A j \in 1 .. n - 1 : network'[j] = IF j < 1 THEN network[j] ELSE network[j + 1]
      BY <1>1, <2>1, RemoveAtIs DEF n
    <3> QED
      BY <1>1, <3>1
  <2> DEFINE f == [i \in 0 .. n - 1 |-> i + 1]
             d == [i \in 0 .. n - 1 |-> 0]
  <2>4. n >= 1
    BY <1>1, <2>1 DEF n
  <2>5. ASSUME NEW i \in 0 .. n - 1, NEW k \in DOMAIN q[i]
        PROVE  f[i] \in DOMAIN p /\ k + d[i] \in DOMAIN p[f[i]] /\ q[i][k] = p[f[i]][k + d[i]]
    <3>1. i + 1 \in 1 .. n /\ f[i] = i + 1 /\ d[i] = 0 /\ i \in DOMAIN q
      BY <1>1, <1>2, <2>3, <2>4
    <3>2. p[i + 1] = network[i + 1].body
      BY <1>1, <3>1
    <3>3. q[i] = p[i + 1]
      <4>1. CASE i = 0
        <5>1. q[i] = body' /\ body' # <<>>
          BY <1>2, <2>5, <4>1
        <5> QED
          BY <2>1, <2>2, <3>2, <4>1, <5>1
      <4>2. CASE i # 0
        <5>1. i \in 1 .. n - 1 /\ i \in 1 .. Len(network')
          BY <1>1, <2>3, <4>2
        <5> QED
          BY <1>2, <2>3, <3>2, <5>1
      <4> QED
        BY <4>1, <4>2
    <3>4. k \in Nat
      BY <1>2, <3>1
    <3> QED
      BY <1>1, <3>1, <3>3, <3>4
  <2>6. Embeds(f, d, q, p)
    <3>1. DOMAIN q = 0 .. n - 1
      BY <1>2, <2>3
    <3>2. /\ \A i \in DOMAIN q : f[i] \in Nat /\ d[i] \in Nat
          /\ \A i, j \in DOMAIN q : i < j => f[i] < f[j]
      BY <1>1, <3>1
    <3> QED
      BY <2>5, <3>1, <3>2 DEF Embeds
  <2>7. ~ Decode
    BY <2>1, TurnIs, NoFrameAssumption DEF Decode, LinkTypes
  <2> QED
    BY <2>6, <2>7 DEF p, q
<1>4. CASE Lose
  <2>1. PICK x \in DOMAIN network : network' = RemoveAt(network, x)
    BY <1>4 DEF Lose
  <2>2. /\ Len(network') = n - 1 /\ x \in 1 .. n
        /\ \A j \in 1 .. n - 1 : network'[j] = IF j < x THEN network[j] ELSE network[j + 1]
    BY <1>1, <2>1, RemoveAtIs DEF n
  <2>3. body' = body /\ frame' = frame
    BY <1>4 DEF Lose, decVars
  <2> DEFINE f == [i \in 0 .. n - 1 |-> IF i < x THEN i ELSE i + 1]
             d == [i \in 0 .. n - 1 |-> 0]
  <2>5. ASSUME NEW i \in 0 .. n - 1, NEW k \in DOMAIN q[i]
        PROVE  f[i] \in DOMAIN p /\ k + d[i] \in DOMAIN p[f[i]] /\ q[i][k] = p[f[i]][k + d[i]]
    <3>1. f[i] \in 0 .. n /\ d[i] = 0 /\ i \in DOMAIN q
      BY <1>1, <1>2, <2>2
    <3>2. q[i] = p[f[i]]
      <4>1. CASE i = 0
        BY <1>1, <1>2, <2>2, <2>3, <4>1
      <4>2. CASE i # 0
        <5>1. i \in 1 .. n - 1 /\ i \in 1 .. Len(network')
          BY <1>1, <2>2, <4>2
        <5>2. f[i] \in 1 .. n /\ network'[i] = network[f[i]]
          BY <1>1, <2>2, <5>1
        <5> QED
          BY <1>1, <1>2, <5>1, <5>2
      <4> QED
        BY <4>1, <4>2
    <3>4. k \in Nat
      BY <1>2, <3>1
    <3> QED
      BY <1>1, <3>1, <3>2, <3>4
  <2>6. Embeds(f, d, q, p)
    <3>1. DOMAIN q = 0 .. n - 1
      BY <1>2, <2>2
    <3>2. /\ \A i \in DOMAIN q : f[i] \in Nat /\ d[i] \in Nat
          /\ \A i, j \in DOMAIN q : i < j => f[i] < f[j]
      BY <1>1, <2>2, <3>1
    <3> QED
      BY <2>5, <3>1, <3>2 DEF Embeds
  <2>7. ~ Decode
    <3>1. network \in Seq(Frame) /\ Len(network') = Len(network) - 1
      BY <1>1, <2>2 DEF n
    <3>2. network' # network
      BY <3>1
    <3> QED
      BY <3>2 DEF Decode
  <2> QED
    BY <2>6, <2>7 DEF p, q
<1>5. CASE ~ (Deliver \/ Lose)
  <2>1. network' = network
    BY <1>5 DEF LinkNext, linkVars, CallEncode, Reconfigure, Encode, Decode, ReturnPackets,
                Duplicate, InOrder
  <2>2. /\ body' = body \/ body' = <<>> \/ (Decode /\ body # <<>> /\ body' = Tail(body))
        /\ Decode => body' = <<>> \/ (body # <<>> /\ body' = Tail(body))
    <3>1. Decode => TookNone \/ (body # <<>> /\ Took(Head(body)))
      BY TurnIs DEF Decode, LinkTypes
    <3>2. Decode => body' = <<>> \/ (body # <<>> /\ body' = Tail(body))
      BY <3>1 DEF TookNone, Took, TookWhole, TookFirst, TookNext, TookLast
    <3>3. ReturnPackets => body' = <<>>
      BY DEF ReturnPackets, Dec!Return
    <3> QED
      BY <1>5, <3>2, <3>3 DEF LinkNext, linkVars, decVars, CallEncode, Reconfigure, Encode,
                Duplicate, InOrder
  <2> DEFINE e == IF Decode THEN 1 ELSE 0
             f == [i \in 0 .. n |-> i]
             d == [i \in 0 .. n |-> IF i = 0 THEN e ELSE 0]
  <2>3. e \in Nat /\ (Decode => e = 1)
    OBVIOUS
  <2>4. \A k \in DOMAIN q[0] : k \in Nat /\ k + e \in DOMAIN body /\ q[0][k] = body[k + e]
    <3>1. body \in Seq(MessageHeader) /\ q[0] = body'
      BY <1>1, <1>2
    <3>2. CASE Decode
      <4>1. CASE body' = <<>>
        BY <3>1, <4>1
      <4>2. CASE body # <<>> /\ body' = Tail(body)
        BY <3>1, <3>2, <4>2
      <4> QED
        BY <2>2, <3>2, <4>1, <4>2
    <3>3. CASE ~ Decode
      BY <2>2, <3>1, <3>3
    <3> QED
      BY <3>2, <3>3
  <2>a. DOMAIN q = 0 .. n /\ DOMAIN p = 0 .. n
    BY <1>1, <1>2, <2>1 DEF n
  <2> HIDE DEF e
  <2>5. ASSUME NEW i \in 0 .. n, NEW k \in DOMAIN q[i]
        PROVE  f[i] \in DOMAIN p /\ k + d[i] \in DOMAIN p[f[i]] /\ q[i][k] = p[f[i]][k + d[i]]
    <3>1. CASE i = 0
      BY <1>1, <2>4, <2>a, <3>1
    <3>2. CASE i # 0
      <4>1. i \in 1 .. n /\ i \in 1 .. Len(network') /\ i \in DOMAIN q
        BY <1>1, <2>1, <2>a, <3>2 DEF n
      <4>2. q[i] = p[i] /\ f[i] = i /\ d[i] = 0
        BY <1>1, <1>2, <2>1, <3>2, <4>1
      <4>3. k \in Nat
        BY <1>2, <4>1
      <4> QED
        BY <2>a, <4>1, <4>2, <4>3
    <3> QED
      BY <3>1, <3>2
  <2>6. Embeds(f, d, q, p)
    <3>2. /\ \A i \in DOMAIN q : f[i] \in Nat /\ d[i] \in Nat
          /\ \A i, j \in DOMAIN q : i < j => f[i] < f[j]
      BY <1>1, <2>3, <2>a
    <3> QED
      BY <2>5, <2>a, <3>2 DEF Embeds
  <2>7. f[0] = 0 /\ d[0] = e
    BY <1>1
  <2> HIDE DEF f, d
  <2> QED
    BY <2>3, <2>6, <2>7 DEF p, q
<1> QED
  BY <1>3, <1>4, <1>5

LEMMA BeforeStays ==
    ASSUME LinkTypes, LinkTypes', Remembered, NEW m, NEW n, Before(sent, m, n)
    PROVE  Before(sent', m, n)
<1>1. sent \in Seq(PacketId) /\ sent' \in Seq(PacketId)
  BY DEF LinkTypes
<1>2. Len(sent') >= Len(sent) /\ \A i \in 1 .. Len(sent) : sent'[i] = sent[i]
  BY DEF Remembered
<1>3. \A i \in DOMAIN sent : i \in DOMAIN sent' /\ sent'[i] = sent[i]
  BY <1>1, <1>2
<1> QED
  BY <1>3 DEF Before

LEMMA BehindStays ==
    ASSUME LinkTypes, LinkTypes', Remembered, NEW r, NEW q, BehindAll(sent, r, q)
    PROVE  BehindAll(sent', r, q)
<1>1. sent \in Seq(PacketId) /\ sent' \in Seq(PacketId)
  BY DEF LinkTypes
<1>2. Len(sent') >= Len(sent) /\ \A i \in 1 .. Len(sent) : sent'[i] = sent[i]
  BY DEF Remembered
<1>3. \A i \in DOMAIN sent : i \in DOMAIN sent' /\ sent'[i] = sent[i]
  BY <1>1, <1>2
<1> QED
  BY <1>3 DEF BehindAll

\* The order in the running request is the order in all the packets.
LEMMA BeforeInRequest ==
    ASSUME LinkTypes, IInv, SentInv, Running, NEW m, NEW n, Before(RequestIds, m, n)
    PROVE  Before(sent, m, n)
<1> DEFINE a == Len(sent) - Len(request)
<1>1. /\ sent \in Seq(PacketId) /\ Len(sent) \in Nat /\ DOMAIN sent = 1 .. Len(sent)
      /\ request \in Seq(Packets) /\ Len(request) \in Nat
      /\ DOMAIN request = 1 .. Len(request)
  BY FinishedIs
<1>2. a \in Nat /\ \A j \in DOMAIN request : sent[a + j] = request[j].id
  BY <1>1 DEF SentInv
<1>3. \A j \in DOMAIN request : a + j \in DOMAIN sent
  BY <1>1, <1>2
<1>4. PICK i, j \in DOMAIN request :
        /\ request[i].id = m.data.packet
        /\ request[j].id = n.data.packet
        /\ \/ i < j
           \/ i = j /\ m.data.position + m.payloadLength <= n.data.position
  BY DEF Before, RequestIds
<1>5. (i < j => a + i < a + j) /\ (i = j => a + i = a + j)
  BY <1>1, <1>2
<1>6. /\ a + i \in DOMAIN sent /\ a + j \in DOMAIN sent
      /\ sent[a + i] = m.data.packet /\ sent[a + j] = n.data.packet
  BY <1>2, <1>3, <1>4
<1> HIDE DEF a
<1> QED
  BY <1>4, <1>5, <1>6 DEF Before

\* The frames that encode() returns are in the order of the request, and
\* behind all that was sent before.
LEMMA FramesInOrder ==
    ASSUME LinkInv, SendFrames
    PROVE  /\ InOrderFrames(sent, frames')
           /\ \A i \in DOMAIN frames' : \A k \in DOMAIN frames'[i].body :
                \E j \in DOMAIN sent : sent[j] = frames'[i].body[k].data.packet /\ Finished < j
<1>1. /\ IInv /\ OrderInv /\ SentInv /\ LinkTypes /\ Running
      /\ pc = "packet" /\ frames' = ClosedFrames(enc)
  BY DEF LinkInv, SendFrames, ReturnFrames, Running
<1>2. enc \in EncoderState /\ OpenFrame(enc)
  BY <1>1 DEF IInv, Sound
<1> DEFINE fs == frames'
<1>3. fs \in Seq(Frame) /\ Messages(fs) = Written(enc)
  BY <1>1, <1>2, ClosedFramesHold, MessagesClosed
<1>4. /\ \A m \in ToSet(Written(enc)) : InPayload(m) /\ Placed(m)
      /\ Sorted(RequestIds, Written(enc))
  BY <1>1 DEF OrderInv
<1> HIDE DEF fs
<1>5. InOrderFrames(RequestIds, fs)
  BY <1>3, <1>4, SortedFrames
<1>6. InOrderFrames(sent, fs)
  BY <1>1, <1>5, BeforeInRequest DEF InOrderFrames
<1>7. /\ sent \in Seq(PacketId) /\ Len(sent) \in Nat /\ DOMAIN sent = 1 .. Len(sent)
      /\ request \in Seq(Packets) /\ Len(request) \in Nat
      /\ DOMAIN request = 1 .. Len(request)
  BY <1>1, FinishedIs
<1>8. ASSUME NEW i \in DOMAIN fs, NEW k \in DOMAIN fs[i].body
      PROVE  \E j \in DOMAIN sent : sent[j] = fs[i].body[k].data.packet /\ Finished < j
  <2>1. Placed(fs[i].body[k])
    BY <1>3, <1>4, MessageIn
  <2>2. PICK j \in DOMAIN request : fs[i].body[k].data.packet = request[j].id
    BY <2>1 DEF Placed
  <2>3. /\ Len(request) <= Len(sent) /\ sent[Len(sent) - Len(request) + j] = request[j].id
        /\ Finished = Len(sent) - Len(request)
    BY <1>1 DEF SentInv, Finished
  <2>4. Len(sent) - Len(request) + j \in DOMAIN sent /\ Finished < Len(sent) - Len(request) + j
    BY <1>7, <2>3
  <2> QED
    BY <2>2, <2>3, <2>4
<1> QED
  BY <1>6, <1>8 DEF fs

\* What is still to be decoded, when frames are sent.
LEMMA PendingSent ==
    ASSUME LinkTypes, LinkTypes', IInv', SendFrames
    PROVE  LET n == Len(network)
               m == Len(frames')
           IN  /\ DOMAIN Pending' = 0 .. n + m
               /\ n \in Nat /\ m \in Nat /\ DOMAIN Pending = 0 .. n /\ DOMAIN frames' = 1 .. m
               /\ \A i \in 0 .. n : Pending'[i] = Pending[i]
               /\ \A i \in 1 .. m : Pending'[n + i] = frames'[i].body
<1> DEFINE n == Len(network)
           fs == frames'
           m == Len(fs)
<1>1. network' = network \o fs /\ body' = body /\ fs \in Seq(Frame) /\ network \in Seq(Frame)
  BY DEF SendFrames, decVars, IInv, TypeOK, LinkTypes
<1> HIDE DEF fs
<1>2. n \in Nat /\ m \in Nat /\ DOMAIN fs = 1 .. m
  BY <1>1
<1>3. /\ Len(network \o fs) = n + m
      /\ \A i \in 1 .. n : (network \o fs)[i] = network[i]
      /\ \A i \in 1 .. m : (network \o fs)[n + i] = fs[i]
  BY ONLY <1>1, ConcatIs DEF n, m
<1>4. Pending' = [i \in 0 .. n + m |-> IF i = 0 THEN body ELSE (network \o fs)[i].body]
  BY <1>1, <1>3 DEF Pending, Lined
<1>5. Pending = [i \in 0 .. n |-> IF i = 0 THEN body ELSE network[i].body]
  BY DEF Pending, Lined
<1> HIDE DEF n, m
<1>6. \A i \in 0 .. n : Pending'[i] = Pending[i]
  <2> SUFFICES ASSUME NEW i \in 0 .. n PROVE Pending'[i] = Pending[i]
    OBVIOUS
  <2>1. i \in 0 .. n + m /\ (i = 0 \/ i \in 1 .. n)
    BY <1>2
  <2> QED
    BY <1>3, <1>4, <1>5, <2>1
<1>7. \A i \in 1 .. m : Pending'[n + i] = fs[i].body
  <2> SUFFICES ASSUME NEW i \in 1 .. m PROVE Pending'[n + i] = fs[i].body
    OBVIOUS
  <2>1. n + i \in 0 .. n + m /\ n + i # 0
    BY <1>2
  <2> QED
    BY <1>3, <1>4, <2>1
<1> QED
  BY <1>2, <1>4, <1>5, <1>6, <1>7 DEF n, m, fs

\* Frames sent keep the order, and are behind what has been received.
LEMMA SendFramesOrder ==
    ASSUME LinkInv, LinkInv', SendFrames, InOrderPending(sent, Pending)
    PROVE  InOrderPending(sent', Pending')
<1>0. LinkTypes /\ LinkTypes' /\ IInv' /\ IInv /\ KnownInv /\ SentInv
  BY DEF LinkInv
<1> DEFINE n == Len(network)
           fs == frames'
           m == Len(fs)
           p == Pending
           q == Pending'
<1>1. /\ DOMAIN q = 0 .. n + m
      /\ n \in Nat /\ m \in Nat /\ DOMAIN p = 0 .. n /\ DOMAIN fs = 1 .. m
      /\ \A i \in 0 .. n : q[i] = p[i]
      /\ \A i \in 1 .. m : q[n + i] = fs[i].body
  BY <1>0, PendingSent
<1>2. /\ InOrderFrames(sent, fs)
      /\ \A i \in DOMAIN fs : \A k \in DOMAIN fs[i].body :
           \E j \in DOMAIN sent : sent[j] = fs[i].body[k].data.packet /\ Finished < j
  BY FramesInOrder
<1>3. InOrderPending(sent, p)
  OBVIOUS
<1>4. \A i \in DOMAIN p : \A k \in DOMAIN p[i] : Known(p[i][k])
  BY <1>0, PendingKnown
<1>5. Finished \in Nat /\ Finished <= Len(sent) /\ DOMAIN sent = 1 .. Len(sent) /\ Len(sent) \in Nat
  BY <1>0, FinishedIs
<1>6. sent' = sent
  BY DEF SendFrames, histVars
<1> HIDE DEF n, m, fs, p, q
<1>7. \A i \in DOMAIN q : i \in DOMAIN p \/ (i - n \in 1 .. m /\ i = n + (i - n))
  BY <1>1
<1>8. InOrderPending(sent, q)
  <2> SUFFICES ASSUME NEW i \in DOMAIN q, NEW j \in DOMAIN q,
                      NEW k \in DOMAIN q[i], NEW l \in DOMAIN q[j],
                      i < j \/ (i = j /\ k < l)
               PROVE  Before(sent, q[i][k], q[j][l])
    BY DEF InOrderPending
  <2>1. CASE i \in DOMAIN p /\ j \in DOMAIN p
    <3>1. q[i] = p[i] /\ q[j] = p[j]
      BY <1>1, <2>1
    <3> QED
      BY <1>3, <2>1, <3>1 DEF InOrderPending
  <2>2. CASE i \in DOMAIN p /\ j - n \in 1 .. m /\ j = n + (j - n)
    <3>1. q[i] = p[i] /\ q[j] = fs[j - n].body
      BY <1>1, <2>2
    <3>2. PICK a \in 1 .. Finished : sent[a] = q[i][k].data.packet
      BY <1>4, <2>2, <3>1 DEF Known, SentBy
    <3>3. PICK b \in DOMAIN sent : sent[b] = q[j][l].data.packet /\ Finished < b
      BY <1>1, <1>2, <2>2, <3>1
    <3>4. a \in DOMAIN sent /\ a < b
      BY <1>5, <3>3
    <3> QED
      BY <3>2, <3>3, <3>4 DEF Before
  <2>3. CASE i - n \in 1 .. m /\ i = n + (i - n) /\ j \in DOMAIN p
    BY <1>1, <2>3
  <2>4. CASE /\ i - n \in 1 .. m /\ i = n + (i - n) /\ j - n \in 1 .. m /\ j = n + (j - n)
    <3>1. q[i] = fs[i - n].body /\ q[j] = fs[j - n].body
      BY <1>1, <2>4
    <3>2. i - n < j - n \/ (i - n = j - n /\ k < l)
      BY <1>1
    <3>3. i - n \in DOMAIN fs /\ j - n \in DOMAIN fs
      BY <1>1, <2>4
    <3> QED
      BY <1>2, <3>1, <3>2, <3>3 DEF InOrderFrames
  <2> QED
    BY <1>7, <2>1, <2>2, <2>3, <2>4
<1> QED
  BY <1>6, <1>8 DEF q

LEMMA SendFramesBehind ==
    ASSUME LinkInv, LinkInv', SendFrames,
           NEW r \in 1 .. Finished, BehindAll(sent, r, Pending)
    PROVE  BehindAll(sent', r, Pending')
<1>0. LinkTypes /\ LinkTypes' /\ IInv' /\ IInv /\ KnownInv /\ SentInv
  BY DEF LinkInv
<1> DEFINE n == Len(network)
           fs == frames'
           m == Len(fs)
           p == Pending
           q == Pending'
<1>1. /\ DOMAIN q = 0 .. n + m
      /\ n \in Nat /\ m \in Nat /\ DOMAIN p = 0 .. n /\ DOMAIN fs = 1 .. m
      /\ \A i \in 0 .. n : q[i] = p[i]
      /\ \A i \in 1 .. m : q[n + i] = fs[i].body
  BY <1>0, PendingSent
<1>2. \A i \in DOMAIN fs : \A k \in DOMAIN fs[i].body :
           \E j \in DOMAIN sent : sent[j] = fs[i].body[k].data.packet /\ Finished < j
  BY FramesInOrder
<1>3. BehindAll(sent, r, p)
  OBVIOUS
<1>5. Finished \in Nat /\ Finished <= Len(sent) /\ DOMAIN sent = 1 .. Len(sent) /\ Len(sent) \in Nat
  BY <1>0, FinishedIs
<1>6. sent' = sent
  BY DEF SendFrames, histVars
<1> HIDE DEF n, m, fs, p, q
<1>7. \A i \in DOMAIN q : i \in DOMAIN p \/ (i - n \in 1 .. m /\ i = n + (i - n))
  BY <1>1
<1>8. ASSUME NEW i \in DOMAIN q, NEW k \in DOMAIN q[i]
      PROVE  \E j \in DOMAIN sent : sent[j] = q[i][k].data.packet /\ r < j
  <2>1. CASE i \in DOMAIN p
    <3>1. q[i] = p[i]
      BY <1>1, <2>1
    <3> QED
      BY <1>3, <2>1, <3>1 DEF BehindAll
  <2>2. CASE i - n \in 1 .. m /\ i = n + (i - n)
    <3>1. q[i] = fs[i - n].body
      BY <1>1, <2>2
    <3>2. PICK b \in DOMAIN sent : sent[b] = q[i][k].data.packet /\ Finished < b
      BY <1>1, <1>2, <2>2, <3>1
    <3>3. r < b
      BY <1>5, <3>2
    <3> QED
      BY <3>2, <3>3
  <2> QED
    BY <1>7, <2>1, <2>2
<1> QED
  BY <1>6, <1>8 DEF q, BehindAll

\* In a whole payload nothing is left behind its last byte.
LEMMA NothingBehind ==
    ASSUME NEW m \in MessageHeader, NEW n \in MessageHeader,
           InPayload(n), LengthIs(m.data), LengthIs(n.data),
           m.data.packet = n.data.packet,
           m.data.position + m.payloadLength = m.data.whole,
           m.data.position + m.payloadLength <= n.data.position
    PROVE  FALSE
<1>1. PICK a \in Packets : a.id = m.data.packet /\ a.payloadLength = m.data.whole
  BY DEF LengthIs
<1>2. PICK b \in Packets : b.id = n.data.packet /\ b.payloadLength = n.data.whole
  BY DEF LengthIs
<1>3. a = b
  BY <1>1, <1>2, PacketIdsAssumption
<1>4. m.data.whole = n.data.whole
  BY <1>1, <1>2, <1>3
<1>5. /\ m.data.position \in Nat /\ n.data.position \in Nat /\ m.data.whole \in Nat
      /\ m.payloadLength \in Nat /\ n.payloadLength \in Nat
  BY DEF MessageHeader, PayloadData, Length
<1> QED
  BY <1>4, <1>5 DEF InPayload

\* The packet received last is behind the others received, and before all that
\* is left to be decoded.
LEMMA ReceivedNext ==
    ASSUME LinkInv, LinkInv', [LinkNext]_linkVars, Remembered, ChannelInv,
           InOrder, Decode, body # <<>>,
           Head(body).data.position + Head(body).payloadLength = Head(body).data.whole
    PROVE  LET i == IndexIn(sent, Head(body).data.packet)
           IN  /\ i \in 1 .. Finished
               /\ \A r \in ToSet(Received) : r < i
               /\ BehindAll(sent, i, Pending')
<1> DEFINE h == Head(body)
           i == IndexIn(sent, h.data.packet)
           p == Pending
           q == Pending'
<1>1. /\ LinkTypes /\ LinkTypes' /\ IInv /\ SentInv /\ SentInv' /\ KnownInv
      /\ IInv' /\ KnownInv'
  BY DEF LinkInv
<1>2. /\ 0 \in DOMAIN p /\ 1 \in DOMAIN p[0] /\ p[0][1] = h /\ DOMAIN p = 0 .. Len(network)
      /\ Len(network) \in Nat /\ \A x \in DOMAIN p : p[x] \in Seq(MessageHeader)
  <2>1. body \in Seq(MessageHeader) /\ p[0] = body
    BY <1>1, PendingIs DEF LinkTypes, DecTypes
  <2>2. 1 \in DOMAIN body /\ h = body[1]
    BY <2>1
  <2>3. DOMAIN p = 0 .. Len(network) /\ Len(network) \in Nat
           /\ \A x \in DOMAIN p : p[x] \in Seq(MessageHeader)
    BY <1>1, PendingIs
  <2> QED
    BY <2>1, <2>2, <2>3
<1>3. \A x \in DOMAIN p : \A k \in DOMAIN p[x] : Known(p[x][k]) /\ p[x][k] \in MessageHeader
  BY <1>1, PendingKnown
<1>4. Known(h) /\ h \in MessageHeader
  BY <1>2, <1>3
<1>5. DOMAIN sent = 1 .. Len(sent) /\ Len(sent) \in Nat /\ Finished \in Nat /\ Finished <= Len(sent)
  BY <1>1, FinishedIs
<1>6. \A x \in DOMAIN sent : sent[x] = h.data.packet => x = i
  BY <1>1, IndexOfIs
<1>7. i \in 1 .. Finished
  BY <1>1, <1>4, IndexStays DEF Known
<1>8. /\ InOrderPending(sent, p)
      /\ \A r \in ToSet(Received) : BehindAll(sent, r, p)
  BY DEF ChannelInv
<1>9. ASSUME NEW r \in ToSet(Received) PROVE r < i
  <2>1. BehindAll(sent, r, p)
    BY <1>8
  <2>2. PICK j \in DOMAIN sent : sent[j] = p[0][1].data.packet /\ r < j
    BY <1>2, <2>1 DEF BehindAll
  <2> QED
    BY <1>2, <1>6, <2>2
<1>10. PICK f, d : Embeds(f, d, q, p) /\ f[0] = 0 /\ d[0] = 1
  <2>1. ~ SendFrames
    BY DEF Decode, SendFrames, vars, ReturnFrames
  <2> QED
    BY <1>1, <2>1, PendingStep
<1>11. /\ 0 \in DOMAIN q /\ DOMAIN q \subseteq Nat
       /\ \A x \in DOMAIN q : DOMAIN q[x] \subseteq Nat \ {0}
  <2>1. network' \in Seq(Frame) /\ body' \in Seq(MessageHeader)
    BY <1>1 DEF LinkTypes, DecTypes
  <2>2. DOMAIN q = 0 .. Len(network') /\ Len(network') \in Nat
    BY <2>1 DEF Pending, Lined
  <2>3. \A x \in DOMAIN q : q[x] = IF x = 0 THEN body' ELSE network'[x].body
    BY DEF Pending, Lined
  <2>4. \A x \in 0 .. Len(network') : x = 0 \/ x \in 1 .. Len(network')
    BY <2>2
  <2>5. \A x \in 1 .. Len(network') : network'[x].body \in Seq(MessageHeader)
    BY <2>1, BodyType
  <2>6. \A x \in DOMAIN q : q[x] \in Seq(MessageHeader)
    BY <2>1, <2>2, <2>3, <2>4, <2>5
  <2> HIDE DEF q
  <2> QED
    BY <2>2, <2>6
<1> HIDE DEF p, q, i, h
<1>12. ASSUME NEW x \in DOMAIN q, NEW k \in DOMAIN q[x]
       PROVE  \E j \in DOMAIN sent : sent[j] = q[x][k].data.packet /\ i < j
  <2> DEFINE y == f[x]
             l == k + d[x]
             n == q[x][k]
  <2>1. y \in DOMAIN p /\ l \in DOMAIN p[y] /\ n = p[y][l]
    BY <1>10 DEF Embeds
  <2>2. 0 < y \/ (0 = y /\ 1 < l)
    <3>1. x \in Nat /\ k \in Nat /\ k # 0 /\ f[x] \in Nat
      BY <1>10, <1>11 DEF Embeds
    <3>2. CASE x = 0
      BY <1>10, <3>1, <3>2
    <3>3. CASE x # 0
      <4>1. 0 < x
        BY <3>1, <3>3
      <4>2. f[0] < f[x]
        BY <1>10, <1>11, <4>1 DEF Embeds
      <4> QED
        BY <1>10, <4>2
    <3> QED
      BY <3>2, <3>3
  <2>3. Known(n) /\ n \in MessageHeader
    BY <1>3, <2>1
  <2>4. Before(sent, h, n)
    <3>1. Before(sent, p[0][1], p[y][l])
      BY <1>2, <1>8, <2>1, <2>2 DEF InOrderPending
    <3> QED
      BY <1>2, <2>1, <3>1
  <2>5. PICK a, j \in DOMAIN sent :
          /\ sent[a] = h.data.packet
          /\ sent[j] = n.data.packet
          /\ \/ a < j
             \/ a = j /\ h.data.position + h.payloadLength <= n.data.position
    BY <2>4 DEF Before
  <2>6. a = i
    BY <1>6, <2>5
  <2>7. ~ (a = j /\ h.data.position + h.payloadLength <= n.data.position)
    <3> HIDE DEF n
    <3>1. h.data.position + h.payloadLength = h.data.whole
      BY DEF h
    <3> QED
      BY <1>4, <2>3, <2>5, <3>1, NothingBehind DEF Known
  <2> QED
    BY <2>5, <2>6, <2>7
<1> QED
  BY <1>7, <1>9, <1>12 DEF BehindAll, h, i, q

LEMMA ChannelInvInit == LinkInit => ChannelInv
<1> SUFFICES ASSUME LinkInit, InOrder
             PROVE  /\ InOrderPending(sent, Pending)
                    /\ \A r \in ToSet(Received) : r \in 1 .. Finished /\ BehindAll(sent, r, Pending)
  BY DEF ChannelInv
<1>1. network = <<>> /\ body = <<>> /\ decoded = <<>> /\ frame = NoFrame
  BY DEF LinkInit, Dec!Init
<1>2. Decoded = <<>>
  BY <1>1 DEF Decoded
<1>3. Indexes(sent, Decoded) = <<>>
  BY <1>2 DEF Indexes
<1>4. Received = <<>>
  BY <1>3, ReceivedIs, FlattenEmpty
<1>5. \A i \in DOMAIN Pending : Pending[i] = <<>>
  BY <1>1 DEF Pending, Lined
<1> QED
  BY <1>4, <1>5 DEF InOrderPending, ToSet

LEMMA InOrderStays ==
    ASSUME [LinkNext]_linkVars
    PROVE  InOrder' = InOrder
<1>1. scenario' = scenario
  BY DEF LinkNext, linkVars, CallEncode, Reconfigure, Encode, SendFrames, Deliver,
         Decode, ReturnPackets, Lose, Duplicate
<1> QED
  BY <1>1 DEF InOrder

\* The order of what is left to be decoded.
LEMMA PendingOrderStep ==
    ASSUME LinkInv, LinkInv', [LinkNext]_linkVars, Remembered, InOrder,
           InOrderPending(sent, Pending)
    PROVE  /\ InOrderPending(sent', Pending')
           /\ \A r \in 1 .. Finished :
                BehindAll(sent, r, Pending) => BehindAll(sent', r, Pending')
<1>1. LinkTypes /\ LinkTypes'
  BY DEF LinkInv
<1>2. CASE SendFrames
  BY <1>2, SendFramesOrder, SendFramesBehind
<1>3. CASE ~ SendFrames
  <2> DEFINE p == Pending
             q == Pending'
  <2>1. PICK f, d : Embeds(f, d, q, p)
    BY <1>1, <1>3, PendingStep
  <2>2. \A x \in DOMAIN q : DOMAIN q[x] \subseteq Nat
    <3>1. network' \in Seq(Frame) /\ body' \in Seq(MessageHeader)
      BY <1>1 DEF LinkTypes, DecTypes
    <3>2. DOMAIN q = 0 .. Len(network') /\ Len(network') \in Nat
      BY <3>1 DEF Pending, Lined
    <3>3. \A x \in DOMAIN q : q[x] = IF x = 0 THEN body' ELSE network'[x].body
      BY DEF Pending, Lined
    <3>4. \A x \in 0 .. Len(network') : x = 0 \/ x \in 1 .. Len(network')
      BY <3>2
    <3>5. \A x \in 1 .. Len(network') : network'[x].body \in Seq(MessageHeader)
      BY <3>1, BodyType
    <3>6. \A x \in DOMAIN q : q[x] \in Seq(MessageHeader)
      BY <3>1, <3>2, <3>3, <3>4, <3>5
    <3> HIDE DEF q
    <3> QED
      BY <3>6
  <2> HIDE DEF q
  <2>3. InOrderPending(sent, q)
    BY <2>1, <2>2, EmbeddedOrder
  <2>4. \A r : BehindAll(sent, r, p) => BehindAll(sent, r, q)
    BY <2>1, EmbeddedBehind
  <2>5. InOrderPending(sent', q)
    BY <1>1, <2>3, BeforeStays DEF InOrderPending
  <2>6. \A r : BehindAll(sent, r, q) => BehindAll(sent', r, q)
    BY <1>1, BehindStays
  <2> QED
    BY <2>4, <2>5, <2>6 DEF q
<1> QED
  BY <1>2, <1>3

LEMMA FinishedNext ==
    ASSUME LinkInv, LinkInv', Remembered
    PROVE  Finished \in Nat /\ Finished' \in Nat /\ Finished <= Finished'
<1>1. LinkTypes /\ IInv /\ SentInv /\ LinkTypes' /\ IInv' /\ SentInv'
  BY DEF LinkInv
<1>2. Finished \in Nat
  BY <1>1, FinishedIs
<1>3. Finished' \in Nat
  <2>1. Finished' = IF Running' THEN Len(sent') - Len(request') ELSE Len(sent')
    BY DEF Finished
  <2>2. Len(sent') \in Nat /\ Len(request') \in Nat
    BY <1>1 DEF LinkTypes, IInv, TypeOK
  <2>3. Running' => Len(request') <= Len(sent')
    BY <1>1 DEF SentInv
  <2> QED
    BY <2>1, <2>2, <2>3
<1> QED
  BY <1>2, <1>3 DEF Remembered

LEMMA ReceivedSeq ==
    ASSUME LinkInv
    PROVE  sent \in Seq(PacketId) /\ Len(sent) \in Nat /\ Finished \in Nat /\ Finished <= Len(sent)
BY FinishedIs DEF LinkInv

\* Sending: the history grows, or nothing happens.
LEMMA SendStep ==
    ASSUME LinkInv, LinkInv', [LinkNext]_linkVars, Received' = Received
    PROVE  [Channel!Next]_<<sent, Received>>
<1>1. sent \in Seq(PacketId) /\ sent' \in Seq(PacketId)
  BY DEF LinkInv, LinkTypes
<1>2. CASE CallEncode
  <2>1. PICK r \in scenario.requests : sent' = sent \o [i \in DOMAIN r |-> r[i].id]
    BY <1>2 DEF CallEncode
  <2>2. r \in Seq(Packets)
    BY ScenariosAssumption, RequestsAssumption DEF LinkInv, LinkTypes, Scenario
  <2> DEFINE ids == [i \in DOMAIN r |-> r[i].id]
  <2>3. ids \in Seq(PacketId)
    BY <2>2, RequestedIs
  <2>4. sent' = sent \o ids
    BY <2>1
  <2> HIDE DEF ids
  <2>5. CASE ids = <<>>
    <3>1. sent' = sent
      BY <1>1, <2>4, <2>5
    <3> QED
      BY <3>1
  <2>6. CASE ids # <<>>
    <3>1. Len(sent \o ids) > Len(sent) /\ SubSeq(sent \o ids, 1, Len(sent)) = sent
      <4>1. Len(sent \o ids) = Len(sent) + Len(ids) /\ Len(ids) > 0 /\ Len(sent) \in Nat
              /\ Len(ids) \in Nat /\ (sent \o ids) \in Seq(PacketId)
              /\ \A i \in 1 .. Len(sent) : (sent \o ids)[i] = sent[i]
        BY ONLY <1>1, <2>3, <2>6
      <4> DEFINE t == sent \o ids
                 n == Len(sent)
                 u == SubSeq(t, 1, n)
      <4>2. t \in Seq(PacketId) /\ n \in Nat /\ n <= Len(t) /\ Len(t) \in Nat
              /\ \A i \in 1 .. n : t[i] = sent[i]
        BY <4>1
      <4> HIDE DEF t, n
      <4>3. u \in Seq(PacketId) /\ Len(u) = n /\ \A i \in 1 .. n : u[i] = t[i]
        BY ONLY <4>2
      <4> HIDE DEF u
      <4>4. u = sent
        <5>1. u \in Seq(PacketId) /\ sent \in Seq(PacketId) /\ Len(u) = Len(sent)
                /\ \A i \in 1 .. Len(u) : u[i] = sent[i]
          BY <1>1, <4>2, <4>3 DEF n
        <5> QED
          BY ONLY <5>1, SameSeq
      <4> QED
        BY <4>1, <4>4 DEF t, n, u
    <3> QED
      BY <2>4, <3>1 DEF Channel!Next, Channel!Send
  <2> QED
    BY <2>5, <2>6
<1>3. CASE ~ CallEncode
  BY <1>3 DEF LinkNext, linkVars, histVars, Reconfigure, Encode, SendFrames, Deliver,
              Decode, ReturnPackets, Lose, Duplicate
<1> QED
  BY <1>2, <1>3

LEMMA ChannelStep ==
    ASSUME LinkInv, LinkInv', [LinkNext]_linkVars, Remembered, ChannelInv
    PROVE  ChannelInv' /\ [Channel!Next]_<<sent, Received>>
<1>1. InOrder' = InOrder
  BY InOrderStays
<1>2. Finished \in Nat /\ Finished' \in Nat /\ Finished <= Finished'
  BY FinishedNext
<1>3. InOrder => /\ InOrderPending(sent', Pending')
                 /\ \A r \in ToSet(Received) : r \in 1 .. Finished /\ BehindAll(sent', r, Pending')
  BY PendingOrderStep DEF ChannelInv
<1>4. \A r : r \in 1 .. Finished => r \in 1 .. Finished'
  BY <1>2
<1>5. CASE Received' = Received
  <2>1. ChannelInv'
    BY <1>1, <1>3, <1>4, <1>5 DEF ChannelInv
  <2> QED
    BY <1>5, <2>1, SendStep
<1>6. CASE Received' # Received
  <2> DEFINE h == Head(body)
             i == IndexIn(sent, h.data.packet)
             r == Received
             q == Received'
  <2>1. /\ InOrder /\ Decode /\ body # <<>> /\ q = Append(r, i)
        /\ h.data.position + h.payloadLength = h.data.whole
    BY <1>6, ReceivedStep
  <2>2. /\ i \in 1 .. Finished
        /\ \A x \in ToSet(r) : x < i
        /\ BehindAll(sent, i, Pending')
    BY <2>1, ReceivedNext
  <2>3. sent' = sent
    BY <2>1 DEF Decode, histVars
  <2>4. r \in Seq(Nat)
    BY ReceivedType DEF LinkInv
  <2>5. Finished \in Nat /\ Finished <= Len(sent) /\ Len(sent) \in Nat
    BY ReceivedSeq
  <2> HIDE DEF r, q, i, h
  <2>6. \A k \in DOMAIN r : r[k] < i
    BY <2>2 DEF ToSet
  <2>7. i \in 1 .. Len(sent) /\ i \in Nat
    BY <2>2, <2>5
  <2>8. \A x \in ToSet(q) : x \in ToSet(r) \/ x = i
    BY <2>1, <2>4, <2>7 DEF ToSet
  <2>9. ChannelInv'
    <3>1. \A x \in ToSet(q) : x \in 1 .. Finished' /\ BehindAll(sent', x, Pending')
      BY <1>3, <1>4, <2>1, <2>2, <2>3, <2>8 DEF r
    <3>2. \A x \in ToSet(Received)' : x \in 1 .. Finished' /\ BehindAll(sent', x, Pending')
      BY <3>1 DEF q, ToSet
    <3> QED
      BY <1>3, <2>1, <3>2 DEF ChannelInv
  <2>10. Channel!Deliver(i)
    BY <2>1, <2>3, <2>6, <2>7 DEF Channel!Deliver, r, q
  <2> QED
    BY <2>7, <2>9, <2>10 DEF Channel!Next
<1> QED
  BY <1>5, <1>6

(***************************************************************************)
(* Encoder, network and decoder implement the channel: on a network that   *)
(* may drop frames but neither repeats them nor lets one overtake another, *)
(* every whole payload that decode() returns is that of a packet passed to *)
(* encode(), none is received twice, and none behind a later one.          *)
(* Every step of the three is a step of the channel or leaves it as it is, *)
(* wraps of the counter and restarts of the encoder included               *)
(* (example/main.cpp:92-110, encoder.cpp:37-124, decoder.cpp:22-143).      *)
(***************************************************************************)
THEOREM ImplementsChannelHolds == LinkSpec => ImplementsChannel
<1>1. LinkInit => LinkInv /\ ChannelInv /\ Channel!Init
  <2> SUFFICES ASSUME LinkInit PROVE LinkInv /\ ChannelInv /\ Channel!Init
    OBVIOUS
  <2>1. LinkInv /\ ChannelInv
    BY LinkInvInit, ChannelInvInit
  <2>2. decoded = <<>> /\ frame = NoFrame /\ sent = <<>>
    BY DEF LinkInit, Dec!Init
  <2>3. Indexes(sent, Decoded) = <<>>
    BY <2>2 DEF Decoded, Indexes
  <2>4. Received = <<>>
    BY <2>3, ReceivedIs, FlattenEmpty
  <2> QED
    BY <2>1, <2>2, <2>4 DEF Channel!Init
<1>2. LinkInv /\ ChannelInv /\ [LinkNext]_linkVars
        => LinkInv' /\ ChannelInv' /\ [Channel!Next]_<<sent, Received>>
  BY LinkInvStep, ChannelStep
<1> QED
  BY <1>1, <1>2, PTL DEF LinkSpec, ImplementsChannel, Channel!Spec
-----------------------------------------------------------------------------
(***************************************************************************)
(* What is put together from segments: the segments of one encoded packet, *)
(* unless the counter was reset between them.                              *)
(***************************************************************************)

(***************************************************************************)
(* A segment that is not the last one fills its frame.                     *)
(***************************************************************************)
Fills(m, max) ==
    IsSegment(m) /\ ~ AtEnd(m) => CmpHeaderSize + MessageHeaderSize + m.payloadLength = max

Full(e) ==
    \A i \in DOMAIN e.cmpFrames : \A k \in DOMAIN e.cmpFrames[i].body :
        Fills(e.cmpFrames[i].body[k], e.maxBytesPerMessage)

FullInv == Full(enc)

LEMMA FullOpened ==
    ASSUME NEW e \in EncoderState, NEW f, Opened(e, f), Full(e)
    PROVE  Full(f)
<1> DEFINE n == Len(e.cmpFrames)
<1>1. /\ n \in Nat /\ DOMAIN e.cmpFrames = 1 .. n /\ DOMAIN f.cmpFrames = 1 .. n + 1
      /\ f.cmpFrames[n + 1].body = <<>>
      /\ \A i \in 1 .. n : f.cmpFrames[i].body = e.cmpFrames[i].body
      /\ f.maxBytesPerMessage = e.maxBytesPerMessage
  BY DEF Opened, EncoderState
<1>2. \A i \in 1 .. n + 1 : i \in 1 .. n \/ f.cmpFrames[i].body = <<>>
  BY <1>1
<1> QED
  BY <1>1, <1>2 DEF Full

LEMMA FullFilled ==
    ASSUME NEW f \in EncoderState, f.cmpFrames # <<>>, Full(f),
           NEW g, NEW m \in MessageHeader, Filled(f, g, m), Fills(m, f.maxBytesPerMessage)
    PROVE  Full(g)
<1> DEFINE n == Len(f.cmpFrames)
           fs == f.cmpFrames
           gs == g.cmpFrames
           b == fs[n].body
<1>1. /\ n \in Nat /\ n > 0 /\ DOMAIN fs = 1 .. n /\ DOMAIN gs = 1 .. n
      /\ b \in Seq(MessageHeader) /\ gs[n].body = Append(b, m)
      /\ \A i \in 1 .. n - 1 : gs[i].body = fs[i].body
      /\ g.maxBytesPerMessage = f.maxBytesPerMessage
  <2>1. /\ fs \in Seq(Frame) /\ n \in 1 .. n /\ fs[n] \in Frame
        /\ gs \in Seq(Frame) /\ Len(gs) = n
    BY DEF EncoderState, Filled
  <2>2. b \in Seq(MessageHeader)
    BY <2>1 DEF Frame
  <2> QED
    BY <2>1, <2>2 DEF Filled
<1>2. \A i \in DOMAIN fs : \A k \in DOMAIN fs[i].body :
        Fills(fs[i].body[k], f.maxBytesPerMessage)
  BY DEF Full
<1> HIDE DEF n, fs, gs, b
<1>3. ASSUME NEW i \in 1 .. n, NEW k \in DOMAIN gs[i].body
      PROVE  Fills(gs[i].body[k], f.maxBytesPerMessage)
  <2>1. CASE i = n
    <3>1. k \in DOMAIN Append(b, m) /\ gs[i].body[k] = Append(b, m)[k]
      BY <1>1, <2>1
    <3>2. Append(b, m)[k] = m \/ (k \in DOMAIN b /\ Append(b, m)[k] = b[k])
      BY <1>1, <3>1
    <3>3. n \in DOMAIN fs
      BY <1>1
    <3> QED
      BY <1>2, <3>1, <3>2, <3>3 DEF b
  <2>2. CASE i # n
    <3>1. i \in 1 .. n - 1
      BY <1>1, <2>2
    <3> QED
      BY <1>1, <1>2, <3>1
  <2> QED
    BY <2>1, <2>2
<1> QED
  BY <1>1, <1>3 DEF Full, gs

LEMMA FullPut ==
    ASSUME IInv, SInv, FullInv, PutSegment
    PROVE  FullInv'
<1> DEFINE p == request[next]
           pos == currentPayloadPos
<1>1. PICK f, g, m :
        /\ IF NeedsFrame(enc) THEN Opened(enc, f) ELSE f = enc
        /\ Sound(f) /\ f.cmpFrames # <<>>
        /\ f.bytesLeft \in Nat /\ f.bytesLeft > MessageHeaderSize
        /\ LET bytes == BytesToAdd(f, p.payloadLength, currentPayloadPos)
               flag == SegmentationFlag(isSegmented, segmentInd, bytes,
                                        p.payloadLength, currentPayloadPos)
           IN  /\ bytes \in Nat /\ bytes > 0
               /\ currentPayloadPos + bytes <= p.payloadLength
               /\ m = Message(p, bytes, flag, currentPayloadPos)
               /\ m \in MessageHeader
               /\ Filled(f, g, m)
               /\ IF flag = "lastSegment" THEN Opened(g, enc') ELSE enc' = g
               /\ currentPayloadPos' = currentPayloadPos + bytes
  BY PutSegmentIs
<1> DEFINE bytes == BytesToAdd(f, p.payloadLength, currentPayloadPos)
           flag == SegmentationFlag(isSegmented, segmentInd, bytes,
                                    p.payloadLength, currentPayloadPos)
<1>2. /\ pos \in Nat /\ segmentInd \in Nat
      /\ p.payloadLength \in Nat /\ pos < p.payloadLength
      /\ pc = "loop" /\ enc \in EncoderState
      /\ enc.maxBytesPerMessage \in Nat /\ enc.bytesLeft \in Nat
      /\ enc.maxBytesPerMessage > CmpHeaderSize + MessageHeaderSize
  <2>1. p \in Packet
    BY PutSegmentIs
  <2>2. p.payloadLength \in Nat
    BY <2>1 DEF Packet, Length
  <2>3. pos \in Nat /\ segmentInd \in Nat /\ pos < p.payloadLength /\ pc = "loop"
          /\ enc \in EncoderState /\ Roomy(enc)
    BY DEF IInv, TypeOK, PutSegment, MoreToPut
  <2> QED
    BY <2>2, <2>3 DEF Roomy, EncoderState
<1>3. /\ m.payloadLength = bytes /\ m.segmentType = flag
      /\ AtEnd(m) <=> pos + bytes = p.payloadLength
  BY <1>1 DEF Message, AtEnd
<1>4. bytes = f.bytesLeft - MessageHeaderSize \/ bytes = p.payloadLength - pos
  BY <1>1, <1>2 DEF BytesToAdd, Least, MessageHeaderSize
<1>5. f \in EncoderState /\ f.maxBytesPerMessage = enc.maxBytesPerMessage /\ Full(f)
  BY <1>1, <1>2, FullOpened DEF Sound, Opened, FullInv
<1>6. IsSegment(m) => isSegmented
  BY <1>3 DEF SegmentationFlag, IsSegment
<1> HIDE DEF bytes, flag
<1>7. ASSUME IsSegment(m) PROVE f.bytesLeft = enc.maxBytesPerMessage - CmpHeaderSize
  <2>1. CASE NeedsFrame(enc)
    BY <1>1, <2>1 DEF Opened
  <2>2. CASE ~ NeedsFrame(enc)
    <3>1. f = enc /\ enc.bytesLeft >= MessageHeaderSize
      BY <1>1, <1>2, <2>2 DEF NeedsFrame, MessageHeaderSize
    <3>2. CASE segmentInd = 0
      <4>1. FirstToCome
        BY <1>2, <1>6, <1>7, <3>2 DEF SInv
      <4> QED
        BY <3>1, <4>1 DEF FirstToCome
    <3>3. CASE segmentInd # 0
      <4>1. NextToCome
        BY <1>2, <1>6, <1>7, <3>3 DEF SInv, Waiting, MoreToPut
      <4> QED
        BY <3>1, <4>1 DEF NextToCome, MessageHeaderSize
    <3> QED
      BY <3>2, <3>3
  <2> QED
    BY <2>1, <2>2
<1>8. Fills(m, f.maxBytesPerMessage)
  <2> SUFFICES ASSUME IsSegment(m), ~ AtEnd(m)
               PROVE  CmpHeaderSize + MessageHeaderSize + m.payloadLength = f.maxBytesPerMessage
    BY DEF Fills
  <2>1. bytes = f.bytesLeft - MessageHeaderSize
    BY <1>2, <1>3, <1>4
  <2>2. f.bytesLeft = enc.maxBytesPerMessage - CmpHeaderSize
    BY <1>7
  <2> QED
    BY <1>2, <1>3, <1>5, <2>1, <2>2 DEF CmpHeaderSize, MessageHeaderSize
<1>9. m \in MessageHeader /\ Filled(f, g, m) /\ g \in EncoderState
        /\ (enc' = g \/ Opened(g, enc'))
  BY <1>1 DEF Filled
<1>10. Full(g)
  BY <1>1, <1>5, <1>8, <1>9, FullFilled
<1> QED
  BY <1>9, <1>10, FullOpened DEF FullInv

LEMMA FullInvInit == Init => FullInv
BY DEF Init, FullInv, Full

LEMMA FullInvStep ==
    ASSUME IInv, SInv, FullInv, [Next]_vars
    PROVE  FullInv'
<1>1. enc \in EncoderState /\ Sound(enc)
  BY DEF IInv, Sound
<1>2. ASSUME enc'.cmpFrames = <<>> PROVE FullInv'
  BY <1>2 DEF FullInv, Full
<1>3. ASSUME Configure PROVE FullInv'
  BY <1>1, <1>2, <1>3 DEF Configure, SetDeviceId, SetStreamId, Restart,
     ClearEncodingMetadata, EncoderState, IInv
<1>4. ASSUME NEW r \in Requests, NEW context \in DataContexts, BeginEncode(r, context)
      PROVE  FullInv'
  BY <1>1, <1>2, <1>4 DEF BeginEncode, ClearEncodingMetadata, EncoderState
<1>5. ASSUME StartPacket PROVE FullInv'
  <2> DEFINE p == request[next]
             r == [enc EXCEPT !.messageType = p.messageType]
  <2>1. PICK typed :
          /\ IF enc.messageType = p.messageType THEN typed = enc ELSE Opened(r, typed)
          /\ Sound(typed)
          /\ IF DoesNotFit(typed, p) THEN Opened(typed, enc') ELSE enc' = typed
    BY <1>5, StartPacketIs
  <2>2. /\ r \in EncoderState /\ r.cmpFrames = enc.cmpFrames
        /\ r.maxBytesPerMessage = enc.maxBytesPerMessage
    <3>1. p.messageType \in MessageType
      BY <1>5, StartPacketIs DEF Packet
    <3> QED
      BY <1>1, <3>1 DEF EncoderState
  <2>3. Full(r) /\ Full(enc)
    BY <2>2 DEF FullInv, Full
  <2> HIDE DEF r
  <2>4. Full(typed) /\ typed \in EncoderState
    BY <2>1, <2>2, <2>3, FullOpened DEF Sound
  <2> QED
    BY <2>1, <2>4, FullOpened DEF FullInv
<1>6. ASSUME PutSegment PROVE FullInv'
  BY <1>6, FullPut
<1>7. ASSUME FinishPacket \/ ReturnUndefined PROVE FullInv'
  BY <1>7 DEF FinishPacket, ReturnUndefined, FullInv
<1>8. ASSUME ReturnFrames PROVE FullInv'
  BY <1>1, <1>2, <1>8 DEF ReturnFrames, ClearEncodingMetadata, EncoderState
<1>9. CASE UNCHANGED vars
  BY <1>9 DEF vars, FullInv
<1> QED
  BY <1>3, <1>4, <1>5, <1>6, <1>7, <1>8, <1>9 DEF Next, Call, Run, Step

\* The counter was not zero since the first of the running call's frames.
Unwrapped == Len(enc.cmpFrames) <= enc.sequenceCounter

(***************************************************************************)
(* The counter before the first frame of the running call.  It is not less *)
(* than zero unless the counter has come back to zero since.               *)
(***************************************************************************)
Base(e) == e.sequenceCounter - Len(e.cmpFrames)

LEMMA NextCounterIs ==
    ASSUME NEW c \in Counter
    PROVE  NextCounter(c) = IF c + 1 = CounterMod THEN 0 ELSE c + 1
<1>1. c \in Nat /\ c < CounterMod
  BY DEF Counter
<1>2. CASE c + 1 = CounterMod
  BY <1>1, <1>2 DEF NextCounter
<1>3. CASE c + 1 # CounterMod
  <2>1. c + 1 \in 0 .. CounterMod - 1
    BY <1>1, <1>3
  <2>2. (c + 1) % CounterMod = c + 1
    BY <2>1
  <2> QED
    BY <1>3, <2>2 DEF NextCounter
<1> QED
  BY <1>2, <1>3

LEMMA BaseOpened ==
    ASSUME NEW e \in EncoderState, NEW f, Opened(e, f)
    PROVE  /\ Base(e) \in Int /\ Base(f) \in Int /\ Base(f) <= Base(e)
           /\ Base(f) = Base(e) \/ Base(f) < 0
<1> DEFINE c == e.sequenceCounter
           d == f.sequenceCounter
           n == Len(e.cmpFrames)
           l == Len(f.cmpFrames)
<1>1. /\ c \in Counter /\ n \in Nat /\ l = n + 1
      /\ d = NextCounter(c)
  BY DEF Opened, EncoderState
<1>2. Base(e) = c - n /\ Base(f) = d - l
  BY DEF Base
<1> HIDE DEF c, d, n, l
<1>3. c \in Nat /\ (d = c + 1 \/ d = 0)
  BY <1>1, NextCounterIs DEF Counter
<1> QED
  BY ONLY <1>1, <1>2, <1>3

LEMMA BaseFilled ==
    ASSUME NEW f \in EncoderState, NEW g, NEW m, Filled(f, g, m)
    PROVE  Base(g) = Base(f)
BY DEF Filled, Base

LEMMA BaseRun ==
    ASSUME IInv, Step, Unwrapped'
    PROVE  Base(enc') = Base(enc)
<1>1. (enc \in EncoderState /\ enc' \in EncoderState) \/ enc' = enc
  <2>1. StartPacket => enc' \in EncoderState
    BY StartPacketIs DEF Sound
  <2>2. PutSegment => enc' \in EncoderState
    BY PutSegmentIs DEF Sound
  <2> QED
    BY <2>1, <2>2 DEF IInv, TypeOK, Step, FinishPacket, ReturnUndefined
<1>2. enc \in EncoderState
  BY DEF IInv, TypeOK
<1>3. ~ (Base(enc') < 0)
  BY <1>1, <1>2 DEF Unwrapped, Base, EncoderState, Counter
<1>4. CASE StartPacket
  <2> DEFINE p == request[next]
             r == [enc EXCEPT !.messageType = p.messageType]
  <2>1. PICK typed :
          /\ IF enc.messageType = p.messageType THEN typed = enc ELSE Opened(r, typed)
          /\ Sound(typed)
          /\ IF DoesNotFit(typed, p) THEN Opened(typed, enc') ELSE enc' = typed
    BY <1>4, StartPacketIs
  <2>2. r \in EncoderState /\ Base(r) = Base(enc)
    <3>1. p.messageType \in MessageType
      BY <1>4, StartPacketIs DEF Packet
    <3> QED
      BY <1>2, <3>1 DEF EncoderState, Base
  <2> HIDE DEF r
  <2>3. typed \in EncoderState
    BY <2>1 DEF Sound
  <2>4. Base(typed) = Base(enc) \/ (Base(typed) \in Int /\ Base(typed) < 0)
    BY <2>1, <2>2, BaseOpened
  <2>5. Base(enc') = Base(typed) \/ (Base(enc') \in Int /\ Base(typed) \in Int
                                       /\ Base(enc') < 0)
    BY <2>1, <2>3, BaseOpened
  <2> QED
    BY <1>3, <2>4, <2>5
<1>5. CASE PutSegment
  <2>1. PICK f, g, m :
          /\ IF NeedsFrame(enc) THEN Opened(enc, f) ELSE f = enc
          /\ Sound(f)
          /\ Filled(f, g, m)
          /\ Opened(g, enc') \/ enc' = g
    BY <1>5, PutSegmentIs
  <2>2. f \in EncoderState /\ g \in EncoderState
    BY <2>1 DEF Sound, Filled
  <2>3. Base(f) = Base(enc) \/ Base(f) < 0
    BY <1>2, <2>1, BaseOpened
  <2>4. Base(g) = Base(f)
    BY <2>1, <2>2, BaseFilled
  <2>5. Base(enc') = Base(g) \/ Base(enc') < 0
    BY <2>1, <2>2, BaseOpened
  <2> QED
    BY <1>3, <2>3, <2>4, <2>5
<1>6. CASE FinishPacket \/ ReturnUndefined
  BY <1>6 DEF FinishPacket, ReturnUndefined
<1> QED
  BY <1>4, <1>5, <1>6 DEF Step

LEMMA BaseStep ==
    ASSUME LinkInv, LinkInv', [LinkNext]_linkVars, Unwrapped'
    PROVE  /\ Base(enc) \in Int /\ Base(enc') \in Int /\ restarts \in Nat
           /\ \/ restarts' = restarts + 1
              \/ restarts' = restarts /\ Base(enc) <= Base(enc')
<1>1. /\ IInv /\ enc \in EncoderState /\ enc' \in EncoderState /\ restarts \in Nat
      /\ (pc = "idle" => enc.cmpFrames = <<>>)
  BY DEF LinkInv, LinkTypes, IInv, TypeOK
<1>2. Base(enc) \in Int /\ Base(enc') \in Int
  BY <1>1 DEF Base, EncoderState, Counter
<1>3. CASE Reconfigure
  BY <1>1, <1>2, <1>3 DEF Reconfigure
<1>4. CASE Encode
  BY <1>1, <1>2, <1>4, BaseRun DEF Encode
<1>5. CASE CallEncode
  <2>1. PICK r, context : BeginEncode(r, context)
    BY <1>5 DEF CallEncode
  <2>2. /\ enc'.cmpFrames = <<>> /\ enc.cmpFrames = <<>>
        /\ enc'.sequenceCounter = enc.sequenceCounter
    BY <1>1, <2>1 DEF BeginEncode, ClearEncodingMetadata, EncoderState
  <2> QED
    BY <1>1, <1>2, <1>5, <2>2 DEF CallEncode, Base
<1>6. CASE SendFrames
  <2>1. enc'.cmpFrames = <<>> /\ enc'.sequenceCounter = enc.sequenceCounter
    BY <1>1, <1>6 DEF SendFrames, ReturnFrames, ClearEncodingMetadata, EncoderState
  <2>2. enc.sequenceCounter \in Nat /\ Len(enc.cmpFrames) \in Nat
    BY <1>1 DEF EncoderState, Counter
  <2> QED
    BY <1>1, <1>2, <1>6, <2>1, <2>2 DEF SendFrames, Base
<1>7. CASE Deliver \/ Decode \/ ReturnPackets \/ Lose \/ Duplicate \/ UNCHANGED linkVars
  BY <1>1, <1>2, <1>7 DEF Deliver, Decode, ReturnPackets, Lose, Duplicate, linkVars, vars
<1> QED
  BY <1>3, <1>4, <1>5, <1>6, <1>7 DEF LinkNext

\* The frames of a call are numbered from there.
LEMMA NumberedFrom ==
    ASSUME NEW e \in EncoderState, Numbered(e), Len(e.cmpFrames) <= e.sequenceCounter
    PROVE  \A i \in 1 .. Len(e.cmpFrames) : e.cmpFrames[i].sequenceCounter = Base(e) + i
<1> DEFINE n == Len(e.cmpFrames)
           fs == e.cmpFrames
           c == e.sequenceCounter
           T == {k \in Nat : k < n => fs[n - k].sequenceCounter = c - k}
<1>1. /\ n \in Nat /\ c \in Nat /\ n <= c /\ c < CounterMod
      /\ \A i \in 1 .. n : fs[i].sequenceCounter \in Counter
      /\ n > 0 => fs[n].sequenceCounter = c
      /\ \A i \in 2 .. n : fs[i].sequenceCounter = NextCounter(fs[i-1].sequenceCounter)
  <2>1. \A i \in 1 .. n : fs[i] \in Frame
    BY DEF EncoderState
  <2>2. \A i \in 1 .. n : fs[i].sequenceCounter \in Counter
    BY <2>1 DEF Frame
  <2> QED
    BY <2>2 DEF EncoderState, Counter, Numbered
<1> HIDE DEF n, fs, c
<1>2. 0 \in T
  BY <1>1
<1>3. ASSUME NEW k \in T PROVE k + 1 \in T
  <2> SUFFICES ASSUME k + 1 < n PROVE fs[n - (k + 1)].sequenceCounter = c - (k + 1)
    OBVIOUS
  <2> DEFINE x == fs[n - (k + 1)].sequenceCounter
  <2>1. /\ k \in Nat /\ n - k \in 2 .. n /\ n - k - 1 = n - (k + 1)
        /\ fs[n - k].sequenceCounter = c - k
    BY <1>1
  <2>2. n - (k + 1) \in 1 .. n
    BY <1>1, <2>1
  <2>3. c - k = NextCounter(x) /\ x \in Counter
    BY <1>1, <2>1, <2>2
  <2>4. c - k > 0 /\ c \in Nat
    BY <1>1, <2>1
  <2> HIDE DEF x
  <2>5. c - k = x + 1 /\ x \in Nat
    BY <2>1, <2>3, <2>4, NextCounterIs DEF Counter
  <2>7. x = c - (k + 1)
    BY ONLY <2>1, <2>4, <2>5
  <2> QED
    BY <2>7 DEF x
<1>4. T = Nat
  <2> HIDE DEF T
  <2>1. T \subseteq Nat
    BY DEF T
  <2> QED
    BY <1>2, <1>3, <2>1, SetInduction
<1>5. ASSUME NEW i \in 1 .. n PROVE fs[i].sequenceCounter = c - n + i
  <2>1. n - i < n /\ n - (n - i) = i /\ n - i \in Nat
    BY <1>1
  <2>a. \A k \in Nat : k < n => fs[n - k].sequenceCounter = c - k
    BY <1>4
  <2>2. fs[n - (n - i)].sequenceCounter = c - (n - i)
    BY ONLY <2>1, <2>a
  <2> QED
    BY <1>1, <2>1, <2>2
<1> QED
  BY <1>5 DEF Base, n, fs, c

\* Segment m is alone in its frame and says what it is; unless it is the last
\* one, no byte of the frame is behind it.
Alone(f, m) ==
    /\ Len(f.body) = 1
    /\ Truthful(m)
    /\ ~ AtEnd(m) => f.size = CmpHeaderSize + MessageHeaderSize + m.payloadLength

\* The piece behind segment m is alone in the frame behind m's.
Continued(fs, i, m) ==
    /\ i + 1 \in 1 .. Len(fs)
    /\ Len(fs[i+1].body) = 1
    /\ fs[i+1].body[1].data.packet = m.data.packet
    /\ fs[i+1].body[1].data.position = m.data.position + m.payloadLength

\* A message of the frames fs of a call that begins after counter "base".
Sending(fs, base, i, m) ==
    /\ fs[i].sequenceCounter = base + i
    /\ epochOf[m.data.packet] = restarts
    /\ IsSegment(m) => Alone(fs[i], m)
    /\ IsSegment(m) /\ ~ AtEnd(m) => Continued(fs, i, m)
    /\ i = 1 /\ IsSegment(m) => AtStart(m)

LEMMA UsedByOne ==
    ASSUME NEW f \in Frame, NEW m \in MessageHeader, f.body = <<m>>
    PROVE  UsedBytes(f) = CmpHeaderSize + MessageHeaderSize + m.payloadLength
<1> DEFINE e == [f EXCEPT !.body = <<>>]
<1>1. e \in Frame /\ e.body = <<>>
  <2>1. <<>> \in Seq(MessageHeader)
    OBVIOUS
  <2> QED
    BY ONLY <2>1, f \in Frame DEF Frame, e
<1>2. f.body = Append(e.body, m)
  BY <1>1
<1> HIDE DEF e
<1>3. UsedBytes(e) = CmpHeaderSize
  BY <1>1, UsedNone
<1> QED
  BY <1>1, <1>2, <1>3, UsedMore

\* In joined messages the one behind a message that does not reach the end
\* goes on where it stops.
LEMMA JoinedNext ==
    ASSUME NEW s \in Seq(MessageHeader), Joined(s), NEW k \in Nat, k > 0, k + 1 \in DOMAIN s,
           ~ AtEnd(s[k])
    PROVE  /\ s[k + 1].data.packet = s[k].data.packet
           /\ s[k + 1].data.position = s[k].data.position + s[k].payloadLength
<1>1. k + 1 # 1 /\ (k + 1) - 1 = k
  OBVIOUS
<1> QED
  BY <1>1 DEF Joined

LEMMA JoinedFirst ==
    ASSUME NEW s \in Seq(MessageHeader), Joined(s), 1 \in DOMAIN s
    PROVE  AtStart(s[1])
BY DEF Joined

\* The frames of a call follow the pieces of its messages.
LEMMA JoinedFrames ==
    ASSUME NEW fs \in Seq(Frame), Joined(Messages(fs)),
           NEW i \in 1 .. Len(fs), Len(fs[i].body) = 1
    PROVE  /\ i = 1 => AtStart(fs[i].body[1])
           /\ i + 1 \in 1 .. Len(fs) /\ Len(fs[i+1].body) = 1 /\ ~ AtEnd(fs[i].body[1]) =>
                /\ fs[i+1].body[1].data.packet = fs[i].body[1].data.packet
                /\ fs[i+1].body[1].data.position
                     = fs[i].body[1].data.position + fs[i].body[1].payloadLength
<1> DEFINE s == Messages(fs)
<1>1. PICK o : LaidOut(fs, o)
  BY LaidOutExists
<1>2. s \in Seq(MessageHeader) /\ Joined(s)
  BY BodiesType
<1>3. /\ o[i] \in Nat /\ o[i] + 1 \in 1 .. Len(s) /\ s[o[i] + 1] = fs[i].body[1]
  BY <1>1, LaidAt
<1>4. i = 1 => o[i] = 0
  BY <1>1 DEF LaidOut
<1> HIDE DEF s
<1>5. ASSUME i = 1 PROVE AtStart(fs[i].body[1])
  <2>1. o[i] + 1 = 1 /\ 1 \in DOMAIN s
    BY <1>2, <1>3, <1>4, <1>5
  <2> QED
    BY <1>2, <1>3, <2>1, JoinedFirst
<1>6. ASSUME i + 1 \in 1 .. Len(fs), Len(fs[i+1].body) = 1, ~ AtEnd(fs[i].body[1])
      PROVE  /\ fs[i+1].body[1].data.packet = fs[i].body[1].data.packet
             /\ fs[i+1].body[1].data.position
                  = fs[i].body[1].data.position + fs[i].body[1].payloadLength
  <2>1. /\ o[i+1] \in Nat /\ o[i+1] + 1 \in 1 .. Len(s) /\ s[o[i+1] + 1] = fs[i+1].body[1]
    BY <1>1, <1>6, LaidAt DEF s
  <2>2. o[i+1] = o[i] + 1
    <3>1. i \in 1 .. Len(fs) - 1
      BY <1>6
    <3> QED
      BY <1>1, <3>1 DEF LaidOut
  <2> DEFINE k == o[i] + 1
  <2>3. k \in Nat /\ k > 0 /\ o[i+1] + 1 = k + 1
    BY <1>3, <2>2
  <2>4. k + 1 \in DOMAIN s /\ s[k] = fs[i].body[1] /\ s[k + 1] = fs[i+1].body[1]
    BY <1>2, <1>3, <2>1, <2>3
  <2> HIDE DEF k
  <2> QED
    BY <1>2, <1>6, <2>3, <2>4, JoinedNext
<1> QED
  BY <1>5, <1>6

\* What the application sends.
LEMMA SendingIs ==
    ASSUME LinkInv, SInv, SizeInv, TileInv, FullInv, Unwrapped, SendFrames
    PROVE  /\ frames' \in Seq(Frame)
           /\ Base(enc') = Base(enc) + Len(frames') /\ Len(frames') \in Nat
           /\ \A i \in DOMAIN frames' : \A k \in DOMAIN frames'[i].body :
                Sending(frames', Base(enc), i, frames'[i].body[k])
<1>1. /\ LinkTypes /\ IInv /\ OrderInv /\ SentInv /\ ReturnFrames
      /\ pc = "packet" /\ pc' = "idle" /\ frames' = ClosedFrames(enc)
      /\ enc' = ClearEncodingMetadata(enc, FALSE)
  BY DEF LinkInv, SendFrames, ReturnFrames
<1>2. /\ enc \in EncoderState /\ OpenFrame(enc) /\ Numbered(enc) /\ Roomy(enc)
      /\ enc.minBytesPerMessage \in Nat /\ enc.maxBytesPerMessage \in Nat
  BY <1>1 DEF IInv, Sound, EncoderState
<1> DEFINE fs == frames'
           n == Len(enc.cmpFrames)
<1>3. /\ fs \in Seq(Frame) /\ Len(fs) = n /\ Messages(fs) = Written(enc)
      /\ \A i \in 1 .. n : /\ fs[i].body = enc.cmpFrames[i].body
                           /\ fs[i].sequenceCounter = enc.cmpFrames[i].sequenceCounter
  BY <1>1, <1>2, ClosedFramesIs, MessagesClosed
<1>4. n \in Nat /\ enc.sequenceCounter \in Nat /\ enc.cmpFrames \in Seq(Frame)
        /\ DOMAIN enc.cmpFrames = 1 .. n
  BY <1>2 DEF EncoderState, Counter
<1>5. Base(enc') = Base(enc) + n
  <2>1. enc'.cmpFrames = <<>> /\ enc'.sequenceCounter = enc.sequenceCounter
    BY <1>1, <1>2 DEF ClearEncodingMetadata, EncoderState
  <2> QED
    BY <1>4, <2>1 DEF Base
<1>6. \A i \in 1 .. n : fs[i].sequenceCounter = Base(enc) + i
  BY <1>2, <1>3, NumberedFrom DEF Unwrapped
<1>7. [Next]_vars
  BY <1>1 DEF Next, Run
<1>8. Runs(fs, 0)
  BY <1>1, <1>7, SInvStep DEF SInv
<1>9. \A i \in DOMAIN fs : fs[i].size = Greatest(UsedBytes(fs[i]), enc.minBytesPerMessage)
  <2>1. FramesWithinContext'
    BY <1>1, <1>7, SizeInvStep DEF SizeInv
  <2>2. enc'.minBytesPerMessage = enc.minBytesPerMessage
    BY <1>1, <1>2 DEF ClearEncodingMetadata, EncoderState
  <2> QED
    BY <1>1, <2>1, <2>2 DEF FramesWithinContext, Returned
<1>10. Joined(Messages(fs))
  BY <1>1, <1>3 DEF TileInv
<1>11. \A m \in ToSet(Messages(fs)) : epochOf[m.data.packet] = restarts
  BY <1>1, <1>3 DEF OrderInv, Placed, SentInv, Running
<1>12. \A i \in 1 .. n : \A k \in DOMAIN fs[i].body :
          Fills(fs[i].body[k], enc.maxBytesPerMessage)
  BY <1>3, <1>4 DEF FullInv, Full
<1> HIDE DEF fs, n
<1>13. DOMAIN fs = 1 .. n
  BY <1>3
<1> SUFFICES ASSUME NEW i \in 1 .. n, NEW k \in DOMAIN fs[i].body
             PROVE  Sending(fs, Base(enc), i, fs[i].body[k])
  BY <1>3, <1>4, <1>5, <1>13 DEF fs
<1> DEFINE m == fs[i].body[k]
<1>14. m \in ToSet(Messages(fs)) /\ m \in MessageHeader /\ fs[i] \in Frame
  BY <1>3, <1>13, MessageIn
<1>15. epochOf[m.data.packet] = restarts
  BY <1>11, <1>14
<1>16. ASSUME IsSegment(m)
       PROVE  /\ Len(fs[i].body) = 1 /\ k = 1 /\ fs[i].body = <<m>> /\ Truthful(m)
              /\ ~ AtEnd(m) => Followed(fs, i, m)
  <2>1. /\ Len(fs[i].body) = 1 /\ Truthful(m)
        /\ ~ AtEnd(m) => i = 0 \/ Followed(fs, i, m)
    BY <1>8, <1>13, <1>16 DEF Runs
  <2>2. fs[i].body \in Seq(MessageHeader)
    BY <1>14 DEF Frame
  <2>3. k = 1 /\ fs[i].body = <<m>>
    BY <2>1, <2>2
  <2> QED
    BY <2>1, <2>3
<1>17. ASSUME IsSegment(m), ~ AtEnd(m)
       PROVE  fs[i].size = CmpHeaderSize + MessageHeaderSize + m.payloadLength
  <2>1. UsedBytes(fs[i]) = CmpHeaderSize + MessageHeaderSize + m.payloadLength
    BY <1>14, <1>16, <1>17, UsedByOne
  <2>2. CmpHeaderSize + MessageHeaderSize + m.payloadLength = enc.maxBytesPerMessage
    BY <1>12, <1>17 DEF Fills
  <2>3. fs[i].size = Greatest(enc.maxBytesPerMessage, enc.minBytesPerMessage)
    BY <1>9, <1>13, <2>1, <2>2
  <2> QED
    BY <1>2, <2>2, <2>3 DEF Greatest, Roomy
<1>18. IsSegment(m) => Alone(fs[i], m)
  BY <1>16, <1>17 DEF Alone
<1>19. ASSUME IsSegment(m), ~ AtEnd(m) PROVE Continued(fs, i, m)
  <2>1. Followed(fs, i, m) /\ m = fs[i].body[1] /\ Len(fs[i].body) = 1
    BY <1>16, <1>19
  <2>2. i + 1 \in 1 .. Len(fs) /\ Len(fs[i+1].body) = 1
    BY <1>3, <1>13, <2>1 DEF Followed
  <2>3. i \in 1 .. Len(fs)
    BY <1>3
  <2> QED
    BY <1>3, <1>10, <1>19, <2>1, <2>2, <2>3, JoinedFrames DEF Continued
<1>20. ASSUME IsSegment(m), i = 1 PROVE AtStart(m)
  <2>1. i \in 1 .. Len(fs) /\ m = fs[i].body[1] /\ Len(fs[i].body) = 1
    BY <1>3, <1>16, <1>20
  <2> QED
    BY <1>3, <1>10, <1>20, <2>1, JoinedFrames
<1> QED
  BY <1>6, <1>15, <1>18, <1>19, <1>20 DEF Sending

(***************************************************************************)
(* Packet id was in a frame with counter c of the encoder's present or of  *)
(* an earlier epoch.                                                       *)
(***************************************************************************)
Past(id, c) ==
    /\ epochOf[id] <= restarts
    /\ epochOf[id] = restarts => c <= Base(enc)

(***************************************************************************)
(* If a later segment in frame g could be taken for the one behind the     *)
(* first "end" bytes of packet id, which counter c came with, it is.       *)
(***************************************************************************)
Follows(g, id, end, c) ==
    \A l \in DOMAIN g.body :
        /\ IsSegment(g.body[l]) /\ ~ AtStart(g.body[l])
        /\ epochOf[g.body[l].data.packet] = epochOf[id]
        /\ g.sequenceCounter = c + 1
        => g.body[l].data.packet = id /\ g.body[l].data.position = end

NextIs(id, end, c) == \A g \in Flying : Follows(g, id, end, c)

Flown(f, m) ==
    /\ Past(m.data.packet, f.sequenceCounter)
    /\ IsSegment(m) => Alone(f, m)
    /\ IsSegment(m) /\ ~ AtEnd(m) =>
         NextIs(m.data.packet, m.data.position + m.payloadLength, f.sequenceCounter)

FlyInv == \A f \in Flying : \A k \in DOMAIN f.body : Flown(f, f.body[k])

SentWell == LinkInv /\ SInv /\ SizeInv /\ TileInv /\ FullInv

LEMMA SentWellInit == LinkInit => SentWell
BY LinkInvInit, SInvInit, SizeInvInit, TileInvInit, FullInvInit DEF LinkInit, SentWell

LEMMA SentWellStep ==
    ASSUME SentWell, [LinkNext]_linkVars
    PROVE  SentWell' /\ LinkInv /\ LinkInv' /\ Remembered
<1>1. LinkInv' /\ Remembered /\ [Next]_vars /\ IInv /\ LinkInv
  BY LinkInvStep DEF SentWell, LinkInv
<1>2. SInv'
  BY <1>1, SInvStep DEF SentWell
<1>3. SizeInv'
  BY <1>1, SizeInvStep DEF SentWell
<1>4. TileInv'
  BY <1>1, TileInvStep DEF SentWell
<1>5. FullInv'
  BY <1>1, FullInvStep DEF SentWell
<1> QED
  BY <1>1, <1>2, <1>3, <1>4, <1>5 DEF SentWell

LEMMA EpochStays ==
    ASSUME LinkInv, Remembered, NEW d, SentBy(d)
    PROVE  epochOf'[d.packet] = epochOf[d.packet] /\ epochOf[d.packet] \in Nat
<1>1. LinkTypes /\ IInv /\ SentInv
  BY DEF LinkInv
<1>2. /\ Finished \in Nat /\ Finished <= Len(sent) /\ Len(sent) \in Nat
      /\ sent \in Seq(PacketId) /\ DOMAIN sent = 1 .. Len(sent)
  BY <1>1, FinishedIs
<1>3. PICK i \in 1 .. Finished : sent[i] = d.packet
  BY DEF SentBy
<1>4. i \in 1 .. Len(sent)
  BY <1>2
<1>5. epochOf'[sent[i]] = epochOf[sent[i]]
  BY <1>4 DEF Remembered
<1>6. epochOf \in [PacketId -> Nat] /\ sent[i] \in PacketId
  BY <1>1, <1>2, <1>4 DEF LinkTypes
<1> QED
  BY <1>3, <1>5, <1>6

LEMMA PastStays ==
    ASSUME LinkInv, LinkInv', Remembered, [LinkNext]_linkVars, Unwrapped',
           NEW d, SentBy(d), NEW c \in Nat, Past(d.packet, c)
    PROVE  Past(d.packet, c)'
<1> DEFINE e == epochOf[d.packet]
<1>1. epochOf'[d.packet] = e /\ e \in Nat
  BY EpochStays
<1>2. /\ Base(enc) \in Int /\ Base(enc') \in Int /\ restarts \in Nat
      /\ \/ restarts' = restarts + 1
         \/ restarts' = restarts /\ Base(enc) <= Base(enc')
  BY BaseStep
<1>3. e <= restarts /\ (e = restarts => c <= Base(enc))
  BY DEF Past
<1> HIDE DEF e
<1> DEFINE b == Base(enc)
           x == Base(enc')
<1>4. /\ b \in Int /\ x \in Int /\ restarts \in Nat
      /\ restarts' = restarts + 1 \/ (restarts' = restarts /\ b <= x)
      /\ e = restarts => c <= b
  BY <1>2, <1>3
<1> HIDE DEF b, x
<1>5. e <= restarts' /\ (e = restarts' => c <= x)
  BY ONLY <1>1, <1>3, <1>4, c \in Nat
<1> QED
  BY <1>1, <1>5 DEF Past, x

\* A frame that is on the way already.
LEMMA FollowsStays ==
    ASSUME LinkInv, Remembered, NEW d, SentBy(d), NEW g, KnownFrame(g),
           NEW end, NEW c, Follows(g, d.packet, end, c)
    PROVE  Follows(g, d.packet, end, c)'
<1>1. epochOf'[d.packet] = epochOf[d.packet]
  BY EpochStays
<1>2. \A l \in DOMAIN g.body :
        epochOf'[g.body[l].data.packet] = epochOf[g.body[l].data.packet]
  BY EpochStays DEF KnownFrame, Known
<1> QED
  BY <1>1, <1>2 DEF Follows

\* A frame that is sent in this step.
LEMMA FollowsSent ==
    ASSUME SentWell, Remembered, SendFrames, Unwrapped, NEW d, SentBy(d),
           NEW c \in Nat, Past(d.packet, c), NEW g \in ToSet(frames'), NEW end
    PROVE  Follows(g, d.packet, end, c)'
<1> DEFINE fs == frames'
           b == Base(enc)
<1>1. /\ LinkInv /\ restarts' = restarts /\ epochOf' = epochOf
      /\ restarts \in Nat /\ enc \in EncoderState
  BY DEF SentWell, SendFrames, histVars, LinkInv, LinkTypes, IInv, TypeOK
<1>0. PICK i \in DOMAIN fs : g = fs[i]
  BY DEF ToSet
<1>2. /\ \A k \in DOMAIN g.body : Sending(fs, b, i, g.body[k])
      /\ fs \in Seq(Frame)
  BY <1>0, SendingIs DEF SentWell
<1>3. epochOf[d.packet] = restarts => c <= b
  BY DEF Past
<1>4. b \in Int
  BY <1>1 DEF Base, EncoderState, Counter
<1> HIDE DEF fs, b
<1>5. i \in Nat /\ i >= 1 /\ g \in Frame
  BY <1>0, <1>2
<1> SUFFICES ASSUME NEW l \in DOMAIN g.body, IsSegment(g.body[l]), ~ AtStart(g.body[l]),
                    epochOf[g.body[l].data.packet] = epochOf[d.packet],
                    g.sequenceCounter = c + 1
             PROVE  FALSE
  BY <1>1 DEF Follows
<1>6. Sending(fs, b, i, g.body[l])
  BY <1>2
<1>7. /\ g.sequenceCounter = b + i /\ epochOf[d.packet] = restarts
      /\ i # 1
  BY <1>0, <1>6 DEF Sending
<1>8. c <= b /\ c + 1 = b + i
  BY <1>3, <1>7
<1> QED
  BY ONLY <1>4, <1>5, <1>7, <1>8, c \in Nat

\* What follows still does.
LEMMA NextStays ==
    ASSUME SentWell, SentWell', Remembered, [LinkNext]_linkVars, Unwrapped,
           NEW d, SentBy(d), NEW c \in Nat, Past(d.packet, c),
           NEW end, NextIs(d.packet, end, c)
    PROVE  NextIs(d.packet, end, c)'
<1>1. LinkInv /\ LinkTypes /\ LinkTypes' /\ IInv' /\ KnownInv
  BY DEF SentWell, LinkInv
<1>2. ASSUME NEW g \in Flying' PROVE Follows(g, d.packet, end, c)'
  <2>1. CASE g \in Flying
    <3>1. Follows(g, d.packet, end, c) /\ KnownFrame(g)
      BY <1>1, <2>1 DEF NextIs, KnownInv
    <3> QED
      BY <1>1, <3>1, FollowsStays
  <2>2. CASE SendFrames /\ g \in ToSet(frames')
    BY <2>2, FollowsSent
  <2> QED
    BY <1>1, <2>1, <2>2, FlyingIs
<1> QED
  BY <1>2 DEF NextIs

LEMMA FlyingType ==
    ASSUME LinkTypes PROVE Flying \subseteq Frame
<1>1. network \in Seq(Frame) /\ frame \in Frame \cup {NoFrame}
  BY DEF LinkTypes, DecTypes
<1> QED
  BY <1>1 DEF Flying, ToSet

\* A frame that was on the way, in the next state.
LEMMA FlownStays ==
    ASSUME SentWell, SentWell', Remembered, [LinkNext]_linkVars, Unwrapped, Unwrapped',
           NEW f \in Flying, NEW k \in DOMAIN f.body, Flown(f, f.body[k])
    PROVE  Flown(f, f.body[k])'
<1> DEFINE m == f.body[k]
           c == f.sequenceCounter
<1>1. LinkInv /\ LinkInv' /\ LinkTypes /\ KnownInv
  BY DEF SentWell, LinkInv
<1>2. f \in Frame /\ KnownFrame(f)
  BY <1>1, FlyingType DEF KnownInv
<1>3. c \in Nat /\ SentBy(m.data)
  BY <1>2 DEF Frame, Counter, KnownFrame, Known
<1>4. Past(m.data.packet, c)
  BY DEF Flown
<1> HIDE DEF m, c
<1>5. Past(m.data.packet, c)'
  BY <1>1, <1>3, <1>4, PastStays
<1>6. ASSUME NEW end, NextIs(m.data.packet, end, c) PROVE NextIs(m.data.packet, end, c)'
  BY <1>3, <1>4, <1>6, NextStays
<1> QED
  BY <1>5, <1>6 DEF Flown, m, c

\* The continuation of a segment that is sent, in a frame that is on the way
\* already or is sent with it.
LEMMA SentFollows ==
    ASSUME SentWell, Remembered, SendFrames, Unwrapped, FlyInv,
           NEW i \in DOMAIN frames', NEW m, Sending(frames', Base(enc), i, m),
           IsSegment(m), ~ AtEnd(m),
           NEW g, g \in Flying \/ g \in ToSet(frames'), NEW l \in DOMAIN g.body,
           NEW n, n = g.body[l],
           epochOf[n.data.packet] = epochOf[m.data.packet],
           g.sequenceCounter = Base(enc) + i + 1
    PROVE  n.data.packet = m.data.packet
             /\ n.data.position = m.data.position + m.payloadLength
<1> DEFINE fs == frames'
           b == Base(enc)
<1>1. LinkInv /\ enc \in EncoderState
  BY DEF SentWell, LinkInv, IInv, TypeOK
<1>2. /\ fs \in Seq(Frame)
      /\ \A j \in DOMAIN fs : \A k \in DOMAIN fs[j].body : Sending(fs, b, j, fs[j].body[k])
  BY SendingIs DEF SentWell
<1>3. b \in Int
  BY <1>1 DEF Base, EncoderState, Counter
<1>4. Sending(fs, b, i, m)
  OBVIOUS
<1>a. g.sequenceCounter = b + i + 1
  OBVIOUS
<1>b. g \in Flying \/ g \in ToSet(fs)
  OBVIOUS
<1> HIDE DEF fs, b
<1>5. epochOf[m.data.packet] = restarts /\ Continued(fs, i, m)
  BY <1>4 DEF Sending
<1>c. i \in Nat /\ i >= 1
  BY <1>2 DEF fs
<1>6. CASE g \in Flying
  <2>1. Past(n.data.packet, g.sequenceCounter)
    BY <1>6 DEF FlyInv, Flown
  <2>2. g.sequenceCounter <= b
    BY <1>5, <2>1 DEF Past, b
  <2> QED
    BY ONLY <1>3, <1>a, <1>c, <2>2
<1>7. CASE g \in ToSet(fs)
  <2>1. PICK j \in DOMAIN fs : g = fs[j]
    BY <1>7 DEF ToSet
  <2>2. j \in Nat
    BY <1>2
  <2>3. g.sequenceCounter = b + j
    BY <1>2, <2>1 DEF Sending
  <2>4. j = i + 1
    BY ONLY <1>3, <1>a, <1>c, <2>2, <2>3
  <2>5. /\ Len(g.body) = 1
        /\ g.body[1].data.packet = m.data.packet
        /\ g.body[1].data.position = m.data.position + m.payloadLength
    BY <1>5, <2>1, <2>4 DEF Continued
  <2>6. l = 1
    <3>1. g \in Frame
      BY <1>2, <2>1
    <3>2. g.body \in Seq(MessageHeader)
      BY <3>1 DEF Frame
    <3> QED
      BY <2>5, <3>2
  <2> QED
    BY <2>5, <2>6
<1> QED
  BY <1>b, <1>6, <1>7

LEMMA FlownSent ==
    ASSUME SentWell, SentWell', Remembered, SendFrames, Unwrapped, FlyInv,
           NEW f \in ToSet(frames'), NEW k \in DOMAIN f.body
    PROVE  Flown(f, f.body[k])'
<1> DEFINE fs == frames'
           b == Base(enc)
           m == f.body[k]
<1>1. /\ LinkInv /\ restarts' = restarts /\ epochOf' = epochOf
      /\ restarts \in Nat /\ enc \in EncoderState
      /\ LinkTypes /\ LinkTypes' /\ IInv'
  BY DEF SentWell, SendFrames, histVars, LinkInv, LinkTypes, IInv, TypeOK
<1>2. /\ \A j \in DOMAIN fs : \A l \in DOMAIN fs[j].body : Sending(fs, b, j, fs[j].body[l])
      /\ fs \in Seq(Frame) /\ Len(fs) \in Nat /\ Base(enc') = b + Len(fs)
  BY SendingIs DEF SentWell
<1>3. PICK i \in DOMAIN fs : f = fs[i]
  BY DEF ToSet
<1>4. b \in Int
  BY <1>1 DEF Base, EncoderState, Counter
<1>5. Flying' \subseteq Flying \cup ToSet(fs)
  BY <1>1, FlyingIs DEF LinkNext
<1> HIDE DEF fs, b, m
<1>6. i \in Nat /\ i >= 1 /\ i <= Len(fs)
  BY <1>2
<1>7. Sending(fs, b, i, m)
  BY <1>2, <1>3 DEF m
<1>8. /\ f.sequenceCounter = b + i /\ epochOf[m.data.packet] = restarts
      /\ IsSegment(m) => Alone(f, m)
  BY <1>3, <1>7 DEF Sending
<1>9. Past(m.data.packet, f.sequenceCounter)'
  <2>1. f.sequenceCounter <= Base(enc')
    BY ONLY <1>2, <1>4, <1>6, <1>8
  <2> QED
    BY <1>1, <1>8, <2>1 DEF Past
<1>10. ASSUME IsSegment(m), ~ AtEnd(m), NEW g \in Flying'
       PROVE  Follows(g, m.data.packet, m.data.position + m.payloadLength, f.sequenceCounter)'
  <2> SUFFICES ASSUME NEW l \in DOMAIN g.body,
                      epochOf'[g.body[l].data.packet] = epochOf'[m.data.packet],
                      g.sequenceCounter = f.sequenceCounter + 1
               PROVE  /\ g.body[l].data.packet = m.data.packet
                      /\ g.body[l].data.position = m.data.position + m.payloadLength
    BY DEF Follows
  <2>1. g \in Flying \/ g \in ToSet(fs)
    BY <1>5
  <2>2. epochOf[g.body[l].data.packet] = epochOf[m.data.packet]
    BY <1>1
  <2>3. g.sequenceCounter = b + i + 1
    BY <1>8
  <2> QED
    BY <1>7, <1>10, <2>1, <2>2, <2>3, SentFollows DEF fs, b
<1> QED
  BY <1>8, <1>9, <1>10 DEF Flown, NextIs, m

LEMMA FlyInvInit == LinkInit => FlyInv
<1> SUFFICES ASSUME LinkInit PROVE FlyInv
  OBVIOUS
<1>1. network = <<>> /\ frame = NoFrame
  BY DEF LinkInit, Dec!Init
<1> QED
  BY <1>1 DEF FlyInv, Flying, ToSet

LEMMA FlyInvStep ==
    ASSUME SentWell, SentWell', Remembered, [LinkNext]_linkVars, Unwrapped, Unwrapped', FlyInv
    PROVE  FlyInv'
<1>1. LinkTypes /\ LinkTypes' /\ IInv'
  BY DEF SentWell, LinkInv
<1>2. ASSUME NEW f \in Flying', NEW k \in DOMAIN f.body PROVE Flown(f, f.body[k])'
  <2>1. CASE f \in Flying
    BY <2>1, FlownStays DEF FlyInv
  <2>2. CASE SendFrames /\ f \in ToSet(frames')
    BY <2>2, FlownSent
  <2> QED
    BY <1>1, <2>1, <2>2, FlyingIs
<1> QED
  BY <1>2 DEF FlyInv

(***************************************************************************)
(* What decode() is about to read: the whole frame, or messages that are   *)
(* not segments.                                                           *)
(***************************************************************************)
DecodingInv ==
    frame # NoFrame =>
        \/ body = frame.body /\ curSize = frame.size - CmpHeaderSize
        \/ \A m \in ToSet(body) : ~ IsSegment(m)

LEMMA DecodingInvInit == LinkInit => DecodingInv
BY DEF LinkInit, Dec!Init, DecodingInv

\* A message that is read is known; a segment is read from a frame of its own.
LEMMA ReadIs ==
    ASSUME SentWell, FlyInv, DecodingInv, frame \in Frame,
           body # <<>>, NEW m \in MessageHeader, m = Head(body)
    PROVE  /\ Known(m)
           /\ IsSegment(m) =>
                /\ Flown(frame, m) /\ curSize = frame.size - CmpHeaderSize
                /\ 1 \in DOMAIN frame.body /\ frame.body[1] = m
<1>1. /\ LinkTypes /\ KnownInv /\ body \in Seq(MessageHeader)
  BY DEF SentWell, LinkInv, LinkTypes, DecTypes
<1>2. Known(m)
  BY <1>1, HeadKnown
<1>3. frame # NoFrame /\ frame \in Flying
  BY NoFrameAssumption DEF Flying
<1>4. m = body[1] /\ 1 \in DOMAIN body /\ m \in ToSet(body)
  <2>1. m = body[1] /\ 1 \in DOMAIN body
    BY <1>1
  <2> QED
    BY <2>1 DEF ToSet
<1>5. ASSUME IsSegment(m)
      PROVE  body = frame.body /\ curSize = frame.size - CmpHeaderSize
  BY <1>3, <1>4, <1>5 DEF DecodingInv
<1> QED
  BY <1>2, <1>3, <1>4, <1>5 DEF FlyInv

\* Behind a message that is no segment there is none.
LEMMA NoneBehind ==
    ASSUME SentWell, FlyInv, DecodingInv, frame \in Frame, body # <<>>
    PROVE  \A m \in ToSet(Tail(body)) : ~ IsSegment(m)
<1>1. body \in Seq(MessageHeader)
  BY DEF SentWell, LinkInv, LinkTypes, DecTypes
<1>2. \A k \in DOMAIN Tail(body) : Tail(body)[k] = body[k + 1] /\ k + 1 \in DOMAIN body
                                   /\ k \in Nat /\ k >= 1
  BY <1>1
<1>3. frame # NoFrame /\ frame \in Flying
  BY NoFrameAssumption DEF Flying
<1> SUFFICES ASSUME NEW k \in DOMAIN Tail(body), IsSegment(Tail(body)[k])
             PROVE  FALSE
  BY DEF ToSet
<1>4. IsSegment(body[k + 1]) /\ k + 1 \in DOMAIN body /\ k \in Nat /\ k >= 1
  BY <1>2
<1>5. body = frame.body
  BY <1>3, <1>4 DEF DecodingInv, ToSet
<1>6. Len(body) = 1
  BY <1>3, <1>4, <1>5 DEF FlyInv, Flown, Alone
<1> QED
  BY <1>1, <1>4, <1>6

LEMMA DecodingInvStep ==
    ASSUME SentWell, FlyInv, DecodingInv, [LinkNext]_linkVars
    PROVE  DecodingInv'
<1>1. LinkTypes
  BY DEF SentWell, LinkInv
<1>2. CASE Deliver
  <2>1. PICK i \in DOMAIN network :
          /\ frame = NoFrame
          /\ \/ UNCHANGED <<frame, body, curSize>>
             \/ /\ frame' = network[i] /\ body' = network[i].body
                /\ curSize' = network[i].size - CmpHeaderSize
    BY <1>2, DeliverIs
  <2> QED
    BY <2>1 DEF DecodingInv
<1>3. CASE Decode
  <2>1. /\ frame' = frame /\ frame \in Frame
        /\ TookNone \/ (body # <<>> /\ Took(Head(body)))
    BY <1>1, <1>3, TurnIs DEF Decode, LinkTypes
  <2>2. body' = <<>> \/ (body # <<>> /\ body' = Tail(body))
    BY <2>1 DEF TookNone, Took, TookWhole, TookFirst, TookNext, TookLast
  <2>3. \A m \in ToSet(body') : ~ IsSegment(m)
    BY <2>1, <2>2, NoneBehind DEF ToSet
  <2> QED
    BY <2>3 DEF DecodingInv, ToSet
<1>4. CASE ReturnPackets
  BY <1>4 DEF ReturnPackets, Dec!Return, DecodingInv
<1> QED
  BY <1>2, <1>3, <1>4 DEF LinkNext, linkVars, decVars, CallEncode, Reconfigure, Encode,
     SendFrames, Lose, Duplicate, DecodingInv

(***************************************************************************)
(* Pieces of one packet, one behind the other from its start.              *)
(***************************************************************************)
End(piece) == piece.data.position + piece.length

Joint(pieces) ==
    /\ pieces[1].data.position = 0
    /\ \A k \in DOMAIN pieces : pieces[k].trailing = 0
    /\ \A k \in DOMAIN pieces : k > 1 =>
         /\ pieces[k].data.packet = pieces[k-1].data.packet
         /\ pieces[k].data.position = End(pieces[k-1])

OneEpoch(pieces) ==
    \A k, l \in DOMAIN pieces :
        epochOf[pieces[k].data.packet] = epochOf[pieces[l].data.packet]

\* An entry of the decoder: what it holds so far, and what may come next.
EntryOK(s) ==
    LET last == s.payload[Len(s.payload)]
    IN  /\ Past(last.data.packet, s.curSegment)
        /\ NextIs(last.data.packet, End(last), s.curSegment)
        /\ OneEpoch(s.payload) => Joint(s.payload) /\ s.payloadSize = End(last)

PacketOK(p) ==
    IsAssembled(p) /\ OneEpoch(p.payload) =>
        HasWholePayload(p) /\ p.payloadLength = p.payload[1].data.whole

EntryInv == \A s \in Entries : EntryOK(s)
PacketInv == \A p \in ToSet(Decoded) : PacketOK(p)

SpliceInv == FlyInv /\ DecodingInv /\ EntryInv /\ PacketInv

LEMMA OneEpochStays ==
    ASSUME LinkInv, Remembered, NEW s, KnownPieces(s), OneEpoch(s)'
    PROVE  OneEpoch(s)
<1>1. \A k \in DOMAIN s : epochOf'[s[k].data.packet] = epochOf[s[k].data.packet]
  BY EpochStays DEF KnownPieces
<1> QED
  BY <1>1 DEF OneEpoch

LEMMA PacketStays ==
    ASSUME LinkInv, Remembered, NEW p, KnownPieces(p.payload), PacketOK(p)
    PROVE  PacketOK(p)'
BY OneEpochStays DEF PacketOK, IsAssembled, HasWholePayload

LEMMA EntryStays ==
    ASSUME SentWell, SentWell', Remembered, [LinkNext]_linkVars, Unwrapped, Unwrapped',
           NEW s \in Dec!SegmentedPacket, KnownPieces(s.payload), EntryOK(s)
    PROVE  EntryOK(s)'
<1> DEFINE last == s.payload[Len(s.payload)]
           c == s.curSegment
<1>1. LinkInv /\ LinkInv'
  BY DEF SentWell
<1>2. s.payload \in Seq(Dec!Piece) /\ s.payload # <<>> /\ c \in Nat
  BY DEF Dec!SegmentedPacket, KnownPieces, Dec!Counter
<1>3. Len(s.payload) \in DOMAIN s.payload
  BY <1>2
<1>4. SentBy(last.data)
  BY <1>3 DEF KnownPieces
<1>5. /\ Past(last.data.packet, c) /\ NextIs(last.data.packet, End(last), c)
      /\ OneEpoch(s.payload) => Joint(s.payload) /\ s.payloadSize = End(last)
  BY DEF EntryOK
<1>6. OneEpoch(s.payload)' => Joint(s.payload) /\ s.payloadSize = End(last)
  BY <1>1, <1>5, OneEpochStays
<1> HIDE DEF last, c
<1>7. Past(last.data.packet, c)'
  BY <1>1, <1>2, <1>4, <1>5, PastStays
<1>8. NextIs(last.data.packet, End(last), c)'
  BY <1>2, <1>4, <1>5, NextStays
<1> QED
  BY <1>6, <1>7, <1>8 DEF EntryOK, last, c

LEMMA KindIs ==
    ASSUME NEW m, Truthful(m), IsSegment(m)
    PROVE  /\ m.segmentType = "firstSegment" => AtStart(m) /\ ~ AtEnd(m)
           /\ m.segmentType = "intermediarySegment" => ~ AtStart(m) /\ ~ AtEnd(m)
           /\ m.segmentType = "lastSegment" => ~ AtStart(m) /\ AtEnd(m)
BY DEF Truthful

\* The entry that a first segment makes.
LEMMA EntryFirst ==
    ASSUME SentWell, FlyInv, DecodingInv, frame \in Frame, body # <<>>,
           NEW m \in MessageHeader, m = Head(body), NEW s, TookFirst(m, s)
    PROVE  EntryOK(s)
<1> DEFINE t == curSize - MessageHeaderSize - m.payloadLength
           piece == PieceOf(m, t)
           c == frame.sequenceCounter
<1>1. /\ m.segmentType = "firstSegment" /\ s.payload = <<piece>>
      /\ s.payloadSize = curSize - MessageHeaderSize /\ s.curSegment = c
  BY DEF TookFirst
<1>2. IsSegment(m)
  BY <1>1 DEF IsSegment
<1>3. Flown(frame, m) /\ curSize = frame.size - CmpHeaderSize
  BY <1>2, ReadIs
<1>4. Truthful(m) /\ AtStart(m) /\ ~ AtEnd(m)
  BY <1>1, <1>2, <1>3, KindIs DEF Flown, Alone
<1>5. frame.size = CmpHeaderSize + MessageHeaderSize + m.payloadLength
  BY <1>2, <1>3, <1>4 DEF Flown, Alone
<1>6. m.payloadLength \in Nat /\ m.data.position = 0
  BY <1>4 DEF MessageHeader, Length, AtStart
<1>7. t = 0 /\ s.payloadSize = m.payloadLength
  BY <1>1, <1>3, <1>5, <1>6 DEF CmpHeaderSize, MessageHeaderSize
<1>8. /\ Past(m.data.packet, c)
      /\ NextIs(m.data.packet, m.data.position + m.payloadLength, c)
  BY <1>2, <1>3, <1>4 DEF Flown
<1>9. piece.data = m.data /\ piece.length = m.payloadLength /\ piece.trailing = 0
  BY <1>7 DEF PieceOf
<1> HIDE DEF piece, t, c
<1>10. Len(s.payload) = 1 /\ s.payload[1] = piece /\ DOMAIN s.payload = {1}
  BY <1>1
<1>11. End(piece) = m.data.position + m.payloadLength /\ s.payloadSize = End(piece)
  BY <1>6, <1>7, <1>9 DEF End
<1>12. Joint(s.payload)
  BY <1>6, <1>9, <1>10 DEF Joint
<1> QED
  BY <1>1, <1>8, <1>9, <1>10, <1>11, <1>12 DEF EntryOK

\* A later segment that an entry takes goes on where the entry's pieces stop.
LEMMA TakenIs ==
    ASSUME SentWell, FlyInv, DecodingInv, EntryInv, frame \in Frame, body # <<>>,
           NEW m \in MessageHeader, m = Head(body),
           m.segmentType \in {"intermediarySegment", "lastSegment"},
           NEW s, Takes(s),
           NEW pieces, pieces = Append(s.payload, PieceOf(m, 0)), OneEpoch(pieces)
    PROVE  /\ Joint(pieces) /\ pieces \in Seq(Dec!Piece)
           /\ Len(pieces) \in Nat /\ Len(pieces) > 1
           /\ pieces[Len(pieces)] = PieceOf(m, 0)
           /\ s.payloadSize + m.payloadLength = m.data.position + m.payloadLength
<1> DEFINE old == s.payload
           n == Len(old)
           last == old[n]
           piece == PieceOf(m, 0)
<1>1. /\ s \in Dec!SegmentedPacket /\ s \in Entries
      /\ frame.sequenceCounter = s.curSegment + 1
  BY DEF Takes, Entries
<1>2. IsSegment(m)
  BY DEF IsSegment
<1>3. Flown(frame, m) /\ 1 \in DOMAIN frame.body /\ frame.body[1] = m
  BY <1>2, ReadIs
<1>4. ~ AtStart(m)
  BY <1>2, <1>3, KindIs DEF Flown, Alone
<1>5. /\ NextIs(last.data.packet, End(last), s.curSegment)
      /\ OneEpoch(old) => Joint(old) /\ s.payloadSize = End(last)
  BY <1>1 DEF EntryInv, EntryOK
<1>6. KnownPieces(old) /\ old \in Seq(Dec!Piece)
  BY <1>1 DEF SentWell, LinkInv, KnownInv, Dec!SegmentedPacket
<1>7. piece \in Dec!Piece /\ piece.data = m.data /\ piece.trailing = 0
        /\ piece.length = m.payloadLength
  BY PieceOfType DEF PieceOf
<1> HIDE DEF piece, old, n
<1>8. old # <<>>
  BY <1>6 DEF KnownPieces
<1>9. /\ n \in Nat /\ n > 0 /\ DOMAIN old = 1 .. n
      /\ pieces \in Seq(Dec!Piece) /\ Len(pieces) = n + 1 /\ DOMAIN pieces = 1 .. n + 1
      /\ pieces[n + 1] = piece
      /\ \A k \in 1 .. n : pieces[k] = old[k]
  <2>1. pieces = Append(old, piece)
    BY DEF old, piece
  <2> QED
    BY ONLY <1>6, <1>7, <1>8, <2>1 DEF n
<1>a. n \in 1 .. n /\ n + 1 \in 1 .. n + 1 /\ \A k \in 1 .. n : k \in 1 .. n + 1
  BY <1>9
<1>b. \A k, l \in 1 .. n + 1 :
        epochOf[pieces[k].data.packet] = epochOf[pieces[l].data.packet]
  BY ONLY <1>9, OneEpoch(pieces) DEF OneEpoch
<1>10. OneEpoch(old)
  <2> SUFFICES ASSUME NEW k \in 1 .. n, NEW l \in 1 .. n
               PROVE  epochOf[old[k].data.packet] = epochOf[old[l].data.packet]
    BY <1>9 DEF OneEpoch
  <2>1. pieces[k] = old[k] /\ pieces[l] = old[l]
    BY <1>9
  <2>2. k \in 1 .. n + 1 /\ l \in 1 .. n + 1
    BY Zenon, <1>a
  <2>3. epochOf[pieces[k].data.packet] = epochOf[pieces[l].data.packet]
    BY Zenon, <1>b, <2>2
  <2> QED
    BY Zenon, <2>1, <2>3
<1>11. epochOf[m.data.packet] = epochOf[last.data.packet]
  BY <1>7, <1>9, <1>a, <1>b
<1>12. frame \in Flying
  BY NoFrameAssumption DEF Flying
<1>13. m.data.packet = last.data.packet /\ m.data.position = End(last)
  BY <1>1, <1>2, <1>3, <1>4, <1>5, <1>11, <1>12 DEF NextIs, Follows
<1>14. Joint(old) /\ s.payloadSize = End(last)
  BY <1>5, <1>10
<1>15. Joint(pieces)
  <2>1. pieces[1].data.position = 0
    BY <1>9, <1>14 DEF Joint
  <2>2. \A k \in 1 .. n + 1 : k \in 1 .. n \/ k = n + 1
    BY <1>9
  <2>3. \A k \in 1 .. n + 1 : pieces[k].trailing = 0
    BY <1>7, <1>9, <1>14, <2>2 DEF Joint
  <2>4. ASSUME NEW k \in 1 .. n + 1, k > 1
        PROVE  /\ pieces[k].data.packet = pieces[k-1].data.packet
               /\ pieces[k].data.position = End(pieces[k-1])
    <3>1. CASE k = n + 1
      <4>1. k - 1 = n /\ n \in 1 .. n
        BY <1>9, <3>1
      <4> QED
        BY <1>7, <1>9, <1>13, <3>1, <4>1
    <3>2. CASE k \in 1 .. n
      <4>1. k - 1 \in 1 .. n
        BY <1>9, <2>4, <3>2
      <4> QED
        BY <1>9, <1>14, <2>4, <3>2, <4>1 DEF Joint
    <3> QED
      BY <2>2, <3>1, <3>2
  <2> QED
    BY <1>9, <2>1, <2>3, <2>4 DEF Joint
<1> QED
  BY <1>9, <1>13, <1>14, <1>15 DEF piece

LEMMA EntryNext ==
    ASSUME SentWell, FlyInv, DecodingInv, EntryInv, frame \in Frame, body # <<>>,
           NEW m \in MessageHeader, m = Head(body), NEW s, NEW a, TookNext(m, s, a)
    PROVE  EntryOK(a)
<1> DEFINE pieces == a.payload
           c == frame.sequenceCounter
           last == pieces[Len(pieces)]
<1>1. /\ m.segmentType = "intermediarySegment" /\ Takes(s)
      /\ pieces = Append(s.payload, PieceOf(m, 0))
      /\ a.payloadSize = s.payloadSize + m.payloadLength
      /\ a.curSegment = NextCounter(s.curSegment)
  BY DEF TookNext
<1>2. IsSegment(m)
  BY <1>1 DEF IsSegment
<1>3. Flown(frame, m)
  BY <1>2, ReadIs
<1>4. ~ AtEnd(m)
  BY <1>1, <1>2, <1>3, KindIs DEF Flown, Alone
<1>5. /\ Past(m.data.packet, c)
      /\ NextIs(m.data.packet, m.data.position + m.payloadLength, c)
  BY <1>2, <1>3, <1>4 DEF Flown
<1>6. a.curSegment = c
  <2>1. /\ c = s.curSegment + 1 /\ s.curSegment \in Counter /\ c \in Counter
    BY <1>1, SameNames DEF Takes, Dec!SegmentedPacket, Frame
  <2> QED
    BY <1>1, <2>1, NextCounterIs DEF Counter
<1>7. last = PieceOf(m, 0)
  <2>1. s.payload \in Seq(Dec!Piece)
    BY <1>1 DEF Takes, Dec!SegmentedPacket
  <2>2. PieceOf(m, 0) \in Dec!Piece
    BY PieceOfType
  <2> QED
    BY <1>1, <2>1, <2>2
<1>8. last.data = m.data /\ End(last) = m.data.position + m.payloadLength
  BY <1>7 DEF PieceOf, End
<1> HIDE DEF last, c, pieces
<1>9. ASSUME OneEpoch(pieces) PROVE Joint(pieces) /\ a.payloadSize = End(last)
  BY <1>1, <1>8, <1>9, TakenIs
<1> QED
  BY <1>5, <1>6, <1>8, <1>9 DEF EntryOK, last, pieces

\* What the pieces of one packet say of its length.
LEMMA SameLength ==
    ASSUME NEW d, NEW e, LengthIs(d), LengthIs(e), d.packet = e.packet
    PROVE  d.whole = e.whole /\ d.whole \in Length
<1>1. PICK p \in Packets : p.id = d.packet /\ p.payloadLength = d.whole
  BY DEF LengthIs
<1>2. PICK q \in Packets : q.id = e.packet /\ q.payloadLength = e.whole
  BY DEF LengthIs
<1>3. p = q
  BY <1>1, <1>2, PacketIdsAssumption
<1>4. p \in Packet
  BY PacketsAssumption
<1> QED
  BY <1>1, <1>2, <1>3, <1>4 DEF Packet

LEMMA LengthFits ==
    ASSUME NEW x \in Length PROVE x % LengthMod = x
BY DEF Length

LEMMA PacketLast ==
    ASSUME SentWell, FlyInv, DecodingInv, EntryInv, frame \in Frame, body # <<>>,
           NEW m \in MessageHeader, m = Head(body), NEW s, NEW p, TookLast(m, s, p)
    PROVE  PacketOK(p)
<1> SUFFICES ASSUME OneEpoch(p.payload)
             PROVE  HasWholePayload(p) /\ p.payloadLength = p.payload[1].data.whole
  BY DEF PacketOK
<1> DEFINE pieces == p.payload
           first == pieces[1]
           n == Len(pieces)
<1>1. /\ m.segmentType = "lastSegment" /\ Takes(s)
      /\ pieces = Append(s.payload, PieceOf(m, 0))
      /\ p.payloadLength = (s.payloadSize + m.payloadLength) % LengthMod
      /\ p \in Dec!Packet
  BY DEF TookLast
<1>2. IsSegment(m)
  BY <1>1 DEF IsSegment
<1>3. Flown(frame, m) /\ Known(m)
  BY <1>2, ReadIs
<1>4. AtEnd(m)
  BY <1>1, <1>2, <1>3, KindIs DEF Flown, Alone
<1>5. /\ Joint(pieces) /\ pieces \in Seq(Dec!Piece) /\ n \in Nat /\ n > 1
      /\ pieces[n] = PieceOf(m, 0)
      /\ s.payloadSize + m.payloadLength = m.data.position + m.payloadLength
  BY <1>1, TakenIs
<1>6. pieces[n].data = m.data /\ pieces[n].length = m.payloadLength
  BY <1>5 DEF PieceOf
<1>7. Last(pieces) = pieces[n]
  BY DEF Last
<1>8. m.data.position + m.payloadLength = m.data.whole
  BY <1>4 DEF AtEnd
<1> HIDE DEF pieces, n, first
<1>9. HasWholePayload(p)
  BY <1>5, <1>6, <1>7, <1>8 DEF HasWholePayload, Joint, End, pieces
<1>10. /\ LengthIs(first.data) /\ first.data.packet = m.data.packet
  <2>1. KnownPieces(s.payload) /\ s.payload \in Seq(Dec!Piece)
    BY <1>1 DEF Takes, SentWell, LinkInv, KnownInv, Entries, Dec!SegmentedPacket
  <2>2. first = s.payload[1] /\ 1 \in DOMAIN s.payload
    <3>1. s.payload # <<>> /\ PieceOf(m, 0) \in Dec!Piece
      BY <2>1, PieceOfType DEF KnownPieces
    <3> QED
      BY <1>1, <2>1, <3>1 DEF first
  <2>3. pieces # <<>> /\ n \in DOMAIN pieces
    BY <1>5 DEF n
  <2>4. pieces[n].data.packet = first.data.packet
    BY <1>1, <1>9, <2>3, WholeIsOne DEF pieces, first
  <2> QED
    BY <1>6, <2>1, <2>2, <2>4 DEF KnownPieces
<1>11. m.data.whole = first.data.whole /\ m.data.whole \in Length
  BY <1>3, <1>10, SameLength DEF Known
<1>12. m.data.whole % LengthMod = m.data.whole
  BY <1>11, LengthFits
<1> QED
  BY <1>1, <1>5, <1>8, <1>9, <1>11, <1>12 DEF first, pieces

LEMMA PacketWhole ==
    ASSUME NEW m, NEW p, TookWhole(m, p)
    PROVE  PacketOK(p)
BY DEF TookWhole, PacketOK, IsAssembled

LEMMA EntryInvInit == LinkInit => EntryInv
BY DEF LinkInit, Dec!Init, EntryInv, Entries

LEMMA PacketInvInit == LinkInit => PacketInv
<1> SUFFICES ASSUME LinkInit PROVE PacketInv
  OBVIOUS
<1>1. Decoded = <<>>
  BY DEF LinkInit, Dec!Init, Decoded
<1> QED
  BY <1>1 DEF PacketInv, ToSet

LEMMA EntryInvStep ==
    ASSUME SentWell, SentWell', Remembered, [LinkNext]_linkVars, Unwrapped, Unwrapped',
           SpliceInv
    PROVE  EntryInv'
<1>1. /\ LinkInv /\ LinkInv' /\ LinkTypes /\ KnownInv /\ LinkTypes'
      /\ FlyInv /\ DecodingInv /\ EntryInv
  BY DEF SentWell, LinkInv, SpliceInv
<1>2. ASSUME NEW a \in Entries' PROVE EntryOK(a)'
  <2>1. \/ a \in Entries
        \/ /\ Decode /\ body # <<>> /\ Head(body) \in MessageHeader
           /\ TookFirst(Head(body), a) \/ \E s : TookNext(Head(body), s, a)
    BY <1>1, EntriesAre DEF Entries
  <2>2. Decode => frame \in Frame
    BY <1>1, TurnIs DEF Decode, LinkTypes
  <2>3. CASE a \in Entries
    <3>1. a \in Dec!SegmentedPacket
      BY <1>1, <2>3 DEF LinkTypes, DecTypes, EntriesOK, Entries
    <3>2. KnownPieces(a.payload) /\ EntryOK(a)
      BY <1>1, <2>3 DEF KnownInv, EntryInv
    <3> QED
      BY <3>1, <3>2, EntryStays
  <2>4. CASE a \notin Entries
    <3>1. /\ Decode /\ body # <<>> /\ Head(body) \in MessageHeader /\ frame \in Frame
          /\ TookFirst(Head(body), a) \/ \E s : TookNext(Head(body), s, a)
      BY <2>1, <2>2, <2>4
    <3>2. EntryOK(a) /\ a \in Dec!SegmentedPacket
      <4>1. CASE TookFirst(Head(body), a)
        BY <1>1, <3>1, <4>1, EntryFirst DEF TookFirst
      <4>2. CASE \E s : TookNext(Head(body), s, a)
        BY <1>1, <3>1, <4>2, EntryNext DEF TookNext
      <4> QED
        BY <3>1, <4>1, <4>2
    <3>3. KnownPieces(a.payload)
      <4>1. LengthIs(Head(body).data) /\ SentBy(Head(body).data)
        BY <1>1, <3>1, HeadKnown DEF Known
      <4>2. CASE TookFirst(Head(body), a)
        BY <3>1, <4>1, <4>2, OnePiece DEF TookFirst
      <4>3. CASE \E s : TookNext(Head(body), s, a)
        <5>1. PICK s : TookNext(Head(body), s, a)
          BY <4>3
        <5>2. KnownPieces(s.payload) /\ s.payload \in Seq(Dec!Piece)
          BY <1>1, <5>1 DEF KnownInv, TookNext, Takes, Dec!SegmentedPacket, Entries
        <5>3. a.payload = Append(s.payload, PieceOf(Head(body), 0))
          BY <5>1 DEF TookNext
        <5> QED
          BY <3>1, <4>1, <5>2, <5>3, MorePieces
      <4> QED
        BY <3>1, <4>2, <4>3
    <3> QED
      BY <3>2, <3>3, EntryStays
  <2> QED
    BY <2>3, <2>4
<1> QED
  BY <1>2 DEF EntryInv

\* The decoded packets of the next state.
LEMMA DecodedNext ==
    ASSUME LinkTypes, LinkTypes', [LinkNext]_linkVars, NEW p \in ToSet(Decoded')
    PROVE  \/ p \in ToSet(Decoded)
           \/ /\ Decode /\ body # <<>> /\ Head(body) \in MessageHeader /\ p \in Dec!Packet
              /\ TookWhole(Head(body), p) \/ \E s : TookLast(Head(body), s, p)
<1>1. CASE Decoded' = Decoded
  BY <1>1
<1>2. ASSUME NEW q \in Dec!Packet, Decoded' = Append(Decoded, q)
      PROVE  p = q \/ p \in ToSet(Decoded)
  <2> DEFINE ds == Decoded
  <2>1. ds \in Seq(Dec!Packet) /\ Decoded' = Append(ds, q)
    BY <1>2, DecodedIs
  <2> HIDE DEF ds
  <2> QED
    BY <2>1 DEF ToSet, ds
<1> QED
  BY <1>1, <1>2, DecodedIs

LEMMA PacketInvStep ==
    ASSUME SentWell, SentWell', Remembered, [LinkNext]_linkVars, SpliceInv
    PROVE  PacketInv'
<1>1. /\ LinkInv /\ LinkInv' /\ LinkTypes /\ KnownInv /\ LinkTypes' /\ KnownInv'
      /\ FlyInv /\ DecodingInv /\ EntryInv /\ PacketInv
  BY DEF SentWell, LinkInv, SpliceInv
<1>2. Decode => frame \in Frame /\ UNCHANGED <<sent, epochOf, pc, request>>
  BY <1>1, TurnIs DEF Decode, LinkTypes, histVars, vars
<1>3. ASSUME NEW p \in ToSet(Decoded') PROVE PacketOK(p)'
  <2>1. CASE p \in ToSet(Decoded)
    BY <1>1, <2>1, PacketStays DEF KnownInv, PacketInv
  <2>2. CASE p \notin ToSet(Decoded)
    <3>1. /\ Decode /\ body # <<>> /\ Head(body) \in MessageHeader /\ frame \in Frame
          /\ TookWhole(Head(body), p) \/ \E s : TookLast(Head(body), s, p)
      BY <1>1, <1>2, <2>2, DecodedNext
    <3>2. PacketOK(p)
      <4>1. CASE TookWhole(Head(body), p)
        BY <4>1, PacketWhole
      <4>2. CASE \E s : TookLast(Head(body), s, p)
        BY <1>1, <3>1, <4>2, PacketLast
      <4> QED
        BY <3>1, <4>1, <4>2
    <3>3. epochOf' = epochOf
      BY <1>2, <3>1
    <3> QED
      BY <3>2, <3>3 DEF PacketOK, OneEpoch, IsAssembled, HasWholePayload
  <2> QED
    BY <2>1, <2>2
<1>4. \A p \in ToSet(Decoded)' : PacketOK(p)'
  BY <1>3 DEF ToSet
<1> QED
  BY <1>4 DEF PacketInv

\* A packet of one epoch is one that OneEpoch speaks of.
LEMMA EpochsAre ==
    ASSUME NEW p \in Dec!Packet, Cardinality(Epochs(p)) = 1
    PROVE  OneEpoch(p.payload)
<1> DEFINE S == DOMAIN p.payload
           f == [k \in S |-> epochOf[p.payload[k].data.packet]]
<1>1. IsFiniteSet(S)
  <2>1. p.payload \in Seq(Dec!Piece)
    BY DEF Dec!Packet
  <2> DEFINE n == Len(p.payload)
  <2>2. S = 1 .. n /\ n \in Int /\ 1 \in Int
    BY <2>1
  <2> HIDE DEF S, n
  <2>3. IsFiniteSet(1 .. n)
    BY Zenon, <2>2, FS_Interval
  <2> QED
    BY Zenon, <2>2, <2>3
<1>2. f \in Surjection(S, Epochs(p))
  BY DEF Surjection, Epochs
<1>3. IsFiniteSet(Epochs(p))
  BY <1>1, <1>2, FS_Surjection
<1>4. PICK x : Epochs(p) = {x}
  BY <1>3, FS_Singleton
<1> QED
  BY <1>4 DEF Epochs, OneEpoch

LEMMA SplicesFollow == PacketInv /\ LinkInv => SplicesOnlyAcrossRestart
<1> SUFFICES ASSUME PacketInv, LinkInv, NEW i \in DOMAIN Decoded,
                    IsAssembled(Decoded[i]), Cardinality(Epochs(Decoded[i])) = 1
             PROVE  /\ HasWholePayload(Decoded[i])
                    /\ Decoded[i].payloadLength = Decoded[i].payload[1].data.whole
  BY DEF SplicesOnlyAcrossRestart
<1> DEFINE p == Decoded[i]
<1>1. Decoded \in Seq(Dec!Packet)
  BY DEF LinkInv, LinkTypes, DecTypes, Decoded
<1>2. p \in Dec!Packet /\ p \in ToSet(Decoded)
  BY <1>1 DEF ToSet
<1>3. PacketOK(p)
  BY <1>2 DEF PacketInv
<1>4. OneEpoch(p.payload)
  BY <1>2, EpochsAre
<1> QED
  BY <1>3, <1>4 DEF PacketOK

LEMMA SpliceInvInit == LinkInit => SpliceInv
BY FlyInvInit, DecodingInvInit, EntryInvInit, PacketInvInit DEF SpliceInv

LEMMA SpliceInvStep ==
    ASSUME SentWell, SpliceInv, [LinkNext]_linkVars, Unwrapped, Unwrapped'
    PROVE  SpliceInv'
<1>1. SentWell' /\ LinkInv /\ LinkInv' /\ Remembered
  BY SentWellStep
<1>2. FlyInv' /\ DecodingInv'
  BY <1>1, FlyInvStep, DecodingInvStep DEF SpliceInv
<1>3. EntryInv' /\ PacketInv'
  BY <1>1, EntryInvStep, PacketInvStep
<1> QED
  BY <1>2, <1>3 DEF SpliceInv

(***************************************************************************)
(* A packet put together from segments has the payload of one encoded      *)
(* packet, all positions of it in order, and its length, whatever the      *)
(* network drops, repeats or reorders, unless the counter was reset        *)
(* between the frames it is made of.  The decoder tells a next segment by its counter only       *)
(* (decoder.cpp:107-130), so this holds as long as the encoder has not     *)
(* numbered two frames of an epoch alike: until its counter of 16 bits     *)
(* (encoder.cpp:122) comes back to zero by itself.                         *)
(***************************************************************************)
THEOREM SplicesAreWhole ==
    LinkSpec /\ []Unwrapped => []SplicesOnlyAcrossRestart
<1>1. LinkInit => SentWell /\ SpliceInv
  BY SentWellInit, SpliceInvInit
<1>2. SentWell /\ SpliceInv /\ [LinkNext]_linkVars /\ Unwrapped /\ Unwrapped'
        => SentWell' /\ SpliceInv'
  BY SentWellStep, SpliceInvStep
<1>3. SentWell /\ SpliceInv => SplicesOnlyAcrossRestart
  BY SplicesFollow DEF SentWell, SpliceInv
<1> QED
  BY <1>1, <1>2, <1>3, PTL DEF LinkSpec
=============================================================================
