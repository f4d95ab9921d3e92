------------------------- MODULE TecmpDecoder_proofs -------------------------
(***************************************************************************)
(* That TECMP::Decoder::Decode turns what it decodes into the packets it   *)
(* should, for datagrams of any length.  Of a bus status: the invariant IInv*)
(* says what the loop of GetInterfacePayload has read so far and what the  *)
(* loop of ConvertPacketsToAsam has converted, and every record becomes its*)
(* packet.  Of the other messages: OwnBytes says that the one payload is the*)
(* datagram's, and lemmas about the converters say that each field read back*)
(* is the one the bytes hold.  For a capture module status that includes the*)
(* texts std::to_string writes: a decimal number read back is the number, and*)
(* a text of numbers and separators tells its numbers in their order.      *)
(***************************************************************************)
EXTENDS TecmpDecoderProps, PayloadLayout_proofs

\* The datagram of the call is a bus status that Decode takes apart.
IsBusStatus == Accepted /\ datagram.messageType = "busStatus"

GenericData(d) == Copied(Zeros(InterfaceHeaderSize), 0, Bytes(d.bytes, 0, GenericDataSize))
BusPayload(d, i) == Copied(GenericData(d), GenericDataSize, Record(d, i))

\* What the loop has read.
RecordsRead ==
    datagram # NoDatagram /\ IsBusStatus =>
        /\ pc = "handle" => busDataOffset = GenericDataSize
        /\ pc = "records" =>
             /\ Len(datagram.bytes) >= GenericDataSize
             /\ generic = GenericData(datagram)
             /\ busDataOffset = GenericDataSize + BusDataSize * Len(payloads)
        /\ GenericDataSize + BusDataSize * Len(payloads) <= Len(datagram.bytes)
             \/ payloads = <<>>
        /\ \A i \in DOMAIN payloads : payloads[i] = BusPayload(datagram, i)
        /\ pc \in {"convert", "idle"} => Len(payloads) = RecordCount(datagram)

\* Who is in which loop, and what it has converted.
Converted ==
    /\ pc # "idle" => Accepted
    /\ pc = "records" => datagram.messageType = "busStatus"
    /\ pc = "convert" => datagram.messageType \in {"busStatus", "cmStatus", "data"}
    /\ pc \in {"handle", "records"} => payloads = <<>> \/ datagram.messageType = "busStatus"
    /\ pc \in {"handle", "records"} => next = 1
    /\ pc = "handle" => payloads = <<>>
    /\ pc = "idle" /\ datagram # NoDatagram /\ Accepted => next = Len(payloads) + 1
    /\ datagram # NoDatagram /\ IsBusStatus =>
         \A i \in DOMAIN packets : packets[i] = ConvertPacket(datagram, payloads[i])
    /\ packets = [i \in 1 .. next - 1 |-> packets[i]]

IInv == TypeOK /\ RecordsRead /\ Converted
-----------------------------------------------------------------------------
LEMMA CopiedInto ==
    ASSUME NEW b, NEW pos \in Nat, NEW s \in Seq(Byte), NEW n \in Nat,
           b \in [1 .. n -> Byte], pos + Len(s) <= n
    PROVE  /\ Copied(b, pos, s) \in [1 .. n -> Byte]
           /\ \A i \in 1 .. Len(s) : Copied(b, pos, s)[pos + i] = s[i]
<1>1. \A i \in pos + 1 .. pos + Len(s) : i - pos \in 1 .. Len(s) /\ s[i - pos] \in Byte
  OBVIOUS
<1>2. Copied(b, pos, s) \in [1 .. n -> Byte]
  BY <1>1 DEF Copied
<1>3. ASSUME NEW i \in 1 .. Len(s) PROVE Copied(b, pos, s)[pos + i] = s[i]
  <2>1. pos + i \in 1 .. n /\ pos + i \in pos + 1 .. pos + Len(s) /\ (pos + i) - pos = i
    OBVIOUS
  <2> QED
    BY <2>1 DEF Copied
<1> QED
  BY <1>2, <1>3

LEMMA BytesType ==
    ASSUME NEW s \in Seq(Byte), NEW pos \in Nat, NEW n \in Nat, pos + n <= Len(s)
    PROVE  /\ Bytes(s, pos, n) \in Seq(Byte)
           /\ Len(Bytes(s, pos, n)) = n
           /\ \A k \in 1 .. n : Bytes(s, pos, n)[k] = s[pos + k]
<1>1. \A k \in 1 .. n : pos + k \in 1 .. Len(s) /\ s[pos + k] \in Byte
  OBVIOUS
<1>2. Bytes(s, pos, n) \in [1 .. n -> Byte]
  BY <1>1 DEF Bytes
<1> QED
  BY <1>2 DEF Bytes

LEMMA CountIs ==
    ASSUME NEW n \in Nat, NEW l \in Nat, 12 + 12 * n <= l, l - (12 + 12 * n) < 12
    PROVE  (l - 12) \div 12 = n
<1> DEFINE q == (l - 12) \div 12
<1>1. l - 12 \in Nat
  OBVIOUS
<1>2. q \in Int /\ 12 * q <= l - 12 /\ l - 12 < 12 * q + 12
  BY <1>1
<1> HIDE DEF q
<1>3. q = n
  BY <1>2
<1> QED
  BY <1>3 DEF q

LEMMA DatagramType ==
    ASSUME NEW d \in Datagrams
    PROVE  /\ d.bytes \in Seq(Byte)
           /\ d.payloadLength \in Nat
           /\ HasPayload(d) => Len(d.bytes) = d.size - HeaderSize
           /\ HasPayload(d) => Len(d.bytes) >= d.payloadLength
BY DatagramsAssumption, ByteModAssumption DEF Datagram, HasPayload, HeaderSize, Uint16Mod

LEMMA GenericType ==
    ASSUME NEW d \in Datagrams, Len(d.bytes) >= GenericDataSize
    PROVE  GenericData(d) \in [1 .. InterfaceHeaderSize -> Byte]
<1>1. Zeros(InterfaceHeaderSize) \in [1 .. InterfaceHeaderSize -> Byte]
  BY ByteModAssumption DEF Zeros, InterfaceHeaderSize, Byte
<1>2. /\ Bytes(d.bytes, 0, GenericDataSize) \in Seq(Byte)
      /\ Len(Bytes(d.bytes, 0, GenericDataSize)) = GenericDataSize
  <2>1. d.bytes \in Seq(Byte) /\ 0 \in Nat /\ GenericDataSize \in Nat
    BY DatagramType DEF GenericDataSize
  <2>2. 0 + GenericDataSize <= Len(d.bytes)
    BY <2>1
  <2> QED
    BY <2>1, <2>2, BytesType
<1>3. /\ 0 \in Nat /\ InterfaceHeaderSize \in Nat
      /\ 0 + Len(Bytes(d.bytes, 0, GenericDataSize)) <= InterfaceHeaderSize
  <2>1. 0 \in Nat /\ InterfaceHeaderSize \in Nat
        /\ 0 + GenericDataSize <= InterfaceHeaderSize
    BY DEF GenericDataSize, InterfaceHeaderSize
  <2> QED
    BY <1>2, <2>1
<1> QED
  BY <1>1, <1>2, <1>3, CopiedInto DEF GenericData

LEMMA BusPayloadIs ==
    ASSUME NEW d \in Datagrams, NEW i \in Nat \ {0},
           GenericDataSize + BusDataSize * i <= Len(d.bytes)
    PROVE  /\ BusPayload(d, i) \in [1 .. InterfaceHeaderSize -> Byte]
           /\ \A k \in 1 .. BusDataSize :
                BusPayload(d, i)[GenericDataSize + k] = Record(d, i)[k]
           /\ DOMAIN Record(d, i) = 1 .. BusDataSize
<1>1. GenericDataSize + (i - 1) * BusDataSize \in Nat
  BY DEF GenericDataSize, BusDataSize
<1>2. GenericDataSize + (i - 1) * BusDataSize + BusDataSize <= Len(d.bytes)
  BY DatagramType DEF GenericDataSize, BusDataSize
<1>3. /\ Record(d, i) \in Seq(Byte) /\ Len(Record(d, i)) = BusDataSize
  <2>1. d.bytes \in Seq(Byte) /\ BusDataSize \in Nat
    BY DatagramType DEF BusDataSize
  <2> QED
    BY <1>1, <1>2, <2>1, BytesType DEF Record
<1>4. Len(d.bytes) >= GenericDataSize
  BY DatagramType DEF GenericDataSize, BusDataSize
<1>5. GenericData(d) \in [1 .. InterfaceHeaderSize -> Byte]
  BY <1>4, GenericType
<1>6. GenericDataSize + Len(Record(d, i)) <= InterfaceHeaderSize
  BY <1>3 DEF GenericDataSize, BusDataSize, InterfaceHeaderSize
<1>7. GenericDataSize \in Nat /\ InterfaceHeaderSize \in Nat
  BY DEF GenericDataSize, InterfaceHeaderSize
<1> QED
  BY <1>3, <1>5, <1>6, <1>7, CopiedInto DEF BusPayload
-----------------------------------------------------------------------------
\* After AddBusRecord the list has one payload more, of the next record.
LEMMA AddBusRecordStep ==
    ASSUME IInv, AddBusRecord
    PROVE  IInv'
<1> DEFINE n == Len(payloads)
           d == datagram
<1>1. /\ pc = "records" /\ d \in Datagrams /\ d # NoDatagram /\ IsBusStatus
      /\ payloads \in Seq(Seq(Byte)) /\ n \in Nat
  BY NoDatagramAssumption DEF AddBusRecord, IInv, TypeOK, Converted, IsBusStatus
<1>2. /\ generic = GenericData(d)
      /\ busDataOffset = GenericDataSize + BusDataSize * n
  BY <1>1 DEF IInv, RecordsRead
<1>3. GenericDataSize + BusDataSize * (n + 1) <= Len(d.bytes)
  BY <1>1, <1>2, DatagramType DEF AddBusRecord, GenericDataSize, BusDataSize
<1>4. Copied(generic, GenericDataSize, Bytes(d.bytes, busDataOffset, BusDataSize))
        = BusPayload(d, n + 1)
  <2>1. busDataOffset = GenericDataSize + ((n + 1) - 1) * BusDataSize
    BY <1>1, <1>2 DEF GenericDataSize, BusDataSize
  <2> QED
    BY <1>2, <2>1 DEF BusPayload, Record
<1>5. payloads' = Append(payloads, BusPayload(d, n + 1))
  BY <1>4 DEF AddBusRecord
<1>6. BusPayload(d, n + 1) \in Seq(Byte)
  <2>1. BusPayload(d, n + 1) \in [1 .. InterfaceHeaderSize -> Byte] /\ InterfaceHeaderSize \in Nat
    BY <1>1, <1>3, BusPayloadIs DEF InterfaceHeaderSize
  <2> QED
    BY <2>1
<1>7. /\ payloads' \in Seq(Seq(Byte)) /\ Len(payloads') = n + 1
      /\ \A i \in 1 .. n : payloads'[i] = payloads[i]
      /\ payloads'[n + 1] = BusPayload(d, n + 1)
  BY <1>1, <1>5, <1>6
<1>8. UNCHANGED <<datagram, pc, generic, next, packets>> /\ busDataOffset' = busDataOffset + BusDataSize
  BY DEF AddBusRecord
<1>9. next = 1 /\ Len(packets) = 0
  BY <1>1 DEF IInv, Converted, TypeOK
<1>10. TypeOK'
  BY <1>7, <1>8, <1>9 DEF IInv, TypeOK, BusDataSize
<1>11. RecordsRead'
  <2>1. busDataOffset' = GenericDataSize + BusDataSize * Len(payloads')
    BY <1>1, <1>2, <1>7, <1>8 DEF GenericDataSize, BusDataSize
  <2>2. \A i \in DOMAIN payloads' : payloads'[i] = BusPayload(d, i)
    <3>1. \A i \in 1 .. n : payloads[i] = BusPayload(d, i)
      BY <1>1 DEF IInv, RecordsRead
    <3>2. DOMAIN payloads' = 1 .. n + 1
      BY <1>7
    <3>3. \A i \in 1 .. n + 1 : i \in 1 .. n \/ i = n + 1
      BY <1>1
    <3> QED
      BY <1>7, <3>1, <3>2, <3>3
  <2>3. Len(d.bytes) >= GenericDataSize
    BY <1>1 DEF IInv, RecordsRead
  <2> QED
    BY <1>1, <1>2, <1>3, <1>7, <1>8, <2>1, <2>2, <2>3 DEF RecordsRead, IsBusStatus, Accepted
<1>12. Converted'
  <2>1. packets' = packets /\ DOMAIN packets = {}
    <3>1. packets = [i \in 1 .. 0 |-> packets[i]]
      BY <1>9 DEF IInv, Converted
    <3> QED
      BY <1>8, <3>1
  <2> QED
    BY <1>1, <1>8, <1>9, <2>1 DEF IInv, Converted, IsBusStatus, Accepted
<1> QED
  BY <1>10, <1>11, <1>12 DEF IInv

LEMMA ConvertStep ==
    ASSUME IInv, ConvertPayload
    PROVE  IInv'
<1>0. UNCHANGED <<datagram, generic, busDataOffset, payloads>> /\ pc = "convert"
      /\ next \in DOMAIN payloads
  BY DEF ConvertPayload
<1>1. CASE ~ Readable(datagram, payloads[next])
  <2>1. pc' = "undefined" /\ UNCHANGED <<packets, next>>
    BY <1>1 DEF ConvertPayload
  <2> QED
    BY <1>0, <2>1 DEF IInv, TypeOK, RecordsRead, Converted, IsBusStatus, Accepted
<1>2. CASE Readable(datagram, payloads[next])
  <2>1. /\ packets' = Append(packets, ConvertPacket(datagram, payloads[next]))
        /\ next' = next + 1 /\ pc' = pc
    BY <1>2 DEF ConvertPayload
  <2>2. /\ packets = [i \in 1 .. next - 1 |-> packets[i]]
        /\ next \in 1 .. Len(payloads) /\ payloads \in Seq(Seq(Byte))
        /\ next - 1 \in Nat /\ (next - 1) + 1 = next /\ next' - 1 = next
    <3>1. packets = [i \in 1 .. next - 1 |-> packets[i]]
      BY DEF IInv, Converted
    <3>2. payloads \in Seq(Seq(Byte)) /\ next \in 1 .. Len(payloads)
      BY <1>0 DEF IInv, TypeOK
    <3>3. next \in Nat \ {0} /\ next' = next + 1
      BY <2>1, <3>2
    <3> QED
      BY <3>1, <3>2, <3>3
  <2>3. /\ packets' = [i \in 1 .. next' - 1 |-> packets'[i]]
        /\ Len(packets') = next' - 1
        /\ \A i \in 1 .. next - 1 : packets'[i] = packets[i]
        /\ packets'[next] = ConvertPacket(datagram, payloads[next])
        /\ DOMAIN packets' = 1 .. next /\ DOMAIN packets = 1 .. next - 1
    <3> DEFINE e == ConvertPacket(datagram, payloads[next])
    <3>1. packets' = Append(packets, e)
      BY <2>1
    <3> HIDE DEF e
    <3>2. /\ packets' = [i \in 1 .. next |-> packets'[i]]
          /\ Len(packets') = next
          /\ \A i \in 1 .. next - 1 : packets'[i] = packets[i]
          /\ packets'[next] = e
      BY <2>2, <3>1, AppendIs
    <3>3. DOMAIN packets' = 1 .. next /\ DOMAIN packets = 1 .. next - 1
      BY <2>2, <3>2
    <3> QED
      BY <2>2, <3>2, <3>3 DEF e
  <2>4. TypeOK'
    BY <1>0, <2>1, <2>2, <2>3 DEF IInv, TypeOK
  <2>5. RecordsRead'
    BY <1>0, <2>1 DEF IInv, RecordsRead, IsBusStatus, Accepted
  <2>6. ASSUME datagram # NoDatagram, IsBusStatus
        PROVE  \A i \in DOMAIN packets' : packets'[i] = ConvertPacket(datagram, payloads[i])
    <3>1. \A i \in 1 .. next - 1 : packets[i] = ConvertPacket(datagram, payloads[i])
      BY <2>3, <2>6 DEF IInv, Converted
    <3>2. \A i \in 1 .. next : i \in 1 .. next - 1 \/ i = next
      BY <2>2
    <3> QED
      BY <2>3, <3>1, <3>2
  <2>7. Converted'
    <3>1. IsBusStatus' <=> IsBusStatus
      BY <1>0 DEF IsBusStatus, Accepted
    <3>2. UNCHANGED <<datagram, payloads>> /\ Accepted' = Accepted
      BY <1>0 DEF Accepted
    <3> QED
      BY <1>0, <2>1, <2>3, <2>6, <3>1, <3>2 DEF IInv, Converted
  <2> QED
    BY <2>4, <2>5, <2>7 DEF IInv
<1> QED
  BY <1>1, <1>2

\* What the caller passes is a sequence of bytes; nothing else is read yet.
LEMMA DecodeStep ==
    ASSUME IInv, NEW d \in Datagrams, Decode(d)
    PROVE  IInv'
<1>1. /\ datagram' = d /\ packets' = <<>> /\ payloads' = <<>> /\ next' = 1
      /\ busDataOffset' = GenericDataSize /\ generic' = <<>>
      /\ pc' \in {"handle", "idle"} /\ (pc' = "handle" <=> Accepted')
  BY DEF Decode, Accepted
<1>2. d # NoDatagram
  BY NoDatagramAssumption, DatagramsAssumption
<1>3. payloads' \in Seq(Seq(Byte)) /\ Len(payloads') = 0 /\ DOMAIN payloads' = {}
      /\ Len(packets') = 0 /\ packets' = [i \in 1 .. 0 |-> packets'[i]] /\ DOMAIN packets' = {}
  BY <1>1
<1>4. TypeOK'
  BY <1>1, <1>2, <1>3 DEF TypeOK, GenericDataSize
<1>5. RecordsRead'
  BY <1>1, <1>3 DEF RecordsRead, IsBusStatus
<1>6. Converted'
  BY <1>1, <1>3 DEF Converted, IsBusStatus
<1> QED
  BY <1>4, <1>5, <1>6 DEF IInv

\* A capture module status or bus data is one payload, and no bus status.
LEMMA TakePayloadStep ==
    ASSUME IInv, TakePayload, pc = "handle", datagram.messageType \in {"cmStatus", "data"}
    PROVE  IInv'
<1>1. /\ UNCHANGED <<datagram, generic, busDataOffset, next, packets>>
      /\ pc' = "convert" /\ payloads' = <<datagram.bytes>>
  BY DEF TakePayload
<1>2. datagram \in Datagrams /\ datagram # NoDatagram /\ next = 1
  BY DEF IInv, TypeOK, Converted
<1>3. payloads' \in Seq(Seq(Byte)) /\ Len(payloads') = 1
  <2>1. datagram.bytes \in Seq(Byte)
    BY <1>2, DatagramType
  <2> QED
    BY <1>1, <2>1
<1>4. TypeOK'
  BY <1>1, <1>2, <1>3 DEF IInv, TypeOK
<1>5. ~IsBusStatus' /\ Accepted'
  BY <1>1, <1>2 DEF IsBusStatus, IInv, Converted, Accepted
<1>6. RecordsRead' /\ Converted'
  BY <1>1, <1>2, <1>5 DEF RecordsRead, IInv, Converted
<1> QED
  BY <1>4, <1>6 DEF IInv

\* The generic data is copied whole, or the call is undefined.
LEMMA HandleBusStatusStep ==
    ASSUME IInv, HandleBusStatus
    PROVE  IInv'
<1>1. /\ UNCHANGED <<datagram, busDataOffset, payloads, next, packets>>
      /\ pc = "handle" /\ datagram.messageType = "busStatus"
      /\ datagram \in Datagrams /\ datagram # NoDatagram /\ payloads = <<>> /\ next = 1
  BY DEF HandleBusStatus, Handles, IInv, TypeOK, Converted
<1>2. CASE Len(datagram.bytes) >= GenericDataSize
  <2>1. generic' = GenericData(datagram) /\ pc' = "records"
    BY <1>2 DEF HandleBusStatus, GenericData
  <2>2. generic' \in [1 .. InterfaceHeaderSize -> Byte]
    BY <1>1, <1>2, <2>1, GenericType
  <2>3. TypeOK'
    BY <1>1, <2>1, <2>2 DEF IInv, TypeOK
  <2>4. busDataOffset' = GenericDataSize + BusDataSize * Len(payloads)
    BY <1>1 DEF IInv, RecordsRead, Converted, IsBusStatus, BusDataSize, GenericDataSize
  <2>5. RecordsRead'
    BY <1>1, <1>2, <2>1, <2>4 DEF RecordsRead
  <2>6. Converted'
    BY <1>1, <2>1 DEF IInv, Converted, IsBusStatus, Accepted
  <2> QED
    BY <2>3, <2>5, <2>6 DEF IInv
<1>3. CASE ~(Len(datagram.bytes) >= GenericDataSize)
  <2>1. UNCHANGED generic /\ pc' = "undefined"
    BY <1>3 DEF HandleBusStatus
  <2> QED
    BY <1>1, <2>1 DEF IInv, TypeOK, RecordsRead, Converted, IsBusStatus, Accepted
<1> QED
  BY <1>2, <1>3

\* When the loop ends, every whole record has been read.
LEMMA EndOfBusRecordsStep ==
    ASSUME IInv, EndOfBusRecords
    PROVE  IInv'
<1> DEFINE n == Len(payloads)
           length == Len(datagram.bytes)
<1>1. /\ UNCHANGED <<datagram, generic, busDataOffset, payloads, next, packets>>
      /\ pc = "records" /\ datagram \in Datagrams /\ datagram # NoDatagram
      /\ pc' = IF payloads = <<>> THEN "idle" ELSE "convert"
      /\ length - busDataOffset < BusDataSize
      /\ IsBusStatus /\ n \in Nat /\ next = 1
  BY DEF EndOfBusRecords, IInv, TypeOK, Converted, IsBusStatus
<1>2. /\ busDataOffset = GenericDataSize + BusDataSize * n
      /\ length >= GenericDataSize
      /\ GenericDataSize + BusDataSize * n <= length \/ n = 0
  BY <1>1 DEF IInv, RecordsRead
<1>3. n = RecordCount(datagram)
  <2>1. length \in Nat
    BY <1>1, DatagramType
  <2>2. /\ GenericDataSize + BusDataSize * n <= length
        /\ length - (GenericDataSize + BusDataSize * n) < BusDataSize
    <3>1. n \in Nat /\ length - busDataOffset < BusDataSize
      BY <1>1
    <3> HIDE DEF n, length
    <3>2. n = 0 => GenericDataSize + BusDataSize * n = GenericDataSize
      BY <3>1 DEF GenericDataSize, BusDataSize
    <3> QED
      BY <1>2, <3>1, <3>2
  <2>3. (length - 12) \div 12 = n
    BY <1>1, <2>1, <2>2, CountIs DEF GenericDataSize, BusDataSize
  <2> QED
    BY <2>3 DEF RecordCount, GenericDataSize, BusDataSize
<1>4. TypeOK'
  BY <1>1 DEF IInv, TypeOK
<1>5. RecordsRead'
  BY <1>1, <1>3 DEF IInv, RecordsRead, IsBusStatus, Accepted
<1>6. Converted'
  <2>1. pc' = "idle" => next = n + 1
    BY <1>1
  <2> QED
    BY <1>1, <2>1 DEF IInv, Converted, IsBusStatus, Accepted
<1> QED
  BY <1>4, <1>5, <1>6 DEF IInv

\* The other steps end the call, or leave it.
LEMMA OtherSteps ==
    ASSUME IInv,
           \/ HandleUnimplementedData \/ IgnoreMessage \/ Return \/ UNCHANGED vars
    PROVE  IInv'
<1>1. CASE HandleUnimplementedData
  BY <1>1 DEF HandleUnimplementedData, Handles, IInv, TypeOK, RecordsRead, Converted,
              IsBusStatus, Accepted
<1>2. CASE IgnoreMessage
  BY <1>2 DEF IgnoreMessage, IInv, TypeOK, RecordsRead, Converted, IsBusStatus, Accepted
<1>3. CASE Return
  <2>1. /\ UNCHANGED <<datagram, generic, busDataOffset, payloads, next, packets>>
        /\ pc = "convert" /\ pc' = "idle" /\ next \notin DOMAIN payloads
    BY <1>3 DEF Return
  <2>2. next = Len(payloads) + 1
    BY <2>1 DEF IInv, TypeOK
  <2> QED
    BY <2>1, <2>2 DEF IInv, TypeOK, RecordsRead, Converted, IsBusStatus, Accepted
<1>4. CASE UNCHANGED vars
  BY <1>4 DEF vars, IInv, TypeOK, RecordsRead, Converted, IsBusStatus, Accepted
<1> QED
  BY <1>1, <1>2, <1>3, <1>4

LEMMA IInvInvariant == Spec => []IInv
<1>1. Init => IInv
  BY DEF Init, IInv, TypeOK, RecordsRead, Converted, GenericDataSize
<1>2. IInv /\ [Next]_vars => IInv'
  <2> SUFFICES ASSUME IInv, [Next]_vars PROVE IInv'
    OBVIOUS
  <2>1. ASSUME NEW d \in Datagrams, Decode(d) PROVE IInv'
    BY <2>1, DecodeStep
  <2>2. CASE HandleCaptureModule
    BY <2>2, TakePayloadStep DEF HandleCaptureModule, Handles
  <2>3. CASE HandleData
    BY <2>3, TakePayloadStep DEF HandleData, Handles, TakePayload
  <2>4. CASE HandleUnimplementedData
    BY <2>4, OtherSteps
  <2>5. CASE HandleBusStatus
    BY <2>5, HandleBusStatusStep
  <2>6. CASE AddBusRecord
    BY <2>6, AddBusRecordStep
  <2>7. CASE EndOfBusRecords
    BY <2>7, EndOfBusRecordsStep
  <2>8. CASE IgnoreMessage
    BY <2>8, OtherSteps
  <2>9. CASE ConvertPayload
    BY <2>9, ConvertStep
  <2>10. CASE Return
    BY <2>10, OtherSteps
  <2>11. CASE UNCHANGED vars
    BY <2>11, OtherSteps
  <2> QED
    BY <2>1, <2>2, <2>3, <2>4, <2>5, <2>6, <2>7, <2>8, <2>9, <2>10, <2>11 DEF Next, Step
<1> QED
  BY <1>1, <1>2, PTL DEF Spec

(***************************************************************************)
(* The state has its type in every state: a payload of bytes, a list of    *)
(* packets that follows the list of payloads.                              *)
(***************************************************************************)
THEOREM TypeCorrect == Spec => []TypeOK
<1>1. IInv => TypeOK
  BY DEF IInv
<1> QED
  BY <1>1, IInvInvariant, PTL
-----------------------------------------------------------------------------
\* Setting a field changes the word it is in and nothing else of a payload.
Payload(p, W) ==
    /\ DOMAIN p = {"type", "word", "dataLength", "dlc", "body"}
    /\ p = [x \in DOMAIN p |-> p[x]]
    /\ p.word = [w \in W |-> p.word[w]]

LEMMA WithBitsIs ==
    ASSUME NEW W, NEW p, Payload(p, W), NEW f, NEW v, NEW word, NEW mask, word \in W,
           FieldsOf[p.type][f].word = word, FieldsOf[p.type][f].mask = mask
    PROVE  /\ Payload(WithBits(p, f, v), W)
           /\ WithBits(p, f, v).type = p.type
           /\ WithBits(p, f, v).word[word] = (p.word[word] \ mask) \cup v
           /\ \A w \in W \ {word} : WithBits(p, f, v).word[w] = p.word[w]
<1> DEFINE new == (p.word[word] \ mask) \cup v
           g == [p.word EXCEPT ![word] = new]
           q == [p EXCEPT !["word"] = g]
<1>1. WithBits(p, f, v) = q
  BY DEF WithBits
<1>2. g = [w \in W |-> g[w]] /\ g[word] = new /\ \A w \in W \ {word} : g[w] = p.word[w]
  BY DEF Payload
<1> HIDE DEF new, g
<1>3. DOMAIN q = DOMAIN p /\ q["word"] = g /\ q["type"] = p["type"]
      /\ q = [x \in DOMAIN q |-> q[x]]
  BY DEF Payload
<1> QED
  BY <1>1, <1>2, <1>3 DEF Payload, new

LEMMA InterfaceReads ==
    ASSUME NEW b
    PROVE  LET p == ConvertInterface(b)
           IN  /\ p.type = "ifStatMsg"
               /\ Get(p, "interfaceId") = Bits32(InterfaceId(b))
               /\ Get(p, "msgTotalRx") = Bits32(MessagesTotal(b))
               /\ Get(p, "errorsTotalRx") = Bits32(ErrorsTotal(b))
<1> DEFINE F == FieldsOf["ifStatMsg"]
           W == WordsOf("ifStatMsg")
           p0 == NewPayload("ifStatMsg")
           id == Bits32(InterfaceId(b))
           msgs == Bits32(MessagesTotal(b))
           errors == Bits32(ErrorsTotal(b))
           p1 == WithBits(p0, "interfaceId", id)
           p2 == WithBits(p1, "msgTotalRx", msgs)
           p3 == WithBits(p2, "errorsTotalRx", errors)
           m == 0 .. 31
<1>1. F = InterfaceFields
  BY DEF FieldsOf
<1>2. /\ F["interfaceId"].word = "interfaceId" /\ F["interfaceId"].mask = m
      /\ F["msgTotalRx"].word = "msgTotalRx" /\ F["msgTotalRx"].mask = m
      /\ F["errorsTotalRx"].word = "errorsTotalRx" /\ F["errorsTotalRx"].mask = m
  BY <1>1 DEF InterfaceFields, Whole
<1>3. {"interfaceId", "msgTotalRx", "errorsTotalRx"} \subseteq DOMAIN F
  BY <1>1 DEF InterfaceFields
<1>4. {"interfaceId", "msgTotalRx", "errorsTotalRx"} \subseteq W
  BY <1>2, <1>3 DEF WordsOf, Fields
<1>5. id \subseteq m /\ msgs \subseteq m /\ errors \subseteq m
  BY DEF Bits32
<1>6. Payload(p0, W) /\ p0.type = "ifStatMsg" /\ \A w \in W : p0.word[w] = {}
  BY DEF NewPayload, Payload
<1>7. ConvertInterface(b) = p3
  BY DEF ConvertInterface
<1> HIDE DEF W, p0, id, msgs, errors, m
<1>8. /\ Payload(p1, W) /\ p1.type = "ifStatMsg"
      /\ p1.word["interfaceId"] = id
      /\ \A w \in W \ {"interfaceId"} : p1.word[w] = {}
  <2>1. /\ FieldsOf[p0.type]["interfaceId"].word = "interfaceId"
        /\ FieldsOf[p0.type]["interfaceId"].mask = m
        /\ "interfaceId" \in W /\ Payload(p0, W)
    BY <1>2, <1>4, <1>6
  <2>2. /\ Payload(p1, W) /\ p1.type = p0.type
        /\ p1.word["interfaceId"] = (p0.word["interfaceId"] \ m) \cup id
        /\ \A w \in W \ {"interfaceId"} : p1.word[w] = p0.word[w]
    BY <2>1, WithBitsIs
  <2> HIDE DEF p1
  <2> QED
    BY <1>4, <1>6, <2>2
<1> HIDE DEF p1
<1>9. /\ Payload(p2, W) /\ p2.type = "ifStatMsg"
      /\ p2.word["interfaceId"] = id /\ p2.word["msgTotalRx"] = msgs
      /\ \A w \in W \ {"interfaceId", "msgTotalRx"} : p2.word[w] = {}
  <2>1. /\ FieldsOf[p1.type]["msgTotalRx"].word = "msgTotalRx"
        /\ FieldsOf[p1.type]["msgTotalRx"].mask = m
        /\ "msgTotalRx" \in W /\ Payload(p1, W)
    BY <1>2, <1>4, <1>8
  <2>2. /\ Payload(p2, W) /\ p2.type = p1.type
        /\ p2.word["msgTotalRx"] = (p1.word["msgTotalRx"] \ m) \cup msgs
        /\ \A w \in W \ {"msgTotalRx"} : p2.word[w] = p1.word[w]
    BY <2>1, WithBitsIs
  <2> HIDE DEF p2
  <2> QED
    BY <1>4, <1>8, <2>2
<1> HIDE DEF p2
<1>10. /\ p3.type = "ifStatMsg"
       /\ p3.word["interfaceId"] = id /\ p3.word["msgTotalRx"] = msgs
       /\ p3.word["errorsTotalRx"] = errors
  <2>1. /\ FieldsOf[p2.type]["errorsTotalRx"].word = "errorsTotalRx"
        /\ FieldsOf[p2.type]["errorsTotalRx"].mask = m
        /\ "errorsTotalRx" \in W /\ Payload(p2, W)
    BY <1>2, <1>4, <1>9
  <2>2. /\ Payload(p3, W) /\ p3.type = p2.type
        /\ p3.word["errorsTotalRx"] = (p2.word["errorsTotalRx"] \ m) \cup errors
        /\ \A w \in W \ {"errorsTotalRx"} : p3.word[w] = p2.word[w]
    BY <2>1, WithBitsIs
  <2> HIDE DEF p3
  <2> QED
    BY <1>4, <1>9, <2>2
<1> HIDE DEF p3
<1>11. /\ Get(p3, "interfaceId") = id /\ Get(p3, "msgTotalRx") = msgs
       /\ Get(p3, "errorsTotalRx") = errors
  BY <1>2, <1>5, <1>10 DEF Get
<1> QED
  BY <1>7, <1>10, <1>11 DEF id, msgs, errors

(***************************************************************************)
(* A bus status of any length yields one packet for each record, in order  *)
(* and with the record's interface, messages and errors                    *)
(* (tecmp_decoder.cpp:122-145, 164-176, tecmp_converter.cpp:83-98).        *)
(***************************************************************************)
THEOREM RecordsInOrder == Spec => []BusRecordsInOrder
<1> SUFFICES ASSUME IInv, Returned("busStatus") PROVE BusRecordsInOrder
  BY IInvInvariant, PTL DEF BusRecordsInOrder
<1> DEFINE d == datagram
<1>1. /\ d \in Datagrams /\ d # NoDatagram /\ IsBusStatus /\ pc = "idle"
      /\ Len(payloads) = RecordCount(d)
      /\ Len(packets) = Len(payloads) /\ payloads \in Seq(Seq(Byte))
      /\ DOMAIN packets = 1 .. Len(payloads)
  BY DEF Returned, IInv, TypeOK, RecordsRead, Converted, IsBusStatus
<1>2. ASSUME NEW i \in DOMAIN packets
      PROVE  LET p == packets[i]
                 r == Record(d, i)
             IN  /\ p.deviceId = d.deviceId
                 /\ p.timestamp = d.timestamp
                 /\ p.interfaceId = Bytes(r, 0, 4)
                 /\ p.payload.type = "ifStatMsg"
                 /\ Get(p.payload, "interfaceId") = Bits32(Bytes(r, 0, 4))
                 /\ Get(p.payload, "msgTotalRx") = Bits32(Bytes(r, 4, 4))
                 /\ Get(p.payload, "errorsTotalRx") = Bits32(Bytes(r, 8, 4))
  <2> DEFINE b == BusPayload(d, i)
             r == Record(d, i)
  <2>1. packets[i] = ConvertPacket(d, b)
    <3>1. i \in DOMAIN payloads
      BY <1>1
    <3>2. payloads[i] = b
      BY <1>1, <3>1 DEF IInv, RecordsRead
    <3>3. packets[i] = ConvertPacket(d, payloads[i])
      BY <1>1 DEF IInv, Converted
    <3> QED
      BY <3>2, <3>3
  <2>2. i \in Nat \ {0} /\ GenericDataSize + BusDataSize * i <= Len(d.bytes)
    <3>1. i \in 1 .. Len(payloads) /\ Len(payloads) \in Nat
      BY <1>1
    <3>2. GenericDataSize + BusDataSize * Len(payloads) <= Len(d.bytes)
      BY <1>1, <3>1 DEF IInv, RecordsRead
    <3> QED
      BY <1>1, <3>1, <3>2, DatagramType DEF GenericDataSize, BusDataSize
  <2>3. \A k \in 1 .. 12 : b[12 + k] = r[k]
    BY <1>1, <2>2, BusPayloadIs DEF GenericDataSize, BusDataSize
  <2> HIDE DEF b, r
  <2>4. /\ InterfaceId(b) = Bytes(r, 0, 4)
        /\ MessagesTotal(b) = Bytes(r, 4, 4)
        /\ ErrorsTotal(b) = Bytes(r, 8, 4)
    BY <2>3 DEF InterfaceId, MessagesTotal, ErrorsTotal, Bytes, GenericDataSize
  <2>5. packets[i] = [PackageFromTecmpHeader(d, ConvertInterface(b))
                        EXCEPT !.interfaceId = InterfaceId(b)]
    BY <1>1, <2>1 DEF ConvertPacket, IsBusStatus
  <2>6. /\ packets[i].deviceId = d.deviceId /\ packets[i].timestamp = d.timestamp
        /\ packets[i].interfaceId = InterfaceId(b)
        /\ packets[i].payload = ConvertInterface(b)
    BY <2>5 DEF PackageFromTecmpHeader
  <2> QED
    BY <2>4, <2>6, InterfaceReads DEF r
<1> QED
  BY <1>1, <1>2 DEF BusRecordsInOrder

(***************************************************************************)
(* Fewer bytes than a record behind what a datagram announces make no      *)
(* packet, however many records it announces (tecmp_decoder.cpp:25, 136).  *)
(***************************************************************************)
THEOREM OnlyAnnounced == Spec => []OnlyAnnouncedRecords
<1> DEFINE announced == datagram.payloadLength - GenericDataSize
           length == Len(datagram.bytes)
           n == Len(packets)
<1> SUFFICES ASSUME IInv, Returned("busStatus"), announced >= 0, announced % BusDataSize = 0,
                    length - datagram.payloadLength < BusDataSize
             PROVE  n * BusDataSize = announced
  BY IInvInvariant, PTL DEF OnlyAnnouncedRecords
<1>1. /\ datagram \in Datagrams /\ datagram # NoDatagram /\ IsBusStatus
      /\ n = RecordCount(datagram)
  BY DEF Returned, IInv, TypeOK, RecordsRead, Converted, IsBusStatus
<1>2. /\ length \in Nat /\ datagram.payloadLength \in Nat
      /\ length >= datagram.payloadLength
  BY <1>1, DatagramType DEF IsBusStatus, Accepted
<1>3. announced \in Nat /\ announced % 12 = 0
      /\ announced <= length - 12 /\ length - 12 < announced + 12
  BY <1>2 DEF GenericDataSize, BusDataSize
<1>4. n = (length - 12) \div 12
  BY <1>1 DEF RecordCount, GenericDataSize, BusDataSize
<1> HIDE DEF announced, length, n
<1>5. PICK k \in Nat : announced = 12 * k
  <2>1. announced = 12 * (announced \div 12) + (announced % 12) /\ announced \div 12 \in Nat
    BY <1>3
  <2> QED
    BY <1>3, <2>1
<1>6. n = k
  <2>1. length \in Nat /\ 12 + 12 * k <= length /\ length - (12 + 12 * k) < 12
    BY <1>2, <1>3, <1>5
  <2>2. (length - 12) \div 12 = k
    BY <2>1, CountIs
  <2> QED
    BY <1>4, <2>2
<1> QED
  BY <1>5, <1>6 DEF BusDataSize
-----------------------------------------------------------------------------
\* A datagram of another kind is converted from its own bytes.
CInv ==
    /\ pc = "convert" /\ datagram.messageType # "busStatus" => payloads = <<datagram.bytes>>
    /\ ConsistentIsDefined

\* In a consistent datagram everything that the getters read is there.
LEMMA ConsistentReadable ==
    ASSUME NEW d \in Datagrams, Consistent(d),
           \/ d.messageType = "cmStatus"
           \/ d.messageType = "data" /\ d.dataType \in {"can", "canFd", "lin"}
    PROVE  Readable(d, d.bytes)
<1>1. d.bytes \in Seq(Byte)
  BY DatagramType
<1>2. CASE d.messageType = "cmStatus"
  BY <1>2 DEF Consistent, Readable
<1>3. CASE d.messageType = "data" /\ d.dataType = "lin"
  <2>1. /\ Len(d.bytes) >= 2
        /\ Len(d.bytes) - (LinHeaderSize + LinLength(d.bytes)) \in {0, 1}
    BY <1>3 DEF Consistent
  <2>2. LinLength(d.bytes) \in Nat
    <3>1. 2 \in DOMAIN d.bytes
      BY <1>1, <2>1
    <3>2. d.bytes[2] \in Byte
      BY <1>1, <3>1
    <3>3. Byte \subseteq Nat
      BY ByteAssumption DEF Byte
    <3> QED
      BY <3>2, <3>3 DEF LinHeaderSize, LinLength
  <2> QED
    BY <1>1, <1>3, <2>1, <2>2 DEF Readable, LinReadable, LinHeaderSize
<1>4. CASE d.messageType = "data" /\ d.dataType \in {"can", "canFd"}
  <2>1. /\ Len(d.bytes) >= 5
        /\ Len(d.bytes) - (CanHeaderSize + Dlc(d.bytes)) \in {0, CanCrcSize}
    BY <1>4 DEF Consistent
  <2>2. Dlc(d.bytes) \in Nat
    <3>1. 5 \in DOMAIN d.bytes
      BY <1>1, <2>1
    <3>2. d.bytes[5] \in Byte
      BY <1>1, <3>1
    <3>3. Byte \subseteq Nat
      BY ByteAssumption DEF Byte
    <3> QED
      BY <3>2, <3>3 DEF CanHeaderSize, Dlc
  <2> QED
    BY <1>1, <1>4, <2>1, <2>2 DEF Readable, CanReadable, CanHeaderSize, CanCrcSize
<1> QED
  BY <1>2, <1>3, <1>4

(***************************************************************************)
(* A datagram of an implemented type whose length fields agree never leads *)
(* to a read behind its bytes or through a null pointer, with any lengths  *)
(* (tecmp_decoder.cpp:78, 134, tecmp_can_payload.cpp:75-85,                *)
(* tecmp_lin_payload.cpp:140-145).                                         *)
(***************************************************************************)
THEOREM ConsistentStaysDefined == Spec => []ConsistentIsDefined
<1>1. Init => CInv
  BY DEF Init, CInv, ConsistentIsDefined
<1>2. IInv /\ CInv /\ [Next]_vars => CInv'
  <2> SUFFICES ASSUME IInv, CInv, [Next]_vars PROVE CInv'
    OBVIOUS
  <2>0. /\ pc # "idle" /\ pc # "undefined" => datagram \in Datagrams
        /\ pc = "convert" => datagram.messageType \in {"busStatus", "cmStatus", "data"}
    BY DEF IInv, TypeOK, Converted
  <2>1. ASSUME NEW d \in Datagrams, Decode(d) PROVE CInv'
    BY <2>1 DEF Decode, CInv, ConsistentIsDefined
  <2>2. CASE HandleCaptureModule \/ HandleData
    BY <2>2 DEF HandleCaptureModule, HandleData, TakePayload, CInv, ConsistentIsDefined
  <2>3. CASE HandleUnimplementedData
    <3>1. ~ Consistent(datagram)
      BY <2>3 DEF HandleUnimplementedData, Handles, Consistent
    <3> QED
      BY <2>3, <3>1 DEF HandleUnimplementedData, CInv, ConsistentIsDefined, Consistent
  <2>4. CASE HandleBusStatus
    <3>1. Len(datagram.bytes) >= GenericDataSize \/ ~ Consistent(datagram)
      BY <2>4 DEF HandleBusStatus, Handles, Consistent
    <3> QED
      BY <2>4, <3>1 DEF HandleBusStatus, CInv, ConsistentIsDefined, Consistent
  <2>5. CASE AddBusRecord \/ EndOfBusRecords
    <3>1. datagram.messageType = "busStatus"
      BY <2>5 DEF AddBusRecord, EndOfBusRecords, IInv, Converted
    <3> QED
      BY <2>5, <3>1 DEF AddBusRecord, EndOfBusRecords, CInv, ConsistentIsDefined
  <2>6. CASE IgnoreMessage \/ Return
    BY <2>6 DEF IgnoreMessage, Return, CInv, ConsistentIsDefined
  <2>7. CASE ConvertPayload
    <3>1. pc = "convert" /\ UNCHANGED <<datagram, payloads>> /\ next \in DOMAIN payloads
      BY <2>7 DEF ConvertPayload
    <3>2. CASE Readable(datagram, payloads[next])
      BY <2>7, <3>1, <3>2 DEF ConvertPayload, CInv, ConsistentIsDefined
    <3>3. CASE ~ Readable(datagram, payloads[next])
      <4>1. datagram.messageType # "busStatus"
        BY <3>3 DEF Readable
      <4>2. payloads[next] = datagram.bytes
        BY <3>1, <4>1 DEF CInv
      <4>3. datagram.messageType = "data" /\ datagram.dataType \notin {"can", "canFd", "lin"}
              => ~ Consistent(datagram)
        BY DEF Consistent
      <4>4. ~ Consistent(datagram)
        BY <2>0, <3>1, <3>3, <4>1, <4>2, <4>3, ConsistentReadable
      <4> QED
        BY <2>7, <3>1, <3>3, <4>4 DEF ConvertPayload, CInv, ConsistentIsDefined, Consistent
    <3> QED
      BY <3>2, <3>3
  <2>8. CASE UNCHANGED vars
    BY <2>8 DEF vars, CInv, ConsistentIsDefined, Consistent
  <2> QED
    BY <2>1, <2>2, <2>3, <2>4, <2>5, <2>6, <2>7, <2>8 DEF Next, Step
<1>3. CInv => ConsistentIsDefined
  BY DEF CInv
<1> QED
  BY <1>1, <1>2, <1>3, IInvInvariant, PTL DEF Spec
-----------------------------------------------------------------------------
\* What DecimalValue makes of a text of digits: the value of every prefix,
\* and of a text with a digit more.

\* v is the running value of the digits of s, up to the n-th.
Valuing(v, s, n) ==
    \A i \in 0 .. n : v[i] = IF i = 0 THEN 0 ELSE v[i - 1] * 10 + (s[i] - 48)

LEMMA ValuingExists ==
    ASSUME NEW s, NEW n \in Nat
    PROVE  \E v : Valuing(v, s, n)
<1> DEFINE T == {m \in Nat : \E v : Valuing(v, s, m)}
<1>1. 0 \in T
  <2> DEFINE v == [i \in 0 .. 0 |-> 0]
  <2>1. Valuing(v, s, 0)
    BY DEF Valuing
  <2> QED
    BY <2>1
<1>2. ASSUME NEW m \in T PROVE m + 1 \in T
  <2>1. PICK v : Valuing(v, s, m)
    OBVIOUS
  <2> DEFINE w == [i \in 0 .. m + 1 |-> IF i = 0 THEN 0 ELSE v[i - 1] * 10 + (s[i] - 48)]
  <2>2. \A i \in 0 .. m : w[i] = v[i]
    BY <2>1 DEF Valuing
  <2>3. \A i \in 0 .. m + 1 : w[i] = IF i = 0 THEN 0 ELSE v[i - 1] * 10 + (s[i] - 48)
    OBVIOUS
  <2> HIDE DEF w
  <2>4. \A i \in 0 .. m + 1 : i # 0 => w[i - 1] = v[i - 1]
    BY <2>2
  <2>5. Valuing(w, s, m + 1)
    BY <2>3, <2>4 DEF Valuing
  <2> QED
    BY <2>5
<1> HIDE DEF T
<1>3. T = Nat
  BY <1>1, <1>2, SetInduction DEF T
<1> QED
  BY <1>3 DEF T

LEMMA DecimalValueIs ==
    ASSUME NEW s, Len(s) \in Nat
    PROVE  \E v : Valuing(v, s, Len(s)) /\ DecimalValue(s) = v[Len(s)]
<1> DEFINE n == Len(s)
           Values(f) == f = [i \in 0 .. n |-> IF i = 0 THEN 0 ELSE f[i - 1] * 10 + (s[i] - 48)]
           v == CHOOSE f : Values(f)
<1>1. DecimalValue(s) = v[n]
  BY DEF DecimalValue
<1>2. PICK u : Valuing(u, s, n)
  BY ValuingExists
<1>3. \E f : Values(f)
  <2> DEFINE g == [i \in 0 .. n |-> u[i]]
             w == [i \in 0 .. n |-> IF i = 0 THEN 0 ELSE g[i - 1] * 10 + (s[i] - 48)]
  <2>1. \A i \in 0 .. n : g[i] = w[i]
    BY <1>2 DEF Valuing
  <2>2. g = w
    BY <2>1
  <2> QED
    BY <2>2
<1>4. Values(v)
  BY <1>3
<1> HIDE DEF v
<1>5. Valuing(v, s, n)
  <2> DEFINE w == [i \in 0 .. n |-> IF i = 0 THEN 0 ELSE v[i - 1] * 10 + (s[i] - 48)]
  <2>1. v = w
    BY <1>4
  <2>2. \A i \in 0 .. n : w[i] = IF i = 0 THEN 0 ELSE v[i - 1] * 10 + (s[i] - 48)
    OBVIOUS
  <2> HIDE DEF w
  <2> QED
    BY <2>1, <2>2 DEF Valuing
<1> QED
  BY <1>1, <1>5

LEMMA ValuingUnique ==
    ASSUME NEW s, NEW t, NEW m \in Nat, \A i \in 1 .. m : s[i] = t[i],
           NEW v, Valuing(v, s, m), NEW w, Valuing(w, t, m)
    PROVE  v[m] = w[m]
<1> DEFINE T == {n \in Nat : n <= m => v[n] = w[n]}
<1>1. 0 \in T
  BY DEF Valuing
<1>2. ASSUME NEW n \in T PROVE n + 1 \in T
  <2> SUFFICES ASSUME n + 1 <= m PROVE v[n + 1] = w[n + 1]
    OBVIOUS
  <2>1. n + 1 \in 0 .. m /\ n + 1 # 0 /\ (n + 1) - 1 = n /\ n + 1 \in 1 .. m /\ v[n] = w[n]
    OBVIOUS
  <2>2. v[n + 1] = v[n] * 10 + (s[n + 1] - 48) /\ w[n + 1] = w[n] * 10 + (t[n + 1] - 48)
    BY <2>1 DEF Valuing
  <2> QED
    BY <2>1, <2>2
<1> HIDE DEF T
<1>3. T = Nat
  BY <1>1, <1>2, SetInduction DEF T
<1> QED
  BY <1>3 DEF T

LEMMA ValueEmpty == DecimalValue(<<>>) = 0
<1>1. Len(<<>>) = 0
  OBVIOUS
<1>2. PICK v : Valuing(v, <<>>, Len(<<>>)) /\ DecimalValue(<<>>) = v[Len(<<>>)]
  BY <1>1, DecimalValueIs
<1> QED
  BY <1>1, <1>2 DEF Valuing

\* One more digit at the end.
LEMMA ValueAppend ==
    ASSUME NEW s \in Seq(Nat), NEW e \in Nat
    PROVE  DecimalValue(Append(s, e)) = DecimalValue(s) * 10 + (e - 48)
<1> DEFINE t == Append(s, e)
           n == Len(s)
<1>1. /\ n \in Nat /\ Len(t) = n + 1 /\ t[n + 1] = e
      /\ \A i \in 1 .. n : s[i] = t[i]
  OBVIOUS
<1>2. PICK v : Valuing(v, s, n) /\ DecimalValue(s) = v[n]
  BY <1>1, DecimalValueIs
<1> HIDE DEF n
<1> HIDE DEF t
<1>3. PICK w : Valuing(w, t, n + 1) /\ DecimalValue(t) = w[n + 1]
  BY <1>1, DecimalValueIs
<1>4. Valuing(w, t, n)
  BY <1>1, <1>3 DEF Valuing
<1>5. v[n] = w[n]
  BY <1>1, <1>2, <1>4, ValuingUnique
<1>6. w[n + 1] = w[n] * 10 + (t[n + 1] - 48)
  <2>1. n + 1 \in 0 .. n + 1 /\ n + 1 # 0 /\ (n + 1) - 1 = n
    BY <1>1
  <2> QED
    BY <1>3, <2>1 DEF Valuing
<1>7. DecimalValue(t) = DecimalValue(s) * 10 + (e - 48)
  BY <1>1, <1>2, <1>3, <1>5, <1>6
<1> QED
  BY <1>7 DEF t
-----------------------------------------------------------------------------
\* What Decimal, the model of std::to_string, spells.

\* d holds the digits of the numbers up to the m-th.
DigitsFrom(d, n) == IF n < 10 THEN <<48 + n>> ELSE Append(d[n \div 10], 48 + (n % 10))
Spelling(d, m) == \A n \in 0 .. m : d[n] = DigitsFrom(d, n)

LEMMA TenthIs ==
    ASSUME NEW n \in Nat, n >= 10
    PROVE  n \div 10 \in Nat /\ n \div 10 < n /\ n = (n \div 10) * 10 + (n % 10) /\ n % 10 \in 0 .. 9
<1> DEFINE q == n \div 10
           r == n % 10
<1>1. q \in Int /\ r \in 0 .. 9 /\ n = 10 * q + r
  OBVIOUS
<1> HIDE DEF q, r
<1>2. q \in Nat /\ q < n /\ n = q * 10 + r
  BY <1>1
<1> QED
  BY <1>1, <1>2 DEF q, r

LEMMA SpellingUnique ==
    ASSUME NEW d, NEW e, NEW m \in Nat, Spelling(d, m), NEW k \in Nat, Spelling(e, k)
    PROVE  \A n \in Nat : n <= m /\ n <= k => d[n] = e[n]
<1> DEFINE Same(n) == \A i \in 0 .. n : i <= m /\ i <= k => d[i] = e[i]
           T == {n \in Nat : Same(n)}
<1>1. 0 \in T
  <2>1. DigitsFrom(d, 0) = <<48>> /\ DigitsFrom(e, 0) = <<48>>
    BY DEF DigitsFrom
  <2>2. d[0] = e[0]
    BY <2>1 DEF Spelling
  <2>3. \A i \in 0 .. 0 : i = 0
    OBVIOUS
  <2> QED
    BY <2>2, <2>3
<1>2. ASSUME NEW n \in T PROVE n + 1 \in T
  <2> SUFFICES ASSUME n + 1 <= m, n + 1 <= k PROVE d[n + 1] = e[n + 1]
    BY <1>2
  <2>1. d[n + 1] = DigitsFrom(d, n + 1) /\ e[n + 1] = DigitsFrom(e, n + 1)
    BY DEF Spelling
  <2>2. CASE n + 1 < 10
    BY <2>1, <2>2 DEF DigitsFrom
  <2>3. CASE n + 1 >= 10
    <3>1. (n + 1) \div 10 \in 0 .. n
      BY <2>3, TenthIs
    <3>2. d[(n + 1) \div 10] = e[(n + 1) \div 10]
      BY <3>1
    <3> QED
      BY <2>1, <2>3, <3>2 DEF DigitsFrom
  <2> QED
    BY <2>2, <2>3
<1> HIDE DEF T, Same
<1>3. T = Nat
  BY <1>1, <1>2, SetInduction DEF T
<1>4. \A n \in Nat : Same(n)
  BY <1>3 DEF T
<1> QED
  BY <1>4 DEF Same

LEMMA SpellingExists ==
    ASSUME NEW m \in Nat
    PROVE  \E d : Spelling(d, m)
<1> DEFINE T == {n \in Nat : \E d : Spelling(d, n)}
<1>1. 0 \in T
  <2> DEFINE d == [n \in 0 .. 0 |-> <<48 + n>>]
  <2>1. Spelling(d, 0)
    BY DEF Spelling, DigitsFrom
  <2> QED
    BY <2>1
<1>2. ASSUME NEW k \in T PROVE k + 1 \in T
  <2>1. PICK d : Spelling(d, k)
    OBVIOUS
  <2> DEFINE e == [n \in 0 .. k + 1 |-> DigitsFrom(d, n)]
  <2>2. \A n \in 0 .. k : e[n] = d[n]
    BY <2>1 DEF Spelling
  <2>3. \A n \in 0 .. k + 1 : e[n] = DigitsFrom(d, n)
    OBVIOUS
  <2> HIDE DEF e
  <2>4. \A n \in 0 .. k + 1 : n >= 10 => e[n \div 10] = d[n \div 10]
    BY <2>2, TenthIs
  <2>5. ASSUME NEW n \in 0 .. k + 1 PROVE DigitsFrom(e, n) = DigitsFrom(d, n)
    <3>1. n >= 10 => e[n \div 10] = d[n \div 10]
      BY <2>4
    <3> QED
      BY <3>1 DEF DigitsFrom
  <2>6. Spelling(e, k + 1)
    BY <2>3, <2>5 DEF Spelling
  <2> QED
    BY <2>6
<1> HIDE DEF T
<1>3. T = Nat
  BY <1>1, <1>2, SetInduction DEF T
<1> QED
  BY <1>3 DEF T

LEMMA DecimalIs ==
    ASSUME NEW n \in Nat
    PROVE  /\ n < 10 => Decimal[n] = <<48 + n>>
           /\ n >= 10 => Decimal[n] = Append(Decimal[n \div 10], 48 + (n % 10))
<1> DEFINE Spells(f) == f = [m \in Nat |-> IF m < 10 THEN <<48 + m>>
                                           ELSE Append(f[m \div 10], 48 + (m % 10))]
           d == CHOOSE f : Spells(f)
           upTo(m) == CHOOSE f : Spelling(f, m)
           g == [m \in Nat |-> upTo(m)[m]]
<1>1. Decimal = d
  BY DEF Decimal
<1>2. \A m \in Nat : Spelling(upTo(m), m)
  BY SpellingExists
<1> HIDE DEF upTo
<1>3. \A m \in Nat : g[m] = upTo(m)[m]
  OBVIOUS
<1>4. ASSUME NEW m \in Nat
      PROVE  g[m] = DigitsFrom(g, m)
  <2>1. upTo(m)[m] = DigitsFrom(upTo(m), m)
    BY <1>2 DEF Spelling
  <2>2. m >= 10 => upTo(m)[m \div 10] = g[m \div 10]
    <3> SUFFICES ASSUME m >= 10 PROVE upTo(m)[m \div 10] = g[m \div 10]
      OBVIOUS
    <3> DEFINE q == m \div 10
    <3>1. q \in Nat /\ q <= m
      BY TenthIs
    <3> HIDE DEF q
    <3>2. Spelling(upTo(m), m) /\ Spelling(upTo(q), q)
      BY <1>2, <3>1
    <3>3. upTo(m)[q] = upTo(q)[q]
      BY <3>1, <3>2, SpellingUnique
    <3>4. g[q] = upTo(q)[q]
      BY <1>3, <3>1
    <3> QED
      BY <3>3, <3>4 DEF q
  <2> HIDE DEF g
  <2>3. g[m] = DigitsFrom(upTo(m), m)
    BY <1>3, <2>1
  <2> QED
    BY <2>2, <2>3 DEF DigitsFrom
<1>5. Spells(g)
  <2> DEFINE h == [m \in Nat |-> DigitsFrom(g, m)]
  <2>1. h = g
    BY <1>4
  <2>2. Spells(g) <=> g = h
    BY DEF DigitsFrom
  <2> QED
    BY <2>1, <2>2
<1>6. Spells(d)
  BY <1>5
<1> HIDE DEF d, g
<1>7. d[n] = IF n < 10 THEN <<48 + n>> ELSE Append(d[n \div 10], 48 + (n % 10))
  <2> DEFINE h == [m \in Nat |-> IF m < 10 THEN <<48 + m>>
                                 ELSE Append(d[m \div 10], 48 + (m % 10))]
  <2>1. d = h
    BY <1>6
  <2>2. h[n] = IF n < 10 THEN <<48 + n>> ELSE Append(d[n \div 10], 48 + (n % 10))
    OBVIOUS
  <2> HIDE DEF h
  <2> QED
    BY <2>1, <2>2
<1> QED
  BY <1>1, <1>7
-----------------------------------------------------------------------------
\* A number written in digits reads as the number.

Digit == 48 .. 57

LEMMA DigitsAreNumbers ==
    ASSUME NEW s \in Seq(Digit)
    PROVE  s \in Seq(Nat)
<1>1. Digit \subseteq Nat
  BY DEF Digit
<1>2. Len(s) \in Nat /\ s \in [1 .. Len(s) -> Digit]
  OBVIOUS
<1> HIDE DEF Digit
<1>3. s \in [1 .. Len(s) -> Nat]
  BY <1>1, <1>2
<1> QED
  BY <1>2, <1>3

\* std::to_string writes digits, and they stand for the number.
LEMMA DecimalReads ==
    ASSUME NEW n \in Nat
    PROVE  /\ Decimal[n] \in Seq(Digit)
           /\ DecimalValue(Decimal[n]) = n
<1> DEFINE Reads(m) == Decimal[m] \in Seq(Digit) /\ DecimalValue(Decimal[m]) = m
           T == {m \in Nat : \A i \in 0 .. m : Reads(i)}
<1>1. ASSUME NEW m \in Nat, m < 10 PROVE Reads(m)
  <2>1. Decimal[m] = <<48 + m>> /\ <<48 + m>> = Append(<<>>, 48 + m)
    BY <1>1, DecimalIs
  <2>2. <<>> \in Seq(Nat) /\ 48 + m \in Nat /\ 48 + m \in Digit
    BY <1>1 DEF Digit
  <2>3. DecimalValue(Append(<<>>, 48 + m)) = 0 * 10 + ((48 + m) - 48)
    BY <2>2, ValueAppend, ValueEmpty
  <2>4. <<48 + m>> \in Seq(Digit)
    BY <2>2
  <2>5. 0 * 10 + ((48 + m) - 48) = m
    OBVIOUS
  <2> QED
    BY <2>1, <2>3, <2>4, <2>5
<1>2. ASSUME NEW m \in Nat, m >= 10, Reads(m \div 10) PROVE Reads(m)
  <2> DEFINE q == m \div 10
             r == m % 10
  <2>1. q \in Nat /\ r \in 0 .. 9 /\ m = q * 10 + r
    BY <1>2, TenthIs
  <2>2. Decimal[m] = Append(Decimal[q], 48 + r)
    BY <1>2, DecimalIs
  <2>3. Decimal[q] \in Seq(Digit) /\ DecimalValue(Decimal[q]) = q
    BY <1>2
  <2> HIDE DEF q, r
  <2>4. 48 + r \in Digit /\ 48 + r \in Nat /\ Decimal[q] \in Seq(Nat)
    <3>1. 48 + r \in Digit /\ 48 + r \in Nat
      BY <2>1 DEF Digit
    <3> QED
      BY <2>3, <3>1, DigitsAreNumbers
  <2>5. DecimalValue(Append(Decimal[q], 48 + r)) = q * 10 + ((48 + r) - 48)
    BY <2>3, <2>4, ValueAppend
  <2>6. q * 10 + ((48 + r) - 48) = m
    BY <2>1
  <2>7. Append(Decimal[q], 48 + r) \in Seq(Digit)
    BY <2>3, <2>4
  <2> QED
    BY <2>2, <2>5, <2>6, <2>7
<1> HIDE DEF Reads
<1>3. 0 \in T
  BY <1>1
<1>4. ASSUME NEW m \in T PROVE m + 1 \in T
  <2>1. Reads(m + 1)
    <3>1. CASE m + 1 < 10
      BY <1>1, <3>1
    <3>2. CASE m + 1 >= 10
      <4>1. (m + 1) \div 10 \in 0 .. m
        BY <3>2, TenthIs
      <4> QED
        BY <1>2, <3>2, <4>1
    <3> QED
      BY <3>1, <3>2
  <2> QED
    BY <2>1
<1> HIDE DEF T
<1>5. T = Nat
  BY <1>3, <1>4, SetInduction DEF T
<1>6. Reads(n)
  BY <1>5 DEF T
<1> QED
  BY <1>6 DEF Reads

\* A number with a digit more.
LEMMA OneDigitMore ==
    ASSUME NEW most \in Nat, NEW k \in Nat \ {0},
           \A n \in Nat : n < most => Len(Decimal[n]) <= k
    PROVE  \A n \in Nat : n < 10 * most => Len(Decimal[n]) <= k + 1
<1> SUFFICES ASSUME NEW n \in Nat, n < 10 * most
             PROVE  Len(Decimal[n]) <= k + 1
  OBVIOUS
<1>1. CASE n < 10
  <2>1. Decimal[n] = <<48 + n>> /\ Len(<<48 + n>>) = 1
    BY <1>1, DecimalIs
  <2> QED
    BY <2>1
<1>2. CASE n >= 10
  <2> DEFINE q == n \div 10
  <2>1. q \in Nat /\ q < most /\ Decimal[n] = Append(Decimal[q], 48 + (n % 10))
    <3>1. q \in Nat /\ n % 10 \in 0 .. 9 /\ n = q * 10 + (n % 10)
      BY <1>2, TenthIs
    <3>2. Decimal[n] = Append(Decimal[q], 48 + (n % 10))
      BY <1>2, DecimalIs
    <3> HIDE DEF q
    <3> QED
      BY <3>1, <3>2
  <2> HIDE DEF q
  <2>2. Decimal[q] \in Seq(Digit) /\ Len(Decimal[q]) <= k
    BY <2>1, DecimalReads
  <2>3. Len(Append(Decimal[q], 48 + (n % 10))) = Len(Decimal[q]) + 1
    BY <2>2
  <2> QED
    BY <2>1, <2>2, <2>3
<1> QED
  BY <1>1, <1>2

LEMMA OneDigit ==
    ASSUME NEW n \in Nat, n < 10
    PROVE  Len(Decimal[n]) <= 1
<1>1. Decimal[n] = <<48 + n>>
  BY DecimalIs
<1>2. Len(<<48 + n>>) = 1
  OBVIOUS
<1> QED
  BY <1>1, <1>2

\* A uint32_t has ten digits at most.
LEMMA TenDigits ==
    ASSUME NEW n \in Nat, n < 65536 * 65536
    PROVE  Len(Decimal[n]) <= 10
<1> DEFINE Fit(most, k) == \A m \in Nat : m < most => Len(Decimal[m]) <= k
<1>1. Fit(10, 1)
  BY OneDigit, SMT
<1>2. \A most \in Nat, k \in Nat \ {0} : Fit(most, k) => Fit(10 * most, k + 1)
  BY OneDigitMore
<1> HIDE DEF Fit
<1>3. Fit(100, 2) /\ Fit(1000, 3) /\ Fit(10000, 4)
  <2>1. Fit(10 * 10, 1 + 1)
    BY <1>1, <1>2, SMT
  <2>2. Fit(10 * 100, 2 + 1)
    BY <1>2, <2>1, SMT
  <2>3. Fit(10 * 1000, 3 + 1)
    BY <1>2, <2>2, SMT
  <2> QED
    BY <2>1, <2>2, <2>3, SMT
<1>4. Fit(100000, 5) /\ Fit(1000000, 6) /\ Fit(10000000, 7)
  <2>1. Fit(10 * 10000, 4 + 1)
    BY <1>2, <1>3, SMT
  <2>2. Fit(10 * 100000, 5 + 1)
    BY <1>2, <2>1, SMT
  <2>3. Fit(10 * 1000000, 6 + 1)
    BY <1>2, <2>2, SMT
  <2> QED
    BY <2>1, <2>2, <2>3, SMT
<1>5. Fit(10 * 1000000000, 9 + 1)
  <2>1. Fit(10 * 10000000, 7 + 1)
    BY <1>2, <1>4, SMT
  <2>2. Fit(10 * 100000000, 8 + 1)
    BY <1>2, <2>1, SMT
  <2>3. Fit(10 * 1000000000, 9 + 1)
    BY <1>2, <2>2, SMT
  <2> QED
    BY <2>3, SMT
<1> QED
  BY <1>5, SMT DEF Fit
-----------------------------------------------------------------------------
\* NumbersIn, which takes a text apart at whatever is no digit.

\* The parts of NumbersIn.
Separators(s) == {i \in DOMAIN s : s[i] \notin 48 .. 57}
Ends(s, i, j) ==
    /\ j \in i + 1 .. Len(s) + 1
    /\ j \in Separators(s) \cup {Len(s) + 1}
    /\ \A k \in i + 1 .. j - 1 : k \notin Separators(s)
Before(s, i) == Cardinality({j \in Separators(s) : j <= i})
Behind(s, i, j) == DecimalValue(SubSeq(s, i + 1, j - 1))

LEMMA SeparatorsAre ==
    ASSUME NEW s \in Seq(Nat)
    PROVE  /\ Separators(s) \subseteq 1 .. Len(s)
           /\ IsFiniteSet(Separators(s))
           /\ \A i \in Separators(s) : \E j \in Nat : Ends(s, i, j)
           /\ \A i \in Separators(s), j \in Nat, k \in Nat :
                 Ends(s, i, j) /\ Ends(s, i, k) => j = k
<1> DEFINE n == Len(s)
           S == Separators(s)
<1>1. S \subseteq 1 .. n /\ n \in Nat
  BY DEF Separators
<1>2. IsFiniteSet(S)
  <2>1. 1 \in Int /\ n \in Int
    BY <1>1
  <2>2. IsFiniteSet(1 .. n)
    BY <2>1, FS_Interval
  <2> QED
    BY <1>1, <2>2, FS_Subset
<1> HIDE DEF n, S
<1>3. ASSUME NEW i \in S
      PROVE  \E j \in Nat : Ends(s, i, j)
  <2> DEFINE T == {j \in S \cup {n + 1} : j > i}
  <2>1. T \subseteq Nat /\ T # {}
    <3>1. \A j \in S : j \in Nat /\ j < n + 1
      BY <1>1
    <3>2. n + 1 \in Nat /\ n + 1 \in T
      BY <1>1, <3>1
    <3> QED
      BY <3>1, <3>2
  <2>2. PICK j \in T : \A k \in T : j <= k
    BY <2>1, LeastNatural
  <2>3. j \in Nat /\ j \in i + 1 .. n + 1 /\ j \in S \cup {n + 1}
    BY <1>1
  <2>4. ASSUME NEW k \in i + 1 .. j - 1 PROVE k \notin S
    <3>1. k > i /\ ~(j <= k)
      BY <1>1, <2>3
    <3> QED
      BY <2>2, <3>1
  <2> QED
    BY <2>3, <2>4 DEF Ends, n, S
<1>4. ASSUME NEW i \in S, NEW j \in Nat, NEW k \in Nat, Ends(s, i, j), Ends(s, i, k), j < k
      PROVE  FALSE
  <2>1. /\ j \in i + 1 .. n + 1 /\ k \in i + 1 .. n + 1
        /\ j \in S \cup {n + 1}
        /\ \A x \in i + 1 .. k - 1 : x \notin S
    BY <1>4 DEF Ends, n, S
  <2>2. j # n + 1 /\ j \in i + 1 .. k - 1
    BY <1>1, <1>4, <2>1
  <2> QED
    BY <2>1, <2>2
<1>5. \A i \in S, j \in Nat, k \in Nat : Ends(s, i, j) /\ Ends(s, i, k) => j = k
  <2> SUFFICES ASSUME NEW i \in S, NEW j \in Nat, NEW k \in Nat,
                      Ends(s, i, j), Ends(s, i, k), j # k
               PROVE  FALSE
    OBVIOUS
  <2>1. j < k \/ k < j
    OBVIOUS
  <2> QED
    BY <1>4, <2>1
<1> QED
  BY <1>1, <1>2, <1>3, <1>5 DEF n, S

LEMMA NumbersInIs ==
    ASSUME NEW s \in Seq(Nat), NEW e, \A i \in Separators(s) : e[i] \in Nat /\ Ends(s, i, e[i])
    PROVE  NumbersIn(s) = {<<Before(s, i), Behind(s, i, e[i])>> : i \in Separators(s)}
<1> DEFINE end(i) == CHOOSE j \in i + 1 .. Len(s) + 1 :
                      /\ j \in Separators(s) \cup {Len(s) + 1}
                      /\ \A k \in i + 1 .. j - 1 : k \notin Separators(s)
<1>1. NumbersIn(s) = {<<Before(s, i), Behind(s, i, end(i))>> : i \in Separators(s)}
  BY DEF NumbersIn, Separators, Before, Behind
<1>2. ASSUME NEW i \in Separators(s) PROVE end(i) = e[i]
  <2>1. \E j \in i + 1 .. Len(s) + 1 :
          /\ j \in Separators(s) \cup {Len(s) + 1}
          /\ \A k \in i + 1 .. j - 1 : k \notin Separators(s)
    BY <1>2 DEF Ends
  <2>2. Ends(s, i, end(i))
    BY <2>1 DEF Ends
  <2>3. i \in Nat /\ end(i) \in Nat
    <3>1. i \in 1 .. Len(s) /\ Len(s) \in Nat
      BY SeparatorsAre
    <3>2. end(i) \in i + 1 .. Len(s) + 1
      BY <2>2 DEF Ends
    <3> HIDE DEF end
    <3> QED
      BY <3>1, <3>2
  <2> HIDE DEF end
  <2> QED
    BY <1>2, <2>2, <2>3, SeparatorsAre
<1> HIDE DEF end
<1> QED
  BY <1>1, <1>2
-----------------------------------------------------------------------------
\* A number written behind a separator is one more number of the text.

LEMMA JoinedIs ==
    ASSUME NEW u \in Seq(Nat), NEW x \in Seq(Nat)
    PROVE  /\ u \o x \in Seq(Nat) /\ Len(u \o x) = Len(u) + Len(x)
           /\ \A i \in 1 .. Len(u) : (u \o x)[i] = u[i]
           /\ \A i \in 1 .. Len(x) : (u \o x)[Len(u) + i] = x[i]
<1>1. u \o x \in Seq(Nat) /\ Len(u \o x) = Len(u) + Len(x)
  OBVIOUS
<1>2. \A i \in 1 .. Len(u) : (u \o x)[i] = u[i]
  OBVIOUS
<1>3. ASSUME NEW i \in 1 .. Len(x) PROVE (u \o x)[Len(u) + i] = x[i]
  <2>1. /\ Len(u) + i \in 1 .. Len(u) + Len(x) /\ ~(Len(u) + i <= Len(u))
        /\ (Len(u) + i) - Len(u) = i
    OBVIOUS
  <2> QED
    BY <2>1
<1> QED
  BY <1>1, <1>2, <1>3

\* Where the parts of a text are.
LEMMA TextIs ==
    ASSUME NEW s \in Seq(Nat), NEW c \in Nat, NEW x \in Seq(Nat),
           NEW t, t = (s \o <<c>>) \o x,
           NEW m, m = Len(s), NEW l, l = Len(x)
    PROVE  /\ m \in Nat /\ l \in Nat
           /\ t \in Seq(Nat) /\ Len(t) = m + 1 + l
           /\ \A i \in 1 .. m : t[i] = s[i]
           /\ t[m + 1] = c
           /\ \A i \in 1 .. l : t[m + 1 + i] = x[i]
<1> DEFINE u == s \o <<c>>
<1>1. m \in Nat /\ l \in Nat
  OBVIOUS
<1>2. /\ u \in Seq(Nat) /\ Len(u) = m + 1 /\ u[m + 1] = c
      /\ \A i \in 1 .. m : u[i] = s[i]
  <2>1. <<c>> \in Seq(Nat) /\ Len(<<c>>) = 1 /\ <<c>>[1] = c
    OBVIOUS
  <2>2. /\ u \in Seq(Nat) /\ Len(u) = Len(s) + Len(<<c>>)
        /\ \A i \in 1 .. Len(s) : u[i] = s[i]
        /\ \A i \in 1 .. Len(<<c>>) : u[Len(s) + i] = <<c>>[i]
    BY ONLY <2>1, JoinedIs
  <2> HIDE DEF u
  <2>3. 1 \in 1 .. 1
    OBVIOUS
  <2> QED
    BY ONLY <2>1, <2>2, <2>3, m = Len(s)
<1>3. t = u \o x
  OBVIOUS
<1> HIDE DEF u
<1>4. /\ t \in Seq(Nat) /\ Len(t) = Len(u) + Len(x)
      /\ \A i \in 1 .. Len(u) : t[i] = u[i]
      /\ \A i \in 1 .. Len(x) : t[Len(u) + i] = x[i]
  BY ONLY <1>2, <1>3, JoinedIs
<1>5. m + 1 \in 1 .. m + 1 /\ \A i \in 1 .. m : i \in 1 .. m + 1
  BY <1>1
<1> QED
  BY ONLY <1>1, <1>2, <1>4, <1>5, l = Len(x)

\* A text s, a separator c and digits x; what that says of where they are.
Written(t, s, c, x) ==
    s \in Seq(Nat) /\ c \in Nat \ Digit /\ x \in Seq(Digit) /\ t = (s \o <<c>>) \o x
Follows(t, s, x) ==
    /\ s \in Seq(Nat) /\ t \in Seq(Nat) /\ x \in Seq(Nat)
    /\ Len(t) = Len(s) + 1 + Len(x)
    /\ \A i \in 1 .. Len(s) : t[i] = s[i]
    /\ \A i \in 1 .. Len(x) : t[Len(s) + 1 + i] = x[i]
    /\ Separators(t) = Separators(s) \cup {Len(s) + 1}

\* A digit is no separator.
LEMMA SeparatorBehind ==
    ASSUME NEW s, NEW c, NEW x, NEW t, Written(t, s, c, x)
    PROVE  Follows(t, s, x)
<1> DEFINE m == Len(s)
           l == Len(x)
<1>a. /\ s \in Seq(Nat) /\ c \in Nat \ Digit /\ x \in Seq(Digit) /\ t = (s \o <<c>>) \o x
      /\ m = Len(s) /\ l = Len(x)
  BY DEF Written
<1> HIDE DEF m, l
<1>1. x \in Seq(Nat) /\ \A i \in 1 .. l : x[i] \in Digit
  BY ONLY <1>a, DigitsAreNumbers
<1>2. c \in Nat /\ c \notin Digit
  BY ONLY <1>a
<1>3. /\ m \in Nat /\ l \in Nat
      /\ t \in Seq(Nat) /\ Len(t) = m + 1 + l
      /\ \A i \in 1 .. m : t[i] = s[i]
      /\ t[m + 1] = c
      /\ \A i \in 1 .. l : t[m + 1 + i] = x[i]
  BY ONLY <1>1, <1>2, <1>a, TextIs
<1>0. DOMAIN t = 1 .. m + 1 + l /\ DOMAIN s = 1 .. m
  BY ONLY <1>3, <1>a
<1>4. ASSUME NEW i \in 1 .. m + 1 + l
      PROVE  t[i] \notin Digit <=> i \in Separators(s) \/ i = m + 1
  <2>1. CASE i \in 1 .. m
    <3>1. t[i] = s[i] /\ i \in DOMAIN s /\ i # m + 1
      BY ONLY <1>0, <1>3, <2>1
    <3> QED
      BY ONLY <3>1 DEF Separators, Digit
  <2>2. CASE i = m + 1
    BY ONLY <1>2, <1>3, <2>2
  <2>3. CASE i \notin 1 .. m /\ i # m + 1
    <3>1. i - (m + 1) \in 1 .. l /\ m + 1 + (i - (m + 1)) = i
      BY ONLY <1>3, <2>3
    <3>2. t[i] \in Digit
      BY ONLY <1>1, <1>3, <3>1
    <3>3. i \notin Separators(s)
      BY ONLY <1>0, <2>3 DEF Separators
    <3> QED
      BY ONLY <2>3, <3>2, <3>3
  <2> QED
    BY ONLY <2>1, <2>2, <2>3
<1>5. Separators(s) \subseteq 1 .. m + 1 + l /\ m + 1 \in 1 .. m + 1 + l
  <2>1. Separators(s) \subseteq 1 .. m
    BY ONLY <1>0 DEF Separators
  <2> QED
    BY ONLY <1>3, <2>1
<1>6. Separators(t) = {i \in 1 .. m + 1 + l : t[i] \notin Digit}
  BY ONLY <1>0, Zenon DEF Separators, Digit
<1>7. Separators(t) = Separators(s) \cup {m + 1}
  BY ONLY <1>4, <1>5, <1>6
<1> QED
  BY ONLY <1>a, <1>1, <1>3, <1>7, Zenon DEF Follows

\* One more number behind a text, behind a character that is no digit.
LEMMA NumberBehind ==
    ASSUME NEW s, NEW t, NEW x, Follows(t, s, x)
    PROVE  /\ Cardinality(Separators(t)) = Cardinality(Separators(s)) + 1
           /\ NumbersIn(t) = NumbersIn(s)
                 \cup {<<Cardinality(Separators(s)) + 1, DecimalValue(x)>>}
<1> DEFINE m == Len(s)
           l == Len(x)
           S == Separators(s)
<1>a. x \in Seq(Nat) /\ l = Len(x)
  BY DEF Follows
<1>0. s \in Seq(Nat) /\ m = Len(s) /\ S = Separators(s)
  BY DEF Follows
<1>1. /\ t \in Seq(Nat) /\ Len(t) = m + 1 + l /\ m \in Nat /\ l \in Nat
      /\ \A i \in 1 .. m : t[i] = s[i]
      /\ \A i \in 1 .. l : t[m + 1 + i] = x[i]
      /\ Separators(t) = S \cup {m + 1}
  BY DEF Follows
<1>b. m \in Nat /\ l \in Nat
  BY <1>1
<1> HIDE DEF m, l, S
<1>2. S \subseteq 1 .. m /\ IsFiniteSet(S) /\ \A i \in S : \E j \in Nat : Ends(s, i, j)
  BY ONLY <1>0, SeparatorsAre
<1>3. Cardinality(Separators(t)) = Cardinality(S) + 1
  <2>1. m + 1 \notin S
    BY ONLY <1>1, <1>2
  <2> QED
    BY ONLY <1>1, <1>2, <2>1, FS_AddElement
<1> DEFINE e == [i \in S |-> CHOOSE j \in Nat : Ends(s, i, j)]
           f == [i \in S \cup {m + 1} |-> IF i = m + 1 THEN m + l + 2 ELSE e[i]]
<1>4. \A i \in S : e[i] \in Nat /\ Ends(s, i, e[i])
  BY ONLY <1>0, <1>2
<1> HIDE DEF e
<1>5. f[m + 1] = m + l + 2 /\ \A i \in S : f[i] = e[i]
  BY ONLY <1>1, <1>2
<1> HIDE DEF f
<1>6. ASSUME NEW i \in S
      PROVE  /\ i \in 1 .. m /\ e[i] \in i + 1 .. m + 1
             /\ Ends(t, i, e[i])
  <2>1. /\ e[i] \in i + 1 .. m + 1 /\ e[i] \in S \cup {m + 1}
        /\ \A k \in i + 1 .. e[i] - 1 : k \notin S
    BY ONLY <1>0, <1>4 DEF Ends
  <2>2. i \in 1 .. m /\ e[i] \in i + 1 .. Len(t) + 1 /\ e[i] \in Separators(t)
    BY ONLY <1>1, <1>2, <2>1
  <2>3. \A k \in i + 1 .. e[i] - 1 : k # m + 1
    BY ONLY <1>1, <2>1, <2>2
  <2> QED
    BY ONLY <1>1, <2>1, <2>2, <2>3 DEF Ends
<1>7. Ends(t, m + 1, m + l + 2)
  <2>1. /\ m + l + 2 \in (m + 1) + 1 .. Len(t) + 1
        /\ m + l + 2 = Len(t) + 1
    BY ONLY <1>1
  <2>2. \A k \in (m + 1) + 1 .. (m + l + 2) - 1 : k \notin Separators(t)
    BY ONLY <1>1, <1>2
  <2> QED
    BY ONLY <2>1, <2>2 DEF Ends
<1>8. NumbersIn(t) = {<<Before(t, i), Behind(t, i, f[i])>> : i \in S \cup {m + 1}}
  <2>1. \A i \in S : f[i] \in Nat /\ Ends(t, i, f[i])
    BY ONLY <1>4, <1>5, <1>6
  <2>2. f[m + 1] \in Nat /\ Ends(t, m + 1, f[m + 1])
    BY ONLY <1>5, <1>7, <1>1
  <2>3. \A i \in Separators(t) : f[i] \in Nat /\ Ends(t, i, f[i])
    BY ONLY <1>1, <2>1, <2>2, Zenon
  <2>4. NumbersIn(t) = {<<Before(t, i), Behind(t, i, f[i])>> : i \in Separators(t)}
    BY ONLY <1>1, <2>3, NumbersInIs
  <2>5. Separators(t) = S \cup {m + 1}
    BY <1>1
  <2> QED
    BY ONLY <2>4, <2>5, Zenon
<1>9. NumbersIn(s) = {<<Before(s, i), Behind(s, i, e[i])>> : i \in S}
  BY ONLY <1>0, <1>4, NumbersInIs
<1>10. ASSUME NEW i \in S
       PROVE  Before(t, i) = Before(s, i) /\ Behind(t, i, f[i]) = Behind(s, i, e[i])
  <2>1. {j \in Separators(t) : j <= i} = {j \in S : j <= i}
    BY ONLY <1>1, <1>2, <1>6
  <2>2. SubSeq(t, i + 1, e[i] - 1) = SubSeq(s, i + 1, e[i] - 1)
    <3> DEFINE a == i + 1
               b == e[i] - 1
    <3>1. a \in 1 .. m + 1 /\ b \in a - 1 .. m
      <4>1. i \in 1 .. m /\ e[i] \in i + 1 .. m + 1
        BY ONLY <1>6
      <4> QED
        BY ONLY <1>b, <4>1
    <3> HIDE DEF a, b
    <3>2. /\ SubSeq(s, a, b) \in Seq(Nat) /\ Len(SubSeq(s, a, b)) = b - a + 1
          /\ \A k \in 1 .. b - a + 1 : SubSeq(s, a, b)[k] = s[a + k - 1]
      BY ONLY <1>0, <3>1
    <3>3. /\ SubSeq(t, a, b) \in Seq(Nat) /\ Len(SubSeq(t, a, b)) = b - a + 1
          /\ \A k \in 1 .. b - a + 1 : SubSeq(t, a, b)[k] = t[a + k - 1]
      BY ONLY <1>1, <3>1
    <3>4. \A k \in 1 .. b - a + 1 : t[a + k - 1] = s[a + k - 1]
      BY ONLY <1>1, <3>1
    <3>5. \A k \in 1 .. b - a + 1 : SubSeq(t, a, b)[k] = SubSeq(s, a, b)[k]
      BY ONLY <3>2, <3>3, <3>4
    <3>6. SubSeq(t, a, b) = SubSeq(s, a, b)
      BY ONLY <3>2, <3>3, <3>5
    <3> QED
      BY ONLY <3>6 DEF a, b
  <2> QED
    BY ONLY <1>0, <1>5, <2>1, <2>2 DEF Before, Behind
<1>11. Before(t, m + 1) = Cardinality(S) + 1 /\ Behind(t, m + 1, f[m + 1]) = DecimalValue(x)
  <2>1. {j \in Separators(t) : j <= m + 1} = Separators(t)
    <3>1. \A j \in S \cup {m + 1} : j <= m + 1
      BY ONLY <1>2, <1>1
    <3> QED
      BY ONLY <1>1, <3>1
  <2>2. SubSeq(t, (m + 1) + 1, (m + l + 2) - 1) = x
    <3> DEFINE y == SubSeq(t, m + 2, m + 1 + l)
    <3>1. /\ y \in Seq(Nat) /\ Len(y) = l
          /\ \A k \in 1 .. l : y[k] = t[m + 1 + k]
      <4> DEFINE a == m + 2
                 b == m + 1 + l
      <4>1. a \in 1 .. Len(t) + 1 /\ b \in a - 1 .. Len(t) /\ b - a + 1 = l
        BY ONLY <1>1, <1>b
      <4>2. \A k \in 1 .. l : a + k - 1 = m + 1 + k
        BY ONLY <1>b
      <4> HIDE DEF a, b
      <4>3. /\ SubSeq(t, a, b) \in Seq(Nat) /\ Len(SubSeq(t, a, b)) = b - a + 1
            /\ \A k \in 1 .. b - a + 1 : SubSeq(t, a, b)[k] = t[a + k - 1]
        BY ONLY <1>1, <4>1
      <4>4. y = SubSeq(t, a, b)
        BY DEF a, b
      <4> HIDE DEF y
      <4> QED
        BY ONLY <4>1, <4>2, <4>3, <4>4
    <3> HIDE DEF y
    <3>2. x \in Seq(Nat) /\ Len(x) = l
      BY <1>a
    <3>3. \A k \in 1 .. l : y[k] = x[k]
      BY ONLY <1>1, <3>1
    <3>4. y = x
      BY ONLY <3>1, <3>2, <3>3
    <3>5. (m + 1) + 1 = m + 2 /\ (m + l + 2) - 1 = m + 1 + l
      BY ONLY <1>1
    <3> QED
      BY ONLY <3>4, <3>5 DEF y
  <2> QED
    BY ONLY <1>3, <1>5, <2>1, <2>2 DEF Before, Behind
<1>12. NumbersIn(t) = NumbersIn(s) \cup {<<Cardinality(S) + 1, DecimalValue(x)>>}
  <2> DEFINE g(i) == <<Before(t, i), Behind(t, i, f[i])>>
             h(i) == <<Before(s, i), Behind(s, i, e[i])>>
  <2>1. \A i \in S : g(i) = h(i)
    BY ONLY <1>10
  <2>2. g(m + 1) = <<Cardinality(S) + 1, DecimalValue(x)>>
    BY ONLY <1>11
  <2>3. NumbersIn(t) = {g(i) : i \in S \cup {m + 1}} /\ NumbersIn(s) = {h(i) : i \in S}
    BY ONLY <1>8, <1>9
  <2> HIDE DEF g, h
  <2> QED
    BY ONLY <2>1, <2>2, <2>3
<1> QED
  BY ONLY <1>0, <1>3, <1>12
-----------------------------------------------------------------------------
\* The version texts of a capture module tell the numbers they were written
\* from (tecmp_converter.cpp:123-150).

LEMMA ByteIs == Byte = 0 .. 255 /\ Byte \subseteq Nat /\ Digit \subseteq Byte /\ Uint16Mod = 65536
BY ByteAssumption DEF Byte, Digit, Uint16Mod

LEMMA BytesAreNumbers ==
    ASSUME NEW s \in Seq(Byte)
    PROVE  s \in Seq(Nat)
<1>1. Byte \subseteq Nat
  BY ByteIs
<1>2. Len(s) \in Nat /\ s \in [1 .. Len(s) -> Byte]
  OBVIOUS
<1>3. s \in [1 .. Len(s) -> Nat]
  BY <1>1, <1>2
<1> QED
  BY <1>2, <1>3

\* The digits of a number are bytes other than NUL.
LEMMA DecimalText ==
    ASSUME NEW n \in Nat
    PROVE  Decimal[n] \in Seq(Byte) /\ NoNull(Decimal[n])
<1> DEFINE s == Decimal[n]
<1>2. s \in Seq(Digit)
  BY DecimalReads
<1> HIDE DEF s
<1>3. Len(s) \in Nat /\ s \in [1 .. Len(s) -> Digit] /\ DOMAIN s = 1 .. Len(s)
  BY ONLY <1>2
<1>4. s \in [1 .. Len(s) -> Byte]
  <2>1. Digit \subseteq Byte
    BY ByteIs
  <2> QED
    BY ONLY <1>3, <2>1
<1>5. s \in Seq(Byte)
  BY ONLY <1>3, <1>4
<1>6. NoNull(s)
  BY ONLY <1>3 DEF NoNull, Digit
<1> QED
  BY <1>5, <1>6 DEF s

\* What a text of k numbers tells.
Tells(t, numbers, k) ==
    /\ t \in Seq(Byte) /\ NoNull(t) /\ Len(t) <= 11 * k
    /\ Cardinality(Separators(t)) = k
    /\ NumbersIn(t) = numbers

LEMMA NothingTold == Tells(<<>>, {}, 0)
<1>1. <<>> \in Seq(Byte) /\ Len(<<>>) = 0 /\ DOMAIN <<>> = {} /\ <<>> \in Seq(Nat)
  OBVIOUS
<1>2. Separators(<<>>) = {}
  BY <1>1 DEF Separators
<1>3. Cardinality(Separators(<<>>)) = 0
  BY <1>2, FS_EmptySet
<1>4. NumbersIn(<<>>) = {}
  <2> DEFINE e == [i \in {} |-> 0]
  <2>1. NumbersIn(<<>>) = {<<Before(<<>>, i), Behind(<<>>, i, e[i])>> : i \in Separators(<<>>)}
    BY <1>1, <1>2, NumbersInIs
  <2> QED
    BY <1>2, <2>1
<1> QED
  BY <1>1, <1>3, <1>4 DEF Tells, NoNull

\* The number n written behind a text and "." or "v".
NumberWritten(t, s, c, n) ==
    /\ n \in Nat /\ Len(Decimal[n]) <= 10
    /\ c \in {46, 118} /\ t = (s \o <<c>>) \o Decimal[n]

LEMMA OneNumberMore ==
    ASSUME NEW s, NEW numbers, NEW k \in Nat, Tells(s, numbers, k),
           NEW c, NEW n, NEW t, NumberWritten(t, s, c, n)
    PROVE  Tells(t, numbers \cup {<<k + 1, n>>}, k + 1)
<1> DEFINE x == Decimal[n]
           m == Len(s)
           l == Len(x)
           S == Separators(s)
<1>0. /\ n \in Nat /\ Len(Decimal[n]) <= 10 /\ c \in {46, 118}
      /\ t = (s \o <<c>>) \o Decimal[n]
  BY DEF NumberWritten
<1>1. x \in Seq(Byte) /\ NoNull(x) /\ Len(x) <= 10
  BY ONLY <1>0, DecimalText
<1>2. x \in Seq(Digit) /\ DecimalValue(x) = n
  BY ONLY <1>0, DecimalReads
<1>3. t = (s \o <<c>>) \o x
  BY ONLY <1>0
<1> HIDE DEF x
<1>4. /\ s \in Seq(Byte) /\ NoNull(s) /\ Len(s) <= 11 * k
      /\ Cardinality(Separators(s)) = k /\ NumbersIn(s) = numbers
  BY ONLY Tells(s, numbers, k) DEF Tells
<1>5. s \in Seq(Nat) /\ x \in Seq(Nat)
  BY ONLY <1>1, <1>4, BytesAreNumbers
<1>6. c \in Nat \ Digit /\ c \in Nat /\ c \in Byte /\ c # 0
  BY ONLY <1>0, ByteIs DEF Digit
<1>7. m = Len(s) /\ l = Len(x) /\ S = Separators(s)
  OBVIOUS
<1> HIDE DEF m, l, S
<1>8. /\ m \in Nat /\ l \in Nat
      /\ t \in Seq(Nat) /\ Len(t) = m + 1 + l
      /\ \A i \in 1 .. m : t[i] = s[i]
      /\ t[m + 1] = c
      /\ \A i \in 1 .. l : t[m + 1 + i] = x[i]
  BY ONLY <1>3, <1>5, <1>6, <1>7, TextIs
<1>9. Follows(t, s, x)
  <2>1. Written(t, s, c, x)
    BY ONLY <1>2, <1>3, <1>5, <1>6 DEF Written
  <2> QED
    BY ONLY <2>1, SeparatorBehind
<1>10. /\ Cardinality(Separators(t)) = Cardinality(S) + 1
       /\ NumbersIn(t) = NumbersIn(s) \cup {<<Cardinality(S) + 1, DecimalValue(x)>>}
  BY ONLY <1>7, <1>9, NumberBehind, Zenon
<1>11. Cardinality(Separators(t)) = k + 1 /\ NumbersIn(t) = numbers \cup {<<k + 1, n>>}
  BY ONLY <1>2, <1>4, <1>7, <1>10, Zenon
<1>12. Len(t) <= 11 * (k + 1)
  BY ONLY <1>1, <1>4, <1>7, <1>8, k \in Nat
<1>13. ASSUME NEW i \in 1 .. m + 1 + l
       PROVE  t[i] \in Byte /\ t[i] # 0
  <2>1. CASE i \in 1 .. m
    <3>1. \A j \in 1 .. m : s[j] \in Byte /\ s[j] # 0
      BY ONLY <1>4, <1>7 DEF NoNull
    <3> QED
      BY ONLY <1>8, <2>1, <3>1
  <2>2. CASE i = m + 1
    BY ONLY <1>6, <1>8, <2>2
  <2>3. CASE i \notin 1 .. m /\ i # m + 1
    <3>1. i - (m + 1) \in 1 .. l /\ m + 1 + (i - (m + 1)) = i
      BY ONLY <1>8, <2>3
    <3>2. \A j \in 1 .. l : x[j] \in Byte /\ x[j] # 0
      BY ONLY <1>1, <1>7 DEF NoNull
    <3>3. t[m + 1 + (i - (m + 1))] = x[i - (m + 1)]
      BY ONLY <1>8, <3>1, Zenon
    <3> QED
      BY ONLY <3>1, <3>2, <3>3, Zenon
  <2> QED
    BY ONLY <2>1, <2>2, <2>3
<1>14. t \in Seq(Byte) /\ NoNull(t)
  <2>1. DOMAIN t = 1 .. m + 1 + l /\ t = [i \in 1 .. m + 1 + l |-> t[i]] /\ m + 1 + l \in Nat
    BY ONLY <1>8
  <2>2. t \in [1 .. m + 1 + l -> Byte]
    BY ONLY <1>13, <2>1
  <2> QED
    BY ONLY <1>13, <2>1, <2>2 DEF NoNull
<1> QED
  BY ONLY <1>11, <1>12, <1>14 DEF Tells

LEMMA ByteDecimal ==
    ASSUME NEW n \in Byte
    PROVE  n \in Nat /\ Len(Decimal[n]) <= 10
<1>1. n \in Nat /\ n < 65536 * 65536
  BY ByteIs, SMT
<1> QED
  BY <1>1, TenDigits, SMT

LEMMA FirstNumber ==
    ASSUME NEW n \in Byte
    PROVE  Tells(<<118>> \o Decimal[n], {<<1, n>>}, 1)
<1> DEFINE c == 118
           t == <<c>> \o Decimal[n]
<1>1. t = (<<>> \o <<c>>) \o Decimal[n] /\ c \in {46, 118}
  OBVIOUS
<1>2. n \in Nat /\ Len(Decimal[n]) <= 10 /\ 0 \in Nat
  BY ByteDecimal
<1> HIDE DEF c, t
<1>3. Tells(t, {} \cup {<<0 + 1, n>>}, 0 + 1)
  <2>1. NumberWritten(t, <<>>, c, n)
    BY ONLY <1>1, <1>2, Zenon DEF NumberWritten
  <2> QED
    BY ONLY <1>2, <2>1, NothingTold, OneNumberMore
<1>4. {} \cup {<<0 + 1, n>>} = {<<1, n>>} /\ 0 + 1 = 1
  OBVIOUS
<1>5. Tells(t, {<<1, n>>}, 1)
  BY ONLY <1>3, <1>4, Zenon
<1> QED
  BY <1>5 DEF c, t

LEMMA NextNumber ==
    ASSUME NEW s, NEW numbers, NEW k \in Nat, Tells(s, numbers, k), NEW n \in Byte
    PROVE  Tells(s \o <<46>> \o Decimal[n], numbers \cup {<<k + 1, n>>}, k + 1)
<1> DEFINE c == 46
           t == (s \o <<c>>) \o Decimal[n]
<1>1. t = (s \o <<c>>) \o Decimal[n] /\ c \in {46, 118}
  OBVIOUS
<1>2. n \in Nat /\ Len(Decimal[n]) <= 10
  BY ByteDecimal
<1> HIDE DEF c, t
<1>3. Tells(t, numbers \cup {<<k + 1, n>>}, k + 1)
  <2>1. NumberWritten(t, s, c, n)
    BY ONLY <1>1, <1>2, Zenon DEF NumberWritten
  <2> QED
    BY ONLY <2>1, k \in Nat, Tells(s, numbers, k), OneNumberMore
<1> QED
  BY <1>3 DEF c, t

\* The texts tell the numbers of the versions, in their order.
LEMMA VersionsTell ==
    ASSUME NEW b \in Seq(Byte), Len(b) >= CaptureModuleRead
    PROVE  /\ Tells(HwVersion(b), {<<1, b[17]>>, <<2, b[18]>>}, 2)
           /\ Tells(SwVersion(b), {<<1, b[14]>>, <<2, b[15]>>, <<3, b[16]>>}, 3)
<1>1. /\ b[14] \in Byte /\ b[15] \in Byte /\ b[16] \in Byte
      /\ b[17] \in Byte /\ b[18] \in Byte
  BY DEF CaptureModuleRead
<1>2. 1 \in Nat /\ 2 \in Nat /\ 1 + 1 = 2 /\ 2 + 1 = 3
  OBVIOUS
<1>3. Tells(HwVersion(b), {<<1, b[17]>>} \cup {<<1 + 1, b[18]>>}, 1 + 1)
  BY ONLY <1>1, <1>2, FirstNumber, NextNumber DEF HwVersion
<1>4. Tells(<<118>> \o Decimal[b[14]] \o <<46>> \o Decimal[b[15]],
            {<<1, b[14]>>} \cup {<<1 + 1, b[15]>>}, 1 + 1)
  BY ONLY <1>1, <1>2, FirstNumber, NextNumber
<1>5. Tells(SwVersion(b), ({<<1, b[14]>>} \cup {<<1 + 1, b[15]>>}) \cup {<<2 + 1, b[16]>>}, 2 + 1)
  BY ONLY <1>1, <1>2, <1>4, NextNumber DEF SwVersion
<1>6. /\ {<<1, b[17]>>} \cup {<<1 + 1, b[18]>>} = {<<1, b[17]>>, <<2, b[18]>>}
      /\ ({<<1, b[14]>>} \cup {<<1 + 1, b[15]>>}) \cup {<<2 + 1, b[16]>>}
           = {<<1, b[14]>>, <<2, b[15]>>, <<3, b[16]>>}
  BY ONLY <1>2
<1> QED
  BY ONLY <1>2, <1>3, <1>5, <1>6, Zenon
-----------------------------------------------------------------------------
\* A capture module body of short texts is whole, with nothing cut off.

LEMMA FilledShort ==
    ASSUME NEW s \in Seq(Byte)
    PROVE  FillWithString(s) \in Seq(Byte) /\ Len(FillWithString(s)) <= Len(s) + 4
<1>1. PICK n \in {1, 2} : FillWithString(s) = Part(s \o Zeros(n))
  BY FilledIs
<1>2. n \in Nat /\ n <= 2
  OBVIOUS
<1>3. Zeros(n) \in Seq(Byte) /\ Len(Zeros(n)) = n
  BY <1>2, ZerosIs
<1> DEFINE z == Zeros(n)
           u == s \o z
<1> HIDE DEF z
<1>4. u \in Seq(Byte) /\ Len(u) = Len(s) + n
  BY <1>3, ConcatIs DEF z
<1> HIDE DEF u
<1>5. Part(u) \in Seq(Byte) /\ Len(Part(u)) = 2 + Len(u)
  BY <1>4, PartIs
<1>6. FillWithString(s) = Part(u)
  BY <1>1 DEF u, z
<1>7. Len(s) \in Nat
  OBVIOUS
<1> QED
  BY ONLY <1>2, <1>4, <1>5, <1>6, <1>7

LEMMA CaptureModuleBodyShort ==
    ASSUME NEW d \in Seq(Byte), NEW s \in Seq(Byte), NEW h \in Seq(Byte), NEW w \in Seq(Byte),
           NEW vendor \in Seq(Byte)
    PROVE  Len(CaptureModuleBody(d, s, h, w, vendor))
              <= Len(d) + Len(s) + Len(h) + Len(w) + Len(vendor) + 18
<1> DEFINE a1 == FillWithString(d)
           a2 == FillWithString(s)
           a3 == FillWithString(h)
           a4 == FillWithString(w)
           a5 == Uint16(Len(vendor))
           l1 == Len(d)
           l2 == Len(s)
           l3 == Len(h)
           l4 == Len(w)
           l5 == Len(vendor)
<1>1. /\ a1 \in Seq(Byte) /\ Len(a1) <= l1 + 4 /\ a2 \in Seq(Byte) /\ Len(a2) <= l2 + 4
      /\ a3 \in Seq(Byte) /\ Len(a3) <= l3 + 4 /\ a4 \in Seq(Byte) /\ Len(a4) <= l4 + 4
  BY FilledShort
<1>2. l1 \in Nat /\ l2 \in Nat /\ l3 \in Nat /\ l4 \in Nat /\ l5 \in Nat
  OBVIOUS
<1>3. a5 \in Seq(Byte) /\ Len(a5) = 2
  BY <1>2, Uint16Is
<1>4. CaptureModuleBody(d, s, h, w, vendor) = (((((a1 \o a2) \o a3) \o a4) \o a5) \o vendor)
  BY DEF CaptureModuleBody
<1>5. vendor \in Seq(Byte) /\ Len(vendor) = l5
  OBVIOUS
<1> HIDE DEF a1, a2, a3, a4, a5, l1, l2, l3, l4, l5
<1>6. a1 \o a2 \in Seq(Byte) /\ Len(a1 \o a2) = Len(a1) + Len(a2)
  BY ONLY <1>1, ConcatIs
<1>7. (a1 \o a2) \o a3 \in Seq(Byte) /\ Len((a1 \o a2) \o a3) = Len(a1 \o a2) + Len(a3)
  BY ONLY <1>1, <1>6, ConcatIs
<1>8. /\ ((a1 \o a2) \o a3) \o a4 \in Seq(Byte)
      /\ Len(((a1 \o a2) \o a3) \o a4) = Len((a1 \o a2) \o a3) + Len(a4)
  BY ONLY <1>1, <1>7, ConcatIs
<1>9. /\ (((a1 \o a2) \o a3) \o a4) \o a5 \in Seq(Byte)
      /\ Len((((a1 \o a2) \o a3) \o a4) \o a5) = Len(((a1 \o a2) \o a3) \o a4) + Len(a5)
  BY ONLY <1>3, <1>8, ConcatIs
<1>10. Len((((((a1 \o a2) \o a3) \o a4) \o a5) \o vendor))
         = Len((((a1 \o a2) \o a3) \o a4) \o a5) + Len(vendor)
  BY ONLY <1>5, <1>9, ConcatIs
<1>11. Len(a1) \in Nat /\ Len(a2) \in Nat /\ Len(a3) \in Nat /\ Len(a4) \in Nat
  BY ONLY <1>1
<1>12. Len((((((a1 \o a2) \o a3) \o a4) \o a5) \o vendor)) <= l1 + l2 + l3 + l4 + l5 + 18
  <2>1. Len((((((a1 \o a2) \o a3) \o a4) \o a5) \o vendor))
          = Len(a1) + Len(a2) + Len(a3) + Len(a4) + 2 + l5
    BY ONLY <1>3, <1>5, <1>6, <1>7, <1>8, <1>9, <1>10
  <2>2. Len(a1) <= l1 + 4 /\ Len(a2) <= l2 + 4 /\ Len(a3) <= l3 + 4 /\ Len(a4) <= l4 + 4
    BY ONLY <1>1
  <2> HIDE DEF a1
  <2> QED
    BY ONLY <1>2, <1>11, <2>1, <2>2
<1> QED
  BY <1>4, <1>12 DEF l1, l2, l3, l4, l5

LEMMA SliceIs ==
    ASSUME NEW b \in Seq(Byte), NEW pos \in Nat, NEW n \in Nat, pos + n <= Len(b)
    PROVE  /\ SubSeq(b, pos + 1, pos + n) \in Seq(Byte)
           /\ Len(SubSeq(b, pos + 1, pos + n)) = n
           /\ \A k \in 1 .. n : SubSeq(b, pos + 1, pos + n)[k] = b[pos + k]
           /\ SubSeq(b, pos + 1, pos + n) = Bytes(b, pos, n)
<1> DEFINE a == pos + 1
           e == pos + n
<1>1. a \in 1 .. Len(b) + 1 /\ e \in a - 1 .. Len(b) /\ e - a + 1 = n
  OBVIOUS
<1>2. \A k \in 1 .. n : a + k - 1 = pos + k
  OBVIOUS
<1> HIDE DEF a, e
<1>3. /\ SubSeq(b, a, e) \in Seq(Byte) /\ Len(SubSeq(b, a, e)) = e - a + 1
      /\ \A k \in 1 .. e - a + 1 : SubSeq(b, a, e)[k] = b[a + k - 1]
  BY <1>1
<1> DEFINE s == SubSeq(b, a, e)
<1> HIDE DEF s
<1>4. s \in Seq(Byte) /\ Len(s) = n /\ \A k \in 1 .. n : s[k] = b[pos + k]
  BY ONLY <1>1, <1>2, <1>3 DEF s
<1>5. s = [k \in 1 .. n |-> b[pos + k]]
  BY ONLY <1>4, n \in Nat
<1> QED
  BY <1>4, <1>5 DEF s, a, e, Bytes
-----------------------------------------------------------------------------
\* What a converted capture module status says.

\* The serial number is a uint32_t.
LEMMA SerialTold ==
    ASSUME NEW b \in Seq(Byte), Len(b) >= CaptureModuleRead
    PROVE  /\ SerialNumber(b) \in Seq(Byte) /\ NoNull(SerialNumber(b))
           /\ Len(SerialNumber(b)) <= 10
           /\ DecimalValue(SerialNumber(b)) = Number(SubSeq(b, 9, 12))
<1> DEFINE s == Bytes(b, 8, 4)
           n == Number(s)
<1>1. 8 \in Nat /\ 4 \in Nat /\ 8 + 4 <= Len(b) /\ 8 + 1 = 9 /\ 8 + 4 = 12
  BY DEF CaptureModuleRead
<1>2. s \in Seq(Byte) /\ Len(s) = 4 /\ s = SubSeq(b, 9, 12)
  <2>1. SubSeq(b, 8 + 1, 8 + 4) = Bytes(b, 8, 4)
    BY ONLY <1>1, b \in Seq(Byte), SliceIs
  <2>2. Bytes(b, 8, 4) \in Seq(Byte) /\ Len(Bytes(b, 8, 4)) = 4
    BY ONLY <1>1, b \in Seq(Byte), BytesType
  <2> QED
    BY ONLY <1>1, <2>1, <2>2, Zenon DEF s
<1> HIDE DEF s
<1>3. n \in Nat /\ n < 65536 * 65536
  <2>1. /\ s[1] \in Byte /\ s[2] \in Byte /\ s[3] \in Byte /\ s[4] \in Byte
    BY ONLY <1>2
  <2> DEFINE n1 == s[1]
             n2 == s[2]
             n3 == s[3]
             n4 == s[4]
  <2>2. n1 \in 0 .. 255 /\ n2 \in 0 .. 255 /\ n3 \in 0 .. 255 /\ n4 \in 0 .. 255
    BY ONLY <2>1, ByteIs
  <2>3. n = ((n1 * 256 + n2) * 256 + n3) * 256 + n4
    BY DEF Number
  <2> HIDE DEF n1, n2, n3, n4, n
  <2> QED
    BY ONLY <2>2, <2>3, SMT
<1>4. SerialNumber(b) = Decimal[n]
  BY DEF SerialNumber, s
<1> HIDE DEF n
<1>5. Len(Decimal[n]) <= 10
  BY ONLY <1>3, TenDigits, SMT
<1>6. /\ Decimal[n] \in Seq(Byte) /\ NoNull(Decimal[n]) /\ DecimalValue(Decimal[n]) = n
  BY ONLY <1>3, DecimalText, DecimalReads, SMT
<1>7. n = Number(SubSeq(b, 9, 12))
  BY <1>2 DEF n
<1> QED
  BY ONLY <1>4, <1>5, <1>6, <1>7, Zenon

LEMMA CaptureModuleTexts ==
    ASSUME NEW b \in Seq(Byte), Len(b) >= CaptureModuleRead,
           NEW body, body = CaptureModuleBody(<<>>, SerialNumber(b), HwVersion(b), SwVersion(b), <<>>)
    PROVE  /\ RemoveTrailingNulls(StringView(body, 1)) = <<>>
           /\ RemoveTrailingNulls(StringView(body, 2)) = SerialNumber(b)
           /\ RemoveTrailingNulls(StringView(body, 3)) = HwVersion(b)
           /\ RemoveTrailingNulls(StringView(body, 4)) = SwVersion(b)
           /\ StringView(body, 5) = <<>>
<1> DEFINE s == SerialNumber(b)
           h == HwVersion(b)
           w == SwVersion(b)
           none == <<>>
<1>1. s \in Seq(Byte) /\ NoNull(s) /\ Len(s) <= 10
  BY SerialTold
<1>2. h \in Seq(Byte) /\ NoNull(h) /\ Len(h) <= 22 /\ w \in Seq(Byte) /\ NoNull(w) /\ Len(w) <= 33
  <2>1. 11 * 2 = 22 /\ 11 * 3 = 33
    OBVIOUS
  <2> QED
    BY <2>1, VersionsTell DEF Tells
<1>3. none \in Seq(Byte) /\ Len(none) = 0 /\ NoNull(none)
  BY DEF NoNull
<1>4. body = CaptureModuleBody(none, s, h, w, none)
  OBVIOUS
<1> HIDE DEF s, h, w, none
<1>5. Len(body) <= Len(none) + Len(s) + Len(h) + Len(w) + Len(none) + 18
  BY ONLY <1>1, <1>2, <1>3, <1>4, CaptureModuleBodyShort
<1>6. body \in Seq(Byte)
  BY ONLY <1>1, <1>2, <1>3, <1>4, CaptureModuleBodyType
<1>7. Len(body) < Uint16Mod
  <2>1. Len(body) \in Nat /\ Len(s) \in Nat /\ Len(h) \in Nat /\ Len(w) \in Nat
    BY ONLY <1>1, <1>2, <1>6
  <2>2. Len(body) <= 83
    BY ONLY <1>1, <1>2, <1>3, <1>5, <2>1
  <2>3. 83 < Uint16Mod /\ Uint16Mod \in Nat
    BY ByteIs, SMT
  <2> QED
    BY ONLY <2>1, <2>2, <2>3
<1>8. /\ RemoveTrailingNulls(StringView(body, 1)) = none
      /\ RemoveTrailingNulls(StringView(body, 2)) = s
      /\ RemoveTrailingNulls(StringView(body, 3)) = h
      /\ RemoveTrailingNulls(StringView(body, 4)) = w
      /\ StringView(body, 5) = none
  <2>1. /\ none \in Seq(Byte) /\ s \in Seq(Byte) /\ h \in Seq(Byte) /\ w \in Seq(Byte)
        /\ NoNull(none) /\ NoNull(s) /\ NoNull(h) /\ NoNull(w)
    BY ONLY <1>1, <1>2, <1>3, Zenon
  <2> DEFINE c == CaptureModuleBody(none, s, h, w, none)
  <2>2. Len(c) < Uint16Mod
    BY ONLY <1>4, <1>7
  <2>3. /\ RemoveTrailingNulls(StringView(c, 1)) = none
        /\ RemoveTrailingNulls(StringView(c, 2)) = s
        /\ RemoveTrailingNulls(StringView(c, 3)) = h
        /\ RemoveTrailingNulls(StringView(c, 4)) = w
        /\ StringView(c, 5) = none
    BY ONLY <2>1, <2>2, CaptureModuleBodyReads
  <2> HIDE DEF c
  <2>4. body = c
    BY <1>4 DEF c
  <2> QED
    BY ONLY <2>3, <2>4, Zenon
<1> QED
  BY <1>8 DEF s, h, w, none

LEMMA VersionsNumbered ==
    ASSUME NEW b \in Seq(Byte), Len(b) >= CaptureModuleRead
    PROVE  /\ Numbered(SubSeq(b, 17, 18)) = {<<1, b[17]>>, <<2, b[18]>>}
           /\ Numbered(SubSeq(b, 14, 16)) = {<<1, b[14]>>, <<2, b[15]>>, <<3, b[16]>>}
<1> DEFINE h == SubSeq(b, 17, 18)
           w == SubSeq(b, 14, 16)
<1>1. /\ 16 \in Nat /\ 2 \in Nat /\ 16 + 2 <= Len(b) /\ 16 + 1 = 17 /\ 16 + 2 = 18
      /\ 13 \in Nat /\ 3 \in Nat /\ 13 + 3 <= Len(b) /\ 13 + 1 = 14 /\ 13 + 2 = 15 /\ 13 + 3 = 16
  BY DEF CaptureModuleRead
<1>2. h \in Seq(Byte) /\ Len(h) = 2 /\ \A k \in 1 .. 2 : h[k] = b[16 + k]
  <2> HIDE DEF h
  <2>1. /\ SubSeq(b, 16 + 1, 16 + 2) \in Seq(Byte) /\ Len(SubSeq(b, 16 + 1, 16 + 2)) = 2
        /\ \A k \in 1 .. 2 : SubSeq(b, 16 + 1, 16 + 2)[k] = b[16 + k]
    BY <1>1, SliceIs
  <2> QED
    BY <1>1, <2>1, Zenon DEF h
<1>3. w \in Seq(Byte) /\ Len(w) = 3 /\ \A k \in 1 .. 3 : w[k] = b[13 + k]
  <2> HIDE DEF w
  <2>1. /\ SubSeq(b, 13 + 1, 13 + 3) \in Seq(Byte) /\ Len(SubSeq(b, 13 + 1, 13 + 3)) = 3
        /\ \A k \in 1 .. 3 : SubSeq(b, 13 + 1, 13 + 3)[k] = b[13 + k]
    BY <1>1, SliceIs
  <2> QED
    BY <1>1, <2>1, Zenon DEF w
<1> HIDE DEF h, w
<1>4. DOMAIN h = {1, 2} /\ DOMAIN w = {1, 2, 3}
  BY ONLY <1>2, <1>3
<1>5. h[1] = b[17] /\ h[2] = b[18] /\ w[1] = b[14] /\ w[2] = b[15] /\ w[3] = b[16]
  BY ONLY <1>1, <1>2, <1>3
<1>6. Numbered(h) = {<<1, b[17]>>, <<2, b[18]>>}
  BY ONLY <1>4, <1>5 DEF Numbered
<1>7. Numbered(w) = {<<1, b[14]>>, <<2, b[15]>>, <<3, b[16]>>}
  BY ONLY <1>4, <1>5 DEF Numbered
<1> QED
  BY <1>6, <1>7 DEF h, w

\* What a capture module status says.
SaysTheSame(p, b) ==
    /\ p.type = "cmStatMsg"
    /\ DecimalValue(Contents(p)[2]) = Number(SubSeq(b, 9, 12))
    /\ NumbersIn(Contents(p)[3]) = Numbered(SubSeq(b, 17, 18))
    /\ NumbersIn(Contents(p)[4]) = Numbered(SubSeq(b, 14, 16))
    /\ Contents(p)[1] = <<>> /\ Contents(p)[5] = <<>>
    /\ Untouched(p, {})

LEMMA CaptureModuleSays ==
    ASSUME NEW b \in Seq(Byte), Len(b) >= CaptureModuleRead
    PROVE  SaysTheSame(ConvertCaptureModule(b), b)
<1> DEFINE p == ConvertCaptureModule(b)
           body == CaptureModuleBody(<<>>, SerialNumber(b), HwVersion(b), SwVersion(b), <<>>)
           text == Contents(p)
<1>1. p.type = "cmStatMsg" /\ p.body = body /\ p.word = [w \in WordsOf("cmStatMsg") |-> {}]
  BY DEF ConvertCaptureModule, NewPayload
<1>2. /\ RemoveTrailingNulls(StringView(body, 1)) = <<>>
      /\ RemoveTrailingNulls(StringView(body, 2)) = SerialNumber(b)
      /\ RemoveTrailingNulls(StringView(body, 3)) = HwVersion(b)
      /\ RemoveTrailingNulls(StringView(body, 4)) = SwVersion(b)
      /\ StringView(body, 5) = <<>>
  BY CaptureModuleTexts
<1> HIDE DEF p, body
<1>3. text = [k \in 1 .. 5 |-> IF k = 5 THEN StringView(body, k)
                               ELSE RemoveTrailingNulls(StringView(body, k))]
  BY ONLY <1>1 DEF Contents, DataTypes, CanTypes
<1> HIDE DEF text
<1>4. /\ text[1] = <<>> /\ text[2] = SerialNumber(b) /\ text[3] = HwVersion(b)
      /\ text[4] = SwVersion(b) /\ text[5] = <<>>
  BY ONLY <1>2, <1>3
<1>5. DecimalValue(text[2]) = Number(SubSeq(b, 9, 12))
  BY <1>4, SerialTold
<1>6. /\ NumbersIn(text[3]) = Numbered(SubSeq(b, 17, 18))
      /\ NumbersIn(text[4]) = Numbered(SubSeq(b, 14, 16))
  BY <1>4, VersionsTell, VersionsNumbered, Zenon DEF Tells
<1>7. Untouched(p, {})
  <2>1. \A f \in Fields("cmStatMsg") : FieldsOf["cmStatMsg"][f].word \in WordsOf("cmStatMsg")
    BY DEF WordsOf
  <2> QED
    BY ONLY <1>1, <2>1 DEF Untouched, Get
<1>8. text = Contents(p)
  BY DEF text
<1> HIDE DEF text
<1>9. SaysTheSame(p, b)
  BY ONLY <1>1, <1>4, <1>5, <1>6, <1>7, <1>8, Zenon DEF SaysTheSame
<1> QED
  BY <1>9 DEF p
-----------------------------------------------------------------------------
\* What the setters of a bus payload leave alone.

\* What setting a field leaves alone, and what setting the data does.
LEMMA WithBitsKeeps ==
    ASSUME NEW W, NEW p, Payload(p, W), NEW f, NEW v
    PROVE  WithBits(p, f, v).body = p.body /\ WithBits(p, f, v).dataLength = p.dataLength
<1> DEFINE g == [p.word EXCEPT ![FieldsOf[p.type][f].word] =
                   (@ \ FieldsOf[p.type][f].mask) \cup v]
           q == [p EXCEPT !["word"] = g]
<1>1. WithBits(p, f, v) = q
  BY DEF WithBits
<1> HIDE DEF g
<1>2. q["body"] = p["body"] /\ q["dataLength"] = p["dataLength"]
  BY DEF Payload
<1> QED
  BY <1>1, <1>2

LEMMA WithDataIs ==
    ASSUME NEW W, NEW p, Payload(p, W), p.type # "analog", p.body = <<>>,
           NEW data \in Seq(Byte)
    PROVE  LET q == WithData(p, data)
           IN  /\ Payload(q, W) /\ q.type = p.type /\ q.word = p.word
               /\ q.body = data /\ q.dataLength = Len(data)
<1> DEFINE q == WithData(p, data)
           body == Copied(Resized(p.body, Len(data)), 0, data)
           dlc == IF p.type \in CanTypes THEN encodeDlc(Len(data)) ELSE p.dlc
<1>1. body = data
  <2>1. <<>> \in Seq(Byte)
    OBVIOUS
  <2> QED
    BY <2>1, DataWritten
<1>2. q = [p EXCEPT !.body = body, !.dataLength = Len(data), !.dlc = dlc]
  BY DEF WithData
<1> HIDE DEF q, body, dlc
<1>3. /\ DOMAIN q = DOMAIN p /\ q.type = p.type /\ q.word = p.word
      /\ q.body = body /\ q.dataLength = Len(data) /\ q = [x \in DOMAIN q |-> q[x]]
  BY <1>2 DEF Payload
<1>4. Payload(q, W)
  BY <1>3 DEF Payload
<1> QED
  BY <1>1, <1>3, <1>4 DEF q

\* The fields of a bus payload's data.
LEMMA DataIs ==
    ASSUME NEW b \in Seq(Byte), NEW pos \in Nat, NEW n \in Nat, pos + n <= Len(b),
           NEW p, p.type \in {"can", "canFd", "lin"}, p.body = Bytes(b, pos, n), p.dataLength = n
    PROVE  Contents(p) = <<SubSeq(b, pos + 1, pos + n)>>
<1> DEFINE s == SubSeq(b, pos + 1, pos + n)
<1>1. s \in Seq(Byte) /\ Len(s) = n /\ p.body = s
  BY SliceIs
<1> HIDE DEF s
<1>2. SubSeq(s, 1, n) = s
  <2>1. Len(s) \in Nat /\ SubSeq(s, 1, Len(s)) = s
    BY ONLY <1>1
  <2> QED
    BY ONLY <1>1, <2>1
<1>3. /\ p.type \in DataTypes \ {"analog"} /\ p.type # "analog"
      /\ p.type # "ifStatMsg" /\ p.type # "cmStatMsg"
  BY DEF DataTypes, CanTypes
<1>4. Contents(p) = <<SubSeq(p.body, 1, p.dataLength)>>
  BY ONLY <1>3 DEF Contents
<1>5. Contents(p) = <<s>>
  BY <1>1, <1>2, <1>4
<1> QED
  BY <1>5 DEF s
-----------------------------------------------------------------------------
\* What a converted CAN or CAN FD message says.

\* The fields of the id word and of the crc word; no other field is in the id word.
LEMMA CanTable ==
    ASSUME NEW t \in CanTypes
    PROVE  /\ {"id", "crc"} \subseteq WordsOf(t)
           /\ FieldsOf[t]["id"].word = "id" /\ FieldsOf[t]["id"].mask = 0 .. 28
           /\ FieldsOf[t]["rsvd"].word = "id" /\ FieldsOf[t]["rsvd"].mask = {29}
           /\ FieldsOf[t]["rtrRrs"].word = "id" /\ FieldsOf[t]["rtrRrs"].mask = {30}
           /\ FieldsOf[t]["ide"].word = "id" /\ FieldsOf[t]["ide"].mask = {31}
           /\ FieldsOf[t]["crc"].word = "crc"
           /\ FieldsOf[t]["crc"].mask = IF t = "can" THEN 0 .. 14 ELSE 0 .. 20
           /\ \A f \in Fields(t) \ {"id", "rsvd", "rtrRrs", "ide", "crc"} :
                /\ FieldsOf[t][f].word \in WordsOf(t) \ {"id"}
                /\ FieldsOf[t][f].word = "crc" => FieldsOf[t][f].mask \cap (0 .. 20) = {}
<1> DEFINE F == FieldsOf[t]
<1>1. CASE t = "can"
  <2>1. F = CanFields
    BY <1>1 DEF FieldsOf
  <2>2. /\ {"id", "crc"} \subseteq DOMAIN F
        /\ F["id"].word = "id" /\ F["id"].mask = 0 .. 28
        /\ F["rsvd"].word = "id" /\ F["rsvd"].mask = {29}
        /\ F["rtrRrs"].word = "id" /\ F["rtrRrs"].mask = {30}
        /\ F["ide"].word = "id" /\ F["ide"].mask = {31}
        /\ F["crc"].word = "crc" /\ F["crc"].mask = 0 .. 14
        /\ \A f \in DOMAIN F \ {"id", "rsvd", "rtrRrs", "ide", "crc"} :
                /\ F[f].word # "id"
                /\ F[f].word = "crc" => F[f].mask = {31}
    BY <2>1 DEF CanFields, Whole, Bits
  <2>3. {31} \cap (0 .. 20) = {}
    OBVIOUS
  <2> HIDE DEF F
  <2>4. \A f \in DOMAIN F \ {"id", "rsvd", "rtrRrs", "ide", "crc"} :
           F[f].word = "crc" => F[f].mask \cap (0 .. 20) = {}
    BY ONLY <2>2, <2>3
  <2>5. WordsOf(t) = {F[f].word : f \in DOMAIN F} /\ Fields(t) = DOMAIN F
    BY DEF WordsOf, Fields, F
  <2>6. {"id", "crc"} \subseteq WordsOf(t)
    BY ONLY <2>2, <2>5
  <2> QED
    BY <1>1, <2>2, <2>4, <2>5, <2>6 DEF F
<1>2. CASE t = "canFd"
  <2>1. F = CanFdFields
    BY <1>2 DEF FieldsOf
  <2>2. /\ {"id", "crc"} \subseteq DOMAIN F
        /\ F["id"].word = "id" /\ F["id"].mask = 0 .. 28
        /\ F["rsvd"].word = "id" /\ F["rsvd"].mask = {29}
        /\ F["rtrRrs"].word = "id" /\ F["rtrRrs"].mask = {30}
        /\ F["ide"].word = "id" /\ F["ide"].mask = {31}
        /\ F["crc"].word = "crc" /\ F["crc"].mask = 0 .. 20
        /\ \A f \in DOMAIN F \ {"id", "rsvd", "rtrRrs", "ide", "crc"} :
                /\ F[f].word # "id"
                /\ F[f].word = "crc" => F[f].mask \in {21 .. 23, {24}, {30}, {31}}
    BY <2>1 DEF CanFdFields, Whole, Bits
  <2>3. \A m \in {21 .. 23, {24}, {30}, {31}} : m \cap (0 .. 20) = {}
    OBVIOUS
  <2> HIDE DEF F
  <2>4. \A f \in DOMAIN F \ {"id", "rsvd", "rtrRrs", "ide", "crc"} :
           F[f].word = "crc" => F[f].mask \cap (0 .. 20) = {}
    BY ONLY <2>2, <2>3
  <2>5. WordsOf(t) = {F[f].word : f \in DOMAIN F} /\ Fields(t) = DOMAIN F
    BY DEF WordsOf, Fields, F
  <2>6. {"id", "crc"} \subseteq WordsOf(t)
    BY ONLY <2>2, <2>5
  <2> QED
    BY <1>2, <2>2, <2>4, <2>5, <2>6 DEF F
<1> QED
  BY <1>1, <1>2 DEF CanTypes

\* What a CAN or CAN FD payload says.
CanSays(p, b) ==
    LET id == Bits32(Bytes(b, 0, 4))
        crc == Bits32(CanCrc(b))
    IN  /\ p.type = "canFd" <=> Dlc(b) > 8
        /\ p.type \in CanTypes
        /\ Get(p, "id") = id \cap (0 .. 28)
        /\ {f \in {"rsvd", "rtrRrs", "ide"} : Get(p, f) # {}}
             = {f \in {"rsvd", "rtrRrs", "ide"} : FieldsOf[p.type][f].mask \subseteq id}
        /\ Get(p, "crc") = crc \cap FieldsOf[p.type]["crc"].mask
        /\ Contents(p) = <<SubSeq(b, CanHeaderSize + 1, CanHeaderSize + Dlc(b))>>
        /\ crc \subseteq 0 .. 20 => Untouched(p, {"id", "rsvd", "rtrRrs", "ide", "crc"})

LEMMA CanConverts ==
    ASSUME NEW b \in Seq(Byte), CanReadable(b)
    PROVE  CanSays(ConvertCan(b), b)
<1> DEFINE t == IF Dlc(b) > 8 THEN "canFd" ELSE "can"
           W == WordsOf(t)
           n == Dlc(b)
           id == Bits32(Bytes(b, 0, 4))
           crc == Bits32(CanCrc(b))
           cut == IF t = "can" THEN crc \cap (0 .. 15) ELSE crc
           data == Bytes(b, CanHeaderSize, n)
           p0 == NewPayload(t)
           p1 == WithBits(p0, "id", id)
           p2 == WithData(p1, data)
           p3 == WithBits(p2, "crc", cut)
           m == FieldsOf[t]["crc"].mask
<1>1. ConvertCan(b) = p3
  BY DEF ConvertCan
<1>2. n \in Nat /\ 5 + n <= Len(b)
  <2>1. Len(b) >= 5 /\ b[5] \in Byte
    BY DEF CanReadable, CanHeaderSize
  <2>2. n \in Nat
    <3>1. Byte \subseteq Nat
      BY ByteIs, SMT
    <3>2. b[5] \in Nat
      BY ONLY <2>1, <3>1
    <3> QED
      BY ONLY <3>2 DEF Dlc, CanHeaderSize
  <2>3. Len(b) = 5 + n \/ Len(b) >= 5 + n + 3
    BY DEF CanReadable, CanHeaderSize, CanCrcSize
  <2> HIDE DEF n
  <2> QED
    BY ONLY <2>2, <2>3, b \in Seq(Byte)
<1>3. t \in CanTypes /\ (t = "canFd" <=> n > 8) /\ t \in {"can", "canFd", "lin"}
  BY DEF CanTypes
<1>4. Payload(p0, W) /\ p0.type = t /\ p0.body = <<>> /\ \A w \in W : p0.word[w] = {}
  BY <1>3 DEF NewPayload, Payload, CanTypes
<1>5. data \in Seq(Byte) /\ Len(data) = n
  <2>1. CanHeaderSize \in Nat /\ CanHeaderSize + n <= Len(b)
    BY <1>2 DEF CanHeaderSize
  <2> HIDE DEF n
  <2> QED
    BY ONLY <1>2, <2>1, b \in Seq(Byte), BytesType
<1>6. crc \subseteq 0 .. 31
  BY DEF Bits32
<1>7. /\ cut \cap m = crc \cap m
      /\ crc \subseteq 0 .. 20 => cut \subseteq 0 .. 20
  <2> HIDE DEF crc
  <2>1. m = IF t = "can" THEN 0 .. 14 ELSE 0 .. 20
    BY <1>3, CanTable
  <2> HIDE DEF m, t
  <2>2. \A i \in 0 .. 14 : i \in 0 .. 15
    OBVIOUS
  <2> QED
    BY ONLY <2>1, <2>2
<1> HIDE DEF t, W, n, id, crc, cut, data, p0, m
<1> DEFINE low == 0 .. 28
<1>8. /\ Payload(p1, W) /\ p1.type = t /\ p1.word["id"] = id /\ p1.body = <<>>
      /\ \A w \in W \ {"id"} : p1.word[w] = {}
  <2>1. /\ FieldsOf[p0.type]["id"].word = "id" /\ FieldsOf[p0.type]["id"].mask = low
        /\ "id" \in W /\ Payload(p0, W)
    BY <1>3, <1>4, CanTable DEF W
  <2> HIDE DEF low
  <2>2. /\ Payload(p1, W) /\ p1.type = p0.type
        /\ p1.word["id"] = (p0.word["id"] \ low) \cup id
        /\ \A w \in W \ {"id"} : p1.word[w] = p0.word[w]
    BY ONLY <2>1, WithBitsIs
  <2>3. p1.body = p0.body
    BY ONLY <2>1, WithBitsKeeps
  <2> HIDE DEF p1
  <2> QED
    BY ONLY <1>4, <2>1, <2>2, <2>3
<1> HIDE DEF p1
<1>9. /\ Payload(p2, W) /\ p2.type = t /\ p2.word = p1.word
      /\ p2.body = data /\ p2.dataLength = n
  <2>1. p1.type # "analog"
    BY ONLY <1>3, <1>8 DEF CanTypes
  <2> QED
    BY ONLY <1>5, <1>8, <2>1, WithDataIs
<1> HIDE DEF p2
<1>10. /\ Payload(p3, W) /\ p3.type = t /\ p3.word["id"] = id /\ p3.word["crc"] = cut
       /\ \A w \in W \ {"id", "crc"} : p3.word[w] = {}
       /\ p3.body = data /\ p3.dataLength = n
  <2>1. /\ FieldsOf[p2.type]["crc"].word = "crc" /\ FieldsOf[p2.type]["crc"].mask = m
        /\ "crc" \in W /\ "id" \in W /\ Payload(p2, W)
    BY <1>3, <1>9, CanTable DEF W, m
  <2>2. /\ Payload(p3, W) /\ p3.type = p2.type
        /\ p3.word["crc"] = (p2.word["crc"] \ m) \cup cut
        /\ \A w \in W \ {"crc"} : p3.word[w] = p2.word[w]
    BY ONLY <2>1, WithBitsIs
  <2>3. p3.body = p2.body /\ p3.dataLength = p2.dataLength
    BY ONLY <2>1, WithBitsKeeps
  <2> HIDE DEF p3
  <2> QED
    BY ONLY <1>8, <1>9, <2>1, <2>2, <2>3
<1> HIDE DEF p3
<1>11. /\ Get(p3, "id") = id \cap (0 .. 28)
       /\ Get(p3, "rsvd") = id \cap {29} /\ Get(p3, "rtrRrs") = id \cap {30}
       /\ Get(p3, "ide") = id \cap {31}
       /\ Get(p3, "crc") = crc \cap FieldsOf[p3.type]["crc"].mask
  BY ONLY <1>3, <1>7, <1>10, CanTable DEF Get, m
<1>12. {f \in {"rsvd", "rtrRrs", "ide"} : Get(p3, f) # {}}
         = {f \in {"rsvd", "rtrRrs", "ide"} : FieldsOf[p3.type][f].mask \subseteq id}
  <2>1. /\ FieldsOf[p3.type]["rsvd"].mask = {29} /\ FieldsOf[p3.type]["rtrRrs"].mask = {30}
        /\ FieldsOf[p3.type]["ide"].mask = {31}
    BY ONLY <1>3, <1>10, CanTable
  <2>2. \A i : id \cap {i} # {} <=> {i} \subseteq id
    OBVIOUS
  <2> DEFINE Set(f) == Get(p3, f) # {} <=> FieldsOf[p3.type][f].mask \subseteq id
  <2>3. Set("rsvd") /\ Set("rtrRrs") /\ Set("ide")
    BY ONLY <1>11, <2>1, <2>2
  <2>4. \A f \in {"rsvd", "rtrRrs", "ide"} : Set(f)
    <3> HIDE DEF Set
    <3> QED
      BY ONLY <2>3
  <2> QED
    BY ONLY <2>4
<1>13. Contents(p3) = <<SubSeq(b, CanHeaderSize + 1, CanHeaderSize + Dlc(b))>>
  <2>1. /\ CanHeaderSize \in Nat /\ CanHeaderSize + n <= Len(b)
        /\ p3.body = Bytes(b, CanHeaderSize, n) /\ p3.type \in {"can", "canFd", "lin"}
        /\ p3.dataLength = n /\ n \in Nat
    BY <1>2, <1>3, <1>10 DEF CanHeaderSize, data
  <2>2. Contents(p3) = <<SubSeq(b, CanHeaderSize + 1, CanHeaderSize + n)>>
    BY ONLY <2>1, b \in Seq(Byte), DataIs
  <2> QED
    BY <2>2 DEF n
<1>14. ASSUME crc \subseteq 0 .. 20
       PROVE  Untouched(p3, {"id", "rsvd", "rtrRrs", "ide", "crc"})
  <2> SUFFICES ASSUME NEW f \in Fields(t) \ {"id", "rsvd", "rtrRrs", "ide", "crc"}
               PROVE  p3.word[FieldsOf[t][f].word] \cap FieldsOf[t][f].mask = {}
    BY <1>10 DEF Untouched, Get
  <2>1. /\ FieldsOf[t][f].word \in W \ {"id"}
        /\ FieldsOf[t][f].word = "crc" => FieldsOf[t][f].mask \cap (0 .. 20) = {}
    BY <1>3, CanTable DEF W
  <2>2. cut \subseteq 0 .. 20
    BY <1>7, <1>14
  <2>3. CASE FieldsOf[t][f].word = "crc"
    BY ONLY <1>10, <2>1, <2>2, <2>3
  <2>4. CASE FieldsOf[t][f].word # "crc"
    BY ONLY <1>10, <2>1, <2>4
  <2> QED
    BY <2>3, <2>4
<1>15. p3.type \in CanTypes /\ (p3.type = "canFd" <=> Dlc(b) > 8)
  BY <1>3, <1>10 DEF n
<1>16. CanSays(p3, b)
  BY <1>11, <1>12, <1>13, <1>14, <1>15, Zenon DEF CanSays, id, crc
<1> QED
  BY <1>1, <1>16 DEF p3
-----------------------------------------------------------------------------
\* What a converted LIN message says.

LEMMA PowerIs ==
    ASSUME NEW k \in 0 .. 7
    PROVE  2 ^ k \in {1, 2, 4, 8, 16, 32, 64, 128}
<1>1. /\ 2 ^ 0 = 1 /\ 2 ^ 1 = 2 /\ 2 ^ 2 = 4 /\ 2 ^ 3 = 8
      /\ 2 ^ 4 = 16 /\ 2 ^ 5 = 32 /\ 2 ^ 6 = 64 /\ 2 ^ 7 = 128
  OBVIOUS
<1>2. k = 0 \/ k = 1 \/ k = 2 \/ k = 3 \/ k = 4 \/ k = 5 \/ k = 6 \/ k = 7
  OBVIOUS
<1>3. CASE k = 0
  BY ONLY <1>1, <1>3, Zenon
<1>4. CASE k = 1
  BY ONLY <1>1, <1>4, Zenon
<1>5. CASE k = 2
  BY ONLY <1>1, <1>5, Zenon
<1>6. CASE k = 3
  BY ONLY <1>1, <1>6, Zenon
<1>7. CASE k = 4
  BY ONLY <1>1, <1>7, Zenon
<1>8. CASE k = 5
  BY ONLY <1>1, <1>8, Zenon
<1>9. CASE k = 6
  BY ONLY <1>1, <1>9, Zenon
<1>10. CASE k = 7
  BY ONLY <1>1, <1>10, Zenon
<1> QED
  BY ONLY <1>2, <1>3, <1>4, <1>5, <1>6, <1>7, <1>8, <1>9, <1>10, Zenon

\* A number of one byte has no bits above the eighth.
LEMMA ByteBits ==
    ASSUME NEW c
    PROVE  Bits32(<<0, 0, 0, c>>) \subseteq 0 .. 7
<1> DEFINE s == <<0, 0, 0, c>>
<1>1. SUFFICES ASSUME NEW i \in Bits32(s), i \notin 0 .. 7 PROVE FALSE
  OBVIOUS
<1>2. i \in 0 .. 31 /\ (s[4 - (i \div 8)] \div 2 ^ (i % 8)) % 2 = 1
  BY DEF Bits32
<1>3. 4 - (i \div 8) \in 1 .. 3 /\ i % 8 \in 0 .. 7
  BY <1>1, <1>2
<1>4. s[4 - (i \div 8)] = 0
  <2>1. \A j \in 1 .. 3 : s[j] = 0
    OBVIOUS
  <2> QED
    BY <1>3, <2>1
<1> DEFINE q == 2 ^ (i % 8)
<1>5. q \in {1, 2, 4, 8, 16, 32, 64, 128}
  BY <1>3, PowerIs
<1> HIDE DEF q
<1>6. (0 \div q) % 2 = 0
  BY ONLY <1>5
<1>7. (0 \div q) % 2 = 1
  BY ONLY <1>2, <1>4, Zenon DEF q
<1> QED
  BY ONLY <1>6, <1>7

LEMMA LinTable ==
    LET F == FieldsOf["lin"]
    IN  /\ {"pid", "checksum"} \subseteq WordsOf("lin")
        /\ F["linId"].word = "pid" /\ F["linId"].mask = 0 .. 5
        /\ F["checksum"].word = "checksum" /\ F["checksum"].mask = 0 .. 7
        /\ \A f \in Fields("lin") \ {"linId", "checksum"} :
             /\ F[f].word \in WordsOf("lin") \ {"checksum"}
             /\ F[f].word = "pid" => F[f].mask \cap (0 .. 5) = {}
<1> DEFINE F == FieldsOf["lin"]
<1>1. F = LinFields
  BY DEF FieldsOf
<1>2. /\ {"linId", "checksum"} \subseteq DOMAIN F
      /\ F["linId"].word = "pid" /\ F["linId"].mask = 0 .. 5
      /\ F["checksum"].word = "checksum" /\ F["checksum"].mask = 0 .. 7
      /\ \A f \in DOMAIN F \ {"linId", "checksum"} :
           F[f].word # "checksum" /\ (F[f].word = "pid" => F[f].mask = {6, 7})
  BY <1>1 DEF LinFields, Whole, Bits
<1>3. {6, 7} \cap (0 .. 5) = {}
  OBVIOUS
<1> HIDE DEF F
<1>4. \A f \in DOMAIN F \ {"linId", "checksum"} : F[f].word = "pid" => F[f].mask \cap (0 .. 5) = {}
  BY ONLY <1>2, <1>3
<1>5. WordsOf("lin") = {F[f].word : f \in DOMAIN F} /\ Fields("lin") = DOMAIN F
  BY DEF WordsOf, Fields, F
<1>6. {"pid", "checksum"} \subseteq WordsOf("lin")
  BY ONLY <1>2, <1>5
<1> QED
  BY <1>2, <1>4, <1>5, <1>6 DEF F

\* What a LIN payload says.
LinSays(p, b) ==
    /\ p.type = "lin"
    /\ Get(p, "linId") = Bits32(<<0, 0, 0, b[1]>>) \cap (0 .. 5)
    /\ Get(p, "checksum") = Bits32(<<0, 0, 0, LinCrc(b)>>)
    /\ Contents(p) = <<SubSeq(b, LinHeaderSize + 1, LinHeaderSize + LinLength(b))>>
    /\ Untouched(p, {"linId", "checksum"})

LEMMA LinConverts ==
    ASSUME NEW b \in Seq(Byte), LinReadable(b)
    PROVE  LinSays(ConvertLin(b), b)
<1> DEFINE W == WordsOf("lin")
           n == LinLength(b)
           data == Bytes(b, LinHeaderSize, n)
<1>1. n \in Nat /\ LinHeaderSize \in Nat /\ LinHeaderSize + n <= Len(b)
  <2>1. Len(b) >= 2 /\ b[2] \in Byte
    BY DEF LinReadable, LinHeaderSize
  <2>2. Byte \subseteq Nat
    BY ByteIs, SMT
  <2>3. b[2] \in Nat
    BY ONLY <2>1, <2>2
  <2> QED
    BY <2>3 DEF LinLength, LinHeaderSize, LinReadable
<1>2. data \in Seq(Byte) /\ Len(data) = n
  <2> HIDE DEF n
  <2> QED
    BY ONLY <1>1, b \in Seq(Byte), BytesType
<1> DEFINE m == 0 .. 5
           m8 == 0 .. 7
           id == Bits32(<<0, 0, 0, b[1]>>)
           crc == Bits32(<<0, 0, 0, LinCrc(b)>>)
           low == id \cap m
           p0 == NewPayload("lin")
           p1 == WithBits(p0, "linId", low)
           p2 == WithBits(p1, "checksum", crc)
           p3 == WithData(p2, data)
<1>3. ConvertLin(b) = p3
  BY LinTable DEF ConvertLin
<1>4. Payload(p0, W) /\ p0.type = "lin" /\ p0.body = <<>> /\ \A w \in W : p0.word[w] = {}
  BY DEF NewPayload, Payload
<1>5. crc \subseteq m8
  BY ByteBits
<1>6. /\ FieldsOf["lin"]["linId"].word = "pid" /\ FieldsOf["lin"]["linId"].mask = m
      /\ FieldsOf["lin"]["checksum"].word = "checksum" /\ FieldsOf["lin"]["checksum"].mask = m8
      /\ "pid" \in W /\ "checksum" \in W
      /\ \A f \in Fields("lin") \ {"linId", "checksum"} :
           /\ FieldsOf["lin"][f].word \in W \ {"checksum"}
           /\ FieldsOf["lin"][f].word = "pid" => FieldsOf["lin"][f].mask \cap m = {}
  BY LinTable
<1>7. low = id \cap m
  OBVIOUS
<1> HIDE DEF W, n, data, id, crc, low, p0, m, m8
<1>8. /\ Payload(p1, W) /\ p1.type = "lin" /\ p1.word["pid"] = low /\ p1.body = <<>>
      /\ \A w \in W \ {"pid"} : p1.word[w] = {}
  <2>1. /\ FieldsOf[p0.type]["linId"].word = "pid" /\ FieldsOf[p0.type]["linId"].mask = m
        /\ "pid" \in W /\ Payload(p0, W)
    BY ONLY <1>4, <1>6
  <2>2. /\ Payload(p1, W) /\ p1.type = p0.type
        /\ p1.word["pid"] = (p0.word["pid"] \ m) \cup low
        /\ \A w \in W \ {"pid"} : p1.word[w] = p0.word[w]
    BY ONLY <2>1, WithBitsIs
  <2>3. p1.body = p0.body
    BY ONLY <2>1, WithBitsKeeps
  <2> HIDE DEF p1
  <2> QED
    BY ONLY <1>4, <2>1, <2>2, <2>3
<1> HIDE DEF p1
<1>9. /\ Payload(p2, W) /\ p2.type = "lin" /\ p2.word["pid"] = low
      /\ p2.word["checksum"] = crc /\ p2.body = <<>>
      /\ \A w \in W \ {"pid", "checksum"} : p2.word[w] = {}
  <2>1. /\ FieldsOf[p1.type]["checksum"].word = "checksum"
        /\ FieldsOf[p1.type]["checksum"].mask = m8
        /\ "pid" \in W /\ "checksum" \in W /\ Payload(p1, W)
    BY ONLY <1>6, <1>8
  <2>2. /\ Payload(p2, W) /\ p2.type = p1.type
        /\ p2.word["checksum"] = (p1.word["checksum"] \ m8) \cup crc
        /\ \A w \in W \ {"checksum"} : p2.word[w] = p1.word[w]
    BY ONLY <2>1, WithBitsIs
  <2>3. p2.body = p1.body
    BY ONLY <2>1, WithBitsKeeps
  <2> HIDE DEF p2
  <2> QED
    BY ONLY <1>8, <2>1, <2>2, <2>3
<1> HIDE DEF p2
<1>10. /\ p3.type = "lin" /\ p3.word = p2.word /\ p3.body = data /\ p3.dataLength = n
  <2>1. p2.type # "analog"
    BY ONLY <1>9
  <2> QED
    BY ONLY <1>2, <1>9, <2>1, WithDataIs
<1> HIDE DEF p3
<1>11. Get(p3, "linId") = id \cap m /\ Get(p3, "checksum") = crc
  BY ONLY <1>5, <1>6, <1>7, <1>9, <1>10 DEF Get
<1>12. Contents(p3) = <<SubSeq(b, LinHeaderSize + 1, LinHeaderSize + LinLength(b))>>
  <2>1. /\ p3.body = Bytes(b, LinHeaderSize, n) /\ p3.type \in {"can", "canFd", "lin"}
        /\ p3.dataLength = n
    BY <1>10 DEF data
  <2>2. Contents(p3) = <<SubSeq(b, LinHeaderSize + 1, LinHeaderSize + n)>>
    BY ONLY <1>1, <2>1, b \in Seq(Byte), DataIs
  <2> QED
    BY <2>2 DEF n
<1>13. Untouched(p3, {"linId", "checksum"})
  <2> SUFFICES ASSUME NEW f \in Fields("lin") \ {"linId", "checksum"}
               PROVE  p3.word[FieldsOf["lin"][f].word] \cap FieldsOf["lin"][f].mask = {}
    BY <1>10 DEF Untouched, Get
  <2>1. /\ FieldsOf["lin"][f].word \in W \ {"checksum"}
        /\ FieldsOf["lin"][f].word = "pid" => FieldsOf["lin"][f].mask \cap m = {}
    BY <1>6
  <2>2. CASE FieldsOf["lin"][f].word = "pid"
    BY ONLY <1>7, <1>9, <1>10, <2>1, <2>2
  <2>3. CASE FieldsOf["lin"][f].word # "pid"
    BY ONLY <1>9, <1>10, <2>1, <2>3
  <2> QED
    BY <2>2, <2>3
<1>14. LinSays(p3, b)
  BY <1>10, <1>11, <1>12, <1>13, Zenon DEF LinSays, id, crc, m
<1> QED
  BY <1>3, <1>14 DEF p3
-----------------------------------------------------------------------------
\* A call on a datagram of one payload converts that payload.

\* A datagram of another kind is converted whole, and once.
OwnBytes ==
    /\ datagram # NoDatagram /\ Accepted
    /\ datagram.messageType \in {"cmStatus", "data"} /\ pc \in {"convert", "idle"}
    => /\ payloads = <<datagram.bytes>>
       /\ \A i \in DOMAIN packets :
            /\ Readable(datagram, datagram.bytes)
            /\ packets[i] = ConvertPacket(datagram, datagram.bytes)

LEMMA OwnBytesStep ==
    ASSUME IInv, OwnBytes, [Next]_vars
    PROVE  OwnBytes'
<1>1. ASSUME NEW d \in Datagrams, Decode(d) PROVE OwnBytes'
  <2>1. datagram' = d /\ (pc' = "idle" => ~Accepted') /\ pc' \in {"idle", "handle"}
    BY <1>1 DEF Decode, Accepted
  <2> QED
    BY <2>1 DEF OwnBytes
<1>2. CASE HandleCaptureModule \/ HandleData
  <2>1. UNCHANGED <<datagram, packets>> /\ payloads' = <<datagram.bytes>> /\ pc = "handle"
    BY <1>2 DEF HandleCaptureModule, HandleData, Handles, TakePayload
  <2>2. DOMAIN packets = {}
    <3>1. next = 1 /\ packets = [i \in 1 .. next - 1 |-> packets[i]]
      BY <2>1 DEF IInv, Converted
    <3> QED
      BY ONLY <3>1
  <2> QED
    BY <2>1, <2>2 DEF OwnBytes
<1>3. CASE HandleUnimplementedData
  BY <1>3 DEF HandleUnimplementedData, OwnBytes
<1>4. CASE HandleBusStatus
  BY <1>4 DEF HandleBusStatus, Handles, OwnBytes
<1>5. CASE AddBusRecord \/ EndOfBusRecords
  <2>1. datagram.messageType = "busStatus" /\ datagram' = datagram
    BY <1>5 DEF AddBusRecord, EndOfBusRecords, IInv, Converted
  <2> QED
    BY <2>1 DEF OwnBytes
<1>6. CASE IgnoreMessage
  BY <1>6 DEF IgnoreMessage, OwnBytes
<1>7. CASE ConvertPayload
  <2>1. UNCHANGED <<datagram, payloads>> /\ pc = "convert" /\ next \in DOMAIN payloads
    BY <1>7 DEF ConvertPayload
  <2>2. CASE ~Readable(datagram, payloads[next])
    BY <1>7, <2>2 DEF ConvertPayload, OwnBytes
  <2>3. CASE Readable(datagram, payloads[next])
    <3>1. packets' = Append(packets, ConvertPacket(datagram, payloads[next])) /\ pc' = pc
      BY <1>7, <2>3 DEF ConvertPayload
    <3> SUFFICES ASSUME datagram # NoDatagram, Accepted,
                        datagram.messageType \in {"cmStatus", "data"},
                        NEW i \in DOMAIN packets'
                 PROVE  /\ payloads = <<datagram.bytes>>
                        /\ Readable(datagram, datagram.bytes)
                        /\ packets'[i] = ConvertPacket(datagram, datagram.bytes)
      <4>1. OwnBytes' <=>
              (datagram # NoDatagram /\ Accepted /\ datagram.messageType \in {"cmStatus", "data"} =>
                 /\ payloads = <<datagram.bytes>>
                 /\ \A i \in DOMAIN packets' :
                      /\ Readable(datagram, datagram.bytes)
                      /\ packets'[i] = ConvertPacket(datagram, datagram.bytes))
        BY <2>1, <3>1 DEF OwnBytes, Accepted
      <4>2. datagram # NoDatagram /\ Accepted /\ datagram.messageType \in {"cmStatus", "data"}
              => payloads = <<datagram.bytes>>
        BY <2>1 DEF OwnBytes
      <4> QED
        BY <4>1, <4>2, Zenon
    <3>2. /\ payloads = <<datagram.bytes>>
          /\ \A j \in DOMAIN packets : packets[j] = ConvertPacket(datagram, datagram.bytes)
      BY <2>1 DEF OwnBytes
    <3>3. next = 1 /\ payloads[next] = datagram.bytes
      BY <2>1, <3>2
    <3>4. packets = [j \in 1 .. 0 |-> packets[j]]
      BY <3>3 DEF IInv, Converted
    <3> DEFINE e == ConvertPacket(datagram, datagram.bytes)
    <3>5. packets' = Append(packets, e)
      BY <3>1, <3>3
    <3> HIDE DEF e
    <3>6. packets'[1] = e /\ DOMAIN packets' = 1 .. 1
      <4>1. /\ packets' = [j \in 1 .. 0 + 1 |-> packets'[j]] /\ packets'[0 + 1] = e
        BY <3>4, <3>5, AppendIs
      <4> QED
        BY <4>1
    <3>7. i = 1
      BY <3>6
    <3> QED
      BY <2>3, <3>2, <3>3, <3>6, <3>7 DEF e
  <2> QED
    BY <2>2, <2>3
<1>8. CASE Return
  BY <1>8 DEF Return, OwnBytes, Accepted
<1>9. CASE UNCHANGED vars
  BY <1>9 DEF vars, OwnBytes, Accepted
<1> QED
  BY <1>1, <1>2, <1>3, <1>4, <1>5, <1>6, <1>7, <1>8, <1>9 DEF Next, Step

\* A call on another kind of datagram that has returned has converted its bytes.
LEMMA ReturnedPacket ==
    ASSUME IInv, OwnBytes, NEW type \in {"cmStatus", "data"}, Returned(type)
    PROVE  /\ Len(packets) = 1 /\ datagram.bytes \in Seq(Byte)
           /\ Readable(datagram, datagram.bytes)
           /\ packets[1] = ConvertPacket(datagram, datagram.bytes)
<1>1. /\ pc = "idle" /\ datagram # NoDatagram /\ Accepted /\ datagram \in Datagrams
      /\ datagram.messageType = type
  BY DEF Returned, IInv, TypeOK
<1>2. /\ payloads = <<datagram.bytes>>
      /\ \A i \in DOMAIN packets :
           /\ Readable(datagram, datagram.bytes)
           /\ packets[i] = ConvertPacket(datagram, datagram.bytes)
  BY <1>1 DEF OwnBytes
<1>3. next = Len(payloads) + 1 /\ Len(packets) = next - 1
      /\ packets = [i \in 1 .. next - 1 |-> packets[i]]
  BY <1>1 DEF IInv, TypeOK, Converted
<1>4. next = 2
  BY ONLY <1>2, <1>3
<1>5. Len(packets) = 1 /\ 1 \in DOMAIN packets
  <2>1. next - 1 = 1
    BY ONLY <1>4
  <2>2. packets = [i \in 1 .. 1 |-> packets[i]] /\ Len(packets) = 1
    BY ONLY <1>3, <2>1, Zenon
  <2>3. DOMAIN packets = 1 .. 1
    BY ONLY <2>2, Zenon
  <2>4. 1 \in 1 .. 1
    OBVIOUS
  <2> QED
    BY ONLY <2>2, <2>3, <2>4, Zenon
<1> QED
  BY <1>1, <1>2, <1>5, DatagramType

(***************************************************************************)
(* What the getters of the ASAM CMP payload read is what the bytes of the  *)
(* datagram say, field for field, for CAN, CAN FD and LIN messages and for *)
(* a capture module status, with any bytes in them                         *)
(* (tecmp_converter.cpp:50-84, 123-150).                                   *)
(***************************************************************************)
THEOREM ConvertedComesBack == Spec => []ConvertedReadsBack
<1>1. Init => OwnBytes
  BY DEF Init, OwnBytes
<1>2. IInv /\ OwnBytes /\ [Next]_vars => OwnBytes'
  BY OwnBytesStep
<1>3. IInv /\ OwnBytes => ConvertedReadsBack
  <2> SUFFICES ASSUME IInv, OwnBytes PROVE ConvertedReadsBack
    OBVIOUS
  <2> DEFINE b == datagram.bytes
             p == packets[1].payload
  <2>1. ASSUME Returned("data"), datagram.dataType # "lin"
        PROVE  Len(packets) = 1 /\ packets[1].interfaceId = datagram.interfaceId /\ CanSays(p, b)
    <3>1. /\ Len(packets) = 1 /\ b \in Seq(Byte) /\ Readable(datagram, b)
          /\ packets[1] = ConvertPacket(datagram, b)
      BY <2>1, ReturnedPacket
    <3>2. datagram.messageType = "data"
      BY <2>1 DEF Returned
    <3>3. CanReadable(b) /\ packets[1] = PackageFromTecmpHeader(datagram, ConvertCan(b))
      BY <2>1, <3>1, <3>2 DEF Readable, ConvertPacket
    <3>4. p = ConvertCan(b) /\ packets[1].interfaceId = datagram.interfaceId
      BY <3>3 DEF PackageFromTecmpHeader
    <3> QED
      BY <3>1, <3>3, <3>4, CanConverts
  <2>2. ASSUME Returned("data"), datagram.dataType = "lin"
        PROVE  Len(packets) = 1 /\ LinSays(p, b)
    <3>1. /\ Len(packets) = 1 /\ b \in Seq(Byte) /\ Readable(datagram, b)
          /\ packets[1] = ConvertPacket(datagram, b)
      BY <2>2, ReturnedPacket
    <3>2. datagram.messageType = "data"
      BY <2>2 DEF Returned
    <3>3. LinReadable(b) /\ packets[1] = PackageFromTecmpHeader(datagram, ConvertLin(b))
      BY <2>2, <3>1, <3>2 DEF Readable, ConvertPacket
    <3>4. p = ConvertLin(b)
      BY <3>3 DEF PackageFromTecmpHeader
    <3> QED
      BY <3>1, <3>3, <3>4, LinConverts
  <2>3. ASSUME Returned("cmStatus")
        PROVE  Len(packets) = 1 /\ SaysTheSame(p, b)
    <3>1. /\ Len(packets) = 1 /\ b \in Seq(Byte) /\ Readable(datagram, b)
          /\ packets[1] = ConvertPacket(datagram, b)
      BY <2>3, ReturnedPacket
    <3>2. datagram.messageType = "cmStatus"
      BY <2>3 DEF Returned
    <3>3. Len(b) >= CaptureModuleRead
          /\ packets[1] = PackageFromTecmpHeader(datagram, ConvertCaptureModule(b))
      BY <3>1, <3>2 DEF Readable, ConvertPacket
    <3>4. p = ConvertCaptureModule(b)
      BY <3>3 DEF PackageFromTecmpHeader
    <3> QED
      BY <3>1, <3>3, <3>4, CaptureModuleSays
  <2>4. CanReadsBack
    BY <2>1, Zenon DEF CanReadsBack, CanSays
  <2>5. LinReadsBack
    BY <2>2, Zenon DEF LinReadsBack, LinSays
  <2>6. CaptureModuleReadsBack
    BY <2>3, Zenon DEF CaptureModuleReadsBack, SaysTheSame
  <2> QED
    BY <2>4, <2>5, <2>6 DEF ConvertedReadsBack
<1> QED
  BY <1>1, <1>2, <1>3, IInvInvariant, PTL DEF Spec
=============================================================================
