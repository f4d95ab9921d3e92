----------------------------- MODULE TecmpDecoder -----------------------------
(***************************************************************************)
(* TECMP::Decoder::Decode and TECMP::Converter: one datagram of the older  *)
(* TECMP format is read and what it carries is turned into ASAM CMP        *)
(* packets.  Both are static functions without state; a call is the run of *)
(* steps below.  Decode (GetHeader) opens it, one of the Handle actions    *)
(* makes the list of TECMP payloads (HandlePayload; a bus status datagram  *)
(* takes one AddBusRecord for each record), ConvertPayload turns them into *)
(* packets one by one, and Return closes it.                               *)
(*                                                                         *)
(* The bytes behind the header are a sequence of bytes, and a number of    *)
(* several bytes is the tuple of its bytes in network order.  A read       *)
(* behind the end of the bytes a vector holds has no defined result: the   *)
(* call is then "undefined", and the model says no more about it.          *)
(***************************************************************************)
EXTENDS PayloadLayout

CONSTANTS
    Datagrams,      \* the datagrams that may be passed to Decode
    NoDatagram      \* Decode was not called yet

ASSUME ByteAssumption == ByteMod = 256

HeaderSize == 28
GenericDataSize == 12       \* in front of the records of a bus status
BusDataSize == 12           \* a record: interface id, messages, errors
InterfaceHeaderSize == 28   \* TECMP::InterfacePayload::Header
CanHeaderSize == 5
LinHeaderSize == 2
CanCrcSize == 3
CaptureModuleRead == 18     \* up to the last version number that is read

\* What a byte or two bytes on the wire stand for.  "other" is a value that
\* the enumeration does not name; "ff00" is FF 00 on the wire, which the
\* check for an unset data type takes for one.
MessageType ==
    {"control", "cmStatus", "busStatus", "data", "configStatus", "replayData",
     "invalid", "other"}
DataType ==
    {"can", "canFd", "lin", "flexRay", "uartRs232", "analog", "ethernet",
     "invalid", "ff00", "other"}

(***************************************************************************)
(* A datagram: the fields of the header that are read, its size, and the   *)
(* bytes behind the header, as many as there are.                          *)
(***************************************************************************)
Datagram ==
    {d \in [messageType: MessageType, dataType: DataType, deviceId: Byte,
            interfaceId: [1 .. 4 -> Byte], timestamp: [1 .. 8 -> Byte],
            payloadLength: 0 .. Uint16Mod - 1, size: Nat, bytes: Seq(Byte)] :
        d.size >= HeaderSize => Len(d.bytes) = d.size - HeaderSize}

ASSUME DatagramsAssumption == Datagrams \subseteq Datagram
ASSUME NoDatagramAssumption == NoDatagram \notin Datagram

VARIABLES
    datagram,       \* the datagram of the call, or of the last one
    pc,             \* what the call does next; "idle" between calls
    generic,        \* GetInterfacePayload's payload with the generic data
    busDataOffset,  \* its loop variable
    payloads,       \* the bytes of each TECMP payload
    next,           \* the payload to convert next
    packets         \* the packets of the call, or of the last one

vars == <<datagram, pc, generic, busDataOffset, payloads, next, packets>>

Init ==
    /\ datagram = NoDatagram
    /\ pc = "idle"
    /\ generic = <<>>
    /\ busDataOffset = GenericDataSize
    /\ payloads = <<>>
    /\ next = 1
    /\ packets = <<>>
-----------------------------------------------------------------------------
\* "n" bytes of s from position "pos" (from 0).
Bytes(s, pos, n) == [k \in 1 .. n |-> s[pos + k]]

\* The bits of a number in network order.
Bits32(s) == {i \in 0 .. 31 : (s[4 - (i \div 8)] \div 2 ^ (i % 8)) % 2 = 1}

\* CmpHeader::isValid.
IsValidHeader(d) == d.messageType # "invalid" /\ d.dataType # "ff00"

\* GetHeader finds a header and, behind it, the payload it announces.
HasPayload(d) ==
    /\ d.size >= HeaderSize
    /\ d.payloadLength # 0
    /\ d.size >= HeaderSize + d.payloadLength

\* Mutant of Decode: the list of packets outlives the call.
DecodeKeepingPackets(d) ==
    /\ pc = "idle"
    /\ datagram' = d
    /\ pc' = IF HasPayload(d) /\ IsValidHeader(d) THEN "handle" ELSE "idle"
    /\ payloads' = <<>>
    /\ next' = 1
    /\ busDataOffset' = GenericDataSize
    /\ generic' = <<>>
    /\ UNCHANGED packets

\* A call; one that finds nothing to read returns at once.
Decode(d) ==
    /\ pc = "idle"
    /\ datagram' = d
    /\ pc' = IF HasPayload(d) /\ IsValidHeader(d) THEN "handle" ELSE "idle"
    /\ packets' = <<>>
    /\ payloads' = <<>>
    /\ next' = 1
    /\ busDataOffset' = GenericDataSize
    /\ generic' = <<>>

Handles(type) == pc = "handle" /\ datagram.messageType = type

\* The payload is everything behind the header, announced or not.
TakePayload ==
    /\ payloads' = <<datagram.bytes>>
    /\ pc' = "convert"
    /\ UNCHANGED <<datagram, generic, busDataOffset, next, packets>>

HandleCaptureModule == Handles("cmStatus") /\ TakePayload

HandleData ==
    /\ Handles("data")
    /\ datagram.dataType \in {"can", "canFd", "lin"}
    /\ TakePayload

\* For the other data types GetDataPayload returns a null pointer, which
\* HandlePayload dereferences.
HandleUnimplementedData ==
    /\ Handles("data")
    /\ datagram.dataType \notin {"can", "canFd", "lin"}
    /\ pc' = "undefined"
    /\ UNCHANGED <<datagram, generic, busDataOffset, payloads, next, packets>>

\* Message types without a case, or whose case does nothing.
IgnoreMessage ==
    /\ pc = "handle"
    /\ datagram.messageType \notin {"cmStatus", "data", "busStatus"}
    /\ pc' = "idle"
    /\ UNCHANGED <<datagram, generic, busDataOffset, payloads, next, packets>>

\* GetInterfacePayload up to its loop: setGenericData copies twelve bytes into
\* a payload of zeros, whether they are there or not.
HandleBusStatus ==
    /\ Handles("busStatus")
    /\ IF Len(datagram.bytes) >= GenericDataSize
         THEN /\ generic' = Copied(Zeros(InterfaceHeaderSize), 0,
                                   Bytes(datagram.bytes, 0, GenericDataSize))
              /\ pc' = "records"
         ELSE pc' = "undefined" /\ UNCHANGED generic
    /\ UNCHANGED <<datagram, busDataOffset, payloads, next, packets>>

\* Mutants of AddBusRecord: the loop steps on by the size of a number; it does
\* not step on at all.
AddBusRecordShortStride ==
    /\ pc = "records"
    /\ Len(datagram.bytes) - busDataOffset >= BusDataSize
    /\ payloads' = Append(payloads,
           Copied(generic, GenericDataSize, Bytes(datagram.bytes, busDataOffset, BusDataSize)))
    /\ busDataOffset' = busDataOffset + 4
    /\ UNCHANGED <<datagram, pc, generic, next, packets>>

AddBusRecordForever ==
    /\ pc = "records"
    /\ Len(datagram.bytes) - busDataOffset >= BusDataSize
    /\ payloads' = <<Copied(generic, GenericDataSize,
                            Bytes(datagram.bytes, busDataOffset, BusDataSize))>>
    /\ UNCHANGED <<datagram, pc, generic, busDataOffset, next, packets>>

\* One turn of the loop.
AddBusRecord ==
    /\ pc = "records"
    /\ Len(datagram.bytes) - busDataOffset >= BusDataSize
    /\ payloads' = Append(payloads,
           Copied(generic, GenericDataSize, Bytes(datagram.bytes, busDataOffset, BusDataSize)))
    /\ busDataOffset' = busDataOffset + BusDataSize
    /\ UNCHANGED <<datagram, pc, generic, next, packets>>

EndOfBusRecords ==
    /\ pc = "records"
    /\ Len(datagram.bytes) - busDataOffset < BusDataSize
    /\ pc' = IF payloads = <<>> THEN "idle" ELSE "convert"
    /\ UNCHANGED <<datagram, generic, busDataOffset, payloads, next, packets>>
-----------------------------------------------------------------------------
\* GetPackageFromTecmpHeader, with the payload it will have.
PackageFromTecmpHeader(d, payload) ==
    [deviceId |-> d.deviceId, timestamp |-> d.timestamp,
     interfaceId |-> d.interfaceId, payload |-> payload]

\* TECMP::CanPayload.  The checksum is three bytes behind the data, the first
\* one the lowest; a payload that ends with the data has none.
Dlc(b) == b[CanHeaderSize]
CanCrc(b) ==
    IF Len(b) <= CanHeaderSize + Dlc(b) THEN <<0, 0, 0, 0>>
    ELSE LET c == Bytes(b, CanHeaderSize + Dlc(b), CanCrcSize)
         IN  <<0, c[3], c[2], c[1]>>
\* Mutant of CanReadable: the checksum is read whether there is one or not.
CanReadableWithCrc(b) ==
    Len(b) >= CanHeaderSize /\ Len(b) >= CanHeaderSize + Dlc(b) + CanCrcSize

CanReadable(b) ==
    /\ Len(b) >= CanHeaderSize
    /\ \/ Len(b) = CanHeaderSize + Dlc(b)
       \/ Len(b) >= CanHeaderSize + Dlc(b) + CanCrcSize

\* Mutant of ConvertCan: the checksum is cut to sixteen bits for CAN FD too.
ConvertCanShortCrc(b) ==
    LET type == IF Dlc(b) > 8 THEN "canFd" ELSE "can"
        withId == WithBits(NewPayload(type), "id", Bits32(Bytes(b, 0, 4)))
        withData == WithData(withId, Bytes(b, CanHeaderSize, Dlc(b)))
    IN  WithBits(withData, "crc", Bits32(CanCrc(b)) \cap (0 .. 15))

\* ConvertCanPayload and ConvertCanFdPayload: more than eight bytes of data
\* make it CAN FD, whatever data type the header has.  The setters do not mask
\* their argument.
ConvertCan(b) ==
    LET type == IF Dlc(b) > 8 THEN "canFd" ELSE "can"
        crc == IF type = "can" THEN Bits32(CanCrc(b)) \cap (0 .. 15) ELSE Bits32(CanCrc(b))
        withId == WithBits(NewPayload(type), "id", Bits32(Bytes(b, 0, 4)))
        withData == WithData(withId, Bytes(b, CanHeaderSize, Dlc(b)))
    IN  WithBits(withData, "crc", crc)

\* TECMP::LinPayload: the checksum is the byte behind the data.
LinLength(b) == b[LinHeaderSize]
LinReadable(b) == Len(b) >= LinHeaderSize /\ Len(b) >= LinHeaderSize + LinLength(b)
LinCrc(b) ==
    IF Len(b) <= LinHeaderSize + LinLength(b) THEN 0 ELSE b[LinHeaderSize + LinLength(b) + 1]

\* Mutant of ConvertLin: the whole protected identifier is taken.
ConvertLinProtectedId(b) ==
    LET withId == WithBits(NewPayload("lin"), "linId", Bits32(<<0, 0, 0, b[1]>>))
        withCrc == WithBits(withId, "checksum", Bits32(<<0, 0, 0, LinCrc(b)>>))
    IN  WithData(withCrc, Bytes(b, LinHeaderSize, LinLength(b)))

\* setLinId keeps the bits of its mask.
ConvertLin(b) ==
    LET withId == WithBits(NewPayload("lin"), "linId",
                      Bits32(<<0, 0, 0, b[1]>>) \cap FieldsOf["lin"]["linId"].mask)
        withCrc == WithBits(withId, "checksum", Bits32(<<0, 0, 0, LinCrc(b)>>))
    IN  WithData(withCrc, Bytes(b, LinHeaderSize, LinLength(b)))

\* std::to_string, and the numbers with dots between them as versions.
Decimal ==
    LET digits[n \in Nat] == IF n < 10 THEN <<48 + n>>
                             ELSE Append(digits[n \div 10], 48 + (n % 10))
    IN  digits
Number(s) == ((s[1] * 256 + s[2]) * 256 + s[3]) * 256 + s[4]
SerialNumber(b) == Decimal[Number(Bytes(b, 8, 4))]
SwVersion(b) == <<118>> \o Decimal[b[14]] \o <<46>> \o Decimal[b[15]] \o <<46>> \o Decimal[b[16]]
HwVersion(b) == <<118>> \o Decimal[b[17]] \o <<46>> \o Decimal[b[18]]

\* Mutant of ConvertCaptureModule: the two versions change places.
ConvertCaptureModuleSwapped(b) ==
    [NewPayload("cmStatMsg") EXCEPT
        !.body = CaptureModuleBody(<<>>, SerialNumber(b), SwVersion(b), HwVersion(b), <<>>)]

\* ConvertCaptureModulePayload.
ConvertCaptureModule(b) ==
    [NewPayload("cmStatMsg") EXCEPT
        !.body = CaptureModuleBody(<<>>, SerialNumber(b), HwVersion(b), SwVersion(b), <<>>)]

\* TECMP::InterfacePayload: the three numbers of a record.
InterfaceId(b) == Bytes(b, GenericDataSize, 4)
MessagesTotal(b) == Bytes(b, GenericDataSize + 4, 4)
ErrorsTotal(b) == Bytes(b, GenericDataSize + 8, 4)

\* ConvertInterfacePayload.
ConvertInterface(b) ==
    LET withId == WithBits(NewPayload("ifStatMsg"), "interfaceId", Bits32(InterfaceId(b)))
        withMsgs == WithBits(withId, "msgTotalRx", Bits32(MessagesTotal(b)))
    IN  WithBits(withMsgs, "errorsTotalRx", Bits32(ErrorsTotal(b)))

\* Mutant of ConvertPacket: the interface of the header for every record.
ConvertPacketHeaderId(d, b) ==
    CASE d.messageType = "cmStatus" -> PackageFromTecmpHeader(d, ConvertCaptureModule(b))
      [] d.messageType = "busStatus" -> PackageFromTecmpHeader(d, ConvertInterface(b))
      [] d.messageType = "data" /\ d.dataType = "lin" -> PackageFromTecmpHeader(d, ConvertLin(b))
      [] OTHER -> PackageFromTecmpHeader(d, ConvertCan(b))

\* ConvertPacket.  A packet of an interface status is from that interface.  The
\* packets made here have a payload of a known type, so none is dropped as
\* invalid.
ConvertPacket(d, b) ==
    CASE d.messageType = "cmStatus" -> PackageFromTecmpHeader(d, ConvertCaptureModule(b))
      [] d.messageType = "busStatus" ->
             [PackageFromTecmpHeader(d, ConvertInterface(b)) EXCEPT !.interfaceId = InterfaceId(b)]
      [] d.messageType = "data" /\ d.dataType = "lin" -> PackageFromTecmpHeader(d, ConvertLin(b))
      [] OTHER -> PackageFromTecmpHeader(d, ConvertCan(b))

\* The bytes the getters of the payload read are there.
Readable(d, b) ==
    CASE d.messageType = "cmStatus" -> Len(b) >= CaptureModuleRead
      [] d.messageType = "busStatus" -> TRUE
      [] d.messageType = "data" /\ d.dataType = "lin" -> LinReadable(b)
      [] OTHER -> CanReadable(b)

\* One turn of the loop of ConvertPacketsToAsam.
ConvertPayload ==
    /\ pc = "convert"
    /\ next \in DOMAIN payloads
    /\ IF Readable(datagram, payloads[next])
         THEN /\ packets' = Append(packets, ConvertPacket(datagram, payloads[next]))
              /\ next' = next + 1
              /\ UNCHANGED pc
         ELSE pc' = "undefined" /\ UNCHANGED <<packets, next>>
    /\ UNCHANGED <<datagram, generic, busDataOffset, payloads>>

Return ==
    /\ pc = "convert"
    /\ next \notin DOMAIN payloads
    /\ pc' = "idle"
    /\ UNCHANGED <<datagram, generic, busDataOffset, payloads, next, packets>>

Step ==
    \/ HandleCaptureModule \/ HandleData \/ HandleUnimplementedData
    \/ HandleBusStatus \/ AddBusRecord \/ EndOfBusRecords \/ IgnoreMessage
    \/ ConvertPayload \/ Return

Next == (\E d \in Datagrams : Decode(d)) \/ Step

Spec == Init /\ [][Next]_vars

\* A call that was made runs; nobody has to make one.
FairSpec == Spec /\ WF_vars(Step)
=============================================================================
