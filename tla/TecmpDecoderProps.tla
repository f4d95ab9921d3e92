-------------------------- MODULE TecmpDecoderProps --------------------------
(***************************************************************************)
(* What TECMP::Decoder::Decode promises of a datagram, in terms of the     *)
(* datagram's bytes and of what the getters of the ASAM CMP payloads read. *)
(***************************************************************************)
EXTENDS TecmpDecoder, FiniteSets

Accepted == HasPayload(datagram) /\ IsValidHeader(datagram)

\* A call on a datagram of the given message type has returned.
Returned(type) ==
    /\ pc = "idle"
    /\ datagram # NoDatagram
    /\ Accepted
    /\ datagram.messageType = type

TypeOK ==
    /\ datagram \in Datagrams \cup {NoDatagram}
    /\ pc \in {"idle", "handle", "records", "convert", "undefined"}
    /\ pc \in {"handle", "records", "convert"} => datagram # NoDatagram
    /\ generic = <<>> \/ generic \in [1 .. InterfaceHeaderSize -> Byte]
    /\ busDataOffset \in Nat
    /\ payloads \in Seq(Seq(Byte))
    /\ next \in 1 .. Len(payloads) + 1
    /\ Len(packets) = next - 1

\* The records of a bus status: how many there are, and the i-th.
RecordCount(d) == (Len(d.bytes) - GenericDataSize) \div BusDataSize
Record(d, i) == Bytes(d.bytes, GenericDataSize + (i - 1) * BusDataSize, BusDataSize)

(***************************************************************************)
(* A bus status yields one packet for each record behind the generic data, *)
(* in the order of the records, each under the interface of its own record *)
(* and under the device and the time of the datagram, and with its own     *)
(* counters; an incomplete record at the end yields none                   *)
(* (tecmp_decoder.cpp:122-145, 164-176, tecmp_converter.cpp:83-98).        *)
(***************************************************************************)
BusRecordsInOrder ==
    Returned("busStatus") =>
        /\ Len(packets) = RecordCount(datagram)
        /\ \A i \in DOMAIN packets :
             LET p == packets[i]
                 r == Record(datagram, i)
             IN  /\ p.deviceId = datagram.deviceId
                 /\ p.timestamp = datagram.timestamp
                 /\ p.interfaceId = Bytes(r, 0, 4)
                 /\ p.payload.type = "ifStatMsg"
                 /\ Get(p.payload, "interfaceId") = Bits32(Bytes(r, 0, 4))
                 /\ Get(p.payload, "msgTotalRx") = Bits32(Bytes(r, 4, 4))
                 /\ Get(p.payload, "errorsTotalRx") = Bits32(Bytes(r, 8, 4))

(***************************************************************************)
(* Bytes that the datagram does not announce make no packet: when the      *)
(* announced payload is generic data and whole records, and fewer bytes    *)
(* than a record lie behind it (as when Ethernet pads a frame), every      *)
(* packet is of an announced record (tecmp_decoder.cpp:25, 136-142: the    *)
(* loop is given everything behind the header).                            *)
(***************************************************************************)
OnlyAnnouncedRecords ==
    LET announced == datagram.payloadLength - GenericDataSize
    IN  /\ Returned("busStatus")
        /\ announced >= 0
        /\ announced % BusDataSize = 0
        /\ Len(datagram.bytes) - datagram.payloadLength < BusDataSize
        => Len(packets) * BusDataSize = announced

\* The fields that are zero in a new payload and stay so.
Untouched(p, fields) == \A f \in Fields(p.type) \ fields : Get(p, f) = {}

(***************************************************************************)
(* A CAN message arrives with its identifier, its data and, as far as the  *)
(* ASAM CMP field is wide, its checksum, as CAN FD exactly if it has more  *)
(* than eight bytes; and with nothing else set, provided the checksum has  *)
(* no bits above CAN FD's 21: the identifier's top bits become the flags   *)
(* of the id word (tecmp_converter.cpp:50-68, 123-134,                     *)
(* can_payload_base.cpp:33-37, 74-78, 95-99).                              *)
(***************************************************************************)
CanReadsBack ==
    Returned("data") /\ datagram.dataType # "lin" =>
        LET p == packets[1].payload
            b == datagram.bytes
            id == Bits32(Bytes(b, 0, 4))
            crc == Bits32(CanCrc(b))
        IN  /\ Len(packets) = 1
            /\ packets[1].interfaceId = datagram.interfaceId
            /\ p.type = "canFd" <=> Dlc(b) > 8
            /\ p.type \in CanTypes
            /\ Get(p, "id") = id \cap (0 .. 28)
            /\ {f \in {"rsvd", "rtrRrs", "ide"} : Get(p, f) # {}}
                 = {f \in {"rsvd", "rtrRrs", "ide"} : FieldsOf[p.type][f].mask \subseteq id}
            /\ Get(p, "crc") = crc \cap FieldsOf[p.type]["crc"].mask
            /\ Contents(p) = <<SubSeq(b, CanHeaderSize + 1, CanHeaderSize + Dlc(b))>>
            /\ crc \subseteq 0 .. 20 => Untouched(p, {"id", "rsvd", "rtrRrs", "ide", "crc"})

(***************************************************************************)
(* A LIN message arrives with its identifier, without the parity bits of   *)
(* the protected identifier, its data and its checksum                     *)
(* (tecmp_converter.cpp:136-150).                                          *)
(***************************************************************************)
LinReadsBack ==
    Returned("data") /\ datagram.dataType = "lin" =>
        LET p == packets[1].payload
            b == datagram.bytes
        IN  /\ Len(packets) = 1
            /\ p.type = "lin"
            /\ Get(p, "linId") = Bits32(<<0, 0, 0, b[1]>>) \cap (0 .. 5)
            /\ Get(p, "checksum") = Bits32(<<0, 0, 0, LinCrc(b)>>)
            /\ Contents(p) = <<SubSeq(b, LinHeaderSize + 1, LinHeaderSize + LinLength(b))>>
            /\ Untouched(p, {"linId", "checksum"})

\* A text of digits as a number; the numbers of a text, each with its position
\* among them, where any other character separates two.
DecimalValue(s) ==
    LET value[i \in 0 .. Len(s)] == IF i = 0 THEN 0 ELSE value[i - 1] * 10 + (s[i] - 48)
    IN  value[Len(s)]
NumbersIn(s) ==
    LET separators == {i \in DOMAIN s : s[i] \notin 48 .. 57}
        end(i) == CHOOSE j \in i + 1 .. Len(s) + 1 :
                      /\ j \in separators \cup {Len(s) + 1}
                      /\ \A k \in i + 1 .. j - 1 : k \notin separators
    IN  {<<Cardinality({j \in separators : j <= i}),
           DecimalValue(SubSeq(s, i + 1, end(i) - 1))>> : i \in separators}
Numbered(s) == {<<i, s[i]>> : i \in DOMAIN s}

(***************************************************************************)
(* A capture module status says the same in ASAM CMP's texts as in         *)
(* TECMP's numbers, each under its own getter: the serial number in        *)
(* decimal, the two numbers of the hardware version and the three of the   *)
(* software version behind a "v", and nothing else                         *)
(* (tecmp_converter.cpp:73-84, tecmp_capture_module_payload.cpp:196-209).  *)
(***************************************************************************)
CaptureModuleReadsBack ==
    Returned("cmStatus") =>
        LET p == packets[1].payload
            b == datagram.bytes
            text == Contents(p)
        IN  /\ Len(packets) = 1
            /\ p.type = "cmStatMsg"
            /\ DecimalValue(text[2]) = Number(SubSeq(b, 9, 12))
            /\ NumbersIn(text[3]) = Numbered(SubSeq(b, 17, 18))
            /\ NumbersIn(text[4]) = Numbered(SubSeq(b, 14, 16))
            /\ text[1] = <<>> /\ text[5] = <<>>
            /\ Untouched(p, {})

(***************************************************************************)
(* What the getters of the ASAM CMP payload read is what the bytes of the  *)
(* datagram say, field for field, for each of the payloads that have one   *)
(* to be converted from (tecmp_converter.cpp:50-84, 123-150).              *)
(***************************************************************************)
ConvertedReadsBack == CanReadsBack /\ LinReadsBack /\ CaptureModuleReadsBack

(***************************************************************************)
(* A datagram of an implemented type whose length fields agree with each   *)
(* other: nothing lies behind the announced payload, and the announced     *)
(* payload is what its own length fields say, with or without a checksum.  *)
(***************************************************************************)
Consistent(d) ==
    LET b == d.bytes
    IN  /\ Len(b) = d.payloadLength
        /\ CASE d.messageType = "busStatus" -> Len(b) >= GenericDataSize
             [] d.messageType = "cmStatus" -> Len(b) >= CaptureModuleRead
             [] d.messageType = "data" /\ d.dataType = "lin" ->
                    Len(b) >= 2 /\ Len(b) - (LinHeaderSize + LinLength(b)) \in {0, 1}
             [] d.messageType = "data" /\ d.dataType \in {"can", "canFd"} ->
                    Len(b) >= 5 /\ Len(b) - (CanHeaderSize + Dlc(b)) \in {0, CanCrcSize}
             [] OTHER -> d.messageType # "data"

(***************************************************************************)
(* Only a datagram of a data type that is not implemented, or one whose    *)
(* length fields contradict each other or the size of the datagram, takes  *)
(* a call to undefined behaviour (tecmp_decoder.cpp:78, 134,               *)
(* tecmp_can_payload.cpp:75-85, tecmp_lin_payload.cpp:140-145).            *)
(***************************************************************************)
ConsistentIsDefined == pc = "undefined" => ~Consistent(datagram)

(***************************************************************************)
(* Every call that is made returns, or is undefined: the loop over the     *)
(* records of a bus status ends although it compares an unsigned           *)
(* difference (tecmp_decoder.cpp:136).                                     *)
(***************************************************************************)
DecodeReturns == pc = "handle" ~> pc \in {"idle", "undefined"}
=============================================================================
