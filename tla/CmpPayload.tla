------------------------------ MODULE CmpPayload ------------------------------
(***************************************************************************)
(* The payload classes of ASAM::CMP: an object of one of them, written     *)
(* through its setters and read through its getters (see PayloadLayout),   *)
(* and its way through a message.                                          *)
(***************************************************************************)
EXTENDS PayloadLayout

CONSTANTS
    Types,          \* the payload classes of an instance
    Values,         \* Values[type][field]: the arguments of the setters
    FlagValues,     \* arguments of setFlags
    CanData,        \* arguments of setData of the data classes
    Strings,        \* strings of setData of CaptureModulePayload
    Lists,          \* stream ids and vendor data of the status classes
    ClearCrcFlags   \* whether flags of the crc word are ever set to false

ASSUME TypesAssumption == Types \subseteq AllTypes
ASSUME ValuesAssumption ==
    \A t \in Types : \A f \in Fields(t) :
        Values[t][f] \subseteq SUBSET FieldsOf[t][f].mask
ASSUME FlagValuesAssumption == FlagValues \subseteq SUBSET (0 .. 15)
ASSUME DataAssumption == CanData \cup Strings \cup Lists \subseteq Seq(Byte)

\* An object: its class, the words of its header, dataLength and dlc (of the
\* classes that have them) and "body", the bytes behind the header.
VARIABLE payload

TypeOK ==
    /\ DOMAIN payload = {"type", "word", "dataLength", "dlc", "body"}
    /\ payload.type \in Types \cup {"invalid"}
    /\ payload.word \in [WordsOf(payload.type) -> SUBSET (0 .. 63)]
    /\ payload.dataLength \in Nat
    /\ payload.dlc \in 0 .. 15
    /\ payload.body \in Seq(Byte)
-----------------------------------------------------------------------------
\* Clearing a flag of the crc word copies the id word over it.
CopiesId(t, f) ==
    t \in CanTypes /\ f \in {"crcSupport", "sbcParity", "sbcSupport"}
WithFlagCleared(p, f) ==
    IF CopiesId(p.type, f)
        THEN [p EXCEPT !.word["crc"] = p.word["id"] \ FieldsOf[p.type][f].mask]
        ELSE WithBits(p, f, {})

SetField(f, v) ==
    /\ CopiesId(payload.type, f) /\ v = {} => ClearCrcFlags
    /\ payload' = IF v = {} THEN WithFlagCleared(payload, f)
                            ELSE WithBits(payload, f, v)

\* The whole word of flags, and one bit of it (an analog payload has no
\* setFlag).
SetFlags(v) ==
    /\ payload.type \in DataTypes
    /\ payload' = [payload EXCEPT !.word["flags"] = v]

SetFlag(bit, value) ==
    /\ payload.type \in DataTypes \ {"analog"}
    /\ payload' = [payload EXCEPT !.word["flags"] =
                       IF value THEN @ \cup {bit} ELSE @ \ {bit}]

SetData(data) ==
    /\ payload.type \in DataTypes
    /\ payload' = WithData(payload, data)

\* What a message can carry: the code's sums do not wrap.
Fits(b) == Len(b) < Uint16Mod

SetInterfaceData(streamIds, vendorData) ==
    LET b == InterfaceBody(payload.body, streamIds, vendorData)
    IN  /\ payload.type = "ifStatMsg"
        /\ Fits(b)
        /\ payload' = [payload EXCEPT !.body = b]

SetCaptureModuleData(description, serial, hardware, software, vendorData) ==
    LET b == CaptureModuleBody(description, serial, hardware, software, vendorData)
    IN  /\ payload.type = "cmStatMsg"
        /\ Fits(b)
        /\ payload' = [payload EXCEPT !.body = b]
-----------------------------------------------------------------------------
CanErrors == 0 .. 9
EthernetErrors == {0, 1, 3, 4, 5}

\* Mutant of IsValidPayload: only the size is looked at.
IsValidPayloadBySize(p) ==
    /\ p.type # "invalid"
    /\ p.dataLength <= Len(p.body)

\* isValidPayload of the class that Packet::create consults: for interface
\* payloads too it is CaptureModulePayload's, which looks at the size alone.
IsValidPayload(p) ==
    /\ p.type # "invalid"
    /\ p.type \in CanTypes =>
         /\ p.word["flags"] \cap CanErrors = {}
         /\ p.word["errorPosition"] = {}
         /\ p.dataLength <= Len(p.body)
    /\ p.type = "ethernet" =>
         /\ p.word["flags"] \cap EthernetErrors = {}
         /\ p.dataLength <= Len(p.body)
    /\ p.type = "analog" => 1 \notin p.word["flags"]

\* Packet::create from the bytes of p: an invalid payload keeps its size only.
Create(p) ==
    IF IsValidPayload(p) THEN p
    ELSE [NewPayload("invalid") EXCEPT !.body = Zeros(Len(p.body))]

\* The bytes travel in a message and become a payload again.
Receive == payload' = Create(payload)

Construct(t) == payload' = NewPayload(t)

Init == \E t \in Types : payload = NewPayload(t)

SetHeader ==
    \/ \E f \in Fields(payload.type) \ {"flags"} :
          \E v \in Values[payload.type][f] : SetField(f, v)
    \/ \E v \in FlagValues : SetFlags(v)
    \/ \E bit \in UNION FlagValues, value \in BOOLEAN : SetFlag(bit, value)

SetBody ==
    \/ \E data \in CanData : SetData(data)
    \/ \E ids, vendor \in Lists : SetInterfaceData(ids, vendor)
    \/ \E d, s, h, w \in Strings, vendor \in Lists :
          SetCaptureModuleData(d, s, h, w, vendor)

Next ==
    \/ payload.type # "invalid" /\ (SetHeader \/ SetBody \/ Receive)
    \/ \E t \in Types : Construct(t)

Spec == Init /\ [][Next]_payload
=============================================================================
