------------------------------ MODULE CmpPacket ------------------------------
(***************************************************************************)
(* ASAM::CMP::Packet as a class: packets are made, copied, moved, compared *)
(* and destroyed, and each keeps its payload in a block of memory of its   *)
(* own, which getPayload hands out by reference.                           *)
(*                                                                         *)
(* The caller may hold one such reference.  It is None when it dangles,    *)
(* and is then not used.  A payload's bytes are opaque apart from their    *)
(* number, and how its class checks them is modelled in CmpPayload.        *)
(***************************************************************************)
EXTENDS Naturals

CONSTANTS
    Object,         \* the variables of a program that may hold a packet
    Block,          \* the blocks of memory that new may return
    None,           \* a null pointer, a free block
    Settings,       \* the arguments of setters: <<field, value>>
    Data,           \* the bytes of a payload
    Zero,           \* bytes that are all zero
    Payloads,       \* the arguments of setPayload, and what is written
    WellFormed,     \* those that pass the check of their class
    LengthMod       \* 2^16: getPayloadLength is 16 bits wide

Field ==
    {"version", "deviceId", "streamId", "sequenceCounter", "timestamp",
     "interfaceId", "vendorId", "commonFlags", "segmentType"}

\* PayloadType holds the message type and the number of the payload type.
Payload ==
    [messageType: {"undefined", "data", "control", "status", "vendor"},
     payloadType: Nat, length: Nat, data: Data]

ASSUME NoneAssumption == None \notin Object \cup Block \cup Payload
ASSUME SettingsAssumption == Settings \subseteq Field \X Nat
ASSUME PayloadsAssumption == Payloads \subseteq Payload /\ WellFormed \subseteq Payload
ASSUME ZeroAssumption == Zero \in Data
ASSUME LengthModAssumption == LengthMod \in Nat \ {0}

VARIABLES
    live,       \* the objects that hold a packet
    fields,     \* its fields; those of a packet not constructed are unused
    pointer,    \* its unique_ptr
    heap,       \* what is in each block
    ref,        \* the reference to a payload that the caller holds
    last        \* for the properties: the last copy assignment or construction

vars == <<live, fields, pointer, heap, ref, last>>

Default == [f \in Field |-> IF f = "version" THEN 1 ELSE 0]

Did(op, o, s) == last' = [op |-> op, to |-> o, from |-> s]
DidOther == Did("other", None, None)

Init ==
    /\ live = {}
    /\ fields = [o \in Object |-> Default]
    /\ pointer = [o \in Object |-> None]
    /\ heap = [b \in Block |-> None]
    /\ ref = None
    /\ last = [op |-> "other", to |-> None, from |-> None]
-----------------------------------------------------------------------------
Content(p) == IF p = None THEN None ELSE heap[p]
Free == {b \in Block : heap[b] = None}

\* Where a copy of what p points to may be; a null pointer needs no block.
CopyOf(p) == IF p = None THEN {None} ELSE Free

\* o's packet becomes one with these fields and with payload c in block b, and
\* the block it had is freed after that.
Put(o, newFields, b, c) ==
    /\ fields' = [fields EXCEPT ![o] = newFields]
    /\ pointer' = [pointer EXCEPT ![o] = b]
    /\ heap' = [x \in Block |-> IF x = b THEN c
                                ELSE IF x = pointer[o] THEN None ELSE heap[x]]
    /\ ref' = IF ref = pointer[o] THEN None ELSE ref

\* getPayloadLength; operator== of Payload, false for one and the same; and
\* operator== of Packet.
Length(p) == IF p = None THEN 0 ELSE heap[p].length % LengthMod
SamePayload(p, q) == p # q /\ heap[p] = heap[q]

\* Mutant of Equal: the fields alone decide.
EqualFields(o, s) == fields[o] = fields[s]

Equal(o, s) ==
    /\ fields[o] = fields[s]
    /\ Length(pointer[o]) = Length(pointer[s])
    /\ Length(pointer[o]) > 0 => SamePayload(pointer[o], pointer[s])
-----------------------------------------------------------------------------
Construct(o) ==
    /\ o \notin live
    /\ live' = live \cup {o}
    /\ Put(o, Default, None, None)
    /\ DidOther

\* A raw message: getRawCmpHeader's message type, getRawMessageHeader, and the
\* bytes of the payload.  An interface id and a vendor id share their place.
Message(o) ==
    LET p == heap[pointer[o]]
    IN  [messageType |-> p.messageType,
         timestamp |-> fields[o]["timestamp"],
         id |-> CASE p.messageType = "data" -> fields[o]["interfaceId"]
                  [] p.messageType \in {"status", "vendor"} -> fields[o]["vendorId"]
                  [] OTHER -> 0,
         commonFlags |-> fields[o]["commonFlags"],
         payloadType |-> p.payloadType,
         length |-> p.length % LengthMod,
         data |-> p.data]

\* Mutant of FromMessageHeader: the id is always taken for an interface's.
FromMessageHeaderAsData(m) ==
    [Default EXCEPT
        !["timestamp"] = m.timestamp,
        !["interfaceId"] = m.id,
        !["commonFlags"] = m.commonFlags]

\* setMessageHeader on a new packet.
FromMessageHeader(m) ==
    [Default EXCEPT
        !["timestamp"] = m.timestamp,
        !["interfaceId"] = IF m.messageType = "data" THEN m.id ELSE @,
        !["vendorId"] = IF m.messageType \in {"status", "vendor"} THEN m.id ELSE @,
        !["commonFlags"] = m.commonFlags]

\* create: a payload that fails its class's check keeps its size only.
Create(m) ==
    LET c == [messageType |-> m.messageType, payloadType |-> m.payloadType,
              length |-> m.length, data |-> m.data]
    IN  IF c \in WellFormed THEN c
        ELSE [messageType |-> "undefined", payloadType |-> 0,
              length |-> m.length, data |-> Zero]

\* The packet in s travels as a message and is constructed again in o; a
\* message has no room for more than its length can say.
ConstructFromMessage(o, s) ==
    /\ o \notin live
    /\ pointer[s] # None
    /\ heap[pointer[s]].length < LengthMod
    /\ live' = live \cup {o}
    /\ \E b \in Free : Put(o, FromMessageHeader(Message(s)), b, Create(Message(s)))
    /\ Did("message", o, s)

\* Mutant of CopyConstruct: the pointer is copied, not what it points to.
CopyConstructShallow(o, s) ==
    /\ o \notin live
    /\ s \in live
    /\ live' = live \cup {o}
    /\ Put(o, fields[s], pointer[s], Content(pointer[s]))
    /\ DidOther

CopyConstruct(o, s) ==
    /\ o \notin live
    /\ s \in live
    /\ live' = live \cup {o}
    /\ \E b \in CopyOf(pointer[s]) : Put(o, fields[s], b, Content(pointer[s]))
    /\ DidOther

\* A default packet and the other one change places.
MoveConstruct(o, s) ==
    /\ o \notin live
    /\ s \in live
    /\ live' = live \cup {o}
    /\ fields' = [fields EXCEPT ![o] = fields[s], ![s] = Default]
    /\ pointer' = [pointer EXCEPT ![o] = pointer[s], ![s] = None]
    /\ UNCHANGED <<heap, ref>>
    /\ DidOther

\* Mutant of Destroy: the payload is forgotten, not freed.
DestroyLeaking(o) ==
    /\ o \in live
    /\ live' = live \ {o}
    /\ fields' = [fields EXCEPT ![o] = Default]
    /\ UNCHANGED <<pointer, heap, ref>>
    /\ DidOther

Destroy(o) ==
    /\ o \in live
    /\ live' = live \ {o}
    /\ Put(o, Default, None, None)
    /\ DidOther

\* Nothing happens if the packets compare equal; otherwise a copy is made
\* before the old payload goes, also when o and s are one object.
CopyAssign(o, s) ==
    /\ {o, s} \subseteq live
    /\ IF Equal(o, s)
         THEN UNCHANGED <<fields, pointer, heap, ref>>
         ELSE \E b \in CopyOf(pointer[s]) : Put(o, fields[s], b, Content(pointer[s]))
    /\ UNCHANGED live
    /\ Did("assign", o, s)

\* Mutant of MoveAssign: the packet that is moved from is left empty, but the
\* payload of the other one is not freed.
MoveAssignLeaking(o, s) ==
    /\ {o, s} \subseteq live
    /\ o # s
    /\ fields' = [fields EXCEPT ![o] = fields[s], ![s] = Default]
    /\ pointer' = [pointer EXCEPT ![o] = pointer[s], ![s] = None]
    /\ UNCHANGED <<live, heap, ref>>
    /\ DidOther

\* Moving swaps: the packet that is moved from has what the other one had.
MoveAssign(o, s) ==
    /\ {o, s} \subseteq live
    /\ fields' = [fields EXCEPT ![o] = fields[s], ![s] = fields[o]]
    /\ pointer' = [pointer EXCEPT ![o] = pointer[s], ![s] = pointer[o]]
    /\ UNCHANGED <<live, heap, ref>>
    /\ DidOther

SetField(o, f, v) ==
    /\ o \in live
    /\ fields' = [fields EXCEPT ![o][f] = v]
    /\ UNCHANGED <<live, pointer, heap, ref>>
    /\ DidOther

\* setPayload keeps a copy of its argument.
SetPayload(o, c) ==
    /\ o \in live
    /\ \E b \in Free : Put(o, fields[o], b, c)
    /\ UNCHANGED live
    /\ DidOther

\* The caller takes a reference, and writes to the payload through it.
GetPayload(o) ==
    /\ pointer[o] # None
    /\ ref' = pointer[o]
    /\ UNCHANGED <<live, fields, pointer, heap>>
    /\ DidOther

WritePayload(c) ==
    /\ ref # None
    /\ heap' = [heap EXCEPT ![ref] = c]
    /\ UNCHANGED <<live, fields, pointer, ref>>
    /\ DidOther

Next ==
    \/ \E c \in Payloads : WritePayload(c)
    \/ \E o \in Object :
         \/ Construct(o) \/ Destroy(o) \/ GetPayload(o)
         \/ \E setting \in Settings : SetField(o, setting[1], setting[2])
         \/ \E c \in Payloads : SetPayload(o, c)
         \/ \E s \in Object :
              \/ ConstructFromMessage(o, s) \/ CopyConstruct(o, s)
              \/ MoveConstruct(o, s) \/ CopyAssign(o, s) \/ MoveAssign(o, s)

Spec == Init /\ [][Next]_vars
=============================================================================
