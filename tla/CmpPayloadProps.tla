--------------------------- MODULE CmpPayloadProps ---------------------------
(***************************************************************************)
(* The payload classes with a record of what their user has set: "given"   *)
(* holds the last value given for each field and the last data given to    *)
(* setData, updated without looking at the bytes.  A payload is right when *)
(* its getters return exactly that, in whatever order the setters are      *)
(* called and however often the payload travels in a message.              *)
(***************************************************************************)
EXTENDS CmpPayload

VARIABLE given

pvars == <<payload, given>>

Parts(t) == CASE t = "cmStatMsg" -> 5
              [] t = "ifStatMsg" -> 2
              [] t = "invalid" -> 0
              [] OTHER -> 1

Nothing(t) ==
    [fields |-> [f \in Fields(t) |-> {}], parts |-> [k \in 1 .. Parts(t) |-> <<>>]]

PInit == Init /\ given = Nothing(payload.type)

GiveField(f, v) == SetField(f, v) /\ given' = [given EXCEPT !.fields[f] = v]

\* The flags of a word are those of its fields.
GiveFlags(v) ==
    /\ SetFlags(v)
    /\ given' = [given EXCEPT !.fields =
           [f \in DOMAIN @ |-> IF FieldsOf[payload.type][f].word = "flags"
                                   THEN v \cap FieldsOf[payload.type][f].mask
                                   ELSE @[f]]]

GiveFlag(bit, value) ==
    /\ SetFlag(bit, value)
    /\ given' = [given EXCEPT !.fields["flags"] =
                     IF value THEN @ \cup {bit} ELSE @ \ {bit}]

GiveParts(parts) == given' = [given EXCEPT !.parts = parts]

PSetHeader ==
    \/ \E f \in Fields(payload.type) \ {"flags"} :
          \E v \in Values[payload.type][f] : GiveField(f, v)
    \/ \E v \in FlagValues : GiveFlags(v)
    \/ \E bit \in UNION FlagValues, value \in BOOLEAN : GiveFlag(bit, value)

PSetBody ==
    \/ \E data \in CanData : SetData(data) /\ GiveParts(<<data>>)
    \/ \E ids, vendor \in Lists :
          SetInterfaceData(ids, vendor) /\ GiveParts(<<ids, vendor>>)
    \/ \E d, s, h, w \in Strings, vendor \in Lists :
          /\ SetCaptureModuleData(d, s, h, w, vendor)
          /\ GiveParts(<<d, s, h, w, vendor>>)

\* A message that carries an error does not keep what was given.
PReceive ==
    /\ Receive
    /\ given' = IF payload'.type = payload.type THEN given ELSE Nothing("invalid")

PNext ==
    \/ payload.type # "invalid" /\ (PSetHeader \/ PSetBody \/ PReceive)
    \/ \E t \in Types : Construct(t) /\ given' = Nothing(t)

PSpec == PInit /\ [][PNext]_pvars
-----------------------------------------------------------------------------
(***************************************************************************)
(* Every field reads as it was last set, whatever was done since to the    *)
(* fields that share its word, to the flags and to the data: the masks of  *)
(* the headers do not overlap and no setter writes outside its own         *)
(* (can_payload_base.cpp:28-158, lin_payload.cpp:28-48).                   *)
(***************************************************************************)
FieldsReadBack ==
    \A f \in Fields(payload.type) : Get(payload, f) = given.fields[f]

\* The bytes of data that are whole samples of the type given for sampleDt.
WholeSamples(data, sampleDt) ==
    LET size == IF sampleDt = {} THEN 2 ELSE 4
    IN  SubSeq(data, 1, Len(data) - (Len(data) % size))

(***************************************************************************)
(* The getters find the strings, stream ids, vendor data and data that     *)
(* were last given, whatever longer or shorter data the payload held       *)
(* before: the lengths written in front of each part, with their padding,  *)
(* lead to the next part.  Of analog data the getters return as many bytes *)
(* as are whole samples of the type that was given last, before the data   *)
(* or after it (capture_module_payload.cpp:227-304,                        *)
(* interface_payload.cpp:215-295, analog_payload.cpp:134-148).             *)
(***************************************************************************)
PartsReadBack ==
    Contents(payload) =
        IF payload.type = "analog"
            THEN <<WholeSamples(given.parts[1], given.fields["sampleDt"])>>
            ELSE given.parts

\* What the user has marked as an error.
MarkedAsError ==
    \/ /\ payload.type \in CanTypes
       /\ \/ given.fields["flags"] \cap CanErrors # {}
          \/ given.fields["errorPosition"] # {}
    \/ payload.type = "ethernet" /\ given.fields["flags"] \cap EthernetErrors # {}
    \/ payload.type = "analog" /\ 1 \in given.fields["sampleDt"]

(***************************************************************************)
(* A payload survives its way through a message exactly when its user has  *)
(* not marked it as an error: the length it reports never points behind    *)
(* its own bytes (can_payload_base.cpp:259-263, ethernet_payload.cpp:      *)
(* 84-88, packet.cpp:280-317).                                             *)
(***************************************************************************)
SurvivesUnlessError ==
    payload.type # "invalid" => (IsValidPayload(payload) <=> ~ MarkedAsError)
=============================================================================
