---------------------------- MODULE PayloadLayout ----------------------------
(***************************************************************************)
(* The payloads of ASAM::CMP as values: a header of fixed size and the     *)
(* bytes behind it.  Several fields share a word of the header, so a word  *)
(* is the set of its bits that are one (numbered as on the wire), a field  *)
(* is a word and a mask, and a value is a set of bits of the mask.  Behind *)
(* the header a payload has data bytes; capture module and interface       *)
(* payloads keep several strings there, found by the lengths in front of   *)
(* them.                                                                   *)
(***************************************************************************)
EXTENDS Integers, Sequences

CONSTANT ByteMod        \* 2^8: a byte of a length field

ASSUME ByteModAssumption == ByteMod \in Nat \ {0, 1}

CanTypes == {"can", "canFd"}
DataTypes == CanTypes \cup {"lin", "ethernet", "analog"}
StatusTypes == {"cmStatMsg", "ifStatMsg"}
AllTypes == DataTypes \cup StatusTypes

Whole(w, bits) == [word |-> w, mask |-> 0 .. bits - 1]
Bits(w, m) == [word |-> w, mask |-> m]

(***************************************************************************)
(* The headers.  "flags" of an analog payload shares its word with the     *)
(* sample type: setFlags writes both.                                      *)
(***************************************************************************)
CanFields ==
    [flags |-> Whole("flags", 16), id |-> Bits("id", 0 .. 28),
     rsvd |-> Bits("id", {29}), rtrRrs |-> Bits("id", {30}),
     ide |-> Bits("id", {31}), crc |-> Bits("crc", 0 .. 14),
     crcSupport |-> Bits("crc", {31}), errorPosition |-> Whole("errorPosition", 16)]
CanFdFields ==
    [flags |-> Whole("flags", 16), id |-> Bits("id", 0 .. 28),
     rsvd |-> Bits("id", {29}), rtrRrs |-> Bits("id", {30}),
     ide |-> Bits("id", {31}), crc |-> Bits("crc", 0 .. 20),
     sbc |-> Bits("crc", 21 .. 23), sbcParity |-> Bits("crc", {24}),
     sbcSupport |-> Bits("crc", {30}), crcSupport |-> Bits("crc", {31}),
     errorPosition |-> Whole("errorPosition", 16)]
LinFields ==
    [flags |-> Whole("flags", 16), linId |-> Bits("pid", 0 .. 5),
     parityBits |-> Bits("pid", {6, 7}), checksum |-> Whole("checksum", 8)]
EthernetFields == [flags |-> Whole("flags", 16)]
AnalogFields ==
    [flags |-> Bits("flags", 2 .. 15), sampleDt |-> Bits("flags", {0, 1}),
     unit |-> Whole("unit", 8), sampleInterval |-> Whole("sampleInterval", 32),
     sampleOffset |-> Whole("sampleOffset", 32),
     sampleScalar |-> Whole("sampleScalar", 32)]
CaptureModuleFields ==
    [uptime |-> Whole("uptime", 64), gmIdentity |-> Whole("gmIdentity", 64),
     gmClockQuality |-> Whole("gmClockQuality", 32),
     currentUtcOffset |-> Whole("currentUtcOffset", 16),
     timeSource |-> Whole("timeSource", 8), domainNumber |-> Whole("domainNumber", 8),
     gPtpFlags |-> Whole("gPtpFlags", 8)]
InterfaceFields ==
    [interfaceId |-> Whole("interfaceId", 32), msgTotalRx |-> Whole("msgTotalRx", 32),
     msgTotalTx |-> Whole("msgTotalTx", 32), msgDroppedRx |-> Whole("msgDroppedRx", 32),
     msgDroppedTx |-> Whole("msgDroppedTx", 32),
     errorsTotalRx |-> Whole("errorsTotalRx", 32),
     errorsTotalTx |-> Whole("errorsTotalTx", 32),
     interfaceType |-> Whole("interfaceType", 8),
     interfaceStatus |-> Whole("interfaceStatus", 8),
     featureSupportBitmask |-> Whole("featureSupportBitmask", 32)]

FieldsOf ==
    [can |-> CanFields, canFd |-> CanFdFields, lin |-> LinFields,
     ethernet |-> EthernetFields, analog |-> AnalogFields,
     cmStatMsg |-> CaptureModuleFields, ifStatMsg |-> InterfaceFields,
     invalid |-> [none |-> Whole("none", 0)]]
Fields(t) == DOMAIN FieldsOf[t]
WordsOf(t) == {FieldsOf[t][f].word : f \in Fields(t)}

Byte == 0 .. ByteMod - 1
-----------------------------------------------------------------------------
Zeros(n) == [i \in 1 .. n |-> 0]

\* std::vector::resize, and memcpy of s to position pos (from 0).
Resized(b, n) == [i \in 1 .. n |-> IF i <= Len(b) THEN b[i] ELSE 0]
Copied(b, pos, s) ==
    [i \in DOMAIN b |-> IF i \in pos + 1 .. pos + Len(s) THEN s[i - pos] ELSE b[i]]

\* A uint16_t in network order, and reading one at a position.
Uint16Mod == ByteMod * ByteMod
Uint16(n) == <<(n % Uint16Mod) \div ByteMod, n % ByteMod>>
Uint16At(b, pos) == b[pos + 1] * ByteMod + b[pos + 2]

\* A default-constructed payload: the status classes hold empty lengths.
NewPayload(t) ==
    [type |-> t, word |-> [w \in WordsOf(t) |-> {}], dataLength |-> 0, dlc |-> 0,
     body |-> CASE t = "cmStatMsg" -> Zeros(10)
                [] t = "ifStatMsg" -> Zeros(4)
                [] OTHER -> <<>>]

Get(p, f) == p.word[FieldsOf[p.type][f].word] \cap FieldsOf[p.type][f].mask

\* Mutant of WithBits: the rest of the word is lost.
WithBitsOnly(p, f, v) == [p EXCEPT !.word[FieldsOf[p.type][f].word] = v]

\* The mask is cleared and the value put in its place.
WithBits(p, f, v) ==
    [p EXCEPT !.word[FieldsOf[p.type][f].word] =
                  (@ \ FieldsOf[p.type][f].mask) \cup v]
-----------------------------------------------------------------------------
\* Mutant of encodeDlc: lengths above 8 have no code of their own.
encodeDlcRaw(n) == n

\* CAN's code for a data length; 0 for a length CAN FD does not have.
encodeDlc(n) ==
    IF n <= 8 THEN n
    ELSE CASE n = 12 -> 9 [] n = 16 -> 10 [] n = 20 -> 11 [] n = 24 -> 12
           [] n = 32 -> 13 [] n = 48 -> 14 [] n = 64 -> 15 [] OTHER -> 0

\* setData of the classes that carry bus data.
WithData(p, data) ==
    [p EXCEPT !.body = Copied(Resized(@, Len(data)), 0, data),
              !.dataLength = IF p.type = "analog" THEN @ ELSE Len(data),
              !.dlc = IF p.type \in CanTypes THEN encodeDlc(Len(data)) ELSE @]

\* InterfacePayload::setData.  The padding byte keeps what was there.
InterfaceBody(b, streamIds, vendorData) ==
    LET padding == Len(streamIds) % 2
        vendorPos == 2 + Len(streamIds) + padding
        resized == Resized(b, vendorPos + 2 + Len(vendorData))
    IN  Copied(Copied(resized, 0, Uint16(Len(streamIds)) \o streamIds),
               vendorPos, Uint16(Len(vendorData)) \o vendorData)

\* Mutant of FillWithString: the length written is the string's own.
FillWithStringShort(s) ==
    LET length == (Len(s) + 1) + ((Len(s) + 1) % 2)
    IN  Uint16(Len(s)) \o s \o Zeros(length - Len(s))

\* A string, a NUL and a second one if that makes the length even.
FillWithString(s) ==
    LET length == (Len(s) + 1) + ((Len(s) + 1) % 2)
    IN  Uint16(length) \o s \o Zeros(length - Len(s))

CaptureModuleBody(description, serial, hardware, software, vendorData) ==
    FillWithString(description) \o FillWithString(serial)
        \o FillWithString(hardware) \o FillWithString(software)
        \o Uint16(Len(vendorData)) \o vendorData
-----------------------------------------------------------------------------
\* Where the vendor data of an interface payload begins; "++count" wraps.
VendorDataLengthPos(b) ==
    LET count == Uint16At(b, 0)
    IN  2 + ((count + (count % 2)) % Uint16Mod)

StreamIds(b) == SubSeq(b, 3, 2 + Uint16At(b, 0))
InterfaceVendorData(b) ==
    LET pos == VendorDataLengthPos(b)
    IN  SubSeq(b, pos + 3, pos + 2 + Uint16At(b, pos))

\* initStringView, k times from the end of the header: the k-th string.
StringView(b, k) ==
    LET at[i \in 1 .. k] == IF i = 1 THEN 0
                            ELSE at[i - 1] + 2 + Uint16At(b, at[i - 1])
    IN  SubSeq(b, at[k] + 3, at[k] + 2 + Uint16At(b, at[k]))

RemoveTrailingNulls(s) ==
    LET nulls == {i \in DOMAIN s : s[i] = 0}
    IN  IF nulls = {} THEN s
        ELSE SubSeq(s, 1, (CHOOSE i \in nulls : \A j \in nulls : i <= j) - 1)

\* Mutant of SampleSize: the sizes of int16_t and int32_t are confused.
SampleSizeSwapped(p) == IF Get(p, "sampleDt") = {} THEN 4 ELSE 2

\* Samples of an analog payload: int16_t, or four bytes for every other type.
SampleSize(p) == IF Get(p, "sampleDt") = {} THEN 2 ELSE 4
SamplesCount(p) == Len(p.body) \div SampleSize(p)

\* Everything the getters of the class return of the bytes behind the header.
\* Of analog data that is the samples counted; getData is null if there are none.
Contents(p) ==
    CASE p.type = "analog" -> <<SubSeq(p.body, 1, SamplesCount(p) * SampleSize(p))>>
      [] p.type \in DataTypes \ {"analog"} -> <<SubSeq(p.body, 1, p.dataLength)>>
      [] p.type = "ifStatMsg" -> <<StreamIds(p.body), InterfaceVendorData(p.body)>>
      [] p.type = "cmStatMsg" ->
             [k \in 1 .. 5 |-> IF k = 5 THEN StringView(p.body, k)
                               ELSE RemoveTrailingNulls(StringView(p.body, k))]
      [] OTHER -> <<>>
=============================================================================
