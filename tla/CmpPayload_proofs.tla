-------------------------- MODULE CmpPayload_proofs --------------------------
(***************************************************************************)
(* That the setters of the payload classes keep out of each other's bits,  *)
(* for any arguments and any data.  The tables of masks are looked at once *)
(* (TablesApart and the lemmas on single fields); every operation is then  *)
(* a word written, a body written or a new payload, and the rest goes by   *)
(* these three.                                                            *)
(***************************************************************************)
EXTENDS CmpPayloadProps, PayloadLayout_proofs

\* Clearing a flag of the crc word writes bits of the id word.
LEMMA CrcField ==
    ASSUME NEW t \in AllTypes, NEW f \in Fields(t), CopiesId(t, f)
    PROVE  {"id", "crc"} \subseteq WordsOf(t)
<1>1. CASE t = "can"
  <2>1. FieldsOf[t] = CanFields
    BY <1>1 DEF FieldsOf
  <2>2. /\ {"id", "crc"} \subseteq Fields(t)
        /\ FieldsOf[t]["id"].word = "id" /\ FieldsOf[t]["crc"].word = "crc"
    BY <1>1, <2>1 DEF Fields, CanFields, Bits
  <2> QED
    BY <2>2 DEF WordsOf
<1>2. CASE t = "canFd"
  <2>1. FieldsOf[t] = CanFdFields
    BY <1>2 DEF FieldsOf
  <2>2. /\ {"id", "crc"} \subseteq Fields(t)
        /\ FieldsOf[t]["id"].word = "id" /\ FieldsOf[t]["crc"].word = "crc"
    BY <1>2, <2>1 DEF Fields, CanFdFields, Bits
  <2> QED
    BY <2>2 DEF WordsOf
<1> QED
  BY <1>1, <1>2 DEF CopiesId, CanTypes
-----------------------------------------------------------------------------
\* What every operation comes down to: a word is written, the body is written,
\* or there is another payload with only a body.
WritesWord(w, s) ==
    /\ w \in WordsOf(payload.type)
    /\ s \in SUBSET (0 .. 63)
    /\ w = "errorPosition" => s \subseteq 0 .. 15
    /\ payload' = [payload EXCEPT !.word[w] = s]

WritesBody(b, n, code) ==
    /\ b \in Seq(Byte) /\ n \in 0 .. Len(b) /\ code \in 0 .. 15
    /\ payload.type \notin DataTypes \ {"analog"} => n = 0
    /\ payload' = [payload EXCEPT !.body = b, !.dataLength = n, !.dlc = code]

Becomes(t, b) ==
    /\ t \in Types \cup {"invalid"} /\ b \in Seq(Byte)
    /\ payload' = [NewPayload(t) EXCEPT !.body = b]

\* A class without a data length of its own leaves it at 0, and an error position
\* never has bits outside of its field.
IInv ==
    /\ TypeOK
    /\ payload = [x \in DOMAIN payload |-> payload[x]]
    /\ payload.dataLength <= Len(payload.body)
    /\ payload.type \notin DataTypes \ {"analog"} => payload.dataLength = 0
    /\ payload.type \in CanTypes => payload.word["errorPosition"] \subseteq 0 .. 15

LEMMA WritesWordKeeps ==
    ASSUME IInv, NEW w, NEW s, WritesWord(w, s)
    PROVE  /\ IInv'
           /\ payload'.type = payload.type
           /\ payload'.word[w] = s
           /\ \A x \in WordsOf(payload.type) \ {w} : payload'.word[x] = payload.word[x]
           /\ payload'.body = payload.body /\ payload'.dataLength = payload.dataLength
<1> DEFINE g == [payload.word EXCEPT ![w] = s]
           q == [payload EXCEPT !["word"] = g]
<1>1. payload' = q
  BY DEF WritesWord
<1>2. /\ g \in [WordsOf(payload.type) -> SUBSET (0 .. 63)] /\ g[w] = s
      /\ \A x \in WordsOf(payload.type) \ {w} : g[x] = payload.word[x]
  BY DEF WritesWord, IInv, TypeOK
<1>3. payload.type \in CanTypes => g["errorPosition"] \subseteq 0 .. 15
  <2>1. payload.type \in CanTypes => "errorPosition" \in WordsOf(payload.type)
    BY ErrorPositionField DEF Word, WordsOf
  <2> QED
    BY <1>2, <2>1 DEF WritesWord, IInv
<1> HIDE DEF g
<1>4. /\ DOMAIN q = DOMAIN payload /\ q = [x \in DOMAIN q |-> q[x]]
      /\ q.type = payload.type /\ q.word = g /\ q.dataLength = payload.dataLength
      /\ q.dlc = payload.dlc /\ q.body = payload.body
  BY DEF IInv, TypeOK
<1> HIDE DEF q
<1> QED
  BY <1>1, <1>2, <1>3, <1>4 DEF IInv, TypeOK

LEMMA WritesBodyKeeps ==
    ASSUME IInv, NEW b, NEW n, NEW code, WritesBody(b, n, code)
    PROVE  IInv' /\ payload'.type = payload.type /\ payload'.word = payload.word
<1>1. /\ DOMAIN payload' = DOMAIN payload /\ payload' = [x \in DOMAIN payload' |-> payload'[x]]
      /\ payload'.type = payload.type /\ payload'.word = payload.word
      /\ payload'.dataLength = n /\ payload'.dlc = code /\ payload'.body = b
  BY DEF WritesBody, IInv, TypeOK
<1>2. n \in Nat /\ n <= Len(b)
  BY DEF WritesBody
<1> QED
  BY <1>1, <1>2 DEF WritesBody, IInv, TypeOK

LEMMA NewPayloadIs ==
    ASSUME NEW t
    PROVE  /\ DOMAIN NewPayload(t) = {"type", "word", "dataLength", "dlc", "body"}
           /\ NewPayload(t) = [x \in DOMAIN NewPayload(t) |-> NewPayload(t)[x]]
           /\ NewPayload(t).type = t
           /\ NewPayload(t).word = [w \in WordsOf(t) |-> {}]
           /\ NewPayload(t).dataLength = 0 /\ NewPayload(t).dlc = 0
           /\ NewPayload(t).body \in Seq(Byte)
<1>1. Zeros(10) \in Seq(Byte) /\ Zeros(4) \in Seq(Byte) /\ <<>> \in Seq(Byte)
  BY ZerosIs
<1>2. NewPayload(t).body \in {Zeros(10), Zeros(4), <<>>}
  BY DEF NewPayload
<1> QED
  BY <1>1, <1>2 DEF NewPayload

LEMMA BecomesKeeps ==
    ASSUME NEW t, NEW b, Becomes(t, b)
    PROVE  /\ IInv' /\ payload'.type = t
           /\ payload'.word = [w \in WordsOf(t) |-> {}]
<1> DEFINE p == NewPayload(t)
<1> HIDE DEF p
<1>0. /\ DOMAIN p = {"type", "word", "dataLength", "dlc", "body"}
      /\ p = [x \in DOMAIN p |-> p[x]]
      /\ p.type = t /\ p.word = [w \in WordsOf(t) |-> {}]
      /\ p.dataLength = 0 /\ p.dlc = 0
  BY NewPayloadIs DEF p
<1>1. payload' = [p EXCEPT !.body = b]
  BY DEF Becomes, p
<1>2. /\ DOMAIN payload' = DOMAIN p /\ payload' = [x \in DOMAIN payload' |-> payload'[x]]
      /\ payload'.type = t /\ payload'.word = [w \in WordsOf(t) |-> {}]
      /\ payload'.dataLength = 0 /\ payload'.dlc = 0 /\ payload'.body = b
  BY <1>0, <1>1
<1>3. t \in CanTypes => "errorPosition" \in WordsOf(t)
  BY ErrorPositionField DEF Word, WordsOf
<1>4. payload'.word \in [WordsOf(t) -> SUBSET (0 .. 63)]
  BY <1>2
<1>5. t \in CanTypes => payload'.word["errorPosition"] = {}
  BY <1>2, <1>3
<1>6. b \in Seq(Byte) /\ t \in Types \cup {"invalid"} /\ 0 <= Len(b)
  BY DEF Becomes
<1>7. TypeOK'
  BY <1>0, <1>2, <1>4, <1>6 DEF TypeOK
<1>8. IInv'
  BY <1>2, <1>5, <1>6, <1>7 DEF IInv
<1> QED
  BY <1>2, <1>8

\* Where no setter copies the id word: no flag of a crc word is cleared, or the
\* class has none.
Honest == ~ ClearCrcFlags \/ payload.type \notin CanTypes

\* Each operation is one of the three.
LEMMA SetFieldWrites ==
    ASSUME IInv, NEW f \in Fields(payload.type), payload.type \in Types,
           NEW v \in Values[payload.type][f], SetField(f, v)
    PROVE  LET t == payload.type
               new == (payload.word[Word(t, f)] \ Mask(t, f)) \cup v
           IN  /\ v \subseteq Mask(t, f)
               /\ \E w, s : WritesWord(w, s)
               /\ Honest => WritesWord(Word(t, f), new)
<1> DEFINE t == payload.type
           w == Word(t, f)
           new == (payload.word[w] \ Mask(t, f)) \cup v
<1>1. t \in AllTypes /\ v \subseteq Mask(t, f)
  BY TypesAssumption, ValuesAssumption DEF Mask
<1>2. w \in WordsOf(t) /\ Mask(t, f) \subseteq 0 .. 63
  BY <1>1, FieldsApart DEF Apart, Fields, Mask
<1>3. payload.word \in [WordsOf(t) -> SUBSET (0 .. 63)]
  BY DEF IInv, TypeOK
<1>4. w = "errorPosition" => new \subseteq 0 .. 15
  <2> SUFFICES ASSUME w = "errorPosition" PROVE new \subseteq 0 .. 15
    OBVIOUS
  <2>1. t \in CanTypes
    <3>1. FieldsOf[t][f].word = "errorPosition" /\ f \in DOMAIN FieldsOf[t]
      BY DEF Word, Fields
    <3>2. CASE t \in {"lin", "ethernet", "analog"}
      BY <3>1, <3>2 DEF FieldsOf, LinFields, EthernetFields, AnalogFields, Whole, Bits
    <3>3. CASE t \in StatusTypes
      BY <3>1, <3>3 DEF FieldsOf, StatusTypes, CaptureModuleFields, InterfaceFields, Whole
    <3> QED
      BY <1>1, <3>2, <3>3 DEF AllTypes, DataTypes
  <2>2. Mask(t, f) = 0 .. 15 /\ payload.word["errorPosition"] \subseteq 0 .. 15
    BY <2>1, ErrorPositionField DEF IInv
  <2> QED
    BY <1>1, <2>2
<1>5. payload' = WithBits(payload, f, v) => WritesWord(w, new)
  BY <1>1, <1>2, <1>3, <1>4 DEF WithBits, WritesWord, Word, Mask
<1>6. CASE v = {} /\ CopiesId(t, f)
  <2> DEFINE s == payload.word["id"] \ Mask(t, f)
  <2>1. "id" \in WordsOf(t) /\ "crc" \in WordsOf(t)
    BY <1>1, <1>6, CrcField
  <2>2. s \in SUBSET (0 .. 63)
    BY <1>3, <2>1
  <2>3. payload' = [payload EXCEPT !.word["crc"] = s]
    BY <1>6 DEF SetField, WithFlagCleared, Mask
  <2>4. WritesWord("crc", s)
    BY <2>1, <2>2, <2>3 DEF WritesWord
  <2> QED
    BY <1>1, <1>6, <2>4 DEF SetField, Honest, CopiesId
<1>7. CASE v = {} /\ ~ CopiesId(t, f)
  BY <1>1, <1>5, <1>7 DEF SetField, WithFlagCleared
<1>8. CASE v # {}
  BY <1>1, <1>5, <1>8 DEF SetField
<1> QED
  BY <1>6, <1>7, <1>8

\* The words of flags, which have their own setters.
LEMMA SetFlagsWrites ==
    ASSUME IInv, NEW v \in SUBSET (0 .. 15), SetFlags(v)
    PROVE  WritesWord("flags", v)
<1>1. "flags" \in WordsOf(payload.type)
  BY FlagsField DEF SetFlags, Word, WordsOf
<1> QED
  BY <1>1 DEF SetFlags, WritesWord

LEMMA SetFlagWrites ==
    ASSUME IInv, NEW bit \in 0 .. 15, NEW value \in BOOLEAN, SetFlag(bit, value)
    PROVE  WritesWord("flags", IF value THEN payload.word["flags"] \cup {bit}
                                        ELSE payload.word["flags"] \ {bit})
<1>1. "flags" \in WordsOf(payload.type)
  BY FlagsField DEF SetFlag, Word, WordsOf
<1>2. payload.word["flags"] \in SUBSET (0 .. 63)
  BY <1>1 DEF IInv, TypeOK
<1> QED
  BY <1>1, <1>2 DEF SetFlag, WritesWord

BodyWritten == \E b, n, code : WritesBody(b, n, code)

LEMMA SetDataWrites ==
    ASSUME IInv, NEW data \in CanData, SetData(data)
    PROVE  BodyWritten
<1> DEFINE b == Copied(Resized(payload.body, Len(data)), 0, data)
           n == IF payload.type = "analog" THEN payload.dataLength ELSE Len(data)
           code == IF payload.type \in CanTypes THEN encodeDlc(Len(data)) ELSE payload.dlc
           r == Resized(payload.body, Len(data))
<1>1. data \in Seq(Byte) /\ payload.body \in Seq(Byte)
  BY DataAssumption DEF IInv, TypeOK
<1>2. r \in Seq(Byte) /\ Len(r) = Len(data)
  <2>1. Len(data) \in Nat
    BY <1>1
  <2> QED
    BY <1>1, <2>1, ResizedIs
<1>3. b \in Seq(Byte) /\ Len(b) = Len(data)
  <2> HIDE DEF r
  <2>1. Copied(r, 0, data) \in Seq(Byte) /\ Len(Copied(r, 0, data)) = Len(r)
    BY <1>1, <1>2, CopiedIs
  <2> QED
    BY <1>2, <2>1 DEF r
<1>4. encodeDlc(Len(data)) \in 0 .. 15
  <2> DEFINE k == Len(data)
  <2>1. k \in Nat
    BY <1>1
  <2> HIDE DEF k
  <2>2. encodeDlc(k) \in 0 .. 15
    BY <2>1 DEF encodeDlc
  <2> QED
    BY <2>2 DEF k
<1>5. code \in 0 .. 15
  BY <1>4 DEF IInv, TypeOK
<1>6. payload' = [payload EXCEPT !.body = b, !.dataLength = n, !.dlc = code]
  BY DEF SetData, WithData
<1>7. n \in 0 .. Len(b)
  BY <1>1, <1>3 DEF IInv, TypeOK
<1>8. payload.type \notin DataTypes \ {"analog"} => n = 0
  BY DEF SetData, IInv
<1> HIDE DEF b, n, code
<1> QED
  BY <1>3, <1>5, <1>6, <1>7, <1>8 DEF WritesBody, BodyWritten

\* The status classes leave the two lengths at 0.
LEMMA BodyAloneWrites ==
    ASSUME IInv, NEW b \in Seq(Byte), payload.type \in StatusTypes,
           payload' = [payload EXCEPT !.body = b]
    PROVE  BodyWritten
<1>1. payload.dataLength = 0 /\ payload.dlc \in 0 .. 15
  BY DEF IInv, TypeOK, StatusTypes, DataTypes, CanTypes
<1>2. payload' = [payload EXCEPT !.body = b, !.dataLength = payload.dataLength,
                                 !.dlc = payload.dlc]
  BY DEF IInv, TypeOK
<1>3. payload.dataLength \in 0 .. Len(b)
  BY <1>1
<1>4. WritesBody(b, payload.dataLength, payload.dlc)
  BY <1>1, <1>2, <1>3 DEF WritesBody
<1> QED
  BY <1>4 DEF BodyWritten

LEMMA SetStatusDataWrites ==
    ASSUME IInv, NEW vendor \in Lists
    PROVE  /\ \A ids \in Lists : SetInterfaceData(ids, vendor) => BodyWritten
           /\ \A d, s, h, w \in Strings :
                SetCaptureModuleData(d, s, h, w, vendor) => BodyWritten
<1>1. vendor \in Seq(Byte) /\ payload.body \in Seq(Byte)
  BY DataAssumption DEF IInv, TypeOK
<1>2. ASSUME NEW ids \in Lists, SetInterfaceData(ids, vendor) PROVE BodyWritten
  <2>1. InterfaceBody(payload.body, ids, vendor) \in Seq(Byte)
    BY <1>1, InterfaceBodyType, DataAssumption
  <2> QED
    BY <1>2, <2>1, BodyAloneWrites DEF SetInterfaceData, StatusTypes
<1>3. ASSUME NEW d \in Strings, NEW s \in Strings, NEW h \in Strings, NEW w \in Strings,
             SetCaptureModuleData(d, s, h, w, vendor)
      PROVE  BodyWritten
  <2>1. CaptureModuleBody(d, s, h, w, vendor) \in Seq(Byte)
    BY <1>1, CaptureModuleBodyType, DataAssumption
  <2> QED
    BY <1>3, <2>1, BodyAloneWrites DEF SetCaptureModuleData, StatusTypes
<1> QED
  BY <1>2, <1>3

LEMMA ReceiveIs ==
    ASSUME IInv, Receive
    PROVE  payload' = payload \/ \E b : Becomes("invalid", b)
<1>1. Zeros(Len(payload.body)) \in Seq(Byte)
  BY ZerosIs DEF IInv, TypeOK
<1> QED
  BY <1>1 DEF Receive, Create, Becomes

LEMMA ConstructIs ==
    ASSUME NEW t \in Types, Construct(t)
    PROVE  \E b : Becomes(t, b)
<1> DEFINE p == NewPayload(t)
<1>1. p = [x \in DOMAIN p |-> p[x]] /\ p.body \in Seq(Byte) /\ "body" \in DOMAIN p
  BY NewPayloadIs
<1>2. payload' = p
  BY DEF Construct
<1> HIDE DEF p
<1>3. p = [p EXCEPT !.body = p.body]
  BY <1>1
<1> QED
  BY <1>1, <1>2, <1>3 DEF Becomes, p

LEMMA IInvInvariant == PSpec => []IInv
<1>1. PInit => IInv
  <2> SUFFICES ASSUME NEW t \in Types, payload = NewPayload(t) PROVE IInv
    BY DEF PInit, Init
  <2>1. t \in CanTypes => "errorPosition" \in WordsOf(t)
    BY ErrorPositionField DEF Word, WordsOf
  <2> DEFINE p == NewPayload(t)
  <2>2. /\ DOMAIN p = {"type", "word", "dataLength", "dlc", "body"}
        /\ p = [x \in DOMAIN p |-> p[x]]
        /\ p.type = t /\ p.word = [w \in WordsOf(t) |-> {}]
        /\ p.dataLength = 0 /\ p.dlc = 0 /\ p.body \in Seq(Byte)
    BY NewPayloadIs
  <2>3. p.word \in [WordsOf(t) -> SUBSET (0 .. 63)]
    BY <2>2
  <2>4. t \in CanTypes => p.word["errorPosition"] = {}
    BY <2>1, <2>2
  <2>5. payload = p
    OBVIOUS
  <2>6. 0 <= Len(p.body) /\ p.dataLength \in Nat /\ p.dlc \in 0 .. 15
    BY <2>2
  <2> HIDE DEF p
  <2>7. TypeOK
    BY <2>2, <2>3, <2>5, <2>6 DEF TypeOK
  <2> QED
    BY <2>2, <2>4, <2>5, <2>6, <2>7 DEF IInv
<1>2. IInv /\ [PNext]_pvars => IInv'
  <2> SUFFICES ASSUME IInv, [PNext]_pvars PROVE IInv'
    OBVIOUS
  <2>0. (\E w, s : WritesWord(w, s)) \/ BodyWritten => IInv'
    BY WritesWordKeeps, WritesBodyKeeps DEF BodyWritten
  <2>1. CASE UNCHANGED pvars
    BY <2>1 DEF pvars, IInv, TypeOK
  <2>2. CASE payload.type # "invalid" /\ PSetHeader
    <3>0. payload.type \in Types
      BY <2>2 DEF IInv, TypeOK
    <3>1. ASSUME NEW f \in Fields(payload.type), NEW v \in Values[payload.type][f],
                 SetField(f, v)
          PROVE  IInv'
      BY <2>0, <3>0, <3>1, SetFieldWrites
    <3>2. ASSUME NEW v \in FlagValues, SetFlags(v) PROVE IInv'
      BY <2>0, <3>2, SetFlagsWrites, FlagValuesAssumption
    <3>3. ASSUME NEW bit \in UNION FlagValues, NEW value \in BOOLEAN, SetFlag(bit, value)
          PROVE  IInv'
      <4>1. bit \in 0 .. 15
        BY FlagValuesAssumption
      <4> QED
        BY <2>0, <3>3, <4>1, SetFlagWrites
    <3> QED
      BY <2>2, <3>1, <3>2, <3>3 DEF PSetHeader, GiveField, GiveFlags, GiveFlag
  <2>3. CASE PSetBody
    BY <2>0, <2>3, SetDataWrites, SetStatusDataWrites DEF PSetBody
  <2>4. CASE PReceive
    <3>1. payload' = payload => IInv'
      BY DEF IInv, TypeOK
    <3> QED
      BY <2>4, <3>1, ReceiveIs, BecomesKeeps DEF PReceive
  <2>5. ASSUME NEW t \in Types, Construct(t) PROVE IInv'
    BY <2>5, ConstructIs, BecomesKeeps
  <2> QED
    BY <2>1, <2>2, <2>3, <2>4, <2>5 DEF PNext
<1> QED
  BY <1>1, <1>2, PTL DEF PSpec

\* The payload of every class stays well formed, whatever its setters are given
\* and whatever data replaces other data (capture_module_payload.cpp:227-304,
\* interface_payload.cpp:215-295, can_payload_base.cpp:28-158).
THEOREM TypeCorrect == PSpec => []TypeOK
BY IInvInvariant, PTL DEF IInv
-----------------------------------------------------------------------------
\* What was given has a value for each field, and is what is read.
PInv ==
    /\ DOMAIN given = {"fields", "parts"}
    /\ given = [x \in DOMAIN given |-> given[x]]
    /\ given.fields = [f \in Fields(payload.type) |-> given.fields[f]]
    /\ Honest => FieldsReadBack

\* What the getters read after a word was written.
LEMMA WordReads ==
    ASSUME IInv, NEW w, NEW s, WritesWord(w, s), NEW f \in Fields(payload.type)
    PROVE  Get(payload', f) = IF Word(payload.type, f) = w
                                  THEN s \cap Mask(payload.type, f)
                                  ELSE Get(payload, f)
<1>1. Word(payload.type, f) \in WordsOf(payload.type)
  BY DEF Word, WordsOf
<1> QED
  BY <1>1, WritesWordKeeps DEF Get, Word, Mask

\* Other fields are given, and the parts are left alone.
GivesFields(fields) == given' = [given EXCEPT !.fields = fields]

LEMMA GivesKeeps ==
    ASSUME PInv, NEW fields, GivesFields(fields), payload'.type = payload.type,
           fields = [f \in Fields(payload.type) |-> fields[f]],
           Honest => \A f \in Fields(payload.type) : Get(payload', f) = fields[f]
    PROVE  PInv'
<1>1. /\ DOMAIN given' = DOMAIN given /\ given' = [x \in DOMAIN given' |-> given'[x]]
      /\ given'.fields = fields
  BY DEF GivesFields, PInv
<1> QED
  BY <1>1 DEF PInv, Honest, FieldsReadBack

LEMMA FieldStep ==
    ASSUME IInv, PInv, payload.type \in Types,
           NEW f \in Fields(payload.type), NEW v \in Values[payload.type][f], GiveField(f, v)
    PROVE  PInv'
<1> DEFINE t == payload.type
           w == Word(t, f)
           new == (payload.word[w] \ Mask(t, f)) \cup v
           fields == [given.fields EXCEPT ![f] = v]
<1>1. /\ v \subseteq Mask(t, f)
      /\ \E x, s : WritesWord(x, s)
      /\ Honest => WritesWord(w, new)
  BY SetFieldWrites DEF GiveField
<1>2. fields = [g \in Fields(t) |-> fields[g]] /\ fields[f] = v
      /\ \A g \in Fields(t) \ {f} : fields[g] = given.fields[g]
  BY DEF PInv
<1>3. GivesFields(fields)
  BY DEF GiveField, GivesFields
<1>4. ASSUME Honest, NEW g \in Fields(t) PROVE Get(payload', g) = fields[g]
  <2>1. Get(payload', g) = IF Word(t, g) = w THEN new \cap Mask(t, g) ELSE Get(payload, g)
    BY <1>1, <1>4, WordReads
  <2>2. Get(payload, g) = payload.word[Word(t, g)] \cap Mask(t, g)
    BY DEF Get, Word, Mask
  <2>3. g # f /\ Word(t, g) = w => Mask(t, f) \cap Mask(t, g) = {}
    BY TypesAssumption, FieldsApart DEF Apart, Fields, Word, Mask
  <2>4. Get(payload, g) = given.fields[g]
    BY <1>4 DEF PInv, FieldsReadBack
  <2>5. CASE g = f
    BY <1>1, <1>2, <2>1, <2>5
  <2>6. CASE g # f /\ Word(t, g) = w
    <3>1. new \cap Mask(t, g) = payload.word[w] \cap Mask(t, g)
      BY <1>1, <2>3, <2>6
    <3> QED
      BY <1>2, <2>1, <2>2, <2>4, <2>6, <3>1
  <2>7. CASE Word(t, g) # w
    BY <1>2, <2>1, <2>4, <2>7
  <2> QED
    BY <2>5, <2>6, <2>7
<1>5. payload'.type = t
  BY <1>1, WritesWordKeeps
<1> HIDE DEF fields
<1> QED
  BY <1>2, <1>3, <1>4, <1>5, GivesKeeps

LEMMA FlagsStep ==
    ASSUME IInv, PInv, NEW v \in SUBSET (0 .. 15), GiveFlags(v)
    PROVE  PInv'
<1> DEFINE t == payload.type
           fields == [f \in Fields(t) |-> IF Word(t, f) = "flags" THEN v \cap Mask(t, f)
                                                                  ELSE given.fields[f]]
<1>1. WritesWord("flags", v)
  BY SetFlagsWrites DEF GiveFlags
<1>2. GivesFields(fields)
  <2>1. DOMAIN given.fields = Fields(t)
    BY DEF PInv
  <2> QED
    BY <2>1 DEF GiveFlags, GivesFields, Word, Mask
<1>3. ASSUME Honest, NEW f \in Fields(t) PROVE Get(payload', f) = fields[f]
  BY <1>1, <1>3, WordReads DEF PInv, FieldsReadBack
<1>4. payload'.type = t
  BY <1>1, WritesWordKeeps
<1>5. fields = [f \in Fields(t) |-> fields[f]]
  OBVIOUS
<1> HIDE DEF fields
<1> QED
  BY <1>2, <1>3, <1>4, <1>5, GivesKeeps

LEMMA FlagStep ==
    ASSUME IInv, PInv, NEW bit \in 0 .. 15, NEW value \in BOOLEAN, GiveFlag(bit, value)
    PROVE  PInv'
<1> DEFINE t == payload.type
           With(flags) == IF value THEN flags \cup {bit} ELSE flags \ {bit}
           fields == [given.fields EXCEPT !["flags"] = With(given.fields["flags"])]
<1>1. WritesWord("flags", With(payload.word["flags"]))
  BY SetFlagWrites DEF GiveFlag
<1>2. /\ t \in DataTypes /\ "flags" \in Fields(t)
      /\ Word(t, "flags") = "flags" /\ Mask(t, "flags") = 0 .. 15
      /\ \A f \in Fields(t) \ {"flags"} : Word(t, f) # "flags"
  BY FlagsField DEF GiveFlag, SetFlag
<1>3. /\ fields = [f \in Fields(t) |-> fields[f]]
      /\ fields["flags"] = With(given.fields["flags"])
      /\ \A f \in Fields(t) \ {"flags"} : fields[f] = given.fields[f]
  BY <1>2 DEF PInv
<1>4. GivesFields(fields)
  BY DEF GiveFlag, GivesFields
<1>5. Honest => given.fields["flags"] = payload.word["flags"] \cap (0 .. 15)
  BY <1>2 DEF PInv, FieldsReadBack, Get, Word, Mask
<1>6. Honest => With(payload.word["flags"]) \cap (0 .. 15) = With(given.fields["flags"])
  BY <1>5
<1> HIDE DEF fields, With
<1>7. ASSUME Honest, NEW f \in Fields(t) PROVE Get(payload', f) = fields[f]
  <2>1. Get(payload', f) = IF Word(t, f) = "flags"
                               THEN With(payload.word["flags"]) \cap Mask(t, f)
                               ELSE Get(payload, f)
    BY <1>1, WordReads
  <2>2. CASE f = "flags"
    BY <1>2, <1>3, <1>6, <1>7, <2>1, <2>2
  <2>3. CASE f # "flags"
    BY <1>2, <1>3, <1>7, <2>1, <2>3 DEF PInv, FieldsReadBack
  <2> QED
    BY <2>2, <2>3
<1>8. payload'.type = t
  BY <1>1, WritesWordKeeps
<1> QED
  BY <1>3, <1>4, <1>7, <1>8, GivesKeeps

LEMMA PartsStep ==
    ASSUME IInv, PInv, NEW parts, BodyWritten, GiveParts(parts)
    PROVE  PInv'
<1>1. payload'.type = payload.type /\ payload'.word = payload.word
  BY WritesBodyKeeps DEF BodyWritten
<1>2. /\ DOMAIN given' = DOMAIN given /\ given' = [x \in DOMAIN given' |-> given'[x]]
      /\ given'.fields = given.fields
  BY DEF GiveParts, PInv
<1> QED
  BY <1>1, <1>2 DEF PInv, Honest, FieldsReadBack, Get

\* A new payload reads as nothing given.
LEMMA NothingReads ==
    ASSUME NEW t \in Types \cup {"invalid"}, NEW p, NEW n, n = Nothing(t), p.type = t,
           p.word = [w \in WordsOf(t) |-> {}]
    PROVE  /\ DOMAIN n = {"fields", "parts"} /\ n = [x \in DOMAIN n |-> n[x]]
           /\ n.fields = [f \in Fields(t) |-> n.fields[f]]
           /\ \A f \in Fields(t) : Get(p, f) = n.fields[f]
<1>1. \A f \in Fields(t) : FieldsOf[t][f].word \in WordsOf(t)
  BY DEF WordsOf
<1>2. n.fields = [f \in Fields(t) |-> {}]
  BY DEF Nothing
<1> QED
  BY <1>1, <1>2 DEF Nothing, Get

LEMMA PInvInvariant == PSpec => []PInv
<1>1. PInit => PInv
  <2> SUFFICES ASSUME NEW t \in Types, payload = NewPayload(t), given = Nothing(payload.type)
               PROVE  PInv
    BY DEF PInit, Init
  <2>1. payload.type = t /\ payload.word = [w \in WordsOf(t) |-> {}]
    BY NewPayloadIs
  <2> QED
    BY <2>1, NothingReads DEF PInv, FieldsReadBack
<1>2. IInv /\ PInv /\ [PNext]_pvars => PInv'
  <2> SUFFICES ASSUME IInv, PInv, [PNext]_pvars PROVE PInv'
    OBVIOUS
  <2>0. ASSUME NEW t \in Types \cup {"invalid"}, NEW b, Becomes(t, b), given' = Nothing(t)
        PROVE  PInv'
    <3>1. payload'.type = t /\ payload'.word = [w \in WordsOf(t) |-> {}]
      BY <2>0, BecomesKeeps
    <3> QED
      BY <2>0, <3>1, NothingReads DEF PInv, FieldsReadBack
  <2>1. CASE UNCHANGED pvars
    BY <2>1 DEF pvars, PInv, Honest, FieldsReadBack
  <2>2. CASE payload.type # "invalid" /\ PSetHeader
    <3>1. payload.type \in Types
      BY <2>2 DEF IInv, TypeOK
    <3>2. \A bit \in UNION FlagValues : bit \in 0 .. 15
      BY FlagValuesAssumption
    <3> QED
      BY <2>2, <3>1, <3>2, FlagValuesAssumption, FieldStep, FlagsStep, FlagStep
         DEF PSetHeader
  <2>3. CASE PSetBody
    BY <2>3, SetDataWrites, SetStatusDataWrites, PartsStep DEF PSetBody
  <2>4. CASE payload.type # "invalid" /\ PReceive
    <3>1. CASE payload' = payload
      BY <2>4, <3>1 DEF PReceive, PInv, Honest, FieldsReadBack
    <3>2. ASSUME NEW b, Becomes("invalid", b) PROVE PInv'
      <4>1. payload'.type = "invalid"
        BY <3>2, BecomesKeeps
      <4> QED
        BY <2>0, <2>4, <3>2, <4>1 DEF PReceive
    <3> QED
      BY <2>4, <3>1, <3>2, ReceiveIs DEF PReceive
  <2>5. ASSUME NEW t \in Types, Construct(t), given' = Nothing(t) PROVE PInv'
    BY <2>0, <2>5, ConstructIs
  <2> QED
    BY <2>1, <2>2, <2>3, <2>4, <2>5 DEF PNext
<1> QED
  BY <1>1, <1>2, IInvInvariant, PTL DEF PSpec

(***************************************************************************)
(* Every field of every class reads as it was last set, whatever was set   *)
(* since in its word and however often the payload was sent, as long as no *)
(* flag of the crc word is cleared (can_payload_base.cpp:28-158,           *)
(* lin_payload.cpp:28-48).                                                 *)
(***************************************************************************)
THEOREM FieldsStayApart ==
    ASSUME ~ ClearCrcFlags
    PROVE  PSpec => []FieldsReadBack
<1>1. PInv => FieldsReadBack
  BY DEF PInv, Honest
<1> QED
  BY <1>1, PInvInvariant, PTL

(***************************************************************************)
(* The check that a received payload has to pass fails exactly for those   *)
(* that their user has marked as an error, for data of any length          *)
(* (can_payload_base.cpp:259-263, ethernet_payload.cpp:84-88,              *)
(* packet.cpp:280-317).                                                    *)
(***************************************************************************)
THEOREM OnlyErrorsAreLost ==
    ASSUME ~ ClearCrcFlags
    PROVE  PSpec => []SurvivesUnlessError
<1>1. IInv /\ PInv => SurvivesUnlessError
  <2> SUFFICES ASSUME IInv, PInv, payload.type # "invalid"
               PROVE  IsValidPayload(payload) <=> ~ MarkedAsError
    BY DEF SurvivesUnlessError
  <2> DEFINE t == payload.type
             flags == payload.word["flags"]
  <2>1. payload.dataLength <= Len(payload.body)
    BY DEF IInv
  <2>2. \A f \in Fields(t) : given.fields[f] = payload.word[Word(t, f)] \cap Mask(t, f)
    BY DEF PInv, Honest, FieldsReadBack, Get, Word, Mask
  <2>3. t \in DataTypes \ {"analog"} => given.fields["flags"] = flags \cap (0 .. 15)
    BY <2>2, FlagsField
  <2>4. t \in CanTypes => given.fields["errorPosition"] = payload.word["errorPosition"]
    BY <2>2, ErrorPositionField DEF IInv
  <2>5. t = "analog" => given.fields["sampleDt"] = flags \cap {0, 1}
    BY <2>2, FlagsField DEF DataTypes
  <2>6. CASE t \in CanTypes
    <3>1. flags \cap CanErrors = given.fields["flags"] \cap CanErrors
      BY <2>3, <2>6 DEF CanErrors, DataTypes, CanTypes
    <3> QED
      BY <2>1, <2>4, <2>6, <3>1 DEF IsValidPayload, MarkedAsError, CanTypes
  <2>7. CASE t = "ethernet"
    <3>1. flags \cap EthernetErrors = given.fields["flags"] \cap EthernetErrors
      BY <2>3, <2>7 DEF EthernetErrors, DataTypes
    <3> QED
      BY <2>1, <2>7, <3>1 DEF IsValidPayload, MarkedAsError, CanTypes
  <2>8. CASE t = "analog"
    BY <2>5, <2>8 DEF IsValidPayload, MarkedAsError, CanTypes
  <2>9. CASE t \notin CanTypes \cup {"ethernet", "analog"}
    BY <2>9 DEF IsValidPayload, MarkedAsError
  <2> QED
    BY <2>6, <2>7, <2>8, <2>9
<1> QED
  BY <1>1, IInvInvariant, PInvInvariant, PTL
-----------------------------------------------------------------------------
\* The parts a payload holds: of an analog one that is its data as given, of
\* which the getters return the whole samples.
Held(p) == IF p.type = "analog" THEN <<p.body>> ELSE Contents(p)

\* What was given has parts, and they are what the payload holds.
RInv == DOMAIN given = {"fields", "parts"} /\ Held(payload) = given.parts

LEMMA HeldIsContents ==
    ASSUME NEW p, p.type # "analog"
    PROVE  Held(p) = Contents(p)
BY DEF Held

LEMMA HeldOfBytes ==
    ASSUME NEW p, NEW q, q.type = p.type, q.body = p.body, q.dataLength = p.dataLength
    PROVE  Held(q) = Held(p)
<1>1. CASE p.type = "analog"
  BY <1>1 DEF Held
<1>2. CASE p.type # "analog"
  BY <1>2 DEF Held, Contents
<1> QED
  BY <1>1, <1>2

LEMMA DataHeld ==
    ASSUME NEW p, p.type \in DataTypes
    PROVE  Held(p) = <<IF p.type = "analog" THEN p.body ELSE SubSeq(p.body, 1, p.dataLength)>>
<1>1. CASE p.type = "analog"
  BY <1>1 DEF Held
<1>2. CASE p.type # "analog"
  <2>1. p.type \in DataTypes \ {"analog"} /\ p.type \notin {"ifStatMsg", "cmStatMsg"}
    BY <1>2 DEF DataTypes, CanTypes
  <2> QED
    BY <1>2, <2>1 DEF Held, Contents
<1> QED
  BY <1>1, <1>2

LEMMA WordKeepsParts ==
    ASSUME IInv, RInv, NEW w, NEW s, WritesWord(w, s), NEW fields, GivesFields(fields)
    PROVE  RInv'
<1>1. Held(payload') = Held(payload)
  BY WritesWordKeeps, HeldOfBytes
<1>2. DOMAIN given' = DOMAIN given /\ given'.parts = given.parts
  BY DEF GivesFields, RInv
<1> QED
  BY <1>1, <1>2 DEF RInv

LEMMA GivenParts ==
    ASSUME RInv, NEW parts, GiveParts(parts), Held(payload') = parts
    PROVE  RInv'
BY DEF RInv, GiveParts

LEMMA DataPart ==
    ASSUME IInv, RInv, NEW data \in CanData, SetData(data), GiveParts(<<data>>)
    PROVE  RInv'
<1> DEFINE n == IF payload.type = "analog" THEN payload.dataLength ELSE Len(data)
<1>1. data \in Seq(Byte) /\ payload.body \in Seq(Byte)
  BY DataAssumption DEF IInv, TypeOK
<1>2. Copied(Resized(payload.body, Len(data)), 0, data) = data
  BY <1>1, DataWritten
<1>3. /\ payload'.type = payload.type /\ payload'.body = data
      /\ payload'.dataLength = n /\ payload.type \in DataTypes
  BY <1>2 DEF SetData, WithData, IInv, TypeOK
<1>4. SubSeq(data, 1, Len(data)) = data
  BY <1>1
<1>5. Held(payload') = <<data>>
  <2>1. Held(payload') = <<IF payload.type = "analog" THEN data ELSE SubSeq(data, 1, n)>>
    BY <1>3, DataHeld
  <2> QED
    BY <1>4, <2>1
<1> QED
  BY <1>5, GivenParts

LEMMA InterfaceParts ==
    ASSUME IInv, RInv, NEW ids \in Lists, NEW vendor \in Lists,
           SetInterfaceData(ids, vendor), GiveParts(<<ids, vendor>>)
    PROVE  RInv'
<1> DEFINE b == InterfaceBody(payload.body, ids, vendor)
<1>1. ids \in Seq(Byte) /\ vendor \in Seq(Byte) /\ payload.body \in Seq(Byte)
  BY DataAssumption DEF IInv, TypeOK
<1>2. /\ Len(b) < Uint16Mod /\ payload' = [payload EXCEPT !.body = b]
      /\ payload.type = "ifStatMsg"
  BY DEF SetInterfaceData, Fits
<1>3. StreamIds(b) = ids /\ InterfaceVendorData(b) = vendor
  BY <1>1, <1>2, InterfaceBodyReads
<1> HIDE DEF b
<1>4. payload'.type = "ifStatMsg" /\ payload'.body = b
  BY <1>2 DEF IInv, TypeOK
<1>5. Contents(payload') = <<ids, vendor>>
  BY <1>3, <1>4 DEF Contents, DataTypes, CanTypes
<1> QED
  BY <1>4, <1>5, GivenParts, HeldIsContents

LEMMA CaptureModuleParts ==
    ASSUME IInv, RInv, \A x \in Strings : NoNull(x),
           NEW d \in Strings, NEW s \in Strings, NEW h \in Strings, NEW w \in Strings,
           NEW vendor \in Lists,
           SetCaptureModuleData(d, s, h, w, vendor), GiveParts(<<d, s, h, w, vendor>>)
    PROVE  RInv'
<1> DEFINE b == CaptureModuleBody(d, s, h, w, vendor)
           View(k) == StringView(b, k)
<1>1. /\ d \in Seq(Byte) /\ s \in Seq(Byte) /\ h \in Seq(Byte) /\ w \in Seq(Byte)
      /\ vendor \in Seq(Byte) /\ NoNull(d) /\ NoNull(s) /\ NoNull(h) /\ NoNull(w)
  BY DataAssumption
<1>2. /\ Len(b) < Uint16Mod /\ payload' = [payload EXCEPT !.body = b]
      /\ payload.type = "cmStatMsg"
  BY DEF SetCaptureModuleData, Fits
<1>3. /\ RemoveTrailingNulls(View(1)) = d /\ RemoveTrailingNulls(View(2)) = s
      /\ RemoveTrailingNulls(View(3)) = h /\ RemoveTrailingNulls(View(4)) = w
      /\ View(5) = vendor
  BY <1>1, <1>2, CaptureModuleBodyReads
<1> HIDE DEF b
<1>4. payload'.type = "cmStatMsg" /\ payload'.body = b
  BY <1>2 DEF IInv, TypeOK
<1>5. Contents(payload') = [k \in 1 .. 5 |-> IF k = 5 THEN View(k)
                                            ELSE RemoveTrailingNulls(View(k))]
  BY <1>4 DEF Contents, DataTypes, CanTypes
<1> HIDE DEF View
<1>6. Contents(payload') = <<d, s, h, w, vendor>>
  BY ONLY <1>3, <1>5
<1> QED
  BY <1>4, <1>6, GivenParts, HeldIsContents

\* A new payload has no parts, or empty ones.
LEMMA NothingContained ==
    ASSUME NEW t \in AllTypes
    PROVE  Held(NewPayload(t)) = Nothing(t).parts
<1> DEFINE p == NewPayload(t)
<1>1. p.type = t /\ p.dataLength = 0
  BY NewPayloadIs
<1>2. Nothing(t).parts = [k \in 1 .. Parts(t) |-> <<>>]
  BY DEF Nothing
<1>3. CASE t \in DataTypes
  <2>1. p.body = <<>>
    BY <1>3 DEF NewPayload, DataTypes, CanTypes
  <2>2. SubSeq(<<>>, 1, 0) = <<>>
    OBVIOUS
  <2> HIDE DEF p
  <2>3. Held(p) = << <<>> >>
    BY <1>1, <1>3, <2>1, <2>2, DataHeld
  <2>4. Parts(t) = 1
    BY <1>3 DEF Parts, DataTypes, CanTypes
  <2> QED
    BY <1>2, <2>3, <2>4 DEF p
<1>4. CASE t = "ifStatMsg"
  <2>1. p.body = Zeros(4)
    BY <1>4 DEF NewPayload
  <2> HIDE DEF p
  <2>2. Contents(p) = << <<>>, <<>> >>
    BY <1>1, <1>4, <2>1, EmptyInterfaceReads DEF Contents, DataTypes, CanTypes
  <2>3. Parts(t) = 2
    BY <1>4 DEF Parts
  <2> QED
    BY <1>1, <1>2, <1>4, <2>2, <2>3, HeldIsContents DEF p
<1>5. CASE t = "cmStatMsg"
  <2>1. p.body = Zeros(10)
    BY <1>5 DEF NewPayload
  <2> HIDE DEF p
  <2>2. Contents(p) = [k \in 1 .. 5 |-> <<>>]
    BY <1>1, <1>5, <2>1, EmptyCaptureModuleReads, NoNullToRemove
       DEF Contents, DataTypes, CanTypes
  <2>3. Parts(t) = 5
    BY <1>5 DEF Parts
  <2> QED
    BY <1>1, <1>2, <1>5, <2>2, <2>3, HeldIsContents DEF p
<1> QED
  BY <1>3, <1>4, <1>5 DEF AllTypes, StatusTypes

\* The whole samples, counted by the code and measured by the property.
LEMMA SamplesAreWhole ==
    ASSUME NEW n \in Nat, NEW size \in {2, 4}
    PROVE  (n \div size) * size = n - (n % size)
<1>1. CASE size = 2
  <2>1. (n \div 2) * 2 = n - (n % 2)
    OBVIOUS
  <2> QED
    BY <1>1, <2>1
<1>2. CASE size = 4
  <2>1. (n \div 4) * 4 = n - (n % 4)
    OBVIOUS
  <2> QED
    BY <1>2, <2>1
<1> QED
  BY <1>1, <1>2

\* What the getters return of what is held: the type of the samples is a field,
\* and reads as it was given.
LEMMA HeldReads == IInv /\ PInv /\ RInv => PartsReadBack
<1> SUFFICES ASSUME IInv, PInv, RInv PROVE PartsReadBack
  OBVIOUS
<1>1. CASE payload.type # "analog"
  BY <1>1, HeldIsContents DEF RInv, PartsReadBack
<1>2. CASE payload.type = "analog"
  <2> DEFINE data == payload.body
             n == Len(data)
             size == SampleSize(payload)
  <2>1. given.parts = <<data>>
    BY <1>2 DEF RInv, Held
  <2>2. "sampleDt" \in Fields(payload.type)
    BY <1>2, FlagsField DEF DataTypes
  <2>3. Get(payload, "sampleDt") = given.fields["sampleDt"]
    BY <1>2, <2>2 DEF PInv, Honest, FieldsReadBack, CanTypes
  <2>4. n \in Nat
    BY DEF IInv, TypeOK
  <2>5. size \in {2, 4} /\ size = IF given.fields["sampleDt"] = {} THEN 2 ELSE 4
    BY <2>3 DEF SampleSize
  <2>6. Contents(payload) = <<SubSeq(data, 1, (n \div size) * size)>>
    BY <1>2 DEF Contents, SamplesCount
  <2>7. WholeSamples(data, given.fields["sampleDt"]) = SubSeq(data, 1, n - (n % size))
    BY <2>5 DEF WholeSamples
  <2> HIDE DEF size, n, data
  <2>8. (n \div size) * size = n - (n % size)
    BY ONLY <2>4, <2>5, SamplesAreWhole
  <2>9. given.parts[1] = data
    BY <2>1
  <2> QED
    BY <1>2, <2>6, <2>7, <2>8, <2>9 DEF PartsReadBack
<1> QED
  BY <1>1, <1>2

(***************************************************************************)
(* The strings, stream ids and data that were last given to a payload are  *)
(* what its getters find, for any of them and whatever it held before, as  *)
(* long as the strings have no NUL inside, where the getters cut them off; *)
(* of analog data they find the whole samples of the type that was given   *)
(* last, and nothing of a rest shorter than one                            *)
(* (capture_module_payload.cpp:227-304, interface_payload.cpp:215-295,     *)
(* can_payload_base.cpp:146-158, analog_payload.cpp:134-148).              *)
(***************************************************************************)
THEOREM PartsComeBack ==
    ASSUME \A x \in Strings : NoNull(x)
    PROVE  PSpec => []PartsReadBack
<1>1. PInit => RInv
  <2> SUFFICES ASSUME NEW t \in Types, payload = NewPayload(t), given = Nothing(payload.type)
               PROVE  RInv
    BY DEF PInit, Init
  <2>1. payload.type = t /\ t \in AllTypes
    BY NewPayloadIs, TypesAssumption
  <2> QED
    BY <2>1, NothingContained DEF RInv, Nothing
<1>2. IInv /\ RInv /\ [PNext]_pvars => RInv'
  <2> SUFFICES ASSUME IInv, RInv, [PNext]_pvars PROVE RInv'
    OBVIOUS
  <2>1. CASE UNCHANGED pvars
    BY <2>1 DEF pvars, RInv
  <2>2. CASE payload.type # "invalid" /\ PSetHeader
    <3>1. payload.type \in Types
      BY <2>2 DEF IInv, TypeOK
    <3>2. ASSUME NEW f \in Fields(payload.type), NEW v \in Values[payload.type][f],
                 GiveField(f, v)
          PROVE  RInv'
      <4>1. \E w, s : WritesWord(w, s)
        BY <3>1, <3>2, SetFieldWrites DEF GiveField
      <4>2. \E fields : GivesFields(fields)
        BY <3>2 DEF GiveField, GivesFields
      <4> QED
        BY <4>1, <4>2, WordKeepsParts
    <3>3. ASSUME NEW v \in FlagValues, GiveFlags(v) PROVE RInv'
      <4>1. WritesWord("flags", v)
        BY <3>3, SetFlagsWrites, FlagValuesAssumption DEF GiveFlags
      <4>2. \E fields : GivesFields(fields)
        BY <3>3 DEF GiveFlags, GivesFields
      <4> QED
        BY <4>1, <4>2, WordKeepsParts
    <3>4. ASSUME NEW bit \in UNION FlagValues, NEW value \in BOOLEAN, GiveFlag(bit, value)
          PROVE  RInv'
      <4>1. \E s : WritesWord("flags", s)
        BY <3>4, SetFlagWrites, FlagValuesAssumption DEF GiveFlag
      <4>2. \E fields : GivesFields(fields)
        BY <3>4 DEF GiveFlag, GivesFields
      <4> QED
        BY <4>1, <4>2, WordKeepsParts
    <3> QED
      BY <2>2, <3>2, <3>3, <3>4 DEF PSetHeader
  <2>3. CASE PSetBody
    BY <2>3, DataPart, InterfaceParts, CaptureModuleParts DEF PSetBody
  <2>4. CASE payload.type # "invalid" /\ PReceive
    <3>1. CASE payload' = payload
      BY <2>4, <3>1 DEF PReceive, RInv
    <3>2. ASSUME NEW b, Becomes("invalid", b) PROVE RInv'
      <4>1. payload'.type = "invalid" /\ given' = Nothing("invalid")
        BY <2>4, <3>2, BecomesKeeps DEF PReceive
      <4>2. Contents(payload') = <<>>
        BY <4>1 DEF Contents, DataTypes, CanTypes
      <4>3. Nothing("invalid").parts = [k \in 1 .. 0 |-> <<>>]
        BY DEF Nothing, Parts
      <4>4. [k \in 1 .. 0 |-> <<>>] = <<>>
        OBVIOUS
      <4> QED
        BY <4>1, <4>2, <4>3, <4>4, HeldIsContents DEF RInv, Nothing
    <3> QED
      BY <2>4, <3>1, <3>2, ReceiveIs DEF PReceive
  <2>5. ASSUME NEW t \in Types, Construct(t), given' = Nothing(t) PROVE RInv'
    <3>1. t \in AllTypes /\ payload' = NewPayload(t)
      BY <2>5, TypesAssumption DEF Construct
    <3> QED
      BY <2>5, <3>1, NothingContained DEF RInv, Nothing
  <2> QED
    BY <2>1, <2>2, <2>3, <2>4, <2>5 DEF PNext
<1> QED
  BY <1>1, <1>2, IInvInvariant, PInvInvariant, HeldReads, PTL DEF PSpec
=============================================================================
