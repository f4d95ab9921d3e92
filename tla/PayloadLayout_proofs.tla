------------------------- MODULE PayloadLayout_proofs -------------------------
(***************************************************************************)
(* Lemmas on the payloads as values: the tables of masks, looked at once;  *)
(* the bodies that setData writes are bytes; and what is written is what   *)
(* is read, length by length and part by part.                             *)
(***************************************************************************)
EXTENDS PayloadLayout, ProofBasics

Word(t, f) == FieldsOf[t][f].word
Mask(t, f) == FieldsOf[t][f].mask

\* Two fields of a table do not overlap, and stay within 64 bits.
Apart(table) ==
    \A f, g \in DOMAIN table :
        /\ table[f].mask \subseteq 0 .. 63
        /\ f # g /\ table[f].word = table[g].word => table[f].mask \cap table[g].mask = {}

LEMMA TablesApart ==
    /\ Apart(CanFields) /\ Apart(CanFdFields) /\ Apart(LinFields)
    /\ Apart(EthernetFields) /\ Apart(AnalogFields)
    /\ Apart(CaptureModuleFields) /\ Apart(InterfaceFields)
<1>1. Apart(CanFields)
  BY DEF Apart, CanFields, Whole, Bits
<1>2. Apart(CanFdFields)
  BY DEF Apart, CanFdFields, Whole, Bits
<1>3. Apart(LinFields)
  BY DEF Apart, LinFields, Whole, Bits
<1>4. Apart(EthernetFields) /\ Apart(AnalogFields)
  BY DEF Apart, AnalogFields, EthernetFields, Whole, Bits
<1>5. Apart(CaptureModuleFields)
  BY DEF Apart, CaptureModuleFields, Whole, Bits
<1>6. Apart(InterfaceFields)
  BY DEF Apart, InterfaceFields, Whole, Bits
<1> QED
  BY <1>1, <1>2, <1>3, <1>4, <1>5, <1>6

LEMMA FieldsApart ==
    ASSUME NEW t \in AllTypes \cup {"invalid"}
    PROVE  /\ \A f \in Fields(t) : Word(t, f) \in WordsOf(t)
           /\ Apart(FieldsOf[t])
<1>1. Apart(FieldsOf[t])
  <2>1. FieldsOf[t] \in {CanFields, CanFdFields, LinFields, EthernetFields, AnalogFields,
                         CaptureModuleFields, InterfaceFields}
          \/ FieldsOf[t] = [none |-> Whole("none", 0)]
    BY DEF FieldsOf, AllTypes, DataTypes, CanTypes, StatusTypes
  <2>2. Apart([none |-> Whole("none", 0)])
    BY DEF Apart, Whole
  <2> QED
    BY <2>1, <2>2, TablesApart
<1> QED
  BY <1>1 DEF Word, WordsOf

\* Where the flags, the error position and the crc of a class are.
LEMMA FlagsField ==
    ASSUME NEW t \in DataTypes
    PROVE  /\ "flags" \in Fields(t) /\ Word(t, "flags") = "flags"
           /\ t # "analog" =>
                /\ Mask(t, "flags") = 0 .. 15
                /\ \A f \in Fields(t) \ {"flags"} : Word(t, f) # "flags"
           /\ t = "analog" =>
                /\ "sampleDt" \in Fields(t) /\ Word(t, "sampleDt") = "flags"
                /\ Mask(t, "sampleDt") = {0, 1}
<1>1. CASE t = "can"
  <2>1. FieldsOf[t] = CanFields
    BY <1>1 DEF FieldsOf
  <2> QED
    BY <1>1, <2>1 DEF Fields, Word, Mask, CanFields, Whole, Bits
<1>2. CASE t = "canFd"
  <2>1. FieldsOf[t] = CanFdFields
    BY <1>2 DEF FieldsOf
  <2> QED
    BY <1>2, <2>1 DEF Fields, Word, Mask, CanFdFields, Whole, Bits
<1>3. CASE t = "lin"
  <2>1. FieldsOf[t] = LinFields
    BY <1>3 DEF FieldsOf
  <2> QED
    BY <1>3, <2>1 DEF Fields, Word, Mask, LinFields, Whole, Bits
<1>4. CASE t = "ethernet"
  <2>1. FieldsOf[t] = EthernetFields
    BY <1>4 DEF FieldsOf
  <2> QED
    BY <1>4, <2>1 DEF Fields, Word, Mask, EthernetFields, Whole, Bits
<1>5. CASE t = "analog"
  <2>1. FieldsOf[t] = AnalogFields
    BY <1>5 DEF FieldsOf
  <2> QED
    BY <1>5, <2>1 DEF Fields, Word, Mask, AnalogFields, Whole, Bits
<1> QED
  BY <1>1, <1>2, <1>3, <1>4, <1>5 DEF DataTypes, CanTypes

LEMMA ErrorPositionField ==
    ASSUME NEW t \in CanTypes
    PROVE  /\ "errorPosition" \in Fields(t) /\ Word(t, "errorPosition") = "errorPosition"
           /\ Mask(t, "errorPosition") = 0 .. 15
           /\ \A f \in Fields(t) \ {"errorPosition"} : Word(t, f) # "errorPosition"
<1>1. CASE t = "can"
  <2>1. FieldsOf[t] = CanFields
    BY <1>1 DEF FieldsOf
  <2> QED
    BY <1>1, <2>1 DEF Fields, Word, Mask, CanFields, Whole, Bits
<1>2. CASE t = "canFd"
  <2>1. FieldsOf[t] = CanFdFields
    BY <1>2 DEF FieldsOf
  <2> QED
    BY <1>2, <2>1 DEF Fields, Word, Mask, CanFdFields, Whole, Bits
<1> QED
  BY <1>1, <1>2 DEF CanTypes
-----------------------------------------------------------------------------
\* The bodies that the operations of PayloadLayout make are bytes.
LEMMA ResizedIs ==
    ASSUME NEW b \in Seq(Byte), NEW n \in Nat
    PROVE  Resized(b, n) \in Seq(Byte) /\ Len(Resized(b, n)) = n
<1>1. 0 \in Byte
  BY ByteModAssumption DEF Byte
<1>2. \A i \in 1 .. n : i <= Len(b) => b[i] \in Byte
  OBVIOUS
<1> QED
  BY <1>1, <1>2 DEF Resized

LEMMA CopiedIs ==
    ASSUME NEW b \in Seq(Byte), NEW s \in Seq(Byte), NEW pos \in Nat
    PROVE  Copied(b, pos, s) \in Seq(Byte) /\ Len(Copied(b, pos, s)) = Len(b)
<1>1. \A i \in pos + 1 .. pos + Len(s) : s[i - pos] \in Byte
  OBVIOUS
<1>2. Copied(b, pos, s) = [i \in 1 .. Len(b) |->
          IF i \in pos + 1 .. pos + Len(s) THEN s[i - pos] ELSE b[i]]
  BY DEF Copied
<1> QED
  BY <1>1, <1>2

LEMMA Uint16Is ==
    ASSUME NEW n \in Nat
    PROVE  Uint16(n) \in Seq(Byte) /\ Len(Uint16(n)) = 2
<1> DEFINE M == ByteMod
           r == n % (M * M)
<1>1. M \in Nat /\ M > 0
  BY ByteModAssumption
<1>2. M * M \in Nat /\ M * M > 0
  BY <1>1
<1>3. r \in Nat /\ r < M * M
  BY <1>2
<1>4. r \div M \in 0 .. M - 1
  <2> HIDE DEF r
  <2>1. r \div M \in Nat /\ r = M * (r \div M) + (r % M) /\ r % M \in 0 .. M - 1
    BY <1>1, <1>3
  <2>2. r \div M < M
    BY <1>1, <1>3, <2>1
  <2> QED
    BY <1>1, <2>1, <2>2
<1>5. n % M \in 0 .. M - 1
  BY <1>1
<1> QED
  BY <1>4, <1>5 DEF Uint16, Uint16Mod, Byte

LEMMA ZerosIs ==
    ASSUME NEW n \in Nat
    PROVE  Zeros(n) \in Seq(Byte) /\ Len(Zeros(n)) = n
<1>1. 0 \in Byte
  BY ByteModAssumption DEF Byte
<1> QED
  BY <1>1 DEF Zeros

LEMMA InterfaceBodyType ==
    ASSUME NEW b \in Seq(Byte), NEW ids \in Seq(Byte), NEW vendor \in Seq(Byte)
    PROVE  InterfaceBody(b, ids, vendor) \in Seq(Byte)
<1> DEFINE pos == 2 + Len(ids) + (Len(ids) % 2)
           resized == Resized(b, pos + 2 + Len(vendor))
           first == Copied(resized, 0, Uint16(Len(ids)) \o ids)
<1>1. pos \in Nat
  OBVIOUS
<1>2. resized \in Seq(Byte)
  BY <1>1, ResizedIs
<1>3. Uint16(Len(ids)) \o ids \in Seq(Byte) /\ Uint16(Len(vendor)) \o vendor \in Seq(Byte)
  BY Uint16Is
<1>4. first \in Seq(Byte)
  <2> HIDE DEF resized
  <2> QED
    BY <1>2, <1>3, CopiedIs
<1>5. Copied(first, pos, Uint16(Len(vendor)) \o vendor) \in Seq(Byte)
  <2> HIDE DEF first, pos
  <2> QED
    BY <1>1, <1>3, <1>4, CopiedIs
<1> QED
  BY <1>5 DEF InterfaceBody

LEMMA FillWithStringType ==
    ASSUME NEW s \in Seq(Byte)
    PROVE  FillWithString(s) \in Seq(Byte)
<1> DEFINE length == (Len(s) + 1) + ((Len(s) + 1) % 2)
<1>1. length \in Nat /\ length - Len(s) \in Nat
  OBVIOUS
<1>2. Uint16(length) \in Seq(Byte) /\ Zeros(length - Len(s)) \in Seq(Byte)
  <2> HIDE DEF length
  <2> QED
    BY <1>1, Uint16Is, ZerosIs
<1> QED
  BY <1>2 DEF FillWithString

LEMMA CaptureModuleBodyType ==
    ASSUME NEW d \in Seq(Byte), NEW s \in Seq(Byte), NEW h \in Seq(Byte), NEW w \in Seq(Byte),
           NEW vendor \in Seq(Byte)
    PROVE  CaptureModuleBody(d, s, h, w, vendor) \in Seq(Byte)
<1>1. /\ FillWithString(d) \in Seq(Byte) /\ FillWithString(s) \in Seq(Byte)
      /\ FillWithString(h) \in Seq(Byte) /\ FillWithString(w) \in Seq(Byte)
      /\ Uint16(Len(vendor)) \in Seq(Byte)
  BY FillWithStringType, Uint16Is
<1> QED
  BY <1>1 DEF CaptureModuleBody
-----------------------------------------------------------------------------
\* The bytes of s stand in b from a position (from 0) on.
Stands(s, b, pos) ==
    /\ pos + Len(s) <= Len(b)
    /\ \A i \in 1 .. Len(s) : b[pos + i] = s[i]

LEMMA StandsWhole ==
    ASSUME NEW b \in Seq(Byte)
    PROVE  Stands(b, b, 0)
BY DEF Stands

LEMMA StandsConcat ==
    ASSUME NEW s \in Seq(Byte), NEW t \in Seq(Byte), NEW b \in Seq(Byte), NEW pos \in Nat,
           Stands(s \o t, b, pos)
    PROVE  Stands(s, b, pos) /\ Stands(t, b, pos + Len(s))
<1>1. Len(s \o t) = Len(s) + Len(t)
  OBVIOUS
<1>2. ASSUME NEW i \in 1 .. Len(s) PROVE b[pos + i] = s[i]
  <2>1. i \in 1 .. Len(s \o t) /\ (s \o t)[i] = s[i]
    OBVIOUS
  <2> QED
    BY <2>1 DEF Stands
<1>3. ASSUME NEW i \in 1 .. Len(t) PROVE b[(pos + Len(s)) + i] = t[i]
  <2>1. Len(s) + i \in 1 .. Len(s \o t) /\ (s \o t)[Len(s) + i] = t[i]
    OBVIOUS
  <2>2. pos + (Len(s) + i) = (pos + Len(s)) + i
    OBVIOUS
  <2> QED
    BY <2>1, <2>2 DEF Stands
<1> QED
  BY <1>1, <1>2, <1>3 DEF Stands

LEMMA StandsReads ==
    ASSUME NEW s \in Seq(Byte), NEW b \in Seq(Byte), NEW pos \in Nat, Stands(s, b, pos)
    PROVE  SubSeq(b, pos + 1, pos + Len(s)) = s
<1> DEFINE u == SubSeq(b, pos + 1, pos + Len(s))
<1>1. u \in Seq(Byte) /\ Len(u) = Len(s) /\ \A i \in 1 .. Len(s) : u[i] = b[pos + i]
  <2>1. u = [i \in 1 .. Len(s) |-> b[pos + i]]
    BY DEF Stands
  <2>2. \A i \in 1 .. Len(s) : b[pos + i] \in Byte
    BY DEF Stands
  <2> HIDE DEF u
  <2>3. u \in [1 .. Len(s) -> Byte] /\ \A i \in 1 .. Len(s) : u[i] = b[pos + i]
    BY <2>1, <2>2
  <2> QED
    BY <2>3
<1> QED
  BY <1>1 DEF Stands

\* A length written is the length read, if it fits into two bytes.
LEMMA Uint16Reads ==
    ASSUME NEW n \in Nat, n < Uint16Mod, NEW b \in Seq(Byte), NEW pos \in Nat,
           Stands(Uint16(n), b, pos)
    PROVE  Uint16At(b, pos) = n
<1> DEFINE M == ByteMod
<1>1. M \in Nat /\ M > 0
  BY ByteModAssumption
<1>2. n % (M * M) = n
  BY <1>1 DEF Uint16Mod
<1>3. Uint16(n) = <<n \div M, n % M>>
  BY <1>2 DEF Uint16, Uint16Mod
<1>4. b[pos + 1] = n \div M /\ b[pos + 2] = n % M
  BY <1>3 DEF Stands
<1>5. n = M * (n \div M) + (n % M) /\ n \div M \in Nat
  BY <1>1
<1>6. (n \div M) * M = M * (n \div M)
  BY <1>1, <1>5
<1> QED
  BY <1>4, <1>5, <1>6 DEF Uint16At

\* A length and that many bytes.
Part(s) == Uint16(Len(s)) \o s

LEMMA PartReads ==
    ASSUME NEW s \in Seq(Byte), NEW b \in Seq(Byte), NEW pos \in Nat,
           Stands(Part(s), b, pos), Len(s) < Uint16Mod
    PROVE  /\ Uint16At(b, pos) = Len(s)
           /\ SubSeq(b, pos + 3, pos + 2 + Len(s)) = s
           /\ pos + 2 + Len(s) <= Len(b)
<1>1. Len(s) \in Nat /\ Uint16(Len(s)) \in Seq(Byte) /\ Len(Uint16(Len(s))) = 2
  BY Uint16Is
<1>2. Stands(Uint16(Len(s)), b, pos) /\ Stands(s, b, pos + 2)
  BY <1>1, StandsConcat DEF Part
<1>3. SubSeq(b, (pos + 2) + 1, (pos + 2) + Len(s)) = s
  BY <1>2, StandsReads
<1>4. (pos + 2) + 1 = pos + 3
  OBVIOUS
<1> QED
  BY <1>1, <1>2, <1>3, <1>4, Uint16Reads DEF Stands

LEMMA ConcatIs ==
    ASSUME NEW s \in Seq(Byte), NEW t \in Seq(Byte)
    PROVE  s \o t \in Seq(Byte) /\ Len(s \o t) = Len(s) + Len(t)
OBVIOUS

LEMMA PartIs ==
    ASSUME NEW s \in Seq(Byte)
    PROVE  Part(s) \in Seq(Byte) /\ Len(Part(s)) = 2 + Len(s)
<1>1. Uint16(Len(s)) \in Seq(Byte) /\ Len(Uint16(Len(s))) = 2
  BY Uint16Is
<1> QED
  BY <1>1, ConcatIs DEF Part
LEMMA ConcatAssociates ==
    ASSUME NEW s \in Seq(Byte), NEW t \in Seq(Byte), NEW u \in Seq(Byte)
    PROVE  (s \o t) \o u = s \o (t \o u)
<1> DEFINE l == (s \o t) \o u
           r == s \o (t \o u)
<1>1. l \in Seq(Byte) /\ Len(l) = Len(s) + Len(t) + Len(u)
  BY ConcatIs
<1>2. r \in Seq(Byte) /\ Len(r) = Len(s) + Len(t) + Len(u)
  BY ConcatIs
<1>3. ASSUME NEW i \in 1 .. Len(s) + Len(t) + Len(u) PROVE l[i] = r[i]
  <2>1. Len(s \o t) = Len(s) + Len(t) /\ Len(t \o u) = Len(t) + Len(u)
        /\ s \o t \in Seq(Byte) /\ t \o u \in Seq(Byte)
    BY ConcatIs
  <2>2. CASE i <= Len(s)
    BY <2>1, <2>2
  <2>3. CASE i > Len(s) /\ i <= Len(s) + Len(t)
    <3>1. l[i] = (s \o t)[i]
      BY <2>1, <2>3
    <3>2. (s \o t)[i] = t[i - Len(s)]
      BY <2>3
    <3>3. r[i] = (t \o u)[i - Len(s)]
      BY <2>1, <2>3
    <3>4. (t \o u)[i - Len(s)] = t[i - Len(s)]
      BY <2>3
    <3> QED
      BY <3>1, <3>2, <3>3, <3>4
  <2>4. CASE i > Len(s) + Len(t)
    <3>1. l[i] = u[i - (Len(s) + Len(t))]
      BY <2>1, <2>4
    <3>2. r[i] = (t \o u)[i - Len(s)]
      BY <2>1, <2>4
    <3>3. (t \o u)[i - Len(s)] = u[(i - Len(s)) - Len(t)]
      BY <2>4
    <3>4. (i - Len(s)) - Len(t) = i - (Len(s) + Len(t))
      OBVIOUS
    <3> QED
      BY <3>1, <3>2, <3>3, <3>4
  <2> QED
    BY <2>2, <2>3, <2>4
<1> HIDE DEF l, r
<1>4. l = r
  BY <1>1, <1>2, <1>3
<1> QED
  BY <1>4 DEF l, r

\* A filled string is a part, of the string and one or two NULs.
LEMMA FilledIs ==
    ASSUME NEW s \in Seq(Byte)
    PROVE  \E n \in {1, 2} : FillWithString(s) = Part(s \o Zeros(n))
<1> DEFINE length == (Len(s) + 1) + ((Len(s) + 1) % 2)
           n == length - Len(s)
<1>1. length \in Nat /\ n \in {1, 2} /\ Len(s) + n = length
  OBVIOUS
<1> HIDE DEF length, n
<1>2. Zeros(n) \in Seq(Byte) /\ Len(Zeros(n)) = n
  BY <1>1, ZerosIs
<1>3. Uint16(length) \in Seq(Byte)
  BY <1>1, Uint16Is
<1>4. Len(s \o Zeros(n)) = length
  BY <1>1, <1>2, ConcatIs
<1>5. FillWithString(s) = (Uint16(length) \o s) \o Zeros(n)
  BY DEF FillWithString, length, n
<1>6. (Uint16(length) \o s) \o Zeros(n) = Uint16(length) \o (s \o Zeros(n))
  BY <1>2, <1>3, ConcatAssociates
<1> QED
  BY <1>1, <1>4, <1>5, <1>6 DEF Part

\* The NULs are taken off again, and nothing of a string that has none.
LEMMA NullsRemoved ==
    ASSUME NEW s \in Seq(Byte), \A i \in DOMAIN s : s[i] # 0, NEW n \in Nat \ {0}
    PROVE  RemoveTrailingNulls(s \o Zeros(n)) = s
<1> DEFINE z == Zeros(n)
           t == s \o z
           nulls == {i \in DOMAIN t : t[i] = 0}
           First(i) == i \in nulls /\ \A j \in nulls : i <= j
           k == CHOOSE i \in nulls : \A j \in nulls : i <= j
<1>1. z \in Seq(Byte) /\ Len(z) = n /\ \A i \in 1 .. n : z[i] = 0
  BY ZerosIs DEF Zeros
<1> HIDE DEF z
<1>2. t \in Seq(Byte) /\ Len(t) = Len(s) + n
  BY <1>1, ConcatIs
<1>3. \A i \in 1 .. Len(s) : t[i] = s[i]
  BY <1>1
<1>4. t[Len(s) + 1] = 0
  <2>1. t[Len(s) + 1] = z[1]
    BY <1>1
  <2> QED
    BY <1>1, <2>1
<1> HIDE DEF t
<1>5. Len(s) + 1 \in nulls
  BY <1>2, <1>4
<1>6. \A j \in nulls : Len(s) + 1 <= j
  BY <1>2, <1>3
<1>7. \A i \in nulls : (\A j \in nulls : i <= j) => i = Len(s) + 1
  BY <1>2, <1>5, <1>6
<1> HIDE DEF nulls
<1>8. k = Len(s) + 1
  BY <1>5, <1>6, <1>7
<1>9. RemoveTrailingNulls(t) = SubSeq(t, 1, k - 1)
  BY <1>5 DEF RemoveTrailingNulls, nulls
<1>10. Stands(s, t, 0)
  BY <1>2, <1>3 DEF Stands
<1>11. SubSeq(t, 0 + 1, 0 + Len(s)) = s
  BY <1>2, <1>10, StandsReads
<1>12. RemoveTrailingNulls(t) = s
  <2>1. Len(s) \in Nat
    OBVIOUS
  <2> HIDE DEF k
  <2>2. 0 + 1 = 1 /\ 0 + Len(s) = k - 1
    BY <1>8, <2>1
  <2> QED
    BY <1>9, <1>11, <2>2
<1> QED
  BY <1>12 DEF t, z
-----------------------------------------------------------------------------
\* A part behind other bytes is found at their end, and the next one behind it.
LEMMA PartBehind ==
    ASSUME NEW a \in Seq(Byte), NEW s \in Seq(Byte), NEW b \in Seq(Byte),
           NEW c, c = a \o Part(s), Stands(c, b, 0), Len(s) < Uint16Mod
    PROVE  /\ Stands(a, b, 0)
           /\ Uint16At(b, Len(a)) = Len(s)
           /\ SubSeq(b, Len(a) + 3, Len(a) + 2 + Len(s)) = s
<1>1. Part(s) \in Seq(Byte) /\ Len(Part(s)) = 2 + Len(s)
  BY PartIs
<1>2. Stands(a, b, 0) /\ Stands(Part(s), b, 0 + Len(a))
  BY <1>1, StandsConcat
<1>3. Len(a) \in Nat /\ 0 + Len(a) = Len(a)
  OBVIOUS
<1>4. Stands(Part(s), b, Len(a))
  BY <1>2, <1>3
<1> QED
  BY <1>2, <1>3, <1>4, PartReads

\* initStringView finds a string by the lengths in front of those before it.
LEMMA StringViewIs ==
    ASSUME NEW b, NEW p, NEW k \in 1 .. 5,
           p[1] = 0, \A i \in 2 .. 5 : p[i] = p[i - 1] + 2 + Uint16At(b, p[i - 1])
    PROVE  StringView(b, k) = SubSeq(b, p[k] + 3, p[k] + 2 + Uint16At(b, p[k]))
<1> DEFINE Places(at) == at = [i \in 1 .. k |-> IF i = 1 THEN 0
                                ELSE at[i - 1] + 2 + Uint16At(b, at[i - 1])]
           at == CHOOSE f : Places(f)
           q == [i \in 1 .. k |-> p[i]]
<1>5. Places(q)
  <2>1. ASSUME NEW i \in 1 .. k
        PROVE  q[i] = IF i = 1 THEN 0 ELSE q[i - 1] + 2 + Uint16At(b, q[i - 1])
    <3>1. CASE i = 1
      BY <3>1
    <3>2. CASE i # 1
      <4>1. i \in 2 .. 5 /\ i - 1 \in 1 .. k
        BY <3>2
      <4>2. q[i] = p[i] /\ q[i - 1] = p[i - 1]
        BY <4>1
      <4> QED
        BY <3>2, <4>1, <4>2
    <3> QED
      BY <3>1, <3>2
  <2> QED
    BY <2>1
<1>6. Places(at)
  BY <1>5
<1>7. StringView(b, k) = SubSeq(b, at[k] + 3, at[k] + 2 + Uint16At(b, at[k]))
  BY DEF StringView
<1> HIDE DEF at
<1>8. \A i \in 1 .. k : at[i] = IF i = 1 THEN 0 ELSE at[i - 1] + 2 + Uint16At(b, at[i - 1])
  BY <1>6
<1> HIDE DEF Places
<1>9. at[1] = p[1]
  BY <1>8
<1>10. ASSUME NEW i \in 2 .. 5, i <= k, at[i - 1] = p[i - 1]
       PROVE  at[i] = p[i]
  <2>1. i \in 1 .. k /\ i # 1
    BY <1>10
  <2> QED
    BY <1>8, <1>10, <2>1
<1>11. at[k] = p[k]
  <2>1. 2 <= k => at[2] = p[2]
    BY <1>9, <1>10
  <2>2. 3 <= k => at[3] = p[3]
    BY <1>10, <2>1
  <2>3. 4 <= k => at[4] = p[4]
    BY <1>10, <2>2
  <2>4. 5 <= k => at[5] = p[5]
    BY <1>10, <2>3
  <2> QED
    BY <1>9, <2>1, <2>2, <2>3, <2>4
<1> QED
  BY <1>7, <1>11
FiveParts(x1, x2, x3, x4, x5) ==
    (((Part(x1) \o Part(x2)) \o Part(x3)) \o Part(x4)) \o Part(x5)

LEMMA FivePartsRead ==
    ASSUME NEW x1 \in Seq(Byte), NEW x2 \in Seq(Byte), NEW x3 \in Seq(Byte),
           NEW x4 \in Seq(Byte), NEW x5 \in Seq(Byte), NEW b,
           b = FiveParts(x1, x2, x3, x4, x5),
           Len(b) < Uint16Mod
    PROVE  /\ StringView(b, 1) = x1 /\ StringView(b, 2) = x2 /\ StringView(b, 3) = x3
           /\ StringView(b, 4) = x4 /\ StringView(b, 5) = x5
<1> DEFINE one == Part(x1)
           two == one \o Part(x2)
           three == two \o Part(x3)
           four == three \o Part(x4)
           l1 == Len(x1)
           l2 == Len(x2)
           l3 == Len(x3)
           l4 == Len(x4)
           l5 == Len(x5)
<1>1. l1 \in Nat /\ l2 \in Nat /\ l3 \in Nat /\ l4 \in Nat /\ l5 \in Nat
  OBVIOUS
<1>2. one \in Seq(Byte) /\ Len(one) = 2 + l1
  BY PartIs
<1>3. Part(x2) \in Seq(Byte) /\ Len(Part(x2)) = 2 + l2
  BY PartIs
<1>4. Part(x3) \in Seq(Byte) /\ Len(Part(x3)) = 2 + l3
  BY PartIs
<1>5. Part(x4) \in Seq(Byte) /\ Len(Part(x4)) = 2 + l4
  BY PartIs
<1>6. Part(x5) \in Seq(Byte) /\ Len(Part(x5)) = 2 + l5
  BY PartIs
<1> HIDE DEF one, l1, l2, l3, l4, l5
<1>7. two \in Seq(Byte) /\ Len(two) = Len(one) + Len(Part(x2))
  BY ONLY <1>2, <1>3, ConcatIs
<1> HIDE DEF two
<1>8. three \in Seq(Byte) /\ Len(three) = Len(two) + Len(Part(x3))
  BY ONLY <1>4, <1>7, ConcatIs
<1> HIDE DEF three
<1>9. four \in Seq(Byte) /\ Len(four) = Len(three) + Len(Part(x4))
  BY ONLY <1>5, <1>8, ConcatIs
<1> HIDE DEF four
<1>10. b = four \o Part(x5)
  BY DEF FiveParts, one, two, three, four
<1>11. b \in Seq(Byte) /\ Len(b) = Len(four) + Len(Part(x5))
  BY ONLY <1>6, <1>9, <1>10, ConcatIs
<1>12. Uint16Mod \in Nat
  BY ByteModAssumption DEF Uint16Mod
<1> DEFINE p2 == Len(one)
           p3 == Len(two)
           p4 == Len(three)
           p5 == Len(four)
<1>13. /\ p2 = 2 + l1 /\ p3 = p2 + 2 + l2 /\ p4 = p3 + 2 + l3 /\ p5 = p4 + 2 + l4
       /\ Len(b) = p5 + 2 + l5
  <2> DEFINE m == Len(b)
  <2>1. p3 = p2 + (2 + l2) /\ p4 = p3 + (2 + l3) /\ p5 = p4 + (2 + l4) /\ m = p5 + (2 + l5)
    BY ONLY <1>3, <1>4, <1>5, <1>6, <1>7, <1>8, <1>9, <1>11
  <2> HIDE DEF p2, p3, p4, p5, m
  <2>2. p2 = 2 + l1
    BY <1>2 DEF p2
  <2>3. p3 = p2 + 2 + l2 /\ p4 = p3 + 2 + l3 /\ p5 = p4 + 2 + l4 /\ m = p5 + 2 + l5
    BY ONLY <1>1, <2>1, <2>2
  <2> QED
    BY <2>2, <2>3 DEF m
<1>14. l1 < Uint16Mod /\ l2 < Uint16Mod /\ l3 < Uint16Mod /\ l4 < Uint16Mod /\ l5 < Uint16Mod
  <2> DEFINE m == Len(b)
  <2>1. m < Uint16Mod
    OBVIOUS
  <2> HIDE DEF p2, p3, p4, p5, m
  <2>2. m = p5 + 2 + l5
    BY <1>13 DEF m
  <2> QED
    BY ONLY <1>1, <1>12, <1>13, <2>1, <2>2
<1>15. Stands(b, b, 0)
  BY ONLY <1>11, StandsWhole
<1>16. /\ Stands(four, b, 0)
       /\ Uint16At(b, p5) = l5
       /\ SubSeq(b, p5 + 3, p5 + 2 + l5) = x5
  BY ONLY x5 \in Seq(Byte), <1>9, <1>10, <1>11, <1>14, <1>15, PartBehind DEF l5
<1>17. /\ Stands(three, b, 0)
       /\ Uint16At(b, p4) = l4
       /\ SubSeq(b, p4 + 3, p4 + 2 + l4) = x4
  <2>1. four = three \o Part(x4)
    BY DEF four
  <2>2. x4 \in Seq(Byte) /\ Len(x4) < Uint16Mod
    BY <1>14 DEF l4
  <2>3. three \in Seq(Byte) /\ b \in Seq(Byte) /\ Stands(four, b, 0)
    BY ONLY <1>8, <1>11, <1>16
  <2> QED
    BY ONLY <2>1, <2>2, <2>3, PartBehind DEF l4
<1>18. /\ Stands(two, b, 0)
       /\ Uint16At(b, p3) = l3
       /\ SubSeq(b, p3 + 3, p3 + 2 + l3) = x3
  <2>1. three = two \o Part(x3)
    BY DEF three
  <2>2. x3 \in Seq(Byte) /\ Len(x3) < Uint16Mod
    BY <1>14 DEF l3
  <2>3. two \in Seq(Byte) /\ b \in Seq(Byte) /\ Stands(three, b, 0)
    BY ONLY <1>7, <1>11, <1>17
  <2> QED
    BY ONLY <2>1, <2>2, <2>3, PartBehind DEF l3
<1>19. /\ Stands(one, b, 0)
       /\ Uint16At(b, p2) = l2
       /\ SubSeq(b, p2 + 3, p2 + 2 + l2) = x2
  <2>1. two = one \o Part(x2)
    BY DEF two
  <2>2. x2 \in Seq(Byte) /\ Len(x2) < Uint16Mod
    BY <1>14 DEF l2
  <2>3. one \in Seq(Byte) /\ b \in Seq(Byte) /\ Stands(two, b, 0)
    BY ONLY <1>2, <1>11, <1>18
  <2> QED
    BY ONLY <2>1, <2>2, <2>3, PartBehind DEF l2
<1>20. Uint16At(b, 0) = l1 /\ SubSeq(b, 0 + 3, 0 + 2 + l1) = x1
  <2>1. Stands(Part(x1), b, 0) /\ 0 \in Nat
    BY <1>19 DEF one
  <2> QED
    BY ONLY x1 \in Seq(Byte), <1>11, <1>14, <2>1, PartReads DEF l1
<1> HIDE DEF p2, p3, p4, p5
<1> DEFINE p == <<0, p2, p3, p4, p5>>
<1>21. p[1] = 0 /\ p[2] = p2 /\ p[3] = p3 /\ p[4] = p4 /\ p[5] = p5
  OBVIOUS
<1>22. /\ Uint16At(b, 0) = l1 /\ Uint16At(b, p2) = l2 /\ Uint16At(b, p3) = l3
       /\ Uint16At(b, p4) = l4 /\ Uint16At(b, p5) = l5
  BY ONLY <1>16, <1>17, <1>18, <1>19, <1>20
<1> HIDE DEF p
<1>23. ASSUME NEW i \in 2 .. 5 PROVE p[i] = p[i - 1] + 2 + Uint16At(b, p[i - 1])
  <2>0. p2 = 0 + 2 + l1 /\ 2 - 1 = 1 /\ 3 - 1 = 2 /\ 4 - 1 = 3 /\ 5 - 1 = 4
    BY ONLY <1>1, <1>13
  <2>1. CASE i = 2
    BY ONLY <2>0, <2>1, <1>13, <1>21, <1>22, Zenon
  <2>2. CASE i = 3
    BY ONLY <2>0, <2>2, <1>13, <1>21, <1>22, Zenon
  <2>3. CASE i = 4
    BY ONLY <2>0, <2>3, <1>13, <1>21, <1>22, Zenon
  <2>4. CASE i = 5
    BY ONLY <2>0, <2>4, <1>13, <1>21, <1>22, Zenon
  <2>5. i = 2 \/ i = 3 \/ i = 4 \/ i = 5
    OBVIOUS
  <2> QED
    BY ONLY <2>1, <2>2, <2>3, <2>4, <2>5
<1>24. ASSUME NEW k \in 1 .. 5
       PROVE  StringView(b, k) = SubSeq(b, p[k] + 3, p[k] + 2 + Uint16At(b, p[k]))
  BY ONLY <1>21, <1>23, k \in 1 .. 5, StringViewIs
<1>25. 1 \in 1 .. 5 /\ 2 \in 1 .. 5 /\ 3 \in 1 .. 5 /\ 4 \in 1 .. 5 /\ 5 \in 1 .. 5
  OBVIOUS
<1>26. StringView(b, 1) = x1
  <2>1. StringView(b, 1) = SubSeq(b, p[1] + 3, p[1] + 2 + Uint16At(b, p[1]))
    BY ONLY <1>24, <1>25, Zenon
  <2> QED
    BY ONLY <2>1, <1>20, <1>21, <1>22, Zenon
<1>27. StringView(b, 2) = x2
  <2>1. StringView(b, 2) = SubSeq(b, p[2] + 3, p[2] + 2 + Uint16At(b, p[2]))
    BY ONLY <1>24, <1>25, Zenon
  <2> QED
    BY ONLY <2>1, <1>19, <1>21, <1>22, Zenon
<1>28. StringView(b, 3) = x3
  <2>1. StringView(b, 3) = SubSeq(b, p[3] + 3, p[3] + 2 + Uint16At(b, p[3]))
    BY ONLY <1>24, <1>25, Zenon
  <2> QED
    BY ONLY <2>1, <1>18, <1>21, <1>22, Zenon
<1>29. StringView(b, 4) = x4
  <2>1. StringView(b, 4) = SubSeq(b, p[4] + 3, p[4] + 2 + Uint16At(b, p[4]))
    BY ONLY <1>24, <1>25, Zenon
  <2> QED
    BY ONLY <2>1, <1>17, <1>21, <1>22, Zenon
<1>30. StringView(b, 5) = x5
  <2>1. StringView(b, 5) = SubSeq(b, p[5] + 3, p[5] + 2 + Uint16At(b, p[5]))
    BY ONLY <1>24, <1>25, Zenon
  <2> QED
    BY ONLY <2>1, <1>16, <1>21, <1>22, Zenon
<1> QED
  BY ONLY <1>26, <1>27, <1>28, <1>29, <1>30

\* A string without a NUL, as the getters of the status classes can return it.
NoNull(s) == \A i \in DOMAIN s : s[i] # 0

\* What setData of a capture module payload was given is what its getters find.
LEMMA CaptureModuleBodyReads ==
    ASSUME NEW d \in Seq(Byte), NEW s \in Seq(Byte), NEW h \in Seq(Byte), NEW w \in Seq(Byte),
           NEW vendor \in Seq(Byte), NoNull(d), NoNull(s), NoNull(h), NoNull(w),
           NEW b, b = CaptureModuleBody(d, s, h, w, vendor), Len(b) < Uint16Mod
    PROVE  /\ RemoveTrailingNulls(StringView(b, 1)) = d
           /\ RemoveTrailingNulls(StringView(b, 2)) = s
           /\ RemoveTrailingNulls(StringView(b, 3)) = h
           /\ RemoveTrailingNulls(StringView(b, 4)) = w
           /\ StringView(b, 5) = vendor
<1>1. PICK n1 \in {1, 2} : FillWithString(d) = Part(d \o Zeros(n1))
  BY FilledIs
<1>2. PICK n2 \in {1, 2} : FillWithString(s) = Part(s \o Zeros(n2))
  BY FilledIs
<1>3. PICK n3 \in {1, 2} : FillWithString(h) = Part(h \o Zeros(n3))
  BY FilledIs
<1>4. PICK n4 \in {1, 2} : FillWithString(w) = Part(w \o Zeros(n4))
  BY FilledIs
<1> DEFINE x1 == d \o Zeros(n1)
           x2 == s \o Zeros(n2)
           x3 == h \o Zeros(n3)
           x4 == w \o Zeros(n4)
           four == ((Part(x1) \o Part(x2)) \o Part(x3)) \o Part(x4)
<1>5. /\ Zeros(n1) \in Seq(Byte) /\ Zeros(n2) \in Seq(Byte)
      /\ Zeros(n3) \in Seq(Byte) /\ Zeros(n4) \in Seq(Byte)
  BY ZerosIs
<1>6. x1 \in Seq(Byte) /\ x2 \in Seq(Byte) /\ x3 \in Seq(Byte) /\ x4 \in Seq(Byte)
  BY <1>5, ConcatIs
<1>7. /\ RemoveTrailingNulls(x1) = d /\ RemoveTrailingNulls(x2) = s
      /\ RemoveTrailingNulls(x3) = h /\ RemoveTrailingNulls(x4) = w
  <2>1. n1 \in Nat \ {0} /\ n2 \in Nat \ {0} /\ n3 \in Nat \ {0} /\ n4 \in Nat \ {0}
    OBVIOUS
  <2>2. RemoveTrailingNulls(x1) = d
    BY <2>1, NullsRemoved DEF NoNull
  <2>3. RemoveTrailingNulls(x2) = s
    BY <2>1, NullsRemoved DEF NoNull
  <2>4. RemoveTrailingNulls(x3) = h
    BY <2>1, NullsRemoved DEF NoNull
  <2>5. RemoveTrailingNulls(x4) = w
    BY <2>1, NullsRemoved DEF NoNull
  <2> QED
    BY ONLY <2>2, <2>3, <2>4, <2>5
<1> HIDE DEF x1, x2, x3, x4
<1>8. b = (four \o Uint16(Len(vendor))) \o vendor
  BY <1>1, <1>2, <1>3, <1>4 DEF CaptureModuleBody, x1, x2, x3, x4
<1>9. four \in Seq(Byte)
  <2>1. /\ Part(x1) \in Seq(Byte) /\ Part(x2) \in Seq(Byte)
        /\ Part(x3) \in Seq(Byte) /\ Part(x4) \in Seq(Byte)
    BY <1>6, PartIs
  <2>2. Part(x1) \o Part(x2) \in Seq(Byte)
    BY <2>1, ConcatIs
  <2>3. (Part(x1) \o Part(x2)) \o Part(x3) \in Seq(Byte)
    BY <2>1, <2>2, ConcatIs
  <2> QED
    BY <2>1, <2>3, ConcatIs
<1>10. b = four \o Part(vendor)
  <2> DEFINE u == Uint16(Len(vendor))
  <2>1. u \in Seq(Byte) /\ vendor \in Seq(Byte)
    BY Uint16Is
  <2>2. b = (four \o u) \o vendor
    BY <1>8
  <2>3. Part(vendor) = u \o vendor
    BY DEF Part
  <2> HIDE DEF four, u
  <2>4. (four \o u) \o vendor = four \o (u \o vendor)
    BY ONLY <1>9, <2>1, ConcatAssociates
  <2> QED
    BY ONLY <2>2, <2>3, <2>4
<1>11. /\ StringView(b, 1) = x1 /\ StringView(b, 2) = x2 /\ StringView(b, 3) = x3
       /\ StringView(b, 4) = x4 /\ StringView(b, 5) = vendor
  <2>1. Len(b) < Uint16Mod /\ vendor \in Seq(Byte)
    OBVIOUS
  <2>2. b = FiveParts(x1, x2, x3, x4, vendor)
    BY <1>10 DEF FiveParts
  <2> QED
    BY ONLY <1>6, <2>1, <2>2, FivePartsRead, SMTT(60)
<1> QED
  BY <1>7, <1>11-----------------------------------------------------------------------------
\* What is copied stands where it was copied to, and what it spares stays.
LEMMA CopiedStands ==
    ASSUME NEW b \in Seq(Byte), NEW s \in Seq(Byte), NEW pos \in Nat, pos + Len(s) <= Len(b)
    PROVE  /\ Stands(s, Copied(b, pos, s), pos)
           /\ \A t \in Seq(Byte) : Len(t) <= pos /\ Stands(t, b, 0)
                                    => Stands(t, Copied(b, pos, s), 0)
<1> DEFINE c == Copied(b, pos, s)
<1>1. c \in Seq(Byte) /\ Len(c) = Len(b)
  BY CopiedIs
<1>2. \A i \in DOMAIN b : c[i] = IF i \in pos + 1 .. pos + Len(s) THEN s[i - pos] ELSE b[i]
  BY DEF Copied
<1> HIDE DEF c
<1>3. ASSUME NEW i \in 1 .. Len(s) PROVE c[pos + i] = s[i]
  <2>1. pos + i \in DOMAIN b /\ pos + i \in pos + 1 .. pos + Len(s) /\ (pos + i) - pos = i
    OBVIOUS
  <2> QED
    BY <1>2, <2>1
<1>4. Stands(s, c, pos)
  BY <1>1, <1>3 DEF Stands
<1>5. ASSUME NEW t \in Seq(Byte), Len(t) <= pos, Stands(t, b, 0) PROVE Stands(t, c, 0)
  <2>1. ASSUME NEW i \in 1 .. Len(t) PROVE c[0 + i] = t[i]
    <3>1. i \in DOMAIN b /\ i \notin pos + 1 .. pos + Len(s) /\ 0 + i = i
      BY <1>5
    <3>2. b[0 + i] = t[i]
      BY <1>5 DEF Stands
    <3> QED
      BY <1>2, <3>1, <3>2
  <2> QED
    BY <1>1, <1>5, <2>1 DEF Stands
<1> QED
  BY <1>4, <1>5 DEF c

\* setData of the data classes overwrites all there was.
LEMMA DataWritten ==
    ASSUME NEW b \in Seq(Byte), NEW data \in Seq(Byte)
    PROVE  Copied(Resized(b, Len(data)), 0, data) = data
<1> DEFINE r == Resized(b, Len(data))
           c == Copied(r, 0, data)
<1>1. r \in Seq(Byte) /\ Len(r) = Len(data)
  <2>1. Len(data) \in Nat
    OBVIOUS
  <2> QED
    BY <2>1, ResizedIs
<1> HIDE DEF r
<1>2. c \in Seq(Byte) /\ Len(c) = Len(data)
  BY <1>1, CopiedIs
<1>3. Stands(data, c, 0)
  BY <1>1, CopiedStands
<1> HIDE DEF c
<1>4. \A i \in 1 .. Len(data) : c[i] = data[i]
  <2> SUFFICES ASSUME NEW i \in 1 .. Len(data) PROVE c[i] = data[i]
    OBVIOUS
  <2>1. 0 + i = i /\ c[0 + i] = data[i]
    BY <1>3 DEF Stands
  <2> QED
    BY <2>1
<1>5. c = data
  BY <1>2, <1>4
<1> QED
  BY <1>5 DEF c, r

\* What setData of an interface payload was given is what its getters find.
LEMMA InterfaceBodyReads ==
    ASSUME NEW b \in Seq(Byte), NEW ids \in Seq(Byte), NEW vendor \in Seq(Byte),
           NEW body, body = InterfaceBody(b, ids, vendor), Len(body) < Uint16Mod
    PROVE  StreamIds(body) = ids /\ InterfaceVendorData(body) = vendor
<1> DEFINE n == Len(ids)
           m == Len(vendor)
           pos == 2 + n + (n % 2)
           resized == Resized(b, pos + 2 + m)
           first == Copied(resized, 0, Part(ids))
<1>1. n \in Nat /\ m \in Nat
  OBVIOUS
<1>2. Part(ids) \in Seq(Byte) /\ Len(Part(ids)) = 2 + n
  BY PartIs
<1>3. Part(vendor) \in Seq(Byte) /\ Len(Part(vendor)) = 2 + m
  BY PartIs
<1>4. body = Copied(first, pos, Part(vendor))
  BY DEF InterfaceBody, Part
<1> HIDE DEF n, m
<1>5. pos \in Nat /\ pos + 2 + m \in Nat /\ 2 + n <= pos /\ n % 2 \in {0, 1}
  BY <1>1
<1> HIDE DEF pos
<1>6. resized \in Seq(Byte) /\ Len(resized) = pos + 2 + m
  BY <1>5, ResizedIs
<1> HIDE DEF resized
<1>7. 0 \in Nat /\ 0 + Len(Part(ids)) <= Len(resized)
  BY <1>1, <1>2, <1>5, <1>6
<1>8. first \in Seq(Byte) /\ Len(first) = Len(resized)
  BY ONLY <1>2, <1>6, <1>7, CopiedIs
<1>9. Stands(Part(ids), first, 0)
  BY ONLY <1>2, <1>6, <1>7, CopiedStands
<1> HIDE DEF first
<1>10. body \in Seq(Byte) /\ Len(body) = Len(first)
  BY ONLY <1>3, <1>4, <1>5, <1>8, CopiedIs
<1>11. pos + Len(Part(vendor)) <= Len(first) /\ Len(Part(ids)) <= pos
  BY ONLY <1>1, <1>2, <1>3, <1>5, <1>6, <1>8
<1>12. Stands(Part(vendor), body, pos) /\ Stands(Part(ids), body, 0)
  BY ONLY <1>2, <1>3, <1>4, <1>5, <1>8, <1>9, <1>11, CopiedStands
<1>13. Uint16Mod \in Nat /\ Uint16Mod > 0
  BY ByteModAssumption DEF Uint16Mod
<1>14. pos + 2 + m < Uint16Mod
  BY <1>6, <1>8, <1>10
<1>15. n < Uint16Mod /\ m < Uint16Mod
  BY ONLY <1>1, <1>5, <1>13, <1>14
<1>16. /\ Uint16At(body, 0) = n
       /\ SubSeq(body, 0 + 3, 0 + 2 + n) = ids
  <2>1. ids \in Seq(Byte) /\ Len(ids) < Uint16Mod
    BY <1>15 DEF n
  <2> QED
    BY ONLY <1>7, <1>10, <1>12, <2>1, PartReads DEF n
<1>17. /\ Uint16At(body, pos) = m
       /\ SubSeq(body, pos + 3, pos + 2 + m) = vendor
  <2>1. vendor \in Seq(Byte) /\ Len(vendor) < Uint16Mod
    BY <1>15 DEF m
  <2> QED
    BY ONLY <1>5, <1>10, <1>12, <2>1, PartReads DEF m
<1>18. StreamIds(body) = ids
  <2>1. 0 + 3 = 3 /\ 0 + 2 + n = 2 + n
    BY <1>1
  <2> QED
    BY ONLY <1>16, <2>1 DEF StreamIds
<1>19. VendorDataLengthPos(body) = pos
  <2> DEFINE l == n + (n % 2)
  <2>1. l \in Nat /\ l < Uint16Mod /\ 2 + l = pos
    BY <1>1, <1>5, <1>13, <1>14 DEF pos
  <2>2. VendorDataLengthPos(body) = 2 + (l % Uint16Mod)
    BY <1>16 DEF VendorDataLengthPos
  <2> HIDE DEF l
  <2>3. l % Uint16Mod = l
    BY ONLY <1>13, <2>1
  <2> QED
    BY ONLY <2>1, <2>2, <2>3
<1>20. InterfaceVendorData(body) = vendor
  BY ONLY <1>17, <1>19 DEF InterfaceVendorData
<1> QED
  BY <1>18, <1>20

\* A payload that nothing was written to reads as empty: all its lengths are 0.
LEMMA ZerosRead ==
    ASSUME NEW n \in Nat, NEW pos \in Nat, pos + 2 <= n
    PROVE  /\ Uint16At(Zeros(n), pos) = 0
           /\ SubSeq(Zeros(n), pos + 3, pos + 2 + 0) = <<>>
<1>1. Zeros(n)[pos + 1] = 0 /\ Zeros(n)[pos + 2] = 0
  BY DEF Zeros
<1>2. 0 * ByteMod + 0 = 0
  BY ByteModAssumption
<1>3. Uint16At(Zeros(n), pos) = 0
  BY <1>1, <1>2 DEF Uint16At
<1> DEFINE z == Zeros(n)
<1>4. z \in Seq(Byte)
  BY ZerosIs
<1> HIDE DEF z
<1>5. SubSeq(z, pos + 3, pos + 2 + 0) = <<>>
  <2>1. pos + 3 > pos + 2 + 0
    OBVIOUS
  <2> QED
    BY <1>4, <2>1
<1> QED
  BY <1>3, <1>5 DEF z

LEMMA EmptyInterfaceReads == StreamIds(Zeros(4)) = <<>> /\ InterfaceVendorData(Zeros(4)) = <<>>
<1> DEFINE z == Zeros(4)
<1>1. Uint16At(z, 0) = 0 /\ SubSeq(z, 0 + 3, 0 + 2 + 0) = <<>>
  BY ZerosRead
<1>2. Uint16At(z, 2) = 0 /\ SubSeq(z, 2 + 3, 2 + 2 + 0) = <<>>
  BY ZerosRead
<1> HIDE DEF z
<1>3. StreamIds(z) = <<>>
  BY <1>1 DEF StreamIds
<1>4. VendorDataLengthPos(z) = 2
  <2>1. Uint16Mod \in Nat /\ Uint16Mod > 0
    BY ByteModAssumption DEF Uint16Mod
  <2>2. 0 % Uint16Mod = 0
    BY ONLY <2>1
  <2>3. 0 + (0 % 2) = 0
    OBVIOUS
  <2> QED
    BY <1>1, <2>2, <2>3 DEF VendorDataLengthPos
<1>5. InterfaceVendorData(z) = <<>>
  BY <1>2, <1>4 DEF InterfaceVendorData
<1> QED
  BY <1>3, <1>5 DEF z

LEMMA EmptyCaptureModuleReads ==
    ASSUME NEW k \in 1 .. 5
    PROVE  StringView(Zeros(10), k) = <<>>
<1> DEFINE z == Zeros(10)
           p == [i \in 1 .. 5 |-> 2 * (i - 1)]
<1>1. \A i \in 1 .. 5 : p[i] \in Nat /\ p[i] + 2 <= 10
  OBVIOUS
<1>2. \A i \in 1 .. 5 : Uint16At(z, p[i]) = 0 /\ SubSeq(z, p[i] + 3, p[i] + 2 + 0) = <<>>
  <2> HIDE DEF p
  <2> QED
    BY <1>1, ZerosRead
<1>3. p[1] = 0 /\ \A i \in 2 .. 5 : p[i] = p[i - 1] + 2 + 0 /\ i - 1 \in 1 .. 5
  OBVIOUS
<1> HIDE DEF z, p
<1>4. \A i \in 2 .. 5 : p[i] = p[i - 1] + 2 + Uint16At(z, p[i - 1])
  BY <1>2, <1>3
<1>5. StringView(z, k) = SubSeq(z, p[k] + 3, p[k] + 2 + Uint16At(z, p[k]))
  BY <1>3, <1>4, StringViewIs
<1> QED
  BY <1>2, <1>5 DEF z

LEMMA NoNullToRemove == RemoveTrailingNulls(<<>>) = <<>>
BY DEF RemoveTrailingNulls
=============================================================================
