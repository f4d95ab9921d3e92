--------------------------- MODULE CmpPacket_proofs ---------------------------
(***************************************************************************)
(* That packets own their payloads and behave like values, for any number  *)
(* of packets and blocks and any payloads.  Nearly every operation is a    *)
(* Put, so what Put does to ownership, to the values and to a reference is *)
(* shown once; moves and writes are shown apart.                           *)
(***************************************************************************)
EXTENDS CmpPacketProps, TLAPS

\* What TypeOK and UniqueOwnership say together, without "last".
Owned ==
    /\ live \subseteq Object
    /\ fields \in [Object -> [Field -> Nat]]
    /\ pointer \in [Object -> Block \cup {None}]
    /\ heap \in [Block -> Payload \cup {None}]
    /\ ref \in Block \cup {None}
    /\ \A o \in Object : pointer[o] # None => o \in live
    /\ UniqueOwnership

LEMMA DefaultType == Default \in [Field -> Nat]
BY DEF Default

\* What a Put may store: nothing, or a payload in a block that is free.
Storable(b, c) == b = None \/ (b \in Free /\ c \in Payload)

LEMMA PutKeepsOwnership ==
    ASSUME Owned, NEW o \in Object, NEW newFields \in [Field -> Nat], NEW b, NEW c,
           Put(o, newFields, b, c), Storable(b, c), live' \subseteq Object,
           \A s \in Object \ {o} : s \in live => s \in live',
           b # None => o \in live'
    PROVE  Owned'
<1>1. /\ fields' \in [Object -> [Field -> Nat]]
      /\ pointer' \in [Object -> Block \cup {None}]
      /\ heap' \in [Block -> Payload \cup {None}]
      /\ ref' \in Block \cup {None}
  <2>1. fields' \in [Object -> [Field -> Nat]]
    BY DEF Owned, Put
  <2>2. b \in Block \cup {None}
    BY DEF Storable, Free
  <2>3. pointer' \in [Object -> Block \cup {None}]
    BY <2>2 DEF Owned, Put
  <2>4. \A x \in Block : x = b => c \in Payload
    BY NoneAssumption DEF Storable
  <2>5. heap' \in [Block -> Payload \cup {None}]
    BY <2>4 DEF Owned, Put
  <2>6. ref' \in Block \cup {None}
    BY DEF Owned, Put
  <2> QED
    BY <2>1, <2>3, <2>5, <2>6
<1>2. \A s \in Object : pointer'[s] # None => s \in live'
  BY DEF Owned, Put
<1>3. /\ \A s \in Object : pointer'[s] = IF s = o THEN b ELSE pointer[s]
      /\ \A x \in Block : heap'[x] = IF x = b THEN c
                                     ELSE IF x = pointer[o] THEN None ELSE heap[x]
  BY DEF Owned, Put
<1>4. \A x \in Block : heap'[x] # None <=> \E s \in Object : pointer'[s] = x
  <2> SUFFICES ASSUME NEW x \in Block
               PROVE  heap'[x] # None <=> \E s \in Object : pointer'[s] = x
    OBVIOUS
  <2>1. CASE x = b
    BY <2>1, <1>3, NoneAssumption DEF Storable
  <2>2. CASE x # b /\ x = pointer[o]
    BY <2>2, <1>3, NoneAssumption DEF Owned, UniqueOwnership
  <2>3. CASE x # b /\ x # pointer[o]
    BY <2>3, <1>3 DEF Owned, UniqueOwnership
  <2> QED
    BY <2>1, <2>2, <2>3
<1>5. \A s, t \in Object : pointer'[s] = pointer'[t] /\ pointer'[s] # None => s = t
  <2>1. b # None => \A s \in Object : pointer[s] # b
    BY DEF Storable, Free, Owned, UniqueOwnership
  <2> QED
    BY <2>1, <1>3 DEF Owned, UniqueOwnership
<1>6. ref' # None => heap'[ref'] # None
  <2> SUFFICES ASSUME ref' # None PROVE heap'[ref'] # None
    OBVIOUS
  <2>1. ref' = ref /\ ref # pointer[o] /\ ref \in Block /\ heap[ref] # None
    BY DEF Owned, UniqueOwnership, Put
  <2>2. ref # b
    BY <2>1 DEF Storable, Free
  <2> QED
    BY <2>1, <2>2, <1>3
<1> QED
  BY <1>1, <1>2, <1>4, <1>5, <1>6 DEF Owned, UniqueOwnership

\* Moving: pointers change places, the heap stays.
LEMMA SwapKeepsOwnership ==
    ASSUME Owned, NEW o \in Object, NEW s \in Object,
           fields' \in [Object -> [Field -> Nat]],
           pointer' = [pointer EXCEPT ![o] = pointer[s], ![s] = pointer[o]],
           UNCHANGED <<heap, ref>>, live' \subseteq Object, live \subseteq live',
           {o, s} \subseteq live'
    PROVE  Owned'
<1>1. \A x \in Object : pointer'[x] = IF x = s THEN pointer[o]
                                      ELSE IF x = o THEN pointer[s] ELSE pointer[x]
  BY DEF Owned
<1>2. pointer' \in [Object -> Block \cup {None}]
  BY DEF Owned
<1>3. \A x \in Object : pointer'[x] # None => x \in live'
  BY <1>1 DEF Owned
<1>4. \A b : (\E x \in Object : pointer[x] = b) <=> (\E x \in Object : pointer'[x] = b)
  BY <1>1
<1>5. \A x, y \in Object : pointer'[x] = pointer'[y] /\ pointer'[x] # None => x = y
  BY <1>1 DEF Owned, UniqueOwnership
<1> QED
  BY <1>2, <1>3, <1>4, <1>5 DEF Owned, UniqueOwnership

\* The packet a reference leads to is the one that owns the block, in a state
\* and in the next.
OwnerOf(p, r) == IF r = None THEN None ELSE CHOOSE o \in Object : p[o] = r

LEMMA OwnerIs ==
    ASSUME NEW p, NEW r,
           r # None => \E o \in Object : p[o] = r,
           \A o, s \in Object : p[o] = p[s] /\ p[o] # None => o = s
    PROVE  /\ r = None => OwnerOf(p, r) = None
           /\ r # None => OwnerOf(p, r) \in Object /\ p[OwnerOf(p, r)] = r
           /\ \A o \in Object : OwnerOf(p, r) = o <=> (r # None /\ p[o] = r)
<1>1. CASE r = None
  BY <1>1, NoneAssumption DEF OwnerOf
<1>2. CASE r # None
  <2>1. OwnerOf(p, r) \in Object /\ p[OwnerOf(p, r)] = r
    BY <1>2 DEF OwnerOf
  <2> QED
    BY <1>2, <2>1
<1> QED
  BY <1>1, <1>2

LEMMA HeldIs ==
    ASSUME Owned
    PROVE  /\ ref = None => Held = None
           /\ ref # None => Held \in Object /\ pointer[Held] = ref
           /\ \A o \in Object : Held = o <=> (ref # None /\ pointer[o] = ref)
<1>1. Held = OwnerOf(pointer, ref)
  BY DEF Held, OwnerOf
<1> QED
  BY <1>1, OwnerIs DEF Owned, UniqueOwnership

LEMMA HeldNextIs ==
    ASSUME Owned'
    PROVE  /\ ref' = None => Held' = None
           /\ ref' # None => Held' \in Object /\ pointer'[Held'] = ref'
           /\ \A o \in Object : Held' = o <=> (ref' # None /\ pointer'[o] = ref')
<1>1. Held' = OwnerOf(pointer', ref')
  BY DEF Held, OwnerOf
<1>2. /\ ref' # None => \E o \in Object : pointer'[o] = ref'
      /\ \A o, s \in Object : pointer'[o] = pointer'[s] /\ pointer'[o] # None => o = s
  BY DEF Owned, UniqueOwnership
<1> QED
  BY <1>1, <1>2, OwnerIs
-----------------------------------------------------------------------------
\* What each operation does to ownership.
LEMMA ContentType ==
    ASSUME Owned, NEW s \in Object
    PROVE  \A b \in CopyOf(pointer[s]) : Storable(b, Content(pointer[s]))
<1>1. CASE pointer[s] = None
  BY <1>1 DEF CopyOf, Storable
<1>2. CASE pointer[s] # None
  <2>1. pointer[s] \in Block /\ heap[pointer[s]] \in Payload
    BY <1>2 DEF Owned, UniqueOwnership
  <2> QED
    BY <1>2, <2>1 DEF CopyOf, Storable, Content
<1> QED
  BY <1>1, <1>2

LEMMA CreateType ==
    ASSUME Owned, NEW s \in Object, pointer[s] # None
    PROVE  /\ Create(Message(s)) \in Payload
           /\ FromMessageHeader(Message(s)) \in [Field -> Nat]
<1>1. heap[pointer[s]] \in Payload
  BY DEF Owned, UniqueOwnership
<1>2. fields[s] \in [Field -> Nat]
  BY DEF Owned
<1> DEFINE m == Message(s)
           p == heap[pointer[s]]
<1>3. /\ m.messageType \in {"undefined", "data", "control", "status", "vendor"}
      /\ m.payloadType \in Nat /\ m.data \in Data
      /\ m.length \in Nat
  BY <1>1, LengthModAssumption DEF Message, Payload
<1>4. m.timestamp \in Nat /\ m.id \in Nat /\ m.commonFlags \in Nat
  <2>1. {"timestamp", "interfaceId", "vendorId", "commonFlags"} \subseteq Field
    BY DEF Field
  <2>2. m.timestamp \in Nat /\ m.commonFlags \in Nat
    BY <1>2, <2>1 DEF Message
  <2>3. m.id \in Nat
    BY <1>2, <2>1 DEF Message
  <2> QED
    BY <2>2, <2>3
<1> HIDE DEF m
<1>5. Create(m) \in Payload
  BY <1>3, ZeroAssumption, PayloadsAssumption DEF Create, Payload
<1>6. FromMessageHeader(m) \in [Field -> Nat]
  BY <1>4, DefaultType DEF FromMessageHeader
<1> QED
  BY <1>5, <1>6 DEF m

LEMMA OwnedInvariant == Spec => []Owned
<1>1. Init => Owned
  BY DefaultType, NoneAssumption DEF Init, Owned, UniqueOwnership
<1>2. Owned /\ [Next]_vars => Owned'
  <2> SUFFICES ASSUME Owned, [Next]_vars PROVE Owned'
    OBVIOUS
  <2>0. \A x \in Object : fields[x] \in [Field -> Nat]
    BY DEF Owned
  <2>1. ASSUME NEW c \in Payloads, WritePayload(c) PROVE Owned'
    <3>1. ref \in Block /\ c \in Payload /\ c # None
      BY <2>1, PayloadsAssumption, NoneAssumption DEF WritePayload, Owned
    <3>2. heap' \in [Block -> Payload \cup {None}]
      BY <2>1, <3>1 DEF WritePayload, Owned
    <3>3. \A x \in Block : heap'[x] # None <=> heap[x] # None
      BY <2>1, <3>1 DEF WritePayload, Owned, UniqueOwnership
    <3> QED
      BY <2>1, <3>1, <3>2, <3>3 DEF WritePayload, Owned, UniqueOwnership
  <2>2. ASSUME NEW o \in Object, Construct(o) \/ Destroy(o) PROVE Owned'
    <3>1. Put(o, Default, None, None) /\ Storable(None, None)
      BY <2>2 DEF Construct, Destroy, Storable
    <3>2. live' \subseteq Object /\ \A s \in Object \ {o} : s \in live => s \in live'
      BY <2>2 DEF Construct, Destroy, Owned
    <3> QED
      BY <3>1, <3>2, DefaultType, PutKeepsOwnership
  <2>3. ASSUME NEW o \in Object, GetPayload(o) PROVE Owned'
    BY <2>3 DEF GetPayload, Owned, UniqueOwnership
  <2>4. ASSUME NEW o \in Object, NEW setting \in Settings,
               SetField(o, setting[1], setting[2])
        PROVE  Owned'
    <3>1. setting[1] \in Field /\ setting[2] \in Nat
      BY SettingsAssumption
    <3>2. fields' \in [Object -> [Field -> Nat]]
      BY <2>4, <3>1 DEF SetField, Owned
    <3> QED
      BY <2>4, <3>2 DEF SetField, Owned, UniqueOwnership
  <2>5. ASSUME NEW o \in Object, NEW c \in Payloads, SetPayload(o, c) PROVE Owned'
    <3>1. PICK b \in Free : Put(o, fields[o], b, c)
      BY <2>5 DEF SetPayload
    <3>2. Storable(b, c) /\ UNCHANGED live /\ o \in live
      BY <2>5, PayloadsAssumption DEF Storable, SetPayload
    <3>3. live' \subseteq Object /\ \A s \in Object \ {o} : s \in live => s \in live'
      BY <3>2 DEF Owned
    <3> QED
      BY <2>0, <3>1, <3>2, <3>3, PutKeepsOwnership
  <2>6. ASSUME NEW o \in Object, NEW s \in Object, ConstructFromMessage(o, s)
        PROVE  Owned'
    <3>1. PICK b \in Free :
            Put(o, FromMessageHeader(Message(s)), b, Create(Message(s)))
      BY <2>6 DEF ConstructFromMessage
    <3>2. pointer[s] # None /\ live' = live \cup {o}
      BY <2>6 DEF ConstructFromMessage
    <3>3. Storable(b, Create(Message(s))) /\ FromMessageHeader(Message(s)) \in [Field -> Nat]
      BY <3>2, CreateType DEF Storable
    <3>4. live' \subseteq Object /\ o \in live' /\ \A x \in Object \ {o} : x \in live => x \in live'
      BY <3>2 DEF Owned
    <3> QED
      BY <3>1, <3>3, <3>4, PutKeepsOwnership
  <2>7. ASSUME NEW o \in Object, NEW s \in Object, CopyConstruct(o, s) PROVE Owned'
    <3>1. PICK b \in CopyOf(pointer[s]) : Put(o, fields[s], b, Content(pointer[s]))
      BY <2>7 DEF CopyConstruct
    <3>2. Storable(b, Content(pointer[s]))
      BY ContentType
    <3>3. live' \subseteq Object /\ o \in live' /\ \A x \in Object \ {o} : x \in live => x \in live'
      BY <2>7 DEF CopyConstruct, Owned
    <3> QED
      BY <2>0, <3>1, <3>2, <3>3, PutKeepsOwnership
  <2>8. ASSUME NEW o \in Object, NEW s \in Object, MoveConstruct(o, s) PROVE Owned'
    <3>1. pointer[o] = None
      BY <2>8 DEF MoveConstruct, Owned
    <3>2. pointer' = [pointer EXCEPT ![o] = pointer[s], ![s] = pointer[o]]
      BY <2>8, <3>1 DEF MoveConstruct
    <3>3. fields' \in [Object -> [Field -> Nat]]
      BY <2>8, DefaultType DEF MoveConstruct, Owned
    <3>4. live' \subseteq Object /\ live \subseteq live' /\ {o, s} \subseteq live'
      BY <2>8 DEF MoveConstruct, Owned
    <3>5. UNCHANGED <<heap, ref>>
      BY <2>8 DEF MoveConstruct
    <3> QED
      BY <3>2, <3>3, <3>4, <3>5, SwapKeepsOwnership
  <2>9. ASSUME NEW o \in Object, NEW s \in Object, CopyAssign(o, s) PROVE Owned'
    <3>1. CASE Equal(o, s)
      BY <2>9, <3>1 DEF CopyAssign, Owned, UniqueOwnership
    <3>2. CASE ~ Equal(o, s)
      <4>1. PICK b \in CopyOf(pointer[s]) : Put(o, fields[s], b, Content(pointer[s]))
        BY <2>9, <3>2 DEF CopyAssign
      <4>2. Storable(b, Content(pointer[s]))
        BY ContentType
      <4>3. live' \subseteq Object /\ o \in live' /\ \A x \in Object \ {o} : x \in live => x \in live'
        BY <2>9 DEF CopyAssign, Owned
      <4> QED
        BY <2>0, <4>1, <4>2, <4>3, PutKeepsOwnership
    <3> QED
      BY <3>1, <3>2
  <2>10. ASSUME NEW o \in Object, NEW s \in Object, MoveAssign(o, s) PROVE Owned'
    <3>1. fields' \in [Object -> [Field -> Nat]]
      BY <2>10 DEF MoveAssign, Owned
    <3>2. live' \subseteq Object /\ live \subseteq live' /\ {o, s} \subseteq live'
      BY <2>10 DEF MoveAssign, Owned
    <3>3. /\ pointer' = [pointer EXCEPT ![o] = pointer[s], ![s] = pointer[o]]
          /\ UNCHANGED <<heap, ref>>
      BY <2>10 DEF MoveAssign
    <3> QED
      BY <3>1, <3>2, <3>3, SwapKeepsOwnership
  <2>11. CASE UNCHANGED vars
    BY <2>11 DEF vars, Owned, UniqueOwnership
  <2> QED
    BY <2>1, <2>2, <2>3, <2>4, <2>5, <2>6, <2>7, <2>8, <2>9, <2>10, <2>11 DEF Next
<1> QED
  BY <1>1, <1>2, PTL DEF Spec
-----------------------------------------------------------------------------
(***************************************************************************)
(* The variables keep their types, and only constructed packets have a     *)
(* payload (packet.h:88-102).                                              *)
(***************************************************************************)
THEOREM TypeCorrect == Spec => []TypeOK
<1> DEFINE LastOK == last \in [op: {"other", "assign", "message"},
                               to: Object \cup {None}, from: Object \cup {None}]
<1>1. Init => LastOK
  BY DEF Init
<1>2. LastOK /\ [Next]_vars => LastOK'
  BY DEF vars, Next, WritePayload, Construct, Destroy, GetPayload, SetField, SetPayload,
         ConstructFromMessage, CopyConstruct, MoveConstruct, CopyAssign, MoveAssign,
         Did, DidOther
<1>3. Owned /\ LastOK => TypeOK
  BY DEF Owned, TypeOK
<1> QED
  BY <1>1, <1>2, <1>3, OwnedInvariant, PTL DEF Spec

(***************************************************************************)
(* However packets are copied, moved, assigned and destroyed, each payload *)
(* has exactly one owner and is freed with it (packet.cpp:25-59, 258-261,  *)
(* 338-351).                                                               *)
(***************************************************************************)
THEOREM PacketsOwnPayloads == Spec => []UniqueOwnership
<1>1. Owned => UniqueOwnership
  BY DEF Owned
<1> QED
  BY <1>1, OwnedInvariant, PTL

(***************************************************************************)
(* A copy assignment makes the packets alike but for payloads that report  *)
(* no length: the early exit of operator= never keeps anything else back   *)
(* (packet.cpp:45-53, 90-93).                                              *)
(***************************************************************************)
THEOREM AssignmentsCopy == Spec => []AssignedAlike
<1>1. Init => AssignedAlike
  BY DEF Init, AssignedAlike
<1>2. Owned /\ AssignedAlike /\ [Next]_vars => AssignedAlike'
  <2> SUFFICES ASSUME Owned, AssignedAlike, [Next]_vars PROVE AssignedAlike'
    OBVIOUS
  <2>1. ASSUME NEW o \in Object, NEW s \in Object, CopyAssign(o, s) PROVE AssignedAlike'
    <3>0. last'.op = "assign" /\ last'.to = o /\ last'.from = s
      BY <2>1 DEF CopyAssign, Did
    <3>1. CASE Equal(o, s)
      <4>1. UNCHANGED <<fields, pointer, heap>> /\ fields[o] = fields[s]
        BY <2>1, <3>1 DEF CopyAssign, Equal
      <4>2. \/ Content(pointer[o]) = Content(pointer[s])
            \/ Length(pointer[o]) = 0 /\ Length(pointer[s]) = 0
        <5>1. CASE Length(pointer[o]) > 0
          <6>1. pointer[o] # None /\ pointer[s] # None
            BY <3>1, <5>1 DEF Equal, Length
          <6> QED
            BY <3>1, <5>1, <6>1 DEF Equal, SamePayload, Content
        <5>2. CASE ~ (Length(pointer[o]) > 0)
          <6>1. Length(pointer[o]) \in Nat
            BY LengthModAssumption DEF Length, Owned, UniqueOwnership, Payload
          <6> QED
            BY <3>1, <5>2, <6>1 DEF Equal
        <5> QED
          BY <5>1, <5>2
      <4> QED
        BY <3>0, <4>1, <4>2 DEF AssignedAlike, Content, Length
    <3>2. CASE ~ Equal(o, s)
      <4>1. PICK b \in CopyOf(pointer[s]) : Put(o, fields[s], b, Content(pointer[s]))
        BY <2>1, <3>2 DEF CopyAssign
      <4>2. fields'[o] = fields[s] /\ fields'[s] = fields[s] /\ pointer'[o] = b
        BY <4>1 DEF Put, Owned
      <4>3. Content(pointer[o])' = Content(pointer[s])
        <5>1. CASE pointer[s] = None
          BY <4>2, <5>1 DEF Content, CopyOf
        <5>2. CASE pointer[s] # None
          <6>1. b \in Block /\ b # None /\ heap'[b] = heap[pointer[s]]
            BY <4>1, <5>2, NoneAssumption DEF Put, Content, CopyOf, Free
          <6> QED
            BY <4>2, <5>2, <6>1 DEF Content
        <5> QED
          BY <5>1, <5>2
      <4>4. Content(pointer[s])' = Content(pointer[s])
        <5>1. CASE s = o
          BY <4>3, <5>1
        <5>2. CASE s # o
          <6>1. pointer'[s] = pointer[s]
            BY <4>1, <5>2 DEF Put, Owned
          <6>2. pointer[s] # None => pointer[s] \in Block /\ pointer[s] # b /\ pointer[s] # pointer[o]
            BY <5>2 DEF Owned, UniqueOwnership, CopyOf, Free
          <6> QED
            BY <4>1, <6>1, <6>2 DEF Put, Content
        <5> QED
          BY <5>1, <5>2
      <4> QED
        BY <3>0, <4>2, <4>3, <4>4 DEF AssignedAlike
    <3> QED
      BY <3>1, <3>2
  <2>2. CASE UNCHANGED vars
    BY <2>2 DEF vars, AssignedAlike, Content, Length
  <2>3. ASSUME last'.op # "assign" PROVE AssignedAlike'
    BY <2>3 DEF AssignedAlike
  <2> QED
    BY <2>1, <2>2, <2>3
       DEF Next, WritePayload, Construct, Destroy, GetPayload, SetField, SetPayload,
           ConstructFromMessage, CopyConstruct, MoveConstruct, MoveAssign, Did, DidOther
<1> QED
  BY <1>1, <1>2, OwnedInvariant, PTL DEF Spec

(***************************************************************************)
(* Every packet whose payload passes its check makes the same message      *)
(* again when it is constructed from its own (packet.cpp:14-23, 232-256,   *)
(* 280-336).                                                               *)
(***************************************************************************)
THEOREM MessagesSurvive == Spec => []MessageSurvives
<1>1. Init => MessageSurvives
  BY DEF Init, MessageSurvives
<1>2. Owned /\ MessageSurvives /\ [Next]_vars => MessageSurvives'
  <2> SUFFICES ASSUME Owned, MessageSurvives, [Next]_vars PROVE MessageSurvives'
    OBVIOUS
  <2>1. ASSUME NEW o \in Object, NEW s \in Object, ConstructFromMessage(o, s)
        PROVE  MessageSurvives'
    <3> DEFINE p == heap[pointer[s]]
               m == Message(s)
               f == FromMessageHeader(m)
    <3>0. last'.op = "message" /\ last'.to = o /\ last'.from = s
      BY <2>1 DEF ConstructFromMessage, Did
    <3>1. PICK b \in Free : Put(o, f, b, Create(m))
      BY <2>1 DEF ConstructFromMessage
    <3>2. /\ pointer[o] = None /\ pointer[s] \in Block /\ p \in Payload
          /\ o # s /\ pointer[s] # b /\ p.length < LengthMod /\ b \in Block
      BY <2>1 DEF ConstructFromMessage, Owned, UniqueOwnership, Free
    <3>3. pointer'[o] = b /\ pointer'[s] = pointer[s] /\ fields'[o] = f /\ fields'[s] = fields[s]
      BY <3>1, <3>2 DEF Put, Owned
    <3>4. heap'[b] = Create(m) /\ heap'[pointer[s]] = p
      BY <3>1, <3>2, NoneAssumption DEF Put
    <3>5. m.length = p.length
      <4>1. p.length \in 0 .. LengthMod - 1
        BY <3>2, LengthModAssumption DEF Payload
      <4>2. p.length % LengthMod = p.length
        BY <4>1, LengthModAssumption
      <4> QED
        BY <4>2 DEF Message
    <3>6. [messageType |-> m.messageType, payloadType |-> m.payloadType,
           length |-> m.length, data |-> m.data] = p
      <4>1. m.messageType = p.messageType /\ m.payloadType = p.payloadType /\ m.data = p.data
        BY DEF Message
      <4> QED
        BY <3>2, <3>5, <4>1 DEF Payload
    <3>7. CASE p \in WellFormed
      <4>1. Create(m) = p
        BY <3>6, <3>7 DEF Create
      <4>2. /\ f["timestamp"] = fields[s]["timestamp"]
            /\ f["commonFlags"] = fields[s]["commonFlags"]
            /\ p.messageType = "data" => f["interfaceId"] = fields[s]["interfaceId"]
            /\ p.messageType \in {"status", "vendor"} => f["vendorId"] = fields[s]["vendorId"]
        BY DEF FromMessageHeader, Message, Default, Field
      <4> HIDE DEF m, f
      <4>3. Message(o)' = Message(s)'
        BY <3>3, <3>4, <4>1, <4>2 DEF Message
      <4> QED
        BY <3>0, <3>3, <3>4, <3>7, <4>3 DEF MessageSurvives
    <3>8. CASE p \notin WellFormed
      <4>1. Create(m).messageType = "undefined" /\ Create(m).length = p.length
        BY <3>5, <3>6, <3>8 DEF Create
      <4> HIDE DEF m, f
      <4> QED
        BY <3>0, <3>3, <3>4, <3>8, <4>1 DEF MessageSurvives
    <3> QED
      BY <3>7, <3>8
  <2>2. CASE UNCHANGED vars
    BY <2>2 DEF vars, MessageSurvives, Message
  <2>3. ASSUME last'.op # "message" PROVE MessageSurvives'
    BY <2>3 DEF MessageSurvives
  <2> QED
    BY <2>1, <2>2, <2>3
       DEF Next, WritePayload, Construct, Destroy, GetPayload, SetField, SetPayload,
           CopyAssign, CopyConstruct, MoveConstruct, MoveAssign, Did, DidOther
<1> QED
  BY <1>1, <1>2, OwnedInvariant, PTL DEF Spec
-----------------------------------------------------------------------------
C == [o \in Object |-> Content(pointer[o])]

\* A Put replaces one packet in the eyes of PacketValues.
LEMMA PutReplaces ==
    ASSUME Owned, Owned', NEW o \in Object, NEW newFields, NEW b, NEW c,
           Put(o, newFields, b, c), Storable(b, c)
    PROVE  /\ Values!Replace(o)
           /\ C'[o] = IF b = None THEN None ELSE c
           /\ fields'[o] = newFields
<1>1. pointer'[o] = b /\ \A s \in Object \ {o} : pointer'[s] = pointer[s]
  BY DEF Put, Owned
<1>2. \A s \in Object \ {o} : pointer[s] # None =>
          pointer[s] \in Block /\ pointer[s] # b /\ pointer[s] # pointer[o]
  BY DEF Owned, UniqueOwnership, Storable, Free
<1>3. \A s \in Object \ {o} : C'[s] = C[s]
  BY <1>1, <1>2 DEF Put, Content, C
<1>4. C'[o] = IF b = None THEN None ELSE c
  BY <1>1 DEF Put, Content, C, Storable, Free
<1>5. C' = [C EXCEPT ![o] = C'[o]]
  BY <1>3 DEF C
<1>6. fields' = [fields EXCEPT ![o] = fields'[o]] /\ fields'[o] = newFields
  BY DEF Put, Owned
<1>7. Held' = IF Held = o THEN None ELSE Held
  <2>1. CASE Held = o
    <3>1. ref # None /\ ref = pointer[o]
      BY <2>1, HeldIs
    <3> QED
      BY <2>1, <3>1, HeldNextIs DEF Put
  <2>2. CASE Held # o /\ ref = None
    BY <2>2, HeldIs, HeldNextIs DEF Put
  <2>3. CASE Held # o /\ ref # None
    <3>1. Held \in Object /\ pointer[Held] = ref /\ ref # pointer[o]
      BY <2>3, HeldIs
    <3>2. ref' = ref /\ pointer'[Held] = ref'
      BY <1>1, <2>3, <3>1 DEF Put
    <3> QED
      BY <2>3, <3>1, <3>2, HeldNextIs
  <2> QED
    BY <2>1, <2>2, <2>3
<1> QED
  BY <1>4, <1>5, <1>6, <1>7 DEF Values!Replace, C

\* Two packets whose pointers change places exchange their payloads.
LEMMA SwapExchanges ==
    ASSUME Owned, Owned', NEW o \in Object, NEW s \in Object,
           pointer' = [pointer EXCEPT ![o] = pointer[s], ![s] = pointer[o]],
           UNCHANGED <<heap, ref>>,
           fields' = [fields EXCEPT ![o] = fields[s], ![s] = fields'[s]]
    PROVE  Values!Exchange(o, s)
<1>1. \A x \in Object : pointer'[x] = IF x = s THEN pointer[o]
                                      ELSE IF x = o THEN pointer[s] ELSE pointer[x]
  BY DEF Owned
<1>2. C' = [C EXCEPT ![o] = C[s], ![s] = C[o]]
  <2>1. heap' = heap
    OBVIOUS
  <2>2. \A x \in Object : C'[x] = IF pointer'[x] = None THEN None ELSE heap[pointer'[x]]
    BY <2>1 DEF C, Content
  <2>3. \A x \in Object : C[x] = IF pointer[x] = None THEN None ELSE heap[pointer[x]]
    BY DEF C, Content
  <2>4. \A x \in Object : C'[x] = IF x = s THEN C[o] ELSE IF x = o THEN C[s] ELSE C[x]
    <3> SUFFICES ASSUME NEW x \in Object
                 PROVE  C'[x] = IF x = s THEN C[o] ELSE IF x = o THEN C[s] ELSE C[x]
      OBVIOUS
    <3>1. CASE x = s
      <4>1. pointer'[x] = pointer[o]
        BY <1>1, <3>1
      <4>2. C'[x] = IF pointer[o] = None THEN None ELSE heap[pointer[o]]
        BY <2>2, <4>1
      <4>3. C[o] = IF pointer[o] = None THEN None ELSE heap[pointer[o]]
        BY <2>3
      <4> QED
        BY <3>1, <4>2, <4>3
    <3>2. CASE x # s /\ x = o
      <4>1. pointer'[x] = pointer[s]
        BY <1>1, <3>2
      <4> QED
        BY <2>2, <2>3, <3>2, <4>1
    <3>3. CASE x # s /\ x # o
      <4>1. pointer'[x] = pointer[x]
        BY <1>1, <3>3
      <4> QED
        BY <2>2, <2>3, <3>3, <4>1
    <3> QED
      BY <3>1, <3>2, <3>3
  <2> QED
    BY <2>4 DEF C
<1>3. Held' = IF Held = o THEN s ELSE IF Held = s THEN o ELSE Held
  <2>1. CASE ref = None
    BY <2>1, HeldIs, HeldNextIs, NoneAssumption
  <2>2. CASE ref # None
    <3>1. Held \in Object /\ pointer[Held] = ref
      BY <2>2, HeldIs
    <3> QED
      BY <1>1, <2>2, <3>1, HeldNextIs
  <2> QED
    BY <2>1, <2>2
<1> QED
  BY <1>2, <1>3 DEF Values!Exchange, C

(***************************************************************************)
(* Packets behave like values although their payloads are behind pointers  *)
(* that are copied, swapped and handed out: every operation is the         *)
(* operation of PacketValues of the same name, or changes nothing there    *)
(* (packet.cpp:14-59, 258-271, 338-351).                                   *)
(***************************************************************************)
THEOREM PacketsAreValues == Spec => ImplementsValues
<1>1. Init => Values!Init
  BY NoneAssumption DEF Init, Values!Init, Content, Held
<1>2. Owned /\ Owned' /\ [Next]_vars => [Values!Next]_(Values!vars)
  <2> SUFFICES ASSUME Owned, Owned', [Next]_vars
               PROVE  Values!Next \/ UNCHANGED Values!vars
    OBVIOUS
  <2>0. C = [o \in Object |-> Content(pointer[o])]
    BY DEF C
  <2>1. ASSUME NEW c \in Payloads, WritePayload(c) PROVE Values!Next
    <3>1. c # None /\ ref \in Block /\ ref # None /\ UNCHANGED <<live, fields, pointer, ref>>
      BY <2>1, NoneAssumption, PayloadsAssumption DEF WritePayload, Owned
    <3>2. Held \in Object /\ pointer[Held] = ref /\ Held # None
      BY <3>1, HeldIs, NoneAssumption
    <3>3. Held' = Held
      BY <3>1, <3>2, HeldNextIs
    <3>4. heap' = [heap EXCEPT ![ref] = c]
      BY <2>1 DEF WritePayload
    <3>5. \A x \in Object \ {Held} : C'[x] = C[x]
      BY <3>1, <3>2, <3>4, HeldIs DEF C, Content, Owned
    <3>6. C'[Held] = c
      BY <3>1, <3>2, <3>4 DEF C, Content, Owned
    <3>7. C' = [C EXCEPT ![Held] = C'[Held]]
      BY <3>5 DEF C
    <3>8. Values!Write
      BY <3>1, <3>2, <3>3, <3>6, <3>7 DEF Values!Write, C
    <3> QED
      BY <3>8 DEF Values!Next
  <2>2. ASSUME NEW o \in Object, Construct(o) PROVE Values!Next
    <3>1. Values!Replace(o)
      BY <2>2, PutReplaces DEF Construct, Storable
    <3>2. Values!Construct(o)
      BY <2>2, <3>1 DEF Construct, Values!Construct
    <3> QED
      BY <3>2 DEF Values!Next
  <2>3. ASSUME NEW o \in Object, Destroy(o) PROVE Values!Next
    <3>1. Values!Replace(o) /\ C'[o] = None
      BY <2>3, PutReplaces DEF Destroy, Storable
    <3>2. Values!Destroy(o)
      BY <2>3, <3>1 DEF Destroy, Values!Destroy, C
    <3> QED
      BY <3>2 DEF Values!Next
  <2>4. ASSUME NEW o \in Object, GetPayload(o) PROVE Values!Next
    <3>1. pointer[o] # None /\ ref' = pointer[o] /\ UNCHANGED <<live, fields, pointer, heap>>
      BY <2>4 DEF GetPayload
    <3>2. Held' = o
      BY <3>1, HeldNextIs
    <3>3. C' = C /\ C[o] # None
      BY <3>1 DEF C, Content, Owned, UniqueOwnership
    <3>4. Values!GetPayload(o)
      BY <3>1, <3>2, <3>3 DEF Values!GetPayload, C
    <3> QED
      BY <3>4 DEF Values!Next
  <2>5. ASSUME NEW o \in Object, NEW setting \in Settings,
               SetField(o, setting[1], setting[2])
        PROVE  Values!Next
    <3>1. setting[1] \in Field /\ o \in live /\ UNCHANGED <<live, pointer, heap, ref>>
      BY <2>5, SettingsAssumption DEF SetField
    <3>2. fields' = [fields EXCEPT ![o][setting[1]] = setting[2]]
      BY <2>5 DEF SetField
    <3>3. fields' = [fields EXCEPT ![o][setting[1]] = fields'[o][setting[1]]]
      <4>1. fields'[o][setting[1]] = setting[2]
        BY <3>1, <3>2 DEF Owned
      <4> QED
        BY <3>2, <4>1
    <3>4. C' = C /\ Held' = Held
      BY <3>1 DEF C, Content, Held
    <3>5. Values!SetField(o)
      BY <3>1, <3>3, <3>4 DEF Values!SetField, C
    <3> QED
      BY <3>5 DEF Values!Next
  <2>6. ASSUME NEW o \in Object, NEW c \in Payloads, SetPayload(o, c) PROVE Values!Next
    <3>1. PICK b \in Free : Put(o, fields[o], b, c)
      BY <2>6 DEF SetPayload
    <3>2. Storable(b, c) /\ b # None /\ c # None
      BY PayloadsAssumption, NoneAssumption DEF Storable, Free
    <3>3. Values!Replace(o) /\ C'[o] = c /\ fields'[o] = fields[o]
      BY <3>1, <3>2, PutReplaces
    <3>4. o \in live /\ UNCHANGED live
      BY <2>6 DEF SetPayload
    <3>5. fields' = fields
      BY <3>1 DEF Put, Owned
    <3>6. Values!SetPayload(o)
      BY <3>2, <3>3, <3>4, <3>5 DEF Values!SetPayload, C
    <3> QED
      BY <3>6 DEF Values!Next
  <2>7. ASSUME NEW o \in Object, NEW s \in Object, ConstructFromMessage(o, s)
        PROVE  Values!Next
    <3>1. PICK b \in Free :
            Put(o, FromMessageHeader(Message(s)), b, Create(Message(s)))
      BY <2>7 DEF ConstructFromMessage
    <3>2. Storable(b, Create(Message(s)))
      BY <2>7, CreateType DEF ConstructFromMessage, Storable
    <3>3. Values!Replace(o)
      BY <3>1, <3>2, PutReplaces
    <3>4. Values!Construct(o)
      BY <2>7, <3>3 DEF ConstructFromMessage, Values!Construct
    <3> QED
      BY <3>4 DEF Values!Next
  <2>8. ASSUME NEW o \in Object, NEW s \in Object, NEW b \in CopyOf(pointer[s]),
               Put(o, fields[s], b, Content(pointer[s]))
        PROVE  /\ Values!Replace(o) /\ C'[o] = C[s] /\ fields'[o] = fields[s]
    <3>1. Storable(b, Content(pointer[s]))
      BY ContentType
    <3>2. Values!Replace(o) /\ fields'[o] = fields[s]
          /\ C'[o] = IF b = None THEN None ELSE Content(pointer[s])
      BY <2>8, <3>1, PutReplaces
    <3>3. b = None => Content(pointer[s]) = None
      BY NoneAssumption DEF CopyOf, Content, Free
    <3> QED
      BY <3>2, <3>3 DEF C
  <2>9. ASSUME NEW o \in Object, NEW s \in Object, CopyConstruct(o, s) PROVE Values!Next
    <3>1. Values!Replace(o) /\ C'[o] = C[s] /\ fields'[o] = fields[s]
      BY <2>8, <2>9 DEF CopyConstruct
    <3>2. Values!CopyConstruct(o, s)
      BY <2>9, <3>1 DEF CopyConstruct, Values!CopyConstruct, Values!Construct, C
    <3> QED
      BY <3>2 DEF Values!Next
  <2>10. ASSUME NEW o \in Object, NEW s \in Object, CopyAssign(o, s)
         PROVE  Values!Next \/ UNCHANGED Values!vars
    <3>1. CASE Equal(o, s)
      <4>1. UNCHANGED <<live, fields, pointer, heap, ref>>
        BY <2>10, <3>1 DEF CopyAssign
      <4> QED
        BY <4>1 DEF Values!vars, Content, Held
    <3>2. CASE ~ Equal(o, s)
      <4>1. Values!Replace(o) /\ C'[o] = C[s] /\ fields'[o] = fields[s]
        BY <2>8, <2>10, <3>2 DEF CopyAssign
      <4>2. Values!CopyAssign(o, s)
        BY <2>10, <4>1 DEF CopyAssign, Values!CopyAssign, C
      <4> QED
        BY <4>2 DEF Values!Next
    <3> QED
      BY <3>1, <3>2
  <2>11. ASSUME NEW o \in Object, NEW s \in Object, MoveConstruct(o, s) PROVE Values!Next
    <3>1. pointer[o] = None
      BY <2>11 DEF MoveConstruct, Owned
    <3>2. /\ pointer' = [pointer EXCEPT ![o] = pointer[s], ![s] = pointer[o]]
          /\ UNCHANGED <<heap, ref>>
      BY <2>11, <3>1 DEF MoveConstruct
    <3>3. fields' = [fields EXCEPT ![o] = fields[s], ![s] = fields'[s]]
      BY <2>11 DEF MoveConstruct, Owned
    <3>4. Values!Exchange(o, s)
      BY <3>2, <3>3, SwapExchanges
    <3>5. Values!MoveConstruct(o, s)
      BY <2>11, <3>4 DEF MoveConstruct, Values!MoveConstruct
    <3> QED
      BY <3>5 DEF Values!Next
  <2>12. ASSUME NEW o \in Object, NEW s \in Object, MoveAssign(o, s) PROVE Values!Next
    <3>1. /\ pointer' = [pointer EXCEPT ![o] = pointer[s], ![s] = pointer[o]]
          /\ UNCHANGED <<heap, ref>>
      BY <2>12 DEF MoveAssign
    <3>2. fields' = [fields EXCEPT ![o] = fields[s], ![s] = fields'[s]] /\ fields'[s] = fields[o]
      BY <2>12 DEF MoveAssign, Owned
    <3>3. Values!Exchange(o, s)
      BY <3>1, <3>2, SwapExchanges
    <3>4. Values!MoveAssign(o, s)
      BY <2>12, <3>2, <3>3 DEF MoveAssign, Values!MoveAssign
    <3> QED
      BY <3>4 DEF Values!Next
  <2>13. CASE UNCHANGED vars
    BY <2>13 DEF vars, Values!vars, Content, Held
  <2> QED
    BY <2>1, <2>2, <2>3, <2>4, <2>5, <2>6, <2>7, <2>9, <2>10, <2>11, <2>12, <2>13 DEF Next
<1> QED
  BY <1>1, <1>2, OwnedInvariant, PTL DEF Spec, ImplementsValues, Values!Spec
=============================================================================
