---------------------------- MODULE CmpPacketProps ----------------------------
(***************************************************************************)
(* What the operations of Packet promise together: packets are values      *)
(* although their payloads are behind pointers.                            *)
(***************************************************************************)
EXTENDS CmpPacket

TypeOK ==
    /\ live \subseteq Object
    /\ fields \in [Object -> [Field -> Nat]]
    /\ pointer \in [Object -> Block \cup {None}]
    /\ heap \in [Block -> Payload \cup {None}]
    /\ ref \in Block \cup {None}
    /\ last \in [op: {"other", "assign", "message"}, to: Object \cup {None},
                 from: Object \cup {None}]
    /\ \A o \in Object : pointer[o] # None => o \in live

(***************************************************************************)
(* The blocks in use are exactly those that a packet points to, each of    *)
(* them one packet's only, and a reference that is still good is to one of *)
(* them: nothing is shared, nothing leaks, nothing is freed twice, however *)
(* packets are copied, assigned, to themselves too, moved and destroyed    *)
(* (packet.cpp:25-59, 258-261, 338-351).                                   *)
(***************************************************************************)
UniqueOwnership ==
    /\ \A b \in Block : heap[b] # None <=> \E o \in Object : pointer[o] = b
    /\ \A o, s \in Object : pointer[o] = pointer[s] /\ pointer[o] # None => o = s
    /\ ref # None => heap[ref] # None

(***************************************************************************)
(* After a copy assignment the two packets have the same fields and the    *)
(* same payload, although it does nothing if they compare equal; only      *)
(* payloads whose length is reported as 0 may still differ                 *)
(* (packet.cpp:45-53, 90-93, 227-230).                                     *)
(***************************************************************************)
AssignedAlike ==
    last.op = "assign" =>
        LET p == pointer[last.to]
            q == pointer[last.from]
        IN  /\ fields[last.to] = fields[last.from]
            /\ Content(p) = Content(q) \/ (Length(p) = 0 /\ Length(q) = 0)

(***************************************************************************)
(* A packet that is constructed from the message of another one makes the  *)
(* same message again, unless its payload fails the check of its class; it *)
(* is then invalid and of the same length (packet.cpp:14-23, 232-256,      *)
(* 280-336).                                                               *)
(***************************************************************************)
MessageSurvives ==
    last.op = "message" =>
        LET p == heap[pointer[last.from]]
            q == heap[pointer[last.to]]
        IN  IF p \in WellFormed THEN Message(last.to) = Message(last.from)
            ELSE q.messageType = "undefined" /\ q.length = p.length

\* The packet that the reference leads to.
Held ==
    IF ref = None THEN None ELSE CHOOSE o \in Object : pointer[o] = ref

Values ==
    INSTANCE PacketValues WITH
        content <- [o \in Object |-> Content(pointer[o])],
        held <- Held

(***************************************************************************)
(* Packets behave like values: an operation on one changes no other, a     *)
(* write through a reference changes the one packet whose payload it is,   *)
(* and a reference dies only with that packet, when it is given another    *)
(* payload or when it is assigned to, and moves with a move                *)
(* (packet.cpp:25-59, 258-271, 338-351).                                   *)
(***************************************************************************)
ImplementsValues == Values!Spec
=============================================================================
