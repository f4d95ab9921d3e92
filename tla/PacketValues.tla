----------------------------- MODULE PacketValues -----------------------------
(***************************************************************************)
(* What ASAM::CMP::Packet promises: packets are values.  Each has its own  *)
(* fields and its own payload, no operation on one of them changes         *)
(* another, and a reference to a payload stays good until the packet that  *)
(* has it gives it up; when a payload moves, the reference moves with it.  *)
(***************************************************************************)
CONSTANTS Object, Field, None

VARIABLES
    live,       \* the objects that hold a packet
    fields,     \* its fields
    content,    \* its payload, or None
    held        \* the object whose payload the caller has a reference to

vars == <<live, fields, content, held>>

Init ==
    /\ live = {}
    /\ \A o, s \in Object : fields[o] = fields[s]
    /\ content = [o \in Object |-> None]
    /\ held = None

\* Only the packet in o is another one now, and its old payload is gone.
Replace(o) ==
    /\ fields' = [fields EXCEPT ![o] = fields'[o]]
    /\ content' = [content EXCEPT ![o] = content'[o]]
    /\ held' = IF held = o THEN None ELSE held

\* With any fields, and with a payload or without one.
Construct(o) == o \notin live /\ live' = live \cup {o} /\ Replace(o)

Destroy(o) ==
    /\ o \in live
    /\ live' = live \ {o}
    /\ Replace(o)
    /\ content'[o] = None

CopyConstruct(o, s) ==
    /\ Construct(o)
    /\ s \in live
    /\ fields'[o] = fields[s] /\ content'[o] = content[s]

CopyAssign(o, s) ==
    /\ {o, s} \subseteq live
    /\ Replace(o)
    /\ fields'[o] = fields[s] /\ content'[o] = content[s]
    /\ UNCHANGED live

\* o and s change places, and a reference stays with its payload.
Exchange(o, s) ==
    /\ fields' = [fields EXCEPT ![o] = fields[s], ![s] = fields'[s]]
    /\ content' = [content EXCEPT ![o] = content[s], ![s] = content[o]]
    /\ held' = IF held = o THEN s ELSE IF held = s THEN o ELSE held

MoveConstruct(o, s) ==
    /\ o \notin live /\ s \in live
    /\ live' = live \cup {o}
    /\ Exchange(o, s)

MoveAssign(o, s) ==
    /\ {o, s} \subseteq live
    /\ Exchange(o, s)
    /\ fields'[s] = fields[o]
    /\ UNCHANGED live

SetField(o) ==
    /\ o \in live
    /\ UNCHANGED <<live, content, held>>
    /\ \E f \in Field : fields' = [fields EXCEPT ![o][f] = fields'[o][f]]

SetPayload(o) ==
    /\ o \in live
    /\ Replace(o)
    /\ content'[o] # None
    /\ UNCHANGED <<live, fields>>

GetPayload(o) ==
    /\ content[o] # None
    /\ held' = o
    /\ UNCHANGED <<live, fields, content>>

\* Through the reference.
Write ==
    /\ held # None
    /\ UNCHANGED <<live, fields, held>>
    /\ content' = [content EXCEPT ![held] = content'[held]]
    /\ content'[held] # None

Next ==
    \/ Write
    \/ \E o \in Object :
         \/ Construct(o) \/ Destroy(o) \/ SetField(o) \/ SetPayload(o) \/ GetPayload(o)
         \/ \E s \in Object : \/ CopyConstruct(o, s) \/ CopyAssign(o, s)
                              \/ MoveConstruct(o, s) \/ MoveAssign(o, s)

Spec == Init /\ [][Next]_vars
=============================================================================
