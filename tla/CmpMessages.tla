----------------------------- MODULE CmpMessages -----------------------------
(***************************************************************************)
(* The wire vocabulary shared by the encoder and the decoder: the sizes of *)
(* the two packed headers, the segment types of a data message, and the    *)
(* range of the CMP header's 16-bit sequence counter.  Payload bytes are   *)
(* never spelled out: a message carries the length of its payload and an   *)
(* opaque value "data" that says where those bytes came from.              *)
(***************************************************************************)
EXTENDS Naturals, Sequences

CONSTANTS
    CounterMod,     \* number of values of a sequence counter (2^16 in the code)
    LengthMod       \* number of values of a payload length (2^16 in the code)

ASSUME CounterModAssumption == CounterMod \in Nat /\ CounterMod > 1
ASSUME LengthModAssumption == LengthMod \in Nat /\ LengthMod > 0

\* sizeof(CmpHeader) and sizeof(MessageHeader): both structs are packed.
CmpHeaderSize == 8
MessageHeaderSize == 16

SegmentType ==
    {"unsegmented", "firstSegment", "intermediarySegment", "lastSegment"}

\* The values of a uint16_t sequence counter.
Counter == 0 .. CounterMod - 1

\* What ++ makes of one; and a mutant that does not wrap.
NextCounterUnbounded(c) == c + 1
NextCounter(c) == (c + 1) % CounterMod

\* The values of a uint16_t payload length.
Length == 0 .. LengthMod - 1
=============================================================================
