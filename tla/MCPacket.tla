------------------------------- MODULE MCPacket -------------------------------
(***************************************************************************)
(* Payloads for TLC: of data, status and control messages, empty ones of   *)
(* two types, one that fails its class's check, and one whose length is    *)
(* reported as 0 (LengthMod is 2 here).                                    *)
(***************************************************************************)
EXTENDS CmpPacketProps, TLC

CONSTANTS o1, o2, o3, b1, b2, b3, b4

Bytes(type, number, length, data) ==
    [messageType |-> type, payloadType |-> number, length |-> length, data |-> data]

MCWellFormed ==
    {Bytes("data", 1, 1, "bytes"), Bytes("status", 1, 1, "bytes"),
     Bytes("control", 9, 0, "zero"), Bytes("data", 8, 2, "bytes")}
MCPayloads == MCWellFormed \cup {Bytes("data", 2, 1, "bytes")}

MCSettings == {<<"interfaceId", 1>>, <<"vendorId", 1>>}

Symmetric == Permutations(Object) \cup Permutations(Block)
=============================================================================
