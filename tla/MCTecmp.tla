------------------------------- MODULE MCTecmp -------------------------------
(***************************************************************************)
(* Datagrams for TLC: each kind of message with lengths on both sides of   *)
(* every comparison the decoder makes, and with bytes behind the announced *)
(* payload as Ethernet puts there when it pads a short frame.              *)
(***************************************************************************)
EXTENDS TecmpDecoderProps

\* A datagram whose header announces "length" of the bytes behind it.
Message(type, dataType, length, bytes) ==
    [messageType |-> type, dataType |-> dataType, deviceId |-> 7,
     interfaceId |-> <<0, 0, 1, 2>>, timestamp |-> [i \in 1 .. 8 |-> i],
     payloadLength |-> length, size |-> HeaderSize + Len(bytes), bytes |-> bytes]

Announced(type, dataType, bytes) == Message(type, dataType, Len(bytes), bytes)

\* n bytes that are all different from each other and from zero.
Filled(n, first) == [i \in 1 .. n |-> first + i]

\* Bus status: up to three records and what may lie behind them.
GenericData == Filled(GenericDataSize, 100)
Records(n) == Filled(n * BusDataSize, 10)
BusStatus ==
    {Message("busStatus", "can", GenericDataSize + 12 * n,
             GenericData \o Records(n) \o Zeros(padding)) :
        n \in 0 .. 3, padding \in {0, 1, 5, 11, 12}}
    \cup {Announced("busStatus", "can", Filled(n, 0)) : n \in {1, 11}}

\* CAN: identifiers with and without the upper bits, data lengths on both
\* sides of eight, a checksum, none, part of one, and padding.
CanIds == {<<0, 0, 1, 35>>, <<159, 255, 254, 1>>, <<255, 255, 255, 255>>}
CanLengths == {0, 2, 8, 9, 12}
CanTails == {<<>>, <<0>>, <<1, 2>>, <<239, 190, 31>>, <<239, 190, 173>>, <<239, 190, 31, 0>>}
Can ==
    {Message("data", type, CanHeaderSize + n, id \o <<n>> \o Filled(n, 50) \o tail) :
        type \in {"can", "canFd"}, id \in CanIds, n \in CanLengths, tail \in {<<>>, <<0>>}}
    \cup {Announced("data", "can", id \o <<n>> \o Filled(n, 50) \o tail) :
        id \in CanIds, n \in CanLengths, tail \in CanTails}
    \cup {Announced("data", "can", <<0, 0, 0, 1>>),
          Announced("data", "can", <<0, 0, 0, 1, 8, 1, 2>>)}

\* LIN: protected identifiers with parity bits, with and without a checksum.
Lin ==
    {Announced("data", "lin", <<pid, n>> \o Filled(n, 20) \o tail) :
        pid \in {3, 255}, n \in {0, 2, 8}, tail \in {<<>>, <<200>>, <<200, 0>>}}
    \cup {Announced("data", "lin", bytes) : bytes \in {<<3>>, <<3, 4, 1>>}}

\* Capture module: serial numbers and versions of one to several digits.
CaptureModule ==
    {Announced("cmStatus", "invalid",
               Filled(8, 0) \o serial \o <<0>> \o versions \o Zeros(18)) :
        serial \in {<<0, 0, 0, 0>>, <<1, 97, 22, 225>>, <<127, 255, 255, 255>>},
        versions \in {<<0, 0, 0, 0, 0>>, <<22, 3, 105, 1, 255>>}}
    \cup {Announced("cmStatus", "invalid", Filled(n, 0)) : n \in {17, 18}}

\* What Decode does not take apart.
Other ==
    {Announced("data", type, Filled(8, 0)) :
        type \in {"flexRay", "analog", "ethernet", "invalid", "ff00", "other"}}
    \cup {Announced(type, "can", Filled(8, 0)) :
        type \in {"control", "configStatus", "replayData", "invalid", "other"}}
    \cup {Message("data", "can", 0, Filled(8, 0)), Message("data", "can", 9, Filled(8, 0)),
          [Announced("data", "can", <<>>) EXCEPT !.size = HeaderSize - 1]}

MCDatagrams == BusStatus \cup Can \cup Lin \cup CaptureModule \cup Other
=============================================================================
