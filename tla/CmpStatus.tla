------------------------------ MODULE CmpStatus ------------------------------
(***************************************************************************)
(* ASAM::CMP::Status with its DeviceStatus and InterfaceStatus parts: a    *)
(* vector of devices, each with a vector of interfaces, searched by id and *)
(* shrunk by swapping the removed element with the last one.  The actions  *)
(* are the public operations, those on a DeviceStatus reference obtained   *)
(* from getDeviceStatus(index) included.  Indices start at 1.              *)
(***************************************************************************)
EXTENDS Naturals, Sequences

CONSTANTS
    DeviceId, InterfaceId, Stamp, NoInterface,      \* see DeviceRegistry
    ForeignUpdates      \* may DeviceStatus::update be given a packet of
                        \* another device?

ASSUME NoInterfaceAssumption == NoInterface \notin InterfaceId
ASSUME ForeignUpdatesAssumption == ForeignUpdates \in BOOLEAN

\* See DeviceRegistry.
Kind == {"cmStatMsg", "ifStatMsg", "other"}
Packet ==
    {p \in [deviceId: DeviceId, kind: Kind, interfaceId: InterfaceId \cup {NoInterface},
            stamp: Stamp] :
        p.kind = "ifStatMsg" <=> p.interfaceId # NoInterface}

InterfaceStatus == [interfaceId: InterfaceId, interfacePacket: Packet]
DeviceStatus == [devicePacket: Packet, interfaces: Seq(InterfaceStatus)]

VARIABLE devices

TypeOK == devices \in Seq(DeviceStatus)

Init == devices = <<>>
-----------------------------------------------------------------------------
\* Mutant of IndexByDeviceId: the first device matches every id.
IndexOfFront(s, d) == 1

\* find_if: the first entry with the id, one past the end if there is none.
IndexByDeviceId(s, d) ==
    IF \E i \in DOMAIN s : s[i].devicePacket.deviceId = d
    THEN CHOOSE i \in DOMAIN s : /\ s[i].devicePacket.deviceId = d
                                 /\ \A j \in 1 .. i-1 : s[j].devicePacket.deviceId # d
    ELSE Len(s) + 1

IndexByInterfaceId(s, k) ==
    IF \E i \in DOMAIN s : s[i].interfaceId = k
    THEN CHOOSE i \in DOMAIN s : /\ s[i].interfaceId = k
                                 /\ \A j \in 1 .. i-1 : s[j].interfaceId # k
    ELSE Len(s) + 1

\* Mutants of SwapRemove: pop_back is forgotten; vector::erase, which shifts
\* the elements behind.
SwapKeep(s, i) == [s EXCEPT ![i] = s[Len(s)]]
ShiftRemove(s, i) ==
    [j \in 1 .. Len(s) - 1 |-> IF j < i THEN s[j] ELSE s[j+1]]

\* swap with the last element, pop_back.
SwapRemove(s, i) ==
    [j \in 1 .. Len(s) - 1 |-> IF j = i THEN s[Len(s)] ELSE s[j]]

NewInterfaceStatus(p) == [interfaceId |-> p.interfaceId, interfacePacket |-> p]

\* Mutant of UpdateInterfaces: a known interface is appended again.
AppendInterface(interfaces, p) == Append(interfaces, NewInterfaceStatus(p))

UpdateInterfaces(interfaces, p) ==
    LET index == IndexByInterfaceId(interfaces, p.interfaceId)
    IN  IF index # Len(interfaces) + 1
          THEN [interfaces EXCEPT ![index] = NewInterfaceStatus(p)]
          ELSE Append(interfaces, NewInterfaceStatus(p))

\* Mutants of UpdatedDevice: the type of the payload is not looked at; a
\* capture module message starts the device anew.
UpdatedDeviceAnyKind(device, p) ==
    [device EXCEPT !.interfaces = UpdateInterfaces(@, p)]
RestartedDevice(device, p) ==
    CASE p.kind = "ifStatMsg" ->
           [device EXCEPT !.interfaces = UpdateInterfaces(@, p)]
      [] p.kind = "cmStatMsg" -> [devicePacket |-> p, interfaces |-> <<>>]
      [] OTHER -> device

\* DeviceStatus::update.
UpdatedDevice(device, p) ==
    CASE p.kind = "ifStatMsg" ->
           [device EXCEPT !.interfaces = UpdateInterfaces(@, p)]
      [] p.kind = "cmStatMsg" -> [device EXCEPT !.devicePacket = p]
      [] OTHER -> device

NewDevice(p) == [devicePacket |-> p, interfaces |-> <<>>]
-----------------------------------------------------------------------------
\* Status::update of a device that is known, and of one that is not.
UpdateKnown(p) ==
    LET index == IndexByDeviceId(devices, p.deviceId)
    IN  /\ index < Len(devices) + 1
        /\ devices' = [devices EXCEPT ![index] = UpdatedDevice(@, p)]

UpdateNew(p) ==
    /\ IndexByDeviceId(devices, p.deviceId) = Len(devices) + 1
    /\ p.kind = "cmStatMsg"
    /\ devices' = Append(devices, NewDevice(p))

UpdateIgnored(p) ==
    /\ IndexByDeviceId(devices, p.deviceId) = Len(devices) + 1
    /\ p.kind # "cmStatMsg"
    /\ UNCHANGED devices

Clear == devices' = <<>>

RemoveDeviceById(d) ==
    LET index == IndexByDeviceId(devices, d)
    IN  /\ index # Len(devices) + 1
        /\ devices' = SwapRemove(devices, index)

RemoveUnknownDevice(d) ==
    /\ IndexByDeviceId(devices, d) = Len(devices) + 1
    /\ UNCHANGED devices

\* getDeviceStatus(i).update(p)
UpdateDeviceStatus(i, p) ==
    /\ ForeignUpdates \/ p.deviceId = devices[i].devicePacket.deviceId
    /\ devices' = [devices EXCEPT ![i] = UpdatedDevice(@, p)]

\* getDeviceStatus(i).removeInterfaceById(k)
RemoveInterfaceById(i, k) ==
    LET index == IndexByInterfaceId(devices[i].interfaces, k)
    IN  /\ index # Len(devices[i].interfaces) + 1
        /\ devices' = [devices EXCEPT ![i].interfaces = SwapRemove(@, index)]

RemoveUnknownInterface(i, k) ==
    /\ IndexByInterfaceId(devices[i].interfaces, k)
         = Len(devices[i].interfaces) + 1
    /\ UNCHANGED devices

Next ==
    \/ \E p \in Packet : UpdateKnown(p) \/ UpdateNew(p) \/ UpdateIgnored(p)
    \/ \E d \in DeviceId : RemoveDeviceById(d) \/ RemoveUnknownDevice(d)
    \/ Clear
    \/ \E i \in DOMAIN devices :
         \/ \E p \in Packet : UpdateDeviceStatus(i, p)
         \/ \E k \in InterfaceId : RemoveInterfaceById(i, k) \/ RemoveUnknownInterface(i, k)

Spec == Init /\ [][Next]_devices
-----------------------------------------------------------------------------
IdOf(device) == device.devicePacket.deviceId

(***************************************************************************)
(* No two entries of the vector have the same device id, so find_if, which *)
(* stops at the first, sees every entry: updates that append and removals  *)
(* that swap never leave a second entry behind (status.cpp:7-20, 48-56).   *)
(***************************************************************************)
DeviceIdsUnique ==
    \A i, j \in DOMAIN devices : IdOf(devices[i]) = IdOf(devices[j]) => i = j

\* The same of a device's interfaces; and an interface is filed under the id
\* that its last message reports (device_status.cpp:50-75).
InterfaceIdsUnique ==
    \A i \in DOMAIN devices :
        LET s == devices[i].interfaces
        IN  /\ \A j, k \in DOMAIN s : s[j].interfaceId = s[k].interfaceId => j = k
            /\ \A j \in DOMAIN s : s[j].interfaceId = s[j].interfacePacket.interfaceId

\* A device's interfaces were reported by that device, also after removals
\* have moved devices to other indices (status.cpp:9-13, 53).
InterfacesOfOwnDevice ==
    \A i \in DOMAIN devices : \A j \in DOMAIN devices[i].interfaces :
        devices[i].interfaces[j].interfacePacket.deviceId = IdOf(devices[i])

(***************************************************************************)
(* An index keeps denoting its device until something is removed; then the *)
(* only entry that can turn up at it is the one that was last.  A caller   *)
(* that keeps indices, or iterates while removing, depends on it           *)
(* (status.h:33-37, status.cpp:48-56).                                     *)
(***************************************************************************)
IndicesStable ==
    [][\A i \in DOMAIN devices \cap DOMAIN devices' :
          \/ IdOf(devices'[i]) = IdOf(devices[i])
          \/ /\ Len(devices') < Len(devices)
             /\ devices'[i] = devices[Len(devices)]]_devices

\* The dictionaries that vectors of interfaces and of devices stand for.
Interfaces(s) ==
    [k \in {s[j].interfaceId : j \in DOMAIN s} |->
        s[CHOOSE j \in DOMAIN s : s[j].interfaceId = k].interfacePacket]

Entry(device) ==
    [packet |-> device.devicePacket, interfaces |-> Interfaces(device.interfaces)]

RegistryOf(s) ==
    [d \in {IdOf(s[i]) : i \in DOMAIN s} |->
        Entry(s[CHOOSE i \in DOMAIN s : IdOf(s[i]) = d])]

Registry == INSTANCE DeviceRegistry WITH registry <- RegistryOf(devices)

(***************************************************************************)
(* The vectors behave as the dictionary of DeviceRegistry: an update       *)
(* touches the entry of its own device and interface only, a capture       *)
(* module message keeps the interfaces, a removed device comes back        *)
(* without them, and an interface message of an unknown device is ignored. *)
(***************************************************************************)
ImplementsRegistry == Registry!Spec
=============================================================================
