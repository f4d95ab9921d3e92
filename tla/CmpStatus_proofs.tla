--------------------------- MODULE CmpStatus_proofs ---------------------------
(***************************************************************************)
(* Theorems about the status helper, for any sets of devices, interfaces   *)
(* and stamps, and vectors of any length.                                  *)
(***************************************************************************)
EXTENDS CmpStatus, ProofBasics

\* find_if returns the first match, or one past the end if there is none.
LEMMA IndexByDeviceIdIs ==
    ASSUME NEW s \in Seq(DeviceStatus), NEW d
    PROVE  \/ /\ IndexByDeviceId(s, d) \in DOMAIN s
              /\ s[IndexByDeviceId(s, d)].devicePacket.deviceId = d
           \/ /\ IndexByDeviceId(s, d) = Len(s) + 1
              /\ \A j \in DOMAIN s : s[j].devicePacket.deviceId # d
<1> DEFINE T == {j \in DOMAIN s : s[j].devicePacket.deviceId = d}
<1>1. CASE T = {}
  BY <1>1 DEF IndexByDeviceId
<1>2. CASE T # {}
  <2>1. T \subseteq Nat
    OBVIOUS
  <2>2. PICK i \in T : \A y \in T : i <= y
    BY <1>2, <2>1, LeastNatural
  <2>3. \A j \in 1 .. i-1 : s[j].devicePacket.deviceId # d
    BY <2>1, <2>2
  <2> QED
    BY <2>2, <2>3 DEF IndexByDeviceId
<1> QED
  BY <1>1, <1>2

LEMMA IndexByInterfaceIdIs ==
    ASSUME NEW s \in Seq(InterfaceStatus), NEW k
    PROVE  \/ /\ IndexByInterfaceId(s, k) \in DOMAIN s
              /\ s[IndexByInterfaceId(s, k)].interfaceId = k
           \/ /\ IndexByInterfaceId(s, k) = Len(s) + 1
              /\ \A j \in DOMAIN s : s[j].interfaceId # k
<1> DEFINE T == {j \in DOMAIN s : s[j].interfaceId = k}
<1>1. CASE T = {}
  BY <1>1 DEF IndexByInterfaceId
<1>2. CASE T # {}
  <2>1. T \subseteq Nat
    OBVIOUS
  <2>2. PICK i \in T : \A y \in T : i <= y
    BY <1>2, <2>1, LeastNatural
  <2>3. \A j \in 1 .. i-1 : s[j].interfaceId # k
    BY <2>1, <2>2
  <2> QED
    BY <2>2, <2>3 DEF IndexByInterfaceId
<1> QED
  BY <1>1, <1>2

\* Swap with the last element and pop_back: one element fewer, each of the
\* others once.
LEMMA SwapRemoveIs ==
    ASSUME NEW S, NEW s \in Seq(S), NEW i \in DOMAIN s
    PROVE  /\ SwapRemove(s, i) \in Seq(S)
           /\ Len(SwapRemove(s, i)) = Len(s) - 1
           /\ DOMAIN SwapRemove(s, i) = 1 .. Len(s) - 1
           /\ \A j \in 1 .. Len(s) - 1 :
                SwapRemove(s, i)[j] = IF j = i THEN s[Len(s)] ELSE s[j]
<1>1. Len(s) \in Nat /\ Len(s) - 1 \in Nat /\ Len(s) \in DOMAIN s
  OBVIOUS
<1> DEFINE t == SwapRemove(s, i)
<1>2. t \in [1 .. Len(s) - 1 -> S]
  BY <1>1 DEF SwapRemove
<1>3. t \in Seq(S) /\ Len(t) = Len(s) - 1
  BY <1>1, <1>2
<1> QED
  BY <1>1, <1>3 DEF SwapRemove
-----------------------------------------------------------------------------
\* One device's part of InterfaceIdsUnique.
InterfacesUnique(s) ==
    /\ \A j, k \in DOMAIN s : s[j].interfaceId = s[k].interfaceId => j = k
    /\ \A j \in DOMAIN s : s[j].interfaceId = s[j].interfacePacket.interfaceId

\* One device's part of InterfacesOfOwnDevice, for the device with id d.
ReportedBy(s, d) == \A j \in DOMAIN s : s[j].interfacePacket.deviceId = d

\* What the dictionary of a vector without repetitions is, entry by entry.
LEMMA InterfacesIs ==
    ASSUME NEW s \in Seq(InterfaceStatus), InterfacesUnique(s)
    PROVE  /\ DOMAIN Interfaces(s) = {s[j].interfaceId : j \in DOMAIN s}
           /\ \A j \in DOMAIN s : Interfaces(s)[s[j].interfaceId] = s[j].interfacePacket
<1> SUFFICES ASSUME NEW j \in DOMAIN s
             PROVE  Interfaces(s)[s[j].interfaceId] = s[j].interfacePacket
  BY DEF Interfaces
<1> DEFINE i == CHOOSE x \in DOMAIN s : s[x].interfaceId = s[j].interfaceId
<1>1. i \in DOMAIN s /\ s[i].interfaceId = s[j].interfaceId
  OBVIOUS
<1>2. i = j
  BY <1>1 DEF InterfacesUnique
<1> QED
  BY <1>2 DEF Interfaces

LEMMA InterfacesEqual ==
    ASSUME NEW s \in Seq(InterfaceStatus), InterfacesUnique(s),
           NEW D, NEW f \in [D -> Packet],
           D = {s[j].interfaceId : j \in DOMAIN s},
           \A j \in DOMAIN s : f[s[j].interfaceId] = s[j].interfacePacket
    PROVE  Interfaces(s) = f
<1>1. \A k \in D : Interfaces(s)[k] = f[k]
  BY ZenonT(60), InterfacesIs
<1>2. Interfaces(s) = [k \in D |-> Interfaces(s)[k]]
  BY DEF Interfaces
<1> QED
  BY <1>1, <1>2

LEMMA InterfacesType ==
    ASSUME NEW s \in Seq(InterfaceStatus), InterfacesUnique(s)
    PROVE  Interfaces(s) \in [{s[j].interfaceId : j \in DOMAIN s} -> Packet]
<1>1. ASSUME NEW j \in DOMAIN s PROVE s[j].interfacePacket \in Packet
  <2>1. s[j] \in InterfaceStatus
    OBVIOUS
  <2> HIDE DEF Packet
  <2> QED
    BY <2>1, Zenon DEF InterfaceStatus
<1>2. Interfaces(s) = [k \in {s[j].interfaceId : j \in DOMAIN s} |-> Interfaces(s)[k]]
  BY DEF Interfaces
<1> QED
  BY ZenonT(60), <1>1, <1>2, InterfacesIs

LEMMA UpdateInterfacesIs ==
    ASSUME NEW s \in Seq(InterfaceStatus), NEW p \in Packet,
           p.kind = "ifStatMsg", InterfacesUnique(s)
    PROVE  /\ UpdateInterfaces(s, p) \in Seq(InterfaceStatus)
           /\ InterfacesUnique(UpdateInterfaces(s, p))
           /\ ReportedBy(s, p.deviceId) => ReportedBy(UpdateInterfaces(s, p), p.deviceId)
           /\ Interfaces(UpdateInterfaces(s, p))
                = Registry!With(Interfaces(s), p.interfaceId, p)
<1> DEFINE i == IndexByInterfaceId(s, p.interfaceId)
           new == NewInterfaceStatus(p)
           t == UpdateInterfaces(s, p)
           D == {s[j].interfaceId : j \in DOMAIN s} \cup {p.interfaceId}
           f == Registry!With(Interfaces(s), p.interfaceId, p)
<1>1. new \in InterfaceStatus /\ new.interfaceId = p.interfaceId
        /\ new.interfacePacket = p
  BY DEF NewInterfaceStatus, InterfaceStatus, Packet
<1>2. /\ f \in [D -> Packet]
      /\ f[p.interfaceId] = p
      /\ \A j \in DOMAIN s : s[j].interfaceId # p.interfaceId =>
                               f[s[j].interfaceId] = s[j].interfacePacket
  BY InterfacesIs, InterfacesType DEF Registry!With
<1> HIDE DEF new, f
<1>3. CASE i \in DOMAIN s /\ s[i].interfaceId = p.interfaceId
  <2>1. t = [s EXCEPT ![i] = new]
    BY <1>3 DEF UpdateInterfaces, new
  <2>2. t \in Seq(InterfaceStatus) /\ DOMAIN t = DOMAIN s
    BY <1>1, <1>3, <2>1
  <2>3. \A j \in DOMAIN s : t[j] = IF j = i THEN new ELSE s[j]
    BY <1>3, <2>1
  <2>4. InterfacesUnique(t)
    BY <1>1, <1>3, <2>2, <2>3 DEF InterfacesUnique
  <2>5. ReportedBy(s, p.deviceId) => ReportedBy(t, p.deviceId)
    BY <1>1, <1>3, <2>2, <2>3 DEF ReportedBy
  <2>6. D = {t[j].interfaceId : j \in DOMAIN t}
    BY <1>1, <1>3, <2>2, <2>3
  <2>7. \A j \in DOMAIN t : f[t[j].interfaceId] = t[j].interfacePacket
    BY <1>1, <1>2, <1>3, <2>2, <2>3 DEF InterfacesUnique
  <2> HIDE DEF t
  <2>8. Interfaces(t) = f
    BY <1>2, <2>2, <2>4, <2>6, <2>7, InterfacesEqual
  <2> QED
    BY <2>2, <2>4, <2>5, <2>8 DEF t, f
<1>4. CASE i = Len(s) + 1 /\ \A j \in DOMAIN s : s[j].interfaceId # p.interfaceId
  <2>1. t = Append(s, new)
    BY <1>4 DEF UpdateInterfaces, new
  <2>2. t \in Seq(InterfaceStatus) /\ DOMAIN t = 1 .. Len(s) + 1
    BY <1>1, <2>1
  <2>3. \A j \in DOMAIN t : t[j] = IF j = Len(s) + 1 THEN new ELSE s[j]
    BY <2>1, <2>2
  <2>4. InterfacesUnique(t)
    BY <1>1, <1>4, <2>2, <2>3 DEF InterfacesUnique
  <2>5. ReportedBy(s, p.deviceId) => ReportedBy(t, p.deviceId)
    BY <1>1, <2>2, <2>3 DEF ReportedBy
  <2>6. D = {t[j].interfaceId : j \in DOMAIN t}
    <3>1. DOMAIN t = DOMAIN s \cup {Len(s) + 1} /\ Len(s) + 1 \notin DOMAIN s
      BY <2>2
    <3> QED
      BY <1>1, <2>3, <3>1
  <2>7. \A j \in DOMAIN t : f[t[j].interfaceId] = t[j].interfacePacket
    BY <1>1, <1>2, <1>4, <2>2, <2>3
  <2> HIDE DEF t
  <2>8. Interfaces(t) = f
    BY <1>2, <2>2, <2>4, <2>6, <2>7, InterfacesEqual
  <2> QED
    BY <2>2, <2>4, <2>5, <2>8 DEF t, f
<1> QED
  BY <1>3, <1>4, IndexByInterfaceIdIs

LEMMA SwapRemoveInterfaces ==
    ASSUME NEW s \in Seq(InterfaceStatus), NEW i \in DOMAIN s, InterfacesUnique(s)
    PROVE  /\ InterfacesUnique(SwapRemove(s, i))
           /\ \A d : ReportedBy(s, d) => ReportedBy(SwapRemove(s, i), d)
<1> DEFINE t == SwapRemove(s, i)
<1>1. DOMAIN t = 1 .. Len(s) - 1
        /\ \A j \in 1 .. Len(s) - 1 : t[j] = IF j = i THEN s[Len(s)] ELSE s[j]
  BY SwapRemoveIs
<1>2. Len(s) \in DOMAIN s /\ 1 .. Len(s) - 1 \subseteq DOMAIN s
        /\ Len(s) \notin 1 .. Len(s) - 1
  OBVIOUS
<1>3. InterfacesUnique(t)
  <2> HIDE DEF t
  <2> QED
    BY SMTT(60), <1>1, <1>2 DEF InterfacesUnique
<1>4. ASSUME NEW d, ReportedBy(s, d) PROVE ReportedBy(t, d)
  <2> HIDE DEF t
  <2> QED
    BY <1>1, <1>2, <1>4 DEF ReportedBy
<1> QED
  BY <1>3, <1>4

LEMMA UpdatedDeviceIs ==
    ASSUME NEW device \in DeviceStatus, NEW p \in Packet,
           InterfacesUnique(device.interfaces)
    PROVE  /\ UpdatedDevice(device, p) \in DeviceStatus
           /\ InterfacesUnique(UpdatedDevice(device, p).interfaces)
           /\ IdOf(UpdatedDevice(device, p))
                = IF p.kind = "cmStatMsg" THEN p.deviceId ELSE IdOf(device)
           /\ p.deviceId = IdOf(device) /\ ReportedBy(device.interfaces, p.deviceId)
                => ReportedBy(UpdatedDevice(device, p).interfaces, p.deviceId)
<1>1. CASE p.kind = "ifStatMsg"
  <2>1. UpdatedDevice(device, p)
          = [device EXCEPT !.interfaces = UpdateInterfaces(@, p)]
    BY <1>1 DEF UpdatedDevice
  <2>2. device.interfaces \in Seq(InterfaceStatus)
    BY DEF DeviceStatus
  <2>3. /\ UpdateInterfaces(device.interfaces, p) \in Seq(InterfaceStatus)
        /\ InterfacesUnique(UpdateInterfaces(device.interfaces, p))
        /\ ReportedBy(device.interfaces, p.deviceId)
             => ReportedBy(UpdateInterfaces(device.interfaces, p), p.deviceId)
    BY <1>1, <2>2, UpdateInterfacesIs
  <2> QED
    BY <1>1, <2>1, <2>3 DEF DeviceStatus, IdOf
<1>2. CASE p.kind = "cmStatMsg"
  BY <1>2 DEF UpdatedDevice, DeviceStatus, IdOf
<1>3. CASE p.kind = "other"
  BY <1>3 DEF UpdatedDevice, DeviceStatus, IdOf
<1> QED
  BY <1>1, <1>2, <1>3 DEF Packet, Kind
-----------------------------------------------------------------------------
\* What a step does to the vector of devices, whichever operation it is.
Replaces(i, device) ==
    /\ i \in DOMAIN devices
    /\ device \in DeviceStatus
    /\ InterfacesUnique(device.interfaces)
    /\ ForeignUpdates \/ IdOf(device) = IdOf(devices[i])
    /\ \/ ForeignUpdates
       \/ ReportedBy(devices[i].interfaces, IdOf(devices[i]))
            => ReportedBy(device.interfaces, IdOf(device))
    /\ devices' = [devices EXCEPT ![i] = device]

Appends(device) ==
    /\ device \in DeviceStatus
    /\ InterfacesUnique(device.interfaces)
    /\ ReportedBy(device.interfaces, IdOf(device))
    /\ \A j \in DOMAIN devices : IdOf(devices[j]) # IdOf(device)
    /\ devices' = Append(devices, device)

Removes(i) == i \in DOMAIN devices /\ devices' = SwapRemove(devices, i)

IInv == TypeOK /\ InterfaceIdsUnique

LEMMA StepIs ==
    ASSUME IInv, [Next]_devices
    PROVE  \/ UNCHANGED devices
           \/ devices' = <<>>
           \/ \E i \in DOMAIN devices : \E device \in DeviceStatus : Replaces(i, device)
           \/ \E device \in DeviceStatus : Appends(device)
           \/ \E i \in DOMAIN devices : Removes(i)
<1> USE DEF IInv, TypeOK
<1>1. \A i \in DOMAIN devices :
        devices[i] \in DeviceStatus /\ InterfacesUnique(devices[i].interfaces)
  BY DEF InterfaceIdsUnique, InterfacesUnique
<1>2. ASSUME NEW i \in DOMAIN devices, NEW p \in Packet,
             devices' = [devices EXCEPT ![i] = UpdatedDevice(@, p)],
             ForeignUpdates \/ p.deviceId = IdOf(devices[i])
      PROVE  \E device \in DeviceStatus : Replaces(i, device)
  <2>1. /\ UpdatedDevice(devices[i], p) \in DeviceStatus
        /\ InterfacesUnique(UpdatedDevice(devices[i], p).interfaces)
        /\ ForeignUpdates \/ IdOf(UpdatedDevice(devices[i], p)) = IdOf(devices[i])
        /\ \/ ForeignUpdates
           \/ ReportedBy(devices[i].interfaces, IdOf(devices[i]))
                => ReportedBy(UpdatedDevice(devices[i], p).interfaces,
                              IdOf(UpdatedDevice(devices[i], p)))
    BY <1>1, <1>2, UpdatedDeviceIs
  <2> QED
    BY <1>2, <2>1 DEF Replaces
<1>3. ASSUME NEW p \in Packet, UpdateKnown(p)
      PROVE  \E i \in DOMAIN devices : \E device \in DeviceStatus : Replaces(i, device)
  <2> DEFINE i == IndexByDeviceId(devices, p.deviceId)
  <2>1. i \in DOMAIN devices /\ devices[i].devicePacket.deviceId = p.deviceId
    BY <1>3, IndexByDeviceIdIs DEF UpdateKnown
  <2>2. devices' = [devices EXCEPT ![i] = UpdatedDevice(@, p)]
    BY <1>3 DEF UpdateKnown
  <2> QED
    BY <1>2, <2>1, <2>2 DEF IdOf
<1>4. ASSUME NEW p \in Packet, UpdateNew(p)
      PROVE  \E device \in DeviceStatus : Appends(device)
  <2>1. \A j \in DOMAIN devices : devices[j].devicePacket.deviceId # p.deviceId
    BY <1>4, IndexByDeviceIdIs DEF UpdateNew
  <2>2. NewDevice(p) \in DeviceStatus /\ InterfacesUnique(NewDevice(p).interfaces)
          /\ IdOf(NewDevice(p)) = p.deviceId
          /\ ReportedBy(NewDevice(p).interfaces, IdOf(NewDevice(p)))
    BY DEF NewDevice, DeviceStatus, InterfacesUnique, ReportedBy, IdOf
  <2> QED
    BY <1>4, <2>1, <2>2 DEF UpdateNew, Appends, IdOf
<1>5. ASSUME NEW d \in DeviceId, RemoveDeviceById(d)
      PROVE  \E i \in DOMAIN devices : Removes(i)
  BY <1>5, IndexByDeviceIdIs DEF RemoveDeviceById, Removes
<1>6. ASSUME NEW i \in DOMAIN devices, NEW p \in Packet, UpdateDeviceStatus(i, p)
      PROVE  \E device \in DeviceStatus : Replaces(i, device)
  BY <1>2, <1>6 DEF UpdateDeviceStatus, IdOf
<1>7. ASSUME NEW i \in DOMAIN devices, NEW k \in InterfaceId, RemoveInterfaceById(i, k)
      PROVE  \E device \in DeviceStatus : Replaces(i, device)
  <2> DEFINE s == devices[i].interfaces
             index == IndexByInterfaceId(s, k)
             device == [devices[i] EXCEPT !.interfaces = SwapRemove(s, index)]
  <2>1. s \in Seq(InterfaceStatus)
    BY <1>1 DEF DeviceStatus
  <2>2. index \in DOMAIN s
    BY <1>7, <2>1, IndexByInterfaceIdIs DEF RemoveInterfaceById
  <2>3. SwapRemove(s, index) \in Seq(InterfaceStatus)
    BY <2>1, <2>2, SwapRemoveIs
  <2>4. /\ InterfacesUnique(SwapRemove(s, index))
        /\ \A d : ReportedBy(s, d) => ReportedBy(SwapRemove(s, index), d)
    BY <1>1, <2>1, <2>2, SwapRemoveInterfaces
  <2>5. device \in DeviceStatus /\ device.interfaces = SwapRemove(s, index)
          /\ IdOf(device) = IdOf(devices[i])
    BY <1>1, <2>3 DEF DeviceStatus, IdOf
  <2>6. devices' = [devices EXCEPT ![i] = device]
    BY <1>7 DEF RemoveInterfaceById
  <2> QED
    BY <2>4, <2>5, <2>6 DEF Replaces
<1> QED
  BY <1>3, <1>4, <1>5, <1>6, <1>7
     DEF Next, UpdateIgnored, Clear, RemoveUnknownDevice, RemoveUnknownInterface

\* What each kind of step leaves at each index.
LEMMA Replaced ==
    ASSUME TypeOK, NEW i, NEW device, Replaces(i, device)
    PROVE  /\ devices' \in Seq(DeviceStatus)
           /\ DOMAIN devices' = DOMAIN devices
           /\ Len(devices') = Len(devices)
           /\ \A j \in DOMAIN devices : devices'[j] = IF j = i THEN device ELSE devices[j]
BY DEF TypeOK, Replaces

LEMMA Appended ==
    ASSUME TypeOK, NEW device, Appends(device)
    PROVE  /\ devices' \in Seq(DeviceStatus)
           /\ DOMAIN devices' = 1 .. Len(devices) + 1
           /\ \A j \in DOMAIN devices' :
                devices'[j] = IF j = Len(devices) + 1 THEN device ELSE devices[j]
BY DEF TypeOK, Appends

LEMMA Removed ==
    ASSUME TypeOK, NEW i, Removes(i)
    PROVE  /\ devices' \in Seq(DeviceStatus)
           /\ DOMAIN devices' = 1 .. Len(devices) - 1
           /\ Len(devices') = Len(devices) - 1
           /\ Len(devices) \in DOMAIN devices
           /\ DOMAIN devices' \subseteq DOMAIN devices
           /\ \A j \in DOMAIN devices' :
                devices'[j] = IF j = i THEN devices[Len(devices)] ELSE devices[j]
<1>1. devices \in Seq(DeviceStatus) /\ i \in DOMAIN devices
  BY DEF TypeOK, Removes
<1>2. /\ SwapRemove(devices, i) \in Seq(DeviceStatus)
      /\ DOMAIN SwapRemove(devices, i) = 1 .. Len(devices) - 1
      /\ Len(SwapRemove(devices, i)) = Len(devices) - 1
      /\ \A j \in 1 .. Len(devices) - 1 : SwapRemove(devices, i)[j]
            = IF j = i THEN devices[Len(devices)] ELSE devices[j]
  BY <1>1, SwapRemoveIs
<1>3. Len(devices) \in DOMAIN devices /\ 1 .. Len(devices) - 1 \subseteq DOMAIN devices
  BY <1>1
<1> QED
  BY <1>2, <1>3 DEF Removes

LEMMA IInvInvariant ==
    Spec => []IInv
<1>1. Init => IInv
  BY DEF Init, IInv, TypeOK, InterfaceIdsUnique
<1>2. IInv /\ [Next]_devices => IInv'
  <2> SUFFICES ASSUME IInv, [Next]_devices PROVE IInv'
    OBVIOUS
  <2> USE DEF IInv
  <2>1. CASE UNCHANGED devices
    BY <2>1 DEF TypeOK, InterfaceIdsUnique
  <2>2. CASE devices' = <<>>
    BY <2>2 DEF TypeOK, InterfaceIdsUnique
  <2>3. ASSUME NEW i \in DOMAIN devices, NEW device \in DeviceStatus, Replaces(i, device)
        PROVE  IInv'
    BY <2>3, Replaced DEF Replaces, TypeOK, InterfaceIdsUnique, InterfacesUnique
  <2>4. ASSUME NEW device \in DeviceStatus, Appends(device)
        PROVE  IInv'
    BY <2>4, Appended DEF Appends, TypeOK, InterfaceIdsUnique, InterfacesUnique
  <2>5. ASSUME NEW i \in DOMAIN devices, Removes(i)
        PROVE  IInv'
    BY <2>5, Removed DEF TypeOK, InterfaceIdsUnique
  <2> QED
    BY <2>1, <2>2, <2>3, <2>4, <2>5, StepIs
<1> QED
  BY <1>1, <1>2, PTL DEF Spec

\* The vectors always hold well-formed entries: an index that find_if returns
\* is dereferenced only below the size (status.cpp:9-13, 50-55).
THEOREM TypeCorrect == Spec => []TypeOK
BY IInvInvariant, PTL DEF IInv

\* A device's vector of interfaces never has two entries with the same id, and
\* files each under the id its last message reports: for vectors of any
\* length, and whatever packets its own update is given
\* (device_status.cpp:13-28, 50-75).
THEOREM InterfacesStayUnique == Spec => []InterfaceIdsUnique
BY IInvInvariant, PTL DEF IInv
-----------------------------------------------------------------------------
\* The devices, when a DeviceStatus is given packets of its own device only.
DInv == IInv /\ DeviceIdsUnique /\ InterfacesOfOwnDevice

LEMMA DInvInvariant ==
    ASSUME ~ ForeignUpdates
    PROVE  Spec => []DInv
<1>1. Init => DInv
  BY DEF Init, DInv, IInv, TypeOK, InterfaceIdsUnique, DeviceIdsUnique,
         InterfacesOfOwnDevice
<1>2. IInv /\ IInv' /\ DInv /\ [Next]_devices => DInv'
  <2> SUFFICES ASSUME IInv, IInv', DInv, [Next]_devices
               PROVE  DeviceIdsUnique' /\ InterfacesOfOwnDevice'
    BY DEF DInv
  <2> USE DEF DInv
  <2>0. TypeOK
    BY DEF IInv
  <2>1. CASE UNCHANGED devices
    BY <2>1 DEF DeviceIdsUnique, InterfacesOfOwnDevice
  <2>2. CASE devices' = <<>>
    BY <2>2 DEF DeviceIdsUnique, InterfacesOfOwnDevice
  <2>3. ASSUME NEW i \in DOMAIN devices, NEW device \in DeviceStatus, Replaces(i, device)
        PROVE  DeviceIdsUnique' /\ InterfacesOfOwnDevice'
    <3>1. DeviceIdsUnique'
      BY <2>0, <2>3, Replaced DEF Replaces, DeviceIdsUnique
    <3>2. InterfacesOfOwnDevice'
      BY <2>0, <2>3, Replaced DEF Replaces, InterfacesOfOwnDevice, ReportedBy
    <3> QED
      BY <3>1, <3>2
  <2>4. ASSUME NEW device \in DeviceStatus, Appends(device)
        PROVE  DeviceIdsUnique' /\ InterfacesOfOwnDevice'
    <3>1. DeviceIdsUnique'
      BY <2>0, <2>4, Appended DEF Appends, DeviceIdsUnique, TypeOK
    <3>2. InterfacesOfOwnDevice'
      BY <2>0, <2>4, Appended DEF Appends, InterfacesOfOwnDevice, ReportedBy, TypeOK
    <3> QED
      BY <3>1, <3>2
  <2>5. ASSUME NEW i \in DOMAIN devices, Removes(i)
        PROVE  DeviceIdsUnique' /\ InterfacesOfOwnDevice'
    <3>1. DeviceIdsUnique'
      BY SMTT(30), <2>0, <2>5, Removed DEF DeviceIdsUnique, TypeOK
    <3>2. InterfacesOfOwnDevice'
      BY <2>0, <2>5, Removed DEF InterfacesOfOwnDevice
    <3> QED
      BY <3>1, <3>2
  <2> QED
    BY <2>1, <2>2, <2>3, <2>4, <2>5, StepIs
<1> QED
  BY <1>1, <1>2, IInvInvariant, PTL DEF Spec

\* No operation leaves two entries of one device, so every search, which stops
\* at the first match, finds the only one (status.cpp:7-20, 48-56).
THEOREM DevicesStayUnique ==
    ASSUME ~ ForeignUpdates
    PROVE  Spec => []DeviceIdsUnique
BY DInvInvariant, PTL DEF DInv

\* An update that has found a device by its id never files an interface under
\* another device, whatever removals have moved entries before
\* (status.cpp:9-13, 53).
THEOREM InterfacesStayHome ==
    ASSUME ~ ForeignUpdates
    PROVE  Spec => []InterfacesOfOwnDevice
BY DInvInvariant, PTL DEF DInv

\* Only a removal changes the device at an index, and then to the one that was
\* last (status.cpp:48-56).
THEOREM IndicesStayStable ==
    ASSUME ~ ForeignUpdates
    PROVE  Spec => IndicesStable
<1> DEFINE A == \A i \in DOMAIN devices \cap DOMAIN devices' :
                  \/ IdOf(devices'[i]) = IdOf(devices[i])
                  \/ /\ Len(devices') < Len(devices)
                     /\ devices'[i] = devices[Len(devices)]
<1>1. IInv /\ [Next]_devices => [A]_devices
  <2> SUFFICES ASSUME IInv, [Next]_devices PROVE [A]_devices
    OBVIOUS
  <2>0. TypeOK
    BY DEF IInv
  <2>1. CASE UNCHANGED devices
    BY <2>1
  <2>2. CASE devices' = <<>>
    BY <2>2
  <2>3. ASSUME NEW i \in DOMAIN devices, NEW device \in DeviceStatus, Replaces(i, device)
        PROVE  A
    BY <2>0, <2>3, Replaced DEF Replaces
  <2>4. ASSUME NEW device \in DeviceStatus, Appends(device)
        PROVE  A
    BY <2>0, <2>4, Appended DEF TypeOK
  <2>5. ASSUME NEW i \in DOMAIN devices, Removes(i)
        PROVE  A
    BY <2>0, <2>5, Removed DEF TypeOK
  <2> QED
    BY <2>1, <2>2, <2>3, <2>4, <2>5, StepIs
<1> QED
  BY <1>1, IInvInvariant, PTL DEF Spec, IndicesStable
-----------------------------------------------------------------------------
\* The dictionary of a vector of devices, entry by entry.
DevicesUnique(s) == \A i, j \in DOMAIN s : IdOf(s[i]) = IdOf(s[j]) => i = j

LEMMA RegistryIs ==
    ASSUME NEW s \in Seq(DeviceStatus), DevicesUnique(s)
    PROVE  /\ DOMAIN RegistryOf(s) = {IdOf(s[j]) : j \in DOMAIN s}
           /\ \A j \in DOMAIN s : RegistryOf(s)[IdOf(s[j])] = Entry(s[j])
<1> SUFFICES ASSUME NEW j \in DOMAIN s
             PROVE  RegistryOf(s)[IdOf(s[j])] = Entry(s[j])
  BY DEF RegistryOf
<1> DEFINE i == CHOOSE x \in DOMAIN s : IdOf(s[x]) = IdOf(s[j])
<1>1. i \in DOMAIN s /\ IdOf(s[i]) = IdOf(s[j])
  OBVIOUS
<1>2. i = j
  BY <1>1 DEF DevicesUnique
<1> QED
  BY <1>2 DEF RegistryOf

LEMMA RegistryEqual ==
    ASSUME NEW s \in Seq(DeviceStatus), DevicesUnique(s),
           NEW D, NEW f, f = [d \in D |-> f[d]],
           D = {IdOf(s[j]) : j \in DOMAIN s},
           \A j \in DOMAIN s : f[IdOf(s[j])] = Entry(s[j])
    PROVE  RegistryOf(s) = f
<1>1. ASSUME NEW d \in D PROVE RegistryOf(s)[d] = f[d]
  <2>1. PICK j \in DOMAIN s : d = IdOf(s[j])
    OBVIOUS
  <2>2. RegistryOf(s)[IdOf(s[j])] = Entry(s[j])
    BY RegistryIs
  <2> QED
    BY <2>1, <2>2
<1>2. RegistryOf(s) = [d \in D |-> RegistryOf(s)[d]]
  BY DEF RegistryOf
<1> QED
  BY <1>1, <1>2

\* Replacing one element replaces one entry.
LEMMA RegistryReplaced ==
    ASSUME DInv, DInv', NEW i \in DOMAIN devices, NEW device \in DeviceStatus,
           IdOf(device) = IdOf(devices[i]),
           devices' = [devices EXCEPT ![i] = device]
    PROVE  RegistryOf(devices)'
             = [RegistryOf(devices) EXCEPT ![IdOf(devices[i])] = Entry(device)]
<1> DEFINE s == devices
           t == devices'
           D == {IdOf(s[j]) : j \in DOMAIN s}
           f == [RegistryOf(s) EXCEPT ![IdOf(s[i])] = Entry(device)]
<1>1. s \in Seq(DeviceStatus) /\ t \in Seq(DeviceStatus)
        /\ DevicesUnique(s) /\ DevicesUnique(t)
  BY DEF DInv, IInv, TypeOK, DeviceIdsUnique, DevicesUnique
<1>2. DOMAIN t = DOMAIN s /\ \A j \in DOMAIN s : t[j] = IF j = i THEN device ELSE s[j]
  BY <1>1
<1>3. DOMAIN RegistryOf(s) = D /\ \A j \in DOMAIN s : RegistryOf(s)[IdOf(s[j])] = Entry(s[j])
  BY <1>1, RegistryIs
<1>4. f = [d \in D |-> f[d]]
  BY <1>3
<1>5. D = {IdOf(t[j]) : j \in DOMAIN t}
  BY <1>2
<1>6. \A j \in DOMAIN t : f[IdOf(t[j])] = Entry(t[j])
  <2> TAKE j \in DOMAIN t
  <2>1. CASE j = i
    BY <1>2, <1>3, <2>1
  <2>2. CASE j # i
    <3>1. t[j] = s[j] /\ IdOf(s[j]) # IdOf(s[i]) /\ IdOf(s[j]) \in D
      BY <1>1, <1>2, <2>2 DEF DevicesUnique
    <3> QED
      BY <1>2, <1>3, <3>1
  <2> QED
    BY <2>1, <2>2
<1> HIDE DEF f, D, t
<1>7. RegistryOf(t) = f
  BY ZenonT(30), <1>1, <1>4, <1>5, <1>6, RegistryEqual
<1> QED
  BY <1>7 DEF f, t

\* Removing one element removes one entry.
LEMMA SwapRemoveEntries ==
    ASSUME NEW s \in Seq(InterfaceStatus), NEW i \in DOMAIN s, InterfacesUnique(s)
    PROVE  Interfaces(SwapRemove(s, i))
             = Registry!Without(Interfaces(s), s[i].interfaceId)
<1> DEFINE t == SwapRemove(s, i)
           D == {s[j].interfaceId : j \in DOMAIN s} \ {s[i].interfaceId}
           f == Registry!Without(Interfaces(s), s[i].interfaceId)
<1>1. /\ t \in Seq(InterfaceStatus)
      /\ DOMAIN t = 1 .. Len(s) - 1
      /\ \A j \in 1 .. Len(s) - 1 : t[j] = IF j = i THEN s[Len(s)] ELSE s[j]
  BY SwapRemoveIs
<1>2. InterfacesUnique(t)
  BY SwapRemoveInterfaces
<1>3. Len(s) \in DOMAIN s /\ 1 .. Len(s) - 1 = DOMAIN s \ {Len(s)}
  OBVIOUS
<1>4. /\ f \in [D -> Packet]
      /\ \A j \in DOMAIN s : j # i => f[s[j].interfaceId] = s[j].interfacePacket
  BY InterfacesIs, InterfacesType DEF Registry!Without, InterfacesUnique
<1> HIDE DEF t, f
<1>5. D = {t[j].interfaceId : j \in DOMAIN t}
  <2>1. \A k \in D : \E j \in DOMAIN t : t[j].interfaceId = k
    <3> TAKE k \in D
    <3>1. PICK j \in DOMAIN s : s[j].interfaceId = k
      OBVIOUS
    <3>2. j # i
      BY <3>1
    <3>3. CASE j = Len(s)
      <4>1. i \in DOMAIN t
        BY <1>1, <1>3, <3>2, <3>3
      <4> QED
        BY <1>1, <3>1, <3>3, <4>1
    <3>4. CASE j # Len(s)
      BY <1>1, <1>3, <3>1, <3>2, <3>4
    <3> QED
      BY <3>3, <3>4
  <2>2. \A j \in DOMAIN t : t[j].interfaceId \in D
    BY <1>1, <1>3 DEF InterfacesUnique
  <2> QED
    BY ZenonT(60), <2>1, <2>2
<1>6. \A j \in DOMAIN t : f[t[j].interfaceId] = t[j].interfacePacket
  BY <1>1, <1>3, <1>4
<1>7. Interfaces(t) = f
  BY <1>1, <1>2, <1>4, <1>5, <1>6, InterfacesEqual
<1> QED
  BY <1>7 DEF t, f

\* The same for a vector of devices, and one more device.
LEMMA RegistryRemoved ==
    ASSUME DInv, DInv', NEW i \in DOMAIN devices, devices' = SwapRemove(devices, i)
    PROVE  RegistryOf(devices)'
             = Registry!Without(RegistryOf(devices), IdOf(devices[i]))
<1> DEFINE s == devices
           t == devices'
           D == {IdOf(s[j]) : j \in DOMAIN s} \ {IdOf(s[i])}
           f == Registry!Without(RegistryOf(s), IdOf(s[i]))
<1>1. s \in Seq(DeviceStatus) /\ t \in Seq(DeviceStatus)
        /\ DevicesUnique(s) /\ DevicesUnique(t)
  BY DEF DInv, IInv, TypeOK, DeviceIdsUnique, DevicesUnique
<1>2. /\ DOMAIN t = 1 .. Len(s) - 1
      /\ \A j \in 1 .. Len(s) - 1 : t[j] = IF j = i THEN s[Len(s)] ELSE s[j]
  BY <1>1, SwapRemoveIs
<1>3. Len(s) \in DOMAIN s /\ 1 .. Len(s) - 1 = DOMAIN s \ {Len(s)}
  BY <1>1
<1>4. DOMAIN RegistryOf(s) = {IdOf(s[j]) : j \in DOMAIN s}
        /\ \A j \in DOMAIN s : RegistryOf(s)[IdOf(s[j])] = Entry(s[j])
  BY <1>1, RegistryIs
<1>5. f = [d \in D |-> f[d]]
  BY <1>4 DEF Registry!Without
<1>6. ASSUME NEW j \in DOMAIN s, j # i PROVE f[IdOf(s[j])] = Entry(s[j])
  <2>1. IdOf(s[j]) # IdOf(s[i])
    BY <1>1, <1>6 DEF DevicesUnique
  <2>2. IdOf(s[j]) \in D
    BY <2>1
  <2> QED
    BY <1>4, <2>2 DEF Registry!Without
<1> HIDE DEF t, f
<1>7. D = {IdOf(t[j]) : j \in DOMAIN t}
  <2>1. \A d \in D : \E j \in DOMAIN t : IdOf(t[j]) = d
    <3> TAKE d \in D
    <3>1. PICK j \in DOMAIN s : IdOf(s[j]) = d
      OBVIOUS
    <3>2. j # i
      BY <3>1
    <3>3. CASE j = Len(s)
      <4>1. i \in DOMAIN t
        BY <1>2, <1>3, <3>2, <3>3
      <4> QED
        BY <1>2, <3>1, <3>3, <4>1
    <3>4. CASE j # Len(s)
      BY <1>2, <1>3, <3>1, <3>2, <3>4
    <3> QED
      BY <3>3, <3>4
  <2>2. \A j \in DOMAIN t : IdOf(t[j]) \in D
    BY <1>1, <1>2, <1>3 DEF DevicesUnique
  <2> QED
    BY <2>1, <2>2
<1>8. \A j \in DOMAIN t : f[IdOf(t[j])] = Entry(t[j])
  BY <1>2, <1>3, <1>6
<1> HIDE DEF D
<1>9. RegistryOf(t) = f
  BY <1>1, <1>5, <1>7, <1>8, RegistryEqual
<1> QED
  BY <1>9 DEF t, f

LEMMA RegistryAppended ==
    ASSUME DInv, DInv', NEW device \in DeviceStatus,
           \A j \in DOMAIN devices : IdOf(devices[j]) # IdOf(device),
           devices' = Append(devices, device)
    PROVE  RegistryOf(devices)'
             = Registry!With(RegistryOf(devices), IdOf(device), Entry(device))
<1> DEFINE s == devices
           t == devices'
           D == {IdOf(s[j]) : j \in DOMAIN s} \cup {IdOf(device)}
           f == Registry!With(RegistryOf(s), IdOf(device), Entry(device))
<1>1. s \in Seq(DeviceStatus) /\ t \in Seq(DeviceStatus)
        /\ DevicesUnique(s) /\ DevicesUnique(t)
  BY DEF DInv, IInv, TypeOK, DeviceIdsUnique, DevicesUnique
<1>2. DOMAIN t = DOMAIN s \cup {Len(s) + 1} /\ Len(s) + 1 \notin DOMAIN s
        /\ t[Len(s) + 1] = device /\ \A j \in DOMAIN s : t[j] = s[j]
  BY <1>1
<1>3. DOMAIN RegistryOf(s) = {IdOf(s[j]) : j \in DOMAIN s}
        /\ \A j \in DOMAIN s : RegistryOf(s)[IdOf(s[j])] = Entry(s[j])
  BY <1>1, RegistryIs
<1>4. f = [d \in D |-> f[d]]
  BY <1>3 DEF Registry!With
<1>5. f[IdOf(device)] = Entry(device)
        /\ \A j \in DOMAIN s : f[IdOf(s[j])] = Entry(s[j])
  BY <1>3 DEF Registry!With
<1> HIDE DEF t, f
<1>6. D = {IdOf(t[j]) : j \in DOMAIN t}
  BY <1>2
<1>7. \A j \in DOMAIN t : f[IdOf(t[j])] = Entry(t[j])
  BY <1>2, <1>5
<1> HIDE DEF D
<1>8. RegistryOf(t) = f
  BY <1>1, <1>4, <1>6, <1>7, RegistryEqual
<1> QED
  BY <1>8 DEF t, f

\* DeviceStatus::update, on the entry of the device it belongs to.
LEMMA UpdateImplements ==
    ASSUME DInv, DInv', NEW i \in DOMAIN devices, NEW p \in Packet,
           p.deviceId = IdOf(devices[i]),
           devices' = [devices EXCEPT ![i] = UpdatedDevice(@, p)]
    PROVE  [Registry!Next]_(RegistryOf(devices))
<1> DEFINE R == RegistryOf(devices)
           d == p.deviceId
           old == devices[i]
           new == UpdatedDevice(old, p)
<1>1. /\ devices \in Seq(DeviceStatus) /\ old \in DeviceStatus
      /\ InterfacesUnique(old.interfaces) /\ DevicesUnique(devices)
  BY DEF DInv, IInv, TypeOK, InterfaceIdsUnique, InterfacesUnique, DeviceIdsUnique,
         DevicesUnique
<1>2. new \in DeviceStatus /\ IdOf(new) = IdOf(old)
  BY <1>1, UpdatedDeviceIs
<1>3. R' = [R EXCEPT ![d] = Entry(new)]
  BY <1>2, RegistryReplaced
<1>4. d \in DOMAIN R /\ R[d] = Entry(old) /\ R = [x \in DOMAIN R |-> R[x]]
  <2>1. R = [x \in DOMAIN R |-> R[x]]
    BY DEF RegistryOf
  <2> QED
    BY <1>1, <2>1, RegistryIs
<1>5. CASE p.kind = "ifStatMsg"
  <2>1. new = [old EXCEPT !.interfaces = UpdateInterfaces(@, p)]
    BY <1>5 DEF UpdatedDevice
  <2>2. old.interfaces \in Seq(InterfaceStatus)
    BY <1>1 DEF DeviceStatus
  <2>3. Interfaces(UpdateInterfaces(old.interfaces, p))
          = Registry!With(Interfaces(old.interfaces), p.interfaceId, p)
    BY <1>1, <1>5, <2>2, UpdateInterfacesIs
  <2>4. /\ new.devicePacket = old.devicePacket
        /\ new.interfaces = UpdateInterfaces(old.interfaces, p)
    BY <1>1, <2>1 DEF DeviceStatus
  <2>5. Entry(new)
          = [Entry(old) EXCEPT !.interfaces = Registry!With(@, p.interfaceId, p)]
    BY <2>3, <2>4 DEF Entry
  <2>6. R' = [R EXCEPT ![d].interfaces = Registry!With(@, p.interfaceId, p)]
    <3> HIDE DEF R, new, old
    <3> QED
      BY <1>3, <1>4, <2>5
  <2>7. Registry!ReportInterface(p)
    BY <1>4, <1>5, <2>6 DEF Registry!ReportInterface
  <2> QED
    BY <2>7 DEF Registry!Next, Packet, Registry!Packet, Kind, Registry!Kind
<1>6. CASE p.kind = "cmStatMsg"
  <2>1. new.devicePacket = p /\ new.interfaces = old.interfaces
    BY <1>1, <1>6 DEF UpdatedDevice, DeviceStatus
  <2>2. Entry(new) = [packet |-> p, interfaces |-> Registry!InterfacesOf(d)]
    BY <1>4, <2>1 DEF Entry, Registry!InterfacesOf
  <2>3. R' = Registry!With(R, d, [packet |-> p, interfaces |-> Registry!InterfacesOf(d)])
    <3> HIDE DEF R, new, old
    <3> QED
      BY <1>3, <1>4, <2>2 DEF Registry!With
  <2>4. Registry!Announce(p)
    BY <1>6, <2>3 DEF Registry!Announce
  <2> QED
    BY <2>4 DEF Registry!Next, Packet, Registry!Packet, Kind, Registry!Kind
<1>7. CASE p.kind = "other"
  <2>1. new = old
    BY <1>7 DEF UpdatedDevice
  <2>2. R' = R
    <3> HIDE DEF R, new, old
    <3> QED
      BY <1>3, <1>4, <2>1
  <2> QED
    BY <2>2
<1> QED
  BY <1>5, <1>6, <1>7 DEF Packet, Kind

(***************************************************************************)
(* The vectors of status.cpp and device_status.cpp behave as a dictionary  *)
(* of devices that each hold a dictionary of interfaces: every operation   *)
(* maps to the dictionary's operation on the same ids, or to no change.    *)
(***************************************************************************)
THEOREM StatusImplementsRegistry ==
    ASSUME ~ ForeignUpdates
    PROVE  Spec => ImplementsRegistry
<1>1. Init => Registry!Init
  <2> SUFFICES ASSUME Init PROVE RegistryOf(devices) = [d \in {} |-> d]
    BY DEF Registry!Init
  <2>1. DOMAIN devices = {}
    BY DEF Init
  <2> QED
    BY <2>1 DEF RegistryOf
<1>2. DInv /\ DInv' /\ [Next]_devices => [Registry!Next]_(RegistryOf(devices))
  <2> SUFFICES ASSUME DInv, DInv', [Next]_devices
               PROVE  [Registry!Next]_(RegistryOf(devices))
    OBVIOUS
  <2>0. /\ devices \in Seq(DeviceStatus) /\ DevicesUnique(devices)
        /\ \A i \in DOMAIN devices : /\ devices[i] \in DeviceStatus
                                     /\ InterfacesUnique(devices[i].interfaces)
    BY DEF DInv, IInv, TypeOK, DeviceIdsUnique, DevicesUnique, InterfaceIdsUnique,
           InterfacesUnique
  <2>1. ASSUME NEW p \in Packet, UpdateKnown(p)
        PROVE  [Registry!Next]_(RegistryOf(devices))
    <3> DEFINE i == IndexByDeviceId(devices, p.deviceId)
    <3>1. i \in DOMAIN devices /\ devices[i].devicePacket.deviceId = p.deviceId
      BY <2>0, <2>1, IndexByDeviceIdIs DEF UpdateKnown
    <3>2. devices' = [devices EXCEPT ![i] = UpdatedDevice(@, p)]
      BY <2>1 DEF UpdateKnown
    <3> HIDE DEF i
    <3> QED
      BY <3>1, <3>2, UpdateImplements DEF IdOf
  <2>2. ASSUME NEW p \in Packet, UpdateNew(p)
        PROVE  [Registry!Next]_(RegistryOf(devices))
    <3> DEFINE device == NewDevice(p)
               R == RegistryOf(devices)
    <3>1. \A j \in DOMAIN devices : IdOf(devices[j]) # p.deviceId
      BY <2>0, <2>2, IndexByDeviceIdIs DEF UpdateNew, IdOf
    <3>2. device \in DeviceStatus /\ IdOf(device) = p.deviceId
      BY DEF NewDevice, DeviceStatus, IdOf
    <3>3. R' = Registry!With(R, p.deviceId, Entry(device))
      BY <2>2, <3>1, <3>2, RegistryAppended DEF UpdateNew
    <3>4. p.deviceId \notin DOMAIN R
      BY <2>0, <3>1, RegistryIs
    <3>5. Entry(device)
            = [packet |-> p, interfaces |-> Registry!InterfacesOf(p.deviceId)]
      <4>1. DOMAIN <<>> = {}
        OBVIOUS
      <4>2. Interfaces(<<>>) = Registry!NoInterfaces
        BY <4>1 DEF Interfaces, Registry!NoInterfaces
      <4>3. Registry!InterfacesOf(p.deviceId) = Registry!NoInterfaces
        BY <3>4 DEF Registry!InterfacesOf
      <4> QED
        BY <4>2, <4>3 DEF Entry, NewDevice
    <3>6. Registry!Announce(p)
      BY <2>2, <3>3, <3>5 DEF UpdateNew, Registry!Announce
    <3> QED
      BY <3>6 DEF Registry!Next, Packet, Registry!Packet, Kind, Registry!Kind
  <2>3. ASSUME NEW d \in DeviceId, RemoveDeviceById(d)
        PROVE  [Registry!Next]_(RegistryOf(devices))
    <3> DEFINE i == IndexByDeviceId(devices, d)
    <3>1. i \in DOMAIN devices /\ IdOf(devices[i]) = d
      BY <2>0, <2>3, IndexByDeviceIdIs DEF RemoveDeviceById, IdOf
    <3>2. devices' = SwapRemove(devices, i)
      BY <2>3 DEF RemoveDeviceById
    <3> HIDE DEF i
    <3>3. RegistryOf(devices)' = Registry!Without(RegistryOf(devices), d)
      BY <3>1, <3>2, RegistryRemoved
    <3> QED
      BY <3>3 DEF Registry!Next, Registry!Forget
  <2>4. CASE Clear
    <3>1. DOMAIN devices' = {}
      BY <2>4 DEF Clear
    <3>2. RegistryOf(devices)' = [d \in {} |-> d]
      BY <3>1 DEF RegistryOf
    <3> QED
      BY <3>2 DEF Registry!Next, Registry!Clear
  <2>5. ASSUME NEW i \in DOMAIN devices, NEW p \in Packet, UpdateDeviceStatus(i, p)
        PROVE  [Registry!Next]_(RegistryOf(devices))
    BY <2>5, UpdateImplements DEF UpdateDeviceStatus, IdOf
  <2>6. ASSUME NEW i \in DOMAIN devices, NEW k \in InterfaceId,
               RemoveInterfaceById(i, k)
        PROVE  [Registry!Next]_(RegistryOf(devices))
    <3> DEFINE s == devices[i].interfaces
               index == IndexByInterfaceId(s, k)
               device == [devices[i] EXCEPT !.interfaces = SwapRemove(s, index)]
               R == RegistryOf(devices)
               d == IdOf(devices[i])
    <3>1. s \in Seq(InterfaceStatus) /\ InterfacesUnique(s)
      BY <2>0 DEF DeviceStatus
    <3>2. index \in DOMAIN s /\ s[index].interfaceId = k
      BY <2>6, <3>1, IndexByInterfaceIdIs DEF RemoveInterfaceById
    <3>3. SwapRemove(s, index) \in Seq(InterfaceStatus)
      BY <3>1, <3>2, SwapRemoveIs
    <3>4. /\ device \in DeviceStatus /\ device.interfaces = SwapRemove(s, index)
          /\ device.devicePacket = devices[i].devicePacket
      BY <2>0, <3>3 DEF DeviceStatus
    <3>5. devices' = [devices EXCEPT ![i] = device]
      BY <2>6 DEF RemoveInterfaceById
    <3>6. Interfaces(SwapRemove(s, index)) = Registry!Without(Interfaces(s), k)
      BY <3>1, <3>2, SwapRemoveEntries
    <3>7. Entry(device)
            = [Entry(devices[i]) EXCEPT !.interfaces = Registry!Without(@, k)]
      BY <3>4, <3>6 DEF Entry
    <3>8. IdOf(device) = d
      BY <3>4 DEF IdOf
    <3>9. R' = [R EXCEPT ![d] = Entry(device)]
      <4> HIDE DEF device
      <4> QED
        BY <3>4, <3>5, <3>8, RegistryReplaced
    <3>10. d \in DOMAIN R /\ R[d] = Entry(devices[i])
      BY <2>0, RegistryIs
    <3>11. R' = [R EXCEPT ![d].interfaces = Registry!Without(@, k)]
      <4> HIDE DEF R, device, d
      <4> QED
        BY <3>7, <3>9, <3>10
    <3>12. d \in DeviceId
      BY <2>0 DEF DeviceStatus, Packet, IdOf
    <3> QED
      BY <3>10, <3>11, <3>12 DEF Registry!Next, Registry!ForgetInterface
  <2>7. CASE UNCHANGED devices
    BY <2>7
  <2> QED
    BY <2>1, <2>2, <2>3, <2>4, <2>5, <2>6, <2>7
       DEF Next, UpdateIgnored, RemoveUnknownDevice, RemoveUnknownInterface
<1> QED
  BY <1>1, <1>2, DInvInvariant, PTL DEF Spec, ImplementsRegistry, Registry!Spec
=============================================================================
