---------------------------- MODULE DeviceRegistry ----------------------------
(***************************************************************************)
(* What the Status helper promises: a dictionary of the devices that have  *)
(* announced themselves with a capture module status message; each entry   *)
(* has the last such message and a dictionary of the device's interfaces,  *)
(* each with its last interface status message.  Order does not exist.     *)
(***************************************************************************)
EXTENDS Naturals

CONSTANTS DeviceId, InterfaceId, Stamp,
    NoInterface         \* of a packet that is no interface status message

Kind == {"cmStatMsg", "ifStatMsg", "other"}

\* A status packet: who sent it, the kind of its payload, the interface an
\* interface status message reports on, and "stamp" for all the rest of it.
Packet ==
    {p \in [deviceId: DeviceId, kind: Kind, interfaceId: InterfaceId \cup {NoInterface},
            stamp: Stamp] :
        p.kind = "ifStatMsg" <=> p.interfaceId # NoInterface}

VARIABLE registry

NoInterfaces == [k \in {} |-> k]

InterfacesOf(d) ==
    IF d \in DOMAIN registry THEN registry[d].interfaces ELSE NoInterfaces

With(map, key, value) ==
    [k \in DOMAIN map \cup {key} |-> IF k = key THEN value ELSE map[k]]
Without(map, key) == [k \in DOMAIN map \ {key} |-> map[k]]

Init == registry = [d \in {} |-> d]

Announce(p) ==
    /\ p.kind = "cmStatMsg"
    /\ registry' = With(registry, p.deviceId,
                        [packet |-> p, interfaces |-> InterfacesOf(p.deviceId)])

ReportInterface(p) ==
    /\ p.kind = "ifStatMsg"
    /\ p.deviceId \in DOMAIN registry
    /\ registry' = [registry EXCEPT
                      ![p.deviceId].interfaces = With(@, p.interfaceId, p)]

Forget(d) == registry' = Without(registry, d)

ForgetInterface(d, k) ==
    /\ d \in DOMAIN registry
    /\ registry' = [registry EXCEPT ![d].interfaces = Without(@, k)]

Clear == registry' = [d \in {} |-> d]

Next ==
    \/ \E p \in Packet : Announce(p) \/ ReportInterface(p)
    \/ \E d \in DeviceId : Forget(d)
    \/ \E d \in DeviceId, k \in InterfaceId : ForgetInterface(d, k)
    \/ Clear

Spec == Init /\ [][Next]_registry
=============================================================================
