SPECIFICATION Spec
CONSTANTS
    DeviceId = {d1, d2, d3}
    InterfaceId = {i1, i2}
    Stamp = {s1, s2}
    NoInterface = NoInterface
    ForeignUpdates = FALSE
SYMMETRY Symmetry
INVARIANTS
    TypeOK
    DeviceIdsUnique
    InterfaceIdsUnique
    InterfacesOfOwnDevice
PROPERTIES
    IndicesStable
    ImplementsRegistry
