SPECIFICATION Spec
CONSTANTS
    o1 = o1
    o2 = o2
    o3 = o3
    b1 = b1
    b2 = b2
    b3 = b3
    b4 = b4
    Object = {o1, o2, o3}
    Block = {b1, b2, b3, b4}
    None = None
    Settings <- MCSettings
    Data = {"bytes", "zero"}
    Zero = "zero"
    Payloads <- MCPayloads
    WellFormed <- MCWellFormed
    LengthMod = 2
SYMMETRY Symmetric
INVARIANTS
    TypeOK
    UniqueOwnership
    AssignedAlike
    MessageSurvives
PROPERTY ImplementsValues
