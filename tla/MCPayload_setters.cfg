SPECIFICATION PSpec
CONSTANTS
    Types = {"can"}
    Values <- MCValues
    FlagValues <- MCFlagValues
    CanData <- MCCanData
    Strings <- MCStrings
    Lists <- MCLists
    ByteMod = 5
    ClearCrcFlags = TRUE
INVARIANTS
    FieldsReadBack
