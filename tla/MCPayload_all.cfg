SPECIFICATION PSpec
CONSTANTS
    Types <- AllTypes
    Values <- MCValues
    FlagValues <- MCFlagValues
    CanData <- MCCanData
    Strings <- MCStrings
    Lists <- MCLists
    ByteMod = 5
    ClearCrcFlags = FALSE
INVARIANTS
    TypeOK
    FieldsReadBack
    PartsReadBack
    SurvivesUnlessError
