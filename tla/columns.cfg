CONSTANTS
    Alphabet <- MCAlphabet
    DataTypes = {"varchar", "character", "integer"}
    Lengths = {1, 5}
    Lobs = {"clob", "xml"}
    Varchars = {"varchar"}
    Keys = {1, 2}
    Absent = NoRow
    NoRow = NoRow
    Schemas <- MCSchemas
    Calls <- MCCalls
    Inputs <- MCInputs
    MaxWrites = 1

SPECIFICATION Spec

INVARIANTS
    ColumnsAreCopied
    RunsSettle
    FailuresAreAnnounced

PROPERTIES
    TargetOnlyColumnsAreKept
