SPECIFICATION Spec
CONSTANTS
    Tables <- MCTables
    CommonTables <- MCCommonTables
    SkipTables = {}
    Keys = {1, 2}
    Values = {"old", "new"}
    Absent = "absent"
    Refs <- MCRefs
    Level <- MCLevel
    Mode = "rollback"
    BatchSize = 2
    PageSize = 1
    Adapter = "db2"
    AlwaysTables = {}
    AutomationMode = "supervised"
    Environment = "development"
    AutoConfirmBelowRows = 0
    Invocations <- FullFlags
    Inputs <- SoundInputs
    MaxWrites = 0
    MaxFaults = 0
INVARIANTS SuccessMeansCopied
CHECK_DEADLOCK FALSE
