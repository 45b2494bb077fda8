SPECIFICATION FairSpec
CONSTANTS
    Tables <- MCTables
    CommonTables <- MCCommonTables
    SkipTables = {}
    Keys = {1, 2}
    Values = {"old", "new"}
    Absent = "absent"
    Refs <- MCRefs
    Level <- MCLevel
    Mode = "sync"
    BatchSize = 2
    PageSize = 1
    Adapter = "postgresql"
    AlwaysTables = {}
    AutomationMode = "auto_non_prod"
    Environment = "development"
    AutoConfirmBelowRows = 0
    Invocations <- MixedFlags
    Inputs <- OutdatedInputs
    MaxWrites = 1
    MaxFaults = 1
INVARIANTS SuccessMeansCopied
PROPERTIES KeptRowsSurvive OnlyConfirmedWrites QuietRunsAreNotRefused EventuallyCopied
CHECK_DEADLOCK FALSE
