SPECIFICATION Spec
CONSTANTS
    Tables <- MCTables
    Mode = "rollback"
    Keys = {1, 2, 3}
    Values = {"old", "new"}
    Absent = "absent"
    Refs <- MCRefs
    Level <- MCLevel
    BatchIds = {1, 2, 3, 4, 5, 6}
    Adapter = "postgresql"
    AlwaysTables = {}
    MaxConsecutive = 2
    RateNum = 1
    RateDen = 2
    Faults = {"statement", "commit", "ack", "checkpoint", "rollback", "crash"}
    MaxRuns = 2
    Inputs <- AllInputs
CHECK_DEADLOCK FALSE
INVARIANTS TypeOK CompletedImpliesCommitted CompletedBatchesAreSettled ReturnAccountsForAll ReportMatchesCheckpoint
PROPERTIES TrippedTableIsLeftAlone ImplementsAtomicMigration
