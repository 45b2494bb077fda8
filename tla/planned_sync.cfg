SPECIFICATION FairSpec
CONSTANTS
    Tables <- MCTables
    CommonTables <- MCCommonTables
    SkipTables = {}
    Mode = "sync"
    SampleSize = 1
    BatchSize = 2
    Keys = {1, 2, 3}
    Values = {"new"}
    Absent = "absent"
    Refs <- MCRefs
    Level <- MCLevel
    BatchIds = {1, 2, 3, 4, 5, 6}
    Adapter = "db2"
    AlwaysTables = {"items"}
    MaxConsecutive = 2
    RateNum = 1
    RateDen = 2
    Faults = {"commit", "ack", "checkpoint", "rollback", "crash"}
    MaxRuns = 2
    Inputs <- GapFreeInputs
CHECK_DEADLOCK FALSE
INVARIANTS IdentityIsRestored ReturnMeansCaughtUp PassMeansKeysCopied NoFalseAlarm CompletedBatchesAreSettled
PROPERTIES SyncDeletesNothing ExecuteEnds
