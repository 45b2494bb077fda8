SPECIFICATION Spec
CONSTANTS
    Tables <- MCTables
    Mode = "rollback"
    Keys = {1, 2, 3, 4, 5}
    Values = {"old", "new"}
    Absent = "absent"
    Refs <- MCRefs
    Level <- MCLevel
    BatchIds = {1, 2, 3, 4, 5, 6}
    Adapter = "postgresql"
    AlwaysTables = {}
    MaxConsecutive = 3
    RateNum = 1
    RateDen = 2
    Faults = {"crash"}
    MaxRuns = 2
    Inputs <- LongInputs
CHECK_DEADLOCK FALSE
INVARIANTS CrashedMigrationResumes
