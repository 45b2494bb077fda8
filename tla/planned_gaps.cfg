SPECIFICATION Spec
CONSTANTS
    Tables <- MCTables
    CommonTables <- MCCommonTables
    SkipTables = {}
    Mode = "rollback"
    SampleSize = 1
    BatchSize = 2
    Keys = {1, 2, 3}
    Values = {"new"}
    Absent = "absent"
    Refs <- MCRefs
    Level <- MCLevel
    BatchIds = {1, 2, 3, 4, 5, 6}
    Adapter = "postgresql"
    AlwaysTables = {}
    MaxConsecutive = 3
    RateNum = 1
    RateDen = 2
    Faults = {}
    MaxRuns = 1
    Inputs <- PlannedInputs
CHECK_DEADLOCK FALSE
PROPERTIES CommonRowsSurvive
