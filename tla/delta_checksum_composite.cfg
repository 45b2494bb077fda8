SPECIFICATION Spec
CONSTANTS
    Values = {"v1", "v2"}
    Absent = "absent"
    Keys <- MCKeys
    First <- MCFirst
    Adapter <- FromPostgreSQL
    Digest <- DistinctDigest
    ChecksumThreshold = 3
    KeyBatch = 2
    FetchBatch = 2
    RowBatch = 2
    Calls <- ChecksumCalls
INVARIANTS ChecksumReadsEveryRow
CHECK_DEADLOCK FALSE
