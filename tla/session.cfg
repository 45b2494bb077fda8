SPECIFICATION Spec
CONSTANTS
    Keys <- MCKeys
    Triggers <- MCTriggers
    Adapters = {"postgresql", "db2"}
    PageSize = 1
    ChunkSize = 1
    MaxCalls = 3
    MaxFaults = 2
INVARIANTS WorkIsKept UnbegunWorkIsDurable SchemaIsLeftWhole
PROPERTIES CommitKeepsAll RollbackUndoesAll
