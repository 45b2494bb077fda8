SPECIFICATION FairSpec
CONSTANTS
    Names <- MCNames
    References <- MCReferences
    Lower <- MCLower
    Catalogues <- MCCatalogues
CHECK_DEADLOCK FALSE
INVARIANTS TypeOK ForeignKeysAreOrdered LevelsAreTight CyclesComeLast OrdersFollowLevels
PROPERTIES BuildReturns
