SPECIFICATION FairSpec
CONSTANTS
    MaxTransfers = 5
    MaxSlots = 3
INVARIANTS
    TypeOK
    RowsTellTheTruth
PROPERTIES
    StartsInOrder
    EveryTransferEnds
CHECK_DEADLOCK FALSE
