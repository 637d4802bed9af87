CONSTANTS
    Writes = {w1, w2, w3}
    Reads = {d1}
    Requests <- StoreRequests
    SeedProducts <- TwoSeeds
SPECIFICATION FairSpec
INVARIANTS
    TypeOK
    FileIsNeverTorn
    UnlockedMemoryIsOnDisk
PROPERTIES
    ImplementsDurableCatalogue
    LockIsReleased
CHECK_DEADLOCK FALSE
