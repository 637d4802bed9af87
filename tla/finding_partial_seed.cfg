CONSTANTS
    Writes = {w1}
    Reads = {d1}
    Requests <- StoreRequests
    SeedProducts <- TwoSeeds
SPECIFICATION Spec
INVARIANT ServesWithAllSeeds
CHECK_DEADLOCK FALSE
