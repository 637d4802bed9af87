CONSTANTS
    ReplicaCount = 2
    Writes = {w1, w2}
    Reads = {}
    Seeds = {"Caderno"}
    Requests <- TradeRequests
    InitialCatalogue <- LastUnit
SYMMETRY WriteSymmetry
SPECIFICATION Spec
INVARIANTS
    TypeOK
    AcknowledgedCreationsAreEverywhere
    StockAccountsForSales
    SerialWritesKeepReplicasIdentical
PROPERTY
    ImplementsReplicatedCatalogue
CHECK_DEADLOCK FALSE
