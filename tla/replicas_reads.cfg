CONSTANTS
    ReplicaCount = 2
    Writes = {w1}
    Reads = {d1}
    Seeds = {"Caderno"}
    Requests <- EveryRequest
    InitialCatalogue <- LastUnit
SPECIFICATION FairSpec
INVARIANT
    ReadsShowAcknowledgedWrites
PROPERTIES
    RequestsAreAnswered
CHECK_DEADLOCK FALSE
