CONSTANTS
    ReplicaCount = 2
    Reads = {d1}
    Capacity = 1
    FailureThreshold = 2
    MaxFailures = 2
    MaxDisturbances = 2
SPECIFICATION FairSpec
INVARIANTS
    TypeOK
    OneReplicaIsEnough
PROPERTIES
    ReadsSettle
