CONSTANTS
    ReplicaCount = 2
    Writes = {w1, w2}
    Reads = {}
    Seeds = {"Caderno"}
    Requests <- BasicRequests
    InitialCatalogue <- LastUnit
SYMMETRY WriteSymmetry
SPECIFICATION Spec
INVARIANT
    AnyAcceptedAnswerWillDo
CHECK_DEADLOCK FALSE
