CONSTANTS
    Replicas = {0, 1}
    Writes = {w1}
    Requests <- Sales
    InitialCatalogue <- TwoUnits
    Accounts = {1, 2}
SPECIFICATION Spec
INVARIANTS
    MyOrdersAreMine
CHECK_DEADLOCK FALSE
