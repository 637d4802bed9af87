CONSTANTS
    Replicas = {0, 1}
    Writes = {w1, w2}
    Requests <- Sales
    InitialCatalogue <- TwoUnits
    Accounts = {1, 2}
SPECIFICATION Spec
SYMMETRY PressSymmetry
INVARIANTS
    TypeOK
    OrdersAreBackedBySales
    ConfirmedPurchasesAreOrdered
    ListsShowConfirmedOrders
CHECK_DEADLOCK FALSE
