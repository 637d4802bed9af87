CONSTANTS
    orders = orders
    c1 = c1
    c2 = c2
    c3 = c3
    Services = {orders}
    Clicks = {c1, c2, c3}
    Capacity = 2
    FailureThreshold = 2
    MaxFailures = 2
    MaxDisturbances = 1
SPECIFICATION FairSpec
INVARIANTS
    TypeOK
    NoToggleIsLost
    KilledServicesAreDoomed
PROPERTIES
    KilledServicesComeBack
    ShopRecovers
