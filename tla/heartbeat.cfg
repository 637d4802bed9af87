CONSTANTS
    orders = orders
    users = users
    Services = {orders, users}
    SyntheticServices = {users}
    FailureThreshold = 2
    Capacity = 2
    MaxFailures = 3
    MaxDisturbances = 4
SPECIFICATION FairSpec
INVARIANTS
    TypeOK
    RingShowsRecentEvents
    LogMatchesStatus
PROPERTIES
    DownOnlyAfterFailuresInARow
    StatusFollowsHealth
