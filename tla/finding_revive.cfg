CONSTANTS
    orders = orders
    c1 = c1
    c2 = c2
    Services = {orders}
    Clicks = {c1, c2}
    Capacity = 2
    FailureThreshold = 2
    MaxFailures = 2
    MaxDisturbances = 1
SPECIFICATION Spec
PROPERTY
    StopsOnlyWhenKilled
