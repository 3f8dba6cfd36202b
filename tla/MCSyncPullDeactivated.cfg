SPECIFICATION Spec
CONSTANTS
    Customers = {1, 2}
    Deliveries = {3}
    PageSize = 1
    MaxTime = 3
    MaxWrites = 1
    MaxFailures = 0
INVARIANT DeactivatedRemoved
