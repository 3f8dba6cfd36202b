SPECIFICATION FairSpec
CONSTANTS
    Customers = {1, 2}
    Deliveries = {3}
    PageSize = 1
    MaxTime = 3
    MaxWrites = 2
    MaxFailures = 1
INVARIANT NothingElseSkipped
PROPERTY CatchesUp
