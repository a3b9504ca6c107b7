SPECIFICATION FairPoolSpec
CONSTANTS
    Items = 4
    Concurrency = 3
    LaunchLimit = 3
    MaxRetries = 2
INVARIANTS
    ItemsAccounted
PROPERTIES
    PoolReturns
CHECK_DEADLOCK FALSE
