SPECIFICATION PoolSpec
CONSTANTS
    Items = 5
    Concurrency = 3
    LaunchLimit = 5
    MaxRetries = 0
PROPERTIES
    Throttled
CHECK_DEADLOCK FALSE
