SPECIFICATION Spec
CONSTANTS
    run_a = run_a
    run_b = run_b
    run_c = run_c
    Observer = Observer
    Runs <- One
    MainAgent = FALSE
    Aborting <- Nobody
    RetryAfters = {0, 1}
    MaxRequests = 3
    Ceiling = 2
    IncreaseAfter = 2
    IdleReset = 2
PROPERTIES
    AlarmAwaitsCooldown
