SPECIFICATION Spec
CONSTANTS
    run_a = run_a
    run_b = run_b
    run_c = run_c
    Observer = Observer
    Runs <- Two
    MainAgent = FALSE
    Aborting <- Two
    RetryAfters = {0, 3}
    MaxRequests = 3
    Ceiling = 2
    IncreaseAfter = 2
    IdleReset = 2
INVARIANTS
    NoLostWakeup
