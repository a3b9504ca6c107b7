SPECIFICATION FairSpec
CONSTANTS
    run_a = run_a
    run_b = run_b
    run_c = run_c
    Observer = Observer
    Runs <- Three
    MainAgent = FALSE
    Aborting <- Nobody
    RetryAfters = {0, 1}
    MaxRequests = 4
    Ceiling = 1
    IncreaseAfter = 2
    IdleReset = 1
INVARIANTS
    NoLostWakeup
PROPERTIES
    EveryRunServed
