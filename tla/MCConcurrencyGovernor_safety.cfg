SPECIFICATION Spec
CONSTANTS
    run_a = run_a
    run_b = run_b
    run_c = run_c
    Observer = Observer
    Runs <- Two
    MainAgent = TRUE
    Aborting <- Two
    RetryAfters = {0, 1}
    MaxRequests = 3
    Ceiling = 3
    IncreaseAfter = 2
    IdleReset = 2
INVARIANTS
    TypeOK
    TicketsAccounted
    DemandKnown
    ProvedCapStands
PROPERTIES
    BatchCutOnce
