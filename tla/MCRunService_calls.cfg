SPECIFICATION LiveSpec
CONSTANTS
    Runs = {ra, rb, rc}
    NoRun = norun
    Callers = {k1, k2}
    TerminalLimit = 1
    MaxLaunches = 3
    MaxServices = 2
    Ends <- Both
CHECK_DEADLOCK FALSE
INVARIANTS
    RowsBacked
PROPERTIES
    RecordsStand
    ServiceAnswers
