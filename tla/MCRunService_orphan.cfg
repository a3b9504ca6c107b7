SPECIFICATION Spec
CONSTANTS
    Runs = {ra, rb}
    NoRun = norun
    Callers = {k1}
    TerminalLimit = 2
    MaxLaunches = 3
    MaxServices = 2
    Ends <- Closes
CHECK_DEADLOCK FALSE
INVARIANT
    OwnedEngines
