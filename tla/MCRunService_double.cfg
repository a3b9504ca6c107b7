SPECIFICATION Spec
CONSTANTS
    Runs = {ra, rb}
    NoRun = norun
    Callers = {k1, k2}
    TerminalLimit = 2
    MaxLaunches = 4
    MaxServices = 1
    Ends <- Nothing
CHECK_DEADLOCK FALSE
INVARIANT
    OneEnginePerRun
