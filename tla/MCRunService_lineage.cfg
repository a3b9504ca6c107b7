SPECIFICATION Spec
CONSTANTS
    Runs = {ra, rb}
    NoRun = norun
    Callers = {k1}
    TerminalLimit = 2
    MaxLaunches = 2
    MaxServices = 2
    Ends <- Crashes
CHECK_DEADLOCK FALSE
INVARIANT
    LineageHasTwoEnds
