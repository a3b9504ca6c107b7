SPECIFICATION FairSpec
CONSTANTS
    s1 = s1
    s2 = s2
    s3 = s3
    s4 = s4
    r1 = r1
    r2 = r2
    NoInstance = NoInstance
    NumActors = 2
    NumFibers = 2
    Sites = {s1, s2}
    Script <- Pipeline
    Awaited = {1, 2}
    Uncaught = {1, 2}
    Results = {r1}
    MaxConcurrency = 2
    RepairAttempts = 0
    NudgeAttempts = 0
    MaxLives = 2
INVARIANTS
    ReplayNeverMismatches
