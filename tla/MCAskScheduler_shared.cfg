SPECIFICATION FairSpec
CONSTANTS
    s1 = s1
    s2 = s2
    s3 = s3
    s4 = s4
    r1 = r1
    r2 = r2
    NoInstance = NoInstance
    NumActors = 3
    NumFibers = 3
    Sites = {s1, s2, s3, s4}
    Script <- SharedActors
    Awaited = {1, 2}
    Uncaught = {1}
    Results = {r1}
    MaxConcurrency = 2
    RepairAttempts = 1
    NudgeAttempts = 1
    MaxLives = 2
INVARIANTS
    JournalSound
    SlotsAccounted
    WorkConserving
    NothingLeftBehind
    ReplaySound
PROPERTIES
    SettledRowsFrozen
    AskedInOrderOnce
    ImplementsLedger
    EveryLifeEnds
