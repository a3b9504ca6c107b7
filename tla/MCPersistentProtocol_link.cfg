SPECIFICATION FairSpec
CONSTANTS
    near = near
    far = far
    Peers = {near, far}
    Sizes = {1, 2}
    HighWater = 2
    LowWater = 1
    MaxBytes = 3
    MaxSend <- Exchange
    MaxSockets = 2
    MaxWire = 1
INVARIANTS
    NoGap
    ForgottenOnlyWhenSeen
    OncePerSocket
    SaturationTracksBuffer
PROPERTIES
    ImplementsLink
    EverythingArrives
