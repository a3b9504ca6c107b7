SPECIFICATION Spec
CONSTANTS
    near = near
    far = far
    Peers = {near, far}
    Sizes = {1}
    HighWater = 1
    LowWater = 0
    MaxBytes = 1
    MaxSend <- Burst
    MaxSockets = 2
    MaxWire = 1
INVARIANTS
    BufferBounded
