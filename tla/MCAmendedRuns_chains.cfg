CONSTANTS
    a1 = a1
    a2 = a2
    h1 = h1
    h2 = h2
    h3 = h3
    w1 = w1
    w2 = w2
    NoActor = NoActor
    Actors = {a1, a2}
    Hashes = {h1, h2, h3, w1, w2}
    Plans <- ChainOrFanout
    MaxLives = 2
SPECIFICATION Spec
INVARIANTS
    ModelSeesItsHistory
    BoundariesAddressTheSource
    ImportSound
    NoStaleImport
PROPERTY
    AnswersFinal
