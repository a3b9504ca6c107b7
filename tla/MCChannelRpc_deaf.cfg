SPECIFICATION Spec
CONSTANTS
    Calls = {req1}
    Events = {evt1}
    Starts = {"steady"}
    MaxListens <- Listens
    MaxWire = 2
CHECK_DEADLOCK FALSE
INVARIANT
    HeardWhileListening
