SPECIFICATION Spec
CONSTANTS
    Calls = {req1}
    Events = {evt1}
    Starts = {"early"}
    MaxListens <- Listens
    MaxWire = 2
CHECK_DEADLOCK FALSE
INVARIANT
    NoStraySubscription
