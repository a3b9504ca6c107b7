SPECIFICATION LiveSpec
CONSTANTS
    Calls = {req1, req2}
    Events = {evt1}
    Starts = {"steady", "early"}
    MaxListens <- Listens
    MaxWire = 2
CHECK_DEADLOCK FALSE
INVARIANTS
    NoStrayAfterHandshake
    TablesSound
PROPERTIES
    CallsEndOnce
