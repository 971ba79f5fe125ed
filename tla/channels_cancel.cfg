SPECIFICATION Spec
CONSTANTS
    Events = {e1, e2}
    Adapters <- SomeAdapters
    Messages <- SomeMessages
    Sessions = {s1}
    Segments = 1
    Window = 1
    None = None
    MaxTime = 0
    MaxFaults = 0
    MaxStops = 0
    MaxDeliveries = 1
CHECK_DEADLOCK FALSE
INVARIANTS
    CancelIsHeard
