SPECIFICATION Spec
CONSTANTS
    Events = {e1, e2}
    Adapters <- SomeAdapters
    Messages <- SomeMessages
    Sessions = {s1}
    Segments = 2
    Window = 1
    None = None
    MaxTime = 2
    MaxFaults = 2
    MaxStops = 1
    MaxDeliveries = 2
SYMMETRY Symmetry
CHECK_DEADLOCK FALSE
INVARIANTS
    ChannelsTypeOK
    ConfirmedIsHandled
    HandledOnce
PROPERTIES
    PartialIsNoticed
    AnswersGoHome
