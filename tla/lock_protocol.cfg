SPECIFICATION Spec
CONSTANTS
    Requests = {r1, r2, r3}
    Cancellers = {}
    Sessions = {s1}
    Dirs = {d1}
    NoLock = NoLock
    NoThread = NoThread
    Homes = {h1}
    NoHome = NoHome
    NoSession = NoSession
    Backing = "file"
    MaxFaults = 1
CHECK_DEADLOCK FALSE
INVARIANTS TypeOK TokenHeld Exclusive RunningHasOwner LoneRequestRuns
PROPERTIES ImplementsSlot
