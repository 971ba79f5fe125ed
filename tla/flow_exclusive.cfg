SPECIFICATION FlowSpec
CONSTANTS
    Requests = {r1,r2}
    Cancellers = {}
    Sessions = {s1}
    Dirs = {d1}
    Homes = {h1}
    Windows = {w1}
    w1 = w1
    w2 = w2
    h1 = h1
    h2 = h2
    HomeOf <- OneWindow
    NoLock = NoLock
    NoThread = NoThread
    NoHome = NoHome
    NoSession = NoSession
    Backing = "file"
    MaxFaults = 0
CHECK_DEADLOCK FALSE
INVARIANTS Exclusive
