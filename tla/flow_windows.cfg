SPECIFICATION FlowSpec
CONSTANTS
    Requests = {r1,r2}
    Cancellers = {c1}
    Sessions = {s1}
    Dirs = {d1,d2}
    Homes = {h1,h2}
    Windows = {w1,w2}
    w1 = w1
    w2 = w2
    h1 = h1
    h2 = h2
    HomeOf <- TwoChats
    NoLock = NoLock
    NoThread = NoThread
    NoHome = NoHome
    NoSession = NoSession
    Backing = "file"
    MaxFaults = 1
CHECK_DEADLOCK FALSE
SYMMETRY Symmetry
INVARIANTS FlowTypeOK BindingsResolve RunsAtHome ThreadInItsDir
