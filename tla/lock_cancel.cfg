SPECIFICATION Spec
CONSTANTS
    Requests = {r1,r2}
    Cancellers = {c1}
    Sessions = {s1}
    Dirs = {d1,d2}
    NoLock = NoLock
    NoThread = NoThread
    Homes = {h1}
    NoHome = NoHome
    NoSession = NoSession
    Backing = "file"
    MaxFaults = 1
CHECK_DEADLOCK FALSE
INVARIANTS ThreadInItsDir
PROPERTIES LockGivenBack
