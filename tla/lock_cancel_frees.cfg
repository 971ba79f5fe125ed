SPECIFICATION Spec
CONSTANTS
    Requests = {r1}
    Cancellers = {c1,c2}
    Sessions = {s1}
    Dirs = {d1}
    NoLock = NoLock
    NoThread = NoThread
    Homes = {h1}
    NoHome = NoHome
    NoSession = NoSession
    Backing = "file"
    MaxFaults = 0
CHECK_DEADLOCK FALSE
PROPERTIES CancelFreesSession
