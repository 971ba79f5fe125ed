SPECIFICATION Spec
CONSTANTS
    Commands = {c1, c2}
    Messages = {m1}
    Agents = {a1, a2}
    owner = owner
    guest = guest
    Chats <- SomeChats
    Owners = {owner}
    Budget = 2
    Seed = Seed
    None = None
    MaxFaults = 1
    MaxStops = 1
SYMMETRY Symmetry
CHECK_DEADLOCK FALSE
INVARIANTS
    MemoryTypeOK
    LoadedIsAllowed
    DigestsAreOwners
    DigestsAreKept
    JobsAreAlive
