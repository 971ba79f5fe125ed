SPECIFICATION Spec
CONSTANTS
    Names = {n1}
    Commands = {c1, c2}
    Loop = Loop
    Slots <- SomeSlots
    Horizon = 2
    MaxJobs = 2
    MaxTime = 1
    MaxFaults = 1
    MaxRestarts = 1
CHECK_DEADLOCK FALSE
INVARIANTS SchedulerTypeOK OneRun
PROPERTIES OncePerSlot DueIsServed
