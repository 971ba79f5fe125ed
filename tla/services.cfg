SPECIFICATION Spec
CONSTANTS
    Starters = {s1, s2}
    Stoppers = {k1, k2}
    None = None
    MaxFaults = 1
    MaxRestarts = 1
CHECK_DEADLOCK FALSE
INVARIANTS ServiceTypeOK OneProcess LiveIsReported RefusedLeavesNone RecordIsTrue
PROPERTIES EndedIsForgotten
