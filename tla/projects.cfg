SPECIFICATION Spec
CONSTANTS
    Ids = {main, p1}
    Default = main
    Routes = {r1}
    Commands = {c1, c2, c3}
    Kinds <- EveryKind
    None = None
    MaxFaults = 1
    MaxLost = 1
    MaxStops = 1
SYMMETRY Symmetry
CHECK_DEADLOCK FALSE
INVARIANTS ProjectTypeOK BindingsKnown AcceptedWasApplied
PROPERTIES DeleteIsComplete LoneSaveIsLocal
