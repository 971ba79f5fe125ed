SPECIFICATION Spec
CONSTANTS
    None = None
    main = main
    review = review
    codex = codex
    claude = claude
    Agents = {main, review}
    Main = main
    Profiles = {codex, claude}
    Codex = codex
    Platforms <- MCPlatforms
    Skills = {"sum", "echo"}
    Files = {f1, f2}
    Workers = {w1, w2}
    InitialFiles <- MCInitialFiles
    Environments <- MCEnvironments
    Asked <- MCAsked
    MaxFaults = 1
    MaxStops = 1
CHECK_DEADLOCK FALSE
INVARIANTS ConfigTypeOK
PROPERTIES MigrationKeepsAll WritesKeepMeaning
SYMMETRY Alike
