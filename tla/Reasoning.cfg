CONSTANTS
    DurableMax = 0
    LiveMax = 5
    MaxBranches = 1
    MaxBranchSize = 2
    Persistent = FALSE
    BeamWidth = 1
    DepthCap = 3
    TerminationScore = 42000
    PlateauWindow = 3
    PlateauEpsilon = 6000
    Inputs <- MCInputs
    NewThoughtTypes = TRUE
    ToolInterleave = FALSE
    KeepLastK = 1
    MaxAdmissions = 6
SPECIFICATION Spec
INVARIANTS
    GraphViewsAgree
    RetractionIsErasure
    VerificationsAreLabelled
    HydratedCovers
CHECK_DEADLOCK FALSE
