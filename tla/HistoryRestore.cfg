\* The instance of History.cfg.
SPECIFICATION Spec
SYMMETRY Interchangeable
CONSTANTS
    ThoughtIds = {i1, i2, i3, i4}
    OtherId = i1
    i1 = i1
    i2 = i2
    i3 = i3
    i4 = i4
    BranchIds = {1, 2}
    Inputs <- MCInputs
    LiveMax = 2
    DurableMax = 3
    MaxBranches = 1
    MaxBranchSize = 1
    Persistent = TRUE
    MaxAdmissions = 5
    PersistBranches = TRUE
INVARIANTS
    OnlyTargetsRetracted
CHECK_DEADLOCK FALSE
