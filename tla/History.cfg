\* A durable history of three thoughts, two of them live, one branch and one thought on it;
\* five thoughts, each with any id that is free, so that the first two leave the backends.
SPECIFICATION Spec
SYMMETRY Interchangeable
CONSTANTS
    ThoughtIds = {i1, i2, i3, i4}
    OtherId = i1
    i1 = i1
    i2 = i2
    i3 = i3
    i4 = i4
    BranchIds = {1, 2}
    Inputs <- MCInputs
    LiveMax = 2
    DurableMax = 3
    MaxBranches = 1
    MaxBranchSize = 1
    Persistent = TRUE
    MaxAdmissions = 5
    PersistBranches = TRUE
INVARIANTS
    BackendsAgree
    IdentityIndexExact
    RestartRestores
    RetractionsHold
CHECK_DEADLOCK FALSE
