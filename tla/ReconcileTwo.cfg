SPECIFICATION Spec
CONSTANTS
    f1 = f1
    f2 = f2
    q1 = q1
    q2 = q2
    Files <- OneFile
    Below <- OneFile
    Queries <- TwoQueries
    Exact = {TRUE}
    AllocFails = TRUE
    LogCap = 2
    KernelCap = 2
    MaxChanges = 2
    MaxClock = 2
SYMMETRY QuerySymmetry
VIEW Read
INVARIANTS
    StaleOnlyIfPassedOver
