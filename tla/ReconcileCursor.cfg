SPECIFICATION Spec
CONSTANTS
    f1 = f1
    f2 = f2
    q1 = q1
    q2 = q2
    Files <- TwoFiles
    Below <- Nested
    Queries <- OneQuery
    Exact = {TRUE}
    AllocFails = FALSE
    LogCap = 2
    KernelCap = 2
    MaxChanges = 2
    MaxClock = 2
INVARIANT
    NextPassCatches
