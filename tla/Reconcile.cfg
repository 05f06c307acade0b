SPECIFICATION Spec
CONSTANTS
    f1 = f1
    f2 = f2
    q1 = q1
    q2 = q2
    Files <- OneFile
    Below <- OneFile
    Queries <- OneQuery
    Exact = {TRUE, FALSE}
    AllocFails = TRUE
    LogCap = 2
    KernelCap = 2
    MaxChanges = 3
    MaxClock = 2
CONSTRAINT Watched
VIEW Read
INVARIANTS
    TypeOK
    FreshAnswer
    StaleOnlyIfPassedOver
    CleanMeansCurrent
