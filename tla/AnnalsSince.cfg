SPECIFICATION AnnalsSpec
CONSTANTS
    Files = {a, b, c}
    Below = {a, b}
    Cap = 2
    KernelCap = 2
    DirMoves = TRUE
    ClockFails = FALSE
    MaxChanges = 4
    MaxClock = 4
INVARIANT
    SinceComplete
CHECK_DEADLOCK FALSE
