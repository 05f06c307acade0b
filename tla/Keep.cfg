SPECIFICATION Spec
CONSTANTS
    Files = {a, b}
    Below = {}
    Cap = 1
    KernelCap = 1
    DirMoves = FALSE
    ClockFails = FALSE
    MaxChanges = 2
    MaxClock = 3
    Workers = {w1, w2}
    Keys = {k1, k2}
    Sizes = {1, 2, 3}
    EntryCeiling = 2
    Ceiling = 2
SYMMETRY Alike
VIEW Observed
ACTION_CONSTRAINT Timeless
INVARIANTS
    HeldAnswerCurrent
    BytesBalanced
CHECK_DEADLOCK FALSE
