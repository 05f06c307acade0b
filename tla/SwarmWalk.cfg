SPECIFICATION Spec
CONSTANTS
    r = r
    a = a
    b = b
    c = c
    d = d
    e = e
    f = f
    Dirs <- Tree
    Roots <- Top
    Children <- Deep
    Hits <- Matching
    Unlisted <- Closed
    Seats = 3
    Start = 3
    Loader = TRUE
    PipeCloses = TRUE
    Starved = TRUE
INVARIANTS
    TypeOK
    LeaveMeansDone
    WalkComplete
