SPECIFICATION FairSpec
CONSTANTS
    r = r
    a = a
    b = b
    c = c
    d = d
    e = e
    f = f
    Dirs <- Tree
    Roots <- Top
    Children <- Deep
    Hits <- Matching
    Unlisted <- Closed
    Seats = 3
    Start = 3
    Loader = FALSE
    PipeCloses = TRUE
    Starved = TRUE
PROPERTY
    Terminates
    WalkIsOne
