SPECIFICATION Spec
CONSTANTS
    r = r
    a = a
    b = b
    c = c
    d = d
    e = e
    f = f
    Dirs <- Row
    Roots <- Row
    Children <- Flat
    Hits <- Nothing
    Unlisted <- Nothing
    Seats = 3
    Start = 2
    Loader = FALSE
    PipeCloses = FALSE
    Starved = TRUE
SYMMETRY Alike
INVARIANT
    JoinedAll
