SPECIFICATION NarrowSpec
CONSTANTS
    Docs = {"x"}
    Contents = {{"lit"}, {"lit", "run"}}
    AtFirst = {{"lit"}, {"gone"}}
    DirArrives = FALSE
    MaxClock = 1
    MaxEdits = 1
    MaxBuilds = 1
INVARIANT
    ReadingListIsCurrent
CHECK_DEADLOCK FALSE
