SPECIFICATION VerbsSpec
CONSTANTS
    Window = 2
    MaxChars = 3
    MaxBytes = 3
    Limits = {0, 1, 2, 3}
    NoMatch = NoMatch
    NoGroup = NoGroup
    Blade = Blade
INVARIANT
    RewritesAreRe
CHECK_DEADLOCK FALSE
