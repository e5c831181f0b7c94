SPECIFICATION Spec
CONSTANTS
    MaxLen = 2
    MaxRewrites = 1
    MaxTrouble = 2
    MaxTyped = 2
    MaxOthers = 1
    MaxNudges = 1
    MaxMishaps = 1
    MaxRequests = 4
    MaxTroubles = 2
    MaxPicks = 2
    PerPick = 2
    MaxFiles = 3
    Limit = 2
    MaxSends = 1
    MaxUpsets = 2
INVARIANTS TranscriptIsTrue NoteIsPursued BarIsTrue
PROPERTIES NothingIsLost NothingHangs
CHECK_DEADLOCK FALSE
