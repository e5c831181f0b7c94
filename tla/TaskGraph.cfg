CONSTANTS
    Card = {"x", "y"}
    Place <- SomePlaces
    Limit = 2
    TTL = 1
    MaxFence = 3
    FenceCap <- UnevenCaps
    MaxVersion = 2
    ManualWorkers = TRUE
SPECIFICATION Spec
INVARIANTS ExclusivePlaces DependenciesHold OneBoundWriter
PROPERTIES DoneIsCurrent
CHECK_DEADLOCK FALSE
