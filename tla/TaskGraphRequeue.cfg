CONSTANTS
    Card = {"x"}
    Place <- OnePlace
    Limit = 1
    TTL = 2
    MaxFence = 5
    FenceCap <- EvenCaps
    MaxVersion = 1
    ManualWorkers = TRUE
SPECIFICATION Spec
PROPERTY OnlyGoneRequeued
CHECK_DEADLOCK FALSE
