SPECIFICATION Spec
CONSTANTS
    MaxTasks = 1
    MaxWave = 1
    Dir <- OneDir
    Broad <- NoBroad
    MaxCap = 1
    MaxRedirects = 1
    MaxRestarts = 0
    RoutedStart = TRUE
    DiskFaults = FALSE
    NoSession = NoSession
INVARIANTS OneAgentPerTask
CHECK_DEADLOCK FALSE
