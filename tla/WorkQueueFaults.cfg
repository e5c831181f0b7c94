SPECIFICATION Spec
CONSTANTS
    MaxTasks = 1
    MaxWave = 1
    Dir <- OneDir
    Broad <- NoBroad
    MaxCap = 1
    MaxRedirects = 1
    MaxRestarts = 1
    RoutedStart = FALSE
    DiskFaults = TRUE
    NoSession = NoSession
INVARIANTS AttemptsAccounted
CHECK_DEADLOCK FALSE
