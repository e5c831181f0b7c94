SPECIFICATION LoopSpec
CONSTANTS
    MaxTasks = 2
    MaxWave = 2
    Dir <- SomeDirs
    Broad <- NoBroad
    MaxCap = 2
    MaxRedirects = 0
    MaxRestarts = 0
    RoutedStart = TRUE
    DiskFaults = FALSE
    NoSession = NoSession
INVARIANTS RunningDisjoint NoIdleSlot
PROPERTIES ImplementsBoard WorkedTasksSettle CancelStopsAgents
CHECK_DEADLOCK FALSE
