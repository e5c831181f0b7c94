SPECIFICATION Spec
CONSTANTS
    MaxTasks = 2
    MaxWave = 2
    Dir <- OneDir
    Broad <- NoBroad
    MaxCap = 1
    MaxRedirects = 1
    MaxRestarts = 0
    RoutedStart = FALSE
    DiskFaults = FALSE
    NoSession = NoSession
INVARIANTS HeldAgentWorks OnlyRedirectHeard
PROPERTIES SettledOnlyReopens
CHECK_DEADLOCK FALSE
