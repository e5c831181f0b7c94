SPECIFICATION ServicesSpec
CONSTANTS
    MaxTasks = 3
    Broad <- BroadDirs
    Folders <- Dirs
    MaxSlots = 3
    MaxBytes = 2
    MaxOutput = 2
    MaxModels = 2
    Attempts = 2
    Budget = 1
    MaxHedges = 1
    MaxHint = 2
    MaxSteps = 2
    Units = {1, 2}
    MaxInflight = 2
    MaxCalls = 2
    Paths = {"a", "b"}
    Alone = 1
    FastMost = 1
    Reviews = 1
    MaxFaults = 1
    MaxTidied = 1
    Procs = {"web", "tui"}
    Refreshing = {"web", "tui"}
    Redirects <- RedirectsOf
    Ports = {"port", "free"}
    MaxLogins = 2
    MaxTokens = 3
    MaxTroubles = 1
    MaxAsks = 3
    MaxRestarts = 1
    MaxJobs = 3
    MaxChanges = 2
    MaxSaved = 2
    MaxRuns = 2
    MaxOpens = 2
INVARIANTS PumpIsPicks CallsAreHonest HumansAreTold NoAgentLeftBehind
    LoginsAreTrue JournalIsTrue HelpersAreTrue
PROPERTIES NothingHangs
CHECK_DEADLOCK FALSE
