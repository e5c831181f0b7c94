SPECIFICATION FairSpec
CONSTANTS
    Message = {m}
    Extend = {x}
    Confs <- Settings
    Budget = 2
    FormatLimit = 2
    RepeatCap = 2
    FailureCap = 2
    RejectionCap = 2
    ErrorCap = 2
INVARIANTS ClosureProven GoalJudged MessagesSurvive AnsweredBeforeSuccess ChildrenOutlived
PROPERTIES RunEnds
CHECK_DEADLOCK FALSE
