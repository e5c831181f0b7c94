SPECIFICATION MCSpec
CONSTANTS
    MaxRows = 2
    MaxFaults = 2
    MaxRepeats = 1
    Words <- OneWord
    Old = 1
    Window = 3
    GuardWindow = 3
    SharedQuotes = TRUE
    LoseQuotes = TRUE
INVARIANTS AckedIsAnswered AnsweredOnce DeferredOnce
PROPERTIES EveryRowAcked
CHECK_DEADLOCK FALSE
