SPECIFICATION FairSpec
CONSTANTS
    Tasks = {"a"}
    MaxAsks = 1
    MaxEvents = 3
    MaxTrouble = 2
INVARIANTS PastIsJournalled DeliveredOnce
PROPERTIES RelaunchAfterFence NothingForgotten
CHECK_DEADLOCK FALSE
