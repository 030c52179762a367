SPECIFICATION HSpec
CONSTANTS
    MaxTasks = 6
    Page0Kinds = {"clear", "unmapped"}
INVARIANTS
    OneRunning
    SavedContext
    LockFree
    PanicOnlyUnmapped
    RoundRobin
    PromptAfterExit
    OneEventPending
    ExitSeen
PROPERTIES
    ExitIsFinal
    EveryTaskRuns
CHECK_DEADLOCK FALSE
