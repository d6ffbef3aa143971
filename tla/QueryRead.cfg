CONSTANTS
    None = None
    MaxWatchStreamFailures = 2
    MaxCalls = 3
    MaxVersion = 1
    MaxFaults = 1
    MaxRejects = 1
SPECIFICATION Spec
CHECK_DEADLOCK FALSE
INVARIANTS
    AnsweredOnce
    SyncedIsFresh
    ResumeCovered
