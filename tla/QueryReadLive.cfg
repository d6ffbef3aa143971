CONSTANTS
    None = None
    MaxWatchStreamFailures = 1
    MaxCalls = 3
    MaxVersion = 0
    MaxFaults = 1
    MaxRejects = 1
SPECIFICATION FairSpec
CHECK_DEADLOCK FALSE
INVARIANTS
    TypeOK
PROPERTIES
    CallsAnswered
