CONSTANTS
    None = None
    MaxWatchStreamFailures = 2
    MaxCalls = 2
    MaxVersion = 0
    MaxFaults = 0
    MaxRejects = 1
SPECIFICATION FairSpec
CHECK_DEADLOCK FALSE
PROPERTIES
    EveryCallAnswered
