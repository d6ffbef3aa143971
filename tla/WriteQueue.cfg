CONSTANTS
    Users = {a, b}
    MaxPendingWrites = 2
    MaxWrites = 3
    MaxFaults = 2
SPECIFICATION FairSpec
CHECK_DEADLOCK FALSE
INVARIANTS
    TypeOK
    PipelineIsPrefix
    AnswersMatchPipeline
    BatchIdsAgree
    OwnWritesShown
    NewestWins
PROPERTIES
    NothingLost
    IsOutbox
    WritesDecided
