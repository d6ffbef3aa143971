CONSTANTS
    Variants = {v1, v2}
    NoRow = NoRow
    Absent = Absent
    MaxAppearances = 2
    MaxTaps = 1
    MaxOthers = 1
    MaxFailures = 1
    MaxChains = 4
SPECIFICATION FairSpec
CHECK_DEADLOCK FALSE
INVARIANTS
    TypeOK
    ChainsAccounted
PROPERTIES
    ShownNeverOlder
    ScreenCatchesUp
