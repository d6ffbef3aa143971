CONSTANTS
    p1 = p1  p2 = p2
    Polls = {p1, p2}
    Role = TRUE
    MaxReads = 2
    MaxDeletes = 1
SPECIFICATION FairSpec
CHECK_DEADLOCK FALSE
INVARIANTS
    TypeOK
    NoPollTwice
    ListMatchesRead
    DeletedRowLeaves
PROPERTIES
    PollsGetListed
