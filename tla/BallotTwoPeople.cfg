CONSTANTS
    d1 = d1  d2 = d2  u1 = u1  u2 = u2  p1 = p1  p2 = p2
    v1 = v1  v2 = v2
    Devices = {d1, d2}
    Users = {u1, u2}
    Email <- TwoPeople
    Polls = {p1}
    Variants = {v1, v2}
    Absent = Absent
    Offline = {d1}
    Flaky = {d1}
    MaxTaps = 2
SPECIFICATION FairSpec
CHECK_DEADLOCK FALSE
INVARIANTS
    TypeOK
    OneRecordPerPoll
    CountersBounded
    TallyExact
    RecordsMatchTaps
PROPERTIES
    DeletedStaysDeleted
    IsOutbox
    TapsTakeEffect
