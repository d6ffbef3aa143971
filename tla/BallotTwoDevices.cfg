CONSTANTS
    d1 = d1  d2 = d2  u1 = u1  u2 = u2  p1 = p1  p2 = p2
    v1 = v1  v2 = v2
    Devices = {d1, d2}
    Users = {u1}
    Email <- OnePerson
    Polls = {p1, p2}
    Variants = {v1}
    Absent = Absent
    Offline = {}
    Flaky = {}
    MaxTaps = 3
SPECIFICATION Spec
SYMMETRY OnePersonSymmetry
CHECK_DEADLOCK FALSE
PROPERTIES
    RecordedVotesKept
