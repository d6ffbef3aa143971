CONSTANTS
    a = a  blank = blank
    Texts = {a, blank}
    Blank = blank
    Visible = 3
    MaxRows = 4
    MaxPolls = 2
SPECIFICATION Spec
CHECK_DEADLOCK FALSE
INVARIANTS
    EveryRowHasCell
