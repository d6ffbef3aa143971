CONSTANTS
    e1 = e1  e2 = e2  k1 = k1
    Emails = {e1, e2}
    Passwords = {k1}
    Nobody = Nobody
    NoAccount = NoAccount
    MaxPresses = 3
    MaxMoves = 4
SPECIFICATION FairSpec
CHECK_DEADLOCK FALSE
INVARIANTS
    TypeOK
    RememberedIsUsable
    MainViewIsCurrent
    SignedOutForgets
PROPERTIES
    AccountGetsDocument
