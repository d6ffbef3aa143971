CONSTANTS
    e1 = e1  e2 = e2  k1 = k1
    Emails = {e1, e2}
    Passwords = {k1}
    Nobody = Nobody
    NoAccount = NoAccount
    MaxPresses = 2
    MaxMoves = 4
SPECIFICATION Spec
CHECK_DEADLOCK FALSE
INVARIANTS
    LoginRememberedOnce
