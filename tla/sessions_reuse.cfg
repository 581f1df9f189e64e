\* A registration, a login and two refreshes.
SPECIFICATION SessionsSpec
CONSTANTS
    r1 = r1
    r2 = r2
    r3 = r3
    r4 = r4
    e1 = e1
    AuthCalls = {r1, r2, r3, r4}
    Emails = {e1}
    None = None
INVARIANTS
    OldTokenIsSingleUse
CHECK_DEADLOCK FALSE
