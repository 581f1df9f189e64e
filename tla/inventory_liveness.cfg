\* Calls that contend for one event's lock and row, some of them dying.
CONSTANTS
    Events = {e1}
    Calls = {c1, c2, c3}
    Ops = {"reserve"}
    Capacities = {2}
    MaxQuantity = 1
    MaxRetries = 2
    LockAttempts = 2
    SweepLimit = 1
    None = None
SPECIFICATION FairSpec
INVARIANTS
    NeverOversold
PROPERTIES
    CallsEnd
CHECK_DEADLOCK FALSE
