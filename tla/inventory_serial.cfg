\* Settlements of one reservation kept apart by their callers.
CONSTANTS
    Events = {e1}
    Calls = {c1, c2, c3}
    Ops = {"initialize", "adjust", "reserve", "confirm", "release", "sweep"}
    Capacities = {1, 2}
    MaxQuantity = 2
    MaxRetries = 2
    LockAttempts = 2
    SweepLimit = 2
    None = None
SPECIFICATION SerialSpec
SYMMETRY Symmetry
INVARIANTS
    LedgerExact
PROPERTIES
    ImplementsLedger
CHECK_DEADLOCK FALSE
