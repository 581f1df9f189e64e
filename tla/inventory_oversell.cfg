\* No capacity is ever cut; settlements may race.
CONSTANTS
    Events = {e1}
    Calls = {c1, c2, c3, c4}
    Ops = {"reserve", "confirm", "release"}
    Capacities = {1}
    MaxQuantity = 1
    MaxRetries = 1
    LockAttempts = 1
    SweepLimit = 1
    None = None
SPECIFICATION Spec
SYMMETRY Symmetry
INVARIANTS
    NeverOversold
CHECK_DEADLOCK FALSE
