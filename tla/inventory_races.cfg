\* Every operation, racing, with lock timeouts, aborts and crashes.
CONSTANTS
    Events = {e1}
    Calls = {c1, c2, c3}
    Ops = {"initialize", "adjust", "reserve", "confirm", "release", "sweep"}
    Capacities = {1, 2}
    MaxQuantity = 2
    MaxRetries = 2
    LockAttempts = 2
    SweepLimit = 1
    None = None
SPECIFICATION Spec
SYMMETRY Symmetry
INVARIANTS
    TypeOK
    VersionIdentifiesRow
    ConflictCostsCommits
    NoSeatLost
PROPERTIES
    AdmissionSound
    HolderKeepsLock
    CallsRunDown
CHECK_DEADLOCK FALSE
