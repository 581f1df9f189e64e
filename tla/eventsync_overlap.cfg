\* No failures: requests that overlap are enough.
SPECIFICATION Spec
CONSTANTS
    r1 = r1
    r2 = r2
    r3 = r3
    Requests = {r1, r2, r3}
    MaxSeats = 2
    MaxFaults = 0
    None = None
INVARIANTS
    StaysInSync
CHECK_DEADLOCK FALSE
