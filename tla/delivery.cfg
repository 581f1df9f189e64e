\* Two members and two partitions; a create and two more requests.  Failures
\* on all sides.
SPECIFICATION DeliverySpec
CONSTANTS
    m1 = m1
    m2 = m2
    p1 = p1
    p2 = p2
    r1 = r1
    r2 = r2
    r3 = r3
    Members = {m1, m2}
    Partitions = {p1, p2}
    MaxLog = 2
    Requests = {r1, r2, r3}
    MaxSeats = 2
    MaxFaults = 2
    MaxMishaps = 2
    Nil = Nil
    None = None
INVARIANTS
    ConsumerTypeOK
    CommittedWasHandled
    TypeOK
    CapacityWasStored
    SyncedWhenQuiet
PROPERTIES
    CommitsMoveForward
    EveryMessageHandled
    InSyncAtLast
CHECK_DEADLOCK FALSE
