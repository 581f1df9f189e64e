SPECIFICATION ReaperSpec
CONSTANTS
    o1 = o1
    x1 = x1
    h1 = h1
    h2 = h2
    w1 = w1
    Orders = {o1}
    Keys = {None}
    Cancels = {x1}
    Handlers = {h1, h2}
    Reapers = {w1}
    Capacity = 1
    MaxCharges = 1
    Faults = TRUE
    None = None
INVARIANTS
    TypeOK
    SettledOrderHoldsNoSeat
    SoldIsPaid
PROPERTIES
    SeatsNotLeaked
CHECK_DEADLOCK FALSE
