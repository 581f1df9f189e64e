SPECIFICATION FairSpec
CONSTANTS
    o1 = o1
    o2 = o2
    k1 = k1
    x1 = x1
    h1 = h1
    h2 = h2
    w1 = w1
    Orders = {o1, o2}
    Keys = {k1}
    Cancels = {x1}
    Handlers = {h1, h2}
    Reapers = {w1}
    Capacity = 2
    MaxCharges = 1
    Faults = FALSE
    None = None
INVARIANTS
    OneOrderPerKey
    SeatsAddUp
PROPERTIES
    EveryOrderDecided
    TicketMailed
CHECK_DEADLOCK FALSE
