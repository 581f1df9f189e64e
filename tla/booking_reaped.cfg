SPECIFICATION Spec
CONSTANTS
    o1 = o1
    k1 = k1
    x1 = x1
    h1 = h1
    w1 = w1
    Orders = {o1}
    Keys = {k1}
    Cancels = {x1}
    Handlers = {h1}
    Reapers = {w1}
    Capacity = 1
    MaxCharges = 1
    Faults = FALSE
    None = None
INVARIANTS
    ReapedOrderNotConfirmed
CHECK_DEADLOCK FALSE
