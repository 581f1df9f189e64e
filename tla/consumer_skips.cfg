SPECIFICATION ConsumerSpec
CONSTANTS
    m1 = m1
    p1 = p1
    Members = {m1}
    Partitions = {p1}
    MaxLog = 2
    MaxMishaps = 0
    Nil = Nil
INVARIANTS
    FailedIsNotCommitted
CHECK_DEADLOCK FALSE
