CONSTANTS
    r1 = r1
    Requests = {r1}
    MinSize = 2
    Hints = TRUE
    MaxServed = 1
SPECIFICATION Spec
CHECK_DEADLOCK FALSE
INVARIANTS
    StatusDelivered
