CONSTANTS
    r1 = r1
    r2 = r2
    Requests = {r1, r2}
    MinSize = 2
    Hints = FALSE
    MaxServed = 3
SPECIFICATION Spec
SYMMETRY Symmetry
CHECK_DEADLOCK FALSE
INVARIANTS
    TypeOK
    WritersUnshared
    ResponseIntact
    StatusDelivered
