CONSTANTS
    c1 = c1
    c2 = c2
    red = red
    blue = blue
    Conn = {c1, c2}
    Room = {red, blue}
    Program = Program
    MaxMessages = 1
    MaxCalls = 1
    ForwardFails = TRUE
SPECIFICATION FairSpec
INVARIANTS
    TypeOK
    RoomsMirror
    EventsInOrder
    TablesAgree
PROPERTIES
    DisconnectNoticed
CHECK_DEADLOCK FALSE
