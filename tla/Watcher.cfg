CONSTANTS
    a = a
    b = b
    png = png
    Files = {a, b, png}
    Watched = {a, b}
    Backdating = FALSE
    Fleeting = FALSE
    MaxEdits = 5
SPECIFICATION Spec
INVARIANTS
    TypeOK
    NoMissedChange
PROPERTIES
    ChangesAreLoaded
    ReloadsEnd
CHECK_DEADLOCK FALSE
