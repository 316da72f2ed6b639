\* A cadre's own planning, left and opened again.
SPECIFICATION Spec
CONSTANTS
    h1 = h1
    h2 = h2
    s1 = s1
    Blank = Blank
    None = None
    LastScreen = 2
    Halves = {h1, h2}
    Statuses = {s1}
    Admin = FALSE
    ViewingOther = FALSE
    MaxActs = 4
    MaxFaults = 0
    MaxLate = 0
    MaxElsewhere = 0
INVARIANTS
    NoWriteDuringLock
\* The bounds let the user and the others stop.
CHECK_DEADLOCK FALSE
