\* A cadre's own planning, opened once.
SPECIFICATION FairSpec
CONSTANTS
    h1 = h1
    h2 = h2
    s1 = s1
    Blank = Blank
    None = None
    LastScreen = 1
    Halves = {h1, h2}
    Statuses = {s1}
    Admin = FALSE
    ViewingOther = FALSE
    MaxActs = 4
    MaxFaults = 1
    MaxLate = 0
    MaxElsewhere = 1
INVARIANTS
    TypeOK
    ShowsWhatIsSaved
    NoWriteDuringLock
PROPERTIES
    ValidatedAsShown
    QueueDrains
    Unfreezes
\* The bounds let the user and the others stop.
CHECK_DEADLOCK FALSE
