\* A cadre's own planning: a write outlives its client.
SPECIFICATION Spec
CONSTANTS
    h1 = h1
    h2 = h2
    s1 = s1
    Blank = Blank
    None = None
    LastScreen = 1
    Halves = {h1, h2}
    Statuses = {s1}
    Admin = FALSE
    ViewingOther = FALSE
    MaxActs = 2
    MaxFaults = 1
    MaxLate = 1
    MaxElsewhere = 0
INVARIANTS
    ShowsWhatIsSaved
\* The bounds let the user and the others stop.
CHECK_DEADLOCK FALSE
