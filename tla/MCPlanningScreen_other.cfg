\* An admin on a cadre's planning, opened twice; requests outlive their client.
SPECIFICATION Spec
CONSTANTS
    h1 = h1
    h2 = h2
    s1 = s1
    Blank = Blank
    None = None
    LastScreen = 2
    Halves = {h1, h2}
    Statuses = {s1}
    Admin = TRUE
    ViewingOther = TRUE
    MaxActs = 3
    MaxFaults = 1
    MaxLate = 1
    MaxElsewhere = 1
INVARIANTS
    UndoReverts
    UndoWhileOffered
    FrozenUntilShown
    NoEditUnderLoad
SYMMETRY HalfSymmetry
VIEW UndoView
\* The bounds let the user and the others stop.
CHECK_DEADLOCK FALSE
