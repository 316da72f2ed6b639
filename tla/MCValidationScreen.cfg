\* Two functions of the screen at once, while others change the tables.
SPECIFICATION ScreenSpec
CONSTANTS
    a1 = a1
    k1 = k1
    c1 = c1
    m1 = m1
    h1 = h1
    s1 = s1
    Blank = Blank
    None = None
    UserIds = {a1, k1}
    CompanyIds = {c1}
    Months = {m1}
    HalfDays = {h1}
    Statuses = {s1}
    MonthOf <- MCMonthOf
    FirstUsers <- MCUsers
    FirstCompanies = {c1}
    Me = a1
    Shown = c1
    Month = m1
    r1 = r1
    r2 = r2
    Requests = {r1, r2}
    Jobs <- MCJobs
    MaxAtOnce = 2
    MaxChanges = 3
    MaxTasks = 3
INVARIANTS
    ScreenTypeOK
    ValidatedFileExact
    FiguresAreNew
SYMMETRY RequestSymmetry
CHECK_DEADLOCK FALSE
