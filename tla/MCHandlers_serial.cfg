\* One request at a time.
SPECIFICATION Spec
CONSTANTS
    a1 = a1
    a2 = a2
    k1 = k1
    k2 = k2
    n1 = n1
    c1 = c1
    c2 = c2
    m1 = m1
    m2 = m2
    h1 = h1
    h2 = h2
    s1 = s1
    Blank = Blank
    None = None
    UserIds = {a1, k1, k2}
    CompanyIds = {c1, c2}
    Months = {m1}
    HalfDays = {h1}
    Statuses = {s1}
    MonthOf <- MCOneMonthOf
    FirstUsers <- RuleUsers
    FirstCompanies = {c1, c2}
    Requests = {r1}
    Jobs <- RuleJobs
INVARIANTS
    SomeAdminLeft
    FiguresAgree
PROPERTIES
    OwnMonthKept
    CompanyMonthKept
    CompanyValidatedLast
    KeepsRules
