\* Two requests in flight: a validation races the reopening of a cadre's month.
SPECIFICATION Spec
CONSTANTS
    a1 = a1
    a2 = a2
    k1 = k1
    k2 = k2
    n1 = n1
    c1 = c1
    c2 = c2
    m1 = m1
    m2 = m2
    h1 = h1
    h2 = h2
    s1 = s1
    Blank = Blank
    None = None
    UserIds = {a1, k1}
    CompanyIds = {c1, c2}
    Months = {m1, m2}
    HalfDays = {h1, h2}
    Statuses = {s1}
    MonthOf <- MCMonthOf
    FirstUsers <- LockUsers
    FirstCompanies = {c1, c2}
    Requests = {r1, r2}
    Jobs <- RaceJobs
PROPERTIES
    CompanyValidatedLast
