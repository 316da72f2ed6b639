\* Two requests in flight while accounts and companies come and go.
SPECIFICATION Spec
CONSTANTS
    a1 = a1
    a2 = a2
    k1 = k1
    k2 = k2
    n1 = n1
    c1 = c1
    c2 = c2
    m1 = m1
    m2 = m2
    h1 = h1
    h2 = h2
    s1 = s1
    Blank = Blank
    None = None
    UserIds = {a1, k1, n1}
    CompanyIds = {c1, c2}
    Months = {m1}
    HalfDays = {h1}
    Statuses = {s1}
    MonthOf <- MCOneMonthOf
    FirstUsers <- StaffUsers
    FirstCompanies = {c1}
    Requests = {r1, r2}
    Jobs <- StaffJobs
INVARIANTS
    Integrity
SYMMETRY RequestSymmetry
\* Two admins may delete each other at once: nobody is left to send anything.
CHECK_DEADLOCK FALSE
