\* Two requests in flight: logins from two addresses, changes of password.
SPECIFICATION Spec
CONSTANTS
    i1 = i1
    i2 = i2
    Proxy = proxy
    Addresses = {i1, i2, proxy}
    Trusted = {proxy}
    Public = {i1, i2}
    Clients = {i1}
    Headers <- MCHeaders
    Emails = {e1, e2}
    AnyEmail = any
    Known = {e1}
    Admins = {e1}
    Attempts = {a1, a2}
    NoHash = none
    Window = 2
    MaxPerAccount = 1
    MaxPerIp = 2
    MaxKeys = 2
    MaxAge = 2
    MaxClock = 2
    MaxChanges = 1
    MaxSessions = 1
    MaxAsked = 4
INVARIANTS
    TypeOK
    MemoryBounded
    OwnFailuresOnly
    CurrentSessionsHonoured
PROPERTIES
    SessionsEndForGood
    Throttled
SYMMETRY AttemptSymmetry
