\* Three instances start on one empty database, with crashes in between.
SPECIFICATION Spec
CONSTANTS
    n1 = n1
    n2 = n2
    n3 = n3
    weak = weak
    strong = strong
    email = email
    given = given
    Instances = {n1, n2, n3}
    JwtSecret <- MCJwtSecret
    Weak = {weak}
    AdminEmail <- MCAdminEmail
    AdminPassword <- MCAdminPassword
    None = None
    MaxFaults = 2
INVARIANTS
    TypeOK
    ServesWhenReady
    OneFirstAdmin
PROPERTIES
    EveryoneServes
    FirstAdminKnown
    SecretAgreed
CHECK_DEADLOCK FALSE
