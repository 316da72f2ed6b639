----------------------------- MODULE StartupProofs -----------------------------
(***************************************************************************)
(* Theorems of Startup, for any number of instances, any configuration and *)
(* any crashes: what a start has done when it serves, one first admin, and *)
(* one secret for all.                                                     *)
(***************************************************************************)
EXTENDS Startup, TLAPS

Built == {"secure", "offer", "adopt", "lookAdmin", "insert", "print", "listen", "serve"}
Secured == Built \ {"secure"}
Signing == Secured \ {"offer", "adopt"}

(* A start is never past a statement whose effect is missing.              *)
Stage(n) ==
    /\ instances[n].pc \in Built => schema
    /\ instances[n].pc \in Secured => settings
    /\ instances[n].pc \in {"offer", "adopt"} => ~Usable(n)
    /\ instances[n].pc = "adopt" => stored # None
    /\ instances[n].pc \in Signing =>
          /\ instances[n].secret = (IF Usable(n) THEN JwtSecret[n] ELSE stored)
          /\ instances[n].secret # None
    /\ instances[n].pc \in {"insert", "print"} => instances[n].password \in Passwords
    /\ instances[n].pc = "print" => Account(n) \in admins
    /\ instances[n].pc \in {"listen", "serve"} => admins # {}

(* The invariant: stages, types, and what OneFirstAdmin says.              *)
Inv ==
    /\ TypeOK
    /\ \A n \in Instances : Stage(n)
    /\ OneFirstAdmin

(* A start's own step leaves the stages of the others alone when it undoes *)
(* nothing they rely on.                                                   *)
LEMMA OthersStay ==
    ASSUME NEW n \in Instances, NEW m \in Instances \ {n},
           Stage(m),
           instances'[m] = instances[m],
           schema => schema', settings => settings',
           stored # None => stored' = stored,
           admins \subseteq admins'
    PROVE  Stage(m)'
<1>1. Passwords' = Passwords /\ (Usable(m) <=> Usable(m)')
  BY DEF Passwords, Given, Drawn, Usable
<1>2. Account(m)' = Account(m)
  BY DEF Account
<1>3. instances[m].pc \in Signing => instances'[m].secret = (IF Usable(m) THEN JwtSecret[m] ELSE stored')
  BY DEF Stage
<1> QED
  BY <1>1, <1>2, <1>3 DEF Stage, Signing, Secured, Built, Usable

LEMMA InitInv == Init => Inv
<1> SUFFICES ASSUME Init PROVE Inv
  OBVIOUS
<1>1. Down \in [pc : PCs, secret : Secrets, password : Passwords \cup {None}]
  BY DEF Down, PCs, Secrets
<1>2. TypeOK
  <2>1. instances \in [Instances -> [pc : PCs, secret : Secrets,
                                    password : Passwords \cup {None}]]
    BY <1>1 DEF Init
  <2>2. faults \in 0..MaxFaults
    BY StartupAssumption DEF Init
  <2> QED
    BY <2>1, <2>2 DEF Init, TypeOK
<1>3. ASSUME NEW n \in Instances PROVE Stage(n)
  BY DEF Init, Stage, Down, Built, Secured, Signing
<1>4. OneFirstAdmin
  BY DEF Init, OneFirstAdmin
<1> QED
  BY <1>2, <1>3, <1>4 DEF Inv

(* Every step of an instance: what it does to its own stage, to those of   *)
(* the others, and to the accounts.                                        *)
LEMMA InstanceStep ==
    ASSUME Inv, NEW n \in Instances, Bootstrap(n) \/ Crash(n)
    PROVE  Inv'
<1> USE DEF At, Goto, Exit, Down, database
<1>1. /\ Stage(n)
      /\ instances[n] \in [pc : PCs, secret : Secrets, password : Passwords \cup {None}]
      /\ instances \in [Instances -> [pc : PCs, secret : Secrets,
                                     password : Passwords \cup {None}]]
  BY DEF Inv, TypeOK
<1>2. /\ None \notin Drawn /\ Drawn = Nat \ {0} /\ Drawn' = Drawn
      /\ Passwords' = Passwords /\ Secrets' = Secrets /\ Accounts' = Accounts
  BY StartupAssumption DEF Drawn, Passwords, Given, Secrets, Accounts
<1>3. CASE Begin(n)
  <2>1. TypeOK'
    BY <1>1, <1>2, <1>3
    DEF Begin, Inv, TypeOK, Stage, PCs, Secrets, Passwords, Given, Accounts, Account
  <2>2. Stage(n)'
    BY <1>1, <1>2, <1>3
    DEF Begin, Inv, TypeOK, Stage, Account, Built, Secured, Signing, Usable, Passwords, Given
  <2>3. ASSUME NEW m \in Instances \ {n}
        PROVE  Stage(m)'
    BY <1>1, <1>3, OthersStay DEF Begin, Inv
  <2>4. OneFirstAdmin'
    BY <1>1, <1>3 DEF Begin, Inv, OneFirstAdmin, Stage, Account
  <2> QED
    BY <2>1, <2>2, <2>3, <2>4 DEF Inv
<1>4. CASE WaitForDb(n)
  <2>1. TypeOK'
    BY <1>1, <1>2, <1>4
    DEF WaitForDb, Inv, TypeOK, Stage, PCs, Secrets, Passwords, Given, Accounts, Account
  <2>2. Stage(n)'
    BY <1>1, <1>2, <1>4
    DEF WaitForDb, Inv, TypeOK, Stage, Account, Built, Secured, Signing, Usable, Passwords, Given
  <2>3. ASSUME NEW m \in Instances \ {n}
        PROVE  Stage(m)'
    BY <1>1, <1>4, OthersStay DEF WaitForDb, Inv
  <2>4. OneFirstAdmin'
    BY <1>1, <1>4 DEF WaitForDb, Inv, OneFirstAdmin, Stage, Account
  <2> QED
    BY <2>1, <2>2, <2>3, <2>4 DEF Inv
<1>5. CASE FindSchema(n)
  <2>1. TypeOK'
    BY <1>1, <1>2, <1>5
    DEF FindSchema, Inv, TypeOK, Stage, PCs, Secrets, Passwords, Given, Accounts, Account
  <2>2. Stage(n)'
    BY <1>1, <1>2, <1>5
    DEF FindSchema, Inv, TypeOK, Stage, Account, Built, Secured, Signing, Usable, Passwords, Given
  <2>3. ASSUME NEW m \in Instances \ {n}
        PROVE  Stage(m)'
    BY <1>1, <1>5, OthersStay DEF FindSchema, Inv
  <2>4. OneFirstAdmin'
    BY <1>1, <1>5 DEF FindSchema, Inv, OneFirstAdmin, Stage, Account
  <2> QED
    BY <2>1, <2>2, <2>3, <2>4 DEF Inv
<1>6. CASE CreateSchema(n)
  <2>1. TypeOK'
    BY <1>1, <1>2, <1>6
    DEF CreateSchema, Inv, TypeOK, Stage, PCs, Secrets, Passwords, Given, Accounts, Account
  <2>2. Stage(n)'
    BY <1>1, <1>2, <1>6
    DEF CreateSchema, Inv, TypeOK, Stage, Account, Built, Secured, Signing, Usable, Passwords, Given
  <2>3. ASSUME NEW m \in Instances \ {n}
        PROVE  Stage(m)'
    BY <1>1, <1>6, OthersStay DEF CreateSchema, Inv
  <2>4. OneFirstAdmin'
    BY <1>1, <1>6 DEF CreateSchema, Inv, OneFirstAdmin, Stage, Account
  <2> QED
    BY <2>1, <2>2, <2>3, <2>4 DEF Inv
<1>7. CASE Secure(n)
  <2>a. JwtSecret[n] \in Secrets /\ None \in Secrets
    BY DEF Secrets
  <2>1. TypeOK'
    <3>1. CASE Usable(n)
      BY <1>1, <1>2, <1>7, <2>a, <3>1 DEF Secure, Inv, TypeOK, PCs
    <3>2. CASE ~Usable(n)
      BY <1>1, <1>2, <1>7, <2>a, <3>2 DEF Secure, Inv, TypeOK, PCs
    <3> QED
      BY <3>1, <3>2
  <2>2. Stage(n)'
    BY <1>1, <1>2, <1>7
    DEF Secure, Inv, TypeOK, Stage, Account, Built, Secured, Signing, Usable, Passwords, Given
  <2>3. ASSUME NEW m \in Instances \ {n}
        PROVE  Stage(m)'
    BY <1>1, <1>7, OthersStay DEF Secure, Inv
  <2>4. OneFirstAdmin'
    BY <1>1, <1>7 DEF Secure, Inv, OneFirstAdmin, Stage, Account
  <2> QED
    BY <2>1, <2>2, <2>3, <2>4 DEF Inv
<1>8. CASE OfferSecret(n)
  <2>1. TypeOK'
    BY <1>1, <1>2, <1>8
    DEF OfferSecret, Inv, TypeOK, Stage, PCs, Secrets, Passwords, Given, Accounts, Account
  <2>2. Stage(n)'
    BY <1>1, <1>2, <1>8
    DEF OfferSecret, Inv, TypeOK, Stage, Account, Built, Secured, Signing, Usable, Passwords, Given
  <2>3. ASSUME NEW m \in Instances \ {n}
        PROVE  Stage(m)'
    BY <1>1, <1>8, OthersStay DEF OfferSecret, Inv
  <2>4. OneFirstAdmin'
    BY <1>1, <1>8 DEF OfferSecret, Inv, OneFirstAdmin, Stage, Account
  <2> QED
    BY <2>1, <2>2, <2>3, <2>4 DEF Inv
<1>9. CASE AdoptSecret(n)
  <2>1. TypeOK'
    BY <1>1, <1>2, <1>9
    DEF AdoptSecret, Inv, TypeOK, Stage, PCs, Secrets, Passwords, Given, Accounts, Account
  <2>2. Stage(n)'
    BY <1>1, <1>2, <1>9
    DEF AdoptSecret, Inv, TypeOK, Stage, Account, Built, Secured, Signing, Usable, Passwords, Given
  <2>3. ASSUME NEW m \in Instances \ {n}
        PROVE  Stage(m)'
    BY <1>1, <1>9, OthersStay DEF AdoptSecret, Inv
  <2>4. OneFirstAdmin'
    BY <1>1, <1>9 DEF AdoptSecret, Inv, OneFirstAdmin, Stage, Account
  <2> QED
    BY <2>1, <2>2, <2>3, <2>4 DEF Inv
<1>10. CASE FindAdmin(n)
  <2>1. TypeOK'
    BY <1>1, <1>2, <1>10
    DEF FindAdmin, Inv, TypeOK, Stage, PCs, Secrets, Passwords, Given, Accounts, Account
  <2>2. Stage(n)'
    BY <1>1, <1>2, <1>10
    DEF FindAdmin, Inv, TypeOK, Stage, Account, Built, Secured, Signing, Usable, Passwords, Given
  <2>3. ASSUME NEW m \in Instances \ {n}
        PROVE  Stage(m)'
    BY <1>1, <1>10, OthersStay DEF FindAdmin, Inv
  <2>4. OneFirstAdmin'
    BY <1>1, <1>10 DEF FindAdmin, Inv, OneFirstAdmin, Stage, Account
  <2> QED
    BY <2>1, <2>2, <2>3, <2>4 DEF Inv
<1>11. CASE InsertAdmin(n)
  <2>1. TypeOK'
    BY <1>1, <1>2, <1>11
    DEF InsertAdmin, Inv, TypeOK, Stage, PCs, Secrets, Passwords, Given, Accounts, Account
  <2>2. Stage(n)'
    BY <1>1, <1>2, <1>11
    DEF InsertAdmin, Inv, TypeOK, Stage, Account, Built, Secured, Signing, Usable, Passwords, Given
  <2>3. ASSUME NEW m \in Instances \ {n}
        PROVE  Stage(m)'
    BY <1>1, <1>11, OthersStay DEF InsertAdmin, Inv
  <2>4. OneFirstAdmin'
    BY <1>1, <1>11 DEF InsertAdmin, Inv, OneFirstAdmin, Stage, Account
  <2> QED
    BY <2>1, <2>2, <2>3, <2>4 DEF Inv
<1>12. CASE PrintAdmin(n)
  <2>1. TypeOK'
    BY <1>1, <1>2, <1>12
    DEF PrintAdmin, Inv, TypeOK, Stage, PCs, Secrets, Passwords, Given, Accounts, Account
  <2>2. Stage(n)'
    BY <1>1, <1>2, <1>12
    DEF PrintAdmin, Inv, TypeOK, Stage, Account, Built, Secured, Signing, Usable, Passwords, Given
  <2>3. ASSUME NEW m \in Instances \ {n}
        PROVE  Stage(m)'
    BY <1>1, <1>12, OthersStay DEF PrintAdmin, Inv
  <2>4. OneFirstAdmin'
    BY <1>1, <1>12 DEF PrintAdmin, Inv, OneFirstAdmin, Stage, Account
  <2> QED
    BY <2>1, <2>2, <2>3, <2>4 DEF Inv
<1>13. CASE Listen(n)
  <2>1. TypeOK'
    BY <1>1, <1>2, <1>13
    DEF Listen, Inv, TypeOK, Stage, PCs, Secrets, Passwords, Given, Accounts, Account
  <2>2. Stage(n)'
    BY <1>1, <1>2, <1>13
    DEF Listen, Inv, TypeOK, Stage, Account, Built, Secured, Signing, Usable, Passwords, Given
  <2>3. ASSUME NEW m \in Instances \ {n}
        PROVE  Stage(m)'
    BY <1>1, <1>13, OthersStay DEF Listen, Inv
  <2>4. OneFirstAdmin'
    BY <1>1, <1>13 DEF Listen, Inv, OneFirstAdmin, Stage, Account
  <2> QED
    BY <2>1, <2>2, <2>3, <2>4 DEF Inv
<1>14. CASE StatementFails(n)
  <2>1. TypeOK'
    BY <1>1, <1>2, <1>14
    DEF StatementFails, Inv, TypeOK, Stage, PCs, Secrets, Passwords, Given, Accounts, Account
  <2>2. Stage(n)'
    BY <1>1, <1>2, <1>14
    DEF StatementFails, Inv, TypeOK, Stage, Account, Built, Secured, Signing, Usable, Passwords, Given
  <2>3. ASSUME NEW m \in Instances \ {n}
        PROVE  Stage(m)'
    BY <1>1, <1>14, OthersStay DEF StatementFails, Inv
  <2>4. OneFirstAdmin'
    BY <1>1, <1>14 DEF StatementFails, Inv, OneFirstAdmin, Stage, Account
  <2> QED
    BY <2>1, <2>2, <2>3, <2>4 DEF Inv
<1>15. CASE Crash(n)
  <2>1. TypeOK'
    BY <1>1, <1>2, <1>15, StartupAssumption
    DEF Crash, Inv, TypeOK, Stage, PCs, Secrets, Passwords, Given, Accounts, Account
  <2>2. Stage(n)'
    BY <1>1, <1>2, <1>15
    DEF Crash, Inv, TypeOK, Stage, Account, Built, Secured, Signing, Usable, Passwords, Given
  <2>3. ASSUME NEW m \in Instances \ {n}
        PROVE  Stage(m)'
    BY <1>1, <1>15, OthersStay DEF Crash, Inv
  <2>4. OneFirstAdmin'
    BY <1>1, <1>15 DEF Crash, Inv, OneFirstAdmin, Stage, Account
  <2> QED
    BY <2>1, <2>2, <2>3, <2>4 DEF Inv
<1> QED
  BY <1>3, <1>4, <1>5, <1>6, <1>7, <1>8, <1>9, <1>10, <1>11, <1>12, <1>13, <1>14, <1>15 DEF Bootstrap

(* The database comes and goes without a trace in what a start relies on.  *)
LEMMA DatabaseStep ==
    ASSUME Inv, DatabaseDown \/ DatabaseUp \/ UNCHANGED vars
    PROVE  Inv'
<1>1. /\ Passwords' = Passwords /\ Secrets' = Secrets /\ Accounts' = Accounts
      /\ Drawn' = Drawn
  BY DEF Passwords, Given, Secrets, Accounts, Drawn
<1>2. /\ schema' = schema /\ settings' = settings /\ stored' = stored
      /\ admins' = admins /\ instances' = instances /\ shown' = shown
      /\ up' \in BOOLEAN /\ drawn' = drawn /\ faults' \in 0..MaxFaults
  <2>1. CASE DatabaseDown
    <3>1. faults \in 0..MaxFaults
      BY DEF Inv, TypeOK
    <3>2. faults < MaxFaults /\ faults' = faults + 1
      BY <2>1 DEF DatabaseDown
    <3>3. faults' \in 0..MaxFaults
      BY <3>1, <3>2, StartupAssumption
    <3> QED
      BY <2>1, <3>3, Zenon DEF DatabaseDown
  <2>2. CASE DatabaseUp
    BY <2>2 DEF DatabaseUp, Inv, TypeOK
  <2>3. CASE UNCHANGED vars
    BY <2>3 DEF vars, database, Inv, TypeOK
  <2> QED
    BY <2>1, <2>2, <2>3
<1>3. TypeOK'
  BY <1>1, <1>2 DEF Inv, TypeOK
<1>4. ASSUME NEW n \in Instances PROVE Stage(n)'
  BY <1>1, <1>2 DEF Inv, Stage, Account, Usable
<1>5. OneFirstAdmin'
  BY <1>2 DEF Inv, OneFirstAdmin
<1> QED
  BY <1>3, <1>4, <1>5 DEF Inv

(* Inv holds from the first start on, through every race, crash and outage *)
(* of the database.                                                        *)
THEOREM StartInvariant == Spec => []Inv
<1>1. Inv /\ [Next]_vars => Inv'
  BY InstanceStep, DatabaseStep DEF Next
<1> QED
  BY <1>1, InitInv, PTL DEF Spec

(* The database and the locals of every start keep their types; every      *)
(* account of the first start has a password, given or drawn               *)
(* (bootstrap.rs:94-116).                                                  *)
THEOREM TypeCorrect == Spec => []TypeOK
<1>1. Inv => TypeOK
  BY DEF Inv
<1> QED
  BY <1>1, StartInvariant, PTL

(* Starts that race on an empty database insert no two accounts of one     *)
(* e-mail, and what is printed is the password of an account               *)
(* (bootstrap.rs:94-116).                                                  *)
THEOREM FirstAdminOnce == Spec => []OneFirstAdmin
<1>1. Inv => OneFirstAdmin
  BY DEF Inv
<1> QED
  BY <1>1, StartInvariant, PTL

(* Nobody is served before there is a schema, an admin and a real secret   *)
(* (main.rs:20-48, bootstrap.rs:59-92).                                    *)
THEOREM ReadyBeforeServing == Spec => []ServesWhenReady
<1>1. Inv => ServesWhenReady
  <2> SUFFICES ASSUME Inv, NEW n \in Instances, At(n, "serve")
               PROVE  /\ schema /\ settings
                      /\ admins # {}
                      /\ instances[n].secret
                            = (IF Usable(n) THEN JwtSecret[n] ELSE stored)
                      /\ instances[n].secret \notin Weak \cup {None}
    BY DEF ServesWhenReady
  <2>1. instances[n].pc
         \in Built \cap Secured \cap Signing \cap {"listen", "serve"}
    BY DEF At, Built, Secured, Signing
  <2>2. /\ schema /\ settings
        /\ admins # {}
        /\ instances[n].secret = (IF Usable(n) THEN JwtSecret[n] ELSE stored)
        /\ instances[n].secret # None
    BY <2>1 DEF Inv, Stage
  <2>3. instances[n].secret \notin Weak
    <3>1. CASE Usable(n)
      BY <2>2, <3>1 DEF Usable
    <3>2. CASE ~Usable(n)
      BY <2>2, <3>2, StartupAssumption DEF Inv, TypeOK
    <3> QED
      BY <3>1, <3>2
  <2> QED
    BY <2>2, <2>3
<1> QED
  BY <1>1, StartInvariant, PTL

-------------------------------------------------------------------------------
(* What the refinement mapping makes of a start without a configured       *)
(* secret: the secret it signs with, once it serves.                       *)
Held(n) == IF At(n, "serve") THEN instances[n].secret ELSE None
HeldBy == [n \in Unconfigured |-> Held(n)]

(* A step that leaves what the others sign with alone moves HeldBy at one  *)
(* place at most.                                                          *)
LEMMA HeldMoves ==
    ASSUME Inv, NEW n \in Instances,
           \A m \in Instances \ {n} : instances'[m] = instances[m]
    PROVE  HeldBy' = IF n \in Unconfigured THEN [HeldBy EXCEPT ![n] = Held(n)']
                                           ELSE HeldBy
<1>1. Unconfigured' = Unconfigured /\ Unconfigured \subseteq Instances
  BY DEF Unconfigured, Usable
<1>2. \A m \in Instances \ {n} : Held(m)' = Held(m)
  BY DEF Held, At
<1> QED
  BY <1>1, <1>2 DEF HeldBy

(* An instance's step chooses the secret, takes it up, drops it, or is no  *)
(* business of OneSecret.                                                  *)
LEMMA InstanceAgrees ==
    ASSUME Inv, NEW n \in Instances, Bootstrap(n) \/ Crash(n)
    PROVE  \/ stored = None /\ stored' \in Drawn /\ HeldBy' = HeldBy
           \/ \E s \in Unconfigured :
                 /\ stored # None /\ HeldBy[s] = None
                 /\ HeldBy' = [HeldBy EXCEPT ![s] = stored]
                 /\ stored' = stored
           \/ \E s \in Unconfigured :
                 /\ HeldBy[s] # None
                 /\ HeldBy' = [HeldBy EXCEPT ![s] = None]
                 /\ stored' = stored
           \/ stored' = stored /\ HeldBy' = HeldBy
<1>1. /\ Stage(n)
      /\ instances \in [Instances -> [pc : PCs, secret : Secrets,
                                     password : Passwords \cup {None}]]
      /\ drawn \in Nat
  BY DEF Inv, TypeOK
<1>2. HeldBy' = IF n \in Unconfigured THEN [HeldBy EXCEPT ![n] = Held(n)'] ELSE HeldBy
  <2>1. \A m \in Instances \ {n} : instances'[m] = instances[m]
    BY <1>1 DEF Bootstrap, Crash, Begin, WaitForDb, FindSchema, CreateSchema, Secure,
           OfferSecret, AdoptSecret, FindAdmin, InsertAdmin, PrintAdmin, Listen,
           StatementFails, Goto, Exit, database
  <2> QED
    BY <2>1, HeldMoves
<1>3. n \in Unconfigured => HeldBy[n] = Held(n)
  BY DEF HeldBy
<1>4. CASE Listen(n)
  <2>1. stored' = stored /\ Held(n) = None /\ Held(n)' = instances[n].secret
    BY <1>1, <1>4 DEF Listen, Held, At, Goto, database
  <2>2. n \in Unconfigured => stored # None /\ instances[n].secret = stored
    BY <1>1, <1>4 DEF Listen, At, Stage, Signing, Secured, Built, Unconfigured
  <2> QED
    BY <1>2, <1>3, <2>1, <2>2
<1>5. CASE Crash(n)
  <2>1. stored' = stored /\ Held(n)' = None
    BY <1>1, <1>5 DEF Crash, Held, At, Exit, Down, database
  <2>2. HeldBy = [HeldBy EXCEPT ![n] = HeldBy[n]]
    BY DEF HeldBy
  <2> QED
    BY <1>2, <1>3, <2>1, <2>2
<1>6. CASE Bootstrap(n) /\ ~Listen(n)
  <2>1. Held(n) = None /\ Held(n)' = None
    BY <1>1, <1>6 DEF Bootstrap, Begin, WaitForDb, FindSchema, CreateSchema, Secure,
           OfferSecret, AdoptSecret, FindAdmin, InsertAdmin, PrintAdmin,
           StatementFails, Asking, Held, At, Goto, Exit, Down, database, Usable
  <2>2. HeldBy' = HeldBy
    BY <1>2, <1>3, <2>1 DEF HeldBy
  <2>3. stored' = stored \/ (stored = None /\ stored' \in Drawn)
    BY <1>1, <1>6 DEF Bootstrap, Begin, WaitForDb, FindSchema, CreateSchema, Secure,
           OfferSecret, AdoptSecret, FindAdmin, InsertAdmin, PrintAdmin,
           StatementFails, Drawn, database
  <2> QED
    BY <2>2, <2>3
<1> QED
  BY <1>4, <1>5, <1>6

(* However the starts race and crash, the instances without a configured   *)
(* secret sign with one secret, chosen once: Startup implements OneSecret  *)
(* (bootstrap.rs:57-79).                                                   *)
THEOREM StartAgrees == Spec => SecretAgreed
<1>1. Init => Agreement!OneSecretInit
  BY DEF Init, Agreement!OneSecretInit, Unconfigured, At, Down
<1>2. Inv /\ [Next]_vars => [Agreement!OneSecretNext]_<<stored, HeldBy>>
  <2> SUFFICES ASSUME Inv, [Next]_vars
               PROVE  [Agreement!OneSecretNext]_<<stored, HeldBy>>
    OBVIOUS
  <2>1. ASSUME NEW n \in Instances, Bootstrap(n) \/ Crash(n)
        PROVE  [Agreement!OneSecretNext]_<<stored, HeldBy>>
    BY <2>1, InstanceAgrees
    DEF Agreement!OneSecretNext, Agreement!Choose, Agreement!Hold, Agreement!Stop, HeldBy, Held
  <2>2. CASE DatabaseDown \/ DatabaseUp \/ UNCHANGED vars
    BY <2>2 DEF DatabaseDown, DatabaseUp, vars, database, HeldBy, Held, At, Unconfigured, Usable
  <2> QED
    BY <2>1, <2>2 DEF Next
<1> QED
  BY <1>1, <1>2, StartInvariant, PTL DEF Spec, SecretAgreed, Agreement!OneSecretSpec, HeldBy, Held
===============================================================================
