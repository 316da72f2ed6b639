-------------------------------- MODULE Startup --------------------------------
(***************************************************************************)
(* Starting the server: wait for the database, build or update the schema, *)
(* agree on the secret that signs tokens, create the first admin, listen.  *)
(* Each statement is a step, instances start side by side on one database, *)
(* and a failed start exits and is started again (`restart:                *)
(* unless-stopped`).  Crashes and database failures come between any two   *)
(* steps.                                                                  *)
(***************************************************************************)
EXTENDS Integers, FiniteSets

CONSTANTS
    Instances,
    JwtSecret,      \* Config.jwt_secret of each, None when empty
    Weak,           \* secrets that are too short, or known placeholders
    AdminEmail,     \* Config.admin_email of each
    AdminPassword,  \* Config.admin_password of each, None when empty
    None,
    MaxFaults       \* bound on crashes and database failures

(* What random_b64 draws: a value of its own each time.                    *)
Drawn == Nat \ {0}

ASSUME StartupAssumption ==
    /\ DOMAIN JwtSecret = Instances
    /\ DOMAIN AdminEmail = Instances
    /\ DOMAIN AdminPassword = Instances
    /\ None \notin Drawn /\ Weak \cap Drawn = {}
    /\ MaxFaults \in Nat

VARIABLES
    up,             \* the database answers
    schema,         \* 001_init.sql has run
    settings,       \* 002_security.sql has run
    stored,         \* app_settings.jwt_secret, or None
    admins,         \* the accounts seed_admin has inserted
    instances,      \* what each start has in its locals
    shown,          \* e-mails and passwords printed in the logs
    drawn,          \* how many times random_b64 was called
    faults

database == <<up, schema, settings, stored, admins>>
vars == <<database, instances, shown, drawn, faults>>

PCs == {"down", "wait", "look", "create", "secure", "offer", "adopt",
        "lookAdmin", "insert", "print", "listen", "serve"}

(* Steps that are a statement.                                             *)
Asking == {"look", "create", "secure", "offer", "adopt", "lookAdmin", "insert"}

Down == [pc |-> "down", secret |-> None, password |-> None]

At(n, pc) == instances[n].pc = pc
Goto(n, pc) == instances' = [instances EXCEPT ![n].pc = pc]
Exit(n) == instances' = [instances EXCEPT ![n] = Down]

(* Broken: a configured secret is taken as it is.                          *)
Configured(n) == JwtSecret[n] # None

(* jwt_secret: the configured secret is a real one.                        *)
Usable(n) == JwtSecret[n] # None /\ JwtSecret[n] \notin Weak

-------------------------------------------------------------------------------
Begin(n) ==
    /\ At(n, "down")
    /\ Goto(n, "wait")
    /\ UNCHANGED <<database, shown, drawn, faults>>

(* Thirty tries two seconds apart, then the start fails.                   *)
WaitForDb(n) ==
    /\ At(n, "wait")
    /\ IF up THEN Goto(n, "look") ELSE Exit(n)
    /\ UNCHANGED <<database, shown, drawn, faults>>

(* Broken: takes the last table created as the mark of a schema.           *)
FindSettings(n) ==
    /\ At(n, "look") /\ up
    /\ Goto(n, IF settings THEN "secure" ELSE "create")
    /\ UNCHANGED <<database, shown, drawn, faults>>

FindSchema(n) ==
    /\ At(n, "look") /\ up
    /\ Goto(n, IF schema THEN "secure" ELSE "create")
    /\ UNCHANGED <<database, shown, drawn, faults>>

(* Several statements in one message: all of them or none.                 *)
CreateSchema(n) ==
    /\ At(n, "create") /\ up
    /\ IF schema THEN Exit(n) ELSE Goto(n, "secure")
    /\ schema' = TRUE
    /\ UNCHANGED <<up, settings, stored, admins, shown, drawn, faults>>

Secure(n) ==
    /\ At(n, "secure") /\ up
    /\ settings' = TRUE
    /\ instances' = [instances EXCEPT
                        ![n].pc = IF Usable(n) THEN "lookAdmin" ELSE "offer",
                        ![n].secret = IF Usable(n) THEN JwtSecret[n] ELSE None]
    /\ UNCHANGED <<up, schema, stored, admins, shown, drawn, faults>>

(* Broken: ON CONFLICT DO UPDATE, the last one to start wins.              *)
ReplaceSecret(n) ==
    /\ At(n, "offer") /\ up
    /\ drawn' = drawn + 1
    /\ stored' = drawn'
    /\ Goto(n, "adopt")
    /\ UNCHANGED <<up, schema, settings, admins, shown, faults>>

(* INSERT ... ON CONFLICT DO NOTHING, then SELECT what is there.           *)
OfferSecret(n) ==
    /\ At(n, "offer") /\ up
    /\ drawn' = drawn + 1
    /\ stored' = IF stored = None THEN drawn' ELSE stored
    /\ Goto(n, "adopt")
    /\ UNCHANGED <<up, schema, settings, admins, shown, faults>>

AdoptSecret(n) ==
    /\ At(n, "adopt") /\ up
    /\ instances' = [instances EXCEPT ![n].pc = "lookAdmin", ![n].secret = stored]
    /\ UNCHANGED <<database, shown, drawn, faults>>

(* Broken: without a configured password none is drawn.                    *)
FindAdminAsGiven(n) ==
    /\ At(n, "lookAdmin") /\ up
    /\ IF admins # {}
       THEN Goto(n, "listen")
       ELSE instances' = [instances EXCEPT ![n].pc = "insert",
                                           ![n].password = AdminPassword[n]]
    /\ UNCHANGED <<database, shown, drawn, faults>>

FindAdmin(n) ==
    /\ At(n, "lookAdmin") /\ up
    /\ IF admins # {}
       THEN Goto(n, "listen") /\ drawn' = drawn
       ELSE /\ drawn' = IF AdminPassword[n] = None THEN drawn + 1 ELSE drawn
            /\ instances' = [instances EXCEPT
                  ![n].pc = "insert",
                  ![n].password = IF AdminPassword[n] = None
                                  THEN drawn' ELSE AdminPassword[n]]
    /\ UNCHANGED <<database, shown, faults>>

Account(n) == [email |-> AdminEmail[n], password |-> instances[n].password]

(* Broken: users.email without its unique constraint.                      *)
InsertAnyway(n) ==
    /\ At(n, "insert") /\ up
    /\ admins' = admins \cup {Account(n)}
    /\ Goto(n, "print")
    /\ UNCHANGED <<up, schema, settings, stored, shown, drawn, faults>>

(* Another start may have inserted the same e-mail: the start fails.       *)
InsertAdmin(n) ==
    /\ At(n, "insert") /\ up
    /\ IF \E a \in admins : a.email = AdminEmail[n]
       THEN Exit(n) /\ admins' = admins
       ELSE Goto(n, "print") /\ admins' = admins \cup {Account(n)}
    /\ UNCHANGED <<up, schema, settings, stored, shown, drawn, faults>>

(* Broken: the test is the wrong way round.                                *)
PrintGiven(n) ==
    /\ At(n, "print")
    /\ shown' = IF AdminPassword[n] # None THEN shown \cup {Account(n)} ELSE shown
    /\ Goto(n, "listen")
    /\ UNCHANGED <<database, drawn, faults>>

(* The password is printed when it was generated.                          *)
PrintAdmin(n) ==
    /\ At(n, "print")
    /\ shown' = IF AdminPassword[n] = None THEN shown \cup {Account(n)} ELSE shown
    /\ Goto(n, "listen")
    /\ UNCHANGED <<database, drawn, faults>>

Listen(n) ==
    /\ At(n, "listen")
    /\ Goto(n, "serve")
    /\ UNCHANGED <<database, shown, drawn, faults>>

(* A statement sent to a database that is gone fails the start.            *)
StatementFails(n) ==
    /\ instances[n].pc \in Asking /\ ~up
    /\ Exit(n)
    /\ UNCHANGED <<database, shown, drawn, faults>>

(* A crash, a kill, an error the database gives, or a stop.                *)
Crash(n) ==
    /\ ~At(n, "down")
    /\ faults < MaxFaults
    /\ faults' = faults + 1
    /\ Exit(n)
    /\ UNCHANGED <<database, shown, drawn>>

DatabaseDown ==
    /\ up /\ up' = FALSE
    /\ faults < MaxFaults
    /\ faults' = faults + 1
    /\ UNCHANGED <<schema, settings, stored, admins, instances, shown, drawn>>

DatabaseUp ==
    /\ ~up /\ up' = TRUE
    /\ UNCHANGED <<schema, settings, stored, admins, instances, shown, drawn, faults>>

Init ==
    /\ up = FALSE
    /\ schema = FALSE /\ settings = FALSE
    /\ stored = None
    /\ admins = {}
    /\ instances = [n \in Instances |-> Down]
    /\ shown = {}
    /\ drawn = 0 /\ faults = 0

Bootstrap(n) ==
    \/ Begin(n) \/ WaitForDb(n)
    \/ FindSchema(n) \/ CreateSchema(n) \/ Secure(n)
    \/ OfferSecret(n) \/ AdoptSecret(n)
    \/ FindAdmin(n) \/ InsertAdmin(n) \/ PrintAdmin(n)
    \/ Listen(n)
    \/ StatementFails(n)

Next ==
    \/ \E n \in Instances : Bootstrap(n) \/ Crash(n)
    \/ DatabaseDown
    \/ DatabaseUp

Fairness ==
    /\ \A n \in Instances : WF_vars(Bootstrap(n))
    /\ WF_vars(DatabaseUp)

Spec == Init /\ [][Next]_vars /\ Fairness

-------------------------------------------------------------------------------
Secrets == {JwtSecret[n] : n \in Instances} \cup Drawn \cup {None}
Given == {AdminPassword[n] : n \in Instances} \ {None}
Passwords == Given \cup Drawn
Accounts == [email : {AdminEmail[n] : n \in Instances}, password : Passwords]

(* Every account has a password, given or drawn.                           *)
TypeOK ==
    /\ up \in BOOLEAN /\ schema \in BOOLEAN /\ settings \in BOOLEAN
    /\ stored \in Drawn \cup {None}
    /\ admins \subseteq Accounts /\ shown \subseteq Accounts
    /\ instances \in [Instances -> [pc : PCs, secret : Secrets,
                                 password : Passwords \cup {None}]]
    /\ drawn \in Nat /\ faults \in 0..MaxFaults

(* Nobody is served before there is a schema, an admin and a secret to     *)
(* sign with, whichever instance made them and whichever of them crashed   *)
(* after; the secret is the configured one or the stored one, and never a  *)
(* placeholder.                                                            *)
ServesWhenReady ==
    \A n \in Instances : At(n, "serve") =>
        /\ schema /\ settings
        /\ admins # {}
        /\ instances[n].secret = (IF Usable(n) THEN JwtSecret[n] ELSE stored)
        /\ instances[n].secret \notin Weak \cup {None}

(* Instances that race on an empty database insert no two accounts of one  *)
(* e-mail, and what is printed is the password the account has: one that   *)
(* lost the race prints nothing (bootstrap.rs:94-116).                     *)
OneFirstAdmin ==
    /\ \A a, b \in admins : a.email = b.email => a = b
    /\ shown \subseteq admins

(* Every instance ends up serving, however the races and the faults fall:  *)
(* one that loses a race exits and finds the work done on its next start.  *)
EveryoneServes == <>[](\A n \in Instances : At(n, "serve"))

(* Unless something fails, somebody can read in the logs the password of   *)
(* the first admin, or has chosen it.                                      *)
FirstAdminKnown ==
    (admins # {}) ~> \/ faults > 0
                     \/ \A a \in admins : a \in shown \/ a.password \in Given

(* The instances without a configured secret sign with one and the same,   *)
(* chosen once: sessions survive every restart ("kept in the database so   *)
(* sessions survive restarts", bootstrap.rs:58).                           *)
Unconfigured == {n \in Instances : ~Usable(n)}
Agreement == INSTANCE OneSecret WITH
    servers <- Unconfigured,
    values  <- Drawn,
    none    <- None,
    chosen  <- stored,
    held    <- [n \in Unconfigured |->
                    IF At(n, "serve") THEN instances[n].secret ELSE None]
SecretAgreed == Agreement!OneSecretSpec
===============================================================================
