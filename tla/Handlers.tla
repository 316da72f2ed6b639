------------------------------- MODULE Handlers -------------------------------
(***************************************************************************)
(* The request handlers that change accounts, companies, plannings and     *)
(* month validations.  A request authenticates, then runs its handler; the *)
(* handler is a sequence of statements with an await at each, and other    *)
(* requests run between them.  No transaction holds them together: what a  *)
(* statement read (the actor's role, the target's company, the state of a  *)
(* month) is kept in the request and used later as it was read.            *)
(***************************************************************************)
EXTENDS Tables

CONSTANTS
    Requests,    \* requests the server may be serving at the same time
    Jobs         \* what clients may ask for (method, path and checked body)

(* put and bulk are "save", delete and bulk_delete "erase", delete_month   *)
(* "clear": they differ in the statement that ends them.                   *)
WriteOps == {"save", "erase", "clear"}
AdminOps == {"reopen", "validateCompany", "reopenCompany", "createUser",
             "updateUser", "deleteUser", "createCompany", "deleteCompany"}
Ops == WriteOps \cup {"validate"} \cup AdminOps

Job == [op      : Ops,
        user    : UserIds \cup {None},     \* user_id, or the :id of the path
        company : CompanyIds \cup {None},
        month   : Months \cup {None},
        values  : UNION {[H -> Statuses \cup {Blank}] : H \in SUBSET HalfDays},
        row     : Row \cup {None}]

(* What parsing and validation let through.                                *)
ASSUME JobsAssumption ==
    /\ None \notin Job
    /\ Jobs \subseteq Job
    /\ \A j \in Jobs :
          /\ j.op \in {"save", "erase"} => DOMAIN j.values # {}
          /\ j.op = "save" => \A h \in DOMAIN j.values : j.values[h] # Blank
          /\ j.op \in {"clear", "validate", "reopen", "validateCompany",
                       "reopenCompany"} => j.month # None
          /\ j.op \in {"reopen", "updateUser", "deleteUser"} => j.user # None
          /\ j.op \in {"validateCompany", "reopenCompany", "deleteCompany"}
                => j.company # None
          /\ j.op \in {"createUser", "updateUser"} =>
                /\ j.row # None
                /\ j.row.role = "cadre" => j.row.company # None

VARIABLES
    requests,    \* what each request in flight holds in its locals
    standing     \* history: obstacles in place since the request saw its target

vars == <<tables, requests, standing>>

PCs == {"idle", "resolve", "check", "write", "lookup", "checkCompany", "lock",
        "count", "seal", "apply"}

Request == [pc      : PCs,                       \* the next statement
            job     : Jobs \cup {None},
            by      : UserIds \cup {None},       \* User.id from authenticate
            admin   : BOOLEAN,                   \* its role, as read then
            user    : UserIds \cup {None},       \* Target.id
            company : CompanyIds \cup {None},    \* Target.company_id, as read
            todo    : SUBSET Months]             \* months still to check

Idle == [pc |-> "idle", job |-> None, by |-> None, admin |-> FALSE,
         user |-> None, company |-> None, todo |-> {}]

MonthsOf(j) ==
    IF j.op = "clear" THEN {j.month} ELSE {MonthOf[h] : h \in DOMAIN j.values}

-------------------------------------------------------------------------------
(* Obstacles: what would make the request be refused (423 or 409) if it    *)
(* were judged in this state on the target it has read.                    *)

(* Broken: an admin writes whatever is validated.                          *)
MonthShutToCadres(q, m) ==
    ~q.admin /\ (Validated(q.company, m) \/ locked[q.user][m])

MonthShut(q, m) ==
    \/ Validated(q.company, m)
    \/ ~q.admin /\ locked[q.user][m]

Judging == {"check", "write", "checkCompany", "lock", "count", "seal"}

Obstacles(r) ==
    LET q == requests[r] IN
    CASE q.pc \in {"check", "write"} ->
            {m \in MonthsOf(q.job) : MonthShut(q, m)}
      [] q.pc \in {"checkCompany", "lock"} ->
            {m \in {q.job.month} : Validated(q.company, m)}
      [] q.pc \in {"count", "seal"} -> Pending(q.job.company, q.job.month)
      [] OTHER -> {}

(* Kept up by every step.                                                  *)
Observe ==
    standing' = [r \in Requests |->
                    IF requests[r].pc \in Judging
                    THEN standing[r] \cap Obstacles(r)'
                    ELSE Obstacles(r)']

Goto(r, q) == requests' = [requests EXCEPT ![r] = q] /\ Observe

Reply(r) == Goto(r, Idle)

At(r, pc) == requests[r].pc = pc

Running(r, op) == At(r, "apply") /\ requests[r].job.op = op

-------------------------------------------------------------------------------
(* authenticate reads the account, the mount and the route check the role, *)
(* and the handler runs up to its first await.                             *)

(* Broken: resolve_target trusts user_id whoever sends it.                 *)
GuardedByRouteOnly(a, j) ==
    /\ IsActive(a)
    /\ j.op \in AdminOps => IsAdmin(a)

(* Broken: an admin may demote or deactivate their own account.            *)
GuardedButSelf(a, j) ==
    /\ IsActive(a)
    /\ j.op \in AdminOps => IsAdmin(a)
    /\ j.op \in WriteOps /\ j.user # None => IsAdmin(a)
    /\ j.op = "deleteUser" => j.user # a

Guarded(a, j) ==
    /\ IsActive(a)
    /\ j.op \in AdminOps => IsAdmin(a)
    /\ j.op \in WriteOps /\ j.user # None => IsAdmin(a)
    /\ j.op = "updateUser" /\ j.user = a => j.row.role = "admin" /\ j.row.active
    /\ j.op = "deleteUser" => j.user # a

FirstStatement(j) ==
    CASE j.op \in WriteOps -> IF j.user = None THEN "check" ELSE "resolve"
      [] j.op = "validate" -> "lookup"
      [] j.op = "validateCompany" -> "count"
      [] OTHER -> "apply"

(* Broken: user_id is taken from whoever sends it.                         *)
ActsOnSelfUnlessAsked(a, j) == j.user = None

(* A user_id sent by a cadre to validate is ignored.                       *)
ActsOnSelf(a, j) == j.user = None \/ (j.op = "validate" /\ ~IsAdmin(a))

Arrive(r, a, j) ==
    /\ At(r, "idle")
    /\ Guarded(a, j)
    /\ UNCHANGED tables
    /\ Goto(r, [pc      |-> FirstStatement(j),
                job     |-> j,
                by      |-> a,
                admin   |-> IsAdmin(a),
                user    |-> IF ActsOnSelf(a, j) THEN a ELSE j.user,
                company |-> IF ActsOnSelf(a, j) THEN users[a].company ELSE None,
                todo    |-> IF j.op \in WriteOps THEN MonthsOf(j) ELSE {}])

(* An error or a timeout at an await: no statement of this request follows. *)
Abort(r) ==
    /\ ~At(r, "idle")
    /\ UNCHANGED tables
    /\ Reply(r)

-------------------------------------------------------------------------------
(* Attendance: resolve_target, ensure_writable for each month, one write.  *)

(* Broken: the target keeps the admin's own company, which is none.        *)
ResolveTargetId(r) ==
    LET q == requests[r] IN
    /\ At(r, "resolve")
    /\ UNCHANGED tables
    /\ IF Exists(q.user) THEN Goto(r, [q EXCEPT !.pc = "check"]) ELSE Reply(r)

ResolveTarget(r) ==
    LET q == requests[r] IN
    /\ At(r, "resolve")
    /\ UNCHANGED tables
    /\ IF Exists(q.user)
       THEN Goto(r, [q EXCEPT !.pc = "check", !.company = users[q.user].company])
       ELSE Reply(r)

(* Broken: a bulk checks the first month it names only.                    *)
EnsureFirstWritable(r, m) ==
    LET q == requests[r] IN
    /\ At(r, "check")
    /\ m \in q.todo
    /\ UNCHANGED tables
    /\ IF MonthShut(q, m)
       THEN Reply(r)
       ELSE Goto(r, [q EXCEPT !.pc = "write", !.todo = {}])

(* Broken: the company is asked for its validation, the cadre is not.      *)
EnsureCompanyOpen(r, m) ==
    LET q == requests[r] IN
    /\ At(r, "check")
    /\ m \in q.todo
    /\ UNCHANGED tables
    /\ IF Validated(q.company, m)
       THEN Reply(r)
       ELSE Goto(r, [q EXCEPT !.pc = IF q.todo = {m} THEN "write" ELSE "check",
                              !.todo = @ \ {m}])

EnsureWritable(r, m) ==
    LET q == requests[r] IN
    /\ At(r, "check")
    /\ m \in q.todo
    /\ UNCHANGED tables
    /\ IF MonthShut(q, m)
       THEN Reply(r)
       ELSE Goto(r, [q EXCEPT !.pc = IF q.todo = {m} THEN "write" ELSE "check",
                              !.todo = @ \ {m}])

Save(r) ==
    /\ At(r, "write")
    /\ requests[r].job.op = "save"
    /\ UpsertEntries(requests[r].user, requests[r].job.values)
    /\ Reply(r)

Erase(r) ==
    /\ At(r, "write")
    /\ requests[r].job.op = "erase"
    /\ DeleteEntries(requests[r].user, DOMAIN requests[r].job.values)
    /\ Reply(r)

Clear(r) ==
    /\ At(r, "write")
    /\ requests[r].job.op = "clear"
    /\ DeleteEntries(requests[r].user, HalfDaysOf(requests[r].job.month))
    /\ Reply(r)

-------------------------------------------------------------------------------
(* Validations.                                                            *)

LookUpCadre(r) ==
    LET q == requests[r] IN
    /\ At(r, "lookup")
    /\ UNCHANGED tables
    /\ IF Exists(q.user)
       THEN Goto(r, [q EXCEPT !.pc = "checkCompany",
                              !.company = users[q.user].company])
       ELSE Reply(r)

(* Broken: 423 forgotten, the cadre may validate after the company.        *)
SkipCompany(r) ==
    /\ At(r, "checkCompany")
    /\ UNCHANGED tables
    /\ Goto(r, [requests[r] EXCEPT !.pc = "lock"])

CheckCompany(r) ==
    LET q == requests[r] IN
    /\ At(r, "checkCompany")
    /\ UNCHANGED tables
    /\ IF Validated(q.company, q.job.month)
       THEN Reply(r)
       ELSE Goto(r, [q EXCEPT !.pc = "lock"])

LockMonth(r) ==
    /\ At(r, "lock")
    /\ SetLock(requests[r].user, requests[r].job.month, TRUE)
    /\ Reply(r)

ReopenCadre(r) ==
    /\ Running(r, "reopen")
    /\ SetLock(requests[r].job.user, requests[r].job.month, FALSE)
    /\ Reply(r)

(* Broken: one validated cadre is enough.                                  *)
CountSomePending(r) ==
    LET q == requests[r] IN
    /\ At(r, "count")
    /\ UNCHANGED tables
    /\ IF Pending(q.job.company, q.job.month) # ActiveCadres(q.job.company)
       THEN Goto(r, [q EXCEPT !.pc = "seal"])
       ELSE Reply(r)

CountPending(r) ==
    LET q == requests[r] IN
    /\ At(r, "count")
    /\ UNCHANGED tables
    /\ IF Pending(q.job.company, q.job.month) = {}
       THEN Goto(r, [q EXCEPT !.pc = "seal"])
       ELSE Reply(r)

SealCompany(r) ==
    /\ At(r, "seal")
    /\ SetValidation(requests[r].job.company, requests[r].job.month,
                     requests[r].by)
    /\ Reply(r)

ReopenCompany(r) ==
    /\ Running(r, "reopenCompany")
    /\ SetValidation(requests[r].job.company, requests[r].job.month, None)
    /\ Reply(r)

-------------------------------------------------------------------------------
(* Users and companies.                                                    *)

(* An admin belongs to no company.                                         *)
Profile(row) == IF row.role = "admin" THEN [row EXCEPT !.company = None] ELSE row

CreateUser(r) ==
    /\ Running(r, "createUser")
    /\ \E u \in UserIds :
          InsertUser(u, [Profile(requests[r].job.row) EXCEPT !.active = TRUE])
    /\ Reply(r)

ChangeUser(r) ==
    /\ Running(r, "updateUser")
    /\ UpdateUser(requests[r].job.user, Profile(requests[r].job.row))
    /\ Reply(r)

RemoveUser(r) ==
    /\ Running(r, "deleteUser")
    /\ DeleteUser(requests[r].job.user)
    /\ Reply(r)

CreateCompany(r) ==
    /\ Running(r, "createCompany")
    /\ \E c \in CompanyIds : InsertCompany(c)
    /\ Reply(r)

RemoveCompany(r) ==
    /\ Running(r, "deleteCompany")
    /\ DeleteCompany(requests[r].job.company)
    /\ Reply(r)

-------------------------------------------------------------------------------
Init ==
    /\ TablesInit
    /\ requests = [r \in Requests |-> Idle]
    /\ standing = [r \in Requests |-> {}]

Step(r) ==
    \/ \E a \in UserIds, j \in Jobs : Arrive(r, a, j)
    \/ Abort(r)
    \/ ResolveTarget(r)
    \/ \E m \in Months : EnsureWritable(r, m)
    \/ Save(r) \/ Erase(r) \/ Clear(r)
    \/ LookUpCadre(r) \/ CheckCompany(r) \/ LockMonth(r)
    \/ ReopenCadre(r)
    \/ CountPending(r) \/ SealCompany(r)
    \/ ReopenCompany(r)
    \/ CreateUser(r) \/ ChangeUser(r) \/ RemoveUser(r)
    \/ CreateCompany(r) \/ RemoveCompany(r)

Next == \E r \in Requests : Step(r)

Spec == Init /\ [][Next]_vars

-------------------------------------------------------------------------------
(* What a request has in its locals before each statement.                 *)
Locals(q) ==
    /\ q.job \in Jobs
    /\ q.by \in UserIds
    /\ q.job.op \in AdminOps => q.admin
    /\ q.pc \in {"resolve", "check", "write"} =>
          q.job.op \in WriteOps /\ q.user \in UserIds
    /\ q.pc \in {"lookup", "checkCompany", "lock"} =>
          q.job.op = "validate" /\ q.user \in UserIds
    /\ q.pc \in {"count", "seal"} => q.job.op = "validateCompany"
    /\ q.pc = "apply" => q.job.op \in AdminOps \ {"validateCompany"}
    /\ q.pc = "resolve" => q.todo = MonthsOf(q.job)
    /\ q.pc = "check" => q.todo # {}
    /\ q.job.op \in WriteOps \cup {"validate"} => q.admin \/ q.user = q.by

TypeOK ==
    /\ TablesTypeOK
    /\ requests \in [Requests -> Request]
    /\ standing \in [Requests -> SUBSET (Months \cup UserIds)]
    /\ \A r \in Requests : ~At(r, "idle") => Locals(requests[r])

(* With any number of requests in flight, a statement that changes a       *)
(* planning, locks a month or validates a company is never reached over an *)
(* obstacle that stood all along: each month written was open, the company *)
(* was not validated, each cadre was not pending, at some instant after    *)
(* the request read its target (attendance.rs ensure_writable for every    *)
(* month of a bulk, validations.rs cadre and company_validate).            *)
NoStandingObstacle ==
    \A r \in Requests : requests[r].pc \in {"write", "lock", "seal"} => standing[r] = {}

Acts(r) == requests'[r] # requests[r]

Untouched(u) == entries'[u] = entries[u] /\ locked'[u] = locked[u]

(* A request that authenticated as a cadre changes nothing but its own     *)
(* user's entries, and only ever sets that user's lock; another account's  *)
(* rows, a company validation, an account or a company change only at the  *)
(* hand of a request that authenticated as an admin (resolve_target, the   *)
(* admin routes and mounts of routes/mod.rs).                              *)
Authority ==
    [][\A r \in Requests : Acts(r) /\ ~requests[r].admin =>
          /\ UNCHANGED <<users, companies, validatedBy>>
          /\ \A u \in UserIds \ {requests[r].by} : Untouched(u)
          /\ \A u \in UserIds, m \in Months : locked[u][m] => locked'[u][m]]_vars

-------------------------------------------------------------------------------
(* The locking rules of README.md 213-216, as they are written: on the     *)
(* state the change is made in, not on the state the request had read.     *)

(* "Un cadre ne peut plus modifier ses saisies une fois son mois validé."  *)
OwnMonthKept ==
    [][\A r \in Requests : Acts(r) /\ ~requests[r].admin =>
          \A u \in UserIds, h \in HalfDays :
              entries'[u][h] # entries[u][h] => ~locked[u][MonthOf[h]]]_vars

(* "Personne (y compris l'administrateur) ne peut modifier les saisies     *)
(* d'une société dont le mois est validé": save by deleting the account.   *)
CompanyMonthKept ==
    [][\A u \in UserIds, h \in HalfDays :
          /\ entries'[u][h] # entries[u][h]
          /\ Exists(u)'
          => ~Validated(users[u].company, MonthOf[h])]_vars

(* "L'administrateur ne peut valider une société pour un mois donné que si *)
(* tous les cadres actifs de cette société ont déjà validé leur mois."     *)
CompanyValidatedLast ==
    [][\A c \in CompanyIds, m \in Months :
          ~Validated(c, m) /\ Validated(c, m)' => Pending(c, m) = {}]_vars

(* Since no admin can deactivate, demote or delete their own account, one  *)
(* is always left to administer the application (users.rs:153).            *)
SomeAdminLeft == \E u \in UserIds : IsActive(u) /\ IsAdmin(u)

(* One request at a time, the handlers take only the steps of MonthRules:  *)
(* their sequences of statements keep the rules.                           *)
Rules == INSTANCE MonthRules
KeepsRules == Rules!RulesSpec
===============================================================================
