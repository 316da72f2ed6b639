----------------------------- MODULE SerialProofs -----------------------------
(***************************************************************************)
(* One request at a time, for any tables and any jobs: the handlers        *)
(* implement the rules of MonthRules, and an admin is always left.  Two    *)
(* requests at a time they do not, which is what the runs write_race and   *)
(* seal_race show; so each result here assumes a single slot.              *)
(***************************************************************************)
EXTENDS HandlersProofs

OneAtATime == \A r, s \in Requests : r = s

(* What the request has read is still so.                                  *)
Fresh(q) ==
    /\ IsActive(q.by)
    /\ q.admin <=> IsAdmin(q.by)
    /\ q.job.op = "updateUser" /\ q.job.user = q.by =>
          q.job.row.role = "admin" /\ q.job.row.active
    /\ q.job.op = "deleteUser" => q.job.user # q.by
    /\ q.pc \in {"check", "write", "checkCompany", "lock"} =>
          Exists(q.user) /\ q.company = users[q.user].company
    /\ q.pc = "check" => \A m \in MonthsOf(q.job) \ q.todo : ~MonthShut(q, m)
    /\ q.pc = "write" => \A m \in MonthsOf(q.job) : ~MonthShut(q, m)
    /\ q.pc = "lock" => ~Validated(q.company, q.job.month)
    /\ q.pc = "seal" => Pending(q.job.company, q.job.month) = {}

SerialInv ==
    /\ TypeOK
    /\ Integrity
    /\ SomeAdminLeft
    /\ \A r \in Requests : ~At(r, "idle") => Fresh(requests[r])

(* With one slot, a step that reads is judged on its own request alone.    *)
LEMMA SerialGoto ==
    ASSUME OneAtATime, NEW r \in Requests, NEW q, requests \in [Requests -> Request],
           Goto(r, q), q.pc # "idle" => Fresh(q)'
    PROVE  (\A s \in Requests : ~At(s, "idle") => Fresh(requests[s]))'
<1>1. requests'[r] = q
  BY DEF Goto
<1>2. ASSUME NEW s \in Requests, requests'[s].pc # "idle"
      PROVE  Fresh(requests[s])'
  <2>1. s = r
    BY DEF OneAtATime
  <2>2. requests'[s] = q
    BY <1>1, <2>1
  <2> QED
    BY <1>2, <2>2 DEF Fresh, MonthShut
<1> QED
  BY <1>2 DEF At

LEMMA SerialReply ==
    ASSUME OneAtATime, NEW r \in Requests, requests \in [Requests -> Request], Reply(r)
    PROVE  (\A s \in Requests : ~At(s, "idle") => Fresh(requests[s]))'
<1>1. \A s \in Requests : requests'[s] = Idle
  BY DEF Reply, Goto, OneAtATime
<1> QED
  BY <1>1 DEF At, Idle

(* What a request has read stays so as long as the tables are left alone.  *)
LEMMA FreshStays ==
    ASSUME UNCHANGED tables, NEW q, Fresh(q)
    PROVE  Fresh(q)'
  BY DEF tables, Fresh, IsActive, IsAdmin, Exists, MonthShut, Validated, Pending,
     ActiveCadres

(* The steps that read keep what the request knows, and add to it.         *)
LEMMA ReadFresh ==
    ASSUME OneAtATime, SerialInv, NEW r \in Requests,
           \/ \E a \in UserIds, j \in Jobs : Arrive(r, a, j)
           \/ Abort(r)
           \/ ResolveTarget(r)
           \/ \E m \in Months : EnsureWritable(r, m)
           \/ LookUpCadre(r)
           \/ CheckCompany(r)
           \/ CountPending(r)
    PROVE  /\ UNCHANGED tables
           /\ (\A s \in Requests : ~At(s, "idle") => Fresh(requests[s]))'
<1> DEFINE q == requests[r]
<1>1. UNCHANGED tables
  BY DEF Arrive, Abort, ResolveTarget, EnsureWritable, LookUpCadre, CheckCompany,
     CountPending
<1>2. /\ requests \in [Requests -> Request] /\ q \in Request
      /\ q.pc # "idle" => Locals(q) /\ Fresh(q)
  BY DEF SerialInv, TypeOK, At
<1>3. ASSUME Reply(r)
      PROVE  (\A s \in Requests : ~At(s, "idle") => Fresh(requests[s]))'
  BY <1>2, <1>3, SerialReply
<1>4. ASSUME NEW p, Goto(r, p), Fresh(p)
      PROVE  (\A s \in Requests : ~At(s, "idle") => Fresh(requests[s]))'
  <2>1. Fresh(p)'
    BY <1>1, <1>4, FreshStays
  <2> QED
    BY <1>2, <1>4, <2>1, SerialGoto
<1>5. ASSUME NEW a \in UserIds, NEW j \in Jobs, Arrive(r, a, j)
      PROVE  (\A s \in Requests : ~At(s, "idle") => Fresh(requests[s]))'
  <2> DEFINE self == ActsOnSelf(a, j)
             p == [pc      |-> FirstStatement(j),
                   job     |-> j,
                   by      |-> a,
                   admin   |-> IsAdmin(a),
                   user    |-> IF self THEN a ELSE j.user,
                   company |-> IF self THEN users[a].company ELSE None,
                   todo    |-> IF j.op \in WriteOps THEN MonthsOf(j) ELSE {}]
  <2>1. Goto(r, p) /\ Guarded(a, j)
    BY <1>5 DEF Arrive
  <2>2. FirstStatement(j) \notin {"write", "checkCompany", "lock", "seal"}
    BY DEF FirstStatement
  <2>3. FirstStatement(j) = "check" => j.op \in WriteOps /\ j.user = None
    <3>1. j.op \in Ops
      BY JobsAssumption DEF Job
    <3> QED
      BY <3>1 DEF FirstStatement, Ops, WriteOps
  <2>4. Fresh(p)
    BY <2>1, <2>2, <2>3 DEF Fresh, Guarded, IsActive, IsAdmin, ActsOnSelf
  <2> HIDE DEF p
  <2> QED
    BY <1>4, <2>1, <2>4
<1>6. CASE ResolveTarget(r)
  <2> DEFINE p == [q EXCEPT !.pc = "check", !.company = users[q.user].company]
  <2>1. q.pc = "resolve" /\ Locals(q) /\ Fresh(q)
    BY <1>2, <1>6 DEF ResolveTarget, At
  <2>2. ASSUME Exists(q.user) PROVE Fresh(p)
    <3>1. /\ p.pc = "check" /\ p.company = users[q.user].company /\ p.user = q.user
          /\ p.by = q.by /\ p.admin = q.admin /\ p.job = q.job
          /\ p.todo = MonthsOf(q.job)
      BY <1>2, <2>1 DEF Request, Locals
    <3> HIDE DEF p
    <3> QED
      BY <2>1, <2>2, <3>1 DEF Fresh
  <2> QED
    BY <1>3, <1>4, <1>6, <2>2 DEF ResolveTarget
<1>7. ASSUME NEW m \in Months, EnsureWritable(r, m)
      PROVE  (\A s \in Requests : ~At(s, "idle") => Fresh(requests[s]))'
  <2> DEFINE p == [q EXCEPT !.pc = IF q.todo = {m} THEN "write" ELSE "check",
                            !.todo = @ \ {m}]
  <2>1. q.pc = "check" /\ m \in q.todo /\ Fresh(q)
    BY <1>2, <1>7 DEF EnsureWritable, At
  <2>2. Reply(r) \/ (~MonthShut(q, m) /\ Goto(r, p))
    BY <1>7 DEF EnsureWritable
  <2>3. ASSUME ~MonthShut(q, m) PROVE Fresh(p)
    <3>1. /\ p.pc = IF q.todo = {m} THEN "write" ELSE "check"
          /\ p.company = q.company /\ p.user = q.user /\ p.by = q.by
          /\ p.admin = q.admin /\ p.job = q.job /\ p.todo = q.todo \ {m}
      BY <1>2 DEF Request
    <3> HIDE DEF p
    <3>2. \A n \in Months : MonthShut(p, n) <=> MonthShut(q, n)
      BY <3>1 DEF MonthShut
    <3>3. \A n \in MonthsOf(q.job) \ (q.todo \ {m}) : ~MonthShut(p, n)
      BY <2>1, <2>3, <3>1 DEF Fresh, MonthShut
    <3>4. p.pc = "write" => p.todo = {}
      BY <3>1
    <3> QED
      BY <2>1, <3>1, <3>3, <3>4 DEF Fresh
  <2> HIDE DEF p
  <2> QED
    BY <1>3, <1>4, <2>2, <2>3
<1>8. CASE LookUpCadre(r)
  <2> DEFINE p == [q EXCEPT !.pc = "checkCompany", !.company = users[q.user].company]
  <2>1. q.pc = "lookup" /\ Fresh(q)
    BY <1>2, <1>8 DEF LookUpCadre, At
  <2>2. ASSUME Exists(q.user) PROVE Fresh(p)
    <3>1. /\ p.pc = "checkCompany" /\ p.company = users[q.user].company
          /\ p.user = q.user /\ p.by = q.by /\ p.admin = q.admin /\ p.job = q.job
      BY <1>2 DEF Request
    <3> HIDE DEF p
    <3> QED
      BY <2>1, <2>2, <3>1 DEF Fresh
  <2> QED
    BY <1>3, <1>4, <1>8, <2>2 DEF LookUpCadre
<1>9. CASE CheckCompany(r)
  <2> DEFINE p == [q EXCEPT !.pc = "lock"]
  <2>1. q.pc = "checkCompany" /\ Fresh(q)
    BY <1>2, <1>9 DEF CheckCompany, At
  <2>2. ASSUME ~Validated(q.company, q.job.month) PROVE Fresh(p)
    <3>1. /\ p.pc = "lock" /\ p.company = q.company
          /\ p.user = q.user /\ p.by = q.by /\ p.admin = q.admin /\ p.job = q.job
      BY <1>2 DEF Request
    <3> HIDE DEF p
    <3> QED
      BY <2>1, <2>2, <3>1 DEF Fresh
  <2> QED
    BY <1>3, <1>4, <1>9, <2>2 DEF CheckCompany
<1>10. CASE CountPending(r)
  <2> DEFINE p == [q EXCEPT !.pc = "seal"]
  <2>1. q.pc = "count" /\ Fresh(q)
    BY <1>2, <1>10 DEF CountPending, At
  <2>2. ASSUME Pending(q.job.company, q.job.month) = {} PROVE Fresh(p)
    <3>1. /\ p.pc = "seal" /\ p.by = q.by /\ p.admin = q.admin /\ p.job = q.job
      BY <1>2 DEF Request
    <3> HIDE DEF p
    <3> QED
      BY <2>1, <2>2, <3>1 DEF Fresh
  <2> QED
    BY <1>3, <1>4, <1>10, <2>2 DEF CountPending
<1>11. CASE Abort(r)
  BY <1>3, <1>11 DEF Abort
<1> QED
  BY <1>1, <1>5, <1>6, <1>7, <1>8, <1>9, <1>10, <1>11

-------------------------------------------------------------------------------
(* MonthRules reads the tables with the definitions of Tables.             *)
LEMMA SameWords ==
    /\ \A u : Rules!IsActive(u) <=> IsActive(u)
    /\ \A u : Rules!Exists(u) <=> Exists(u)
    /\ \A u : Rules!IsAdmin(u) <=> IsAdmin(u)
    /\ \A c, m : Rules!Validated(c, m) <=> Validated(c, m)
    /\ \A c, m : Rules!Pending(c, m) = Pending(c, m)
    /\ Rules!Row = Row
  BY DEF Rules!IsActive, IsActive, Rules!Exists, Exists, Rules!IsAdmin, IsAdmin,
     Rules!Validated, Validated, Rules!Pending, Pending, Rules!ActiveCadres,
     ActiveCadres, Rules!Row, Row, Rules!Roles, Roles

(* A request that is about to change an entry of a month: the month is     *)
(* open to its actor.                                                      *)
LEMMA WriteIsEdit ==
    ASSUME OneAtATime, SerialInv, NEW r \in Requests, Save(r) \/ Erase(r) \/ Clear(r)
    PROVE  Rules!EditEntries(requests[r].by, requests[r].user)
<1> DEFINE q == requests[r]
           u == q.user
<1>1. /\ q.pc = "write" /\ Locals(q) /\ Fresh(q) /\ q.job \in Jobs
      /\ u \in UserIds /\ q.by \in UserIds /\ Exists(u)
  BY DEF Save, Erase, Clear, At, SerialInv, TypeOK, Locals, Fresh
<1>2. Rules!MayActFor(q.by, u)
  BY <1>1, SameWords DEF Rules!MayActFor, Locals, Fresh
<1>3. entries' \in [UserIds -> [HalfDays -> Statuses \cup {Blank}]]
  BY FinalKeeps DEF Final, SerialInv, TablesTypeOK
<1>4. UNCHANGED <<users, companies, issued, locked, validatedBy>>
  BY DEF Save, Erase, Clear, UpsertEntries, DeleteEntries
<1>5. ASSUME NEW v \in UserIds, NEW h \in HalfDays, entries'[v][h] # entries[v][h]
      PROVE  v = u /\ MonthOf[h] \in MonthsOf(q.job)
  <2>1. entries \in [UserIds -> [HalfDays -> Statuses \cup {Blank}]]
    BY DEF SerialInv, TypeOK, TablesTypeOK
  <2>2. CASE Save(r)
    <3>1. /\ entries' = [entries EXCEPT ![u] = [k \in HalfDays |->
                IF k \in DOMAIN q.job.values THEN q.job.values[k] ELSE entries[u][k]]]
          /\ q.job.op = "save"
      BY <2>2 DEF Save, UpsertEntries
    <3>2. v = u /\ h \in DOMAIN q.job.values
      BY <1>1, <1>5, <2>1, <3>1
    <3> QED
      BY <3>1, <3>2 DEF MonthsOf
  <2>3. CASE Erase(r)
    <3>1. /\ entries' = [entries EXCEPT ![u] = [k \in HalfDays |->
                IF k \in DOMAIN q.job.values THEN Blank ELSE entries[u][k]]]
          /\ q.job.op = "erase"
      BY <2>3 DEF Erase, DeleteEntries
    <3>2. v = u /\ h \in DOMAIN q.job.values
      BY <1>1, <1>5, <2>1, <3>1
    <3> QED
      BY <3>1, <3>2 DEF MonthsOf
  <2>4. CASE Clear(r)
    <3>1. /\ entries' = [entries EXCEPT ![u] = [k \in HalfDays |->
                IF k \in HalfDaysOf(q.job.month) THEN Blank ELSE entries[u][k]]]
          /\ q.job.op = "clear"
      BY <2>4 DEF Clear, DeleteEntries
    <3>2. v = u /\ h \in HalfDaysOf(q.job.month)
      BY <1>1, <1>5, <2>1, <3>1
    <3> QED
      BY <3>1, <3>2 DEF MonthsOf, HalfDaysOf
  <2> QED
    BY <2>2, <2>3, <2>4
<1>6. ASSUME NEW m \in MonthsOf(q.job)
      PROVE  ~Rules!Closed(q.by, u, m)
  <2>1. ~MonthShut(q, m)
    BY <1>1 DEF Fresh
  <2> QED
    BY <1>1, <2>1, SameWords DEF Rules!Closed, MonthShut, Fresh
<1>7. \A v \in UserIds, h \in HalfDays : entries'[v][h] # entries[v][h] =>
          v = u /\ ~Rules!Closed(q.by, u, MonthOf[h])
  BY <1>5, <1>6
<1> QED
  BY <1>2, <1>3, <1>4, <1>7 DEF Rules!EditEntries

(* The statement that ends a request is a step its actor may take.         *)
LEMMA FinalIsAllowed ==
    ASSUME OneAtATime, SerialInv, NEW r \in Requests, Final(r)
    PROVE  Rules!RulesNext
<1> DEFINE q == requests[r]
           j == q.job
           a == q.by
<1>1. /\ Locals(q) /\ Fresh(q) /\ j \in Jobs /\ j \in Job /\ a \in UserIds
  BY JobsAssumption DEF SerialInv, TypeOK, Locals, At, Final, Save, Erase, Clear, LockMonth,
     ReopenCadre, SealCompany, ReopenCompany, CreateUser, ChangeUser, RemoveUser,
     CreateCompany, RemoveCompany, Running
<1>2. j.op \in AdminOps => Rules!Admin(a)
  BY <1>1, SameWords DEF Rules!Admin, Locals, Fresh
<1>3. CASE Save(r) \/ Erase(r) \/ Clear(r)
  <2>1. q.user \in UserIds
    BY <1>1, <1>3 DEF Locals, Save, Erase, Clear, At
  <2> QED
    BY <1>1, <1>3, <2>1, WriteIsEdit DEF Rules!RulesNext
<1>4. CASE LockMonth(r)
  <2>1. /\ q.pc = "lock" /\ j.op = "validate" /\ q.user \in UserIds
        /\ j.month \in Months
    BY <1>1, <1>4, JobsAssumption DEF Locals, LockMonth, At, Job
  <2>2. Rules!MayActFor(a, q.user) /\ ~Rules!Validated(users[q.user].company, j.month)
    BY <1>1, <2>1, SameWords DEF Rules!MayActFor, Locals, Fresh
  <2>3. Rules!SetLock(q.user, j.month, TRUE)
    BY <1>4, SameWords DEF LockMonth, SetLock, Rules!SetLock
  <2> QED
    BY <1>1, <2>1, <2>2, <2>3 DEF Rules!RulesNext, Rules!ValidateMonth
<1>5. CASE ReopenCadre(r)
  <2>1. j.op = "reopen" /\ j.user \in UserIds /\ j.month \in Months
    BY <1>1, <1>5, JobsAssumption DEF ReopenCadre, Running, Job
  <2>2. Rules!SetLock(j.user, j.month, FALSE)
    BY <1>5, SameWords DEF ReopenCadre, SetLock, Rules!SetLock
  <2> QED
    BY <1>1, <1>2, <2>1, <2>2 DEF Rules!RulesNext, Rules!ReopenMonth, AdminOps
<1>6. CASE SealCompany(r)
  <2>1. /\ q.pc = "seal" /\ j.op = "validateCompany"
        /\ j.company \in CompanyIds /\ j.month \in Months
    BY <1>1, <1>6, JobsAssumption DEF SealCompany, At, Locals, Job
  <2>2. Rules!SetValidation(j.company, j.month, a)
    BY <1>6, SameWords DEF SealCompany, SetValidation, Rules!SetValidation
  <2>3. Rules!Pending(j.company, j.month) = {}
    BY <1>1, <2>1, SameWords DEF Fresh
  <2> QED
    BY <1>1, <1>2, <2>1, <2>2, <2>3 DEF Rules!RulesNext, Rules!ValidateCompany, AdminOps
<1>7. CASE ReopenCompany(r)
  <2>1. j.op = "reopenCompany" /\ j.company \in CompanyIds /\ j.month \in Months
    BY <1>1, <1>7, JobsAssumption DEF ReopenCompany, Running, Job
  <2>2. Rules!SetValidation(j.company, j.month, None)
    BY <1>7, SameWords DEF ReopenCompany, SetValidation, Rules!SetValidation
  <2> QED
    BY <1>1, <1>2, <2>1, <2>2 DEF Rules!RulesNext, Rules!ReopenCompany, AdminOps
<1>8. CASE CreateUser(r)
  <2>1. j.op = "createUser" /\ j.row \in Row
    BY <1>1, <1>8, JobsAssumption DEF CreateUser, Running, Job
  <2> DEFINE row == [Profile(j.row) EXCEPT !.active = TRUE]
  <2>2. row \in Rules!Row /\ row.active
    BY <2>1, ProfileTyped, SameWords DEF Profile, Row
  <2>3. PICK u \in UserIds : InsertUser(u, row)
    BY <1>8 DEF CreateUser
  <2> HIDE DEF row
  <2>4. Rules!InsertUser(u, row)
    BY <2>3 DEF InsertUser, Rules!InsertUser, CompanyRef, Rules!CompanyRef
  <2>5. Rules!ManageUsers(a)
    BY <1>2, <2>1, <2>2, <2>4 DEF Rules!ManageUsers, AdminOps
  <2> QED
    BY <1>1, <2>5 DEF Rules!RulesNext
<1>9. CASE ChangeUser(r)
  <2>1. j.op = "updateUser" /\ j.row \in Row /\ j.user \in UserIds
    BY <1>1, <1>9, JobsAssumption DEF ChangeUser, Running, Job
  <2> DEFINE row == Profile(j.row)
  <2>2. /\ row \in Rules!Row
        /\ j.user = a => row.role = "admin" /\ row.active
    BY <1>1, <2>1, ProfileTyped, SameWords DEF Profile, Row, Fresh
  <2>3. UpdateUser(j.user, row)
    BY <1>9 DEF ChangeUser
  <2> HIDE DEF row
  <2>4. Rules!UpdateUser(j.user, row)
    BY <2>3, SameWords DEF UpdateUser, Rules!UpdateUser, CompanyRef, Rules!CompanyRef
  <2>5. Rules!ManageUsers(a)
    BY <1>2, <2>1, <2>2, <2>4 DEF Rules!ManageUsers, AdminOps
  <2> QED
    BY <1>1, <2>5 DEF Rules!RulesNext
<1>10. CASE RemoveUser(r)
  <2>1. j.op = "deleteUser" /\ j.user \in UserIds /\ j.user # a
    BY <1>1, <1>10, JobsAssumption DEF RemoveUser, Running, Job, Fresh
  <2>2. Rules!DeleteUser(j.user)
    BY <1>10, SameWords DEF RemoveUser, DeleteUser, Rules!DeleteUser
  <2>3. Rules!ManageUsers(a)
    BY <1>2, <2>1, <2>2 DEF Rules!ManageUsers, AdminOps
  <2> QED
    BY <1>1, <2>3 DEF Rules!RulesNext
<1>11. CASE CreateCompany(r)
  <2>1. j.op = "createCompany"
    BY <1>11 DEF CreateCompany, Running
  <2>2. \E c \in CompanyIds : Rules!InsertCompany(c)
    BY <1>11 DEF CreateCompany, InsertCompany, Rules!InsertCompany
  <2> QED
    BY <1>1, <1>2, <2>1, <2>2 DEF Rules!RulesNext, Rules!ManageCompanies, AdminOps
<1>12. CASE RemoveCompany(r)
  <2>1. j.op = "deleteCompany" /\ j.company \in CompanyIds
    BY <1>1, <1>12, JobsAssumption DEF RemoveCompany, Running, Job
  <2>2. Rules!DeleteCompany(j.company)
    BY <1>12, SameWords DEF RemoveCompany, DeleteCompany, Rules!DeleteCompany,
       Exists, Rules!Exists
  <2> QED
    BY <1>1, <1>2, <2>1, <2>2 DEF Rules!RulesNext, Rules!ManageCompanies, AdminOps
<1> QED
  BY <1>3, <1>4, <1>5, <1>6, <1>7, <1>8, <1>9, <1>10, <1>11, <1>12 DEF Final

(* The rules leave an admin: whoever manages accounts stays one.           *)
LEMMA RulesLeaveAdmin ==
    ASSUME TablesTypeOK, Integrity, SomeAdminLeft, Rules!RulesNext
    PROVE  SomeAdminLeft'
<1>1. PICK a \in UserIds :
        \/ Rules!ManageUsers(a)
        \/ Rules!ManageCompanies(a)
        \/ \E u \in UserIds : Rules!EditEntries(a, u)
        \/ \E u \in UserIds, m \in Months :
              Rules!ValidateMonth(a, u, m) \/ Rules!ReopenMonth(a, u, m)
        \/ \E c \in CompanyIds, m \in Months :
              Rules!ValidateCompany(a, c, m) \/ Rules!ReopenCompany(a, c, m)
  BY DEF Rules!RulesNext
<1>2. users \in [UserIds -> Row \cup {None}]
  BY DEF TablesTypeOK
<1>3. ASSUME users' = users PROVE SomeAdminLeft'
  BY <1>3 DEF SomeAdminLeft, IsActive, IsAdmin, Exists
<1>4. CASE Rules!ManageUsers(a)
  <2>1. IsActive(a) /\ IsAdmin(a)
    BY <1>4, SameWords DEF Rules!ManageUsers, Rules!Admin
  <2>2. ASSUME users'[a] = users[a] PROVE SomeAdminLeft'
    BY <2>1, <2>2 DEF SomeAdminLeft, IsActive, IsAdmin, Exists
  <2>3. ASSUME NEW u \in UserIds, NEW row \in Row, Rules!InsertUser(u, row)
        PROVE  SomeAdminLeft'
    <3>1. u \notin issued /\ users' = [users EXCEPT ![u] = row]
      BY <2>3 DEF Rules!InsertUser
    <3>2. a \in issued
      BY <2>1 DEF Integrity, IsActive
    <3> QED
      BY <1>2, <2>2, <3>1, <3>2
  <2>4. ASSUME NEW u \in UserIds, NEW row \in Row, Rules!UpdateUser(u, row),
               u = a => row.role = "admin" /\ row.active
        PROVE  SomeAdminLeft'
    <3>1. users' = [users EXCEPT ![u] = row]
      BY <2>4 DEF Rules!UpdateUser
    <3>2. CASE u = a
      <4>1. users'[a] = row /\ row # None
        BY <1>2, <3>1, <3>2, TablesAssumption
      <4> QED
        BY <2>4, <3>2, <4>1 DEF SomeAdminLeft, IsActive, IsAdmin, Exists
    <3>3. CASE u # a
      BY <1>2, <2>2, <3>1, <3>3
    <3> QED
      BY <3>2, <3>3
  <2>5. ASSUME NEW u \in UserIds, u # a, Rules!DeleteUser(u)
        PROVE  SomeAdminLeft'
    BY <1>2, <2>2, <2>5 DEF Rules!DeleteUser
  <2> QED
    BY <1>4, <2>3, <2>4, <2>5, SameWords DEF Rules!ManageUsers
<1>5. CASE Rules!ManageCompanies(a)
  <2>1. ASSUME NEW c \in CompanyIds, Rules!DeleteCompany(c)
        PROVE  SomeAdminLeft'
    <3>1. PICK v \in UserIds : IsActive(v) /\ IsAdmin(v)
      BY DEF SomeAdminLeft
    <3>2. users[v] \in Row
      BY <1>2, <3>1 DEF IsActive, Exists
    <3>3. users'[v] = users[v] \/ users'[v] = [users[v] EXCEPT !.company = None]
      BY <2>1 DEF Rules!DeleteCompany
    <3>4. users'[v] \in Row /\ users'[v].role = "admin" /\ users'[v].active
      BY <3>1, <3>2, <3>3 DEF Row, IsActive, IsAdmin
    <3> QED
      BY <3>4, TablesAssumption DEF SomeAdminLeft, IsActive, IsAdmin, Exists
  <2>2. ASSUME NEW c \in CompanyIds, Rules!InsertCompany(c)
        PROVE  SomeAdminLeft'
    BY <1>3, <2>2 DEF Rules!InsertCompany
  <2> QED
    BY <1>5, <2>1, <2>2 DEF Rules!ManageCompanies
<1>6. CASE \/ \E u \in UserIds : Rules!EditEntries(a, u)
           \/ \E u \in UserIds, m \in Months :
                 Rules!ValidateMonth(a, u, m) \/ Rules!ReopenMonth(a, u, m)
           \/ \E c \in CompanyIds, m \in Months :
                 Rules!ValidateCompany(a, c, m) \/ Rules!ReopenCompany(a, c, m)
  BY <1>3, <1>6 DEF Rules!EditEntries, Rules!ValidateMonth, Rules!ReopenMonth,
     Rules!ValidateCompany, Rules!ReopenCompany, Rules!SetLock, Rules!SetValidation
<1> QED
  BY <1>1, <1>4, <1>5, <1>6

(* A step of the only request changes no table, or obeys the rules.        *)
LEMMA SerialStep ==
    ASSUME OneAtATime, SerialInv, Next
    PROVE  SerialInv' /\ (UNCHANGED tables \/ Rules!RulesNext)
<1>1. TypeOK' /\ Integrity'
  BY NextKeeps DEF SerialInv
<1>2. PICK r \in Requests : Step(r)
  BY DEF Next
<1>3. CASE Final(r)
  <2>1. Rules!RulesNext
    BY <1>3, FinalIsAllowed
  <2>2. SomeAdminLeft'
    BY <2>1, RulesLeaveAdmin DEF SerialInv, TypeOK
  <2>3. Reply(r)
    BY <1>3, FinalKeeps DEF SerialInv
  <2>4. (\A s \in Requests : ~At(s, "idle") => Fresh(requests[s]))'
    BY <2>3, SerialReply DEF SerialInv, TypeOK
  <2> QED
    BY <1>1, <2>1, <2>2, <2>4 DEF SerialInv
<1>4. CASE ~Final(r)
  <2>1. /\ UNCHANGED tables
        /\ (\A s \in Requests : ~At(s, "idle") => Fresh(requests[s]))'
    BY <1>2, <1>4, ReadFresh DEF Step, Final
  <2>2. SomeAdminLeft'
    BY <2>1 DEF SerialInv, SomeAdminLeft, tables, IsActive, IsAdmin, Exists
  <2> QED
    BY <1>1, <2>1, <2>2 DEF SerialInv
<1> QED
  BY <1>3, <1>4

LEMMA SerialInit == Init => SerialInv
<1> SUFFICES ASSUME Init PROVE SerialInv
  OBVIOUS
<1>1. SomeAdminLeft
  BY FirstAssumption DEF Init, TablesInit, SomeAdminLeft, IsActive, IsAdmin, Exists
<1>2. \A r \in Requests : At(r, "idle")
  BY DEF Init, At, Idle
<1> QED
  BY <1>1, <1>2, InitKeeps DEF SerialInv

LEMMA SerialKeeps ==
    ASSUME OneAtATime, SerialInv, [Next]_vars
    PROVE  SerialInv' /\ [Rules!RulesNext]_tables
<1>1. CASE Next
  BY <1>1, SerialStep
<1>2. CASE UNCHANGED vars
  <2>1. UNCHANGED tables /\ requests' = requests
    BY <1>2 DEF vars
  <2>2. TypeOK' /\ Integrity'
    BY NextKeeps DEF SerialInv
  <2>3. SomeAdminLeft'
    BY <2>1 DEF SerialInv, SomeAdminLeft, tables, IsActive, IsAdmin, Exists
  <2>4. \A r \in Requests : requests'[r].pc # "idle" => Fresh(requests'[r])
    BY <2>1 DEF SerialInv, At
  <2>5. \A r \in Requests : requests'[r].pc # "idle" => Fresh(requests[r])'
    <3> SUFFICES ASSUME NEW r \in Requests, requests'[r].pc # "idle"
                 PROVE  Fresh(requests[r])'
      OBVIOUS
    <3>1. Fresh(requests[r])
      BY <2>1 DEF SerialInv, At
    <3> QED
      BY <2>1, <3>1 DEF tables, Fresh, IsActive, IsAdmin, Exists, MonthShut, Validated,
         Pending, ActiveCadres
  <2> QED
    BY <2>1, <2>2, <2>3, <2>5 DEF SerialInv, At
<1> QED
  BY <1>1, <1>2

(* One request at a time, the sequences of statements of the handlers are  *)
(* single steps of the rules, for any tables, users and jobs (attendance,  *)
(* validations, users, companies under routes/).                           *)
THEOREM SerialHandlersKeepRules ==
    ASSUME OneAtATime
    PROVE  Spec => KeepsRules
<1>1. Init => Rules!TablesInit
  BY DEF Init, TablesInit, Rules!TablesInit
<1>2. SerialInv /\ [Next]_vars => SerialInv' /\ [Rules!RulesNext]_(Rules!tables)
  BY SerialKeeps DEF tables, Rules!tables
<1> QED
  BY <1>1, <1>2, SerialInit, PTL DEF Spec, KeepsRules, Rules!RulesSpec

(* One request at a time, an active admin is always left: nobody demotes,  *)
(* deactivates or deletes their own account (users.rs:153).                *)
THEOREM SerialAdminLeft ==
    ASSUME OneAtATime
    PROVE  Spec => []SomeAdminLeft
<1>1. SerialInv /\ [Next]_vars => SerialInv'
  BY SerialKeeps
<1>2. SerialInv => SomeAdminLeft
  BY DEF SerialInv
<1> QED
  BY <1>1, <1>2, SerialInit, PTL DEF Spec

(* "Personne ne peut modifier les saisies d'une société dont le mois est   *)
(* validé" (README.md 213-216), for one request at a time.                 *)
THEOREM SerialCompanyMonthKept ==
    ASSUME OneAtATime
    PROVE  Spec => CompanyMonthKept
<1> DEFINE Kept == \A u \in UserIds, h \in HalfDays :
                      /\ entries'[u][h] # entries[u][h]
                      /\ Exists(u)'
                      => ~Validated(users[u].company, MonthOf[h])
<1>1. SerialInv /\ [Next]_vars => SerialInv'
  BY SerialKeeps
<1>2. SerialInv /\ [Next]_vars => [Kept]_vars
  <2> SUFFICES ASSUME SerialInv, Next, NEW u \in UserIds, NEW h \in HalfDays,
                      entries'[u][h] # entries[u][h], Exists(u)'
               PROVE  ~Validated(users[u].company, MonthOf[h])
    OBVIOUS
  <2>1. Rules!RulesNext
    BY SerialStep DEF tables
  <2>2. ASSUME NEW a \in UserIds, NEW v \in UserIds, Rules!EditEntries(a, v)
        PROVE  ~Validated(users[u].company, MonthOf[h])
    BY <2>2, SameWords DEF Rules!EditEntries, Rules!Closed
  <2>3. ASSUME NEW v \in UserIds, Rules!DeleteUser(v)
        PROVE  FALSE
    <3>1. /\ users' = [users EXCEPT ![v] = None]
          /\ entries' = [entries EXCEPT ![v] = [k \in HalfDays |-> Blank]]
      BY <2>3 DEF Rules!DeleteUser
    <3>2. /\ users \in [UserIds -> Row \cup {None}]
          /\ entries \in [UserIds -> [HalfDays -> Statuses \cup {Blank}]]
      BY DEF SerialInv, TypeOK, TablesTypeOK
    <3> QED
      BY <3>1, <3>2 DEF Exists
  <2>4. CASE /\ ~\E a, v \in UserIds : Rules!EditEntries(a, v)
             /\ ~\E v \in UserIds : Rules!DeleteUser(v)
    <3>1. entries' = entries
      BY <2>1, <2>4 DEF Rules!RulesNext, Rules!ManageUsers, Rules!ManageCompanies,
         Rules!ValidateMonth, Rules!ReopenMonth, Rules!ValidateCompany,
         Rules!ReopenCompany, Rules!SetLock, Rules!SetValidation, Rules!InsertUser,
         Rules!UpdateUser, Rules!InsertCompany, Rules!DeleteCompany
    <3> QED
      BY <3>1
  <2> QED
    BY <2>2, <2>3, <2>4
<1> QED
  BY <1>1, <1>2, SerialInit, PTL DEF Spec, CompanyMonthKept

(* "L'administrateur ne peut valider une société que si tous les cadres    *)
(* actifs ont déjà validé leur mois", for one request at a time.           *)
THEOREM SerialCompanyValidatedLast ==
    ASSUME OneAtATime
    PROVE  Spec => CompanyValidatedLast
<1> DEFINE Last == \A c \in CompanyIds, m \in Months :
                      ~Validated(c, m) /\ Validated(c, m)' => Pending(c, m) = {}
<1>1. SerialInv /\ [Next]_vars => SerialInv'
  BY SerialKeeps
<1>2. SerialInv /\ [Next]_vars => [Last]_vars
  <2> SUFFICES ASSUME SerialInv, Next, NEW c \in CompanyIds, NEW m \in Months,
                      ~Validated(c, m), Validated(c, m)'
               PROVE  Pending(c, m) = {}
    OBVIOUS
  <2>1. /\ validatedBy[c][m] = None /\ validatedBy'[c][m] # None
        /\ validatedBy \in [CompanyIds -> [Months -> UserIds \cup {None}]]
    BY TablesAssumption DEF Validated, SerialInv, TypeOK, TablesTypeOK
  <2>2. Rules!RulesNext
    BY <2>1, SerialStep DEF tables
  <2>3. ASSUME NEW a \in UserIds, NEW d \in CompanyIds, NEW n \in Months,
               Rules!ValidateCompany(a, d, n)
        PROVE  Pending(c, m) = {}
    <3>1. /\ Pending(d, n) = {}
          /\ validatedBy' = [validatedBy EXCEPT ![d][n] = a]
      BY <2>3, SameWords DEF Rules!ValidateCompany, Rules!SetValidation
    <3>2. d = c /\ n = m
      BY <2>1, <3>1
    <3> QED
      BY <3>1, <3>2
  <2>4. ASSUME NEW d \in CompanyIds, NEW n \in Months,
               \/ validatedBy' = [validatedBy EXCEPT ![d][n] = None]
               \/ validatedBy' = [validatedBy EXCEPT ![d] = [k \in Months |-> None]]
               \/ validatedBy' = validatedBy
        PROVE  FALSE
    BY <2>1, <2>4
  <2>5. CASE ~\E a \in UserIds, d \in CompanyIds, n \in Months :
               Rules!ValidateCompany(a, d, n)
    <3>1. \/ validatedBy' = validatedBy
          \/ \E a \in UserIds, d \in CompanyIds, n \in Months :
                Rules!ReopenCompany(a, d, n)
          \/ \E d \in CompanyIds : Rules!DeleteCompany(d)
      BY <2>2, <2>5 DEF Rules!RulesNext, Rules!ManageUsers, Rules!ManageCompanies,
         Rules!ValidateMonth, Rules!ReopenMonth, Rules!EditEntries, Rules!SetLock,
         Rules!InsertUser, Rules!UpdateUser, Rules!DeleteUser, Rules!InsertCompany
    <3> QED
      BY <2>4, <3>1 DEF Rules!ReopenCompany, Rules!SetValidation, Rules!DeleteCompany
  <2> QED
    BY <2>3, <2>5
<1> QED
  BY <1>1, <1>2, SerialInit, PTL DEF Spec, CompanyValidatedLast

(* "Un cadre ne peut plus modifier ses saisies une fois son mois validé",  *)
(* for one request at a time.                                              *)
THEOREM SerialOwnMonthKept ==
    ASSUME OneAtATime
    PROVE  Spec => OwnMonthKept
<1> DEFINE Kept == \A r \in Requests : Acts(r) /\ ~requests[r].admin =>
                      \A u \in UserIds, h \in HalfDays :
                         entries'[u][h] # entries[u][h] => ~locked[u][MonthOf[h]]
<1>1. SerialInv /\ [Next]_vars => SerialInv'
  BY SerialKeeps
<1>2. SerialInv /\ [Next]_vars => [Kept]_vars
  <2> SUFFICES ASSUME SerialInv, Next, NEW r \in Requests, Acts(r), ~requests[r].admin,
                      NEW u \in UserIds, NEW h \in HalfDays,
                      entries'[u][h] # entries[u][h]
               PROVE  ~locked[u][MonthOf[h]]
    OBVIOUS
  <2>1. Step(r)
    BY OneActs DEF Next, SerialInv
  <2>2. Final(r)
    <3>1. ASSUME ~Final(r) PROVE FALSE
      <4>1. UNCHANGED tables
        BY <2>1, <3>1, ReadFresh DEF Step, Final
      <4> QED
        BY <4>1 DEF tables
    <3> QED
      BY <3>1
  <2>3. /\ Locals(requests[r]) /\ Fresh(requests[r])
        /\ requests[r].job.op \notin AdminOps
    BY <2>2 DEF SerialInv, TypeOK, Locals, At, Final, Save, Erase, Clear, LockMonth,
       ReopenCadre, SealCompany, ReopenCompany, CreateUser, ChangeUser, RemoveUser,
       CreateCompany, RemoveCompany, Running
  <2>4. Save(r) \/ Erase(r) \/ Clear(r)
    <3>1. ~RemoveUser(r)
      BY <2>3 DEF RemoveUser, Running, AdminOps
    <3> QED
      BY <2>2, <3>1 DEF Final, LockMonth, ReopenCadre, SealCompany, ReopenCompany,
         CreateUser, ChangeUser, CreateCompany, RemoveCompany, SetLock, SetValidation,
         InsertUser, UpdateUser, InsertCompany, DeleteCompany
  <2>5. Rules!EditEntries(requests[r].by, requests[r].user)
    BY <2>4, WriteIsEdit
  <2>6. ~Rules!Closed(requests[r].by, u, MonthOf[h])
    BY <2>5 DEF Rules!EditEntries
  <2> QED
    BY <2>3, <2>6, SameWords DEF Rules!Closed, Fresh
<1> QED
  BY <1>1, <1>2, SerialInit, PTL DEF Spec, OwnMonthKept
===============================================================================
