---------------------------- MODULE HandlersProofs ----------------------------
(***************************************************************************)
(* For any sets of users, companies, months and half-days, any jobs and    *)
(* any number of requests in flight: the types, the references between     *)
(* tables, and that no request takes effect over a standing obstacle.      *)
(***************************************************************************)
EXTENDS Handlers, TablesProofs

(* The values a client sends are statuses of half-days, or blanks.         *)
LEMMA ValuesTyped ==
  ASSUME NEW j \in Jobs, NEW h \in DOMAIN j.values
  PROVE  h \in HalfDays /\ j.values[h] \in Statuses \cup {Blank}
<1>1. j.values \in UNION {[H -> Statuses \cup {Blank}] : H \in SUBSET HalfDays}
  BY JobsAssumption DEF Job
<1>2. PICK H \in SUBSET HalfDays : j.values \in [H -> Statuses \cup {Blank}]
  BY <1>1
<1>3. QED
  BY <1>2

(* The months a write names are months.                                    *)
LEMMA MonthsOfTyped ==
  ASSUME NEW j \in Jobs, j.op \in WriteOps
  PROVE  MonthsOf(j) \subseteq Months /\ MonthsOf(j) # {}
<1>1. CASE j.op = "clear"
  BY <1>1, JobsAssumption DEF MonthsOf, Job
<1>2. CASE j.op \in {"save", "erase"}
  <2>1. DOMAIN j.values # {}
    BY <1>2, JobsAssumption
  <2>2. \A h \in DOMAIN j.values : MonthOf[h] \in Months
    BY ValuesTyped, TablesAssumption
  <2>3. QED
    BY <1>2, <2>1, <2>2 DEF MonthsOf
<1>3. QED
  BY <1>1, <1>2 DEF WriteOps

-------------------------------------------------------------------------------
(* Moving a request to another statement, after the tables have changed.   *)
LEMMA GotoTyped ==
  ASSUME TypeOK, TablesTypeOK', NEW r \in Requests, NEW q \in Request,
         q.pc # "idle" => Locals(q), Goto(r, q)
  PROVE  TypeOK'
<1>1. requests' \in [Requests -> Request]
  BY DEF TypeOK, Goto
<1>2. \A s \in Requests : requests'[s].pc # "idle" => Locals(requests'[s])
  BY DEF TypeOK, Goto, At
<1>3. \A s \in Requests : Obstacles(s)' \subseteq Months \cup UserIds
  <2> TAKE s \in Requests
  <2> DEFINE p == requests'[s]
  <2>1. p \in Request /\ (p.pc # "idle" => Locals(p))
    BY <1>1, <1>2
  <2>2. CASE p.pc \in {"check", "write"}
    <3>1. MonthsOf(p.job) \subseteq Months
      BY <2>1, <2>2, MonthsOfTyped DEF Locals
    <3>2. Obstacles(s)' \subseteq MonthsOf(p.job)
      BY <2>2 DEF Obstacles
    <3>3. QED
      BY <3>1, <3>2
  <2>3. CASE p.pc \in {"checkCompany", "lock"}
    <3>1. p.job.month \in Months
      BY <2>1, <2>3, JobsAssumption DEF Locals, Job
    <3>2. Obstacles(s)' \subseteq {p.job.month}
      BY <2>3 DEF Obstacles
    <3>3. QED
      BY <3>1, <3>2
  <2>4. CASE p.pc \in {"count", "seal"}
    BY <2>4 DEF Obstacles, Pending, ActiveCadres
  <2>5. CASE p.pc \notin Judging
    BY <2>5 DEF Obstacles, Judging
  <2>6. QED
    BY <2>2, <2>3, <2>4, <2>5 DEF Judging
<1>4. standing' \in [Requests -> SUBSET (Months \cup UserIds)]
  BY <1>3 DEF Goto, Observe
<1>5. QED
  BY <1>1, <1>2, <1>4 DEF TypeOK, At

LEMMA IdleTyped == Idle \in Request
  BY DEF Idle, Request, PCs

(* A request that ends leaves its slot idle.                               *)
LEMMA ReplyTyped ==
  ASSUME TypeOK, TablesTypeOK', NEW r \in Requests, Reply(r)
  PROVE  TypeOK'
<1>1. Idle \in Request /\ Idle.pc = "idle"
  BY IdleTyped DEF Idle
<1>2. QED
  BY <1>1, GotoTyped DEF Reply

(* A step that reads, and leaves the tables alone.                         *)
LEMMA ReadKeeps ==
  ASSUME TablesTypeOK, Integrity, UNCHANGED tables
  PROVE  TablesTypeOK' /\ Integrity'
  BY DEF TablesTypeOK, Integrity, tables, Exists, CompanyRef

-------------------------------------------------------------------------------
(* The rows the users handlers write.                                      *)
LEMMA ProfileTyped ==
  ASSUME NEW row \in Row
  PROVE  /\ Profile(row) \in Row
         /\ [Profile(row) EXCEPT !.active = TRUE] \in Row
  BY DEF Profile, Row

LEMMA ArriveTyped ==
  ASSUME TypeOK, NEW r \in Requests, NEW a \in UserIds, NEW j \in Jobs,
         Arrive(r, a, j)
  PROVE  TypeOK'
<1> DEFINE self == ActsOnSelf(a, j)
           q == [pc      |-> FirstStatement(j),
                 job     |-> j,
                 by      |-> a,
                 admin   |-> IsAdmin(a),
                 user    |-> IF self THEN a ELSE j.user,
                 company |-> IF self THEN users[a].company ELSE None,
                 todo    |-> IF j.op \in WriteOps THEN MonthsOf(j) ELSE {}]
<1>1. j \in Job
  BY JobsAssumption
<1>2. users[a] \in Row
  BY DEF Arrive, Guarded, IsActive, Exists, TypeOK, TablesTypeOK
<1>3. FirstStatement(j) \in PCs \ {"idle"}
  BY <1>1 DEF FirstStatement, PCs, WriteOps
<1>4. q \in Request
  <2>1. q.user \in UserIds \cup {None}
    BY <1>1 DEF Job
  <2>2. q.company \in CompanyIds \cup {None}
    BY <1>2 DEF Row
  <2>3. q.todo \in SUBSET Months
    BY MonthsOfTyped
  <2>4. q.admin \in BOOLEAN
    BY DEF IsAdmin, Exists
  <2>5. QED
    BY <1>3, <2>1, <2>2, <2>3, <2>4 DEF Request
<1>5. Locals(q)
  <2>1. Guarded(a, j)
    BY DEF Arrive
  <2>2. j.op \in AdminOps => q.admin
    BY <2>1 DEF Guarded
  <2>3. q.pc \in {"resolve", "check", "write"} => j.op \in WriteOps
    BY <1>1 DEF FirstStatement
  <2>4. q.pc \in {"lookup", "checkCompany", "lock"} => j.op = "validate"
    BY <1>1 DEF FirstStatement
  <2>5. q.pc \in {"count", "seal"} => j.op = "validateCompany"
    BY <1>1 DEF FirstStatement
  <2>6. q.pc = "apply" => j.op \in AdminOps \ {"validateCompany"}
    BY <1>1 DEF FirstStatement, Job, Ops, WriteOps
  <2>7. j.op \in WriteOps \cup {"validate"} => q.user \in UserIds
    BY <1>1 DEF ActsOnSelf, Job
  <2>8. /\ q.pc = "check" => q.todo # {}
        /\ q.pc = "resolve" => q.todo = MonthsOf(j)
    BY <2>3, MonthsOfTyped
  <2>9. j.op \in WriteOps \cup {"validate"} => q.admin \/ q.user = q.by
    BY <2>1 DEF Guarded, ActsOnSelf
  <2>10. QED
    BY <2>2, <2>3, <2>4, <2>5, <2>6, <2>7, <2>8, <2>9 DEF Locals, WriteOps
<1>6. TablesTypeOK'
  BY DEF TypeOK, TablesTypeOK, Arrive, tables
<1>7. Goto(r, q)
  BY DEF Arrive
<1>8. QED
  BY <1>4, <1>5, <1>6, <1>7, GotoTyped

(* The reads between the first statement and the last.                     *)
LEMMA ReadTyped ==
  ASSUME TypeOK, Integrity, NEW r \in Requests,
         \/ ResolveTarget(r)
         \/ \E m \in Months : EnsureWritable(r, m)
         \/ LookUpCadre(r)
         \/ CheckCompany(r)
         \/ CountPending(r)
  PROVE  TypeOK' /\ Integrity'
<1> DEFINE q == requests[r]
<1>1. q \in Request /\ (q.pc # "idle" => Locals(q))
  BY DEF TypeOK, At
<1>2. UNCHANGED tables
  BY DEF ResolveTarget, EnsureWritable, LookUpCadre, CheckCompany, CountPending
<1>3. TablesTypeOK' /\ Integrity'
  BY <1>2, ReadKeeps DEF TypeOK
<1>4. ASSUME NEW u \in UserIds, Exists(u)
      PROVE  users[u].company \in CompanyIds \cup {None}
  BY <1>4 DEF TypeOK, TablesTypeOK, Exists, Row
<1>5. CASE ResolveTarget(r)
  <2> DEFINE next == [q EXCEPT !.pc = "check", !.company = users[q.user].company]
  <2>1. q.pc = "resolve" /\ Locals(q)
    BY <1>1, <1>5 DEF ResolveTarget, At
  <2>2. CASE Exists(q.user)
    <3>0. q.todo # {}
      BY <2>1, MonthsOfTyped DEF Locals
    <3>1. next \in Request /\ Locals(next)
      BY <1>1, <1>4, <2>1, <2>2, <3>0 DEF Request, PCs, Locals
    <3>2. QED
      BY <1>3, <1>5, <2>2, <3>1, GotoTyped DEF ResolveTarget
  <2>3. QED
    BY <1>3, <1>5, <2>2, ReplyTyped DEF ResolveTarget
<1>6. ASSUME NEW m \in Months, EnsureWritable(r, m)
      PROVE  TypeOK' /\ Integrity'
  <2> DEFINE next == [q EXCEPT !.pc = IF q.todo = {m} THEN "write" ELSE "check",
                               !.todo = @ \ {m}]
  <2>1. q.pc = "check" /\ Locals(q) /\ m \in q.todo
    BY <1>1, <1>6 DEF EnsureWritable, At
  <2>2. next \in Request
    BY <1>1, <2>1 DEF Request, PCs
  <2>3. Locals(next)
    BY <1>1, <2>1 DEF Request, Locals
  <2>4. Reply(r) \/ Goto(r, next)
    BY <1>6 DEF EnsureWritable
  <2>5. QED
    BY <1>3, <2>2, <2>3, <2>4, ReplyTyped, GotoTyped
<1>7. CASE LookUpCadre(r)
  <2> DEFINE next == [q EXCEPT !.pc = "checkCompany",
                               !.company = users[q.user].company]
  <2>1. q.pc = "lookup" /\ Locals(q)
    BY <1>1, <1>7 DEF LookUpCadre, At
  <2>2. CASE Exists(q.user)
    <3>1. next \in Request /\ Locals(next)
      BY <1>1, <1>4, <2>1, <2>2 DEF Request, PCs, Locals
    <3>2. QED
      BY <1>3, <1>7, <2>2, <3>1, GotoTyped DEF LookUpCadre
  <2>3. QED
    BY <1>3, <1>7, <2>2, ReplyTyped DEF LookUpCadre
<1>8. CASE CheckCompany(r)
  <2> DEFINE next == [q EXCEPT !.pc = "lock"]
  <2>1. q.pc = "checkCompany" /\ Locals(q)
    BY <1>1, <1>8 DEF CheckCompany, At
  <2>2. next \in Request /\ Locals(next)
    BY <1>1, <2>1 DEF Request, PCs, Locals
  <2>3. Reply(r) \/ Goto(r, next)
    BY <1>8 DEF CheckCompany
  <2>4. QED
    BY <1>3, <2>2, <2>3, ReplyTyped, GotoTyped
<1>9. CASE CountPending(r)
  <2> DEFINE next == [q EXCEPT !.pc = "seal"]
  <2>1. q.pc = "count" /\ Locals(q)
    BY <1>1, <1>9 DEF CountPending, At
  <2>2. next \in Request /\ Locals(next)
    BY <1>1, <2>1 DEF Request, PCs, Locals
  <2>3. Reply(r) \/ Goto(r, next)
    BY <1>9 DEF CountPending
  <2>4. QED
    BY <1>3, <2>2, <2>3, ReplyTyped, GotoTyped
<1>10. QED
  BY <1>5, <1>6, <1>7, <1>8, <1>9

(* The statements that end a request by changing a table.                  *)
Final(r) ==
    \/ Save(r) \/ Erase(r) \/ Clear(r) \/ LockMonth(r) \/ ReopenCadre(r)
    \/ SealCompany(r) \/ ReopenCompany(r)
    \/ CreateUser(r) \/ ChangeUser(r) \/ RemoveUser(r)
    \/ CreateCompany(r) \/ RemoveCompany(r)

LEMMA FinalKeeps ==
  ASSUME TypeOK, Integrity, NEW r \in Requests, Final(r)
  PROVE  TablesTypeOK' /\ Integrity' /\ Reply(r)
<1> DEFINE q == requests[r]
           j == q.job
<1>1. Locals(q)
  BY DEF TypeOK, At, Final, Save, Erase, Clear, LockMonth, ReopenCadre, SealCompany,
         ReopenCompany, CreateUser, ChangeUser, RemoveUser, CreateCompany,
         RemoveCompany, Running
<1>2. TablesTypeOK /\ j \in Jobs /\ j \in Job /\ q.by \in UserIds
  BY <1>1, JobsAssumption DEF TypeOK, Locals
<1>3. CASE Save(r)
  <2>1. q.user \in UserIds
    BY <1>1, <1>3 DEF Save, At, Locals
  <2>2. \A h \in DOMAIN j.values : j.values[h] \in Statuses \cup {Blank}
    BY <1>2, ValuesTyped
  <2>3. QED
    BY <1>2, <1>3, <2>1, <2>2, UpsertEntriesTyped, UpsertEntriesIntegrity DEF Save
<1>4. CASE Erase(r)
  <2>1. q.user \in UserIds
    BY <1>1, <1>4 DEF Erase, At, Locals
  <2>2. QED
    BY <1>2, <1>4, <2>1, DeleteEntriesTyped, DeleteEntriesIntegrity DEF Erase
<1>5. CASE Clear(r)
  <2>1. q.user \in UserIds
    BY <1>1, <1>5 DEF Clear, At, Locals
  <2>2. QED
    BY <1>2, <1>5, <2>1, DeleteEntriesTyped, DeleteEntriesIntegrity DEF Clear
<1>6. CASE LockMonth(r)
  <2>1. q.user \in UserIds /\ j.month \in Months
    BY <1>1, <1>2, <1>6, JobsAssumption DEF LockMonth, At, Locals, Job
  <2>2. QED
    BY <1>2, <1>6, <2>1, SetLockKeeps DEF LockMonth
<1>7. CASE ReopenCadre(r)
  <2>1. j.user \in UserIds /\ j.month \in Months
    BY <1>2, <1>7, JobsAssumption DEF ReopenCadre, Running, Job
  <2>2. QED
    BY <1>2, <1>7, <2>1, SetLockKeeps DEF ReopenCadre
<1>8. CASE SealCompany(r)
  <2>1. j.company \in CompanyIds /\ j.month \in Months
    BY <1>1, <1>2, <1>8, JobsAssumption DEF SealCompany, At, Locals, Job
  <2>2. QED
    BY <1>2, <1>8, <2>1, SetValidationKeeps DEF SealCompany
<1>9. CASE ReopenCompany(r)
  <2>1. j.company \in CompanyIds /\ j.month \in Months
    BY <1>2, <1>9, JobsAssumption DEF ReopenCompany, Running, Job
  <2>2. QED
    BY <1>2, <1>9, <2>1, SetValidationKeeps DEF ReopenCompany
<1>10. CASE CreateUser(r)
  <2>1. j.row \in Row
    BY <1>2, <1>10, JobsAssumption DEF CreateUser, Running, Job
  <2>2. QED
    BY <1>2, <1>10, <2>1, ProfileTyped, InsertUserTyped, InsertUserIntegrity
    DEF CreateUser
<1>11. CASE ChangeUser(r)
  <2>1. j.row \in Row /\ j.user \in UserIds
    BY <1>2, <1>11, JobsAssumption DEF ChangeUser, Running, Job
  <2>2. QED
    BY <1>2, <1>11, <2>1, ProfileTyped, UpdateUserTyped, UpdateUserIntegrity
    DEF ChangeUser
<1>12. CASE RemoveUser(r)
  <2>1. j.user \in UserIds
    BY <1>2, <1>12, JobsAssumption DEF RemoveUser, Running, Job
  <2>2. QED
    BY <1>2, <1>12, <2>1, DeleteUserTyped, DeleteUserIntegrity DEF RemoveUser
<1>13. CASE CreateCompany(r)
  BY <1>2, <1>13, InsertCompanyKeeps DEF CreateCompany
<1>14. CASE RemoveCompany(r)
  <2>1. j.company \in CompanyIds
    BY <1>2, <1>14, JobsAssumption DEF RemoveCompany, Running, Job
  <2>2. QED
    BY <1>2, <1>14, <2>1, DeleteCompanyTyped, DeleteCompanyIntegrity
    DEF RemoveCompany
<1>15. QED
  BY <1>3, <1>4, <1>5, <1>6, <1>7, <1>8, <1>9, <1>10, <1>11, <1>12, <1>13, <1>14
  DEF Final

-------------------------------------------------------------------------------
LEMMA InitKeeps == Init => TypeOK /\ Integrity
<1> SUFFICES ASSUME Init
             PROVE  TypeOK /\ Integrity
  OBVIOUS
<1>1. TablesTypeOK /\ Integrity
  BY InitTyped, InitIntegrity DEF Init
<1>2. requests \in [Requests -> Request] /\ standing \in [Requests -> SUBSET {}]
  BY IdleTyped DEF Init
<1>3. \A r \in Requests : At(r, "idle")
  BY DEF Init, At, Idle
<1>4. QED
  BY <1>1, <1>2, <1>3 DEF TypeOK

LEMMA NextKeeps ==
  ASSUME TypeOK, Integrity, [Next]_vars
  PROVE  TypeOK' /\ Integrity'
<1>1. CASE UNCHANGED vars
  BY <1>1 DEF vars, tables, TypeOK, Integrity, TablesTypeOK, Exists, CompanyRef, At
<1>2. ASSUME NEW r \in Requests, Step(r)
      PROVE  TypeOK' /\ Integrity'
  <2>1. ASSUME NEW a \in UserIds, NEW j \in Jobs, Arrive(r, a, j)
        PROVE  TypeOK' /\ Integrity'
    BY <2>1, ArriveTyped, ReadKeeps DEF Arrive, TypeOK
  <2>2. CASE Abort(r)
    BY <2>2, ReplyTyped, ReadKeeps DEF Abort, TypeOK
  <2>3. CASE \/ ResolveTarget(r)
             \/ \E m \in Months : EnsureWritable(r, m)
             \/ LookUpCadre(r)
             \/ CheckCompany(r)
             \/ CountPending(r)
    BY <2>3, ReadTyped
  <2>4. CASE Final(r)
    BY <2>4, FinalKeeps, ReplyTyped
  <2>5. QED
    BY <1>2, <2>1, <2>2, <2>3, <2>4 DEF Step, Final
<1>3. QED
  BY <1>1, <1>2 DEF Next

(* The tables and the locals of every request are always well typed, and   *)
(* a request reaches a statement only with the locals that statement uses. *)
THEOREM TypeCorrect == Spec => []TypeOK
<1>1. Init => TypeOK /\ Integrity
  BY InitKeeps
<1>2. TypeOK /\ Integrity /\ [Next]_vars => (TypeOK /\ Integrity)'
  BY NextKeeps
<1>3. QED
  BY <1>1, <1>2, PTL DEF Spec

(* Whatever deletions run between the statements of a request, no row ever *)
(* refers to an account or a company that is gone.                         *)
THEOREM ReferencesHold == Spec => []Integrity
<1>1. Init => TypeOK /\ Integrity
  BY InitKeeps
<1>2. TypeOK /\ Integrity /\ [Next]_vars => (TypeOK /\ Integrity)'
  BY NextKeeps
<1>3. QED
  BY <1>1, <1>2, PTL DEF Spec

-------------------------------------------------------------------------------
(* Why no request takes effect over a standing obstacle: standing only     *)
(* shrinks while a request is judged, it stays within the obstacles of the *)
(* present state, and a check that passes has just seen one of them gone.  *)
StandingInv ==
    \A r \in Requests :
        /\ requests[r].pc \in Judging => standing[r] \subseteq Obstacles(r)
        /\ requests[r].pc = "check" => standing[r] \subseteq requests[r].todo
        /\ requests[r].pc \in {"write", "lock", "seal"} => standing[r] = {}

(* The requests that do not act keep their part of it.                     *)
LEMMA OthersStanding ==
  ASSUME TypeOK, StandingInv, NEW r \in Requests, NEW q, Goto(r, q),
         NEW s \in Requests, s # r
  PROVE  /\ requests'[s].pc \in Judging => standing'[s] \subseteq Obstacles(s)'
         /\ requests'[s].pc = "check" => standing'[s] \subseteq requests'[s].todo
         /\ requests'[s].pc \in {"write", "lock", "seal"} => standing'[s] = {}
<1>1. requests'[s] = requests[s]
  BY DEF Goto, TypeOK
<1>2. standing'[s] = IF requests[s].pc \in Judging
                     THEN standing[s] \cap Obstacles(s)'
                     ELSE Obstacles(s)'
  BY DEF Goto, Observe
<1>3. QED
  BY <1>1, <1>2 DEF StandingInv, Judging

(* It is enough to look at the request that acts.                          *)
LEMMA ActorStanding ==
  ASSUME TypeOK, StandingInv, NEW r \in Requests, NEW q, Goto(r, q),
         q.pc = "check" => standing'[r] \subseteq q.todo,
         q.pc \in {"write", "lock", "seal"} => standing'[r] = {}
  PROVE  StandingInv'
<1>1. requests'[r] = q
  BY DEF Goto, TypeOK
<1>2. standing'[r] \subseteq Obstacles(r)'
  BY DEF Goto, Observe
<1>3. QED
  BY <1>1, <1>2, OthersStanding DEF StandingInv

LEMMA ReplyStanding ==
  ASSUME TypeOK, StandingInv, NEW r \in Requests, Reply(r)
  PROVE  StandingInv'
<1>1. Idle.pc = "idle"
  BY DEF Idle
<1>2. QED
  BY <1>1, ActorStanding DEF Reply

(* Once judged, a request's standing obstacles only go.                    *)
LEMMA StandingShrinks ==
  ASSUME TypeOK, NEW r \in Requests, NEW q, Goto(r, q),
         requests[r].pc \in Judging
  PROVE  standing'[r] \subseteq standing[r]
  BY DEF Goto, Observe

LEMMA NextStanding ==
  ASSUME TypeOK, StandingInv, [Next]_vars
  PROVE  StandingInv'
<1>1. CASE UNCHANGED vars
  BY <1>1 DEF vars, tables, StandingInv, Obstacles, MonthShut, Validated, Pending,
              ActiveCadres, IsActive, Exists
<1>2. ASSUME NEW r \in Requests, Step(r)
      PROVE  StandingInv'
  <2> DEFINE q == requests[r]
  <2>0. q \in Request
    BY DEF TypeOK
  <2>1. ASSUME NEW a \in UserIds, NEW j \in Jobs, Arrive(r, a, j)
        PROVE  StandingInv'
    <3> DEFINE new == [pc      |-> FirstStatement(j),
                       job     |-> j,
                       by      |-> a,
                       admin   |-> IsAdmin(a),
                       user    |-> IF ActsOnSelf(a, j) THEN a ELSE j.user,
                       company |-> IF ActsOnSelf(a, j) THEN users[a].company
                                                       ELSE None,
                       todo    |-> IF j.op \in WriteOps THEN MonthsOf(j) ELSE {}]
    <3>1. Goto(r, new) /\ q.pc = "idle"
      BY <2>1 DEF Arrive, At
    <3>2. j \in Job
      BY JobsAssumption
    <3>3. new.pc \notin {"write", "lock", "seal"}
      BY <3>2 DEF FirstStatement
    <3>4. new.pc = "check" => standing'[r] \subseteq new.todo
      <4> SUFFICES ASSUME new.pc = "check"
                   PROVE  standing'[r] \subseteq MonthsOf(j)
        BY <3>2 DEF FirstStatement
      <4>1. requests'[r] = new
        BY <3>1 DEF Goto, TypeOK
      <4>2. standing'[r] = Obstacles(r)'
        BY <3>1 DEF Goto, Observe, Judging
      <4>3. Obstacles(r)' \subseteq MonthsOf(new.job)
        BY <4>1 DEF Obstacles
      <4>4. QED
        BY <4>2, <4>3
    <3>5. QED
      BY <3>1, <3>3, <3>4, ActorStanding
  <2>2. CASE Abort(r)
    BY <2>2, ReplyStanding DEF Abort
  <2>3. CASE ResolveTarget(r)
    <3> DEFINE new == [q EXCEPT !.pc = "check", !.company = users[q.user].company]
    <3>1. CASE Reply(r)
      BY <3>1, ReplyStanding
    <3>2. CASE Goto(r, new)
      <4>1. q.pc = "resolve" /\ q.todo = MonthsOf(q.job)
        BY <2>3 DEF ResolveTarget, At, TypeOK, Locals
      <4>2. requests'[r] = new /\ new.pc = "check" /\ new.job = q.job
        BY <2>0, <3>2 DEF Goto, TypeOK, Request
      <4>3. standing'[r] = Obstacles(r)'
        BY <3>2, <4>1 DEF Goto, Observe, Judging
      <4>4. Obstacles(r)' \subseteq MonthsOf(new.job)
        BY <4>2 DEF Obstacles
      <4>5. new.todo = MonthsOf(q.job)
        BY <2>0, <4>1 DEF Request
      <4>6. standing'[r] \subseteq new.todo
        BY <4>2, <4>3, <4>4, <4>5
      <4>7. new.pc \notin {"write", "lock", "seal"}
        BY <4>2
      <4> HIDE DEF new
      <4>8. QED
        BY <3>2, <4>6, <4>7, ActorStanding
    <3>3. Reply(r) \/ Goto(r, new)
      BY <2>3 DEF ResolveTarget
    <3>4. QED
      BY <3>1, <3>2, <3>3
  <2>4. ASSUME NEW m \in Months, EnsureWritable(r, m)
        PROVE  StandingInv'
    <3> DEFINE new == [q EXCEPT !.pc = IF q.todo = {m} THEN "write" ELSE "check",
                                !.todo = @ \ {m}]
    <3>1. q.pc = "check" /\ m \in q.todo
      BY <2>4 DEF EnsureWritable, At
    <3>2. CASE Reply(r)
      BY <3>2, ReplyStanding
    <3>3. CASE ~MonthShut(q, m) /\ Goto(r, new)
      <4>1. m \notin standing[r] /\ standing[r] \subseteq q.todo
        BY <3>1, <3>3 DEF StandingInv, Obstacles, Judging
      <4>2. standing'[r] \subseteq q.todo \ {m}
        BY <3>1, <3>3, <4>1, StandingShrinks DEF Judging
      <4>3. /\ new.todo = q.todo \ {m}
            /\ new.pc = IF q.todo = {m} THEN "write" ELSE "check"
        BY <2>0 DEF Request
      <4>4. new.pc = "check" => standing'[r] \subseteq new.todo
        BY <4>2, <4>3
      <4>5. new.pc \in {"write", "lock", "seal"} => standing'[r] = {}
        BY <4>2, <4>3
      <4> HIDE DEF new
      <4>6. QED
        BY <3>3, <4>4, <4>5, ActorStanding
    <3>4. QED
      BY <2>4, <3>2, <3>3 DEF EnsureWritable
  <2>5. CASE LookUpCadre(r)
    <3> DEFINE new == [q EXCEPT !.pc = "checkCompany",
                                !.company = users[q.user].company]
    <3>1. CASE Reply(r)
      BY <3>1, ReplyStanding
    <3>2. CASE Goto(r, new)
      <4>1. new.pc = "checkCompany"
        BY <2>0 DEF Request
      <4>2. QED
        BY <3>2, <4>1, ActorStanding
    <3>3. Reply(r) \/ Goto(r, new)
      BY <2>5 DEF LookUpCadre
    <3>4. QED
      BY <3>1, <3>2, <3>3
  <2>6. CASE CheckCompany(r)
    <3>1. CASE Reply(r)
      BY <3>1, ReplyStanding
    <3>2. CASE ~Validated(q.company, q.job.month) /\ Goto(r, [q EXCEPT !.pc = "lock"])
      <4>1. q.pc = "checkCompany"
        BY <2>6 DEF CheckCompany, At
      <4>2. standing[r] = {}
        BY <3>2, <4>1 DEF StandingInv, Obstacles, Judging
      <4>3. standing'[r] = {}
        BY <3>2, <4>1, <4>2, StandingShrinks DEF Judging
      <4>4. [q EXCEPT !.pc = "lock"].pc = "lock"
        BY <2>0 DEF Request
      <4>5. QED
        BY <3>2, <4>3, <4>4, ActorStanding
    <3>3. QED
      BY <2>6, <3>1, <3>2 DEF CheckCompany
  <2>7. CASE CountPending(r)
    <3>1. CASE Reply(r)
      BY <3>1, ReplyStanding
    <3>2. CASE Pending(q.job.company, q.job.month) = {} /\ Goto(r, [q EXCEPT !.pc = "seal"])
      <4>1. q.pc = "count"
        BY <2>7 DEF CountPending, At
      <4>2. standing[r] = {}
        BY <3>2, <4>1 DEF StandingInv, Obstacles, Judging
      <4>3. standing'[r] = {}
        BY <3>2, <4>1, <4>2, StandingShrinks DEF Judging
      <4>4. [q EXCEPT !.pc = "seal"].pc = "seal"
        BY <2>0 DEF Request
      <4>5. QED
        BY <3>2, <4>3, <4>4, ActorStanding
    <3>3. QED
      BY <2>7, <3>1, <3>2 DEF CountPending
  <2>8. CASE Final(r)
    <3>1. Reply(r)
      BY <2>8 DEF Final, Save, Erase, Clear, LockMonth, ReopenCadre, SealCompany,
                  ReopenCompany, CreateUser, ChangeUser, RemoveUser, CreateCompany,
                  RemoveCompany
    <3>2. QED
      BY <3>1, ReplyStanding
  <2>9. QED
    BY <1>2, <2>1, <2>2, <2>3, <2>4, <2>5, <2>6, <2>7, <2>8 DEF Step, Final
<1>3. QED
  BY <1>1, <1>2 DEF Next

(* With any number of requests in flight, a write, a lock or a company     *)
(* validation is reached only past obstacles each seen absent at some      *)
(* instant since the request read its target.                              *)
THEOREM NoWriteOverStandingObstacle == Spec => []NoStandingObstacle
<1>1. Init => TypeOK /\ Integrity /\ StandingInv
  <2>1. Init => StandingInv
    BY DEF Init, StandingInv, Idle, Judging
  <2>2. QED
    BY <2>1, InitKeeps
<1>2. TypeOK /\ Integrity /\ StandingInv /\ [Next]_vars
        => (TypeOK /\ Integrity /\ StandingInv)'
  BY NextKeeps, NextStanding
<1>3. StandingInv => NoStandingObstacle
  BY DEF StandingInv, NoStandingObstacle
<1>4. QED
  BY <1>1, <1>2, <1>3, PTL DEF Spec

-------------------------------------------------------------------------------
(* A step is one request's: no other request's locals change with it.      *)
LEMMA OneActs ==
  ASSUME TypeOK, NEW s \in Requests, Step(s), NEW r \in Requests, Acts(r)
  PROVE  r = s
<1>1. ASSUME NEW q, Goto(s, q)
      PROVE  r = s
  BY <1>1 DEF Goto, Acts, TypeOK
<1>2. CASE Final(s) \/ Abort(s)
  BY <1>1, <1>2 DEF Final, Abort, Save, Erase, Clear, LockMonth, ReopenCadre,
     SealCompany, ReopenCompany, CreateUser, ChangeUser, RemoveUser, CreateCompany,
     RemoveCompany, Reply
<1>3. ASSUME NEW a \in UserIds, NEW j \in Jobs, Arrive(s, a, j)
      PROVE  r = s
  BY <1>1, <1>3 DEF Arrive
<1>4. CASE ResolveTarget(s)
  BY <1>1, <1>4 DEF ResolveTarget, Reply
<1>5. ASSUME NEW m \in Months, EnsureWritable(s, m)
      PROVE  r = s
  BY <1>1, <1>5 DEF EnsureWritable, Reply
<1>6. CASE LookUpCadre(s)
  BY <1>1, <1>6 DEF LookUpCadre, Reply
<1>7. CASE CheckCompany(s) \/ CountPending(s)
  BY <1>1, <1>7 DEF CheckCompany, CountPending, Reply
<1>8. QED
  BY <1>2, <1>3, <1>4, <1>5, <1>6, <1>7 DEF Step, Final

(* What a request that is not an admin's may do to the tables.             *)
LEMMA CadreReach ==
  ASSUME TypeOK, NEW r \in Requests, Step(r), Acts(r), ~requests[r].admin
  PROVE  /\ UNCHANGED <<users, companies, validatedBy>>
         /\ \A u \in UserIds \ {requests[r].by} : Untouched(u)
         /\ \A u \in UserIds, m \in Months : locked[u][m] => locked'[u][m]
<1> DEFINE q == requests[r]
<1>1. CASE UNCHANGED tables
  BY <1>1 DEF tables, Untouched
<1>2. ASSUME Final(r)
      PROVE  Save(r) \/ Erase(r) \/ Clear(r) \/ LockMonth(r)
  <2>1. q.job.op \notin AdminOps
    BY <1>2 DEF TypeOK, Locals, Final, At, Save, Erase, Clear, LockMonth, ReopenCadre,
       SealCompany, ReopenCompany, CreateUser, ChangeUser, RemoveUser,
       CreateCompany, RemoveCompany, Running
  <2>2. CASE SealCompany(r)
    <3>1. q.job.op = "validateCompany"
      BY <2>2 DEF TypeOK, Locals, SealCompany, At
    <3>2. QED
      BY <2>1, <3>1 DEF AdminOps
  <2>3. QED
    BY <1>2, <2>1, <2>2 DEF Final, ReopenCadre, ReopenCompany, CreateUser, ChangeUser,
       RemoveUser, CreateCompany, RemoveCompany, Running, AdminOps
<1>3. CASE Save(r) \/ Erase(r) \/ Clear(r)
  <2>1. q.user = q.by
    BY <1>3 DEF TypeOK, Locals, Save, Erase, Clear, At
  <2>2. /\ entries \in [UserIds -> [HalfDays -> Statuses \cup {Blank}]]
        /\ \E f : entries' = [entries EXCEPT ![q.by] = f]
    BY <1>3, <2>1 DEF TypeOK, TablesTypeOK, Save, Erase, Clear, UpsertEntries, DeleteEntries
  <2>3. UNCHANGED <<users, companies, validatedBy, locked>>
    BY <1>3 DEF Save, Erase, Clear, UpsertEntries, DeleteEntries
  <2>4. QED
    BY <2>2, <2>3 DEF Untouched
<1>4. CASE LockMonth(r)
  <2>1. q.user = q.by /\ q.by \in UserIds
    BY <1>4 DEF TypeOK, Locals, LockMonth, At
  <2>2. /\ locked \in [UserIds -> [Months -> BOOLEAN]]
        /\ locked' = [locked EXCEPT ![q.by][q.job.month] = TRUE]
        /\ UNCHANGED <<users, companies, validatedBy, entries>>
    BY <1>4, <2>1 DEF TypeOK, TablesTypeOK, LockMonth, SetLock
  <2>3. \A u \in UserIds \ {q.by} : Untouched(u)
    BY <2>2 DEF Untouched
  <2>4. ASSUME NEW u \in UserIds, NEW m \in Months, locked[u][m]
        PROVE  locked'[u][m]
    BY <2>1, <2>2, <2>4
  <2>5. QED
    BY <2>2, <2>3, <2>4
<1>5. UNCHANGED tables \/ Final(r)
  <2>1. ASSUME NEW a \in UserIds, NEW j \in Jobs, Arrive(r, a, j)
        PROVE  UNCHANGED tables
    BY <2>1 DEF Arrive
  <2>2. CASE \/ Abort(r)
             \/ ResolveTarget(r)
             \/ \E m \in Months : EnsureWritable(r, m)
             \/ LookUpCadre(r)
             \/ CheckCompany(r)
             \/ CountPending(r)
    BY <2>2 DEF Abort, ResolveTarget, EnsureWritable, LookUpCadre, CheckCompany,
       CountPending
  <2>3. QED
    BY <2>1, <2>2 DEF Step, Final
<1>6. QED
  BY <1>1, <1>2, <1>3, <1>4, <1>5

(* A request that authenticated as a cadre reaches its own user's rows     *)
(* alone, whatever else runs: the guards of the mounts and routes, and the *)
(* target resolve_target gives it, leave it nothing else.                  *)
THEOREM CadreActsOnSelf == Spec => Authority
<1>1. Init => TypeOK /\ Integrity
  BY InitKeeps
<1>2. TypeOK /\ Integrity /\ [Next]_vars => (TypeOK /\ Integrity)'
  BY NextKeeps
<1> DEFINE Within(r) ==
             /\ UNCHANGED <<users, companies, validatedBy>>
             /\ \A u \in UserIds \ {requests[r].by} : Untouched(u)
             /\ \A u \in UserIds, m \in Months : locked[u][m] => locked'[u][m]
           Reach == \A r \in Requests : Acts(r) /\ ~requests[r].admin => Within(r)
<1>3. TypeOK /\ [Next]_vars => [Reach]_vars
  <2>1. SUFFICES ASSUME TypeOK, Next, NEW r \in Requests, Acts(r), ~requests[r].admin
                 PROVE  Within(r)
    OBVIOUS
  <2>2. Step(r)
    BY <2>1, OneActs DEF Next
  <2>3. QED
    BY <2>1, <2>2, CadreReach
<1>4. QED
  BY <1>1, <1>2, <1>3, PTL DEF Spec, Authority
===============================================================================
