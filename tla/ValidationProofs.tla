--------------------------- MODULE ValidationProofs ---------------------------
(***************************************************************************)
(* The validation screen, for any number of functions awaiting side by     *)
(* side and of requests in flight: its buttons are disabled exactly while  *)
(* what they started goes on, the figures it is left with are not older    *)
(* than its last action, an export of a validated month is a snapshot, and *)
(* the screens that count the same people count them alike.                *)
(***************************************************************************)
EXTENDS ValidationScreen, HandlersProofs, FiniteSetTheorems, WellFoundedInduction

-------------------------------------------------------------------------------
(* The kinds of task that end with a load().                               *)
Loads == {"open", "seal", "unseal", "cadre"}

(* The fields of a task, and the steps each kind of task goes through.     *)
Formed(q) ==
    /\ q = [kind |-> q.kind, pc |-> q.pc, cadre |-> q.cadre, request |-> q.request,
            rows |-> q.rows, sealed |-> q.sealed, steady |-> q.steady]
    /\ q.sealed \in BOOLEAN /\ q.steady \in BOOLEAN
    /\ q.request # None => q.request \in Requests /\ q.pc = "post"
    /\ q.kind = "none" => q.pc = "idle"
    /\ q.kind = "open" => q.pc \in {"list", "rows", "sealed", "answer"}
    /\ q.kind \in {"seal", "unseal", "cadre"} =>
          q.pc \in {"dialog", "post", "rows", "sealed", "answer"}
    /\ q.kind = "cadre" => q.cadre \in UserIds
    /\ q.kind = "export" => q.pc \in {"company", "cadres", "entries", "file"}
    /\ q.kind \in Loads \cup {"none", "export"}
    /\ q.steady => q.kind = "export"

(* A task of the company's own button.                                     *)
Sealing(q) == q.kind \in {"seal", "unseal"}

(* Every slot holds a task.                                                *)
TasksOK ==
    /\ DOMAIN tasks = Tasks
    /\ tasks = [t \in Tasks |-> tasks[t]]
    /\ \A t \in Tasks : Formed(tasks[t])

(* The dialog is modal: one function at most waits in it.                  *)
OneDialog == \A t, o \in Tasks : TaskAt(t, "dialog") /\ TaskAt(o, "dialog") => t = o

(* The company's button is disabled from the dialog to the end of the load *)
(* (Validation.svelte's busy), so it starts one task at a time.            *)
OneSealing ==
    \A t, o \in Tasks : Sealing(tasks[t]) /\ Sealing(tasks[o]) => t = o

(* So does the export button (exporting).                                  *)
OneExport ==
    \A t, o \in Tasks :
        tasks[t].kind = "export" /\ tasks[o].kind = "export" => t = o

(* The flags say what the tasks do: this is what makes the finally blocks  *)
(* clear the flag of their own task and of no other.                       *)
ButtonsOK ==
    /\ <<err, busy, exporting>> \in BOOLEAN \X BOOLEAN \X BOOLEAN
    /\ reopening \in UserIds \cup {None}
    /\ busy <=> \E t \in Tasks : tasks[t].kind \in {"seal", "unseal"} /\ Working(t)
    /\ exporting <=> \E t \in Tasks : tasks[t].kind = "export"
    /\ OneDialog /\ OneSealing /\ OneExport

(* The figures on screen came from one load.                               *)
DataOK ==
    data # None => DOMAIN data.rows \subseteq UserIds /\ data.sealed \in BOOLEAN

(* What a load has read may stay: figures are only to be read again when   *)
(* nobody else has read anything yet.                                      *)
ReadOK ==
    /\ outdated \subseteq {Board} \cup Tasks
    /\ \A t \in Tasks : tasks[t].pc \in {"sealed", "answer"} =>
          DOMAIN tasks[t].rows \subseteq UserIds /\ t \notin outdated

(* A POST that is out is a request in flight.                              *)
LinksOK ==
    \A t \in Tasks : tasks[t].request # None =>
        requests[tasks[t].request].pc # "idle"

(* The screen and its tasks.                                               *)
DeskOK == TasksOK /\ ButtonsOK /\ DataOK /\ ReadOK /\ FiguresAreNew

(* An export that has met nothing but one validated month is, at each of   *)
(* its steps, what the tables hold; and it stays so, because every write   *)
(* to the month has still to ask for it.                                   *)
Exact(q) ==
    q.steady =>
        /\ Validated(Shown, Month) /\ NoneChecked
        /\ q.pc = "entries" => q.rows = ActiveCadres(Shown)
        /\ q.pc = "file" =>
              q.rows = [u \in ActiveCadres(Shown) |->
                           [h \in HalfDaysOf(Month) |-> entries[u][h]]]

(* ... whichever task it is.                                               *)
SteadyOK == \A t \in Tasks : Exact(tasks[t])

(* The tables and the requests.                                            *)
ServerOK == TypeOK /\ Integrity

(* The inductive invariant.                                                *)
IInv == ServerOK /\ LinksOK /\ DeskOK /\ SteadyOK

-------------------------------------------------------------------------------
(* One statement of anybody's, while the month stays validated and its     *)
(* cadres the same: every write to it has still to ask, since those that   *)
(* ask are refused, and so nobody writes to it.                            *)
LEMMA StepKeepsSealed ==
    ASSUME TypeOK, NEW r \in Requests, Step(r),
           Validated(Shown, Month), NoneChecked, Validated(Shown, Month)',
           ActiveCadres(Shown)' = ActiveCadres(Shown)
    PROVE  /\ NoneChecked'
           /\ \A u \in ActiveCadres(Shown), h \in HalfDaysOf(Month) :
                 entries'[u][h] = entries[u][h]
<1> DEFINE q == requests[r]
           Asks(p) == p.pc \in {"check", "write"} /\ p.user \in ActiveCadres(Shown)
                      /\ Month \in MonthsOf(p.job) =>
                         p.pc = "check" /\ Month \in p.todo /\ p.company = Shown
           Same == \A u \in ActiveCadres(Shown), h \in HalfDaysOf(Month) :
                      entries'[u][h] = entries[u][h]
<1>1. q \in Request /\ (q.pc # "idle" => Locals(q)) /\ Asks(q)
  BY DEF TypeOK, At, NoneChecked, WritesHere
<1>2. \A u \in ActiveCadres(Shown) :
         u \in UserIds /\ Exists(u) /\ users[u].company = Shown /\ users'[u] # None
  BY DEF ActiveCadres, IsActive, Exists
<1>3. ASSUME NEW p, Goto(r, p), Asks(p)
      PROVE  NoneChecked'
  <2> SUFFICES ASSUME NEW s \in Requests
               PROVE  Asks(requests'[s])
    BY DEF NoneChecked, WritesHere
  <2>1. CASE s = r
    BY <1>3, <2>1 DEF Goto, TypeOK
  <2>2. CASE s # r
    <3>1. requests'[s] = requests[s]
      BY <1>3, <2>2 DEF Goto, TypeOK
    <3> QED
      BY <3>1 DEF NoneChecked, WritesHere
  <2> QED
    BY <2>1, <2>2
<1>4. Reply(r) => NoneChecked'
  <2>1. Asks(Idle)
    BY DEF Idle
  <2> QED
    BY <1>3, <2>1 DEF Reply
<1>5. UNCHANGED tables => Same
  BY DEF tables
<1>6. ASSUME NEW a \in UserIds, NEW j \in Jobs, Arrive(r, a, j)
      PROVE  NoneChecked' /\ Same
  <2> DEFINE p == [pc      |-> FirstStatement(j),
                   job     |-> j,
                   by      |-> a,
                   admin   |-> IsAdmin(a),
                   user    |-> IF ActsOnSelf(a, j) THEN a ELSE j.user,
                   company |-> IF ActsOnSelf(a, j) THEN users[a].company ELSE None,
                   todo    |-> IF j.op \in WriteOps THEN MonthsOf(j) ELSE {}]
  <2>1. p.pc \in {"check", "write"} => j.op \in WriteOps /\ j.user = None /\ p.pc = "check"
    BY DEF FirstStatement, WriteOps
  <2>2. Asks(p)
    BY <1>2, <2>1 DEF ActsOnSelf
  <2> HIDE DEF p
  <2> QED
    BY <1>3, <1>5, <1>6, <2>2 DEF Arrive, p
<1>7. CASE Abort(r)
  BY <1>4, <1>5, <1>7 DEF Abort
<1>8. CASE ResolveTarget(r)
  <2> DEFINE p == [q EXCEPT !.pc = "check", !.company = users[q.user].company]
  <2>1. q.pc = "resolve" /\ q.todo = MonthsOf(q.job)
    BY <1>1, <1>8 DEF ResolveTarget, At, Locals
  <2>2. /\ p.pc = "check" /\ p.user = q.user /\ p.job = q.job /\ p.todo = q.todo
        /\ p.company = users[q.user].company
    BY <1>1 DEF Request
  <2>3. Asks(p)
    BY <1>2, <2>1, <2>2
  <2> HIDE DEF p, Asks
  <2>4. Goto(r, p) \/ Reply(r)
    BY <1>8 DEF ResolveTarget, p
  <2> QED
    BY <1>3, <1>4, <1>5, <1>8, <2>3, <2>4 DEF ResolveTarget
<1>9. ASSUME NEW m \in Months, EnsureWritable(r, m)
      PROVE  NoneChecked' /\ Same
  <2> DEFINE p == [q EXCEPT !.pc = IF q.todo = {m} THEN "write" ELSE "check",
                            !.todo = @ \ {m}]
  <2>1. q.pc = "check"
    BY <1>9 DEF EnsureWritable, At
  <2>2. /\ p.pc = (IF q.todo = {m} THEN "write" ELSE "check")
        /\ p.user = q.user /\ p.job = q.job /\ p.todo = q.todo \ {m}
        /\ p.company = q.company
    BY <1>1 DEF Request
  <2>3. ~MonthShut(q, m) => Asks(p)
    BY <1>1, <2>1, <2>2 DEF MonthShut
  <2> HIDE DEF p, Asks
  <2>4. (~MonthShut(q, m) /\ Goto(r, p)) \/ Reply(r)
    BY <1>9 DEF EnsureWritable, p
  <2> QED
    BY <1>3, <1>4, <1>5, <1>9, <2>3, <2>4 DEF EnsureWritable
<1>10. CASE LookUpCadre(r)
  <2> DEFINE p == [q EXCEPT !.pc = "checkCompany", !.company = users[q.user].company]
  <2>1. p.pc = "checkCompany"
    BY <1>1 DEF Request
  <2>2. Asks(p)
    BY <2>1
  <2> HIDE DEF p, Asks
  <2>3. Goto(r, p) \/ Reply(r)
    BY <1>10 DEF LookUpCadre, p
  <2> QED
    BY <1>3, <1>4, <1>5, <1>10, <2>2, <2>3 DEF LookUpCadre
<1>11. ASSUME NEW pc \in {"lock", "seal"}, Goto(r, [q EXCEPT !.pc = pc]) \/ Reply(r),
              UNCHANGED tables
       PROVE  NoneChecked' /\ Same
  <2> DEFINE p == [q EXCEPT !.pc = pc]
  <2>1. p.pc = pc
    BY <1>1 DEF Request
  <2>2. Asks(p)
    BY <2>1
  <2> HIDE DEF Asks
  <2> QED
    BY <1>3, <1>4, <1>5, <1>11, <2>2
<1>12. CASE Final(r)
  <2>1. NoneChecked'
    BY <1>4, <1>12 DEF Final, Save, Erase, Clear, LockMonth, ReopenCadre, SealCompany,
       ReopenCompany, CreateUser, ChangeUser, RemoveUser, CreateCompany, RemoveCompany
  <2>2. CASE Save(r) \/ Erase(r) \/ Clear(r)
    <3>1. q.pc = "write" /\ q.job \in Jobs
      BY <1>1, <2>2 DEF Save, Erase, Clear, At, Locals
    <3>2. q.user \notin ActiveCadres(Shown) \/ Month \notin MonthsOf(q.job)
      BY <1>1, <3>1
    <3>3. ASSUME NEW u \in ActiveCadres(Shown), NEW h \in HalfDaysOf(Month)
          PROVE  entries'[u][h] = entries[u][h]
      <4>1. u \in UserIds /\ h \in HalfDays /\ MonthOf[h] = Month
        BY <1>2 DEF HalfDaysOf
      <4>2. CASE u # q.user
        BY <2>2, <4>1, <4>2
        DEF Save, Erase, Clear, UpsertEntries, DeleteEntries, TypeOK, TablesTypeOK
      <4>3. CASE u = q.user
        <5>1. Month \notin MonthsOf(q.job)
          BY <3>2, <4>3
        <5>2. CASE Save(r)
          <6>1. h \notin DOMAIN q.job.values
            BY <4>1, <5>1, <5>2 DEF Save, MonthsOf
          <6> QED
            BY <4>1, <5>2, <6>1 DEF Save, UpsertEntries, TypeOK, TablesTypeOK
        <5>3. CASE Erase(r)
          <6>1. h \notin DOMAIN q.job.values
            BY <4>1, <5>1, <5>3 DEF Erase, MonthsOf
          <6> QED
            BY <4>1, <5>3, <6>1 DEF Erase, DeleteEntries, TypeOK, TablesTypeOK
        <5>4. CASE Clear(r)
          <6>1. h \notin HalfDaysOf(q.job.month)
            BY <4>1, <5>1, <5>4 DEF Clear, MonthsOf, HalfDaysOf
          <6> QED
            BY <4>1, <5>4, <6>1 DEF Clear, DeleteEntries, TypeOK, TablesTypeOK
        <5> QED
          BY <2>2, <5>2, <5>3, <5>4
      <4> QED
        BY <4>2, <4>3
    <3> QED
      BY <2>1, <3>3
  <2>3. CASE RemoveUser(r)
    <3>1. DeleteUser(q.job.user)
      BY <2>3 DEF RemoveUser
    <3>2. q.job.user \notin ActiveCadres(Shown)
      BY <1>2, <3>1 DEF DeleteUser, TypeOK, TablesTypeOK
    <3> QED
      BY <1>2, <2>1, <3>1, <3>2 DEF DeleteUser, TypeOK, TablesTypeOK
  <2>4. CASE UNCHANGED entries
    BY <2>1, <2>4
  <2>5. \/ Save(r) \/ Erase(r) \/ Clear(r) \/ RemoveUser(r)
        \/ UNCHANGED entries
    BY <1>12 DEF Final, LockMonth, ReopenCadre, SealCompany, ReopenCompany, CreateUser,
       ChangeUser, CreateCompany, RemoveCompany, SetLock, SetValidation, InsertUser,
       UpdateUser, InsertCompany, DeleteCompany
  <2> QED
    BY <2>1, <2>2, <2>3, <2>4, <2>5
<1>13. CASE CheckCompany(r) \/ CountPending(r)
  BY <1>11, <1>13 DEF CheckCompany, CountPending
<1> QED
  BY <1>6, <1>7, <1>8, <1>9, <1>10, <1>12, <1>13 DEF Step, Final

(* A step that leaves the server alone leaves what it knows.               *)
LEMMA ServerStays ==
    ASSUME ServerOK, UNCHANGED vars
    PROVE  ServerOK'
  BY NextKeeps DEF ServerOK

-------------------------------------------------------------------------------
(* An assignment to one slot leaves the others.                            *)
LEMMA Frame ==
    ASSUME TasksOK, NEW t \in Tasks, NEW q, Formed(q),
           tasks' = [tasks EXCEPT ![t] = q]
    PROVE  TasksOK' /\ tasks'[t] = q /\ \A o \in Tasks \ {t} : tasks'[o] = tasks[o]
<1>1. tasks'[t] = q /\ \A o \in Tasks \ {t} : tasks'[o] = tasks[o]
  BY DEF TasksOK
<1>2. \A o \in Tasks : Formed(tasks'[o])
  BY <1>1 DEF TasksOK
<1>3. DOMAIN tasks' = Tasks /\ tasks' = [o \in Tasks |-> tasks'[o]]
  BY DEF TasksOK
<1> QED
  BY <1>1, <1>2, <1>3 DEF TasksOK

(* The fields of a record that is built one by one.                        *)
LEMMA Fields ==
    ASSUME NEW kind, NEW pc, NEW cadre, NEW request, NEW rows, NEW sealed, NEW steady,
           NEW q, q = [kind |-> kind, pc |-> pc, cadre |-> cadre, request |-> request,
                       rows |-> rows, sealed |-> sealed, steady |-> steady]
    PROVE  /\ q.kind = kind /\ q.pc = pc /\ q.cadre = cadre /\ q.request = request
           /\ q.rows = rows /\ q.sealed = sealed /\ q.steady = steady
           /\ q = [kind |-> q.kind, pc |-> q.pc, cadre |-> q.cadre,
                   request |-> q.request, rows |-> q.rows, sealed |-> q.sealed,
                   steady |-> q.steady]
  OBVIOUS

(* The empty slot.                                                         *)
LEMMA FormedIdle ==
    /\ Formed(NoTask) /\ NoTask.pc = "idle" /\ NoTask.kind = "none"
    /\ ~NoTask.steady /\ NoTask.request = None
  BY DEF Formed, NoTask, Loads

(* A task that moves on keeps its other fields.                            *)
LEMMA FormedPc ==
    ASSUME NEW q, Formed(q), NEW pc, q.request = None,
           q.kind \in {"seal", "unseal", "cadre"} =>
              pc \in {"dialog", "post", "rows", "sealed", "answer"},
           q.kind = "open" => pc \in {"list", "rows", "sealed", "answer"},
           q.kind = "export" => pc \in {"company", "cadres", "entries", "file"},
           q.kind # "none",
           NEW p, p = [q EXCEPT !.pc = pc]
    PROVE  /\ Formed(p) /\ p.pc = pc /\ p.kind = q.kind /\ p.cadre = q.cadre
           /\ p.request = None /\ p.rows = q.rows /\ p.sealed = q.sealed
           /\ p.steady = q.steady
<1>1. p = [kind |-> q.kind, pc |-> pc, cadre |-> q.cadre, request |-> q.request,
           rows |-> q.rows, sealed |-> q.sealed, steady |-> q.steady]
  BY DEF Formed
<1> QED
  BY <1>1, Fields DEF Formed, Loads

(* The POST once it is out, and the load that follows it.                  *)
WithRequest(q, r) == [q EXCEPT !.request = r]

LEMMA FormedSent ==
    ASSUME NEW q, Formed(q), q.pc = "post", NEW r \in Requests
    PROVE  /\ Formed(WithRequest(q, r)) /\ WithRequest(q, r).pc = "post"
           /\ WithRequest(q, r).kind = q.kind /\ WithRequest(q, r).request = r
           /\ WithRequest(q, r).steady = q.steady
<1> SUFFICES ASSUME NEW p, p = [q EXCEPT !.request = r]
             PROVE  /\ Formed(p) /\ p.pc = "post" /\ p.kind = q.kind /\ p.request = r
                    /\ p.steady = q.steady
  BY Zenon DEF WithRequest
<1>1. p = [kind |-> q.kind, pc |-> q.pc, cadre |-> q.cadre, request |-> r,
           rows |-> q.rows, sealed |-> q.sealed, steady |-> q.steady]
  BY DEF Formed
<1> QED
  BY <1>1, Fields DEF Formed, Loads

LEMMA FormedLoading ==
    ASSUME NEW q, Formed(q), q.kind \in Loads
    PROVE  /\ Formed(Loading(q)) /\ Loading(q).pc = "rows" /\ Loading(q).kind = q.kind
           /\ Loading(q).request = None /\ ~Loading(q).steady
<1> SUFFICES ASSUME NEW p, p = [q EXCEPT !.pc = "rows", !.request = None]
             PROVE  /\ Formed(p) /\ p.pc = "rows" /\ p.kind = q.kind
                    /\ p.request = None /\ ~p.steady
  BY Zenon DEF Loading
<1>1. p = [kind |-> q.kind, pc |-> "rows", cadre |-> q.cadre, request |-> None,
           rows |-> q.rows, sealed |-> q.sealed, steady |-> q.steady]
  BY DEF Formed
<1>2. /\ p.kind = q.kind /\ p.pc = "rows" /\ p.cadre = q.cadre /\ p.request = None
      /\ p.rows = q.rows /\ p.sealed = q.sealed /\ p.steady = q.steady
      /\ p = [kind |-> p.kind, pc |-> p.pc, cadre |-> p.cadre, request |-> p.request,
              rows |-> p.rows, sealed |-> p.sealed, steady |-> p.steady]
  BY <1>1, Fields
<1> QED
  BY <1>2 DEF Formed, Loads

(* The task once its first statement is answered.                          *)
WithRows(q, rows) ==
    [q EXCEPT !.pc = "sealed", !.rows = rows]

(* ... keeps its kind.                                                     *)
LEMMA FormedRows ==
    ASSUME NEW q, Formed(q), q.pc = "rows", NEW rows
    PROVE  /\ Formed(WithRows(q, rows)) /\ WithRows(q, rows).pc = "sealed"
           /\ WithRows(q, rows).kind = q.kind /\ WithRows(q, rows).rows = rows
           /\ WithRows(q, rows).request = None
<1> SUFFICES ASSUME NEW p, p = [q EXCEPT !.pc = "sealed", !.rows = rows]
             PROVE  /\ Formed(p) /\ p.pc = "sealed" /\ p.kind = q.kind
                    /\ p.rows = rows /\ p.request = None
  BY Zenon DEF WithRows
<1>1. p = [kind |-> q.kind, pc |-> "sealed", cadre |-> q.cadre, request |-> q.request,
           rows |-> rows, sealed |-> q.sealed, steady |-> q.steady]
  BY DEF Formed
<1>2. /\ p.kind = q.kind /\ p.pc = "sealed" /\ p.cadre = q.cadre /\ p.request = q.request
      /\ p.rows = rows /\ p.sealed = q.sealed /\ p.steady = q.steady
      /\ p = [kind |-> p.kind, pc |-> p.pc, cadre |-> p.cadre, request |-> p.request,
              rows |-> p.rows, sealed |-> p.sealed, steady |-> p.steady]
  BY <1>1, Fields
<1> QED
  BY <1>2 DEF Formed, Loads

(* The task once its second statement is answered.                         *)
WithSealed(q, sealed) ==
    [q EXCEPT !.pc = "answer", !.sealed = sealed]

(* ... keeps what the first one read.                                      *)
LEMMA FormedSealed ==
    ASSUME NEW q, Formed(q), q.pc = "sealed", NEW sealed \in BOOLEAN
    PROVE  /\ Formed(WithSealed(q, sealed)) /\ WithSealed(q, sealed).pc = "answer"
           /\ WithSealed(q, sealed).kind = q.kind
           /\ WithSealed(q, sealed).rows = q.rows
           /\ WithSealed(q, sealed).request = None
<1> SUFFICES ASSUME NEW p, p = [q EXCEPT !.pc = "answer", !.sealed = sealed]
             PROVE  /\ Formed(p) /\ p.pc = "answer" /\ p.kind = q.kind
                    /\ p.rows = q.rows /\ p.request = None
  BY Zenon DEF WithSealed
<1>1. p = [kind |-> q.kind, pc |-> "answer", cadre |-> q.cadre, request |-> q.request,
           rows |-> q.rows, sealed |-> sealed, steady |-> q.steady]
  BY DEF Formed
<1>2. /\ p.kind = q.kind /\ p.pc = "answer" /\ p.cadre = q.cadre /\ p.request = q.request
      /\ p.rows = q.rows /\ p.sealed = sealed /\ p.steady = q.steady
      /\ p = [kind |-> p.kind, pc |-> p.pc, cadre |-> p.cadre, request |-> p.request,
              rows |-> p.rows, sealed |-> p.sealed, steady |-> p.steady]
  BY <1>1, Fields
<1> QED
  BY <1>2 DEF Formed, Loads

(* The export once its cadres, or their entries, are read.                 *)
WithSheet(q, pc, rows) ==
    [q EXCEPT !.pc = pc, !.rows = rows]

(* ... keeps its history.                                                  *)
LEMMA FormedFile ==
    ASSUME NEW q, Formed(q), q.kind = "export", NEW rows,
           NEW pc \in {"entries", "file"}
    PROVE  /\ Formed(WithSheet(q, pc, rows))
           /\ WithSheet(q, pc, rows).pc = pc
           /\ WithSheet(q, pc, rows).kind = q.kind
           /\ WithSheet(q, pc, rows).rows = rows
           /\ WithSheet(q, pc, rows).steady = q.steady
<1> SUFFICES ASSUME NEW p, p = [q EXCEPT !.pc = pc, !.rows = rows]
             PROVE  /\ Formed(p) /\ p.pc = pc /\ p.kind = q.kind
                    /\ p.rows = rows /\ p.steady = q.steady
  BY Zenon DEF WithSheet
<1>1. p = [kind |-> q.kind, pc |-> pc, cadre |-> q.cadre, request |-> q.request,
           rows |-> rows, sealed |-> q.sealed, steady |-> q.steady]
  BY DEF Formed
<1> QED
  BY <1>1, Fields DEF Formed, Loads

(* The export once its company is found.                                   *)
WithSteady(q, steady) ==
    [q EXCEPT !.pc = "cadres", !.steady = steady]

(* ... starts its history.                                                 *)
LEMMA FormedCompany ==
    ASSUME NEW q, Formed(q), q.kind = "export", NEW steady \in BOOLEAN
    PROVE  /\ Formed(WithSteady(q, steady))
           /\ WithSteady(q, steady).pc = "cadres"
           /\ WithSteady(q, steady).kind = q.kind
           /\ WithSteady(q, steady).steady = steady
<1> SUFFICES ASSUME NEW p, p = [q EXCEPT !.pc = "cadres", !.steady = steady]
             PROVE  /\ Formed(p) /\ p.pc = "cadres" /\ p.kind = q.kind
                    /\ p.steady = steady
  BY Zenon DEF WithSteady
<1>1. p = [kind |-> q.kind, pc |-> "cadres", cadre |-> q.cadre, request |-> q.request,
           rows |-> q.rows, sealed |-> q.sealed, steady |-> steady]
  BY DEF Formed
<1>2. /\ p.kind = q.kind /\ p.pc = "cadres" /\ p.cadre = q.cadre /\ p.request = q.request
      /\ p.rows = q.rows /\ p.sealed = q.sealed /\ p.steady = steady
      /\ p = [kind |-> p.kind, pc |-> p.pc, cadre |-> p.cadre, request |-> p.request,
              rows |-> p.rows, sealed |-> p.sealed, steady |-> p.steady]
  BY <1>1, Fields
<1> QED
  BY <1>2 DEF Formed, Loads

-------------------------------------------------------------------------------
(* What is watched of one task, as long as the server stays the same.      *)
LEMMA SteadyKept ==
    ASSUME SteadyOK, UNCHANGED vars, NEW t \in Tasks, NEW q, Exact(q),
           tasks'[t] = q, \A o \in Tasks \ {t} : tasks'[o] = tasks[o]
    PROVE  SteadyOK'
<1>1. SUFFICES ASSUME NEW o \in Tasks
               PROVE  Exact(tasks[o])'
  BY DEF SteadyOK
<1>2. Exact(tasks'[o])
  BY DEF SteadyOK
<1> QED
  BY <1>2 DEF Exact, vars, tables, Validated, ActiveCadres, IsActive, Exists,
     NoneChecked, WritesHere

(* ... and its POST, unless this is when it is sent.                       *)
LEMMA LinksKept ==
    ASSUME LinksOK, UNCHANGED vars, NEW t \in Tasks,
           tasks'[t].request = None,
           \A o \in Tasks \ {t} : tasks'[o] = tasks[o]
    PROVE  LinksOK'
  BY DEF LinksOK, vars

(* A button starts a task in an empty slot.                                *)
LEMMA StartFrame ==
    ASSUME TasksOK, NEW t \in Tasks, NEW kind, NEW cadre, NEW pc,
           StartTask(t, kind, cadre, pc),
           kind \in Loads \cup {"export"},
           kind = "open" => pc = "list",
           kind \in {"seal", "unseal", "cadre"} => pc = "dialog",
           kind = "cadre" => cadre \in UserIds,
           kind = "export" => pc = "company"
    PROVE  /\ TasksOK'
           /\ tasks[t].kind = "none" /\ tasks[t].pc = "idle"
           /\ tasks'[t].kind = kind /\ tasks'[t].pc = pc
           /\ \A o \in Tasks \ {t} : tasks'[o] = tasks[o]
           /\ SteadyOK /\ UNCHANGED vars => SteadyOK'
           /\ LinksOK /\ UNCHANGED vars => LinksOK'
<1>1. tasks[t].pc = "idle"
  BY DEF StartTask, TaskAt
<1> SUFFICES ASSUME NEW i, Formed(i), ~i.steady, i.request = None,
                    NEW q, q = [i EXCEPT !.kind = kind, !.cadre = cadre, !.pc = pc],
                    tasks' = [tasks EXCEPT ![t] = q]
             PROVE  /\ TasksOK'
                    /\ tasks[t].kind = "none" /\ tasks[t].pc = "idle"
                    /\ tasks'[t].kind = kind /\ tasks'[t].pc = pc
                    /\ \A o \in Tasks \ {t} : tasks'[o] = tasks[o]
                    /\ SteadyOK /\ UNCHANGED vars => SteadyOK'
                    /\ LinksOK /\ UNCHANGED vars => LinksOK'
  BY FormedIdle, Zenon DEF StartTask
<1>2. /\ Formed(q) /\ q.kind = kind /\ q.pc = pc /\ q.steady = i.steady
      /\ q.request = None
  <2>1. q = [kind |-> kind, pc |-> pc, cadre |-> cadre, request |-> i.request,
             rows |-> i.rows, sealed |-> i.sealed, steady |-> i.steady]
    BY DEF Formed
  <2> QED
    BY <2>1, Fields DEF Formed, Loads
<1>3. TasksOK' /\ tasks'[t] = q /\ \A o \in Tasks \ {t} : tasks'[o] = tasks[o]
  BY <1>2, Frame
<1>4. tasks[t].kind = "none"
  BY <1>1 DEF TasksOK, Formed, Loads
<1>5. ASSUME SteadyOK, UNCHANGED vars PROVE SteadyOK'
  BY <1>2, <1>3, <1>5, SteadyKept DEF Exact
<1>6. ASSUME LinksOK, UNCHANGED vars PROVE LinksOK'
  BY <1>2, <1>3, <1>6, LinksKept
<1> QED
  BY <1>1, <1>2, <1>3, <1>4, <1>5, <1>6

(* The button is enabled only while no task of its own is there.           *)
LEMMA ClickCompanyKeeps ==
    ASSUME IInv, NEW t \in Tasks, ClickCompany(t)
    PROVE  IInv'
<1> DEFINE kind == IF data.sealed THEN "unseal" ELSE "seal"
<1>1. kind \in {"seal", "unseal"}
  OBVIOUS
<1>2. StartTask(t, kind, None, "dialog")
  BY DEF ClickCompany
<1> HIDE DEF kind
<1>3. UNCHANGED <<vars, screen, outdated>> /\ ~DialogOpen /\ ~busy
  BY DEF ClickCompany
<1>4. /\ TasksOK'
      /\ tasks[t].kind = "none" /\ tasks[t].pc = "idle"
      /\ tasks'[t].kind = kind /\ tasks'[t].pc = "dialog"
      /\ \A o \in Tasks \ {t} : tasks'[o] = tasks[o]
      /\ SteadyOK' /\ LinksOK'
  BY <1>1, <1>2, <1>3, StartFrame DEF IInv, DeskOK, Loads
<1>5. ~Working(t) /\ \A o \in Tasks : Working(o)' <=> Working(o)
  BY <1>1, <1>4 DEF Working, TaskAt
<1>6. ButtonsOK'
  <2>1. OneDialog'
    BY <1>3, <1>4 DEF OneDialog, DialogOpen, TaskAt
  <2>2. \A o \in Tasks : ~Sealing(tasks[o])
    BY <1>3 DEF IInv, DeskOK, TasksOK, Formed, ButtonsOK, Sealing, Working, DialogOpen, TaskAt
  <2>3. OneSealing'
    BY <1>4, <2>2 DEF OneSealing, Sealing
  <2>4. OneExport'
    BY <1>1, <1>4 DEF OneExport, IInv, DeskOK, ButtonsOK
  <2>5. busy' <=> \E o \in Tasks : (tasks'[o].kind \in {"seal", "unseal"} /\ Working(o)')
    BY <1>3, <1>4, <1>5 DEF IInv, DeskOK, ButtonsOK, screen
  <2>6. exporting' <=> \E o \in Tasks : tasks'[o].kind = "export"
    BY <1>1, <1>3, <1>4 DEF IInv, DeskOK, ButtonsOK, screen
  <2> QED
    BY <1>3, <2>1, <2>3, <2>4, <2>5, <2>6 DEF IInv, DeskOK, ButtonsOK, screen
<1>7. DataOK' /\ ReadOK'
  BY <1>3, <1>4 DEF IInv, DeskOK, DataOK, ReadOK, screen
<1>8. FiguresAreNew'
  BY <1>3, <1>5 DEF IInv, DeskOK, FiguresAreNew, Panel, screen
<1>9. ServerOK'
  BY <1>3, ServerStays DEF IInv
<1> QED
  BY <1>4, <1>6, <1>7, <1>8, <1>9 DEF IInv, DeskOK

(* When nothing else is on its way, only the figures on screen fall behind. *)
LEMMA BurstReads ==
    ASSUME DeskOK, NEW t \in Tasks, Burst(t), tasks[t].pc \notin {"sealed", "answer"},
           tasks'[t].pc \notin {"sealed", "answer"},
           \A o \in Tasks \ {t} : tasks'[o] = tasks[o]
    PROVE  ReadOK'
<1>1. Alone(t) => Behind = {Board}
  <2> SUFFICES ASSUME Alone(t), NEW o \in Tasks, tasks[o].pc \in {"sealed", "answer"}
               PROVE  FALSE
    BY DEF Behind
  <2>1. ~Working(o)
    BY DEF Alone
  <2> QED
    BY <2>1 DEF Working, TaskAt, DeskOK, TasksOK, Formed, Loads
<1>2. outdated' \subseteq outdated \cup {Board}
  BY <1>1 DEF Burst
<1>3. Board \notin Tasks
  BY ScreenAssumption DEF Board, Tasks
<1> QED
  BY <1>2, <1>3 DEF DeskOK, ReadOK

(* The button goes disabled with the POST; with nobody else at work the    *)
(* figures have to be newer than now.                                      *)
LEMMA ConfirmKeeps ==
    ASSUME IInv, NEW t \in Tasks, Confirm(t)
    PROVE  IInv'
<1> DEFINE q == [tasks[t] EXCEPT !.pc = "post"]
<1>1. /\ Formed(tasks[t]) /\ tasks[t].pc = "dialog"
      /\ tasks[t].kind \in {"seal", "unseal", "cadre"}
      /\ tasks[t].kind = "cadre" => tasks[t].cadre \in UserIds
  BY DEF Confirm, IInv, DeskOK, TasksOK, Formed, TaskAt, Loads
<1>2. tasks' = [tasks EXCEPT ![t] = q]
  BY DEF Confirm, Advance
<1>3. /\ Formed(q) /\ q.kind = tasks[t].kind /\ q.pc = "post" /\ q.request = None
      /\ q.steady = tasks[t].steady
  <2>1. tasks[t].request = None
    BY <1>1 DEF Formed
  <2> QED
    BY <1>1, <2>1, FormedPc
<1> HIDE DEF q
<1>4. TasksOK' /\ tasks'[t] = q /\ \A o \in Tasks \ {t} : tasks'[o] = tasks[o]
  BY <1>2, <1>3, Frame DEF IInv, DeskOK
<1>5. UNCHANGED vars /\ UNCHANGED <<err, exporting>>
  BY DEF Confirm
<1>6. SteadyOK'
  <2>1. ~q.steady
    BY <1>1, <1>3 DEF Formed
  <2> QED
    BY <1>4, <1>5, <2>1, SteadyKept DEF IInv, Exact
<1>7. ButtonsOK'
  <2>1. OneDialog'
    BY <1>3, <1>4 DEF OneDialog, TaskAt, IInv, DeskOK, ButtonsOK
  <2>2. OneSealing'
    BY <1>3, <1>4 DEF OneSealing, Sealing, IInv, DeskOK, ButtonsOK
  <2>3. OneExport'
    BY <1>3, <1>4 DEF OneExport, IInv, DeskOK, ButtonsOK
  <2>4. Working(t)' /\ ~Working(t) /\ \A o \in Tasks \ {t} : Working(o)' <=> Working(o)
    BY <1>1, <1>3, <1>4 DEF Working, TaskAt
  <2>5. busy' <=> \E o \in Tasks : (tasks'[o].kind \in {"seal", "unseal"} /\ Working(o)')
    <3>1. CASE tasks[t].kind = "cadre"
      <4>1. busy' = busy
        BY <3>1 DEF Confirm
      <4> QED
        BY <1>3, <1>4, <2>4, <3>1, <4>1 DEF IInv, DeskOK, ButtonsOK
    <3>2. CASE tasks[t].kind # "cadre"
      <4>1. busy' = TRUE
        BY <3>2 DEF Confirm
      <4> QED
        BY <1>1, <1>3, <1>4, <2>4, <3>2, <4>1
    <3> QED
      BY <3>1, <3>2
  <2>6. exporting' <=> \E o \in Tasks : tasks'[o].kind = "export"
    BY <1>3, <1>4, <1>5 DEF IInv, DeskOK, ButtonsOK
  <2>7. busy' \in BOOLEAN /\ reopening' \in UserIds \cup {None}
    BY <1>1 DEF Confirm, IInv, DeskOK, ButtonsOK
  <2> QED
    BY <1>5, <2>1, <2>2, <2>3, <2>5, <2>6, <2>7 DEF IInv, DeskOK, ButtonsOK
<1>8. Burst(t) /\ UNCHANGED <<data, err>>
  BY DEF Confirm
<1>9. DataOK'
  BY <1>8 DEF IInv, DeskOK, DataOK
<1>10. ReadOK'
  BY <1>1, <1>3, <1>4, <1>8, BurstReads DEF IInv
<1>11. FiguresAreNew'
  BY <1>1, <1>3, <1>4 DEF FiguresAreNew, TaskAt, Working
<1>12. ServerOK'
  BY <1>5, ServerStays DEF IInv
<1>13. LinksOK'
  BY <1>3, <1>4, <1>5, LinksKept DEF IInv
<1> QED
  BY <1>4, <1>6, <1>7, <1>9, <1>10, <1>11, <1>12, <1>13 DEF IInv, DeskOK

-------------------------------------------------------------------------------
(* A task that goes on with what it is doing.                              *)
LEMMA GoesOn ==
    ASSUME IInv, NEW t \in Tasks, TasksOK',
           tasks'[t].kind = tasks[t].kind, tasks'[t].pc # "dialog",
           Working(t)' <=> Working(t),
           \A o \in Tasks \ {t} : tasks'[o] = tasks[o],
           UNCHANGED <<busy, exporting, reopening>>, err' \in BOOLEAN
    PROVE  ButtonsOK'
<1>1. OneDialog'
  BY DEF OneDialog, TaskAt, IInv, DeskOK, ButtonsOK
<1>2. OneSealing'
  BY DEF OneSealing, Sealing, IInv, DeskOK, ButtonsOK
<1>3. OneExport'
  BY DEF OneExport, IInv, DeskOK, ButtonsOK
<1>4. \A o \in Tasks : Working(o)' <=> Working(o)
  BY DEF Working, TaskAt
<1>5. busy' <=> \E o \in Tasks : (tasks'[o].kind \in {"seal", "unseal"} /\ Working(o)')
  BY <1>4 DEF IInv, DeskOK, ButtonsOK
<1>6. exporting' <=> \E o \in Tasks : tasks'[o].kind = "export"
  BY DEF IInv, DeskOK, ButtonsOK
<1> QED
  BY <1>1, <1>2, <1>3, <1>5, <1>6 DEF IInv, DeskOK, ButtonsOK

(* ... a load that goes on: nothing is quiet before it ends.               *)
LEMMA LoadGoesOn ==
    ASSUME IInv, NEW t \in Tasks, NEW q, Formed(q),
           tasks' = [tasks EXCEPT ![t] = q],
           q.kind = tasks[t].kind, q.kind \in Loads,
           q.pc \in {"rows", "sealed", "answer"}, q.request = None, Working(t),
           q.pc # "rows" => DOMAIN q.rows \subseteq UserIds /\ t \notin outdated',
           UNCHANGED <<vars, data, busy, exporting, reopening>>,
           outdated' \in {outdated, outdated \ {t}},
           err' \in BOOLEAN
    PROVE  IInv'
<1>1. TasksOK' /\ tasks'[t] = q /\ \A o \in Tasks \ {t} : tasks'[o] = tasks[o]
  BY Frame DEF IInv, DeskOK
<1>2. SteadyOK'
  BY <1>1, SteadyKept DEF IInv, Exact, Formed, Loads
<1>3. Working(t)'
  BY <1>1 DEF Working, TaskAt, Loads
<1>4. ButtonsOK'
  BY <1>1, <1>3, GoesOn
<1>5. DataOK' /\ ReadOK'
  BY <1>1 DEF IInv, DeskOK, DataOK, ReadOK
<1>6. FiguresAreNew'
  BY <1>3 DEF FiguresAreNew
<1>7. ServerOK'
  BY ServerStays DEF IInv
<1>8. LinksOK'
  BY <1>1, LinksKept DEF IInv
<1> QED
  BY <1>1, <1>2, <1>4, <1>5, <1>6, <1>7, <1>8 DEF IInv, DeskOK

(* ... an export that goes on.                                             *)
LEMMA ExportGoesOn ==
    ASSUME IInv, NEW t \in Tasks, NEW q, Formed(q), Exact(q),
           tasks' = [tasks EXCEPT ![t] = q],
           tasks[t].kind = "export", q.kind = "export",
           UNCHANGED <<vars, screen, outdated>>
    PROVE  IInv'
<1>1. TasksOK' /\ tasks'[t] = q /\ \A o \in Tasks \ {t} : tasks'[o] = tasks[o]
  BY Frame DEF IInv, DeskOK
<1>2. SteadyOK'
  BY <1>1, SteadyKept DEF IInv
<1>3. ~Working(t) /\ ~Working(t)' /\ q.pc \in {"company", "cadres", "entries", "file"}
  BY <1>1 DEF Working, Formed
<1>4. ButtonsOK'
  BY <1>1, <1>3, GoesOn DEF IInv, DeskOK, ButtonsOK, screen
<1>5. DataOK' /\ ReadOK'
  BY <1>1, <1>3 DEF IInv, DeskOK, DataOK, ReadOK, screen
<1>6. \A o \in Tasks : Working(o)' <=> Working(o)
  BY <1>1, <1>3 DEF Working, TaskAt
<1>7. FiguresAreNew'
  BY <1>6 DEF IInv, DeskOK, FiguresAreNew, Panel, screen
<1>8. ServerOK'
  BY ServerStays DEF IInv
<1>9. LinksOK'
  <2>1. tasks'[t].request = None
    BY <1>1, <1>3 DEF Formed
  <2> QED
    BY <1>1, <2>1, LinksKept DEF IInv
<1> QED
  BY <1>1, <1>2, <1>4, <1>5, <1>7, <1>8, <1>9 DEF IInv, DeskOK

(* A POST refused is followed by a load all the same.                      *)
LEMMA RefusedKeeps ==
    ASSUME IInv, NEW t \in Tasks, Refused(t)
    PROVE  IInv'
<1> DEFINE q == Loading(tasks[t])
<1>1. /\ Formed(tasks[t]) /\ tasks[t].pc = "post"
      /\ tasks[t].kind \in {"seal", "unseal", "cadre"}
  BY DEF Refused, IInv, DeskOK, TasksOK, Formed, TaskAt, Loads
<1>2. tasks' = [tasks EXCEPT ![t] = q]
  BY DEF Refused
<1>3. Formed(q) /\ q.kind = tasks[t].kind /\ q.pc = "rows" /\ q.request = None
  BY <1>1, FormedLoading DEF Loads
<1> HIDE DEF q
<1> QED
  BY <1>1, <1>2, <1>3, LoadGoesOn DEF Refused, Working, TaskAt, Loads

(* The first statement reads the changes made so far.                      *)
LEMMA ReadRowsKeeps ==
    ASSUME IInv, NEW t \in Tasks, ReadRows(t)
    PROVE  IInv'
<1> DEFINE q == WithRows(tasks[t], CadreRows(Shown, Month))
<1>1. /\ Formed(tasks[t]) /\ tasks[t].pc = "rows" /\ tasks[t].kind \in Loads
  BY DEF ReadRows, IInv, DeskOK, TasksOK, Formed, TaskAt, Loads
<1>2. tasks' = [tasks EXCEPT ![t] = q]
  BY DEF ReadRows, IInv, DeskOK, TasksOK, WithRows
<1>3. /\ Formed(q) /\ q.kind = tasks[t].kind /\ q.pc = "sealed"
      /\ q.rows = CadreRows(Shown, Month) /\ q.request = None
  BY <1>1, FormedRows
<1> HIDE DEF q
<1>4. DOMAIN CadreRows(Shown, Month) \subseteq UserIds
  BY DEF CadreRows, ActiveCadres
<1>5. outdated' = outdated \ {t}
  BY DEF ReadRows
<1>6. Working(t)
  BY <1>1 DEF Working, TaskAt, Loads
<1> QED
  BY <1>1, <1>2, <1>3, <1>4, <1>5, <1>6, LoadGoesOn
  DEF ReadRows, screen, IInv, DeskOK, ButtonsOK

(* The second adds the validation of the company.                          *)
LEMMA ReadSealedKeeps ==
    ASSUME IInv, NEW t \in Tasks, ReadSealed(t)
    PROVE  IInv'
<1> DEFINE q == WithSealed(tasks[t], Validated(Shown, Month))
<1>1. /\ Formed(tasks[t]) /\ tasks[t].pc = "sealed" /\ tasks[t].kind \in Loads
  BY DEF ReadSealed, IInv, DeskOK, TasksOK, Formed, TaskAt, Loads
<1>2. tasks' = [tasks EXCEPT ![t] = q]
  BY DEF ReadSealed, IInv, DeskOK, TasksOK, WithSealed
<1>3. /\ Formed(q) /\ q.kind = tasks[t].kind /\ q.pc = "answer"
      /\ q.rows = tasks[t].rows /\ q.request = None
  <2>1. Validated(Shown, Month) \in BOOLEAN
    BY DEF Validated
  <2> QED
    BY <1>1, <2>1, FormedSealed
<1> HIDE DEF q
<1>4. DOMAIN q.rows \subseteq UserIds /\ t \notin outdated
  BY <1>1, <1>3 DEF IInv, DeskOK, ReadOK
<1>5. Working(t)
  BY <1>1 DEF Working, TaskAt, Loads
<1> QED
  BY <1>1, <1>2, <1>3, <1>4, <1>5, LoadGoesOn
  DEF ReadSealed, screen, IInv, DeskOK, ButtonsOK

-------------------------------------------------------------------------------
(* A task that ends, with the button that started it.                      *)
LEMMA TaskEnds ==
    ASSUME IInv, NEW t \in Tasks, tasks' = [tasks EXCEPT ![t] = NoTask],
           busy' = IF Sealing(tasks[t]) /\ Working(t) THEN FALSE ELSE busy,
           exporting' = IF tasks[t].kind = "export" THEN FALSE ELSE exporting,
           reopening' \in {reopening, None}, err' \in BOOLEAN,
           UNCHANGED vars
    PROVE  /\ TasksOK' /\ ButtonsOK' /\ SteadyOK' /\ ServerOK' /\ LinksOK'
           /\ tasks'[t] = NoTask /\ \A o \in Tasks \ {t} : tasks'[o] = tasks[o]
           /\ ~Working(t)' /\ \A o \in Tasks \ {t} : Working(o)' <=> Working(o)
<1>1. TasksOK' /\ tasks'[t] = NoTask /\ \A o \in Tasks \ {t} : tasks'[o] = tasks[o]
  BY FormedIdle, Frame DEF IInv, DeskOK
<1>2. SteadyOK'
  BY <1>1, FormedIdle, SteadyKept DEF IInv, Exact
<1>3. tasks'[t].kind = "none" /\ tasks'[t].pc = "idle"
  BY <1>1, FormedIdle
<1>4. ~Working(t)' /\ \A o \in Tasks \ {t} : Working(o)' <=> Working(o)
  BY <1>1, <1>3 DEF Working, TaskAt
<1>5. ButtonsOK'
  <2>1. OneDialog'
    BY <1>1, <1>3 DEF OneDialog, TaskAt, IInv, DeskOK, ButtonsOK
  <2>2. OneSealing'
    BY <1>1, <1>3 DEF OneSealing, Sealing, IInv, DeskOK, ButtonsOK
  <2>3. OneExport'
    BY <1>1, <1>3 DEF OneExport, IInv, DeskOK, ButtonsOK
  <2>4. busy' <=> \E o \in Tasks : (tasks'[o].kind \in {"seal", "unseal"} /\ Working(o)')
    <3>1. CASE Sealing(tasks[t]) /\ Working(t)
      <4>1. \A o \in Tasks \ {t} : tasks[o].kind \notin {"seal", "unseal"}
        BY <3>1 DEF IInv, DeskOK, ButtonsOK, OneSealing, Sealing
      <4> QED
        BY <1>1, <1>3, <1>4, <3>1, <4>1
    <3>2. CASE ~(Sealing(tasks[t]) /\ Working(t))
      BY <1>1, <1>3, <1>4, <3>2 DEF IInv, DeskOK, ButtonsOK, Sealing
    <3> QED
      BY <3>1, <3>2
  <2>5. exporting' <=> \E o \in Tasks : tasks'[o].kind = "export"
    <3>1. CASE tasks[t].kind = "export"
      <4>1. \A o \in Tasks \ {t} : tasks[o].kind # "export"
        BY <3>1 DEF IInv, DeskOK, ButtonsOK, OneExport
      <4> QED
        BY <1>1, <1>3, <3>1, <4>1
    <3>2. CASE tasks[t].kind # "export"
      BY <1>1, <1>3, <3>2 DEF IInv, DeskOK, ButtonsOK
    <3> QED
      BY <3>1, <3>2
  <2>6. busy' \in BOOLEAN /\ exporting' \in BOOLEAN
    BY DEF IInv, DeskOK, ButtonsOK
  <2>7. reopening' \in UserIds \cup {None}
    BY DEF IInv, DeskOK, ButtonsOK
  <2> QED
    BY <2>1, <2>2, <2>3, <2>4, <2>5, <2>6, <2>7 DEF ButtonsOK
<1>6. ServerOK'
  BY ServerStays DEF IInv
<1>7. LinksOK'
  BY <1>1, FormedIdle, LinksKept DEF IInv
<1> QED
  BY <1>1, <1>2, <1>4, <1>5, <1>6, <1>7

(* A dialog declined had started nothing.                                  *)
LEMMA DeclineKeeps ==
    ASSUME IInv, NEW t \in Tasks, Decline(t)
    PROVE  IInv'
<1>1. ~Working(t) /\ tasks[t].kind # "export"
  BY DEF Decline, Working, TaskAt, IInv, DeskOK, TasksOK, Formed
<1>2. /\ TasksOK' /\ ButtonsOK' /\ SteadyOK' /\ ServerOK' /\ LinksOK'
      /\ tasks'[t] = NoTask /\ \A o \in Tasks \ {t} : tasks'[o] = tasks[o]
      /\ ~Working(t)' /\ \A o \in Tasks \ {t} : Working(o)' <=> Working(o)
  BY <1>1, TaskEnds DEF Decline, screen, IInv, DeskOK, ButtonsOK
<1>3. DataOK'
  BY DEF Decline, screen, IInv, DeskOK, DataOK
<1>4. ReadOK'
  BY <1>2, FormedIdle DEF Decline, IInv, DeskOK, ReadOK
<1>5. FiguresAreNew'
  BY <1>1, <1>2 DEF Decline, screen, IInv, DeskOK, FiguresAreNew, Panel
<1> QED
  BY <1>2, <1>3, <1>4, <1>5 DEF IInv, DeskOK

(* The one export is over: the button comes back.                          *)
LEMMA ExportEndsKeeps ==
    ASSUME IInv, NEW t \in Tasks, ExportEnds(t)
    PROVE  IInv'
<1>1. ~Working(t) /\ tasks[t].kind = "export" /\ ~Sealing(tasks[t])
  BY DEF ExportEnds, Working, Sealing
<1>2. /\ TasksOK' /\ ButtonsOK' /\ SteadyOK' /\ ServerOK' /\ LinksOK'
      /\ tasks'[t] = NoTask /\ \A o \in Tasks \ {t} : tasks'[o] = tasks[o]
      /\ ~Working(t)' /\ \A o \in Tasks \ {t} : Working(o)' <=> Working(o)
  BY <1>1, TaskEnds DEF ExportEnds, IInv, DeskOK, ButtonsOK
<1>3. DataOK'
  BY DEF ExportEnds, IInv, DeskOK, DataOK
<1>4. ReadOK'
  BY <1>2, FormedIdle DEF ExportEnds, IInv, DeskOK, ReadOK
<1>5. FiguresAreNew'
  BY <1>1, <1>2 DEF ExportEnds, IInv, DeskOK, FiguresAreNew, Panel
<1> QED
  BY <1>2, <1>3, <1>4, <1>5 DEF IInv, DeskOK

(* An error hides the figures: nothing is claimed of them.                 *)
LEMMA LoadFailsKeeps ==
    ASSUME IInv, NEW t \in Tasks, LoadFails(t)
    PROVE  IInv'
<1>1. /\ Working(t) /\ tasks[t].kind \in Loads
      /\ tasks[t].kind \in {"seal", "unseal"} <=> Sealing(tasks[t])
  BY DEF LoadFails, LoadIsOut, Working, TaskAt, IInv, DeskOK, TasksOK, Formed, Loads, Sealing
<1>2. /\ TasksOK' /\ ButtonsOK' /\ SteadyOK' /\ ServerOK' /\ LinksOK'
      /\ tasks'[t] = NoTask /\ \A o \in Tasks \ {t} : tasks'[o] = tasks[o]
      /\ ~Working(t)' /\ \A o \in Tasks \ {t} : Working(o)' <=> Working(o)
  BY <1>1, TaskEnds DEF LoadFails, Finish, Loads
<1>3. DataOK'
  BY DEF LoadFails, IInv, DeskOK, DataOK
<1>4. ReadOK'
  BY <1>2, FormedIdle DEF LoadFails, IInv, DeskOK, ReadOK
<1>5. FiguresAreNew'
  BY DEF LoadFails, FiguresAreNew, Panel
<1> QED
  BY <1>2, <1>3, <1>4, <1>5 DEF IInv, DeskOK

(* What a load brings to the screen was read late enough.                  *)
LEMMA AnsweredKeeps ==
    ASSUME IInv, NEW t \in Tasks, Answered(t)
    PROVE  IInv'
<1>1. /\ Working(t) /\ tasks[t].kind \in Loads /\ tasks[t].pc = "answer"
      /\ tasks[t].kind \in {"seal", "unseal"} <=> Sealing(tasks[t])
      /\ tasks[t].sealed \in BOOLEAN
  BY DEF Answered, Working, TaskAt, IInv, DeskOK, TasksOK, Formed, Loads, Sealing
<1>2. /\ TasksOK' /\ ButtonsOK' /\ SteadyOK' /\ ServerOK' /\ LinksOK'
      /\ tasks'[t] = NoTask /\ \A o \in Tasks \ {t} : tasks'[o] = tasks[o]
      /\ ~Working(t)' /\ \A o \in Tasks \ {t} : Working(o)' <=> Working(o)
  BY <1>1, TaskEnds DEF Answered, Finish, Loads, IInv, DeskOK, ButtonsOK
<1>3. DOMAIN tasks[t].rows \subseteq UserIds /\ t \notin outdated
  BY <1>1 DEF IInv, DeskOK, ReadOK
<1>4. /\ data'.rows = tasks[t].rows /\ data'.sealed = tasks[t].sealed
      /\ outdated' = outdated \ {Board}
  BY <1>3 DEF Answered, Figures
<1>5. DataOK'
  BY <1>1, <1>3, <1>4 DEF Answered, IInv, DeskOK, DataOK
<1>6. ReadOK'
  BY <1>2, <1>4, FormedIdle DEF IInv, DeskOK, ReadOK
<1>7. FiguresAreNew'
  BY <1>4 DEF FiguresAreNew
<1> QED
  BY <1>2, <1>5, <1>6, <1>7 DEF IInv, DeskOK

(* A company that is gone takes its figures along.                         *)
LEMMA ReadListKeeps ==
    ASSUME IInv, NEW t \in Tasks, ReadList(t)
    PROVE  IInv'
<1>1. /\ Formed(tasks[t]) /\ tasks[t].pc = "list" /\ tasks[t].kind = "open"
  BY DEF ReadList, IInv, DeskOK, TasksOK, Formed, TaskAt, Loads
<1>2. CASE Shown \in companies
  <2> DEFINE q == Loading(tasks[t])
  <2>1. tasks' = [tasks EXCEPT ![t] = q]
    BY <1>2 DEF ReadList
  <2>2. Formed(q) /\ q.kind = tasks[t].kind /\ q.pc = "rows" /\ q.request = None
    BY <1>1, FormedLoading DEF Loads
  <2> HIDE DEF q
  <2> QED
    BY <1>1, <1>2, <2>1, <2>2, LoadGoesOn DEF ReadList, Working, TaskAt, Loads
<1>3. CASE Shown \notin companies
  <2>1. tasks' = [tasks EXCEPT ![t] = NoTask] /\ ~Sealing(tasks[t])
    BY <1>1, <1>3 DEF ReadList, Sealing
  <2>2. UNCHANGED <<vars, err, busy, exporting, reopening, outdated>> /\ data' = None
    BY <1>3 DEF ReadList
  <2>3. /\ TasksOK' /\ ButtonsOK' /\ SteadyOK' /\ ServerOK' /\ LinksOK'
        /\ tasks'[t] = NoTask /\ \A o \in Tasks \ {t} : tasks'[o] = tasks[o]
    BY <1>1, <2>1, <2>2, TaskEnds DEF IInv, DeskOK, ButtonsOK
  <2>4. DataOK'
    BY <2>2 DEF IInv, DeskOK, DataOK
  <2>5. ReadOK'
    BY <2>2, <2>3, FormedIdle DEF IInv, DeskOK, ReadOK
  <2>6. FiguresAreNew'
    BY <2>2 DEF FiguresAreNew, Panel
  <2> QED
    BY <2>3, <2>4, <2>5, <2>6 DEF IInv, DeskOK
<1> QED
  BY <1>2, <1>3

-------------------------------------------------------------------------------
(* A statement of anybody's, seen by a task.                               *)
LEMMA FormedWatched ==
    ASSUME NEW q, Formed(q)
    PROVE  /\ Formed(Watched(q)) /\ Watched(q).kind = q.kind /\ Watched(q).pc = q.pc
           /\ Watched(q).rows = q.rows /\ Watched(q).request = q.request
           /\ Watched(q).steady => /\ q.steady /\ Validated(Shown, Month)'
                                   /\ ActiveCadres(Shown)' = ActiveCadres(Shown)
<1> DEFINE s == q.steady /\ Validated(Shown, Month)'
                         /\ ActiveCadres(Shown)' = ActiveCadres(Shown)
<1> SUFFICES ASSUME NEW p, p = [q EXCEPT !.steady = s]
             PROVE  /\ Formed(p) /\ p.kind = q.kind /\ p.pc = q.pc
                    /\ p.rows = q.rows /\ p.request = q.request
                    /\ p.steady => s
  BY Zenon DEF Watched
<1>1. s \in BOOLEAN /\ (s => q.steady)
  OBVIOUS
<1> HIDE DEF s
<1>2. p = [kind |-> q.kind, pc |-> q.pc, cadre |-> q.cadre, request |-> q.request,
           rows |-> q.rows, sealed |-> q.sealed, steady |-> s]
  BY DEF Formed
<1> QED
  BY <1>1, <1>2, Fields DEF Formed

(* A task, and the export it may be, across such a step.                   *)
LEMMA WatchedKeeps ==
    ASSUME TasksOK, SteadyOK, NEW o \in Tasks, tasks'[o] = Watched(tasks[o]),
           Validated(Shown, Month) /\ NoneChecked /\ Validated(Shown, Month)'
              /\ ActiveCadres(Shown)' = ActiveCadres(Shown) =>
                 /\ NoneChecked'
                 /\ \A u \in ActiveCadres(Shown), h \in HalfDaysOf(Month) :
                       entries'[u][h] = entries[u][h]
    PROVE  /\ Formed(tasks'[o])
           /\ tasks'[o].kind = tasks[o].kind /\ tasks'[o].pc = tasks[o].pc
           /\ tasks'[o].rows = tasks[o].rows /\ tasks'[o].request = tasks[o].request
           /\ Exact(tasks[o])'
<1>1. /\ Formed(tasks'[o])
      /\ tasks'[o].kind = tasks[o].kind /\ tasks'[o].pc = tasks[o].pc
      /\ tasks'[o].rows = tasks[o].rows /\ tasks'[o].request = tasks[o].request
      /\ tasks'[o].steady => /\ tasks[o].steady /\ Validated(Shown, Month)'
                             /\ ActiveCadres(Shown)' = ActiveCadres(Shown)
  BY FormedWatched DEF TasksOK
<1>2. Exact(tasks[o])'
  <2> SUFFICES ASSUME tasks'[o].steady
               PROVE  /\ Validated(Shown, Month)' /\ NoneChecked'
                      /\ tasks'[o].pc = "entries" => tasks'[o].rows = ActiveCadres(Shown)'
                      /\ tasks'[o].pc = "file" =>
                            tasks'[o].rows = [u \in ActiveCadres(Shown)' |->
                                [h \in HalfDaysOf(Month) |-> entries'[u][h]]]
    BY DEF Exact, HalfDaysOf
  <2>1. /\ tasks[o].steady /\ Validated(Shown, Month)'
        /\ ActiveCadres(Shown)' = ActiveCadres(Shown)
    BY <1>1
  <2>2. Validated(Shown, Month) /\ NoneChecked
    BY <2>1 DEF SteadyOK, Exact
  <2>3. tasks[o].pc = "entries" => tasks'[o].rows = ActiveCadres(Shown)'
    BY <1>1, <2>1 DEF SteadyOK, Exact
  <2>4. NoneChecked' /\ \A u \in ActiveCadres(Shown), h \in HalfDaysOf(Month) :
                           entries'[u][h] = entries[u][h]
    BY <2>1, <2>2
  <2>5. ASSUME tasks[o].pc = "file"
        PROVE  tasks'[o].rows = [u \in ActiveCadres(Shown)' |->
                                   [h \in HalfDaysOf(Month) |-> entries'[u][h]]]
    <3>1. tasks[o].rows = [u \in ActiveCadres(Shown) |->
                             [h \in HalfDaysOf(Month) |-> entries[u][h]]]
      BY <2>1, <2>5 DEF SteadyOK, Exact
    <3>2. \A u \in ActiveCadres(Shown) :
             [h \in HalfDaysOf(Month) |-> entries'[u][h]]
               = [h \in HalfDaysOf(Month) |-> entries[u][h]]
      BY <2>4
    <3> QED
      BY <1>1, <2>1, <3>1, <3>2
  <2> QED
    BY <1>1, <2>1, <2>3, <2>4, <2>5
<1> QED
  BY <1>1, <1>2

(* The POST is sent: a request starts, and nothing is written yet.         *)
LEMMA SendKeeps ==
    ASSUME IInv, NEW t \in Tasks, Send(t)
    PROVE  IInv'
<1>1. PICK r \in Requests : /\ Arrive(r, Me, Asked(tasks[t]))
                            /\ tasks' = [tasks EXCEPT ![t].request = r]
  BY DEF Send
<1> DEFINE q == WithRequest(tasks[t], r)
<1>2. /\ Asked(tasks[t]) \in Jobs /\ UNCHANGED <<screen, outdated>>
      /\ tasks[t].pc = "post" /\ tasks[t].request = None
  BY DEF Send, TaskAt
<1>3. Step(r) /\ UNCHANGED tables /\ requests[r].pc = "idle" /\ requests'[r].pc # "idle"
  <2>1. FirstStatement(Asked(tasks[t])) # "idle"
    BY DEF FirstStatement
  <2>2. requests'[r].pc = FirstStatement(Asked(tasks[t]))
    BY <1>1 DEF Arrive, Goto, IInv, ServerOK, TypeOK
  <2> QED
    BY <1>1, <1>2, <2>1, <2>2, ScreenAssumption DEF Step, Arrive, At
<1>4. ServerOK'
  BY <1>3, NextKeeps DEF IInv, ServerOK, Next
<1>5. Formed(tasks[t]) /\ tasks[t].kind \in {"seal", "unseal", "cadre"}
  BY <1>2 DEF IInv, DeskOK, TasksOK, Formed, Loads
<1>6. /\ Formed(q) /\ q.pc = "post" /\ q.kind = tasks[t].kind /\ q.request = r
      /\ q.steady = tasks[t].steady
  BY <1>2, <1>5, FormedSent
<1>7. tasks' = [tasks EXCEPT ![t] = q]
  BY <1>1 DEF WithRequest, IInv, DeskOK, TasksOK
<1> HIDE DEF q
<1>8. TasksOK' /\ tasks'[t] = q /\ \A o \in Tasks \ {t} : tasks'[o] = tasks[o]
  BY <1>6, <1>7, Frame DEF IInv, DeskOK
<1>9. LinksOK'
  <2> SUFFICES ASSUME NEW o \in Tasks, tasks'[o].request # None
               PROVE  requests'[tasks'[o].request].pc # "idle"
    BY DEF LinksOK
  <2>1. CASE o = t
    BY <1>3, <1>6, <1>8, <2>1
  <2>2. CASE o # t
    <3>1. tasks'[o] = tasks[o] /\ requests[tasks[o].request].pc # "idle"
      BY <1>8, <2>2 DEF IInv, LinksOK
    <3>2. tasks[o].request \in Requests
      BY <3>1 DEF IInv, DeskOK, TasksOK, Formed
    <3>3. requests'[tasks[o].request] = requests[tasks[o].request]
      BY <1>3, <3>1, <3>2, OneActs DEF IInv, ServerOK, Acts
    <3> QED
      BY <3>1, <3>3
  <2> QED
    BY <2>1, <2>2
<1>10. SteadyOK'
  <2>1. /\ Validated(Shown, Month)' = Validated(Shown, Month)
        /\ ActiveCadres(Shown)' = ActiveCadres(Shown) /\ entries' = entries
    BY <1>3 DEF tables, Validated, ActiveCadres, IsActive, Exists
  <2>2. Validated(Shown, Month) /\ NoneChecked => NoneChecked'
    BY <1>3, <2>1, StepKeepsSealed DEF IInv, ServerOK
  <2> SUFFICES ASSUME NEW o \in Tasks
               PROVE  Exact(tasks[o])'
    BY DEF SteadyOK
  <2>3. CASE o = t
    <3>1. ~tasks'[o].steady
      BY <1>5, <1>6, <1>8, <2>3 DEF Formed
    <3> QED
      BY <3>1 DEF Exact
  <2>4. CASE o # t
    <3>1. tasks'[o] = tasks[o] /\ Exact(tasks[o])
      BY <1>8, <2>4 DEF IInv, SteadyOK
    <3> QED
      BY <2>1, <2>2, <3>1 DEF Exact
  <2> QED
    BY <2>3, <2>4
<1>11. Working(t)' /\ Working(t)
  BY <1>2, <1>5, <1>6, <1>8 DEF Working, TaskAt
<1>12. ButtonsOK'
  BY <1>2, <1>6, <1>8, <1>11, GoesOn DEF screen, IInv, DeskOK, ButtonsOK
<1>13. DataOK' /\ ReadOK'
  BY <1>2, <1>6, <1>8 DEF screen, IInv, DeskOK, DataOK, ReadOK
<1>14. FiguresAreNew'
  BY <1>11 DEF FiguresAreNew
<1> QED
  BY <1>4, <1>8, <1>9, <1>10, <1>12, <1>13, <1>14 DEF IInv, DeskOK

(* What a statement does to the tasks: it ends the POST it answers, and    *)
(* the others see the tables change.                                       *)
LEMMA ServedTasks ==
    ASSUME IInv, NEW r \in Requests, Serve(r), NEW o \in Tasks
    PROVE  /\ Formed(tasks'[o]) /\ Exact(tasks[o])' /\ tasks'[o].kind = tasks[o].kind
           /\ Ends(o, r) => /\ tasks[o].pc = "post" /\ tasks'[o].pc = "rows"
                            /\ tasks[o].kind \in Loads \ {"open"}
                            /\ tasks'[o].request = None
           /\ ~Ends(o, r) => /\ tasks'[o].pc = tasks[o].pc
                             /\ tasks'[o].rows = tasks[o].rows
                             /\ tasks'[o].request = tasks[o].request
<1>1. Formed(tasks[o]) /\ TasksOK /\ SteadyOK
  BY DEF IInv, DeskOK, TasksOK
<1>2. tasks'[o] = IF Ends(o, r) THEN Loading(tasks[o]) ELSE Watched(tasks[o])
  BY DEF Serve
<1>3. CASE Ends(o, r)
  <2>1. tasks[o].request = r /\ r # None
    BY <1>3, ScreenAssumption DEF Ends
  <2>2. tasks[o].pc = "post" /\ tasks[o].kind \in Loads \ {"open"}
    BY <1>1, <2>1 DEF Formed, Loads
  <2>3. /\ Formed(Loading(tasks[o])) /\ Loading(tasks[o]).pc = "rows"
        /\ Loading(tasks[o]).kind = tasks[o].kind
        /\ Loading(tasks[o]).request = None /\ ~Loading(tasks[o]).steady
    BY <1>1, <2>2, FormedLoading
  <2>4. tasks'[o] = Loading(tasks[o])
    BY <1>2, <1>3
  <2> HIDE DEF Loading
  <2> QED
    BY <1>3, <2>2, <2>3, <2>4 DEF Exact
<1>4. CASE ~Ends(o, r)
  <2>1. tasks'[o] = Watched(tasks[o])
    BY <1>2, <1>4
  <2>2. Validated(Shown, Month) /\ NoneChecked /\ Validated(Shown, Month)'
           /\ ActiveCadres(Shown)' = ActiveCadres(Shown) =>
              /\ NoneChecked'
              /\ \A u \in ActiveCadres(Shown), h \in HalfDaysOf(Month) :
                    entries'[u][h] = entries[u][h]
    BY StepKeepsSealed DEF Serve, IInv, ServerOK
  <2> QED
    BY <1>1, <1>4, <2>1, <2>2, WatchedKeeps
<1> QED
  BY <1>3, <1>4

(* One statement of anybody's.                                             *)
LEMMA ServeKeeps ==
    ASSUME IInv, NEW r \in Requests, Serve(r)
    PROVE  IInv'
<1>1. Step(r) /\ UNCHANGED <<data, exporting, busy, reopening>>
  BY DEF Serve
<1>2. ServerOK'
  BY <1>1, NextKeeps DEF IInv, ServerOK, Next
<1>3. TasksOK'
  BY ServedTasks DEF TasksOK, Serve
<1>4. SteadyOK'
  BY ServedTasks DEF SteadyOK
<1>5. LinksOK'
  <2> SUFFICES ASSUME NEW o \in Tasks, tasks'[o].request # None
               PROVE  requests'[tasks'[o].request].pc # "idle"
    BY DEF LinksOK
  <2>1. ~Ends(o, r) /\ tasks'[o].request = tasks[o].request
    BY ServedTasks
  <2>2. requests[tasks[o].request].pc # "idle" /\ tasks[o].request \in Requests
    BY <2>1 DEF IInv, LinksOK, DeskOK, TasksOK, Formed
  <2>3. CASE tasks[o].request = r
    BY <2>1, <2>3 DEF Ends
  <2>4. CASE tasks[o].request # r
    <3>1. requests'[tasks[o].request] = requests[tasks[o].request]
      BY <1>1, <2>2, <2>4, OneActs DEF IInv, ServerOK, Acts
    <3> QED
      BY <2>1, <2>2, <3>1
  <2> QED
    BY <2>3, <2>4
<1>6. \A o \in Tasks : /\ tasks'[o].kind = tasks[o].kind
                       /\ tasks'[o].pc = "dialog" => tasks[o].pc = "dialog"
                       /\ Working(o)' <=> Working(o)
                       /\ Ends(o, r) => Working(o)
  BY ServedTasks DEF Working, TaskAt, Loads
<1>7. err' \in BOOLEAN
  BY DEF Serve, IInv, DeskOK, ButtonsOK
<1>8. ButtonsOK'
  <2>1. OneDialog' /\ OneSealing' /\ OneExport'
    BY <1>6 DEF OneDialog, OneSealing, OneExport, Sealing, TaskAt, IInv, DeskOK, ButtonsOK
  <2>2. busy' <=> \E o \in Tasks : (tasks'[o].kind \in {"seal", "unseal"} /\ Working(o)')
    BY <1>1, <1>6 DEF IInv, DeskOK, ButtonsOK
  <2>3. exporting' <=> \E o \in Tasks : tasks'[o].kind = "export"
    BY <1>1, <1>6 DEF IInv, DeskOK, ButtonsOK
  <2> QED
    BY <1>1, <1>7, <2>1, <2>2, <2>3 DEF IInv, DeskOK, ButtonsOK
<1>9. outdated' \subseteq outdated \cup {Board}
  <2>1. CASE \E t \in Tasks : Ends(t, r) /\ Alone(t)
    <3>1. PICK t \in Tasks : Ends(t, r) /\ Alone(t)
      BY <2>1
    <3>2. outdated' = Behind
      BY <2>1 DEF Serve
    <3>3. ASSUME NEW o \in Tasks, tasks[o].pc \in {"sealed", "answer"}
          PROVE  FALSE
      <4>1. tasks[t].pc = "post"
        BY <3>1, ServedTasks
      <4>2. ~Working(o)
        BY <3>1, <3>3, <4>1 DEF Alone
      <4> QED
        BY <3>3, <4>2 DEF Working, TaskAt, IInv, DeskOK, TasksOK, Formed, Loads
    <3> QED
      BY <3>2, <3>3 DEF Behind
  <2>2. CASE ~\E t \in Tasks : Ends(t, r) /\ Alone(t)
    BY <2>2 DEF Serve
  <2> QED
    BY <2>1, <2>2
<1>10. DataOK'
  BY <1>1 DEF IInv, DeskOK, DataOK
<1>11. ReadOK'
  <2>1. Board \notin Tasks
    BY ScreenAssumption DEF Board, Tasks
  <2>2. \A o \in Tasks : tasks'[o].pc \in {"sealed", "answer"} =>
           tasks[o].pc = tasks'[o].pc /\ tasks[o].rows = tasks'[o].rows
    BY ServedTasks
  <2> QED
    BY <1>9, <2>1, <2>2 DEF IInv, DeskOK, ReadOK
<1>12. FiguresAreNew'
  <2>1. CASE \E o \in Tasks : Ends(o, r)
    BY <1>6, <2>1 DEF FiguresAreNew
  <2>2. CASE \A o \in Tasks : ~Ends(o, r)
    <3>1. outdated' = outdated /\ err' = err
      BY <2>2 DEF Serve, IInv, DeskOK, ButtonsOK
    <3> QED
      BY <1>1, <1>6, <3>1 DEF IInv, DeskOK, FiguresAreNew, Panel
  <2> QED
    BY <2>1, <2>2
<1> QED
  BY <1>2, <1>3, <1>4, <1>5, <1>8, <1>10, <1>11, <1>12 DEF IInv, DeskOK

-------------------------------------------------------------------------------
(* The other buttons.                                                      *)
LEMMA RetryKeeps ==
    ASSUME IInv, NEW t \in Tasks, Retry(t)
    PROVE  IInv'
<1>1. StartTask(t, "open", None, "list") /\ UNCHANGED <<vars, screen>>
  BY DEF Retry
<1>2. /\ TasksOK'
      /\ tasks[t].kind = "none" /\ tasks[t].pc = "idle"
      /\ tasks'[t].kind = "open" /\ tasks'[t].pc = "list"
      /\ \A o \in Tasks \ {t} : tasks'[o] = tasks[o]
      /\ SteadyOK' /\ LinksOK'
  BY <1>1, StartFrame DEF IInv, DeskOK, Loads
<1>3. Working(t)' /\ ~Working(t) /\ \A o \in Tasks \ {t} : Working(o)' <=> Working(o)
  BY <1>2 DEF Working, TaskAt
<1>4. ButtonsOK'
  <2>1. OneDialog' /\ OneSealing' /\ OneExport'
    BY <1>2 DEF OneDialog, OneSealing, OneExport, Sealing, TaskAt, IInv, DeskOK, ButtonsOK
  <2>2. UNCHANGED <<err, busy, exporting, reopening>>
    BY <1>1 DEF screen
  <2>3. busy' <=> \E o \in Tasks : (tasks'[o].kind \in {"seal", "unseal"} /\ Working(o)')
    BY <1>2, <1>3, <2>2 DEF IInv, DeskOK, ButtonsOK
  <2>4. exporting' <=> \E o \in Tasks : tasks'[o].kind = "export"
    BY <1>2, <2>2 DEF IInv, DeskOK, ButtonsOK
  <2> QED
    BY <2>1, <2>2, <2>3, <2>4 DEF IInv, DeskOK, ButtonsOK
<1>5. Burst(t) /\ UNCHANGED <<data, err>>
  BY <1>1 DEF Retry, screen
<1>6. DataOK'
  BY <1>5 DEF IInv, DeskOK, DataOK
<1>7. ReadOK'
  BY <1>2, <1>5, BurstReads DEF IInv
<1>8. FiguresAreNew'
  BY <1>3 DEF FiguresAreNew
<1>9. ServerOK'
  BY <1>1, ServerStays DEF IInv
<1> QED
  BY <1>2, <1>4, <1>6, <1>7, <1>8, <1>9 DEF IInv, DeskOK

(* Réouvrir of one cadre: several may go on at once.                       *)
LEMMA ClickCadreKeeps ==
    ASSUME IInv, NEW t \in Tasks, ClickCadre(t)
    PROVE  IInv'
<1>1. UNCHANGED <<vars, screen, outdated>> /\ ~DialogOpen
  BY DEF ClickCadre
<1>2. PICK u \in UserIds : StartTask(t, "cadre", u, "dialog")
  BY DEF ClickCadre, Panel, IInv, DeskOK, DataOK
<1>3. /\ TasksOK'
      /\ tasks[t].kind = "none" /\ tasks[t].pc = "idle"
      /\ tasks'[t].kind = "cadre" /\ tasks'[t].pc = "dialog"
      /\ \A o \in Tasks \ {t} : tasks'[o] = tasks[o]
      /\ SteadyOK' /\ LinksOK'
  BY <1>1, <1>2, StartFrame DEF IInv, DeskOK, Loads
<1>4. ~Working(t) /\ \A o \in Tasks : Working(o)' <=> Working(o)
  BY <1>3 DEF Working, TaskAt
<1>5. ButtonsOK'
  <2>1. OneDialog' /\ OneSealing' /\ OneExport'
    BY <1>1, <1>3
    DEF OneDialog, OneSealing, OneExport, Sealing, DialogOpen, TaskAt, IInv, DeskOK, ButtonsOK
  <2>2. UNCHANGED <<err, busy, exporting, reopening>>
    BY <1>1 DEF screen
  <2>3. busy' <=> \E o \in Tasks : (tasks'[o].kind \in {"seal", "unseal"} /\ Working(o)')
    BY <1>3, <1>4, <2>2 DEF IInv, DeskOK, ButtonsOK
  <2>4. exporting' <=> \E o \in Tasks : tasks'[o].kind = "export"
    BY <1>3, <2>2 DEF IInv, DeskOK, ButtonsOK
  <2> QED
    BY <2>1, <2>2, <2>3, <2>4 DEF IInv, DeskOK, ButtonsOK
<1>6. DataOK' /\ ReadOK'
  BY <1>1, <1>3 DEF IInv, DeskOK, DataOK, ReadOK, screen
<1>7. FiguresAreNew'
  BY <1>1, <1>4 DEF IInv, DeskOK, FiguresAreNew, Panel, screen
<1>8. ServerOK'
  BY <1>1, ServerStays DEF IInv
<1> QED
  BY <1>3, <1>5, <1>6, <1>7, <1>8 DEF IInv, DeskOK

(* One export at a time.                                                   *)
LEMMA ExportKeeps ==
    ASSUME IInv, NEW t \in Tasks, Export(t)
    PROVE  IInv'
<1>1. /\ StartTask(t, "export", None, "company") /\ ~exporting /\ exporting' = TRUE
      /\ UNCHANGED <<vars, data, err, busy, reopening, outdated>>
  BY DEF Export
<1>2. /\ TasksOK'
      /\ tasks[t].kind = "none" /\ tasks[t].pc = "idle"
      /\ tasks'[t].kind = "export" /\ tasks'[t].pc = "company"
      /\ \A o \in Tasks \ {t} : tasks'[o] = tasks[o]
      /\ SteadyOK' /\ LinksOK'
  BY <1>1, StartFrame DEF IInv, DeskOK, Loads
<1>3. ~Working(t) /\ \A o \in Tasks : Working(o)' <=> Working(o)
  BY <1>2 DEF Working, TaskAt
<1>4. ButtonsOK'
  <2>1. OneDialog' /\ OneSealing'
    BY <1>2 DEF OneDialog, OneSealing, Sealing, TaskAt, IInv, DeskOK, ButtonsOK
  <2>2. OneExport'
    BY <1>1, <1>2 DEF OneExport, IInv, DeskOK, ButtonsOK
  <2>3. busy' <=> \E o \in Tasks : (tasks'[o].kind \in {"seal", "unseal"} /\ Working(o)')
    BY <1>1, <1>2, <1>3 DEF IInv, DeskOK, ButtonsOK
  <2>4. exporting' <=> \E o \in Tasks : tasks'[o].kind = "export"
    BY <1>1, <1>2 DEF IInv, DeskOK, ButtonsOK
  <2> QED
    BY <1>1, <2>1, <2>2, <2>3, <2>4 DEF IInv, DeskOK, ButtonsOK
<1>5. DataOK' /\ ReadOK'
  BY <1>1, <1>2 DEF IInv, DeskOK, DataOK, ReadOK
<1>6. FiguresAreNew'
  BY <1>1, <1>3 DEF IInv, DeskOK, FiguresAreNew, Panel
<1>7. ServerOK'
  BY <1>1, ServerStays DEF IInv
<1> QED
  BY <1>2, <1>4, <1>5, <1>6, <1>7 DEF IInv, DeskOK

-------------------------------------------------------------------------------
(* The three statements of an export.                                      *)
LEMMA FindCompanyKeeps ==
    ASSUME IInv, NEW t \in Tasks, FindCompany(t)
    PROVE  IInv'
<1> DEFINE q == WithSteady(tasks[t], Validated(Shown, Month) /\ NoneChecked)
<1>1. Formed(tasks[t]) /\ tasks[t].kind = "export"
  BY DEF FindCompany, IInv, DeskOK, TasksOK, Formed, TaskAt, Loads
<1>2. tasks' = [tasks EXCEPT ![t] = q]
  BY DEF FindCompany, IInv, DeskOK, TasksOK, WithSteady
<1>3. /\ Formed(q) /\ q.kind = tasks[t].kind /\ q.pc = "cadres"
      /\ q.steady = (Validated(Shown, Month) /\ NoneChecked)
  <2>1. (Validated(Shown, Month) /\ NoneChecked) \in BOOLEAN
    OBVIOUS
  <2> QED
    BY <1>1, <2>1, FormedCompany
<1> HIDE DEF q
<1>4. Exact(q)
  BY <1>3 DEF Exact
<1> QED
  BY <1>1, <1>2, <1>3, <1>4, ExportGoesOn DEF FindCompany

(* The second: the active cadres of the company.                           *)
LEMMA ListCadresKeeps ==
    ASSUME IInv, NEW t \in Tasks, ListCadres(t)
    PROVE  IInv'
<1> DEFINE q == WithSheet(tasks[t], "entries", Listed(Shown))
<1>1. Formed(tasks[t]) /\ tasks[t].kind = "export" /\ tasks[t].pc = "cadres"
  BY DEF ListCadres, IInv, DeskOK, TasksOK, Formed, TaskAt, Loads
<1>2. tasks' = [tasks EXCEPT ![t] = q]
  BY DEF ListCadres, IInv, DeskOK, TasksOK, WithSheet
<1>3. /\ Formed(q) /\ q.kind = tasks[t].kind /\ q.pc = "entries"
      /\ q.rows = ActiveCadres(Shown) /\ q.steady = tasks[t].steady
  BY <1>1, FormedFile DEF Listed
<1> HIDE DEF q
<1>4. Exact(q)
  BY <1>1, <1>3 DEF Exact, IInv, SteadyOK
<1> QED
  BY <1>1, <1>2, <1>3, <1>4, ExportGoesOn DEF ListCadres

(* With the cadres of this very moment, the sheet is what the tables hold. *)
LEMMA SheetOfNow ==
    ASSUME NEW c, NEW m
    PROVE  Sheet(ActiveCadres(c), Found(c, m), m)
             = [u \in ActiveCadres(c) |-> [h \in HalfDaysOf(m) |-> entries[u][h]]]
<1> DEFINE P == ActiveCadres(c) \X HalfDaysOf(m)
<1>1. DOMAIN Found(c, m) = {p \in P : entries[p[1]][p[2]] # Blank}
  BY DEF Found
<1>2. \A p \in DOMAIN Found(c, m) : Found(c, m)[p] = entries[p[1]][p[2]]
  BY DEF Found
<1>3. ASSUME NEW u \in ActiveCadres(c), NEW h \in HalfDaysOf(m)
      PROVE  (IF <<u, h>> \in DOMAIN Found(c, m) THEN Found(c, m)[<<u, h>>] ELSE Blank)
               = entries[u][h]
  <2>1. <<u, h>> \in P /\ <<u, h>>[1] = u /\ <<u, h>>[2] = h
    OBVIOUS
  <2>2. <<u, h>> \in DOMAIN Found(c, m) <=> entries[u][h] # Blank
    BY <1>1, <2>1
  <2>3. <<u, h>> \in DOMAIN Found(c, m) => Found(c, m)[<<u, h>>] = entries[u][h]
    BY <1>2, <2>1
  <2> QED
    BY <2>2, <2>3
<1> QED
  BY <1>3 DEF Sheet

(* The third: their entries, joined with the cadres of the second.         *)
LEMMA FillKeeps ==
    ASSUME IInv, NEW t \in Tasks, Fill(t)
    PROVE  IInv'
<1> DEFINE q == WithSheet(tasks[t], "file",
                          Sheet(tasks[t].rows, Found(Shown, Month), Month))
<1>1. Formed(tasks[t]) /\ tasks[t].kind = "export" /\ tasks[t].pc = "entries"
  BY DEF Fill, IInv, DeskOK, TasksOK, Formed, TaskAt, Loads
<1>2. tasks' = [tasks EXCEPT ![t] = q]
  BY DEF Fill, IInv, DeskOK, TasksOK, WithSheet
<1>3. /\ Formed(q) /\ q.kind = tasks[t].kind /\ q.pc = "file"
      /\ q.rows = Sheet(tasks[t].rows, Found(Shown, Month), Month)
      /\ q.steady = tasks[t].steady
  BY <1>1, FormedFile
<1> HIDE DEF q
<1>4. Exact(q)
  <2>1. ASSUME tasks[t].steady
        PROVE  /\ Validated(Shown, Month) /\ NoneChecked
               /\ tasks[t].rows = ActiveCadres(Shown)
    BY <1>1, <2>1 DEF Exact, IInv, SteadyOK
  <2>2. ASSUME tasks[t].steady
        PROVE  q.rows = [u \in ActiveCadres(Shown) |->
                           [h \in HalfDaysOf(Month) |-> entries[u][h]]]
    BY <1>3, <2>1, <2>2, SheetOfNow
  <2> QED
    BY <1>3, <2>1, <2>2 DEF Exact
<1> QED
  BY <1>1, <1>2, <1>3, <1>4, ExportGoesOn DEF Fill

-------------------------------------------------------------------------------
(* The screen opens with one load on its way.                              *)
LEMMA InvInit == ScreenInit => IInv
<1> SUFFICES ASSUME ScreenInit PROVE IInv
  OBVIOUS
<1>1. ServerOK
  BY InitKeeps DEF ScreenInit, ServerOK
<1>2. \A t \in Tasks : tasks[t] = (IF t = 1
                                   THEN [NoTask EXCEPT !.kind = "open", !.pc = "list"]
                                   ELSE NoTask)
  BY DEF ScreenInit
<1>3. \A t \in Tasks : /\ Formed(tasks[t]) /\ ~tasks[t].steady
                       /\ tasks[t].request = None
                       /\ tasks[t].kind \in {"open", "none"}
                       /\ tasks[t].pc \in {"list", "idle"}
  <2>1. ASSUME NEW i, Formed(i), ~i.steady, i.request = None,
               NEW q, q = [i EXCEPT !.kind = "open", !.pc = "list"]
        PROVE  /\ Formed(q) /\ ~q.steady /\ q.request = None
               /\ q.kind = "open" /\ q.pc = "list"
    <3>1. q = [kind |-> "open", pc |-> "list", cadre |-> i.cadre,
               request |-> i.request, rows |-> i.rows, sealed |-> i.sealed,
               steady |-> i.steady]
      BY <2>1 DEF Formed
    <3>2. /\ q.kind = "open" /\ q.pc = "list" /\ q.cadre = i.cadre
          /\ q.request = i.request /\ q.rows = i.rows /\ q.sealed = i.sealed
          /\ q.steady = i.steady
          /\ q = [kind |-> q.kind, pc |-> q.pc, cadre |-> q.cadre, request |-> q.request,
                  rows |-> q.rows, sealed |-> q.sealed, steady |-> q.steady]
      BY <3>1, Fields
    <3> QED
      BY <2>1, <3>2 DEF Formed, Loads
  <2> DEFINE q == [NoTask EXCEPT !.kind = "open", !.pc = "list"]
  <2>2. /\ Formed(q) /\ ~q.steady /\ q.request = None
        /\ q.kind = "open" /\ q.pc = "list"
    BY <2>1, FormedIdle, Zenon
  <2> HIDE DEF q
  <2>3. \A t \in Tasks : tasks[t] = q \/ tasks[t] = NoTask
    BY <1>2 DEF q
  <2> QED
    BY <2>2, <2>3, FormedIdle
<1>4. TasksOK
  BY <1>3 DEF ScreenInit, TasksOK
<1>5. SteadyOK
  BY <1>3 DEF SteadyOK, Exact
<1>6. ButtonsOK
  BY <1>3 DEF ScreenInit, ButtonsOK, OneDialog, OneSealing, OneExport, Sealing, TaskAt
<1>7. DataOK /\ ReadOK /\ FiguresAreNew
  BY <1>3 DEF ScreenInit, DataOK, ReadOK, FiguresAreNew, Panel
<1>8. LinksOK
  BY <1>3 DEF LinksOK
<1> QED
  BY <1>1, <1>4, <1>5, <1>6, <1>7, <1>8 DEF IInv, DeskOK

(* Every step of the screen and of the others keeps the invariant.         *)
LEMMA InvKeeps == IInv /\ [ScreenNext]_screenVars => IInv'
<1> SUFFICES ASSUME IInv, [ScreenNext]_screenVars PROVE IInv'
  OBVIOUS
<1>1. CASE UNCHANGED screenVars
  <2>1. UNCHANGED <<vars, screen, tasks, outdated>>
    BY <1>1 DEF screenVars
  <2>2. ServerOK'
    BY <2>1, ServerStays DEF IInv
  <2>3. SteadyOK'
    BY <2>1 DEF IInv, SteadyOK, Exact, vars, tables, Validated, ActiveCadres, IsActive,
       Exists, NoneChecked, WritesHere
  <2>4. TasksOK' /\ DataOK' /\ ReadOK' /\ FiguresAreNew' /\ LinksOK'
    BY <2>1 DEF IInv, DeskOK, TasksOK, DataOK, ReadOK, FiguresAreNew, LinksOK, Panel,
       screen, vars, Working, TaskAt
  <2>5. ButtonsOK'
    BY <2>1 DEF IInv, DeskOK, ButtonsOK, OneDialog, OneSealing, OneExport, Sealing, TaskAt,
       Working, screen
  <2> QED
    BY <2>2, <2>3, <2>4, <2>5 DEF IInv, DeskOK
<1>2. ASSUME NEW t \in Tasks, Clicking(t) \/ Reading(t)
      PROVE  IInv'
  BY <1>2, RetryKeeps, ClickCompanyKeeps, ClickCadreKeeps, DeclineKeeps, ConfirmKeeps,
     ExportKeeps, SendKeeps, RefusedKeeps, ReadListKeeps, ReadRowsKeeps,
     ReadSealedKeeps, AnsweredKeeps, LoadFailsKeeps, FindCompanyKeeps, ListCadresKeeps,
     FillKeeps, ExportEndsKeeps
  DEF Clicking, Reading
<1>3. ASSUME NEW r \in Requests, Serve(r)
      PROVE  IInv'
  BY <1>3, ServeKeeps
<1> QED
  BY <1>1, <1>2, <1>3 DEF ScreenNext

(* The invariant holds throughout.                                         *)
LEMMA Inductive == ScreenSpec => []IInv
  BY InvInit, InvKeeps, PTL DEF ScreenSpec

(* It contains the types and the meaning of busy and exporting.            *)
LEMMA InvTyped == IInv => ScreenTypeOK
<1> SUFFICES ASSUME IInv, NEW t \in Tasks, tasks[t].request # None
             PROVE  TaskAt(t, "post") /\ ~At(tasks[t].request, "idle")
  BY DEF IInv, DeskOK, ButtonsOK, DataOK, ReadOK, ScreenTypeOK
<1> QED
  BY DEF IInv, LinksOK, DeskOK, TasksOK, Formed, TaskAt, At

(* busy and exporting are set exactly while a POST of the company or an    *)
(* export goes on, in every interleaving of tasks (Validation.svelte: each *)
(* flag is cleared by the finally block of its own task).                  *)
THEOREM TypeInvariant == ScreenSpec => []ScreenTypeOK
  BY Inductive, InvTyped, PTL

(* It contains what ValidatedFileExact says of a finished export.          *)
LEMMA InvExact == IInv => ValidatedFileExact
  BY DEF IInv, SteadyOK, Exact, ValidatedFileExact, TaskAt

(* The three statements of an export add up to one snapshot when the month *)
(* stays validated and the cadres stay the same (export/mod.rs load).      *)
THEOREM FilesOfValidatedMonths == ScreenSpec => []ValidatedFileExact
  BY Inductive, InvExact, PTL

(* Once nothing is on its way the figures are not older than the last POST *)
(* answered alone (Validation.svelte load).                                *)
THEOREM FiguresNew == ScreenSpec => []FiguresAreNew
<1>1. IInv => FiguresAreNew
  BY DEF IInv, DeskOK
<1> QED
  BY <1>1, Inductive, PTL

-------------------------------------------------------------------------------
(* Counting.                                                               *)
LEMMA Counted ==
    /\ \A S \in SUBSET UserIds : IsFiniteSet(S) /\ Cardinality(S) \in Nat
    /\ \A S \in SUBSET CompanyIds : IsFiniteSet(S)
  BY CountsAssumption, FS_Subset, FS_CardinalityType

(* The overview's join and the other screens' filter are one set.          *)
LEMMA JoinedAre ==
    ASSUME NEW c
    PROVE  Joined(c) = ActiveCadres(c) /\ Joined(c) \in SUBSET UserIds
  BY DEF Joined, ActiveCadres, IsActive

(* What one company is in the dashboard's overview.                        *)
LEMMA OverviewOf ==
    ASSUME NEW c \in companies, NEW m
    PROVE  /\ Overview(m)[c].active = Cardinality(ActiveCadres(c))
           /\ Overview(m)[c].validated =
                 Cardinality({u \in ActiveCadres(c) : locked[u][m]})
           /\ Overview(m)[c].company = Validated(c, m)
  BY JoinedAre DEF Overview

(* The difference the dashboard sums, and the two comparisons it makes,    *)
(* say who is pending.                                                     *)
LEMMA PendingCount ==
    ASSUME NEW c \in companies, NEW m, TablesTypeOK, m \in Months
    PROVE  /\ Overview(m)[c].active - Overview(m)[c].validated = Cardinality(Pending(c, m))
           /\ Overview(m)[c].validated = Overview(m)[c].active <=> Pending(c, m) = {}
           /\ Overview(m)[c].active > 0 <=> ActiveCadres(c) # {}
<1> DEFINE A == ActiveCadres(c)
           V == {u \in A : locked[u][m]}
<1>1. A \in SUBSET UserIds /\ IsFiniteSet(A) /\ Cardinality(A) \in Nat
  BY Counted DEF ActiveCadres
<1>2. V \in SUBSET A /\ IsFiniteSet(V) /\ Cardinality(V) \in Nat
  BY <1>1, Counted
<1>3. A \ V = Pending(c, m) /\ A \cap V = V
  BY DEF Pending
<1>4. Cardinality(A \ V) = Cardinality(A) - Cardinality(A \cap V)
  BY <1>1, FS_Difference
<1>5. Cardinality(Pending(c, m)) = Cardinality(A) - Cardinality(V)
  BY <1>3, <1>4
<1>6. IsFiniteSet(Pending(c, m)) /\ (Cardinality(Pending(c, m)) = 0 <=> Pending(c, m) = {})
  <2>1. Pending(c, m) \in SUBSET UserIds
    BY DEF Pending, ActiveCadres
  <2> QED
    BY <2>1, Counted, FS_EmptySet
<1>7. Cardinality(A) = 0 <=> A = {}
  BY <1>1, FS_EmptySet
<1> HIDE DEF A, V
<1>8. Overview(m)[c].active = Cardinality(A) /\ Overview(m)[c].validated = Cardinality(V)
  BY OverviewOf DEF A, V
<1>9. Cardinality(V) = Cardinality(A) <=> Cardinality(Pending(c, m)) = 0
  BY <1>1, <1>2, <1>5
<1>10. Cardinality(A) > 0 <=> A # {}
  BY <1>1, <1>7
<1> QED
  BY <1>5, <1>6, <1>8, <1>9, <1>10 DEF A

(* Three screens count one company alike.                                  *)
LEMMA CompanyAgrees ==
    ASSUME TablesTypeOK, NEW c \in companies, NEW m \in Months
    PROVE  /\ IsReady(Overview(m)[c]) <=>
                 AllValidated(CadreRows(c, m)) /\ ~Validated(c, m)
           /\ IsReady(Overview(m)[c]) => Pending(c, m) = {}
           /\ ActiveCadreCount(c) = Overview(m)[c].active
           /\ DOMAIN CadreRows(c, m) \subseteq UserList(c)
<1>1. DOMAIN CadreRows(c, m) = ActiveCadres(c)
  BY DEF CadreRows
<1>2. \A u \in ActiveCadres(c) : CadreRows(c, m)[u].validated = locked[u][m]
  BY DEF CadreRows
<1>3. AllValidated(CadreRows(c, m)) <=> ActiveCadres(c) # {} /\ Pending(c, m) = {}
  BY <1>1, <1>2 DEF AllValidated, Pending
<1>4. IsReady(Overview(m)[c]) <=>
         ~Validated(c, m) /\ ActiveCadres(c) # {} /\ Pending(c, m) = {}
  BY PendingCount, OverviewOf DEF IsReady
<1>5. {u \in UserIds : IsActive(u) /\ users[u].company = c /\ users[u].role = "cadre"}
         = ActiveCadres(c)
  BY DEF ActiveCadres
<1>6. ActiveCadreCount(c) = Overview(m)[c].active
  BY <1>5, OverviewOf DEF ActiveCadreCount
<1>7. ActiveCadres(c) \subseteq UserList(c)
  BY DEF ActiveCadres, UserList, IsActive
<1> QED
  BY <1>1, <1>3, <1>4, <1>6, <1>7

(* LateCadres on any set of companies.                                     *)
LateSum(o, S) == MapThenSumSet(LAMBDA c : o[c].active - o[c].validated, S)

(* A sum of cardinalities of disjoint sets is that of their union. The     *)
(* fold is a recursive function: the cardinalities satisfy its equation,   *)
(* and a smallest set on which another solution differed would not be one. *)
LEMMA SumOfDisjoint ==
    ASSUME NEW o, NEW S, IsFiniteSet(S), NEW P,
           \A c \in S : /\ IsFiniteSet(P[c])
                        /\ o[c].active - o[c].validated = Cardinality(P[c]),
           \A c, d \in S : c # d => P[c] \cap P[d] = {}
    PROVE  LateSum(o, S) = Cardinality(UNION {P[c] : c \in S})
<1> DEFINE Pick(s) == CHOOSE x \in s : TRUE
           All(s) == UNION {P[c] : c \in s}
           Unfold(g, s) == IF s = {} THEN 0
                         ELSE (o[Pick(s)].active - o[Pick(s)].validated)
                              + g[s \ {Pick(s)}]
           Equation(g) == g = [s \in SUBSET S |-> Unfold(g, s)]
           G == [s \in SUBSET S |-> Cardinality(All(s))]
<1>1. LateSum(o, S) = (CHOOSE g : Equation(g))[S]
  BY DEF LateSum, MapThenSumSet, MapThenFoldSet
<1>2. ASSUME NEW s \in SUBSET S, s # {}
      PROVE  /\ Pick(s) \in s /\ s \ {Pick(s)} \in SUBSET S
             /\ s \ {Pick(s)} # s /\ s \ {Pick(s)} \subseteq s
  <2>1. Pick(s) \in s
    BY <1>2
  <2> HIDE DEF Pick
  <2> QED
    BY <2>1
<1>3. ASSUME NEW s \in SUBSET S
      PROVE  IsFiniteSet(All(s)) /\ Cardinality(All(s)) \in Nat
  <2>1. IsFiniteSet(s)
    BY FS_Subset
  <2>2. IsFiniteSet({P[c] : c \in s})
    <3> DEFINE f == [c \in s |-> P[c]]
    <3>1. f \in Surjection(s, {P[c] : c \in s})
      BY DEF Surjection
    <3> HIDE DEF f
    <3> QED
      BY <2>1, <3>1, FS_Surjection
  <2>3. \A T \in {P[c] : c \in s} : IsFiniteSet(T)
    OBVIOUS
  <2> QED
    BY <2>2, <2>3, FS_UNION, FS_CardinalityType
<1>4. ASSUME NEW s \in SUBSET S, s # {}
      PROVE  Cardinality(All(s)) = Unfold(G, s)
  <2> DEFINE x == Pick(s)
             r == s \ {x}
  <2>1. x \in s /\ r \in SUBSET S
    BY <1>2, <1>4
  <2> HIDE DEF x
  <2>2. All(s) = P[x] \cup All(r)
    BY <2>1
  <2>3. P[x] \cap All(r) = {}
    BY <2>1
  <2>4. IsFiniteSet(P[x]) /\ IsFiniteSet(All(r)) /\ Cardinality(All(r)) \in Nat
    BY <1>3, <2>1
  <2>5. Cardinality(P[x]) \in Nat
    BY <2>4, FS_CardinalityType
  <2>6. Cardinality(All(s)) = Cardinality(P[x]) + Cardinality(All(r)) - Cardinality({})
    <3> HIDE DEF All, r
    <3>1. Cardinality(P[x] \cup All(r))
            = Cardinality(P[x]) + Cardinality(All(r)) - Cardinality(P[x] \cap All(r))
      BY <2>4, FS_Union
    <3> QED
      BY <2>2, <2>3, <3>1
  <2> HIDE DEF All
  <2>7. Cardinality({}) = 0
    BY FS_EmptySet
  <2>8. Cardinality(All(s)) = Cardinality(P[x]) + Cardinality(All(r))
    BY <2>4, <2>5, <2>6, <2>7
  <2>9. Unfold(G, s) = (o[x].active - o[x].validated) + G[r]
    BY <1>4 DEF x
  <2>10. G[r] = Cardinality(All(r))
    BY <2>1
  <2> QED
    BY <2>1, <2>8, <2>9, <2>10
<1>5. Equation(G)
  <2>1. All({}) = {}
    OBVIOUS
  <2>2. \A s \in SUBSET S : Cardinality(All(s)) = Unfold(G, s)
    <3> TAKE s \in SUBSET S
    <3>1. CASE s = {}
      BY <2>1, <3>1, FS_EmptySet
    <3>2. CASE s # {}
      BY <1>4, <3>2
    <3> QED
      BY <3>1, <3>2
  <2> HIDE DEF Unfold, All
  <2> QED
    BY <2>2
<1>6. ASSUME NEW g, Equation(g)
      PROVE  g[S] = G[S]
  <2> DEFINE T == {s \in SUBSET S : g[s] # G[s]}
  <2>1. SUFFICES ASSUME T # {} PROVE FALSE
    BY <2>1
  <2>2. PICK s \in T : \A y \in T : <<y, s>> \notin StrictSubsetOrdering(S)
    <3>1. IsWellFoundedOn(StrictSubsetOrdering(S), SUBSET S)
      BY FS_StrictSubsetOrderingWellFounded, FS_FiniteSubsetsOfFinite
    <3>2. T \subseteq SUBSET S
      OBVIOUS
    <3> HIDE DEF T
    <3> QED
      BY <2>1, <3>1, <3>2, WFMin
  <2>3. s \in SUBSET S /\ g[s] # G[s]
    OBVIOUS
  <2>4. \A y \in SUBSET S : y # s /\ y \subseteq s => g[y] = G[y]
    BY <2>2, <2>3 DEF StrictSubsetOrdering
  <2>5. g[s] = Unfold(g, s) /\ G[s] = Unfold(G, s)
    <3> HIDE DEF Unfold, G
    <3> QED
      BY <1>5, <1>6, <2>3
  <2>6. Unfold(g, s) = Unfold(G, s)
    <3>1. CASE s = {}
      BY <3>1
    <3>2. CASE s # {}
      <4>1. g[s \ {Pick(s)}] = G[s \ {Pick(s)}]
        <5> HIDE DEF Pick, G
        <5> QED
          BY <1>2, <2>3, <2>4, <3>2
      <4> HIDE DEF Pick, G
      <4> QED
        BY <3>2, <4>1
    <3> QED
      BY <3>1, <3>2
  <2> QED
    BY <2>3, <2>5, <2>6
<1>7. Equation(CHOOSE g : Equation(g))
  <2> HIDE DEF Equation, G
  <2> QED
    BY <1>5
<1>8. LateSum(o, S) = G[S]
  <2> HIDE DEF Equation, G
  <2> QED
    BY <1>1, <1>6, <1>7
<1>9. G[S] = Cardinality(All(S))
  OBVIOUS
<1> QED
  BY <1>8, <1>9

(* Late cadres are counted once each: a cadre has one company.             *)
LEMMA LateAgrees ==
    ASSUME TablesTypeOK, NEW m \in Months
    PROVE  LateCadres(Overview(m)) = Cardinality(
              UNION {Pending(c, m) : c \in {d \in companies : ~Validated(d, m)}})
<1> DEFINE o == Overview(m)
           S == {d \in companies : ~Validated(d, m)}
           P == [c \in companies |-> Pending(c, m)]
<1>1. LateCadres(o) = LateSum(o, {c \in DOMAIN o : ~o[c].company})
  BY DEF LateCadres, LateSum, MapThenSumSet, MapThenFoldSet
<1>2. {c \in DOMAIN o : ~o[c].company} = S
  <2>1. DOMAIN o = companies
    BY DEF Overview
  <2> HIDE DEF o
  <2>2. \A c \in companies : o[c].company = Validated(c, m)
    BY OverviewOf DEF o
  <2> QED
    BY <2>1, <2>2
<1>3. IsFiniteSet(S)
  BY Counted DEF TablesTypeOK
<1>4. \A c \in S : /\ IsFiniteSet(P[c])
                   /\ o[c].active - o[c].validated = Cardinality(P[c])
  <2> SUFFICES ASSUME NEW c \in companies
               PROVE  /\ IsFiniteSet(Pending(c, m))
                      /\ o[c].active - o[c].validated = Cardinality(Pending(c, m))
    OBVIOUS
  <2>1. Pending(c, m) \in SUBSET UserIds
    BY DEF Pending, ActiveCadres
  <2> QED
    BY <2>1, Counted, PendingCount
<1>5. \A c, d \in S : c # d => P[c] \cap P[d] = {}
  BY DEF Pending, ActiveCadres
<1>6. {P[c] : c \in S} = {Pending(c, m) : c \in S}
  OBVIOUS
<1>7. LateSum(o, S) = Cardinality(UNION {P[c] : c \in S})
  <2> HIDE DEF o, S, P
  <2> QED
    BY <1>3, <1>4, <1>5, SumOfDisjoint
<1> QED
  BY <1>1, <1>2, <1>6, <1>7

(* The agreement needs nothing but the types of the tables.                *)
LEMMA Agreed == TablesTypeOK => FiguresAgree
<1> SUFFICES ASSUME TablesTypeOK, NEW m \in Months
             PROVE  LET o == Overview(m) IN
        /\ \A c \in companies :
              /\ IsReady(o[c]) <=>
                    AllValidated(CadreRows(c, m)) /\ ~Validated(c, m)
              /\ IsReady(o[c]) => Pending(c, m) = {}
              /\ ActiveCadreCount(c) = o[c].active
              /\ DOMAIN CadreRows(c, m) \subseteq UserList(c)
        /\ LateCadres(o) = Cardinality(
              UNION {Pending(c, m) : c \in {d \in companies : ~Validated(d, m)}})
  BY DEF FiguresAgree
<1>1. \A c \in companies :
        /\ IsReady(Overview(m)[c]) <=>
              AllValidated(CadreRows(c, m)) /\ ~Validated(c, m)
        /\ IsReady(Overview(m)[c]) => Pending(c, m) = {}
        /\ ActiveCadreCount(c) = Overview(m)[c].active
        /\ DOMAIN CadreRows(c, m) \subseteq UserList(c)
  BY CompanyAgrees
<1>2. LateCadres(Overview(m)) = Cardinality(
        UNION {Pending(c, m) : c \in {d \in companies : ~Validated(d, m)}})
  BY LateAgrees
<1> QED
  BY <1>1, <1>2

(* Dashboard, validation screen and list of companies count the same       *)
(* people, for any tables any number of requests at once can lead to       *)
(* (validations.rs overview and company, companies.rs list).               *)
THEOREM ScreensAgree == Spec => []FiguresAgree
<1>1. TypeOK => FiguresAgree
  BY Agreed DEF TypeOK
<1> QED
  BY <1>1, TypeCorrect, PTL

-------------------------------------------------------------------------------
(* What a check that passes leaves to be checked.                          *)
LEMMA Checked ==
    ASSUME TypeOK, NEW r \in Requests, Step(r), At(r, "check"),
           requests'[r].pc \in {"check", "write"}, NEW m \in requests[r].todo,
           m \notin requests'[r].todo
    PROVE  ~MonthShut(requests[r], m)
<1> DEFINE q == requests[r]
<1>1. ~Reply(r)
  BY DEF Reply, Goto, Idle, TypeOK
<1>2. q \in Request /\ Locals(q) /\ q.pc = "check"
  BY DEF TypeOK, At
<1>3. PICK n \in Months : EnsureWritable(r, n)
  <2>1. ~Final(r) /\ ~Abort(r)
    BY <1>1 DEF Final, Abort, Save, Erase, Clear, LockMonth, ReopenCadre, SealCompany,
       ReopenCompany, CreateUser, ChangeUser, RemoveUser, CreateCompany, RemoveCompany
  <2>2. ~ResolveTarget(r) /\ ~LookUpCadre(r) /\ ~CheckCompany(r) /\ ~CountPending(r)
    BY <1>2 DEF ResolveTarget, LookUpCadre, CheckCompany, CountPending, At
  <2>3. \A a \in UserIds, j \in Jobs : ~Arrive(r, a, j)
    BY <1>2 DEF Arrive, At
  <2> QED
    BY <2>1, <2>2, <2>3 DEF Step, Final
<1>4. ~MonthShut(q, n)
  BY <1>1, <1>3 DEF EnsureWritable
<1> DEFINE p == [q EXCEPT !.pc = IF q.todo = {n} THEN "write" ELSE "check",
                          !.todo = @ \ {n}]
<1>5. p.todo = q.todo \ {n}
  BY <1>2 DEF Request
<1> HIDE DEF p
<1>6. requests'[r] = p
  BY <1>3, <1>4 DEF EnsureWritable, Goto, TypeOK, p
<1>7. m = n
  BY <1>5, <1>6
<1> QED
  BY <1>4, <1>7

(* The two flags of a user's history.                                      *)
LEMMA HistoryFlags ==
    ASSUME NEW u, NEW m \in DOMAIN History(u)
    PROVE  /\ History(u)[m].company = Validated(users[u].company, m)
           /\ History(u)[m].cadre = locked[u][m]
  BY DEF History, SealedFor

(* What a user reads of a month in the history is what decides whether a   *)
(* write of theirs gets past its check, for any number of requests at once *)
(* (attendance.rs history and ensure_writable).                            *)
THEOREM HistoryTrue == Spec => HistoryTellsWhatIsOpen
<1> DEFINE Told(r) ==
             At(r, "check") /\ requests'[r].pc \in {"check", "write"} =>
                LET q == requests[r] IN
                \A m \in (q.todo \ requests'[r].todo) \cap DOMAIN History(q.user) :
                    Exists(q.user) /\ users[q.user].company = q.company =>
                        /\ ~History(q.user)[m].company
                        /\ History(q.user)[m].cadre => q.admin
<1>1. ASSUME TypeOK, NEW s \in Requests, Step(s), NEW r \in Requests
      PROVE  Told(r)
  <2> SUFFICES ASSUME At(r, "check"), requests'[r].pc \in {"check", "write"},
                      NEW m \in (requests[r].todo \ requests'[r].todo)
                                   \cap DOMAIN History(requests[r].user),
                      users[requests[r].user].company = requests[r].company
               PROVE  /\ ~History(requests[r].user)[m].company
                      /\ History(requests[r].user)[m].cadre => requests[r].admin
    OBVIOUS
  <2>1. Acts(r)
    BY DEF Acts
  <2>2. r = s
    BY <1>1, <2>1, OneActs
  <2>3. ~MonthShut(requests[r], m)
    BY <1>1, <2>2, Checked
  <2> QED
    BY <2>3, HistoryFlags DEF MonthShut
<1> HIDE DEF Told
<1>2. TypeOK /\ [Next]_vars => [\A r \in Requests : Told(r)]_vars
  BY <1>1 DEF Next
<1>3. Spec => [][\A r \in Requests : Told(r)]_vars
  BY <1>2, TypeCorrect, PTL DEF Spec
<1> QED
  BY <1>3 DEF HistoryTellsWhatIsOpen, Told

===============================================================================
