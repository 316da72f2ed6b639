------------------------------- MODULE Readings -------------------------------
(***************************************************************************)
(* What the server answers to those who only read: the status of a         *)
(* company, the dashboard's overview, a user's history, the lists, and the *)
(* rows of an export.  One operator per SELECT, on the tables it reads,    *)
(* with the joins and filters of its own text: the figures of two screens  *)
(* are two queries, and nothing but these texts makes them agree.          *)
(***************************************************************************)
EXTENDS Handlers, Integers, FiniteSetsExt

(* An id is a SERIAL, of 32 bits.                                          *)
ASSUME CountsAssumption == IsFiniteSet(UserIds) /\ IsFiniteSet(CompanyIds)

Filled(u, m) == {h \in HalfDaysOf(m) : entries[u][h] # Blank}

(* GET /validations/company/:id, its first statement.                      *)
CadreRows(c, m) ==
    [u \in ActiveCadres(c) |->
        [validated |-> locked[u][m], filled |-> Cardinality(Filled(u, m))]]

(* allCadresValidated: not for a company without active cadres.            *)
AllValidated(rows) ==
    /\ DOMAIN rows # {}
    /\ \A u \in DOMAIN rows : rows[u].validated

(* GET /validations/overview: companies LEFT JOIN users LEFT JOIN locks.   *)
Joined(c) == {u \in UserIds : /\ Exists(u) /\ users[u].company = c
                              /\ users[u].role = "cadre" /\ users[u].active}

Overview(m) ==
    [c \in companies |->
        [active    |-> Cardinality(Joined(c)),
         validated |-> Cardinality({u \in Joined(c) : locked[u][m]}),
         company   |-> Validated(c, m)]]

(* Broken: the cadres of a validated company are counted as late.          *)
LateEverywhere(o) ==
    MapThenSumSet(LAMBDA c : o[c].active - o[c].validated, DOMAIN o)

LateCadres(o) ==
    MapThenSumSet(LAMBDA c : o[c].active - o[c].validated,
                  {c \in DOMAIN o : ~o[c].company})

(* The screens' rule for a company that can be validated.                  *)
IsReady(row) == ~row.company /\ row.active > 0 /\ row.validated = row.active

(* GET /companies.                                                         *)
ActiveCadreCount(c) ==
    Cardinality({u \in UserIds : IsActive(u) /\ users[u].company = c
                                 /\ users[u].role = "cadre"})

(* GET /users, all of them or those of one company.                        *)
UserList(filter) ==
    {u \in UserIds : Exists(u) /\ (filter = None \/ users[u].company = filter)}

(* Broken: the validation of any company shows in everybody's history.     *)
SealedAnywhere(u, m) == \E c \in companies : Validated(c, m)

SealedFor(u, m) == Validated(users[u].company, m)

(* GET /attendance/history: the months that have an entry.                 *)
History(u) ==
    [m \in {MonthOf[h] : h \in {g \in HalfDays : entries[u][g] # Blank}} |->
        [counts  |-> [s \in Statuses |->
                        Cardinality({h \in HalfDaysOf(m) : entries[u][h] = s})],
         cadre   |-> locked[u][m],
         company |-> SealedFor(u, m)]]

(* An export lists the active cadres.                                      *)
Listed(c) == ActiveCadres(c)

(* Its last query: the entries of the active cadres.              *)
Found(c, m) ==
    [p \in {q \in ActiveCadres(c) \X HalfDaysOf(m) : entries[q[1]][q[2]] # Blank}
        |-> entries[p[1]][p[2]]]

(* The document: the cadres listed by the query before it; an entry of     *)
(* anybody else is left out.                                               *)
Sheet(cadres, found, m) ==
    [u \in cadres |-> [h \in HalfDaysOf(m) |->
        IF <<u, h>> \in DOMAIN found THEN found[<<u, h>>] ELSE Blank]]

-------------------------------------------------------------------------------
(* The dashboard, the validation screen and the list of companies count    *)
(* the same people: a company the dashboard calls ready is one whose       *)
(* button is enabled and whose validation the server accepts, and late     *)
(* cadres are those that hold up a company (validations.rs:94, 136, 175).  *)
FiguresAgree ==
    \A m \in Months : LET o == Overview(m) IN
        /\ \A c \in companies :
              /\ IsReady(o[c]) <=>
                    AllValidated(CadreRows(c, m)) /\ ~Validated(c, m)
              /\ IsReady(o[c]) => Pending(c, m) = {}
              /\ ActiveCadreCount(c) = o[c].active
              /\ DOMAIN CadreRows(c, m) \subseteq UserList(c)
        /\ LateCadres(o) = Cardinality(
              UNION {Pending(c, m) : c \in {d \in companies : ~Validated(d, m)}})

(* A write gets past its check of a month only while the history of the   *)
(* user it writes for calls that month open to whoever is writing: the     *)
(* history's joins on the tables of now (attendance.rs:181) against the    *)
(* check, which goes by the company and the role the request has read      *)
(* earlier (attendance.rs:90).  It need not hold once the user has changed *)
(* company since.                                                          *)
HistoryTellsWhatIsOpen ==
    [][\A r \in Requests : At(r, "check") /\ requests'[r].pc \in {"check", "write"} =>
          LET q == requests[r] IN
          \A m \in (q.todo \ requests'[r].todo) \cap DOMAIN History(q.user) :
              Exists(q.user) /\ users[q.user].company = q.company =>
                  /\ ~History(q.user)[m].company
                  /\ History(q.user)[m].cadre => q.admin]_vars
===============================================================================
