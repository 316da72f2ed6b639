------------------------------ MODULE MCHandlers ------------------------------
(* Small installations for TLC: constants of Handlers and the jobs clients *)
(* ask for in each run.                                                    *)
EXTENDS Readings, TLC

CONSTANTS a1, a2, k1, k2, n1,    \* admins, cadres, an account not yet created
          c1, c2,                \* companies
          m1, m2,                \* months
          h1, h2,                \* a half-day in each
          s1                     \* a status

MCMonthOf == (h1 :> m1) @@ (h2 :> m2)
MCOneMonthOf == h1 :> m1

AdminRow == [role |-> "admin", company |-> None, active |-> TRUE]
CadreRow(c) == [role |-> "cadre", company |-> c, active |-> TRUE]

Blanks == [h \in {} |-> Blank]
Asked(op) == [op |-> op, user |-> None, company |-> None, month |-> None,
              values |-> Blanks, row |-> None]
OnCompany(op, c, m) == [Asked(op) EXCEPT !.company = c, !.month = m]
OnMonth(op, u, m) == [Asked(op) EXCEPT !.user = u, !.month = m]
Write(op, u, values) == [Asked(op) EXCEPT !.user = u, !.values = values]
OnUser(op, u, row) == [Asked(op) EXCEPT !.user = u, !.row = row]

BothMonths == (h1 :> s1) @@ (h2 :> s1)

Erased == h1 :> Blank

(* One admin, one cadre, two companies: locks, validations, moves.         *)
LockUsers == (a1 :> AdminRow) @@ (k1 :> CadreRow(c1))
LockJobs ==
    {Write("save", None, BothMonths), Write("erase", k1, Erased),
     OnMonth("clear", a1, m1),
     OnMonth("validate", None, m1), OnMonth("validate", a1, m2),
     OnMonth("reopen", k1, m1),
     OnCompany("validateCompany", c1, m1), OnCompany("reopenCompany", c1, m1),
     OnUser("updateUser", k1, CadreRow(c2))}

(* Accounts and companies come and go under requests that hold their ids.  *)
StaffUsers == (a1 :> AdminRow) @@ (k1 :> CadreRow(c1)) @@ (n1 :> None)
StaffJobs ==
    {Write("save", k1, h1 :> s1), OnMonth("validate", None, m1),
     OnMonth("reopen", k1, m1),
     OnCompany("validateCompany", c1, m1), OnCompany("reopenCompany", c1, m1),
     OnUser("createUser", None, AdminRow), OnUser("createUser", None, CadreRow(c1)),
     OnUser("updateUser", k1, CadreRow(c2)), OnUser("updateUser", k1, AdminRow),
     OnUser("deleteUser", a1, None), OnUser("deleteUser", k1, None),
     Asked("createCompany"), OnCompany("deleteCompany", c1, None)}

(* An admin and two cadres, one of whom may become an admin: the rules     *)
(* that hold one request at a time.                                        *)
RuleUsers == (a1 :> AdminRow) @@ (k1 :> CadreRow(c1)) @@ (k2 :> CadreRow(c2))
RuleJobs ==
    {Write("save", None, h1 :> s1), Write("save", k1, h1 :> s1),
     Write("erase", None, Erased), OnMonth("clear", k1, m1),
     OnMonth("validate", None, m1), OnMonth("validate", k1, m1),
     OnMonth("reopen", k1, m1),
     OnCompany("validateCompany", c1, m1), OnCompany("validateCompany", c2, m1),
     OnCompany("reopenCompany", c1, m1),
     OnUser("updateUser", k1, CadreRow(c2)), OnUser("updateUser", k1, AdminRow),
     OnUser("updateUser", a1, CadreRow(c1)),
     OnUser("updateUser", k2, [CadreRow(c1) EXCEPT !.active = FALSE]),
     OnUser("deleteUser", a1, None), OnUser("deleteUser", k1, None),
     OnUser("createUser", None, CadreRow(c1)),
     OnCompany("deleteCompany", c1, None)}

(* The everyday jobs alone: no account changes hands during the race.      *)
RaceJobs ==
    {Write("save", None, h1 :> s1), OnMonth("validate", None, m1),
     OnMonth("reopen", k1, m1), OnCompany("validateCompany", c1, m1)}

RequestSymmetry == Permutations(Requests)
===============================================================================
