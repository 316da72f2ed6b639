------------------------------ MODULE MonthRules ------------------------------
(***************************************************************************)
(* What the server promises about months, as rules on one atomic step by   *)
(* one actor: the three locking rules of the README and who may do what.   *)
(* Handlers.tla says which of these steps the code's sequences of          *)
(* statements amount to when one request runs at a time.                   *)
(***************************************************************************)
EXTENDS Tables

Admin(a) == IsActive(a) /\ IsAdmin(a)

MayActFor(a, u) == IsActive(a) /\ Exists(u) /\ (IsAdmin(a) \/ a = u)

(* Nobody edits a month validated for the company; a cadre does not edit   *)
(* a month they validated.                                                 *)
Closed(a, u, m) ==
    \/ Validated(users[u].company, m)
    \/ ~IsAdmin(a) /\ locked[u][m]

EditEntries(a, u) ==
    /\ MayActFor(a, u)
    /\ entries' \in [UserIds -> [HalfDays -> Statuses \cup {Blank}]]
    /\ \A v \in UserIds, h \in HalfDays : entries'[v][h] # entries[v][h] =>
          v = u /\ ~Closed(a, u, MonthOf[h])
    /\ UNCHANGED <<users, companies, issued, locked, validatedBy>>

ValidateMonth(a, u, m) ==
    /\ MayActFor(a, u)
    /\ ~Validated(users[u].company, m)
    /\ SetLock(u, m, TRUE)

ReopenMonth(a, u, m) == Admin(a) /\ SetLock(u, m, FALSE)

(* Every active cadre of the company has validated the month.              *)
ValidateCompany(a, c, m) ==
    /\ Admin(a)
    /\ Pending(c, m) = {}
    /\ SetValidation(c, m, a)

ReopenCompany(a, c, m) == Admin(a) /\ SetValidation(c, m, None)

(* An admin neither deactivates, demotes nor deletes their own account.    *)
ManageUsers(a) ==
    /\ Admin(a)
    /\ \E u \in UserIds :
          \/ \E row \in Row : row.active /\ InsertUser(u, row)
          \/ \E row \in Row :
                /\ u = a => row.role = "admin" /\ row.active
                /\ UpdateUser(u, row)
          \/ u # a /\ DeleteUser(u)

ManageCompanies(a) ==
    Admin(a) /\ \E c \in CompanyIds : InsertCompany(c) \/ DeleteCompany(c)

RulesNext ==
    \E a \in UserIds :
        \/ ManageUsers(a)
        \/ ManageCompanies(a)
        \/ \E u \in UserIds : EditEntries(a, u)
        \/ \E u \in UserIds, m \in Months :
              ValidateMonth(a, u, m) \/ ReopenMonth(a, u, m)
        \/ \E c \in CompanyIds, m \in Months :
              ValidateCompany(a, c, m) \/ ReopenCompany(a, c, m)

RulesSpec == TablesInit /\ [][RulesNext]_tables
===============================================================================
