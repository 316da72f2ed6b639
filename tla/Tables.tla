-------------------------------- MODULE Tables --------------------------------
(***************************************************************************)
(* The PostgreSQL tables of Presencia and the statements the server sends  *)
(* them.  PostgreSQL runs one statement atomically; the server never opens *)
(* a transaction, so a statement is the largest atomic step there is.      *)
(*                                                                         *)
(* A statement whose guard is false fails (a foreign key) or touches no    *)
(* row: either way the tables keep their contents.                         *)
(***************************************************************************)
EXTENDS FiniteSets

CONSTANTS
    UserIds,     \* values users.id can take
    CompanyIds,  \* values companies.id can take
    Months,      \* (year, month) pairs
    HalfDays,    \* (entry_date, period) pairs
    MonthOf,     \* the month each half-day lies in
    Statuses,    \* the attendance_status enum
    Blank,       \* no attendance row for that half-day
    None,        \* SQL NULL, or no row
    FirstUsers,  \* the users table when the observation starts
    FirstCompanies

Roles == {"admin", "cadre"}
Row == [role : Roles, company : CompanyIds \cup {None}, active : BOOLEAN]

ASSUME TablesAssumption ==
    /\ MonthOf \in [HalfDays -> Months]
    /\ Blank \notin Statuses
    /\ None \notin UserIds \cup CompanyIds \cup Months \cup Row
    /\ UserIds \cap CompanyIds = {}

(* An installation that has been set up: seed_admin left an active admin,  *)
(* who may have created companies and accounts.                            *)
ASSUME FirstAssumption ==
    /\ FirstCompanies \in SUBSET CompanyIds
    /\ FirstUsers \in [UserIds -> Row \cup {None}]
    /\ \A u \in UserIds : FirstUsers[u] # None =>
          FirstUsers[u].company \in FirstCompanies \cup {None}
    /\ \E u \in UserIds : /\ FirstUsers[u] # None
                          /\ FirstUsers[u].role = "admin"
                          /\ FirstUsers[u].active

VARIABLES
    users,        \* users: id -> row, or None
    companies,    \* companies: the live ids
    issued,       \* ids the two SERIAL sequences have handed out
    entries,      \* attendance_entries: user -> half-day -> status, or Blank
    locked,       \* month_locks.cadre_validated: user -> month
    validatedBy   \* admin_validated_by where admin_validated: company -> month

tables == <<users, companies, issued, entries, locked, validatedBy>>

TablesInit ==
    /\ users = FirstUsers
    /\ companies = FirstCompanies
    /\ issued = FirstCompanies \cup {u \in UserIds : FirstUsers[u] # None}
    /\ entries = [u \in UserIds |-> [h \in HalfDays |-> Blank]]
    /\ locked = [u \in UserIds |-> [m \in Months |-> FALSE]]
    /\ validatedBy = [c \in CompanyIds |-> [m \in Months |-> None]]

TablesTypeOK ==
    /\ users \in [UserIds -> Row \cup {None}]
    /\ companies \in SUBSET CompanyIds
    /\ issued \in SUBSET (UserIds \cup CompanyIds)
    /\ entries \in [UserIds -> [HalfDays -> Statuses \cup {Blank}]]
    /\ locked \in [UserIds -> [Months -> BOOLEAN]]
    /\ validatedBy \in [CompanyIds -> [Months -> UserIds \cup {None}]]

-------------------------------------------------------------------------------
(* What the statements read.                                               *)

Exists(u) == users[u] # None

IsActive(u) == Exists(u) /\ users[u].active

IsAdmin(u) == Exists(u) /\ users[u].role = "admin"

(* A missing company_month_validations row and a false one read the same.  *)
Validated(c, m) == c # None /\ validatedBy[c][m] # None

(* WHERE company_id = c AND role = 'cadre' AND active                      *)
ActiveCadres(c) ==
    {u \in UserIds : /\ IsActive(u)
                     /\ users[u].role = "cadre"
                     /\ users[u].company = c}

Pending(c, m) == {u \in ActiveCadres(c) : ~locked[u][m]}

HalfDaysOf(m) == {h \in HalfDays : MonthOf[h] = m}

CompanyRef(c) == c = None \/ c \in companies

-------------------------------------------------------------------------------
(* Statements on users and companies.                                      *)

InsertUser(u, row) ==
    /\ u \in UserIds \ issued
    /\ CompanyRef(row.company)
    /\ issued' = issued \cup {u}
    /\ users' = [users EXCEPT ![u] = row]
    /\ UNCHANGED <<companies, entries, locked, validatedBy>>

UpdateUser(u, row) ==
    /\ Exists(u)
    /\ CompanyRef(row.company)
    /\ users' = [users EXCEPT ![u] = row]
    /\ UNCHANGED <<companies, issued, entries, locked, validatedBy>>

(* ON DELETE CASCADE clears entries and locks; the author of a company     *)
(* validation is held by a plain reference and cannot be deleted.          *)
DeleteUser(u) ==
    /\ Exists(u)
    /\ \A c \in CompanyIds, m \in Months : validatedBy[c][m] # u
    /\ users' = [users EXCEPT ![u] = None]
    /\ entries' = [entries EXCEPT ![u] = [h \in HalfDays |-> Blank]]
    /\ locked' = [locked EXCEPT ![u] = [m \in Months |-> FALSE]]
    /\ UNCHANGED <<companies, issued, validatedBy>>

InsertCompany(c) ==
    /\ c \in CompanyIds \ issued
    /\ issued' = issued \cup {c}
    /\ companies' = companies \cup {c}
    /\ UNCHANGED <<users, entries, locked, validatedBy>>

(* ON DELETE SET NULL for its users, CASCADE for its validations.          *)
DeleteCompany(c) ==
    /\ c \in companies
    /\ companies' = companies \ {c}
    /\ users' = [u \in UserIds |->
                    IF Exists(u) /\ users[u].company = c
                    THEN [users[u] EXCEPT !.company = None]
                    ELSE users[u]]
    /\ validatedBy' = [validatedBy EXCEPT ![c] = [m \in Months |-> None]]
    /\ UNCHANGED <<issued, entries, locked>>

-------------------------------------------------------------------------------
(* Statements on entries, locks and validations.                           *)

(* One INSERT ... ON CONFLICT DO UPDATE for all the half-days of values.   *)
UpsertEntries(u, values) ==
    /\ Exists(u)
    /\ entries' = [entries EXCEPT ![u] = [h \in HalfDays |->
                      IF h \in DOMAIN values THEN values[h] ELSE entries[u][h]]]
    /\ UNCHANGED <<users, companies, issued, locked, validatedBy>>

DeleteEntries(u, halves) ==
    /\ entries' = [entries EXCEPT ![u] = [h \in HalfDays |->
                      IF h \in halves THEN Blank ELSE entries[u][h]]]
    /\ UNCHANGED <<users, companies, issued, locked, validatedBy>>

(* Broken: month_locks.user_id without its foreign key.                    *)
SetLockUnchecked(u, m, value) ==
    /\ locked' = [locked EXCEPT ![u][m] = value]
    /\ UNCHANGED <<users, companies, issued, entries, validatedBy>>

SetLock(u, m, value) ==
    /\ Exists(u)
    /\ locked' = [locked EXCEPT ![u][m] = value]
    /\ UNCHANGED <<users, companies, issued, entries, validatedBy>>

(* by is the validating admin, or None to reopen.                          *)
SetValidation(c, m, by) ==
    /\ c \in companies
    /\ by # None => Exists(by)
    /\ validatedBy' = [validatedBy EXCEPT ![c][m] = by]
    /\ UNCHANGED <<users, companies, issued, entries, locked>>

-------------------------------------------------------------------------------
(* Every reference leads to a live row: an entry or a lock to its user, a  *)
(* user to its company, a validation to its company and its author.  The   *)
(* handlers keep ids across awaits, so this rests on 001_init.sql's keys   *)
(* and on no handler writing around them.                                  *)
Integrity ==
    /\ \A u \in UserIds :
          IF Exists(u)
          THEN u \in issued /\ CompanyRef(users[u].company)
          ELSE /\ \A h \in HalfDays : entries[u][h] = Blank
               /\ \A m \in Months : ~locked[u][m]
    /\ companies \subseteq issued
    /\ \A c \in CompanyIds, m \in Months : validatedBy[c][m] # None =>
          c \in companies /\ Exists(validatedBy[c][m])
===============================================================================
