----------------------------- MODULE TablesProofs -----------------------------
(***************************************************************************)
(* What each statement of Tables preserves, whatever request sends it: the *)
(* types of the rows and the references between tables.                    *)
(***************************************************************************)
EXTENDS Tables, TLAPS

(* The installation the observation starts from is well typed.             *)
LEMMA InitTyped == TablesInit => TablesTypeOK
  BY TablesAssumption, FirstAssumption DEF TablesInit, TablesTypeOK

(* ... and every reference in it leads to a live row.                      *)
LEMMA InitIntegrity == TablesInit => Integrity
  BY TablesAssumption, FirstAssumption
  DEF TablesInit, Integrity, Exists, CompanyRef

-------------------------------------------------------------------------------
(* INSERT INTO users.                                                      *)
LEMMA InsertUserTyped ==
  ASSUME TablesTypeOK, NEW u \in UserIds, NEW row \in Row, InsertUser(u, row)
  PROVE  TablesTypeOK'
  BY DEF TablesTypeOK, InsertUser

LEMMA InsertUserIntegrity ==
  ASSUME TablesTypeOK, Integrity, NEW u \in UserIds, NEW row \in Row,
         InsertUser(u, row)
  PROVE  Integrity'
<1>1. \A v \in UserIds \ {u} : users'[v] = users[v]
  BY DEF TablesTypeOK, InsertUser
<1>2. users'[u] = row /\ row # None
  BY TablesAssumption DEF TablesTypeOK, InsertUser
<1>3. QED
  BY <1>1, <1>2 DEF TablesTypeOK, Integrity, InsertUser, Exists, CompanyRef

(* UPDATE users.                                                           *)
LEMMA UpdateUserTyped ==
  ASSUME TablesTypeOK, NEW u \in UserIds, NEW row \in Row, UpdateUser(u, row)
  PROVE  TablesTypeOK'
  BY DEF TablesTypeOK, UpdateUser

LEMMA UpdateUserIntegrity ==
  ASSUME TablesTypeOK, Integrity, NEW u \in UserIds, NEW row \in Row,
         UpdateUser(u, row)
  PROVE  Integrity'
<1>1. \A v \in UserIds \ {u} : users'[v] = users[v]
  BY DEF TablesTypeOK, UpdateUser
<1>2. users'[u] = row /\ row # None
  BY TablesAssumption DEF TablesTypeOK, UpdateUser
<1>3. QED
  BY <1>1, <1>2 DEF TablesTypeOK, Integrity, UpdateUser, Exists, CompanyRef

(* DELETE FROM users, with its cascades and its one restriction.           *)
LEMMA DeleteUserTyped ==
  ASSUME TablesTypeOK, NEW u \in UserIds, DeleteUser(u)
  PROVE  TablesTypeOK'
  BY DEF TablesTypeOK, DeleteUser

LEMMA DeleteUserIntegrity ==
  ASSUME TablesTypeOK, Integrity, NEW u \in UserIds, DeleteUser(u)
  PROVE  Integrity'
<1>1. \A v \in UserIds \ {u} :
        users'[v] = users[v] /\ entries'[v] = entries[v] /\ locked'[v] = locked[v]
  BY DEF TablesTypeOK, DeleteUser
<1>2. /\ users'[u] = None
      /\ \A h \in HalfDays : entries'[u][h] = Blank
      /\ \A m \in Months : ~locked'[u][m]
  BY DEF TablesTypeOK, DeleteUser
<1>3. \A v \in UserIds : (IF Exists(v)
                          THEN v \in issued /\ CompanyRef(users[v].company)
                          ELSE /\ \A h \in HalfDays : entries[v][h] = Blank
                               /\ \A m \in Months : ~locked[v][m])'
  BY <1>1, <1>2 DEF Integrity, DeleteUser, Exists, CompanyRef
<1>4. \A c \in CompanyIds, m \in Months : validatedBy[c][m] # None =>
        c \in companies /\ validatedBy[c][m] \in UserIds \ {u}
  BY DEF TablesTypeOK, Integrity, DeleteUser
<1>5. QED
  BY <1>1, <1>3, <1>4 DEF Integrity, DeleteUser, Exists

(* INSERT INTO companies.                                                  *)
LEMMA InsertCompanyKeeps ==
  ASSUME TablesTypeOK, Integrity, NEW c \in CompanyIds, InsertCompany(c)
  PROVE  TablesTypeOK' /\ Integrity'
  BY DEF TablesTypeOK, Integrity, InsertCompany, Exists, CompanyRef

(* DELETE FROM companies: its users stay, without a company.               *)
LEMMA DeleteCompanyTyped ==
  ASSUME TablesTypeOK, NEW c \in CompanyIds, DeleteCompany(c)
  PROVE  TablesTypeOK'
<1>1. \A u \in UserIds : Exists(u) => [users[u] EXCEPT !.company = None] \in Row
  BY DEF TablesTypeOK, Exists, Row
<1>2. users' \in [UserIds -> Row \cup {None}]
  BY <1>1 DEF TablesTypeOK, DeleteCompany
<1>3. QED
  BY <1>2 DEF TablesTypeOK, DeleteCompany

LEMMA DeleteCompanyIntegrity ==
  ASSUME TablesTypeOK, Integrity, NEW c \in CompanyIds, DeleteCompany(c)
  PROVE  Integrity'
<1>1. \A u \in UserIds : /\ Exists(u)' <=> Exists(u)
                         /\ Exists(u)' => CompanyRef(users[u].company)'
  <2> TAKE u \in UserIds
  <2>1. CASE Exists(u) /\ users[u].company = c
    <3>1. users'[u] = [users[u] EXCEPT !.company = None]
      BY <2>1 DEF DeleteCompany
    <3>2. users[u] \in Row
      BY <2>1 DEF TablesTypeOK, Exists
    <3>3. users'[u] \in Row /\ users'[u].company = None
      BY <3>1, <3>2 DEF Row
    <3>4. QED
      BY <2>1, <3>3, TablesAssumption DEF Exists, CompanyRef
  <2>2. CASE ~(Exists(u) /\ users[u].company = c)
    <3>1. users'[u] = users[u]
      BY <2>2 DEF DeleteCompany
    <3>2. QED
      BY <2>2, <3>1 DEF Integrity, Exists, CompanyRef, DeleteCompany
  <2>3. QED
    BY <2>1, <2>2
<1>2. \A d \in CompanyIds, m \in Months : validatedBy'[d][m] # None =>
        d # c /\ validatedBy'[d][m] = validatedBy[d][m]
  BY DEF TablesTypeOK, DeleteCompany
<1>3. \A d \in CompanyIds, m \in Months : (validatedBy[d][m] # None =>
        d \in companies /\ Exists(validatedBy[d][m]))'
  <2> SUFFICES ASSUME NEW d \in CompanyIds, NEW m \in Months,
                      validatedBy'[d][m] # None
               PROVE  (d \in companies /\ Exists(validatedBy[d][m]))'
    OBVIOUS
  <2>1. /\ d \in companies \ {c}
        /\ validatedBy[d][m] \in UserIds
        /\ Exists(validatedBy[d][m])
    BY <1>2 DEF Integrity, TablesTypeOK
  <2>2. Exists(validatedBy[d][m])'
    <3>1. users'[validatedBy[d][m]] # None
      BY <1>1, <2>1 DEF Exists
    <3>2. QED
      BY <1>2, <3>1 DEF Exists
  <2>3. QED
    BY <2>1, <2>2 DEF DeleteCompany
<1>4. QED
  BY <1>1, <1>3 DEF Integrity, DeleteCompany, Exists

-------------------------------------------------------------------------------
(* Entries.                                                                *)
LEMMA UpsertEntriesTyped ==
  ASSUME TablesTypeOK, NEW u \in UserIds, NEW values,
         \A h \in DOMAIN values : values[h] \in Statuses \cup {Blank},
         UpsertEntries(u, values)
  PROVE  TablesTypeOK'
<1>1. [h \in HalfDays |-> IF h \in DOMAIN values THEN values[h] ELSE entries[u][h]]
        \in [HalfDays -> Statuses \cup {Blank}]
  BY DEF TablesTypeOK
<1>2. QED
  BY <1>1 DEF TablesTypeOK, UpsertEntries

LEMMA UpsertEntriesIntegrity ==
  ASSUME TablesTypeOK, Integrity, NEW u \in UserIds, NEW values,
         UpsertEntries(u, values)
  PROVE  Integrity'
<1>1. \A v \in UserIds \ {u} : entries'[v] = entries[v]
  BY DEF TablesTypeOK, UpsertEntries
<1>2. QED
  BY <1>1 DEF Integrity, UpsertEntries, Exists, CompanyRef

LEMMA DeleteEntriesTyped ==
  ASSUME TablesTypeOK, NEW u \in UserIds, NEW halves, DeleteEntries(u, halves)
  PROVE  TablesTypeOK'
<1>1. [h \in HalfDays |-> IF h \in halves THEN Blank ELSE entries[u][h]]
        \in [HalfDays -> Statuses \cup {Blank}]
  BY DEF TablesTypeOK
<1>2. QED
  BY <1>1 DEF TablesTypeOK, DeleteEntries

LEMMA DeleteEntriesIntegrity ==
  ASSUME TablesTypeOK, Integrity, NEW u \in UserIds, NEW halves,
         DeleteEntries(u, halves)
  PROVE  Integrity'
<1>1. \A v \in UserIds \ {u} : entries'[v] = entries[v]
  BY DEF TablesTypeOK, DeleteEntries
<1>2. \A h \in HalfDays : entries'[u][h] \in {Blank, entries[u][h]}
  BY DEF TablesTypeOK, DeleteEntries
<1>3. QED
  BY <1>1, <1>2 DEF Integrity, DeleteEntries, Exists, CompanyRef

-------------------------------------------------------------------------------
(* Locks and company validations.                                          *)
LEMMA SetLockKeeps ==
  ASSUME TablesTypeOK, Integrity, NEW u \in UserIds, NEW m \in Months,
         NEW value \in BOOLEAN, SetLock(u, m, value)
  PROVE  TablesTypeOK' /\ Integrity'
<1>1. TablesTypeOK'
  BY DEF TablesTypeOK, SetLock
<1>2. \A v \in UserIds \ {u} : locked'[v] = locked[v]
  BY DEF TablesTypeOK, SetLock
<1>3. Integrity'
  BY <1>2 DEF Integrity, SetLock, Exists, CompanyRef
<1>4. QED
  BY <1>1, <1>3

LEMMA SetValidationKeeps ==
  ASSUME TablesTypeOK, Integrity, NEW c \in CompanyIds, NEW m \in Months,
         NEW by \in UserIds \cup {None}, SetValidation(c, m, by)
  PROVE  TablesTypeOK' /\ Integrity'
<1>1. TablesTypeOK'
  BY DEF TablesTypeOK, SetValidation
<1>2. \A d \in CompanyIds, n \in Months :
        validatedBy'[d][n] = IF d = c /\ n = m THEN by ELSE validatedBy[d][n]
  BY DEF TablesTypeOK, SetValidation
<1>3. Integrity'
  BY <1>2 DEF Integrity, SetValidation, Exists, CompanyRef
<1>4. QED
  BY <1>1, <1>3
===============================================================================
