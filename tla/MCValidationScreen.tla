-------------------------- MODULE MCValidationScreen --------------------------
(* An admin at the screen and a cadre of the company, whose month others    *)
(* write, validate and reopen, and whose account they may delete.           *)
EXTENDS ValidationScreen, TLC

CONSTANTS a1, k1, c1, m1, h1, s1, r1, r2

MCMonthOf == h1 :> m1

CadreRow == [role |-> "cadre", company |-> c1, active |-> TRUE]

MCUsers == (a1 :> [role |-> "admin", company |-> None, active |-> TRUE])
        @@ (k1 :> CadreRow)

Sent(op) == [op |-> op, user |-> None, company |-> None, month |-> None,
             values |-> [h \in {} |-> Blank], row |-> None]

MCJobs ==
    {Post("validateCompany", None), Post("reopenCompany", None), Post("reopen", k1),
     [Sent("save") EXCEPT !.user = k1, !.values = h1 :> s1],
     [Sent("validate") EXCEPT !.user = k1, !.month = m1],
     [Sent("deleteUser") EXCEPT !.user = k1]}

RequestSymmetry == Permutations(Requests)
===============================================================================
