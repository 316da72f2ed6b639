------------------------------ MODULE MCStartup ------------------------------
(* Instances with the same configuration but for the secret: none, a       *)
(* placeholder, a real one.                                                *)
EXTENDS Startup, TLC

CONSTANTS n1, n2, n3, weak, strong, email, given

MCJwtSecret == (n1 :> None) @@ (n2 :> weak) @@ (n3 :> strong)
MCAdminEmail == [n \in Instances |-> email]
MCAdminPassword == [n \in Instances |-> IF n = n3 THEN given ELSE None]
===============================================================================
