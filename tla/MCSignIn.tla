------------------------------- MODULE MCSignIn -------------------------------
(* A browser behind the proxy, which may claim to be another public        *)
(* address; an account and an e-mail without one.                          *)
EXTENDS SignIn, TLC

CONSTANTS i1, i2

MCHeaders == {<<>>, <<i2>>}

AttemptSymmetry == Permutations(Attempts)
===============================================================================
