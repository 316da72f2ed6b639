------------------------------ MODULE OneSecret ------------------------------
(***************************************************************************)
(* What the instances of a server that sign and check each other's tokens  *)
(* have to agree on: one secret, chosen once and for all, and held by each *)
(* of them from the moment it serves to the moment it stops.               *)
(***************************************************************************)
CONSTANTS servers, values, none

VARIABLES
    chosen,         \* the secret, none until there is one
    held            \* the one each server uses, none while it serves nobody

Choose == chosen = none /\ chosen' \in values /\ held' = held

Hold(s) ==
    /\ chosen # none
    /\ held[s] = none
    /\ held' = [held EXCEPT ![s] = chosen]
    /\ chosen' = chosen

Stop(s) ==
    /\ held[s] # none
    /\ held' = [held EXCEPT ![s] = none]
    /\ chosen' = chosen

OneSecretInit == chosen = none /\ held = [s \in servers |-> none]

OneSecretNext == Choose \/ \E s \in servers : Hold(s) \/ Stop(s)

OneSecretSpec == OneSecretInit /\ [][OneSecretNext]_<<chosen, held>>
===============================================================================
