--------------------------- MODULE MCPlanningScreen ---------------------------
(* A month of two half-days and one status, for TLC.                       *)
EXTENDS PlanningScreen, TLC

CONSTANTS h1, h2, s1

(* What the properties of run planning_other read: the three other history *)
(* variables steer no action and no variable but themselves.               *)
UndoView == <<writeVars, server, store, loads, page, prior, told, spent>>

(* Nothing tells one half-day from another.                                *)
HalfSymmetry == Permutations({h1, h2})
===============================================================================
