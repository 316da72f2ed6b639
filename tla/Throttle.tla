------------------------------- MODULE Throttle -------------------------------
(***************************************************************************)
(* What a login limiter promises, whatever its data structure: an attempt  *)
(* is judged and counted in one step, a counter never passes its limit, is *)
(* kept for its whole window, and is forgotten earlier only by a restart,  *)
(* for want of room, oldest window first, or by a success on its account:  *)
(* a success leaves the counters that are not of one account.              *)
(* slack is how far the code may exceed a limit by judging several         *)
(* attempts before it counts the first.                                    *)
(***************************************************************************)
EXTENDS Integers

CONSTANTS
    counters,           \* the counters there may be
    pairs,              \* the two counters a failure moves together
    forgivable,         \* the counters of one account, which a success ends
    limit,              \* of each counter
    span,               \* length of a window
    slack

VARIABLES
    time,
    spent,              \* failures in the current window of each counter
    opened              \* when that window opened, 0 if there is none

state == <<time, spent, opened>>

Forgotten(k) == spent'[k] = 0 /\ opened'[k] = 0

Kept(k) == spent'[k] = spent[k] /\ opened'[k] = opened[k]

(* A window ends with its span, not before and not after.                  *)
Pass ==
    /\ time' > time
    /\ \A k \in counters :
          IF spent[k] > 0 /\ opened[k] + span <= time'
          THEN Forgotten(k) ELSE Kept(k)

Fresh(k) == spent'[k] = 1 /\ opened'[k] = time

(* One more failure in the window, or the first of a new one.              *)
Moved(k) ==
    IF spent[k] = 0 THEN Fresh(k)
    ELSE spent'[k] = spent[k] + 1 /\ opened'[k] = opened[k]

Fail(pair) ==
    LET lost == {k \in counters : /\ spent[k] > 0
                                  /\ ~(IF k \in pair THEN Moved(k) ELSE Kept(k))}
    IN
    /\ \A k \in pair : Moved(k) \/ Fresh(k) \/ Forgotten(k)
    /\ \A k \in pair : spent[k] < limit[k] + slack
    /\ \A k \in counters \ pair : Kept(k) \/ Forgotten(k)
    /\ \A k \in lost, l \in counters \ lost :
          spent[l] > 0 => opened[k] <= opened[l]
    /\ time' = time

Succeed ==
    /\ \E k \in forgivable :
          Forgotten(k) /\ \A l \in counters \ {k} : Kept(l)
    /\ time' = time

Restart == (\A k \in counters : Forgotten(k)) /\ time' = time

ThrottleInit ==
    /\ time = 0
    /\ spent = [k \in counters |-> 0]
    /\ opened = [k \in counters |-> 0]

ThrottleNext == Pass \/ (\E p \in pairs : Fail(p)) \/ Succeed \/ Restart

ThrottleSpec == ThrottleInit /\ [][ThrottleNext]_state
===============================================================================
