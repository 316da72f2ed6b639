------------------------------ MODULE WriteQueue ------------------------------
(***************************************************************************)
(* The browser's single write queue: one request out at a time, in order;  *)
(* when one fails, those still waiting are dropped and their owners told.  *)
(* JavaScript runs each of these steps to its end without a switch.        *)
(***************************************************************************)
EXTENDS Naturals, Sequences, Functions

CONSTANTS
    LastScreen,  \* planning screens opened while the page is loaded
    Halves,      \* half-days of the month shown
    Statuses,
    Blank        \* no entry for that half-day

ASSUME WriteQueueAssumption ==
    /\ LastScreen \in Nat \ {0}
    /\ Blank \notin Statuses

Screens == 1..LastScreen

Values == Statuses \cup {Blank}

Planning == [Halves -> Values]

(* What an action or a request changes: some half-days, Blank to clear.    *)
Change == UNION {[H -> Values] : H \in SUBSET Halves}

Write == [screen : Screens, values : Change]

VARIABLES
    queue,       \* the writes not settled; the first is the request out
    out,         \* that request: "sent", "done" or "refused" by the server
    missed       \* screens whose mark is older than the last failed write

writeVars == <<queue, out, missed>>

WriteQueueInit == queue = <<>> /\ out = "none" /\ missed = {}

WriteQueueTypeOK ==
    /\ queue \in Seq(Write)
    /\ out \in {"none", "sent", "done", "refused"}
    /\ missed \in SUBSET Screens

-------------------------------------------------------------------------------
Over(change, planning) ==
    [h \in Halves |-> IF h \in DOMAIN change THEN change[h] ELSE planning[h]]

(* planning with the writes of the queue on top: the latest one wins.      *)
Queued(h) == {i \in DOMAIN queue : h \in DOMAIN queue[i].values}

Latest(h) == CHOOSE i \in Queued(h) : \A j \in Queued(h) : j <= i

Ahead(planning) ==
    [h \in Halves |->
        IF Queued(h) = {} THEN planning[h] ELSE queue[Latest(h)].values[h]]

-------------------------------------------------------------------------------
QueueIdle == queue = <<>>

(* A job pushed on an idle queue is started at once.                       *)
Push(writes) ==
    /\ queue' = queue \o writes
    /\ out' = IF QueueIdle /\ writes # <<>> THEN "sent" ELSE out
    /\ UNCHANGED missed

(* Broken: running stays set after the last job.                           *)
NextJobRunning ==
    /\ queue' = Tail(queue)
    /\ out' = "sent"
    /\ UNCHANGED missed

(* The job resolves: on to the next.                                       *)
NextJob ==
    /\ queue' = Tail(queue)
    /\ out' = IF Len(queue) > 1 THEN "sent" ELSE "none"
    /\ UNCHANGED missed

(* Owners that failed() or dropped() is called on.                         *)
Told == {queue[i].screen : i \in DOMAIN queue}

(* Broken: the exception ends the drain, the queue keeps its jobs.         *)
StopDraining ==
    /\ out' = "none"
    /\ missed' = Screens
    /\ UNCHANGED queue

(* The job rejects.                                                        *)
DropAll ==
    /\ queue' = <<>>
    /\ out' = "none"
    /\ missed' = Screens

(* A failure counter read now, to be compared later.                       *)
Mark(s) == missed' = missed \ {s} /\ UNCHANGED <<queue, out>>
===============================================================================
