--------------------------- MODULE ValidationScreen ---------------------------
(***************************************************************************)
(* An admin's validation screen on one company and month, and the exports  *)
(* asked from it, beside everybody's requests to the same server.  Each    *)
(* function of the screen that awaits is a task: a POST, which is one of   *)
(* the requests of Handlers, then the two statements of                    *)
(* GET /validations/company/:id, or the three of an export.  Tasks and     *)
(* requests run side by side, one statement at a time, and the answers     *)
(* arrive in any order.                                                    *)
(***************************************************************************)
EXTENDS Readings

CONSTANTS
    Me,             \* the admin at the screen
    Shown,          \* the company of the address
    Month,          \* the month of the address
    MaxAtOnce,      \* bound on functions that await at the same time
    MaxChanges,     \* bound on changes to the tables
    MaxTasks        \* bound on functions started

(* What the screen's buttons send.                                         *)
Post(op, u) ==
    [op |-> op, user |-> u, company |-> IF u = None THEN Shown ELSE None,
     month |-> Month, values |-> [h \in {} |-> Blank], row |-> None]

ASSUME ScreenAssumption ==
    /\ Me \in UserIds /\ Shown \in CompanyIds /\ Month \in Months
    /\ None \notin Requests
    /\ MaxAtOnce \in Nat /\ MaxChanges \in Nat /\ MaxTasks \in Nat

Tasks == 1..MaxAtOnce

VARIABLES
    data,           \* the last answer shown, or None
    err,            \* an error is shown in its place
    busy, exporting,
    reopening,      \* the cadre whose Réouvrir is disabled, or None
    tasks,
    changes,        \* changes to the tables so far
    started,        \* functions started so far
    outdated        \* history: who holds figures read too early to stay

screen == <<data, err, busy, exporting, reopening>>
screenVars == <<vars, screen, tasks, changes, started, outdated>>

NoTask == [kind |-> "none", pc |-> "idle", cadre |-> None, request |-> None,
           rows |-> None, sealed |-> FALSE, steady |-> FALSE]

TaskAt(t, pc) == tasks[t].pc = pc
Advance(t, pc) == tasks' = [tasks EXCEPT ![t].pc = pc]

(* Waiting in a dialog is not yet doing anything; an export shows nothing. *)
Working(t) == ~TaskAt(t, "idle") /\ ~TaskAt(t, "dialog") /\ tasks[t].kind # "export"
Alone(t) == \A o \in Tasks \ {t} : ~Working(o)

DialogOpen == \E t \in Tasks : TaskAt(t, "dialog")

Panel == data # None /\ ~err

StartTask(t, kind, cadre, pc) ==
    /\ TaskAt(t, "idle") /\ \A o \in 1..(t - 1) : ~TaskAt(o, "idle")
    /\ started < MaxTasks /\ started' = started + 1
    /\ tasks' = [tasks EXCEPT ![t] =
          [NoTask EXCEPT !.kind = kind, !.cadre = cadre, !.pc = pc]]

(* With nothing else on its way, the figures are to be read again: those   *)
(* on screen (Board), and those a load has read already.                   *)
Board == 0
Behind == {Board} \cup {t \in Tasks : tasks[t].pc \in {"sealed", "answer"}}
Burst(t) == outdated' = IF Alone(t) THEN Behind ELSE outdated

-------------------------------------------------------------------------------
(* The screen's buttons.                                                   *)

(* Réessayer: init again, which starts with the list of companies.         *)
Retry(t) ==
    /\ err /\ ~DialogOpen
    /\ StartTask(t, "open", None, "list") /\ Burst(t)
    /\ UNCHANGED <<vars, screen, changes>>

(* Validate or reopen: what the screen shows now is what is asked.         *)
ClickCompany(t) ==
    /\ Panel /\ ~DialogOpen /\ ~busy
    /\ ~data.sealed => AllValidated(data.rows)
    /\ StartTask(t, IF data.sealed THEN "unseal" ELSE "seal", None, "dialog")
    /\ UNCHANGED <<vars, screen, changes, outdated>>

ClickCadre(t) ==
    /\ Panel /\ ~DialogOpen /\ ~data.sealed
    /\ \E u \in DOMAIN data.rows :
          /\ data.rows[u].validated /\ reopening # u
          /\ StartTask(t, "cadre", u, "dialog")
    /\ UNCHANGED <<vars, screen, changes, outdated>>

Decline(t) ==
    /\ TaskAt(t, "dialog")
    /\ tasks' = [tasks EXCEPT ![t] = NoTask]
    /\ UNCHANGED <<vars, screen, changes, started, outdated>>

Confirm(t) ==
    /\ TaskAt(t, "dialog")
    /\ Advance(t, "post") /\ Burst(t)
    /\ IF tasks[t].kind = "cadre"
       THEN reopening' = tasks[t].cadre /\ busy' = busy
       ELSE busy' = TRUE /\ reopening' = reopening
    /\ UNCHANGED <<vars, data, err, exporting, changes, started>>

-------------------------------------------------------------------------------
(* The POST is a request like any other; a load follows whatever came of   *)
(* it.                                                                     *)

Asked(q) ==
    CASE q.kind = "seal"   -> Post("validateCompany", None)
      [] q.kind = "unseal" -> Post("reopenCompany", None)
      [] q.kind = "cadre"  -> Post("reopen", q.cadre)

Send(t) ==
    /\ TaskAt(t, "post") /\ tasks[t].request = None
    /\ Asked(tasks[t]) \in Jobs
    /\ \E r \in Requests : /\ Arrive(r, Me, Asked(tasks[t]))
                           /\ tasks' = [tasks EXCEPT ![t].request = r]
    /\ UNCHANGED <<screen, changes, started, outdated>>

(* load() clears the error before it asks.                                 *)
Loading(q) == [q EXCEPT !.pc = "rows", !.request = None]

(* Not sent, or no answer: what the server then still does is, to this     *)
(* screen, somebody else's change.                                         *)
Refused(t) ==
    /\ TaskAt(t, "post")
    /\ tasks' = [tasks EXCEPT ![t] = Loading(@)]
    /\ err' = FALSE
    /\ UNCHANGED <<vars, data, busy, exporting, reopening, changes, started, outdated>>

(* The write of a half-day of the month for a cadre of the company, at or  *)
(* past its ensure_writable.                                               *)
WritesHere(r) ==
    /\ requests[r].pc \in {"check", "write"}
    /\ requests[r].user \in ActiveCadres(Shown)
    /\ Month \in MonthsOf(requests[r].job)

(* ... has still to ask whether this company's month is open: the window   *)
(* between the check and the write is empty.                               *)
NoneChecked ==
    \A r \in Requests : WritesHere(r) =>
        /\ requests[r].pc = "check" /\ Month \in requests[r].todo
        /\ requests[r].company = Shown

(* History: a statement has run; does an export still describe one month?  *)
Watched(q) ==
    [q EXCEPT !.steady = @ /\ Validated(Shown, Month)'
                           /\ ActiveCadres(Shown)' = ActiveCadres(Shown)]

Ends(t, r) == tasks[t].request = r /\ requests'[r].pc = "idle"

(* One statement of anybody's request, this screen's own among them: the   *)
(* answer to its POST starts the load.  Nobody else asks for anything once *)
(* the bound on changes is met.                                            *)
Serve(r) ==
    /\ At(r, "idle") => changes < MaxChanges
    /\ Step(r)
    /\ changes' = IF tables' = tables THEN changes ELSE changes + 1
    /\ changes' <= MaxChanges
    /\ tasks' = [t \in Tasks |->
          IF Ends(t, r) THEN Loading(tasks[t]) ELSE Watched(tasks[t])]
    /\ err' = (err /\ \A t \in Tasks : ~Ends(t, r))
    /\ outdated' = IF \E t \in Tasks : Ends(t, r) /\ Alone(t) THEN Behind ELSE outdated
    /\ UNCHANGED <<data, busy, exporting, reopening, started>>

-------------------------------------------------------------------------------
(* init and load: the list of companies, then the figures of one.          *)

(* The company is not there any more: another address.                     *)
ReadList(t) ==
    /\ TaskAt(t, "list")
    /\ IF Shown \in companies
       THEN /\ tasks' = [tasks EXCEPT ![t] = Loading(@)]
            /\ err' = FALSE /\ data' = data
       ELSE /\ tasks' = [tasks EXCEPT ![t] = NoTask]
            /\ data' = None /\ err' = err
    /\ UNCHANGED <<vars, busy, exporting, reopening, changes, started, outdated>>

ReadRows(t) ==
    /\ TaskAt(t, "rows")
    /\ tasks' = [tasks EXCEPT ![t].pc = "sealed",
                              ![t].rows = CadreRows(Shown, Month)]
    /\ outdated' = outdated \ {t}
    /\ UNCHANGED <<vars, screen, changes, started>>

ReadSealed(t) ==
    /\ TaskAt(t, "sealed")
    /\ tasks' = [tasks EXCEPT ![t].pc = "answer",
                              ![t].sealed = Validated(Shown, Month)]
    /\ UNCHANGED <<vars, screen, changes, started, outdated>>

(* finally: the button that started the task comes back.                   *)
Finish(t) ==
    /\ tasks' = [tasks EXCEPT ![t] = NoTask]
    /\ busy' = IF tasks[t].kind \in {"seal", "unseal"} THEN FALSE ELSE busy
    /\ reopening' = IF tasks[t].kind = "cadre" THEN None ELSE reopening

Figures(q) == [rows |-> q.rows, sealed |-> q.sealed]

Answered(t) ==
    /\ TaskAt(t, "answer")
    /\ data' = Figures(tasks[t])
    /\ outdated' = IF t \in outdated THEN (outdated \ {t}) \cup {Board}
                                     ELSE outdated \ {Board}
    /\ Finish(t)
    /\ UNCHANGED <<vars, err, exporting, changes, started>>

LoadIsOut(t) == tasks[t].pc \in {"list", "rows", "sealed", "answer"}

(* Broken: a load that throws leaves its finally block unfinished.         *)
LoadThrows(t) ==
    /\ LoadIsOut(t)
    /\ err' = TRUE
    /\ tasks' = [tasks EXCEPT ![t] = NoTask]
    /\ UNCHANGED <<vars, data, busy, exporting, reopening, changes, started, outdated>>

(* Broken: the failure of a load is not shown.                             *)
LoadFailsQuietly(t) ==
    /\ LoadIsOut(t)
    /\ Finish(t)
    /\ UNCHANGED <<vars, data, err, exporting, changes, started, outdated>>

LoadFails(t) ==
    /\ LoadIsOut(t)
    /\ err' = TRUE
    /\ Finish(t)
    /\ UNCHANGED <<vars, data, exporting, changes, started, outdated>>

-------------------------------------------------------------------------------
(* Exports: the company, its cadres, their entries.                        *)

Export(t) ==
    /\ Panel /\ ~DialogOpen /\ ~exporting
    /\ exporting' = TRUE
    /\ StartTask(t, "export", None, "company")
    /\ UNCHANGED <<vars, data, err, busy, reopening, changes, outdated>>

FindCompany(t) ==
    /\ TaskAt(t, "company")
    /\ Shown \in companies
    /\ tasks' = [tasks EXCEPT ![t].pc = "cadres",
                              ![t].steady = Validated(Shown, Month) /\ NoneChecked]
    /\ UNCHANGED <<vars, screen, changes, started, outdated>>

ListCadres(t) ==
    /\ TaskAt(t, "cadres")
    /\ tasks' = [tasks EXCEPT ![t].pc = "entries", ![t].rows = Listed(Shown)]
    /\ UNCHANGED <<vars, screen, changes, started, outdated>>

Fill(t) ==
    /\ TaskAt(t, "entries")
    /\ tasks' = [tasks EXCEPT ![t].pc = "file",
                              ![t].rows = Sheet(@, Found(Shown, Month), Month)]
    /\ UNCHANGED <<vars, screen, changes, started, outdated>>

(* The file is downloaded, or the export failed at one of its steps.       *)
ExportEnds(t) ==
    /\ tasks[t].kind = "export"
    /\ tasks' = [tasks EXCEPT ![t] = NoTask]
    /\ exporting' = FALSE
    /\ UNCHANGED <<vars, data, err, busy, reopening, changes, started, outdated>>

-------------------------------------------------------------------------------
ScreenInit ==
    /\ Init
    /\ data = None /\ err = FALSE
    /\ busy = FALSE /\ exporting = FALSE /\ reopening = None
    /\ tasks = [t \in Tasks |->
          IF t = 1 THEN [NoTask EXCEPT !.kind = "open", !.pc = "list"] ELSE NoTask]
    /\ changes = 0 /\ started = 1 /\ outdated = {}

Reading(t) ==
    \/ Send(t) \/ Refused(t)
    \/ ReadList(t) \/ ReadRows(t) \/ ReadSealed(t) \/ Answered(t) \/ LoadFails(t)
    \/ FindCompany(t) \/ ListCadres(t) \/ Fill(t) \/ ExportEnds(t)

Clicking(t) ==
    \/ Retry(t) \/ ClickCompany(t) \/ ClickCadre(t) \/ Decline(t) \/ Confirm(t)
    \/ Export(t)

ScreenNext ==
    \/ \E t \in Tasks : Clicking(t) \/ Reading(t)
    \/ \E r \in Requests : Serve(r)

ScreenSpec == ScreenInit /\ [][ScreenNext]_screenVars

-------------------------------------------------------------------------------
ScreenTypeOK ==
    /\ data # None => /\ DOMAIN data.rows \subseteq UserIds
                      /\ data.sealed \in BOOLEAN
    /\ <<err, busy, exporting>> \in BOOLEAN \X BOOLEAN \X BOOLEAN
    /\ reopening \in UserIds \cup {None}
    /\ busy <=> \E t \in Tasks : tasks[t].kind \in {"seal", "unseal"} /\ Working(t)
    /\ exporting <=> \E t \in Tasks : tasks[t].kind = "export"
    /\ outdated \subseteq {Board} \cup Tasks
    /\ \A t \in Tasks : tasks[t].request # None =>
          TaskAt(t, "post") /\ ~At(tasks[t].request, "idle")

(* A file made while the month stays validated for the company and its     *)
(* cadres stay the same is, in the end, exactly what the tables hold, as   *)
(* long as no write to it had passed its check before the export began:    *)
(* one that had may still land, whenever the company was validated         *)
(* (attendance.rs:90 and 164).  The three statements of an export then add *)
(* up to a snapshot, whatever the other requests do (export/mod.rs load,   *)
(* README's third rule).                                                   *)
ValidatedFileExact ==
    \A t \in Tasks : TaskAt(t, "file") /\ tasks[t].steady =>
        tasks[t].rows = [u \in ActiveCadres(Shown) |->
                            [h \in HalfDaysOf(Month) |-> entries[u][h]]]

(* Once nothing is on its way, the figures on screen, if any are, were     *)
(* read after the last POST that was answered while nothing else was on    *)
(* its way, and after the first of those that overlapped was sent.  A      *)
(* later answer may still be replaced by an earlier one: load() has no     *)
(* request number (Validation.svelte:51-60).                               *)
FiguresAreNew ==
    Panel /\ (\A t \in Tasks : ~Working(t)) => Board \notin outdated
===============================================================================
