---------------------------- MODULE PlanningScreen ----------------------------
(***************************************************************************)
(* The planning screens of the web interface over one planning (a user and *)
(* a month): each opening of it is a new store with its own copy of the    *)
(* entries; all share the write queue, the confirmation dialog and the     *)
(* undo offer.  Edits show at once and are written behind; a failed write  *)
(* makes the copy stale until a reload; a validation (by a cadre) or a     *)
(* reopening (by an admin on another's planning) waits for the writes.     *)
(*                                                                         *)
(* The server's answers, losses and timeouts and the other users' actions  *)
(* come in any order between two events of the page.                       *)
(***************************************************************************)
EXTENDS WriteQueue, FiniteSets

CONSTANTS
    Admin,         \* the signed-in user is an admin
    ViewingOther,  \* the planning is not the signed-in user's own
    None,
    MaxActs,       \* bound: what the user does
    MaxFaults,     \* bound: requests whose answer never comes
    MaxLate,       \* bound: those the server completes after the client left
    MaxElsewhere   \* bound: changes made by somebody else

ASSUME PlanningAssumption ==
    /\ Admin \in BOOLEAN
    /\ ViewingOther \in BOOLEAN
    /\ ViewingOther => Admin
    /\ None \notin Change \cup Planning \cup Screens
    /\ {MaxActs, MaxFaults, MaxLate, MaxElsewhere} \subseteq Nat

VARIABLES
    entries,     \* server: attendance_entries of the planning
    validated,   \* server: month_locks.cadre_validated
    shut,        \* server: the month is validated for the company
    late,        \* server: requests still running whose client gave up
    store,       \* each screen's PlanningStore and busy flag
    loads,       \* calls of load() under way
    screen,      \* the screen shown
    dialog,      \* the confirmation on screen, or None
    toast,       \* the screen whose undo offer is on screen, or None
    prior,       \* history: each copy before the action its undo reverts
    agreed,      \* history: each copy when a validation was last asked for
    told,        \* history: screens that have not shown a lock state read
                 \* since their validation or reopening was confirmed
    theirs,      \* history: half-days somebody else has written since the
                 \* entries each screen shows were read
    since,       \* history: the same, since its latest load read them
    spent        \* what is used of each bound

server == <<entries, validated, shut, late>>
page == <<screen, dialog, toast>>
history == <<prior, agreed, told, theirs, since>>
vars == <<writeVars, server, store, loads, page, history, spent>>

Flags == [editable : BOOLEAN, validated : BOOLEAN, shut : BOOLEAN]

(* busy is phase # "none": waiting for the writes, request out (unanswered *)
(* by the server, done or refused), reloading.                             *)
Phases == {"none", "settling", "sent", "done", "refused", "reloading"}

Store == [data  : Flags \cup {None},
          map   : Planning,
          error : BOOLEAN,               \* loadError
          stale : BOOLEAN,
          undo  : Change \cup {None},    \* what puts the copy back
          phase : Phases]

(* latest: req = this.#req; dirty: edits # this.#edits.  The two queries   *)
(* of GET /attendance run side by side.                                    *)
Load == [screen  : Screens,
         latest  : BOOLEAN,
         awaited : BOOLEAN,              \* by the end of validate() or reopen()
         sent    : BOOLEAN,
         dirty   : BOOLEAN,
         old     : BOOLEAN,              \* sent before the lock was confirmed
         rows    : Planning \cup {None},
         flags   : Flags \cup {None}]

Dialog == [screen : Screens, about : {"clear", "lock"}]

Late == [what : {"write", "lock"}, values : Change]

Bounds == [acts |-> MaxActs, faults |-> MaxFaults, elsewhere |-> MaxElsewhere]

Spend(what) == spent[what] < Bounds[what] /\ spent' = [spent EXCEPT ![what] = @ + 1]

EmptyPlanning == [h \in Halves |-> Blank]

Filled(map) == {h \in Halves : map[h] # Blank}

NewStore == [data |-> None, map |-> EmptyPlanning, error |-> FALSE,
             stale |-> FALSE, undo |-> None, phase |-> "none"]

NewLoad(s, awaited) ==
    [screen |-> s, latest |-> TRUE, awaited |-> awaited, sent |-> FALSE,
     dirty |-> FALSE, old |-> FALSE, rows |-> None, flags |-> None]

-------------------------------------------------------------------------------
(* What the screen lets the user do.                                       *)

Busy(s) == store[s].phase # "none"

(* Broken: a failed write leaves the grid open.                            *)
LockedByServer(s) == store[s].data = None \/ ~store[s].data.editable

Locked(s) ==
    \/ store[s].data = None
    \/ ~store[s].data.editable
    \/ store[s].stale

(* Broken: the grid stays open while a validation is sent.                 *)
FrozenByLock(s) == Locked(s)

Frozen(s) == Locked(s) \/ Busy(s)

CanLock(s) ==
    /\ store[s].data # None
    /\ ~store[s].data.shut
    /\ store[s].data.validated = ViewingOther
    /\ ~Busy(s)
    /\ ~store[s].stale

Editable == ~shut /\ (Admin \/ ~validated)

-------------------------------------------------------------------------------
(* Helpers on loads.                                                       *)

(* load() by each screen of S: the earlier calls of those screens lose.    *)
Reload(ls, S, awaited) ==
    {[l EXCEPT !.latest = @ /\ l.screen \notin S] : l \in ls}
        \cup {NewLoad(s, awaited) : s \in S}

(* A local edit: the loads whose request is out miss it.                   *)
Edited(ls, s) == {[l EXCEPT !.dirty = @ \/ (l.screen = s /\ l.sent)] : l \in ls}

(* A screen after load() returned without news: it may have been awaited.  *)
Returned(st, l) ==
    IF l.awaited THEN [st EXCEPT !.phase = "none"] ELSE st

SetStore(s, st) == store' = [store EXCEPT ![s] = st]

(* Promise continuations run before the next event of the page.            *)
Continuing ==
    /\ QueueIdle
    /\ \/ \E l \in loads : ~l.sent
       \/ \E s \in Screens : store[s].phase = "settling"

UserActs == ~Continuing /\ Spend("acts")

-------------------------------------------------------------------------------
(* The user edits.                                                         *)

Upserts(change) == {h \in DOMAIN change : change[h] # Blank}

(* One request per kind of write: upserts, then clears.                    *)
ToWrites(s, change) ==
    LET Part(H) == IF H = {} THEN <<>>
                   ELSE <<[screen |-> s, values |-> Restrict(change, H)]>>
    IN  Part(Upserts(change)) \o Part(DOMAIN change \ Upserts(change))

Effective(change, map) ==
    Restrict(change, {h \in DOMAIN change : map[h] # change[h]})

(* Broken: undo puts back what the action wrote.                           *)
SnapshotOfChange(change, map) == change

Snapshot(change, map) == Restrict(map, DOMAIN change)

(* Applies a change on the copy of s, queues its writes and offers undo.   *)
Apply(s, change, writes) ==
    /\ SetStore(s, [store[s] EXCEPT !.map = Over(change, @),
                                    !.undo = Snapshot(change, store[s].map)])
    /\ prior' = [prior EXCEPT ![s] = store[s].map]
    /\ toast' = s
    /\ loads' = Edited(loads, s)
    /\ Push(writes)
    /\ UNCHANGED <<server, screen, agreed, told, theirs, since>>

(* A click, a brush stroke or « Remplir »: the same status for all keys.   *)
Commit(H, status) ==
    LET change == Effective([h \in H |-> status], store[screen].map) IN
    /\ dialog = None
    /\ ~Frozen(screen)
    /\ DOMAIN change # {}
    /\ UserActs
    /\ Apply(screen, change, ToWrites(screen, change))
    /\ UNCHANGED dialog

(* The button of the message asks nothing; Ctrl+Z asks for ~frozen.        *)
Undo(s) ==
    LET change == store[s].undo IN
    /\ dialog = None
    /\ toast = s \/ (s = screen /\ ~Frozen(s))
    /\ change # None
    /\ UserActs
    /\ SetStore(s, [store[s] EXCEPT !.map = Over(change, @), !.undo = None])
    /\ toast' = None
    /\ loads' = Edited(loads, s)
    /\ Push(ToWrites(s, change))
    /\ UNCHANGED <<server, screen, dialog, history>>

(* Broken: Ctrl+Z outlives the offer.                                      *)
ExpireOffer ==
    /\ toast # None
    /\ toast' = None
    /\ UNCHANGED <<writeVars, server, store, loads, screen, dialog, history, spent>>

(* After 8 seconds.                                                        *)
Expire ==
    /\ ~Continuing
    /\ toast # None
    /\ toast' = None
    /\ SetStore(toast, [store[toast] EXCEPT !.undo = None])
    /\ UNCHANGED <<writeVars, server, loads, screen, dialog, history, spent>>

-------------------------------------------------------------------------------
(* Confirmations: modal, but the browser can still go back under them.     *)

AskClear ==
    /\ dialog = None
    /\ ~Frozen(screen)
    /\ Filled(store[screen].map) # {}
    /\ UserActs
    /\ dialog' = [screen |-> screen, about |-> "clear"]
    /\ UNCHANGED <<writeVars, server, store, loads, screen, toast, history>>

AskLock ==
    /\ dialog = None
    /\ CanLock(screen)
    /\ UserActs
    /\ dialog' = [screen |-> screen, about |-> "lock"]
    /\ Mark(screen)
    /\ agreed' = [agreed EXCEPT ![screen] = store[screen].map]
    /\ UNCHANGED <<server, store, loads, screen, toast, prior, told, theirs, since>>

Decline ==
    /\ ~Continuing
    /\ dialog # None
    /\ dialog' = None
    /\ UNCHANGED <<writeVars, server, store, loads, screen, toast, history, spent>>

(* « Tout effacer »: one DELETE for the month, whatever became of it since. *)
ConfirmClear ==
    /\ ~Continuing
    /\ dialog # None
    /\ dialog.about = "clear"
    /\ dialog' = None
    /\ UNCHANGED spent
    /\ LET s == dialog.screen
           filled == Filled(store[s].map)
       IN  IF Frozen(s) \/ filled = {}
           THEN UNCHANGED <<writeVars, server, store, loads, screen, toast, history>>
           ELSE Apply(s, [h \in filled |-> Blank],
                      <<[screen |-> s, values |-> EmptyPlanning]>>)

ConfirmLock ==
    /\ ~Continuing
    /\ dialog # None
    /\ dialog.about = "lock"
    /\ dialog' = None
    /\ SetStore(dialog.screen, [store[dialog.screen] EXCEPT !.undo = None,
                                                            !.phase = "settling"])
    /\ toast' = None
    /\ UNCHANGED <<writeVars, server, loads, screen, history, spent>>

-------------------------------------------------------------------------------
(* Promise continuations.                                                  *)

(* load() goes past writes.idle().                                         *)
StartGet(l) ==
    /\ QueueIdle
    /\ ~l.sent
    /\ IF l.latest
       THEN /\ loads' = (loads \ {l}) \cup {[l EXCEPT !.sent = TRUE]}
            /\ UNCHANGED store
       ELSE /\ loads' = loads \ {l}
            /\ SetStore(l.screen, Returned(store[l.screen], l))
    /\ UNCHANGED <<writeVars, server, page, history, spent>>

(* Broken: waits for the queue without asking what became of the writes.   *)
SendLockWhenIdle(s) ==
    /\ QueueIdle
    /\ store[s].phase = "settling"
    /\ SetStore(s, [store[s] EXCEPT !.phase = "sent"])
    /\ UNCHANGED <<writeVars, server, loads, page, history, spent>>

(* validate() and reopen() go past writes.settled(mark).                   *)
SendLock(s) ==
    /\ QueueIdle
    /\ store[s].phase = "settling"
    /\ IF s \in missed \/ store[s].stale
       THEN /\ SetStore(s, [store[s] EXCEPT !.phase = "reloading"])
            /\ loads' = Reload(loads, {s}, TRUE)
       ELSE /\ SetStore(s, [store[s] EXCEPT !.phase = "sent"])
            /\ UNCHANGED loads
    /\ UNCHANGED <<writeVars, server, page, history, spent>>

-------------------------------------------------------------------------------
(* Writes at the server, and their answers.                                *)

ServeWrite ==
    /\ out = "sent"
    /\ IF Editable
       THEN out' = "done" /\ entries' = Over(Head(queue).values, entries)
       ELSE out' = "refused" /\ UNCHANGED entries
    /\ UNCHANGED <<queue, missed, validated, shut, late, store, loads, page, history, spent>>

WriteAnswered ==
    /\ out = "done"
    /\ NextJob
    /\ UNCHANGED <<server, store, loads, page, history, spent>>

(* failed() on the owner, dropped() on the owners of the writes dropped:   *)
(* stale, no undo any more, reload.                                        *)
WriteFails ==
    /\ DropAll
    /\ store' = [s \in Screens |->
                    IF s \in Told
                    THEN [store[s] EXCEPT !.stale = TRUE, !.undo = None]
                    ELSE store[s]]
    /\ toast' = None
    /\ loads' = Reload(loads, Told, FALSE)
    /\ UNCHANGED <<screen, dialog, history>>

WriteRefused ==
    /\ out = "refused"
    /\ WriteFails
    /\ UNCHANGED <<server, spent>>

(* The server finishes what the client has given up waiting for.           *)
MayLand(what, values) ==
    \/ UNCHANGED late
    \/ /\ Cardinality(late) < MaxLate
       /\ late' = late \cup {[what |-> what, values |-> values]}

(* A lost connection, or 15 seconds without an answer.                     *)
WriteLost ==
    /\ out # "none"
    /\ Spend("faults")
    /\ WriteFails
    /\ IF out = "sent" THEN MayLand("write", Head(queue).values) ELSE UNCHANGED late
    /\ UNCHANGED <<entries, validated, shut>>

LockAllowed == ViewingOther \/ ~shut

Land(w) ==
    /\ w \in late
    /\ late' = late \ {w}
    /\ \/ /\ w.what = "write" /\ Editable
          /\ entries' = Over(w.values, entries)
          /\ UNCHANGED validated
       \/ /\ w.what = "lock" /\ LockAllowed
          /\ validated' = ~ViewingOther
          /\ UNCHANGED entries
       \/ UNCHANGED <<entries, validated>>
    /\ UNCHANGED <<writeVars, shut, store, loads, page, history, spent>>

-------------------------------------------------------------------------------
(* Validation by the cadre, reopening by an admin.                         *)

ServeLock(s) ==
    /\ store[s].phase = "sent"
    /\ IF LockAllowed
       THEN /\ validated' = ~ViewingOther
            /\ SetStore(s, [store[s] EXCEPT !.phase = "done"])
       ELSE /\ SetStore(s, [store[s] EXCEPT !.phase = "refused"])
            /\ UNCHANGED validated
    /\ UNCHANGED <<writeVars, entries, shut, late, loads, page, history, spent>>

(* Either way, finally reloads and keeps busy until then.                  *)
EndLock(s) ==
    /\ SetStore(s, [store[s] EXCEPT !.phase = "reloading"])
    /\ UNCHANGED <<writeVars, entries, validated, shut, page, prior, agreed,
                   theirs, since>>

LockAnswered(s) ==
    /\ store[s].phase \in {"done", "refused"}
    /\ EndLock(s)
    /\ IF store[s].phase = "done"
       THEN /\ told' = told \cup {s}
            /\ loads' = Reload({[l EXCEPT !.old = @ \/ (l.screen = s /\ l.sent)]
                                : l \in loads}, {s}, TRUE)
       ELSE loads' = Reload(loads, {s}, TRUE) /\ UNCHANGED told
    /\ UNCHANGED <<late, spent>>

LockLost(s) ==
    /\ store[s].phase \in {"sent", "done", "refused"}
    /\ Spend("faults")
    /\ EndLock(s)
    /\ loads' = Reload(loads, {s}, TRUE)
    /\ IF store[s].phase = "sent"
       THEN MayLand("lock", Restrict(entries, {}))
       ELSE UNCHANGED late
    /\ UNCHANGED told

-------------------------------------------------------------------------------
(* Loads.                                                                  *)

ReadRows(l) ==
    /\ l.sent
    /\ l.rows = None
    /\ loads' = (loads \ {l}) \cup {[l EXCEPT !.rows = entries]}
    /\ since' = IF l.latest THEN [since EXCEPT ![l.screen] = {}] ELSE since
    /\ UNCHANGED <<writeVars, server, store, page, prior, agreed, told, theirs,
                   spent>>

ReadFlags(l) ==
    /\ l.sent
    /\ l.flags = None
    /\ loads' = (loads \ {l}) \cup
                {[l EXCEPT !.flags = [editable |-> Editable, validated |-> validated,
                                      shut |-> shut]]}
    /\ UNCHANGED <<writeVars, server, store, page, history, spent>>

Answered(l) == l.rows # None /\ l.flags # None

Shown(st, l) == [st EXCEPT !.data = l.flags, !.map = l.rows, !.error = FALSE,
                           !.stale = FALSE]

LoadAnswered(l) ==
    LET s == l.screen IN
    /\ Answered(l)
    /\ IF ~l.latest
       THEN /\ loads' = loads \ {l}
            /\ SetStore(s, Returned(store[s], l))
            /\ UNCHANGED <<told, theirs>>
       ELSE IF l.dirty
       THEN /\ loads' = Reload(loads \ {l}, {s}, l.awaited)
            /\ UNCHANGED <<store, told, theirs>>
       ELSE /\ loads' = loads \ {l}
            /\ SetStore(s, Returned(Shown(store[s], l), l))
            /\ told' = IF l.old THEN told ELSE told \ {s}
            /\ theirs' = [theirs EXCEPT ![s] = since[s]]
    /\ UNCHANGED <<writeVars, server, page, prior, agreed, since, spent>>

(* Broken: a failed reload leaves the screen as it was.                    *)
LoadLostQuietly(l) ==
    /\ l.sent
    /\ Spend("faults")
    /\ loads' = loads \ {l}
    /\ SetStore(l.screen, Returned([store[l.screen] EXCEPT !.error = TRUE], l))
    /\ UNCHANGED <<writeVars, server, page, history>>

(* Broken: busy is not reset when the reload fails.                        *)
LoadLostBusy(l) ==
    /\ l.sent
    /\ Spend("faults")
    /\ loads' = loads \ {l}
    /\ SetStore(l.screen, [store[l.screen] EXCEPT !.error = TRUE, !.stale = TRUE])
    /\ UNCHANGED <<writeVars, server, page, history>>

LoadLost(l) ==
    LET s == l.screen
        failed == [store[s] EXCEPT !.error = TRUE, !.stale = @ \/ store[s].data # None]
    IN  /\ l.sent
        /\ Spend("faults")
        /\ loads' = loads \ {l}
        /\ SetStore(s, Returned(IF l.latest THEN failed ELSE store[s], l))
        /\ UNCHANGED <<writeVars, server, page, history>>

(* « Réessayer ».                                                          *)
Retry ==
    /\ dialog = None
    /\ store[screen].error
    /\ store[screen].data = None \/ store[screen].stale
    /\ UserActs
    /\ loads' = Reload(loads, {screen}, FALSE)
    /\ UNCHANGED <<writeVars, server, store, page, history>>

-------------------------------------------------------------------------------
(* The planning is left and opened again; what the old screen has started  *)
(* goes on.                                                                *)
Reopen ==
    /\ screen < LastScreen
    /\ UserActs
    /\ screen' = screen + 1
    /\ SetStore(screen, [store[screen] EXCEPT !.undo = None])
    /\ toast' = None
    /\ loads' = Reload(loads, {screen + 1}, FALSE)
    /\ UNCHANGED <<writeVars, server, dialog, history>>

(* Somebody else, or the same user in another tab, writes to the planning. *)
WriteElsewhere(change) ==
    /\ DOMAIN change # {}
    /\ entries' = Over(change, entries)
    /\ theirs' = [s \in Screens |-> theirs[s] \cup DOMAIN change]
    /\ since' = [s \in Screens |-> since[s] \cup DOMAIN change]

(* They write, or validate or reopen the month, or the company's. Their    *)
(* requests check in a statement before (Handlers): nothing that holds now *)
(* keeps them from it.                                                     *)
Elsewhere ==
    /\ Spend("elsewhere")
    /\ \/ shut' = ~shut /\ UNCHANGED <<validated, entries, theirs, since>>
       \/ validated' = ~validated /\ UNCHANGED <<shut, entries, theirs, since>>
       \/ /\ \E change \in Change : WriteElsewhere(change)
          /\ UNCHANGED <<shut, validated>>
    /\ UNCHANGED <<writeVars, late, store, loads, page, prior, agreed, told>>

-------------------------------------------------------------------------------
Init ==
    /\ WriteQueueInit
    /\ entries \in Planning
    /\ validated \in BOOLEAN
    /\ shut \in BOOLEAN
    /\ late = {}
    /\ store = [s \in Screens |-> NewStore]
    /\ loads = {NewLoad(1, FALSE)}
    /\ screen = 1
    /\ dialog = None
    /\ toast = None
    /\ prior = [s \in Screens |-> EmptyPlanning]
    /\ agreed = [s \in Screens |-> EmptyPlanning]
    /\ told = {}
    /\ theirs = [s \in Screens |-> {}]
    /\ since = [s \in Screens |-> {}]
    /\ spent = [acts |-> 0, faults |-> 0, elsewhere |-> 0]

Continue ==
    \/ \E l \in loads : StartGet(l)
    \/ \E s \in Screens : SendLock(s)

User ==
    \/ \E H \in SUBSET Halves, v \in Values : Commit(H, v)
    \/ \E s \in Screens : Undo(s)
    \/ Expire
    \/ AskClear \/ AskLock \/ Decline \/ ConfirmClear \/ ConfirmLock
    \/ Retry \/ Reopen

(* Everything that ends a request or reads for one.                        *)
Network ==
    \/ ServeWrite \/ WriteAnswered \/ WriteRefused \/ WriteLost
    \/ \E s \in Screens : ServeLock(s) \/ LockAnswered(s) \/ LockLost(s)
    \/ \E l \in loads : ReadRows(l) \/ ReadFlags(l) \/ LoadAnswered(l) \/ LoadLost(l)

Next ==
    \/ Continue
    \/ User
    \/ Network
    \/ Elsewhere
    \/ \E w \in late : Land(w)

Spec == Init /\ [][Next]_vars

(* A continuation always runs, and fetch ends within its 15 seconds.       *)
Fairness == WF_vars(Continue) /\ WF_vars(Network)

FairSpec == Spec /\ Fairness

-------------------------------------------------------------------------------
TypeOK ==
    /\ WriteQueueTypeOK
    /\ entries \in Planning
    /\ validated \in BOOLEAN
    /\ shut \in BOOLEAN
    /\ late \in SUBSET Late
    /\ store \in [Screens -> Store]
    /\ loads \in SUBSET Load
    /\ screen \in Screens
    /\ dialog \in Dialog \cup {None}
    /\ toast \in Screens \cup {None}
    /\ prior \in [Screens -> Planning]
    /\ agreed \in [Screens -> Planning]
    /\ told \in SUBSET Screens
    /\ theirs \in [Screens -> SUBSET Halves]
    /\ since \in [Screens -> SUBSET Halves]
    /\ out = "none" <=> QueueIdle

(* "Read-only while the screen may show entries the server does not have"  *)
(* (Planning.svelte:44): a screen that can be edited shows the server's    *)
(* entries with its queued writes on top, on every half-day nobody else    *)
(* has written since the answer it shows was read. An admin, or another    *)
(* tab, is not announced to the screen: it shows their writes when it      *)
(* loads again.                                                            *)
ShowsWhatIsSaved ==
    ~Locked(screen) =>
        \A h \in Halves \ theirs[screen] : store[screen].map[h] = Ahead(entries)[h]

(* Undo, whose button does not ask whether the planning may be edited, is  *)
(* only ever offered where it may, and puts the copy back as it was before *)
(* the action it reverts: no load came between (planning.svelte.ts undo).  *)
UndoReverts ==
    \A s \in Screens : store[s].undo # None =>
        /\ ~Frozen(s)
        /\ Over(store[s].undo, store[s].map) = prior[s]

(* "Ctrl+Z works as long as the offer is on screen": the screen shown has  *)
(* something to undo exactly while its offer is displayed.                 *)
UndoWhileOffered == store[screen].undo # None <=> toast = screen

(* "The grid stays frozen until the new lock state is on screen": once the *)
(* server has confirmed a validation or a reopening, the screen that sent  *)
(* it takes no edit before it shows a lock state read after that.          *)
FrozenUntilShown == \A s \in told : Frozen(s)

(* "Edited while the request was out: the answer misses those writes"      *)
(* (planning.svelte.ts:48): not of the load that is going to be shown, for *)
(* a screen that waits for one takes no edit.                              *)
NoEditUnderLoad == \A l \in loads : l.latest => ~l.dirty

(* A validation locks the entries its author had on screen when asking for *)
(* it: none of the author's writes was lost or still on its way            *)
(* (Planning.svelte:102-113). What others wrote since that screen's        *)
(* entries were read is locked as they wrote it, unseen.                   *)
ValidatedAsShown ==
    [][\A s \in Screens :
          store[s].phase = "sent" /\ store'[s].phase = "done"
          => \A h \in Halves \ theirs[s] : entries[h] = agreed[s][h]]_vars

(* "No write while a validation or reopening is being sent: it would get a *)
(* 423" (Planning.svelte:70).                                              *)
NoWriteDuringLock == (\E s \in Screens : store[s].phase = "sent") => QueueIdle

(* Every write is sent, refused or dropped, and every validation or        *)
(* reopening gives the screen back.                                        *)
QueueDrains == []<>QueueIdle

Unfreezes == \A s \in Screens : Busy(s) ~> ~Busy(s)
===============================================================================
