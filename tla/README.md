# Presencia: a verification project

Presencia is an attendance tracker: *cadres* (salaried staff) enter a status for
each half-day, validate their month, and an administrator validates the month of
the whole company. It is a Rust server (`src/server`) over PostgreSQL and a
Svelte interface (`src/web`). These TLA+ modules model its state-changing parts,
TLC checks them on small instances, and TLAPS proves the main results for every
size. Paths below are relative to the repository (`src/` in the project map).

## 1. Inventory

| Component | State | Operations | What makes it hard |
|---|---|---|---|
| PostgreSQL schema (`server/migrations`) | users, companies, attendance entries, month locks, company validations | one statement at a time | foreign keys, cascades; no transaction is ever opened |
| Router, mounts (`routes/mod.rs`) | none | authenticate, check the role, run a handler | role and company are read once and used later |
| Attendance handlers (`routes/attendance.rs`) | locals of a request | put, bulk, delete, bulk_delete, delete_month, get, history | check and write are separate statements |
| Validation handlers (`routes/validations.rs`) | locals of a request | cadre, cadre_reopen, company_validate, company_reopen, overviews | count and validation are separate statements |
| Accounts and companies (`routes/users.rs`, `companies.rs`) | locals of a request | create, update, delete | rows vanish under requests that hold their ids |
| Request life cycle (`lib.rs`, `main.rs`) | one task per request | 300 s limit; goes on when the client leaves | late effects, failures at any await |
| Sign-in, sessions, limiter (`auth.rs`, `routes/auth.rs`, `limiter.rs`) | counters, `password_changed_at`, tokens | login, logout, me, password | asynchronous check then record; windows; whole seconds |
| Start-up (`bootstrap.rs`) | schema, secret, first admin | bootstrap | crashes, two instances |
| Exports (`export/`) | none | three reads, then a document | unsynchronised reads |
| Validation screen (`Validation.svelte`), other screens' figures | rows and history on screen, several functions suspended at once | init, load, validateCompany, reopenCadre, export | loads without request numbers, figures of two queries |
| Write queue (`web/src/lib/logic/queue.ts`) | jobs, running, failures | push, idle, mark, settled, drain | failures drop what waits; must always drain |
| Planning store and undo (`planning.svelte.ts`, `undo.ts`, `toast.svelte.ts`) | entries on screen, stale, one undo | load, commit, clearMonth, undo, failed, dropped | optimistic display, late answers |
| Planning screen (`Planning.svelte`) | busy, dialog | validate, reopen, clear, fill | read before await, used after |
| Other screens, page session, logout | lists, request numbers | load, save, toggle, logout | late answers, queue against logout |
| Dates, grid, totals, parsing | none | pure functions | boundaries |

The components meet in few places. The interface sends its writes through one
queue; the server runs each request in its own task; handlers share nothing but
the tables. So the hazards are: statements of several requests in any order
(server), answers, failures and user actions in any order (page), attempts that
overlap at the limiter, and starts that race on one database. `PROJECT.json`
lists each at its line, with the properties that cover it or why none does.

## 2. Modules

**`Tables`** holds the database: `users`, `companies`, `entries`, `locked`
(`month_locks.cadre_validated`), `validatedBy` (`admin_validated_by` of a valid
`company_month_validations` row, else `None`: a missing row and a false one read
the same) and `issued`, the ids SERIAL has handed out (never reused). Each
operator `InsertUser` ... `SetValidation` is one SQL statement with its keys:
deleting a user cascades to entries and locks and is refused while they authored
a validation; deleting a company unsets it in its users and drops its
validations. A half-day stands for a (date, period) pair and `MonthOf` gives its
month.

**`Handlers`** is the server. `requests[r]` holds what a request in flight has in
its locals: `pc`, the next statement, `by` and `admin` as `authenticate` read
them, `user` and `company` as `resolve_target` (or `cadre`) read them, and the
months a bulk has still to check. Each action is what runs between two awaits:
`Arrive` (authentication and guards), `ResolveTarget`, one `EnsureWritable` per
month, then `Save`, `Erase` or `Clear`; `LookUpCadre`, `CheckCompany`,
`LockMonth`; `CountPending`, `SealCompany`; and the one-statement operations.
`Abort` ends a request at any await: a database error, a pool time-out, the
request's time limit or a crash of the server, all of which leave the tables as
the last statement left them. `standing` is a history variable: the obstacles
(validated company, locked month, pending cadre) that have been there in every
state since the request read its target.

**`MonthRules`** is the abstract specification: what one actor may do in one
atomic step, written from the locking rules of README.md 213-216 and the rights
of each role. `Handlers!KeepsRules` is `RulesSpec` over the same tables.

**`WriteQueue`** is `WriteQueueCore`. The head of `queue` is the job that runs;
`out` says whether the server has served it. JavaScript runs each step to its
end, so the drain loop is `Push`, `NextJob` and `DropAll`. `#failures` and the
marks taken of it are kept as `missed`, the screens whose mark is outdated.

**`PlanningScreen`** composes the queue with the planning store, its screen and
the server's view of one planning (a user and a month). A *screen* is one
mounting of `Planning.svelte`: `App.svelte` re-creates it whenever the address
changes, so leaving the month and coming back is `Reopen`, and the old store
lives on with its loads. `store[s]` has the fields of `PlanningStore` and
`phase`, how far `validate()` or `reopen()` has got (`busy` is any phase but
`none`). A load carries `latest` (`req === this.#req`), `dirty`
(`edits !== this.#edits`), and the answers of its two queries, which the server
runs side by side (`attendance.rs:136`). The modal dialog, the single undo offer
and the queue are shared. Promise continuations are actions of their own and run
before any other event of the page (`Continuing`).
The check-then-write of this user's own requests is one step here: `Handlers` covers
its races. Everybody else is `Elsewhere`: an administrator, or the same user in another
tab, writes any half-days of the planning, validates or reopens its month or the
company's, between any two steps and with no guard, since what their requests checked
is statements ago. Nothing announces this to the page, so two history variables
remember where others have written: `theirs[s]` since the entries that screen shows
were read, `since[s]` since its latest load read them.

**`Limiter`** is `limiter.rs` and `client_ip.rs` as operators: `Swept` (`live`),
`Locked` (`locked_for`), `Recorded` (`record_failure`, for two keys), `RoomIn` (the
eviction in it), `Without` (`clear_account`), `ClientIp` (the hops from right to left,
skipping trusted ones). A map is a function from keys to a count and the start of
its window; where two keys opened in the same tick either may be the one evicted.

**`SignIn`** composes it with the accounts, the tokens in browsers and the requests
in flight. A login is `Ask` (the limiter), `ReadAccount`, then `Refuse` or
`Accept` after bcrypt: other logins, changes and restarts come between. A change
of one's own password is `StartChange`, `CheckCurrent`, `StorePassword` and
`SignAgain` (the new token is stamped with the clock of its own step, the row
with the statement's). `ResetPassword` and `SetActive` are an admin's, `Restart`
empties what is in memory. Tokens carry as history the password they were given
for. One tick is one second and the server and PostgreSQL share one clock.

**`Throttle`** is the abstract limiter: it judges and counts in one step, keeps a
counter for exactly its window and forgets it earlier only by a restart, for want of
room, oldest first, or by a success if it is the counter of one account
(`forgivable`): the counter of an address survives. `SignIn!Throttled` is the refinement, with a
`slack` of the other requests that may be in flight: `limiter.rs` is asked before
bcrypt and told after, so that many guesses more than the limit may be tried.

**`Startup`** is `bootstrap.rs` with `main.rs`, one step per statement, any number
of instances on one database: `WaitForDb`, `FindSchema`, `CreateSchema`,
`Secure` (the second migration, the configured secret), `OfferSecret` and
`AdoptSecret`, `FindAdmin`, `InsertAdmin`, `PrintAdmin`, `Listen`. `Crash` may come
anywhere, `DatabaseDown` and `DatabaseUp` too, and a start that fails is begun
again (`restart: unless-stopped`). A migration is one message of several
statements, which PostgreSQL runs as one implicit transaction.

**`OneSecret`** is what the instances have to agree on: a secret chosen once, held
by each from when it serves to when it stops. `Startup!SecretAgreed` is the
refinement, for the instances without a configured secret.

**`Readings`** extends `Handlers` with one operator per `SELECT` of the reading
handlers, with the joins and filters of its text: `CadreRows` and `AllValidated` (a
company's status), `Overview` with `LateCadres` (the dashboard), `ActiveCadreCount`,
`UserList`, `History`, and the export's `Listed`, `Found`, `Sheet`. Two properties
relate them to each other (`FiguresAgree`) and to the handlers' checks
(`HistoryTellsWhatIsOpen`).

**`ValidationScreen`** extends `Readings`: it is one life of `Validation.svelte`, whose
async functions are `tasks` suspended at an await, several at once and with no request
numbers, the statements of the GETs inside them (`ReadRows` and `ReadSealed` of one
answer, `FindCompany`, `ListCadres`, `Fill` of an export), and the requests of
`Handlers`. A POST of the screen is `Send`, the `Arrive` of a request like any other;
`Serve(r)` is one statement of anybody's request, and the answer to a task's own
request, whatever it is, starts that task's load. `Refused` is a POST that is not sent
or whose answer is lost; the request it may have started goes on without the screen.
So a validation may be counted and recorded around somebody's reopening, and a write
checked before the validation may land after it, as in `seal_race` and `write_race`.

**`MCHandlers`**, **`MCPlanningScreen`**, **`MCSignIn`**, **`MCStartup`**,
**`MCValidationScreen`** give the constants values for TLC. **`TablesProofs`**,
**`HandlersProofs`**, **`SerialProofs`**, **`LimiterProofs`**, **`SignInProofs`**, **`StartupProofs`**,
**`PlanningProofs`**, **`ValidationProofs`** hold the proofs.

Operators marked *Broken* in a comment, such as `SetLockUnchecked`, are plausible
mistakes: the specification does not use them. `PROJECT.json` pairs each with
the property that finds it, which shows that the property says something.

## 3. Runs

| Run | Question | Result |
|---|---|---|
| `handlers_concurrent` | Can two interleaved requests (writes over two months, validations, reopenings, a cadre moved) take effect over an obstacle that stood all along, or reach another user's rows? Does a write pass its check for a month the history calls closed? | no: `NoStandingObstacle`, `Authority`, `HistoryTellsWhatIsOpen`, `TypeOK` |
| `handlers_accounts` | Can accounts and companies created, moved and deleted under other requests leave dangling rows? | no: `Integrity` |
| `handlers_serial` | One request at a time, do the handlers obey the rules, and do the screens' counts agree? | yes: refinement `KeepsRules`, `OwnMonthKept`, `CompanyMonthKept`, `CompanyValidatedLast`, `SomeAdminLeft`, `FiguresAgree` |
| `write_race` | Do README.md's rules survive concurrency? "Personne ne peut modifier…" | no: a write checked before the company's validation lands after it |
| `seal_race` | "…que si tous les cadres actifs…" | no: a month reopened between the count and the validation |
| `planning_own` | A cadre's own month, answers lost, someone else writing, validating or reopening | `ShowsWhatIsSaved` and `ValidatedAsShown` hold wherever nobody else has written since; `NoWriteDuringLock`, `QueueDrains`, `Unfreezes` hold |
| `planning_other` | An admin on a cadre's month, reopened screens, late effects | `UndoReverts`, `UndoWhileOffered`, `FrozenUntilShown`, `NoEditUnderLoad` hold |
| `planning_late` | Does "read-only while the screen may show entries the server does not have" survive a write that outlives its client? | no |
| `planning_twice` | Does "no write while a validation is being sent" survive leaving the month and coming back? | no |
| `sign_in` | Overlapping logins and password changes, a restart, a full limiter: who is locked out, who stays signed in? | `OwnFailuresOnly`, `MemoryBounded`, `CurrentSessionsHonoured`, `SessionsEndForGood`; refinement `Throttled` |
| `startup` | Three instances start, crash and start again on one database that comes and goes | `ServesWhenReady`, `OneFirstAdmin`, `FirstAdminKnown`, `EveryoneServes`; refinement `SecretAgreed` |
| `validation_screen` | Two functions of the screen at once, an export among them, beside two requests of anybody's, statement by statement: does what is shown or written out agree with what was saved? | `ValidatedFileExact`, `FiguresAreNew`, and the buttons in `ScreenTypeOK` hold |

What these last three runs do not say, because the code does not promise it: an
earlier load that answers late replaces a later one on the validation screen
(`FiguresAreNew` is about one load); a file made while a checked write has still to
land may miss it, even of a month that stays validated (see below); a token signed from a hash that was read
before a reset, or signed in the very second of it, stays valid
(`SessionsEndForGood` is about earlier seconds); a first admin whose generated
password was not printed before a crash is never shown it (`FirstAdminKnown`
excuses faults). README.md:154 says « 10 échecs par adresse e-mail » where the
limiter counts an e-mail per address: `OwnFailuresOnly` is the consequence, nobody
is locked out by somebody else's failures, provided the proxy appends the
client's address and the client who fails has a public one. README.md:50-51 says
that one who reaches the proxy from a private address (LAN, VPN) chooses the address
that is counted: `Clients`, whose failures are modelled, are public addresses.

`ValidatedFileExact` speaks of an export that begins when the month is validated and
no write to it is past its check (`NoneChecked`), and during which the month stays
validated and the cadres the same; everything else may change. Without `NoneChecked`
it is false: TLC finds a write that was checked before the validation and lands
after the last statement of the export, so that the file never shows it. That is the step of
`write_race`; once those writes have landed, no new one gets past its check, so the
window is one statement long.

The four disagreements are between what the code does and what README.md or a
comment says of it; `PROJECT.json` quotes both sides. The
first two need a race within one round trip to the database, the third a request
longer than 15 seconds, the fourth a navigation while a validation is being sent.
Neither of the races corrupts the tables: `Integrity` and `NoStandingObstacle` are
proved for any number of requests.

**Bounds.** Two requests in flight show what a handler does when another one's
statements come between its own: the second slot serves any number of requests, one
after the other, during the first. Races of three at once are left to the proofs of
section 4. Request slots are symmetric. One user per role and two companies suffice for
a move, two months for a bulk that spans months, and one status since statuses only
replace each other; `handlers_serial` has two cadres so that "all the active cadres" is
not "the cadre". In `handlers_accounts` the pool of ids bounds creations. For the
screens, two half-days distinguish an edit from the whole month, and `MaxActs`,
`MaxFaults`, `MaxLate`, `MaxElsewhere` bound what the user does, the answers lost, the
requests that outlive their client and the changes made by others, where one change is
any set of half-days or a flag. In `planning_other` the half-days are symmetric, and
states that differ only in `agreed`, `theirs` and `since` are one: no action and none of
its four properties reads these histories. In `sign_in` a window of two ticks on a clock
of three lets a window open, fill and end, two keys overflow a limiter of two when a
second e-mail is tried, and a life of two ticks lets a token expire. One browser sends
failures and may claim to be another public address, which is the only way it could
reach that address's counters. In `startup` three instances have no secret, a
placeholder and a real one, one first e-mail and a password given to one of them only,
and `MaxFaults` bounds crashes and outages together; in `validation_screen` two tasks
and two requests overlap, `MaxTasks` bounds the tasks started (the first load and two
more) and `MaxChanges` the statements that change the tables: three validate a cadre's
month and the company's and leave one to reopen, write or delete under an export; nobody
else sends anything once the bound is met, since no request could change anything then.
There the cadre may validate, the admin validate and reopen, write for the cadre and
delete the account; writes of the cadre's own, moves, deactivations and the deletion of
the company are left to the proof, which is for any jobs. Four user actions allow edit,
validate, confirm, edit again or retry; one fault is enough to make everything after it
a recovery. Deadlock is not checked where the bounds let the user and the others stop,
in `startup`, where nothing is left to do once all serve and the faults are spent, and
in `handlers_accounts`, where two admins who delete each other leave no one to send a
request; it is checked in every other run.

**Fairness** (`planning_own`). `WF(Continue)`: a settled promise's continuation
runs. `WF(Network)`: a request ends, because `fetch` is given a 15 s limit
(`api.ts:20`) and its abort is `WriteLost`, `LockLost` or `LoadLost`. Nothing is
assumed of the user, of other users, or of late requests. Under it the queue is
idle infinitely often (`QueueDrains`) and every validation or reopening gives the
screen back (`Unfreezes`).
In `startup`, `WF(Bootstrap(n))`: a start goes on and a container that exits is
started again (docker-compose.yml:29), and `WF(DatabaseUp)`: the database service
comes back by the same policy. Weak fairness is enough: a start that loses a race
exits, and finds the work done on its next turn.

## 4. What is proved

Every safety property of section 3 that a passing run checks is a theorem, with the
hypotheses given here where there are any. Eight
modules hold the proofs. The assumptions are those named in the modules, about
constants only; nothing bounds their sizes.

**The server.** TLAPS checks these for every set of users, companies, months and half-days,
every set of jobs and any number of requests in flight, from `TablesAssumption`,
`FirstAssumption` (an installation with an active admin and no dangling company)
and `JobsAssumption` (what the handlers' input checks let through).

* `TypeCorrect`: `Spec => []TypeOK`. `TypeOK` contains `Locals`, what a request
  knows at each `pc`: the months to check are those of the job, and whoever is
  not an admin has their own user as target. It is inductive together with the
  lemmas of `TablesProofs`, one per statement.
* `ReferencesHold`: `Spec => []Integrity`. Inductive relative to `TypeOK`: each
  statement of `Tables` keeps it by its foreign-key guard or its cascade, and the
  handlers write in no other way.
* `NoWriteOverStandingObstacle`: `Spec => []NoStandingObstacle`. The property is
  not inductive: that a request about to write has no standing obstacle depends
  on the checks it has already made. The strengthening says that a request still
  checking has standing obstacles only among the months left in `todo`, and that
  every `pc` past its check has none. Steps of other requests only shrink
  `standing` (`OthersStanding`), so one case per step of the request remains.
* `CadreActsOnSelf`: `Spec => Authority`, an action property, from `TypeOK`
  alone: a step changes the locals of one request (`OneActs`), and `Locals` says
  whose rows that request can name.

**One request at a time** (`SerialProofs`, under `OneAtATime`: there is one slot).
`write_race` and `seal_race` show that the README's rules do not survive two; with
one they are proved for any tables and jobs. The invariant adds `Fresh` to the
above: the actor is still active and has the role that was read, the target still
exists in the company that was read, every month no longer in `todo` is open, no
cadre is pending at `seal`. Steps that read leave the tables alone (`ReadFresh`),
and the one statement that changes them ends the request.

* `SerialHandlersKeepRules`: `Spec => KeepsRules`, the refinement of `MonthRules`.
  `FinalIsAllowed` maps each last statement to the rule it is a step of; all other
  steps stutter.
* `SerialAdminLeft`, `SerialCompanyMonthKept`, `SerialOwnMonthKept`,
  `SerialCompanyValidatedLast`: the other properties of `handlers_serial` that need
  one slot, from the rules (`FiguresAgree` does not: see `ScreensAgree`).

**Signing in** (from `LimiterAssumption`, `SignInAssumption`, `NoHashAssumption` and
`EmailsAssumption`: there are finitely many e-mails to try, because a body has at
most 100 kB, `body.rs`).
The invariant `Inv` has one part per variable. `Sound` is the limiter's: its keys
are addresses of clients, no window opens in the future, and there are at most
`MaxKeys`; `LimiterProofs` shows that each operator keeps it, by cardinality of
finite sets. `TokenOK` says a token names a password its account has had, and the
present one only if it is not older than the last change; `AttemptOK` what a
request knows at each `pc`. `Onward`, which every step satisfies, says passwords
and their stamps move together and only forward.

* `CountsWhatTheProxySaw`: behind one trusted proxy, `ClientIp` is the address the
  proxy saw, whatever header the client sent.
* `TypeCorrect`, `LimiterBounded` (`MemoryBounded`) and `CurrentSessionsStay`
  (`CurrentSessionsHonoured`) follow from `Inv`.
* `EndedForGood`: `Spec => SessionsEndForGood`, from `Inv` and `Onward`.
* `LockedOutForOwn`: `Spec => []OwnFailuresOnly`. The property is not inductive: a
  counter that is below its limit says nothing of where its failures came from, and
  a window slides over them. `LimiterBacked` says that a live counter is at most the
  number of failures recorded, since its window opened, of its own client on the
  e-mails it counts. A sum over cells becomes the cardinality of a set with one
  member per failure (`SumCounts`); a refusal adds a member to the sets of both keys
  (`MissAdds`), a tick removes none that a live key needs (`LaterBacked`).
* `LimiterThrottles`: `Spec => Throttled`, the refinement of `Throttle`. What makes
  the slack enough is `RoomLeft`: a counter and the attempts that were judged by it
  and are not counted yet stay together below the limit plus the slots, since each
  was let in below the limit (`AskRoom`) and a refusal only moves one from the second
  to the first (`RefuseRoom`). `RecordedEffect` says what the two calls of
  `record_failure` do together, a key evicted by either being as old as any that
  stays. `RefuseFails`, `TickPasses`, `AcceptSucceeds`, `RestartRestarts` map the steps;
  all others stutter, the sweep of expired keys too (`SweptShowsNothing`).

**Start-up** (from `StartupAssumption`: drawn secrets are never placeholders).
`Stage(n)` says that a start is never past a statement whose effect is missing, and
that it signs with what `Usable` says. A step of one start keeps the stages of the
others because nothing is ever undone (`OthersStay`): the schema is not dropped,
the stored secret not replaced, no account removed.

* `TypeCorrect`, `FirstAdminOnce` (`OneFirstAdmin`), `ReadyBeforeServing`
  (`ServesWhenReady`) follow from `Inv`.
* `StartAgrees`: `Spec => SecretAgreed`, the refinement of `OneSecret`. `Listen` is
  its `Hold`, `Crash` of a serving instance its `Stop`, the first `OfferSecret`
  its `Choose`, and every other step stutters (`InstanceAgrees`).

**The planning** (for any half-days and statuses, number of screens and bounds, from
`PlanningAssumption` and `WriteQueueAssumption`). Six theorems need no more: `TypeInvariant`; `UndoSafe`
(`UndoReverts`), `OfferMeansUndo` (`UndoWhileOffered`), `FrozenUntilLockShown`
(`FrozenUntilShown`), `EditsWaitForLoads` (`NoEditUnderLoad`) and `LockAlone`
(`NoWriteDuringLock` for the first screen). They follow from `IInv`, whose parts are:

* `LoadsOK`, with `AloneIn` (one load of a screen is the latest, one is awaited): a
  load that is going to be shown has missed no edit and no confirmation, and its
  screen is frozen unless somebody awaits it. `EditsWaitForLoads` is its first half.
* `UndoOK`: a copy with something to undo may be edited, is not being locked, and gives
  the prior copy once undone; `OfferOK`: the offer on display belongs to it, and every
  write and dialog in flight that could take it away is its own screen's.
* `ToldOK`: after a confirmation the screen is closed or the load that shows the new
  lock is still to come.
* `LockOK`: from the question to the request, either a failure has been noted, which
  cancels the request, or the copy is the one its author agreed to lock; while the
  request is out, no write of the screen is.

The remaining two are about the server's entries, on the half-days nobody else has
written since the screen read them, and need `SavedOK`: there is a planning, equal to the server's
entries except where others have written (`SameBut`), that the screen knows (`Known`).
That is: a write the server has served changes nothing when laid over it again, and as
long as the planning has not been opened again an editable copy is that planning with the
queued writes on top (`IsAhead`). A load to be shown has read the server's entries
except where others have written since it did. Somebody else's write leaves the known
planning as it is and widens the exception; showing a load narrows it again.
`ShownIsSaved` assumes that no request outlives its client (`MaxLate = 0`) and speaks of the
first screen; `LockedAsShown` (`ValidatedAsShown`) assumes both for the whole run.
No hypothesis can be dropped. Somebody else's write shows only after a reload, so
the half-days in `theirs` are excepted. `planning_late` and `planning_twice` are
counterexamples without them, and the bounds of `planning_twice` with
`ShowsWhatIsSaved` as the invariant give another, with nothing lost or late: the
confirmation of « Tout effacer » outlives the screen that asked for it
(`App.svelte:125` mounts the dialog beside the view), and clears the month under the
screen that was opened since.

**The validation screen** (from the assumptions of the server, `ScreenAssumption` and
`CountsAssumption`: finitely many users and companies, whose ids are SERIAL), for any
jobs, any number of tasks and any number of requests in flight. `IInv` is `ServerOK`
(`TypeOK` and `Integrity` of `Handlers`, which a step of the screen keeps because it is
a step of a request or none), `LinksOK`, `DeskOK` and `SteadyOK`. `LinksOK` says a task
that waits for an answer waits for a request in flight. `ButtonsOK`, in `DeskOK`, ties
each flag to the tasks: one task waits in the modal dialog, one holds `busy`, one holds
`exporting`, which is why a `finally` clears no flag but its own task's. `ReadOK` says
what a load has read so far is at least as new as what `FiguresAreNew` will ask of it.
`SteadyOK` says what an export holds after each of its three statements as long as the
month has stayed validated, and that no write to it is past its check.

* `TypeInvariant` (`ScreenTypeOK`), `FiguresNew` (`FiguresAreNew`) and
  `FilesOfValidatedMonths` (`ValidatedFileExact`) follow from `IInv`. The last rests on
  `StepKeepsSealed`: while the month is validated and the cadres stay, every write to
  it still asks, since the one that asks is refused and the one that arrives has to
  ask; so no statement of anybody's changes an entry of the month.
* `ScreensAgree` (`FiguresAgree`) holds in every state of `Handlers`, from the types
  of the tables alone. The number of late cadres is a sum over companies; it is a
  cardinality because a cadre has one company (`SumOfDisjoint`).
* `HistoryTrue` (`HistoryTellsWhatIsOpen`): a step that takes a month off a request's
  `todo` and keeps the request going is `EnsureWritable` on that month, and found it
  open (`Checked`); what it read of the company and the lock is what the history's own
  joins read, unless the user has changed company since the request resolved it.

Two sums are folds, which the community modules define by a recursive function. The
library's induction theorems are out of reach, but not the well-foundedness of strict
inclusion on finite sets: cardinalities satisfy the fold's equation, and a smallest
set on which another solution differed would not be one.

What stays with TLC: liveness under fairness (`QueueDrains`, `Unfreezes`,
`EveryoneServes`, `FirstAdminKnown`), which is out of the prover's reach; and the
runs that refute a statement, which are counterexamples.

## 5. Abstractions

* Names, e-mails, time stamps and wording are left out, statuses are members of a
  set. A refused request leaves no trace: 4xx answers only end the request.
* A crash of the server is `Abort` of every request: there is no state outside
  the database except the login counters.
* PostgreSQL's statement is atomic (autocommit, one row or one set of rows); its
  row locks and deadlocks are not modelled, an aborted statement is `Abort`.
* In `PlanningScreen` gestures are "any set of half-days, one status", which
  includes « Remplir »; a 401 that signs the user out of the page is left out, as
  the screen is then gone. At most one dialog is open: the interface is modal.
* `NoWriteDuringLock`, `ShowsWhatIsSaved` and `ValidatedAsShown` are checked for
  one mounting of the screen; `planning_twice` shows what a second one changes.
* In `SignIn` bcrypt is equality of passwords, a signature cannot be forged, and the
  lock's remaining minutes are left out. `MaxSessions` and `MaxAsked` bound the
  model, not the server.
* In `Startup` the thirty tries of `wait_for_db` are one step, which succeeds if the
  database answers.
* In `ValidationScreen` the queue of planning writes, for which `load()` and an export
  wait, is empty: an administrator who edits a planning and comes to this screen before
  the writes are sent is left out. The history's `LIMIT 24`, the layout of the files and the sign-out on a 401 are left out.

## 6. Not modelled, and plan

Not modelled: the connection pool (`db.rs`: an exhausted pool is an `Abort`, and no
handler holds one connection while it waits for another), PDF and spreadsheet
layout, encodings and input parsing, static files, CSS and markup, and the screens
that only list what `Readings` answers.

To come, in this order:

1. Proofs: which instance of `MonthRules` survives concurrency, as a weaker
   abstract specification that `Handlers` implements with any number of slots.
2. The page around the screens: logout against the write queue, sign-out on 401.
3. Pure algorithms: dates, working days, grid selection, totals, against reference
   definitions over bounded inputs.
