# A verification development for Kindling

Kindling (formerly scriptdeck) is a self-hosted service that stores scripts and runs them: on demand, on a schedule,
with overlap policies and retries, one runner per script and a bounded number of runners, with the output streamed to
a browser while it is written. The server is one process, one asyncio event loop and one SQLite database; the dashboard
is a React application that talks to it over HTTP and server-sent events.

This directory holds TLA+ models of its core, the TLC configurations that check them on small instances, and theorems
about them that TLAPS has checked. Paths below are relative to the repository; `kindling/` stands for `src/kindling/`.

## 1. The system

### Components

| Component | State it keeps | Operations | What makes it correct |
|---|---|---|---|
| Executor and locks (`runner/executor.py`, `runner/lock.py`) | a global `asyncio.Semaphore`, one `asyncio.Lock` and one `flock` sentinel per script, the children | `run_script` | never two supervised children of one script; never more executions than slots; every path gives slot and lock back; every execution ends |
| Scheduler (`scheduler/tick.py`) | the rows of one tick, in local variables; `schedules.next_run_at`, `runs` | the tick's two phases, `_execute_and_finalize` (finalize, retry, promote) | a due fire leaves one row; a run is not started beside another against its policy; a running row has somebody to finish it |
| Run service (`services/run_service.py`) | none: the statements on `runs` | create, finalize, mark retry, pick retries, count, promote | what a SELECT decided is still true of what the UPDATE does, or harmless |
| Run API (`api/runs.py`) | `app.state.active_procs` | trigger, cancel, log stream | a trigger guard; a cancel that ends the work |
| Schedule computation (`services/schedule_service.py`) | none | `compute_next_run`, `advance_next_run`, `list_due` | the cursor moves, by calendar and filters |
| Log broker (`services/log_broker.py`) | one lock, channels, a bounded queue per subscriber | subscribe, publish, close | the log arrives in order and is ended; no reader holds up a run |
| Schedule API (`api/schedules.py`) | `schedules` | create, update, enable, disable, delete | edits against a tick under way |
| Lifespan (`app.py`) | the scheduler task, the semaphore, the broker | start, stop | what a dead server leaves behind |
| Migrations (`db/migrations.py`) | `schema_version` | apply pending scripts, at a start (twice) and in `doctor` | a server that serves has the newest schema; no rows are lost; a crash costs a start only where a script cannot be run again |
| Environment, key rotation (`services/env_service.py`, `api/envs.py`, `api/admin.py`) | ciphertext rows, the key in settings | set, read, rotate | every row decrypts with the key in force |
| Scripts and files (`api/scripts.py`, `services/script_*.py`) | the `scripts` row and a directory of files | create, upload, read, write, delete, entrypoint | row and directory agree; the file limit holds |
| Authentication (`auth/*`, `api/auth.py`, `api/users.py`) | users, invites, refresh tokens | set-up, login, refresh, invite, demote | one first admin; an invite is used once; an admin remains |
| Retention (`services/retention.py`) | log files | remove old logs | not the log of a run under way |
| Backup, moves (`cli_commands/*`) | archives | copy, restore | what a copy of a live server contains |
| Runners, sandbox (`runner/*_runner.py`, `runner/sandbox*.py`) | environments on disk | provision, build a command line | — |
| Audit, presets, stats, health, configuration, CLI | — | reads and log lines | — |
| Live log hook (`frontend/src/hooks/useLiveLogs.ts`) | events, an `EventSource` | connect, reconnect, end | with the recorded log it makes up the whole output |
| Script editor (`pages/ScriptEdit.tsx`, `components/editor/*`) | the open file, a debounced save, caches of files and script | select, type, save, load, add, delete, choose the entrypoint | a file's text stays with that file; "Saved" means stored |
| Run pages (`pages/Runs.tsx`, `pages/RunView.tsx`, Logs tab of `ScriptEdit.tsx`) | polled lists, filters, a run, its live and its recorded log | filter, turn pages, poll, cancel, run | rows match their filter, ended runs leave, the output is whole |
| Schedule pages (`pages/Schedules.tsx`, `components/schedules/*`) | list, form, dialogs; the picker reads its state from the expression | create, edit, switch, delete, pick | the list is the table's, a form changes what was changed in it, the picker tells when the schedule fires |
| Signing in (`auth/*.tsx`, `api/client.ts`, `router.tsx`) | one stored token, a user per tab | set-up, sign in and out, be refused | a tab shows the account its calls are made for |
| Other pages (`Dashboard`, `Scripts`, `ScriptNew`, `Settings`) | lists and forms | one request each | — |
| UI kit, built site, bundles | — | — | — |

### Interaction

The lifespan starts one scheduler coroutine. Every tick reads the due schedules, advances each cursor, decides on
overlap and inserts a row: skipped, dropped, pending, or running with a background task; then it flips due retries.
A trigger request inserts a running row and creates a task as well. A task awaits `run_script`, then finalizes the row:
a task of the tick may send it to retry, and otherwise promotes the oldest pending row of the script, executing it in a
new task. A cancel request signals the child it finds in `active_procs` and overwrites the status. `run_script`
publishes every line to the log broker and closes the channel at the end, with slot and lock in hand. All of it
interleaves at every `await`; the database is the only shared memory that survives a crash.

The pages of the dashboard share nothing but the token in the browser's storage and, within a tab, a cache of answers by
key (TanStack Query). A page acts on what it was last told: requests overtake each other, answers come after their page,
their file or their filter has gone, and every mutation is followed by an invalidation that fetches again.

### What is hard here

Decisions made by one statement and acted on by another; two finalizers of one script; a cancel against a finalizer; a
retry snapshot taken before other rows are handled; the cursor committed before the row it stands for; an execution that
fails at any step with a slot and a lock; slots waited for before locks; a server that dies between any two
steps; bounded queues; and a lock held across a `yield`. The key of the variables is rotated while others read and write them,
and goes in force only after the rows have it. Migrations commit statement by statement and record the
version afterwards, so a crash or a second process finds a script half run. In the browser: a save debounced by 1.5 seconds against everything that
may happen to the open file meanwhile; answers that come late; polling that is switched off by its own data; output that
is put together from two sources; a form that sends back more than it shows. `PROJECT.json` lists each hazard at the line where it bites.

## 2. Modules

| Module | Role |
|---|---|
| `RunnerPool` | abstract: at most one execution per script and `Concurrency` in all, each comes to an end |
| `Executor` | `run_script` step by step; implements `RunnerPool` |
| `RunEngine` | extends `Executor` with the runs table, the tick, the finalizers, trigger, cancel, crash |
| `LogStream` | the log broker, its callers and the page at the other end |
| `Schedules` | the rows of the schedules table: the requests that edit them, the tick that works from a copy, the next fire |
| `EnvKeys` | the encrypted variables: saving, deleting, reading, rotating the key, restarting |
| `ScriptEditor` | the editor of a script's files against the files on disk |
| `RunPages` | the list of runs, a run with its output, the Logs tab of a script |
| `CronPicker` | pure: what the picker shows of an expression and what each control makes of it |
| `SchedulePages` | extends `CronPicker` with the page of schedules: list, form, dialogs, the table |
| `Session` | tabs of a browser, the token they share, accounts and tokens on the server |
| `Migrations` | the fourteen scripts as units that SQLite commits, the passes of a server and of `doctor` over them |
| `MC...` | instances for TLC |
| `RunEngineProofs` | theorems about `Executor` and `RunEngine` |
| `DatabaseProofs` | theorems about `EnvKeys` and `Migrations` |
| `SchedulesProofs`, `ScriptEditorProofs`, `SessionProofs`, `LogStreamProofs`, `RunPagesProofs`, `SchedulePagesProofs` | theorems about the module each is named for |

### Executor

`stage[t]` is where task `t` is in `run_script`; `permits` is the semaphore; `owner[s]` the holder of the script's lock;
`target` and `outcome` what it executes and how that ended; `stray` the scripts with a child alive that nobody
supervises. Actions and code: `TakeSlot` and `TakeLock` are the two `async with` (executor.py:61-62);
`RunScriptRaises` is a failure outside the `try`; `SetupFails` and `SpawnProcess` cover provision, decryption and spawn;
`ProcessExits` and `SupervisionFails` end the read loop, the latter without the child; `Release` is the broker's close
and both context managers; `ExecCrash` is the death of the server, which may leave children.

The `flock` is contended only within the process that serves the application, so it adds nothing to the `asyncio.Lock`
and is one step with it. Waiters of `asyncio.Semaphore` and `asyncio.Lock` are first come, first served: the model lets
any waiter go next and assumes strong fairness, which allows every order the code has.

### RunEngine

`runs` are the rows (script, schedule, status, attempt, whether `next_attempt_at` has passed), each with a history
`starts` that the code does not keep: how often a task has taken the row up to execute it; `cursor[s]` is
`next_run_at`, as the number of the schedule's next fire; `tick` is the scheduler's program counter and local variables;
`job[t]` what task `t` does besides `run_script`; `trigger` and `cancel` the progress of requests.

Grain: each SELECT is a step, because the session keeps no snapshot and every `await` lets others run; the writes of
a transaction, its commit and the code up to the next `await` are one step. Foreign keys are not enforced (the pragma
is set only on the connections of the migrations), so nothing cascades. A tick reads the clock once, at its start, so `ClockMoves` and `BackoffElapses`
need the tick asleep to be observable, and are allowed only then. Ids grow with `started_at`. The lifespan looks at no
row: after `Crash` the rows stay as they are.

| Action | Code |
|---|---|
| `BeginTick`, `AdvanceCursor`, `CheckOverlap`, `RecordSkip`, `CheckQueue`, `RecordDrop`, `Enqueue`, `CreateAndDispatch` | tick.py, Phase 1 |
| `PickRetries`, `CheckRetry`, `Rerun`, `EndTick`, `TickFails` | tick.py, Phase 2 and `scheduler_loop` |
| `ReadAttempt`, `MarkPendingRetry`, `Finalize`, `NothingPending`, `SelectPending`, `Promote`, `FinalizerFails` | `_execute_and_finalize` of tick.py with `run_service` |
| `FinalizeTriggered` | `_execute_and_finalize` of api/runs.py |
| `TriggerCheck`, `TriggerCreate`, `CancelRead`, `CancelSignal`, `CancelWrite` | the requests of api/runs.py |
| `Crash` | app.py |

`Gap[s]` is the set of fires of `s` after which `compute_next_run` raises `ComputeError` (nothing within seven days);
the cursor then stays. The schedules themselves are constant here; `Schedules` has them edited.

### LogStream

`lock`, `channel` and `queue` are the broker's; `conn` is where the server is with each connection; `page` and `got` are
the browser's; `run` is what the executor and the tick do to the log. `publish` and `close` do not await with
the lock in hand, and are one step. `subscribe` to an ended run yields the end frame with the lock in hand:
`SubscribeEnded`, `SendEnd`, `Return`. A channel nobody asked for is an empty one. The network between generator and
page is one step (`Deliver`), since TCP loses or reorders nothing; a connection that breaks loses what was queued.
Heartbeats are left out.

### Schedules

`row` is the table, `request` the progress of each editing request, `copy` the rows that `list_due` returned and the
tick has not handled yet, `hand` the one whose cursor is written and whose run is not. A request is two steps, its
checks and its write, because nothing holds the row in between. `AdvanceCursor` computes the next fire from the copy and
writes it over whatever the row has by then; `InsertRun` stands for all the branches that insert a run, which are
`RunEngine`'s. `DeleteScript` leaves the schedules of the script behind, for want of enforced foreign keys; `list_due`
joins with scripts, so they are never due. A deleted id is not used again (`AUTOINCREMENT`).

A plan is a constant with the instants it stands for: `Calendar` in its timezone and on the days its filters allow,
which is what `compute_next_run` looks at, `Naive` without them, which is all that `advance_next_run` knows. The API
computes with the second, the tick with the first. `Broken` plans make the computation raise something that is no
`ComputeError` (for instance `ZoneInfo("/UTC")`, a `ValueError`, and no check of the API refuses that name).

`hist` is history for the properties: how many fires the tick has taken since the plan was written, the last of them,
and how many runs were inserted since the schedule was switched off.

### EnvKeys

`row[s]` is the ciphertext row of script `s`: a text and the key it is under; `service` is the key of the `EnvService` in
use, `config` what a restart would read; `save`, `rotate` and `read` are requests. Decryption with another key is refused
(AES-GCM), so a row is a pair and needs no ciphertext. `Capture`, `SelectRows`, `Rewrap`, `Adopt` are
`rotate_env_key` between its awaits: the old key is taken, the rows are read, they are written in one transaction, and
only after the commit the key is put in use. `Encrypt` and `Save` are the two halves of a PUT. `ReadRow` and `Decrypt`
are a GET, or a run that gets its variables from executor.py:74-78. A restart takes the configured key, old or new. History:
`saved` is what was last saved, `disturbed` that a rotation overlapped another writer, another rotation or a restart.

### ScriptEditor

`disk` and `entry` are the server's; `files` and `script` the cached answers; `tab`, `active`, `shown`, `dialog` the state
of `ScriptEdit`; `content`, `dirty`, `lastSaved`, `timer` that of `EditorPanel`. A text is a pair of the file it
was typed for and a version, so a text in the wrong file is visible. Requests are sent, served and answered in separate
steps (`TimerFires`, `ServePut`, `PutDone` or `PutFailed`, and alike for loads, deletions, additions and the entrypoint).
A render and the effects it causes are one step: React flushes them before the next event. `disturbed` records the
events that "Saved" cannot reflect.

### RunPages

The server (`status`, `log`, `task`, `closedAt`, `restarts`) is `RunEngine` reduced to what pages can tell apart. Runs begin
or are skipped, are taken up from the queue or for a retry (`TakeUp`), write, are cancelled, exit (`Exit`, the close in
`run_script`) and are settled in a step of its own (`Settle`: `finalize_run` or `mark_pending_retry`, which write over a
cancel). A log file is that of one attempt, since each opens it with "wb" (`OpenLog`); `log` says which, and how many
lines. A channel that was closed stays closed over the retry; only a restart of the server (`Restart`) makes a new one. One
task executes a run: the double promotion of §4 is not in this module. The router mounts one page at a time, hence `route`. Of `Runs`: filters and page
are `key`, the answer for it `history`, and `last` the placeholder; `running` is the polled list, per filter, that decides from its data
whether to poll again (`PollsRunning`). It asks for a page of
`PageSize` rows of the history but for `RunningLimit` running ones (100 in the code). Of `RunView`: `lines`, `ended`,
`stream` are `useLiveLogs`, `recorded` the log endpoint, `Output` what is rendered. A line reaches the page (`LineArrives`)
or finds the subscriber's queue full (`LineDropped`): which of the two is left open, since the queue's length is in
`LogStream`. `missed` is history: whether the page found the run ended, or its connection began late, broke or lost
a line. Of the Logs tab: each fetch of the log is a record with the effect's flag, and
its answer has two halves, because the flag is looked at when the response begins and the text is there later.

### CronPicker and SchedulePages

An expression is its fields, with "*", "*/15" and lists of days as members of the field's set; `SetFrequency`, `ToggleDay`
and `SetAt` are the writers of `CustomPicker`, `FrequencyOf` and the `...Shown` operators its readers; `FiredMinutes`, `FiresOn` and the like say when cron
fires, on dates and on days of the week. `TimeTold` and `DaysTold` compare the two; an expression that is none (an interval's "30m")
has an unreadable minute. A row of `SchedulePages` has the columns a form may write: kind, expression, zone (or null), switch,
policy and `include_days`; a form holds two of them, and `Payload` makes all six. `SchedulePages` has `row` (the table), `list` with the fetch under way (an invalidation gives a fetch up and
makes it again, but the first of all is left to answer), `full` (the cached record the form begins with and sends back
in part), the dialogs, and one save, one deletion and any number of switches under way, each sent, served and answered in separate
steps. `touched` and `stale` are history of a form and of a save: the columns changed in it, and those in which what it went by
is not what the row says.

### Session

`stored` is the token in `localStorage`, which all tabs share; `tab[t]` the document (page, user, loading), `call[t]`
its calls by kind, each with the token that was stored when it was made; `role`, `owner` and `revoked` are the
server's. `/auth/me`, login and set-up (its count and its insert are two steps), logout, refusals (401: `api()` drops the
token and loads the sign-in page), changes of users by an admin, accepted invitations. `held` and `raced` are history.

### Migrations

`schema` is the set of tables, columns and indexes, `rows` the tables that still hold what they held when the database was
found, `recorded` is `schema_version`, `proc[p]` the pass of a process: the script and unit it is at, and whether its
connection enforces foreign keys. Each file of `migrations/` is a definition under its name: a sequence of units, one
statement each, or all those between BEGIN and COMMIT. A statement has what it needs and what it adds: it fails when the
first is missing or the second exists, which is the part of SQLite that decides here (names of indexes are global; a dropped
table takes its indexes; a renamed one keeps theirs; DROP with foreign keys on cascades; a copy of rows that point
nowhere fails then). Of the columns, only those are told apart that a script adds or carries over.

`Start` reads MAX(version) once; `Step` runs the next unit, `Record` inserts the version and commits; `PassEnds` goes from
the pass of `create_app` to that of the lifespan and then to serving, or ends doctor. The sync path commits an insert
with the next script's first statement: a crash before it loses both, so one step is the same. A failure ends the process, since no caller
catches it. `refused`, `torn` and `overlapped` are history.

## 3. What is checked

Passing runs, each with the mutant of the code that would break each property (`PROJECT.json`, "mutants"):

| Run | Instance | Shows |
|---|---|---|
| `executor` | 3 tasks, 2 scripts, 2 slots, failures at every stage, crashes | `NoLeak`: on every path the semaphore counts exactly the tasks inside, and locks belong to exactly the tasks inside; `ProcessesExclusive`; `ImplementsPool`: with fairness, `run_script` implements `RunnerPool`; `TaskEnds`: no deadlock between slots and locks |
| `engine_schedule` | 1 schedule, skip, 1 retry, 2 instants, a failing host, fairness | `OneActiveRun`, `FinalIsFinal` and `ProcessVisible` (what executes shows as running), each under the condition it names: no triggers, no cancels, no queue; `StartsWithinRetryMax`: without a queue, a row is executed once and once more for each retry allowed; `DueFires`; `RunEnds` |
| `engine_crash` | a queueing schedule, a retry, a trigger, a cancel, a crash and a database error anywhere | `FiresAccounted`: each costs at most one fire; `PendingWithinQueueMax`; `RunningHasTask` until the first of them: a running row has a task that will finish it |
| `schedules` | 1 schedule at the start and 1 to create, 3 plans (cron with filters and a gap longer than the window, interval, broken), 2 requests, instants 0 to 3, a window of 4, 1 database error | `LateOnce`: switched off, a schedule fires at most once more; `FiresFollowPlan`: from the second fire of a row, and from the third after an edit, each fire is the next of the calendar, with none left out or doubled - or, where the calendar has none within the window, the fire before once more, which is what the code does then (§4); `RegularFires`: a due schedule whose plan always has a fire in the window does fire, unless a broken one stands in the way |
| `log_stream` | 1 page, 2 connections, 2 attempts of up to 3 lines, a queue of 2, 1 restart | `ConnectionInOrder`, `NoLineTwice`, `EndReaches`, `RunGoesOn` |
| `env_keys` | 2 scripts, 2 savers, 2 rotations, 1 reader, 1 restart | `RowsSound`: without an overlap every row is what was last saved and readable with the key in use or about to be; `ReadersHeed`: a reader fails only if a rotation went past it |
| `editor` | 2 files, 2 versions of one and 1 of the other, 2 saves, 2 requests under way | `NoCrossWrite`: no file gets another's text on the disk; `ShownBelongs`: nor on the screen, nor in a pending save; `SavedUnlessDisturbed`: when nothing is under way, "Saved" means stored, unless one of the listed things happened |
| `run_pages` | 2 runs, an attempt and a retry of up to 2 lines each, 1 restart, pages of 1 row and 2 running rows, 2 pages, 2 changes of filter or page | `ShownMatchesFilter`; `OutputOfOneAttempt`: the page of a run shows lines of one attempt only, unless it was connected across a restart; after the end all that was published, if it was connected from the first line and lost none; of a run found ended the whole log; `LogsTabShowsFinal`: the log shown is that of the run named, and all of it once it is seen to have ended, unless it was being read when its effect was cleaned up (`crossed`); `StaleRowGoes`: a run that is over or waits leaves the lists of running ones |
| `schedule_pages` | 1 schedule at the start (an interval without a zone, disabled, with a policy and days of its own), 1 to create, 2 zones, the preset "First of month", "*" to type, 2 changes in forms, 2 dialogs, 1 switch | `ListCurrent`: when nothing is under way the list is the table; `UntouchedKept`: saving a form keeps each column that was not changed in it, if what the page went by in that column was the row's (`stale`), and always overwrites kind, `include_days` and a null zone; `PickerTellsTruth`: the picker shows when an expression fires, except for a "*" typed for the minute, and except for the days when a day of the month was brought in |
| `session` | 2 tabs, 2 accounts, 2 tokens, 2 calls in the air | `SignedInTogether`: a loaded tab shows the account its calls are made for, with two exceptions: a tab whose token another tab has replaced or removed shows the account of its own token until it is loaded again (`stored` is not `held`), and a late `/auth/me` may put back the account before (`raced`) |
| `migrations` | a server and doctor, 3 starts, 2 crashes, a database found at any version, with or without runs whose script is gone | `ServesNewest`: whatever crashed before, a server serves only with every version recorded and, unless two processes overlapped, with exactly the schema of a new install; `RowsKept`: scripts, schedules and runs survive every crash and overlap; `FailsOnlyTorn`: a start fails only in a script a crash tore, never in 012 or 014, except for overlaps and for 011 with runs whose script is gone |

`Schedules`, `LogStream`, `RunPages` and `SchedulePages` have a type invariant besides, which is proved too (§5); those of
`Executor`, `RunEngine`, `ScriptEditor`, `EnvKeys` and `Session` are only proved.

Bounds. Two slots for three tasks and two scripts give every shape of waiting: for a slot, for a lock with a slot, a
slot passed on by a task that waited for a lock. Every hazard of the engine takes at most two runs in progress
and one observer, hence three tasks and three rows of one script (scripts share only the semaphore, which
the executor's run covers). Instants 0 to 2 let a schedule fire twice, the second time into the first run, its retry or
its queue. The engine's instances have no fire beyond the horizon and no child that never ends (`Gap` and `Endless` are
empty) and no sandbox; `schedules` runs the first with a plan that has such a gap, and the theorems hold for every
value. A window of 4 with fires at 2, 3 and 12 has the fire repeated that the calendar does not follow with another in time. A queue of 2 with 3 lines overflows with a line and with the end marker; two attempts and two connections let
each overlap the other's end. Two requests are an edit of a row the tick
holds with another edit or the delete after it, or two requests about the same row; they are numbered in the order in
which they are made, since otherwise they are alike. Fires at 1, 2 and 3 are a third fire within the horizon. Two
rotations and two saves make every pair that can overlap. Two files and two saves are the file left and the file
entered, each with a save in the air; two texts of one file are a text saved and one typed since. Two runs and pages of
one row are a second page, and a run after the one watched; both may run at once in the list of running ones, which holds
two. Two attempts of two lines and one restart are a line of each attempt, before and after a close, a gap in front of
a line and behind one, and a channel made anew; the list, which shows no output, has the statuses alone, and the Logs tab,
whose runs are triggered and never retried, one line. One interval without a zone, with days, a policy and the switch off, differs
from what the form sends in every column. "First of month" and "*" are the two expressions the picker does not tell. Three starts and two crashes are a crash, one in the start after it, and one
more. Two tabs and two tokens are a sign-in beside one that is
signed out or refused. `RunId`, `Horizon`, `MaxCrashes`, `MaxFaults`, `MaxLines`, `MaxAttempts`, `MaxConns`, `MaxRestarts`,
`Versions`, `TabLines`, `RunningLimit`, `Outcomes`, `MaxRequests`, `LastRun`, `LastPage`, `MaxLooks`, `MaxClicks`, `MaxDialogs`, `MaxToggles`, `MaxTokens`,
`MaxOpen` and `MaxStarts` bound what is unbounded in the code, or what is looked at; `MaxFiles` is a limit of the code, made small, and so are
`PageSize` and `RunningLimit`.

Deadlock is checked in the runs of engine, executor, schedules and editor. It is not in the others, where the system may stop: a log
ends and pages leave (`log_stream`), every request was made (`env_keys`), no start is left (`migrations`), and runs have ended, dialogs were opened and tokens issued up
to their bounds (`run_pages`, `schedule_pages`, `session`).

Fairness. The event loop resumes every ready coroutine (weak); semaphore and lock queues pass nobody over (strong);
children that are not `Endless` end; the tick is restarted by its loop. Nothing has to fail and nobody has to make a
request. `Executor` assumes that `Release` is not delayed for ever although it awaits the broker's lock: that is
what `RunGoesOn` shows of the broker. `LogStream` assumes that the first small frame of a response does not wait for
its client, and that an open page reads. `RunPages` assumes that a poll that is due is made and answered in the end
(weak, per query): the interval timer of TanStack Query; no click and no step of the server is fair.

## 4. Where code and comments part

One run, `engine_cancelled`, checks one sentence of the repository, and TLC's counterexample shows the code doing otherwise:
schedules-runs-design.md:80 calls `cancelled` terminal, but the finalizer writes over it by id, or retries the run.

Noticed while modelling, not given a run:

The engine. A child whose output could not be read is neither killed nor awaited while the lock is given back
(executor.py:136, against ROADMAP.md:34); two triggers both check before either inserts (api/runs.py:176); the finalizer
of a triggered run promotes nothing, so what queued behind it waits (tick.py:168); a promoted run is not in
`active_procs`, so a cancel leaves it running (api/runs.py:343); a cron schedule without a fire in the seven days after its
cursor keeps that cursor and fires on every tick from then on, until it is edited (tick.py:105-130), where schedules-runs-design.md:121
says that the cursor always keeps the schedule moving: the preset "First of month" is one (presets.py:9). Run_service.py:103 says "Atomically flip the oldest pending run to running", but the SELECT and
the UPDATE are two awaited statements, so two finalizers of one script (possible with the parallel policy) promote one
row, which is executed twice (found by TLC with a queueing schedule, no retries and three instants: of three rows the second was
started twice), which is why `StartsWithinRetryMax` speaks of scripts without a queue; schedules-runs-design.md:114 says that no direct croniter calls remain outside
`compute_next_run`, but `create` and `update_schedule` call `advance_next_run`, so the first cursor of a schedule
disregards its timezone and filters, and the one after an edit as well; a row whose computation raises a plain
`ValueError` ends every tick, and due rows behind it starve; a schedule whose script was deleted can no longer be
deleted, since the owner check answers 404; the queue is bounded per script, not per schedule as schedules-runs-design.md:124 has it
(run_service.py:93-97); a retry reuses the row of the attempt that failed, where the same document, line 28, wants each
attempt visible (run_service.py:176-186); ROADMAP.md:55 closes the log stream when the status becomes terminal, while the
code closes it after the first attempt, never streams another in the same process, and after a restart ends no
stream of a run that is over; a full queue may drop the end marker, so `EndReaches` excepts it.

Migrations. All scripts but 012 and 014 fail when run again after a crash past their first statement, for good, also 013, whose
line 3 calls itself idempotent: its ALTER TABLE fails when the column exists. The plan of 011
(plans/2026-08-16-schedules-runs.md:14) says "No destructive migration", but 009 leaves foreign keys on for the rest of the
pass, and DROP TABLE runs empties `logs` by cascade when a database of version 8 or less is upgraded in one go; with runs whose
script was deleted, 011 fails there. Doctor.py:4 calls itself safe to run against production, but its pass goes by the version
read at its start: read as 8 while a server upgrades, 009 runs after 014, where it succeeds again because 014 dropped the index
that stopped it before, and `scripts` loses `user_id` and `entrypoint` under the running server, which is why `ServesNewest`
excepts overlaps. 011 drops the four indexes of `runs` made by 004 and 008 and makes none of them again. These were
replayed on the scripts themselves in SQLite.

Variables. The design promises a rotation that "rewraps all ciphertexts atomically"
(2026-08-14-scriptdeck-v2-revamp-design.md:294); a PUT during a rotation, a second rotation, or a restart before the configuration has
the new key leave rows that the key in use cannot read, which is why `RowsSound` excuses overlaps. A PUT whose row a
DELETE removes between its SELECT and its UPDATE is answered 200 with nothing stored. Scheduled runs get no variables, and the scheduler keeps the
`env_service` it was started with.

Editor. The label is green although the tab was left before the save (2026-08-17-script-editor-multi-file-design.md:54,
EditorPanel.tsx:17); the autosave of a deleted file creates it again, past the limit of 50 files that only POST checks
(api/scripts.py:274); the Logs tab shows the body as it comes (`res.text()`, so the raw JSON) and looks at its cancelled flag before the
body is read (ScriptEdit.tsx:269).

Runs. The page shows `liveText || fallbackText` (RunView.tsx:59) where the design says append
(2026-08-14-scriptdeck-v2-revamp-design.md:441); `AttemptList` never appears, since a retry reuses the row, and `useLiveLogs`
keeps the events of the attempt before. A subscriber whose queue is full is passed over (log_broker.py:68-72), so a page may show
an output with gaps and the end after it. Of a run that is retried an open page shows the first attempt for good, as `ended`
does not go back, and no button to cancel the second; across a restart of the server it may mix lines of both. The dashboard counts "failed", a status the backend never writes.

Schedules. A save's answer closes whichever dialog is open by then (Schedules.tsx:85); a failed fetch gives the default
form for an existing schedule; `["schedule", id]` is not invalidated by an update, so a second edit begins with, and sends back, the record before the
first; `include_days` is always sent as null and the kind as cron, whatever the row has (ScheduleForm.tsx:121,126), and a null
zone becomes the user's (Schedules.tsx:292); the list for small screens links to a route that does not exist (Schedules.tsx:128); "* * * * *" and then
Daily gives "* 9 * * *"; the preset "First of month" is shown as Daily at 00:00 (CustomPicker.tsx:42-48); the first fetch of the list is not given up by an
invalidation, so a change answered before it may be missing from the list.

Signing in. A late `/auth/me` replaces the user who has signed in meanwhile (AuthProvider.tsx:25; `raced`); the late 401 of an old
token discards the newer one, and so does the 401 of a wrong password; signing out in a second tab is answered 422 and
leaves the user shown; the query cache survives a sign-out; the answers to login and set-up carry no timezone; two
first-user set-ups at once both make an admin (api/auth.py:56); an admin can take the role from himself; "Update
password" has no handler.

## 5. What is proved

All for every value of the constants, from the assumption each module states about its constants alone.

`RunEngineProofs`, first part: `Executor`. The inductive invariant is `ExecInv`: types, `SlotsCounted` and `LocksOwned`. Types are not inductive
alone: that `permits` never exceeds `Concurrency` after a release needs the count of the tasks inside. From it:

- `ExecInvariant`: `ExecSpec => [](ExecTypeOK /\ NoLeak)`;
- `Exclusion`: two supervised children of one script would both own its lock;
- `Refinement`: `ExecSpec => Pool!Spec`. `TakeLock` is `Begin` (there is room because a task that owns a lock holds a
  slot, and owners are one per script), `Release` is `End`, a crash is `Wipe`, the rest stutters.

`RunEngineProofs`, second part: `RunEngine`. Every engine step is an executor step or leaves the executor's variables alone
(`EngineStepIsExecStep`), so `UsesExecutor` carries the theorems above over to the engine (`EngineExclusion`).
`EngineInv` adds the types of the engine and `Linked`: every local variable that outlives an `await` names a row
that exists. The types need it, since a write through a stale id could give an absent row a status. From it:

- `EngineInvariant`: `Spec => [](TypeOK /\ NoLeak /\ Linked)`;
- `NoOrphans`: `Spec => []RunningHasTask`. Whoever makes a row running creates its task in the same step, and whoever
  ends that task's hold on the row has written another status, in the step before or the same one. The delicate
  cases are two tasks with one row (a promotion that happened twice) and a promotion of a row that is running already.
- `FiresKept`: `Spec => []FiresAccounted`. Inductive is `FiresInv`: the cursor is past 0, and the tick holds a schedule
  exactly between the commit of its cursor and that of its row (`HandsFull`). A row inserted adds one to the rows of its
  schedule (`InsertsRow`), and only the tick inserts rows of schedules (`RowWriters`);
- `QueueBounded`: `Spec => []PendingWithinQueueMax`. Inductive is `QueueInv`, which adds what the tick still knows when
  `count_pending` has answered: the queue is shorter than its bound, and until the INSERT it only gets shorter;
- `VisibleProcess`: `Spec => []ProcessVisible`, and `FinalStays`: `Spec => FinalIsFinal`. Both are about who writes a row.
  Inductive is `OwnInv`: a row of a script without a queue is carried by one task at most, which shows it as running, or is
  one that the tick has found waiting for a retry (`RowsOwned`); a task works for the script of its row and promotes rows
  of its own script alone (`JobsOwned`); and the tick is not about to run a row twice (`TickAims`). With a queue, none of
  this is so: a promotion may happen twice (`engine_cancelled` and §4);
- `RetryBound`: `Spec => []StartsWithinRetryMax`, of how often rows are executed and not of what the column `attempt`
  says. That the history is right is `StartsCounted`: `starts` grows in the steps in which a task takes the row up, and in no other. Inductive, beside `OwnInv` and the bound of the column (`AttemptsBounded`), is `StartsInv`: a row without a queue has been started at
  most once more than its attempt says, no more often than that while it waits for its retry or the tick is about to run it,
  and a finalizer that is going to grant a retry has read an attempt that counts all starts but one;
- `ActiveAlone`: `Spec => []OneActiveRun`. Inductive is `ActiveInv`: between `has_active_run` and the row that relies
  on it (`Cleared`) no row of the script becomes active, since only the tick starts runs of a script nobody triggers and
  no schedule queues.

`SchedulesProofs`. `TypeInv` adds to the types that the tick holds copies only while it works. From it and from the fact
that a non-empty set of instants has an earliest one:

- `ScheduleTypes`: `Spec => []TypeOK`;
- `FiresOnceLate`: `Spec => []LateOnce`. Inductive is `LateInv`: the tick holds a schedule at most once, as a copy or in
  hand, and one it holds has not fired since it was switched off;
- `EditsHeal`: `Spec => FiresFollowPlan`. Inductive is `PlanInv`: from the first fire after an edit the copy is the row's,
  from the second the cursor is the plan's. The first of them may still come from a copy of the plan before. What a tick then
  takes is the next fire, strictly later and none left out (`NextFireFollows`), and the same one again only where the
  plan has none within the window (`Exhausted`).

`DatabaseProofs`, first part: `EnvKeys`. `KeysInv` says: types, and, as long as nothing overlapped a rotation, `Calm`: what a rotation has read is
what the rows still hold, unless they were deleted (`StillRead`); the key it set out from is the one in use (`OldInUse`); a save in progress has the
key in use and no rotation beside it (`SavesInUse`); there is one rotation (`OneRotation`); the rows are under its key once it
has committed (`UnderNew`) and under the key in use otherwise (`UnderService`). `RowsSound` alone is not inductive: it
cannot tell that `Rewrap` writes texts that are still current. From it:

- `RowsStaySound`: `Spec => []RowsSound`;
- `ReadersDoHeed`: `Spec => []ReadersHeed`.

`ScriptEditorProofs`. Inductive is `EditorInv`: every text on its way - in the editor, behind the timer, in a PUT or a GET, in
the cache, on the disk - is one of the file it is for (`ServerInv`, `CacheInv`, `PanelOwn`, `SavesInv`, `LoadsInv`), and every
request names a file (`RequestsInv`, `RequestsNamed`). The step that needs it all is the move to another file with a save due:
the text leaves with the name it was typed under. From it `EditorTypes`, `NeverCrossWritten`: `Spec => []NoCrossWrite`, and
`AlwaysBelongs`: `Spec => []ShownBelongs`.

`SavedUnlessDisturbed` speaks of quiet moments alone. `StoredInv` says what an undisturbed page may have on its way: at
most one live load, of an editor still empty, and if it was answered, with what the disk holds (`LoadsCurrent`); at most
one save, of the text shown, behind which no timer waits, and which is on the disk once it was served (`SavesCurrent`);
when neither is there, the disk holds what the panel takes for saved. A deletion of the open file that was served but not
answered is the one exception, since the panel is about to go (`Deleted`). `ScriptSeen` is needed beside it: no panel is
mounted under a tab that is open already. From them `SavedIsStored`: `Spec => []SavedUnlessDisturbed`.

`SessionProofs`. `SignedInTogether` speaks of the stored token, which any tab may replace at any time. `SessionInv` compares
what a tab shows with the token that tab has found or put there itself (`Told`), knows that the first question of a document
was asked with that token, and that the answer to a sign-in names the account of its token. From it `SessionTypes` and
`AlwaysTogether`: `Spec => []SignedInTogether`.

`LogStreamProofs`. That the next line fits to the end of what a connection carries needs to know where that end is:
`Abreast` says that a queue of a channel that goes on holds no end frame and ends with the line published last, unless one was
missed; `Later` that everything a later connection of a page carries is later than what the earlier ones showed, which
`Publish` keeps since nothing carried is beyond what was published (`Published`). `QueuesListed`, `EmptyUntilLive` and `PagesCount`
say which connections can have anything at all, and `LinesCounted` keeps the number of lines within its bound. From `LogInv`,
their conjunction:

- `StreamTypes`: `Spec => []LogTypeOK`, the bound of the queues included;
- `CarriedInOrder`: `Spec => []ConnectionInOrder`;
- `ShownOnce`: `Spec => []NoLineTwice`.

`DatabaseProofs`, second part: `Migrations`. For the versions, what the scripts do to the schema plays no part: `GapInv` says that everything below the script a process
works on is recorded (`Behind`), because what a pass read of `schema_version` only grows. From it `NeverGaps`:
`MigrateSpec => []NoGaps`, and `ServesRecorded`, the first half of `ServesNewest`.

`RowsSurvive` is `MigrateSpec => []RowsKept`, and here the scripts matter. First the units are taken apart: `Run` folds over one
statement or six (`RunOfOne`, `RunOfSix`), eleven scripts have none but plain statements (`PlainScripts`), 009 and 014
rebuild `scripts` in their second unit (`Nine`, `Fourteen`), 011 rebuilds `runs` in its units 13 to 15 (`Eleven`). Then what each kind
does to the rows (`PlainRun`, `RebuildRun`, `RunsUnit`; together `EveryUnit`). Inductive is `RowsInv`: a process about to rebuild
`scripts` has foreign keys off, so that dropping the old table deletes no schedules and runs; one about to drop `runs` has the copy
in `runs_new`; and at most one process is past the first unit of 011 (`InEleven`), because that unit adds `users.timezone`, which
stays, and fails when it is there. No lock keeps two processes apart; this column does.

`FailsTorn`, `MigrateSpec => []FailsOnlyTorn`, and `ServesTheNewest`, `MigrateSpec => []ServesNewest`, are about the schema, so all
fourteen scripts are gone through unit by unit. The 49 objects they make are numbered (`Made`), which makes a schema a set of
numbers; `Stage(n, k)` is the schema when script n has committed k units. Three kinds of facts hold of the units whatever
the rows and foreign keys are: each leads from its stage to the next (`Onward`; the copy of `runs` in 011 unless rows point
nowhere), the first unit of every script but 009, 012 and 014 fails at all later stages of its script (`Once`), and 009 and 014 begin with one that
changes no schema, after which 009 fails on what it has made and 014 makes it again (`Onward9`, `Onward14`). A script ends where the next begins
(`StagesMeet`), so `SchemaAt` is the last stage of each (`SchemaAtIs`). `UnitStep` joins these: a process that takes up a script at
the unit it is at, or begins again at any stage, advances, passes or fails. Inductive, beside `RowsInv`, is `SchemaInv`: as long as no two
processes migrate at once, the schema is at a stage of the first script not recorded; it is at the beginning of it, or a
process is in it at that very unit, or the script is excused (a crash tore it, or it is 011 with runs that
point nowhere, `InTheWay`); and a process that has foreign keys on before 014 has run 009, so that the database was found at 8 or less. What `FailsOnlyTorn`
says of 012 and 014 comes out of it: they are the scripts of which no unit fails at any of their stages.

`RunPagesProofs`. `ServerInv` is what the pages may rely on: a run that has ended has no task, a file that
no attempt opened is empty (`Whole`), and a channel is open for the first attempt only, until a restart makes it forget (`OneAttempt`); `EndedKeeps` is
what follows for every later step. A server step is a step of one run (`Goes`), the opening of a log (`Opens`) or a restart
(`StartedAgain`); `ServerAt` says what each leaves of the others. Each page is then looked at alone (`EveryStep`), first
while the server moves under it, then by its own actions. `ListInv` gives every answer, also the one kept as a placeholder,
the filters it was made for. `StreamInv` knows what `useLiveLogs` has while lines still come. A channel that is open while nobody
writes has published nothing (`WaitsEmpty`), so opening a log takes no line away from a page that listens; a stream that was there
from the first line and lost none has brought all lines up to its position (`FromTheFirst`); one of a run found ended
brings nothing, and the recorded log is then the whole (`FoundEnded`); before a restart all lines are of the first attempt. That what is
published of a run only grows, and is of the same attempt, as long as no log is opened and the server runs on, is `GoesOn`. `FetchesOwn` says that a fetch that still counts is for
the run shown and, once that run is seen to have ended, has read the whole log. From them `RunsTypes`, `FilterHeeded`:
`Spec => []ShownMatchesFilter`, `OutputWhole`: `Spec => []OutputOfOneAttempt`, and `TabShowsFinal`: `Spec => []LogsTabShowsFinal`, which,
like the property, says nothing of a text whose reading outlasted its effect.

`SchedulePagesProofs`. From the types (`PageInv`, which adds that a form shown is somebody's and that a save has a row):

- `SchedulePagesTypes`: `Spec => []SchedulePagesTypeOK`;
- `ListBecomesTable`: `Spec => []ListCurrent`. `ListCurrent` speaks of a quiet page; `ListInv` names who will bring the
  table before that: a fetch not served yet, one that has the table as it is, or a served change whose answer will ask again;
- `FormKeepsRest`: `Spec => UntouchedKept`. Inductive is `KeptInv`: column by column, a form differs from the row only where it was
  touched or is stale (`FormKeeps`), and so does a save under way, with the switch and the policy besides (`SaveKeeps`). It also needs that
  a known record is never forgotten and ids are not used again, or a form would begin with one row and be saved into another;
- `PickerTrue`: `Spec => []PickerTellsTruth`. Inductive is `EditableInv`: when only expressions of a shape the picker can edit are
  typed, offered or there at the start, the table, the cached records, the form and the save hold no others, and no day of the
  month but those brought (`PicksMade`, `PresetsMade`); of those shapes the picker shows the time, and without a day of the month
  the days (`EditableTold`).

Not proved, checked by TLC only: everything under fairness (`TaskEnds`, `DueFires`, `RunEnds`, `RegularFires`, `EndReaches`,
`RunGoesOn`, `StaleRowGoes`, the liveness half of `ImplementsPool`), which the prover does not do. Of every invariant and every
safety property of an action that a run checks there is a theorem.

## 6. Plan

1. Done: executor, run engine, log stream, schedules, variables and keys, migrations, and of the dashboard the editor, the run
   pages, the schedule pages and signing in.
2. Next: `ScheduleCompute`, the search of `compute_next_run` day by day through timezone and filters against a reference
   definition, which gives `Calendar` of `Schedules` its meaning; refresh and expiry of tokens, retention, backup.
3. Proofs: every safety property that a run checks is proved; what 2 adds will bring new ones.

## 7. Not modelled

Of the server: runners and sandbox (command lines and kernel namespaces; their results are the outcomes of `Executor`'s
steps), retention, backup and moves of databases, SQL and HTTP
themselves, authorization of reads, audit lines, statistics, health, presets as an endpoint, configuration and CLI, creation and upload of
scripts and their dependencies; of accounts the refresh and expiry of tokens, the revocations that a restart forgets,
changes of password and timezone, the form for invitations. Clock changes backwards are not modelled, nor are two servers on
one data directory: the application documents one process (`Migrations` has one server and doctor). A migration that waits
longer for SQLite's lock than its five seconds is left out.

Of the dashboard: the name and description form of a script, the preview of the next fires and the dates to skip, badges,
durations, statistics, themes and navigation bars: what renders without deciding anything. The UI kit (about 3,300 lines) is
third-party components copied in, without state of the application; the built documentation site and the built
bundle are generated, and `site/assets/javascripts/lunr/wordcut.js`, a Thai word breaker of 6,700 lines that comes with the site's search, is
vendored: together they are most of the JavaScript in the repository, and none of it is the program's own logic.
