------------------------------ MODULE RunEngine ------------------------------
(***************************************************************************)
(* The life of a run: the rows of the runs table and everybody who writes  *)
(* them.                                                                   *)
(*                                                                         *)
(*   scheduler/tick.py    the tick, one coroutine, and the finalizer of    *)
(*                        the tasks it creates                             *)
(*   api/runs.py          trigger and cancel requests, and the finalizer   *)
(*                        of the tasks a trigger creates                   *)
(*   services/run_service.py, services/schedule_service.py                 *)
(*                        the statements they execute                      *)
(*   app.py               start, and what a dead server leaves behind      *)
(*                                                                         *)
(* The tasks themselves run in Executor, which this module extends.        *)
(*                                                                         *)
(* Grain of atomicity.  A SELECT is a step of its own, since the session   *)
(* holds no snapshot between statements and every await lets another       *)
(* coroutine run.  The writes of a transaction take effect at its commit,  *)
(* with the code up to the next await: one step.                           *)
(***************************************************************************)
EXTENDS Executor

CONSTANTS
    Schedule,      \* schedules, all enabled
    NoSchedule,    \* runs.schedule_id IS NULL
    ScriptOf,      \* schedules.script_id
    Policy,        \* schedules.overlap_policy
    QueueMax,      \* schedules.queue_max
    RetryMax,      \* schedules.retry_max
    Gap,           \* fires of a schedule after which compute_next_run finds none
    Endless,       \* scripts that run until they are told to stop
    Sandboxed,     \* settings.sandbox_enabled
    HostFails,     \* whether the host refuses a directory or a lock file, or a
                   \* child's output cannot be read or logged
    Request,       \* trigger requests, each made at most once
    Canceller,     \* cancel requests, each made at most once
    RunId,         \* runs.id
    NoRun,
    Horizon,       \* bound: the last instant of the clock
    MaxCrashes,    \* bound: how often the server dies
    MaxFaults      \* bound: how often a database error escapes a coroutine

ASSUME EngineAssumption ==
    /\ RunId \subseteq Nat
    /\ IsFiniteSet(RunId)
    /\ NoRun \notin RunId
    /\ NoSchedule \notin Schedule
    /\ ScriptOf \in [Schedule -> Script]
    /\ Policy \in [Schedule -> {"skip", "queue", "parallel"}]
    /\ QueueMax \in [Schedule -> Nat \ {0}]
    /\ RetryMax \in [Schedule -> Nat]
    /\ Gap \in [Schedule -> SUBSET Nat]
    /\ Endless \subseteq Script
    /\ Sandboxed \in BOOLEAN
    /\ HostFails \in BOOLEAN
    /\ Horizon \in Nat
    /\ MaxCrashes \in Nat
    /\ MaxFaults \in Nat

VARIABLES
    runs,      \* the runs table
    cursor,    \* schedules.next_run_at, as the number of the next fire
    dropped,   \* schedules.queue_dropped
    clock,     \* fire n of a schedule is due from instant n on
    tick,      \* where the scheduler's coroutine is, with its local variables
    job,       \* what each task does besides run_script
    trigger,   \* progress of each trigger request
    cancel,    \* progress of each cancel request
    crashes,   \* how often the server has died
    faults     \* how often a database error has escaped a coroutine

dbVars == <<runs, cursor, dropped>>
apiVars == <<trigger, cancel>>
boundVars == <<crashes, faults>>
vars == <<execVars, dbVars, clock, tick, job, apiVars, boundVars>>

-----------------------------------------------------------------------------
(* Rows and local variables. *)

Status == {"running", "success", "failure", "error", "cancelled", "skipped",
           "pending", "pending_retry"}

\* Columns script_id, schedule_id, status and attempt; ripe says whether
\* next_attempt_at has passed.  starts is history: how often a task has taken
\* the row up.  (attempt says how often a retry was granted; that a row is not
\* executed more often than that is another matter, since what dispatches it
\* writes by its id, whatever the row says by then.)
RowType == [script : Script, sched : Schedule \cup {NoSchedule}, status : Status,
        attempt : Nat, ripe : BOOLEAN, starts : Nat]

NoRow == [script |-> NoScript, sched |-> NoSchedule, status |-> "absent",
          attempt |-> 0, ripe |-> FALSE, starts |-> 0]

Rows == {r \in RunId : runs[r].status # "absent"}

RowsWith(s, st) == {r \in RunId : runs[r].script = s /\ runs[r].status = st}

\* run_service.has_active_run
HasActiveRun(s) == RowsWith(s, "running") # {}

\* run_service.count_pending
CountPending(s) == Cardinality(RowsWith(s, "pending"))

\* The pending row of s that started first; ids are given in that order.
OldestPending(s) ==
    CHOOSE r \in RowsWith(s, "pending") : \A q \in RowsWith(s, "pending") : r <= q

\* AUTOINCREMENT gives the ids out in order.
NextId(r) ==
    /\ runs[r].status = "absent"
    /\ \A q \in RunId : q < r => runs[q].status # "absent"

\* run_service.create_run
NewRow(s, sc, st) ==
    [script |-> s, sched |-> sc, status |-> st, attempt |-> 0, ripe |-> FALSE,
     starts |-> IF st = "running" THEN 1 ELSE 0]

SetStatus(r, st) == runs' = [runs EXCEPT ![r].status = st]

\* A row that is there is flipped, to be dispatched in the same step.
TakeUp(r) == runs' = [runs EXCEPT ![r].status = "running", ![r].starts = @ + 1]

\* The retry_max of the schedule a run came from; a run without a schedule
\* finds no row in the join and has no retries.
RetriesOf(r) == IF runs[r].sched = NoSchedule THEN 0 ELSE RetryMax[runs[r].sched]

TickPc == {"sleep",    \* between two ticks
           "fire",     \* Phase 1, at the head of the loop over due rows
           "overlap",  \* cursor committed, before has_active_run
           "skip",     \* will record a skipped fire
           "count",    \* before count_pending
           "full",     \* will record a dropped fire
           "enqueue",  \* will insert a pending run
           "create",   \* will insert a running run and dispatch it
           "retries",  \* Phase 2, at the head of the loop over retries
           "rerun"}    \* has_active_run was false, will flip the row

TickType == [pc : TickPc, due : SUBSET Schedule, at : Schedule \cup {NoSchedule},
         retries : SUBSET RunId, row : RunId \cup {NoRun}]

Asleep == [pc |-> "sleep", due |-> {}, at |-> NoSchedule, retries |-> {}, row |-> NoRun]

\* by: who created the task, which decides which _execute_and_finalize it
\* runs and whether its subprocess is registered in active_procs.
\* step: where the finalizer is once run_script has returned.
\* seen: the attempt the finalizer read; next: the pending row it read.
\* term: SIGTERM was sent to the subprocess.
JobType == [by : {"tick", "drain", "api"}, run : RunId, term : BOOLEAN,
        step : {"result", "attempt", "drain", "flip"},
        seen : Nat, next : RunId \cup {NoRun}]

NoJob == [by |-> "nobody", run |-> NoRun, term |-> FALSE, step |-> "result",
          seen |-> 0, next |-> NoRun]

NewJob(by, r) == [by |-> by, run |-> r, term |-> FALSE, step |-> "result",
                  seen |-> 0, next |-> NoRun]

\* The subprocess of t is found under its run id in app.state.active_procs.
\* Promoted runs are scheduled with app=None, the sandbox registers nothing.
Registered(t) ==
    /\ stage[t] = "proc"
    /\ job[t].by \in {"tick", "api"}
    /\ ~Sandboxed

TriggerType == [pc : {"new", "checked", "done"}, script : Script \cup {NoScript}]
CancelType == [pc : {"new", "read", "write", "done"}, run : RunId \cup {NoRun},
                seen : Status \cup {"none"}]

EngineTypeOK ==
    /\ runs \in [RunId -> RowType \cup {NoRow}]
    /\ cursor \in [Schedule -> Nat]
    /\ dropped \in [Schedule -> Nat]
    /\ clock \in 0 .. Horizon
    /\ tick \in TickType
    /\ job \in [Task -> JobType \cup {NoJob}]
    /\ trigger \in [Request -> TriggerType]
    /\ cancel \in [Canceller -> CancelType]
    /\ crashes \in 0 .. MaxCrashes
    /\ faults \in 0 .. MaxFaults

TypeOK == ExecTypeOK /\ EngineTypeOK

Init ==
    /\ ExecInit
    /\ runs = [r \in RunId |-> NoRow]
    /\ cursor = [s \in Schedule |-> 1]
    /\ dropped = [s \in Schedule |-> 0]
    /\ clock = 0
    /\ tick = Asleep
    /\ job = [t \in Task |-> NoJob]
    /\ trigger = [q \in Request |-> [pc |-> "new", script |-> NoScript]]
    /\ cancel = [c \in Canceller |-> [pc |-> "new", run |-> NoRun, seen |-> "none"]]
    /\ crashes = 0
    /\ faults = 0

-----------------------------------------------------------------------------
(* Creating tasks. *)

FreeTask == CHOOSE t \in Task : stage[t] = "idle"

\* tick._schedule and runs._schedule_execution: create_task.  A task name is
\* always free when the model has as many as there can be live tasks.
Dispatch(by, r, s) ==
    /\ \E t \in Task : stage[t] = "idle"
    /\ Submit(FreeTask, s)
    /\ job' = [job EXCEPT ![FreeTask] = NewJob(by, r)]

-----------------------------------------------------------------------------
(* Time.  A tick reads the clock once, when it starts, so time is only     *)
(* seen to pass between two ticks.                                         *)

ClockMoves ==
    /\ tick.pc = "sleep"
    /\ clock < Horizon
    /\ clock' = clock + 1
    /\ UNCHANGED <<execVars, dbVars, tick, job, apiVars, boundVars>>

\* next_attempt_at of a failed run passes.
BackoffElapses(r) ==
    /\ tick.pc = "sleep"
    /\ runs[r].status = "pending_retry"
    /\ ~runs[r].ripe
    /\ runs' = [runs EXCEPT ![r].ripe = TRUE]
    /\ UNCHANGED <<execVars, cursor, dropped, clock, tick, job, apiVars, boundVars>>

-----------------------------------------------------------------------------
(* The tick, Phase 1: due schedules. *)

\* Fault: list_due compares with < where it should with <=.
BeginTickLate ==
    /\ tick.pc = "sleep"
    /\ tick' = [tick EXCEPT !.pc = "fire", !.due = {s \in Schedule : cursor[s] < clock}]
    /\ UNCHANGED <<execVars, dbVars, clock, job, apiVars, boundVars>>

\* list_due, whose rows the rest of the tick works from.
BeginTick ==
    /\ tick.pc = "sleep"
    /\ tick' = [tick EXCEPT !.pc = "fire", !.due = {s \in Schedule : cursor[s] <= clock}]
    /\ UNCHANGED <<execVars, dbVars, clock, job, apiVars, boundVars>>

\* Fault: the iterator is advanced twice, so one fire is passed over.
NextCursorTwice(s) == cursor[s] + 2

\* compute_next_run or advance_next_run after the fire the row was due for;
\* a ComputeError leaves next_run_at where it was.
NextCursor(s) == IF cursor[s] \in Gap[s] THEN cursor[s] ELSE cursor[s] + 1

\* advance and commit, for one of the rows; SQL promises no order of them.
AdvanceCursor(s) ==
    /\ tick.pc = "fire"
    /\ s \in tick.due
    /\ cursor' = [cursor EXCEPT ![s] = NextCursor(s)]
    /\ tick' = [tick EXCEPT !.pc = "overlap", !.due = @ \ {s}, !.at = s]
    /\ UNCHANGED <<execVars, runs, dropped, clock, job, apiVars, boundVars>>

\* has_active_run, and the branch it decides.
CheckOverlap ==
    /\ tick.pc = "overlap"
    /\ LET overlap == HasActiveRun(ScriptOf[tick.at])
       IN  tick' = [tick EXCEPT !.pc =
               CASE overlap /\ Policy[tick.at] = "skip"  -> "skip"
                 [] overlap /\ Policy[tick.at] = "queue" -> "count"
                 [] OTHER -> "create"]
    /\ UNCHANGED <<execVars, dbVars, clock, job, apiVars, boundVars>>

BackToFire == tick' = [tick EXCEPT !.pc = "fire", !.at = NoSchedule]

\* INSERT of a row for the schedule the tick is at.
InsertFire(st) ==
    \E r \in RunId :
        /\ NextId(r)
        /\ runs' = [runs EXCEPT ![r] = NewRow(ScriptOf[tick.at], tick.at, st)]

RecordSkip ==
    /\ tick.pc = "skip"
    /\ InsertFire("skipped")
    /\ BackToFire
    /\ UNCHANGED <<execVars, cursor, dropped, clock, job, apiVars, boundVars>>

\* Fault: the queue is full one run too late.
CheckQueueOffByOne ==
    /\ tick.pc = "count"
    /\ tick' = [tick EXCEPT !.pc =
           IF CountPending(ScriptOf[tick.at]) > QueueMax[tick.at] THEN "full" ELSE "enqueue"]
    /\ UNCHANGED <<execVars, dbVars, clock, job, apiVars, boundVars>>

CheckQueue ==
    /\ tick.pc = "count"
    /\ tick' = [tick EXCEPT !.pc =
           IF CountPending(ScriptOf[tick.at]) >= QueueMax[tick.at] THEN "full" ELSE "enqueue"]
    /\ UNCHANGED <<execVars, dbVars, clock, job, apiVars, boundVars>>

RecordDrop ==
    /\ tick.pc = "full"
    /\ InsertFire("skipped")
    /\ dropped' = [dropped EXCEPT ![tick.at] = @ + 1]
    /\ BackToFire
    /\ UNCHANGED <<execVars, cursor, clock, job, apiVars, boundVars>>

Enqueue ==
    /\ tick.pc = "enqueue"
    /\ InsertFire("pending")
    /\ BackToFire
    /\ UNCHANGED <<execVars, cursor, dropped, clock, job, apiVars, boundVars>>

\* create_run, commit, _schedule.
CreateAndDispatch ==
    /\ tick.pc = "create"
    /\ \E r \in RunId :
          /\ NextId(r)
          /\ runs' = [runs EXCEPT ![r] = NewRow(ScriptOf[tick.at], tick.at, "running")]
          /\ Dispatch("tick", r, ScriptOf[tick.at])
    /\ BackToFire
    /\ UNCHANGED <<cursor, dropped, clock, apiVars, boundVars>>

-----------------------------------------------------------------------------
(* The tick, Phase 2: due retries. *)

\* Fault: retries are picked by next_attempt_at alone, whatever the status.
PickRetriesByTime ==
    /\ tick.pc = "fire"
    /\ tick.due = {}
    /\ tick' = [tick EXCEPT !.pc = "retries",
           !.retries = {r \in RunId : runs[r].ripe}]
    /\ UNCHANGED <<execVars, dbVars, clock, job, apiVars, boundVars>>

\* All due rows are done; pick_due_retries.
PickRetries ==
    /\ tick.pc = "fire"
    /\ tick.due = {}
    /\ tick' = [tick EXCEPT !.pc = "retries",
           !.retries = {r \in RunId : runs[r].status = "pending_retry" /\ runs[r].ripe}]
    /\ UNCHANGED <<execVars, dbVars, clock, job, apiVars, boundVars>>

\* Fault: a retry is dispatched next to an active run.
CheckRetryAnyway(r) ==
    /\ tick.pc = "retries"
    /\ r \in tick.retries
    /\ tick' = [tick EXCEPT !.pc = "rerun", !.retries = @ \ {r}, !.row = r]
    /\ UNCHANGED <<execVars, dbVars, clock, job, apiVars, boundVars>>

\* has_active_run: an active run defers the retry to the next tick.
CheckRetry(r) ==
    /\ tick.pc = "retries"
    /\ r \in tick.retries
    /\ tick' = IF HasActiveRun(runs[r].script)
               THEN [tick EXCEPT !.retries = @ \ {r}]
               ELSE [tick EXCEPT !.pc = "rerun", !.retries = @ \ {r}, !.row = r]
    /\ UNCHANGED <<execVars, dbVars, clock, job, apiVars, boundVars>>

\* Fault: the retry is dispatched and its row left as it was.
RerunUnmarked ==
    /\ tick.pc = "rerun"
    /\ runs' = [runs EXCEPT ![tick.row].starts = @ + 1]
    /\ Dispatch("tick", tick.row, runs[tick.row].script)
    /\ tick' = [tick EXCEPT !.pc = "retries", !.row = NoRun]
    /\ UNCHANGED <<cursor, dropped, clock, apiVars, boundVars>>

\* The row is flipped whatever its status is by now, then dispatched.
Rerun ==
    /\ tick.pc = "rerun"
    /\ TakeUp(tick.row)
    /\ Dispatch("tick", tick.row, runs[tick.row].script)
    /\ tick' = [tick EXCEPT !.pc = "retries", !.row = NoRun]
    /\ UNCHANGED <<cursor, dropped, clock, apiVars, boundVars>>

EndTick ==
    /\ tick.pc = "retries"
    /\ tick.retries = {}
    /\ tick' = Asleep
    /\ UNCHANGED <<execVars, dbVars, clock, job, apiVars, boundVars>>

\* An exception in the tick (the database is locked) is logged by
\* scheduler_loop; what was not committed is rolled back.
TickFails ==
    /\ tick.pc # "sleep"
    /\ faults < MaxFaults
    /\ faults' = faults + 1
    /\ tick' = Asleep
    /\ UNCHANGED <<execVars, dbVars, clock, job, apiVars, crashes>>

-----------------------------------------------------------------------------
(* The tasks: run_script, then the rest of _execute_and_finalize. *)

restVars == <<dbVars, clock, tick, job, apiVars, boundVars>>

Acquire(t) == (TakeSlot(t) \/ TakeLock(t)) /\ UNCHANGED restVars

Raise(t) == HostFails /\ RunScriptRaises(t) /\ UNCHANGED restVars

Provision(t) == (SetupFails(t) \/ SpawnProcess(t)) /\ UNCHANGED restVars

\* An endless script only stops when it is told to.
ProcessEnds(t) ==
    /\ target[t] \in Endless => job[t].term
    /\ \E result \in {"success", "failure"} : ProcessExits(t, result)
    /\ UNCHANGED restVars

LoseProcess(t) == HostFails /\ SupervisionFails(t) /\ UNCHANGED restVars

GiveBack(t) == Release(t) /\ UNCHANGED restVars

LoseStray(s) == StrayEnds(s) /\ UNCHANGED restVars

EndJob(t) ==
    /\ Retire(t)
    /\ job' = [job EXCEPT ![t] = NoJob]

\* Fault: the finalizer of a triggered run only writes a success.
FinalizeTriggeredSuccess(t) ==
    /\ stage[t] = "over"
    /\ job[t].by = "api"
    /\ IF outcome[t] = "success" THEN SetStatus(job[t].run, outcome[t]) ELSE UNCHANGED runs
    /\ EndJob(t)
    /\ UNCHANGED <<cursor, dropped, clock, tick, apiVars, boundVars>>

\* api/runs.py: the outcome is written over whatever the row says; a trigger's
\* finalizer neither retries nor looks at the queue.
FinalizeTriggered(t) ==
    /\ stage[t] = "over"
    /\ job[t].by = "api"
    /\ SetStatus(job[t].run, outcome[t])
    /\ EndJob(t)
    /\ UNCHANGED <<cursor, dropped, clock, tick, apiVars, boundVars>>

\* scheduler/tick.py: after a failure, read the run's attempt.
ReadAttempt(t) ==
    /\ stage[t] = "over"
    /\ job[t].by \in {"tick", "drain"}
    /\ job[t].step = "result"
    /\ outcome[t] = "failure"
    /\ job' = [job EXCEPT ![t].step = "attempt", ![t].seen = runs[job[t].run].attempt]
    /\ UNCHANGED <<execVars, dbVars, clock, tick, apiVars, boundVars>>

\* Fault: the retry is granted and not counted.
MarkPendingRetryUncounted(t) ==
    /\ stage[t] = "over"
    /\ job[t].step = "attempt"
    /\ job[t].seen < RetriesOf(job[t].run)
    /\ runs' = [runs EXCEPT ![job[t].run].status = "pending_retry",
                            ![job[t].run].ripe = FALSE]
    /\ EndJob(t)
    /\ UNCHANGED <<cursor, dropped, clock, tick, apiVars, boundVars>>

\* mark_pending_retry returned True: commit, and return without a look at
\* the queue.
MarkPendingRetry(t) ==
    /\ stage[t] = "over"
    /\ job[t].step = "attempt"
    /\ job[t].seen < RetriesOf(job[t].run)
    /\ runs' = [runs EXCEPT ![job[t].run].status = "pending_retry",
                            ![job[t].run].attempt = job[t].seen + 1,
                            ![job[t].run].ripe = FALSE]
    /\ EndJob(t)
    /\ UNCHANGED <<cursor, dropped, clock, tick, apiVars, boundVars>>

\* finalize_run and commit, over whatever the row says.
Finalize(t) ==
    /\ stage[t] = "over"
    /\ \/ job[t].by \in {"tick", "drain"} /\ job[t].step = "result" /\ outcome[t] # "failure"
       \/ job[t].step = "attempt" /\ job[t].seen >= RetriesOf(job[t].run)
    /\ SetStatus(job[t].run, outcome[t])
    /\ job' = [job EXCEPT ![t].step = "drain"]
    /\ UNCHANGED <<execVars, cursor, dropped, clock, tick, apiVars, boundVars>>

\* promote_oldest_pending, its SELECT: nothing waits for this script.
NothingPending(t) ==
    /\ stage[t] = "over"
    /\ job[t].step = "drain"
    /\ RowsWith(target[t], "pending") = {}
    /\ EndJob(t)
    /\ UNCHANGED <<dbVars, clock, tick, apiVars, boundVars>>

SelectPending(t) ==
    /\ stage[t] = "over"
    /\ job[t].step = "drain"
    /\ RowsWith(target[t], "pending") # {}
    /\ job' = [job EXCEPT ![t].step = "flip", ![t].next = OldestPending(target[t])]
    /\ UNCHANGED <<execVars, dbVars, clock, tick, apiVars, boundVars>>

\* Fault: the pending row is flipped and never dispatched.
PromoteUndispatched(t) ==
    /\ stage[t] = "over"
    /\ job[t].step = "flip"
    /\ SetStatus(job[t].next, "running")
    /\ EndJob(t)
    /\ UNCHANGED <<cursor, dropped, clock, tick, apiVars, boundVars>>

\* promote_oldest_pending, its UPDATE (whose WHERE names the id only), commit,
\* and _schedule with app=None.
Promote(t) ==
    /\ stage[t] = "over"
    /\ job[t].step = "flip"
    /\ TakeUp(job[t].next)
    /\ Chain(t)
    /\ job' = [job EXCEPT ![t] = NewJob("drain", job[t].next)]
    /\ UNCHANGED <<cursor, dropped, clock, tick, apiVars, boundVars>>

\* A database error: before the commit of the outcome it ends the task, after
\* it (in the promotion) it is swallowed.
FinalizerFails(t) ==
    /\ stage[t] = "over"
    /\ faults < MaxFaults
    /\ faults' = faults + 1
    /\ EndJob(t)
    /\ UNCHANGED <<dbVars, clock, tick, apiVars, crashes>>

-----------------------------------------------------------------------------
(* Requests. *)

\* _trigger_run, has_active_run: 409 if a run of the script is active.
TriggerCheck(q, s) ==
    /\ trigger[q].pc = "new"
    /\ trigger' = [trigger EXCEPT ![q] =
           [pc |-> IF HasActiveRun(s) THEN "done" ELSE "checked", script |-> s]]
    /\ UNCHANGED <<execVars, dbVars, clock, tick, job, cancel, boundVars>>

\* _trigger_run, create_run to _schedule_execution.
TriggerCreate(q) ==
    /\ trigger[q].pc = "checked"
    /\ \E r \in RunId :
          /\ NextId(r)
          /\ runs' = [runs EXCEPT ![r] = NewRow(trigger[q].script, NoSchedule, "running")]
          /\ Dispatch("api", r, trigger[q].script)
    /\ trigger' = [trigger EXCEPT ![q].pc = "done"]
    /\ UNCHANGED <<cursor, dropped, clock, tick, cancel, boundVars>>

\* cancel: the row is read.
CancelRead(c, r) ==
    /\ cancel[c].pc = "new"
    /\ r \in Rows
    /\ cancel' = [cancel EXCEPT ![c] = [pc |-> "read", run |-> r, seen |-> runs[r].status]]
    /\ UNCHANGED <<execVars, dbVars, clock, tick, job, trigger, boundVars>>

\* cancel: the registered subprocess is sent SIGTERM whatever the row said;
\* only a row that said "running" is going to be updated.
CancelSignal(c) ==
    /\ cancel[c].pc = "read"
    /\ job' = [t \in Task |->
           IF Registered(t) /\ job[t].run = cancel[c].run
           THEN [job[t] EXCEPT !.term = TRUE] ELSE job[t]]
    /\ cancel' = [cancel EXCEPT ![c].pc = IF cancel[c].seen = "running" THEN "write" ELSE "done"]
    /\ UNCHANGED <<execVars, dbVars, clock, tick, trigger, boundVars>>

\* cancel: the row is updated whatever it says by now.
CancelWrite(c) ==
    /\ cancel[c].pc = "write"
    /\ SetStatus(cancel[c].run, "cancelled")
    /\ cancel' = [cancel EXCEPT ![c].pc = "done"]
    /\ UNCHANGED <<execVars, cursor, dropped, clock, tick, job, trigger, boundVars>>

-----------------------------------------------------------------------------
\* The server dies and starts again.  Rows stay as they are: the lifespan
\* starts a scheduler and looks at no run.  Requests under way are lost.
Crash(S) ==
    /\ crashes < MaxCrashes
    /\ crashes' = crashes + 1
    /\ ExecCrash(S)
    /\ tick' = Asleep
    /\ job' = [t \in Task |-> NoJob]
    /\ trigger' = [q \in Request |->
           IF trigger[q].pc = "new" THEN trigger[q] ELSE [trigger[q] EXCEPT !.pc = "done"]]
    /\ cancel' = [c \in Canceller |->
           IF cancel[c].pc = "new" THEN cancel[c] ELSE [cancel[c] EXCEPT !.pc = "done"]]
    /\ UNCHANGED <<dbVars, clock, faults>>

TickStep ==
    \/ BeginTick
    \/ \E s \in Schedule : AdvanceCursor(s)
    \/ CheckOverlap
    \/ RecordSkip
    \/ CheckQueue
    \/ RecordDrop
    \/ Enqueue
    \/ CreateAndDispatch
    \/ PickRetries
    \/ \E r \in RunId : CheckRetry(r)
    \/ Rerun
    \/ EndTick

Finish(t) ==
    \/ FinalizeTriggered(t)
    \/ ReadAttempt(t)
    \/ MarkPendingRetry(t)
    \/ Finalize(t)
    \/ NothingPending(t)
    \/ SelectPending(t)
    \/ Promote(t)

TaskStep(t) ==
    \/ Acquire(t)
    \/ Raise(t)
    \/ Provision(t)
    \/ ProcessEnds(t)
    \/ LoseProcess(t)
    \/ GiveBack(t)
    \/ Finish(t)
    \/ FinalizerFails(t)

RequestStep ==
    \/ \E q \in Request : TriggerCreate(q) \/ \E s \in Script : TriggerCheck(q, s)
    \/ \E c \in Canceller :
          \/ \E r \in RunId : CancelRead(c, r)
          \/ CancelSignal(c)
          \/ CancelWrite(c)

Next ==
    \/ ClockMoves
    \/ \E r \in RunId : BackoffElapses(r)
    \/ TickStep
    \/ TickFails
    \/ \E t \in Task : TaskStep(t)
    \/ \E s \in Script : LoseStray(s)
    \/ RequestStep
    \/ \E S \in SUBSET Script : Crash(S)

Spec == Init /\ [][Next]_vars

(***************************************************************************)
(* Fairness: that of the executor's tasks, and every coroutine that can go *)
(* on is resumed by the event loop.  Nobody has to make requests, and      *)
(* nothing has to fail.                                                    *)
(***************************************************************************)
Fairness ==
    /\ WF_vars(TickStep)
    /\ \A r \in RunId : SF_vars(BackoffElapses(r))
    /\ \A q \in Request : WF_vars(TriggerCreate(q))
    /\ \A c \in Canceller : WF_vars(CancelSignal(c)) /\ WF_vars(CancelWrite(c))
    /\ \A t \in Task :
          /\ SF_vars(TakeSlot(t) /\ UNCHANGED restVars)
          /\ SF_vars(TakeLock(t) /\ UNCHANGED restVars)
          /\ WF_vars(Provision(t))
          /\ WF_vars(ProcessEnds(t) \/ (LoseProcess(t) /\ target[t] \notin Endless))
          /\ WF_vars(GiveBack(t))
          /\ WF_vars(Finish(t))

FairSpec == Spec /\ Fairness

-----------------------------------------------------------------------------
(* Properties that hold.  Some hold only of certain schedules or callers,  *)
(* which they name.                                                        *)

\* No schedule of s queues its fires; and: each of them skips on overlap.
NeverQueues(s) == \A sc \in Schedule : ScriptOf[sc] = s => Policy[sc] # "queue"
OnlySkips(s) == \A sc \in Schedule : ScriptOf[sc] = s => Policy[sc] = "skip"

\* A row of a script without a queue is executed once, and once more for each
\* retry its schedule allows: a retry that was picked is neither dispatched
\* twice nor started next to the attempt before, although the tick picks due
\* retries, looks for an active run and flips the row in three statements, and
\* a finalizer reads the attempt in one and grants the next in another.  Rows
\* of a script with a queue are left out because it is false of them: two
\* finalizers may read the same oldest pending row and both dispatch it.
StartsWithinRetryMax ==
    \A r \in Rows : NeverQueues(runs[r].script) => runs[r].starts <= RetriesOf(r) + 1

\* Every fire leaves exactly one row, be it run, queued or skipped: the fires
\* the cursor has passed are the rows of the schedule, the one the tick has
\* in hand, and at most one lost by each crash or error between the commit of
\* the cursor and that of the row, for schedules without a gap.
Fired(s) == cursor[s] - 1
RowsOf(s) == {r \in RunId : runs[r].sched = s}
InHand(s) == IF tick.at = s THEN 1 ELSE 0

FiresAccounted ==
    \A s \in Schedule : Gap[s] = {} =>
        Fired(s) - Cardinality(RowsOf(s)) - InHand(s) \in 0 .. crashes + faults

\* While nothing has crashed or failed, a row that says "running" has a live
\* task that will still write its outcome, whatever the races between the
\* tick, two finalizers, triggers and cancels: no run is active for ever.
RunningHasTask ==
    crashes = 0 /\ faults = 0 =>
        \A r \in RunId : runs[r].status = "running" =>
            \E t \in Task : /\ stage[t] # "idle"
                            /\ job[t].run = r
                            /\ job[t].step \in {"result", "attempt"}

\* The queue of a script stays within the queue_max of one of its queueing
\* schedules, although count_pending and create_run are two steps: only the
\* tick inserts, finalizers only take away.
PendingWithinQueueMax ==
    \A s \in Script : RowsWith(s, "pending") # {} =>
        \E sc \in Schedule : /\ ScriptOf[sc] = s
                             /\ Policy[sc] = "queue"
                             /\ CountPending(s) <= QueueMax[sc]

\* A script whose fires are skipped on overlap, and that nobody triggers by
\* hand, never has two active rows: has_active_run and the INSERT or UPDATE
\* that relies on it are apart, but only the tick is between them.
OneActiveRun ==
    Request = {} =>
        \A s \in Script : OnlySkips(s) => Cardinality(RowsWith(s, "running")) <= 1

\* Without cancels, a row of a script without a queue that reached a final
\* status keeps it, although every finalizer writes by id alone.
Final == {"success", "failure", "error", "cancelled", "skipped"}
FinalIsFinal ==
    [][Canceller = {} =>
           \A r \in RunId : runs[r].status \in Final /\ NeverQueues(runs[r].script) =>
               runs'[r].status = runs[r].status]_vars

\* For scripts without a queue: as long as a task is inside run_script, its
\* row shows it as running or cancelled, never as finished, waiting or about
\* to be retried.
ProcessVisible ==
    \A t \in Task : stage[t] \notin {"idle", "over"} /\ NeverQueues(target[t]) =>
        runs[job[t].run].status \in {"running", "cancelled"}

\* A schedule that is due fires, however long its runs last: the tick never
\* waits for a run.
DueFires ==
    \A s \in Schedule : cursor[s] <= clock ~> cursor[s] > clock

\* A run that is started ends (with scripts that end, and no crash).
RunEnds ==
    \A r \in RunId : runs[r].status = "running" ~> runs[r].status # "running"

-----------------------------------------------------------------------------
(* What a comment or a document of the repository says, and the code does  *)
(* not do.                                                                 *)

\* schedules-runs-design.md:80, "User-initiated stop, terminal".
CancelledIsTerminal ==
    [][\A r \in RunId : runs[r].status = "cancelled" =>
           runs'[r].status = "cancelled"]_vars
=============================================================================
