------------------------------ MODULE Executor ------------------------------
(***************************************************************************)
(* runner/executor.py and runner/lock.py: a background task runs           *)
(* run_script, which takes a slot of the global semaphore, then the lock   *)
(* of its script, provisions an interpreter, spawns one subprocess, reads  *)
(* its output to the end, and gives back the lock and the slot.            *)
(*                                                                         *)
(* A task is a name: tasks are born when somebody calls create_task and    *)
(* their names are used again once they are over.                          *)
(***************************************************************************)
EXTENDS Naturals, FiniteSets

CONSTANTS
    Task,          \* names of background tasks
    Script,        \* scripts
    Concurrency,   \* settings.runner_concurrency
    NoTask,        \* "nobody holds this lock"
    NoScript       \* "this task name is not in use"

ASSUME ExecutorAssumption ==
    /\ IsFiniteSet(Task)
    /\ Concurrency \in Nat \ {0}
    /\ NoTask \notin Task
    /\ NoScript \notin Script

VARIABLES
    stage,     \* where each task is in run_script
    target,    \* the script each task executes
    outcome,   \* the status the caller of run_script derives from it
    permits,   \* value of the semaphore
    owner,     \* the task that holds each script's lock
    stray      \* scripts with a subprocess alive that no task supervises

execVars == <<stage, target, outcome, permits, owner, stray>>

Stage == {"idle",      \* no such task
          "slot",      \* waiting at "async with concurrency"
          "lock",      \* waiting at "async with per_script_lock"
          "setup",     \* runner.provision, opening the log
          "proc",      \* the subprocess is alive and its output is read
          "closing",   \* log_broker.close, both locks still held
          "over"}      \* run_script has returned to its caller

Outcome == {"none",      \* not known yet
            "success",   \* exit code 0
            "failure",   \* any other exit code, and every failure that
                         \* run_script catches, which it turns into -1
            "error"}     \* run_script raised

HoldsSlot(t) == stage[t] \in {"lock", "setup", "proc", "closing"}
SlotHolders == {t \in Task : HoldsSlot(t)}

HoldsLock(t) == stage[t] \in {"setup", "proc", "closing"}

ExecTypeOK ==
    /\ stage \in [Task -> Stage]
    /\ target \in [Task -> Script \cup {NoScript}]
    /\ \A t \in Task : stage[t] # "idle" => target[t] \in Script
    /\ outcome \in [Task -> Outcome]
    /\ \A t \in Task : outcome[t] = "none" <=> stage[t] \notin {"closing", "over"}
    /\ permits \in 0 .. Concurrency
    /\ owner \in [Script -> Task \cup {NoTask}]
    /\ stray \in SUBSET Script

ExecInit ==
    /\ stage = [t \in Task |-> "idle"]
    /\ target = [t \in Task |-> NoScript]
    /\ outcome = [t \in Task |-> "none"]
    /\ permits = Concurrency
    /\ owner = [s \in Script |-> NoTask]
    /\ stray = {}

-----------------------------------------------------------------------------
(* The steps of a task. *)

\* asyncio.create_task of a coroutine that starts with run_script.
Submit(t, s) ==
    /\ stage[t] = "idle"
    /\ stage' = [stage EXCEPT ![t] = "slot"]
    /\ target' = [target EXCEPT ![t] = s]
    /\ UNCHANGED <<outcome, permits, owner, stray>>

\* async with concurrency: the slot comes first, before the script's lock.
TakeSlot(t) ==
    /\ stage[t] = "slot"
    /\ permits > 0
    /\ permits' = permits - 1
    /\ stage' = [stage EXCEPT ![t] = "lock"]
    /\ UNCHANGED <<target, outcome, owner, stray>>

\* Fault: the lock is taken over from its holder.
TakeLockHeld(t) ==
    /\ stage[t] = "lock"
    /\ owner' = [owner EXCEPT ![target[t]] = t]
    /\ stage' = [stage EXCEPT ![t] = "setup"]
    /\ UNCHANGED <<target, outcome, permits, stray>>

\* async with per_script_lock: the asyncio.Lock of the script, then flock on
\* its sentinel file, which only tasks of this process ask for.
TakeLock(t) ==
    /\ stage[t] = "lock"
    /\ owner[target[t]] = NoTask
    /\ owner' = [owner EXCEPT ![target[t]] = t]
    /\ stage' = [stage EXCEPT ![t] = "setup"]
    /\ UNCHANGED <<target, outcome, permits, stray>>

\* run_script itself raises, outside the handler that turns a failure into
\* exit code -1: a directory it needs cannot be made, before the slot is
\* taken, or the sentinel file of the lock cannot be opened, with the slot.
RunScriptRaises(t) ==
    /\ \/ /\ stage[t] = "slot"
          /\ UNCHANGED permits
       \/ /\ stage[t] = "lock"
          /\ owner[target[t]] = NoTask
          /\ permits' = permits + 1
    /\ stage' = [stage EXCEPT ![t] = "over"]
    /\ outcome' = [outcome EXCEPT ![t] = "error"]
    /\ UNCHANGED <<target, owner, stray>>

\* get_runner, provision, decrypting the environment or the spawn itself
\* raises: the handler sets exit_code = -1.
SetupFails(t) ==
    /\ stage[t] = "setup"
    /\ stage' = [stage EXCEPT ![t] = "closing"]
    /\ outcome' = [outcome EXCEPT ![t] = "failure"]
    /\ UNCHANGED <<target, permits, owner, stray>>

\* create_subprocess_exec (or run_sandboxed) has started the child.
SpawnProcess(t) ==
    /\ stage[t] = "setup"
    /\ stage' = [stage EXCEPT ![t] = "proc"]
    /\ UNCHANGED <<target, outcome, permits, owner, stray>>

\* End of output, then proc.wait() returns the exit code.
ProcessExits(t, result) ==
    /\ stage[t] = "proc"
    /\ stage' = [stage EXCEPT ![t] = "closing"]
    /\ outcome' = [outcome EXCEPT ![t] = result]
    /\ UNCHANGED <<target, permits, owner, stray>>

\* The read loop raises (a line longer than the stream's limit, a log that
\* cannot be written): the handler records exit_code = -1 and goes on, but
\* nobody waits for the child or kills it.
SupervisionFails(t) ==
    /\ stage[t] = "proc"
    /\ stage' = [stage EXCEPT ![t] = "closing"]
    /\ outcome' = [outcome EXCEPT ![t] = "failure"]
    /\ stray' = stray \cup {target[t]}
    /\ UNCHANGED <<target, permits, owner>>

\* Fault: the slot of a failed execution is not given back.
ReleaseLeakingSlot(t) ==
    /\ stage[t] = "closing"
    /\ owner' = [owner EXCEPT ![target[t]] = NoTask]
    /\ permits' = IF outcome[t] = "success" THEN permits + 1 ELSE permits
    /\ stage' = [stage EXCEPT ![t] = "over"]
    /\ UNCHANGED <<target, outcome, stray>>

\* Fault: the lock of a failed execution is not given back.
ReleaseLeakingLock(t) ==
    /\ stage[t] = "closing"
    /\ owner' = IF outcome[t] = "success" THEN [owner EXCEPT ![target[t]] = NoTask] ELSE owner
    /\ permits' = permits + 1
    /\ stage' = [stage EXCEPT ![t] = "over"]
    /\ UNCHANGED <<target, outcome, stray>>

\* log_broker.close, then both context managers exit without an await
\* between them.
Release(t) ==
    /\ stage[t] = "closing"
    /\ owner' = [owner EXCEPT ![target[t]] = NoTask]
    /\ permits' = permits + 1
    /\ stage' = [stage EXCEPT ![t] = "over"]
    /\ UNCHANGED <<target, outcome, stray>>

\* The coroutine that called run_script ends.
Retire(t) ==
    /\ stage[t] = "over"
    /\ stage' = [stage EXCEPT ![t] = "idle"]
    /\ target' = [target EXCEPT ![t] = NoScript]
    /\ outcome' = [outcome EXCEPT ![t] = "none"]
    /\ UNCHANGED <<permits, owner, stray>>

\* The coroutine ends and its last statement submitted another run of the
\* same script, which takes over the name of the task.
Chain(t) ==
    /\ stage[t] = "over"
    /\ stage' = [stage EXCEPT ![t] = "slot"]
    /\ outcome' = [outcome EXCEPT ![t] = "none"]
    /\ UNCHANGED <<target, permits, owner, stray>>

\* A subprocess left behind ends by itself.
StrayEnds(s) ==
    /\ s \in stray
    /\ stray' = stray \ {s}
    /\ UNCHANGED <<stage, target, outcome, permits, owner>>

\* The server dies and starts again: no task survives, the kernel drops the
\* flocks, the new process has a fresh semaphore.  The children of the
\* scripts in S outlive the server (all of them after a SIGKILL on a host,
\* none when the container goes with it).
ExecCrash(S) ==
    /\ S \subseteq {target[t] : t \in {u \in Task : stage[u] = "proc"}}
    /\ stray' = stray \cup S
    /\ stage' = [t \in Task |-> "idle"]
    /\ target' = [t \in Task |-> NoScript]
    /\ outcome' = [t \in Task |-> "none"]
    /\ permits' = Concurrency
    /\ owner' = [s \in Script |-> NoTask]

Work(t) ==
    \/ TakeSlot(t)
    \/ TakeLock(t)
    \/ RunScriptRaises(t)
    \/ SetupFails(t)
    \/ SpawnProcess(t)
    \/ \E result \in {"success", "failure"} : ProcessExits(t, result)
    \/ SupervisionFails(t)
    \/ Release(t)

\* One step of a server that stays up.
ExecStep ==
    \/ \E t \in Task :
          \/ \E s \in Script : Submit(t, s)
          \/ Work(t)
          \/ Retire(t)
          \/ Chain(t)
    \/ \E s \in Script : StrayEnds(s)

ExecNext == ExecStep \/ \E S \in SUBSET Script : ExecCrash(S)

ExecSpec == ExecInit /\ [][ExecNext]_execVars

ExecUpSpec == ExecInit /\ [][ExecStep]_execVars

(***************************************************************************)
(* Fairness.  The event loop runs every ready task (weak fairness), the    *)
(* waiters of asyncio.Semaphore and asyncio.Lock are served first come     *)
(* first served, so nobody is passed over forever (strong fairness), and   *)
(* subprocesses end.                                                       *)
(***************************************************************************)
TaskFairness(t) ==
    /\ SF_execVars(TakeSlot(t))
    /\ SF_execVars(TakeLock(t))
    /\ WF_execVars(SetupFails(t) \/ SpawnProcess(t))
    /\ WF_execVars(SupervisionFails(t) \/ \E result \in {"success", "failure"} : ProcessExits(t, result))
    /\ WF_execVars(Release(t))

ExecFairSpec == ExecSpec /\ \A t \in Task : TaskFairness(t)

-----------------------------------------------------------------------------
(* Properties. *)

\* Two tasks never supervise subprocesses of the same script at once:
\* per_script_lock covers the child from its spawn to its end.
ProcessesExclusive ==
    \A t, u \in Task :
        stage[t] = "proc" /\ stage[u] = "proc" /\ target[t] = target[u] => t = u

\* Nothing leaks on any path through run_script, failed ones included: the
\* semaphore counts exactly the tasks between its entry and its exit, and a
\* script's lock is held by exactly the task that is inside for it.
SlotsCounted == permits + Cardinality(SlotHolders) = Concurrency

LocksOwned ==
    /\ \A t \in Task : HoldsLock(t) => owner[target[t]] = t
    /\ \A s \in Script : owner[s] # NoTask =>
            /\ HoldsLock(owner[s])
            /\ target[owner[s]] = s

NoLeak == SlotsCounted /\ LocksOwned

\* run_script implements the pool: an execution of s is under way while the
\* lock of s is held, one per script and Concurrency in all, and each ends.
Pool == INSTANCE RunnerPool WITH busy <- {s \in Script : owner[s] # NoTask}
ImplementsPool == Pool!FairSpec

\* The safety part of the same, the part that is proved.
ImplementsPoolSafely == Pool!Spec

\* A submitted execution returns to its caller (or the server dies): waiting
\* for a script's lock with a slot in hand cannot become a deadlock.
TaskEnds ==
    \A t \in Task : stage[t] = "slot" ~> stage[t] \in {"over", "idle"}
=============================================================================
