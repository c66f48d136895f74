--------------------------- MODULE RunEngineProofs ---------------------------
(***************************************************************************)
(* Proofs about Executor and, from "The engine" on, about RunEngine, which *)
(* extends it.                                                             *)
(*                                                                         *)
(* Executor: types, the bookkeeping of slots and locks, the exclusion it   *)
(* buys, and the refinement of RunnerPool.  Neither ExecTypeOK nor NoLeak  *)
(* is inductive alone: that a released slot leaves permits within          *)
(* 0 .. Concurrency follows from the count of the holders, and the count   *)
(* needs the types.  ExecInv is their conjunction.                         *)
(***************************************************************************)
EXTENDS RunEngine, FiniteSetTheorems, WellFoundedInduction, TLAPS

ExecInv == ExecTypeOK /\ NoLeak

\* The holders of slots are finitely many, and each step adds one, removes
\* one, or leaves them alone.
LEMMA HoldersFinite ==
    /\ IsFiniteSet(SlotHolders)
    /\ Cardinality(SlotHolders) \in Nat
<1>1. IsFiniteSet(SlotHolders)
  BY FS_Subset, ExecutorAssumption DEF SlotHolders
<1>. QED BY <1>1, FS_CardinalityType

LEMMA HolderJoins ==
    ASSUME NEW t \in Task, t \notin SlotHolders, SlotHolders' = SlotHolders \cup {t}
    PROVE  Cardinality(SlotHolders') = Cardinality(SlotHolders) + 1
BY HoldersFinite, FS_AddElement

LEMMA HolderLeaves ==
    ASSUME NEW t \in Task, t \in SlotHolders, SlotHolders' = SlotHolders \ {t}
    PROVE  /\ Cardinality(SlotHolders') = Cardinality(SlotHolders) - 1
           /\ Cardinality(SlotHolders) > 0
<1>1. Cardinality(SlotHolders') = Cardinality(SlotHolders) - 1
  BY HoldersFinite, FS_RemoveElement
<1>2. Cardinality(SlotHolders) # 0
  BY HoldersFinite, FS_EmptySet
<1>. QED BY <1>1, <1>2, HoldersFinite

LEMMA InitInv == ExecInit => ExecInv
<1>. SUFFICES ASSUME ExecInit PROVE ExecInv
  OBVIOUS
<1>1. ExecTypeOK
  BY ExecutorAssumption DEF ExecInit, ExecTypeOK, Stage, Outcome
<1>2. SlotHolders = {}
  BY DEF ExecInit, SlotHolders, HoldsSlot
<1>3. SlotsCounted
  BY <1>2, FS_EmptySet, ExecutorAssumption DEF ExecInit, SlotsCounted
<1>4. LocksOwned
  BY DEF ExecInit, LocksOwned, HoldsLock
<1>. QED BY <1>1, <1>3, <1>4 DEF ExecInv, NoLeak

-----------------------------------------------------------------------------
(* One lemma per step of a task. *)

LEMMA SubmitInv ==
    ASSUME ExecInv, NEW t \in Task, NEW s \in Script, Submit(t, s)
    PROVE  ExecInv'
<1>. USE DEF Submit, ExecInv, ExecTypeOK, NoLeak, Stage
<1>1. ExecTypeOK'
  OBVIOUS
<1>2. SlotHolders' = SlotHolders
  BY DEF SlotHolders, HoldsSlot
<1>3. SlotsCounted'
  BY <1>2 DEF SlotsCounted
<1>4. LocksOwned'
  BY DEF LocksOwned, HoldsLock
<1>. QED BY <1>1, <1>3, <1>4

LEMMA TakeSlotInv ==
    ASSUME ExecInv, NEW t \in Task, TakeSlot(t)
    PROVE  ExecInv'
<1>. USE DEF TakeSlot, ExecInv, ExecTypeOK, NoLeak, Stage
<1>1. ExecTypeOK'
  BY ExecutorAssumption
<1>2. t \notin SlotHolders /\ SlotHolders' = SlotHolders \cup {t}
  BY DEF SlotHolders, HoldsSlot
<1>3. SlotsCounted'
  <2>1. Cardinality(SlotHolders') = Cardinality(SlotHolders) + 1
    BY <1>2, HolderJoins
  <2>2. permits \in Nat /\ Cardinality(SlotHolders) \in Nat /\ permits' = permits - 1
    BY HoldersFinite, ExecutorAssumption
  <2>. QED BY <2>1, <2>2 DEF SlotsCounted
<1>4. LocksOwned'
  BY DEF LocksOwned, HoldsLock
<1>. QED BY <1>1, <1>3, <1>4

LEMMA TakeLockInv ==
    ASSUME ExecInv, NEW t \in Task, TakeLock(t)
    PROVE  ExecInv'
<1>. USE DEF TakeLock, ExecInv, ExecTypeOK, NoLeak, Stage
<1>1. ExecTypeOK'
  OBVIOUS
<1>2. SlotHolders' = SlotHolders
  BY DEF SlotHolders, HoldsSlot
<1>3. SlotsCounted'
  BY <1>2 DEF SlotsCounted
<1>4. LocksOwned'
  BY ExecutorAssumption DEF LocksOwned, HoldsLock
<1>. QED BY <1>1, <1>3, <1>4

\* A failure before the slot is taken holds nothing; one at the lock gives
\* the slot back.
LEMMA RunScriptRaisesInv ==
    ASSUME ExecInv, NEW t \in Task, RunScriptRaises(t)
    PROVE  ExecInv'
<1>. USE DEF RunScriptRaises, ExecInv, ExecTypeOK, NoLeak, Stage, Outcome
<1>1. CASE stage[t] = "slot" /\ UNCHANGED permits
  <2>1. SlotHolders' = SlotHolders
    BY <1>1 DEF SlotHolders, HoldsSlot
  <2>2. SlotsCounted'
    BY <1>1, <2>1 DEF SlotsCounted
  <2>3. LocksOwned'
    BY <1>1 DEF LocksOwned, HoldsLock
  <2>4. ExecTypeOK'
    BY <1>1
  <2>. QED BY <2>2, <2>3, <2>4
<1>2. CASE stage[t] = "lock" /\ permits' = permits + 1
  <2>1. t \in SlotHolders /\ SlotHolders' = SlotHolders \ {t}
    BY <1>2 DEF SlotHolders, HoldsSlot
  <2>2. SlotsCounted' /\ permits' \in 0 .. Concurrency
    BY <1>2, <2>1, HolderLeaves, HoldersFinite, ExecutorAssumption DEF SlotsCounted
  <2>3. LocksOwned'
    BY <1>2 DEF LocksOwned, HoldsLock
  <2>4. ExecTypeOK'
    BY <1>2, <2>2
  <2>. QED BY <2>2, <2>3, <2>4
<1>. QED BY <1>1, <1>2

\* The steps between the lock's entry and its exit move no slot and no lock.
LEMMA InsideInv ==
    ASSUME ExecInv, NEW t \in Task,
           \/ SetupFails(t)
           \/ SpawnProcess(t)
           \/ \E result \in {"success", "failure"} : ProcessExits(t, result)
           \/ SupervisionFails(t)
    PROVE  ExecInv'
<1>. USE DEF SetupFails, SpawnProcess, ProcessExits, SupervisionFails,
             ExecInv, ExecTypeOK, NoLeak, Stage, Outcome
<1>1. ExecTypeOK'
  OBVIOUS
<1>2. SlotHolders' = SlotHolders
  BY DEF SlotHolders, HoldsSlot
<1>3. SlotsCounted'
  BY <1>2 DEF SlotsCounted
<1>4. LocksOwned'
  BY DEF LocksOwned, HoldsLock
<1>. QED BY <1>1, <1>3, <1>4

LEMMA ReleaseInv ==
    ASSUME ExecInv, NEW t \in Task, Release(t)
    PROVE  ExecInv'
<1>. USE DEF Release, ExecInv, ExecTypeOK, NoLeak, Stage
<1>1. t \in SlotHolders /\ SlotHolders' = SlotHolders \ {t}
  BY DEF SlotHolders, HoldsSlot
<1>2. SlotsCounted' /\ permits' \in 0 .. Concurrency
  <2>1. /\ Cardinality(SlotHolders') = Cardinality(SlotHolders) - 1
        /\ Cardinality(SlotHolders) > 0
    BY <1>1, HolderLeaves
  <2>. QED BY <2>1, HoldersFinite, ExecutorAssumption DEF SlotsCounted
<1>3. ExecTypeOK'
  BY <1>2
<1>4. LocksOwned'
  BY ExecutorAssumption DEF LocksOwned, HoldsLock
<1>. QED BY <1>2, <1>3, <1>4

LEMMA RetireInv ==
    ASSUME ExecInv, NEW t \in Task, Retire(t) \/ Chain(t)
    PROVE  ExecInv'
<1>. USE DEF Retire, Chain, ExecInv, ExecTypeOK, NoLeak, Stage, Outcome
<1>1. ExecTypeOK'
  OBVIOUS
<1>2. SlotHolders' = SlotHolders
  BY DEF SlotHolders, HoldsSlot
<1>3. SlotsCounted'
  BY <1>2 DEF SlotsCounted
<1>4. LocksOwned'
  BY DEF LocksOwned, HoldsLock
<1>. QED BY <1>1, <1>3, <1>4

LEMMA StrayEndsInv ==
    ASSUME ExecInv, NEW s \in Script, StrayEnds(s)
    PROVE  ExecInv'
<1>. USE DEF StrayEnds, ExecInv, ExecTypeOK, NoLeak
<1>1. ExecTypeOK'
  OBVIOUS
<1>2. SlotHolders' = SlotHolders /\ SlotsCounted' /\ LocksOwned'
  BY DEF SlotHolders, HoldsSlot, SlotsCounted, LocksOwned, HoldsLock
<1>. QED BY <1>1, <1>2

LEMMA ExecCrashInv ==
    ASSUME ExecInv, NEW S \in SUBSET Script, ExecCrash(S)
    PROVE  ExecInv'
<1>. USE DEF ExecCrash, ExecInv, ExecTypeOK, NoLeak, Stage, Outcome
<1>1. ExecTypeOK'
  BY ExecutorAssumption
<1>2. SlotHolders' = {}
  BY DEF SlotHolders, HoldsSlot
<1>3. SlotsCounted'
  BY <1>2, FS_EmptySet, ExecutorAssumption DEF SlotsCounted
<1>4. LocksOwned'
  BY DEF LocksOwned, HoldsLock
<1>. QED BY <1>1, <1>3, <1>4

LEMMA StepInv ==
    ASSUME ExecInv, [ExecNext]_execVars
    PROVE  ExecInv'
<1>1. ASSUME NEW t \in Task, Work(t)
      PROVE  ExecInv'
  BY <1>1, TakeSlotInv, TakeLockInv, RunScriptRaisesInv, InsideInv, ReleaseInv DEF Work
<1>2. ASSUME NEW S \in SUBSET Script, ExecCrash(S)
      PROVE  ExecInv'
  BY <1>2, ExecCrashInv
<1>3. CASE ExecStep
  BY <1>3, <1>1, SubmitInv, RetireInv, StrayEndsInv DEF ExecStep
<1>4. CASE UNCHANGED execVars
  <2>1. SlotHolders' = SlotHolders
    BY <1>4 DEF execVars, SlotHolders, HoldsSlot
  <2>2. ExecTypeOK' /\ SlotsCounted' /\ LocksOwned'
    BY <1>4, <2>1 DEF execVars, ExecInv, ExecTypeOK, NoLeak, SlotsCounted, LocksOwned, HoldsLock
  <2>. QED BY <2>2 DEF ExecInv, NoLeak
<1>. QED BY <1>2, <1>3, <1>4 DEF ExecNext

-----------------------------------------------------------------------------
(* The theorems. *)

\* The variables of the executor keep their types, the semaphore never goes
\* below zero nor above its initial value, and no slot or lock leaks on any
\* path through run_script, a dying server included.
THEOREM ExecInvariant == ExecSpec => [](ExecTypeOK /\ NoLeak)
<1>1. ExecInit => ExecInv
  BY InitInv
<1>2. ExecInv /\ [ExecNext]_execVars => ExecInv'
  BY StepInv
<1>3. ExecInv => ExecTypeOK /\ NoLeak
  BY DEF ExecInv
<1>. QED BY <1>1, <1>2, <1>3, PTL DEF ExecSpec

\* Two tasks never supervise subprocesses of the same script at once.
THEOREM Exclusion == ExecSpec => []ProcessesExclusive
<1>1. NoLeak => ProcessesExclusive
  BY DEF NoLeak, LocksOwned, ProcessesExclusive, HoldsLock
<1>. QED BY <1>1, ExecInvariant, PTL

-----------------------------------------------------------------------------
(* The refinement of RunnerPool. *)

Busy == {s \in Script : owner[s] # NoTask}

\* The holders of locks are holders of slots, so when a task is still waiting
\* for its lock with a slot in hand, fewer than Concurrency scripts are busy.
LEMMA BusyBelowConcurrency ==
    ASSUME ExecInv, NEW t \in Task, stage[t] = "lock"
    PROVE  Cardinality(Busy) < Concurrency
<1>. DEFINE f == [s \in Busy |-> owner[s]]
            H == SlotHolders \ {t}
<1>1. f \in Injection(Busy, H)
  <2>1. \A s \in Busy : owner[s] \in H
    BY DEF Busy, ExecInv, ExecTypeOK, NoLeak, LocksOwned, HoldsLock, SlotHolders, HoldsSlot
  <2>2. \A r, s \in Busy : owner[r] = owner[s] => r = s
    BY DEF Busy, ExecInv, NoLeak, LocksOwned
  <2>. QED BY <2>1, <2>2 DEF Injection, IsInjective
<1>2. IsFiniteSet(H) /\ Cardinality(H) = Cardinality(SlotHolders) - 1
  <2>1. t \in SlotHolders
    BY DEF SlotHolders, HoldsSlot
  <2>. QED BY <2>1, HoldersFinite, FS_RemoveElement
<1>3. Cardinality(Busy) <= Cardinality(H) /\ IsFiniteSet(Busy)
  BY <1>1, <1>2, FS_Injection
<1>4. Cardinality(Busy) \in Nat
  BY <1>3, FS_CardinalityType
<1>. QED BY <1>2, <1>3, <1>4, HoldersFinite, ExecutorAssumption
         DEF ExecInv, ExecTypeOK, NoLeak, SlotsCounted

\* run_script with its semaphore and its locks implements the pool: taking a
\* lock begins an execution, giving it back ends one, a crash wipes them all,
\* and every other step leaves the set of busy scripts alone.
THEOREM Refinement == ExecSpec => ImplementsPoolSafely
<1>1. ExecInit => Pool!Init
  BY DEF ExecInit, Pool!Init
<1>2. ASSUME ExecInv, [ExecNext]_execVars
      PROVE  [Pool!Next]_Busy
  <2>. USE DEF Busy, Pool!Next, Pool!Begin, Pool!End, Pool!Wipe
  <2>1. ASSUME NEW t \in Task, TakeLock(t)
        PROVE  Pool!Next
    <3>1. target[t] \in Script
      BY <1>2, <2>1 DEF TakeLock, ExecInv, ExecTypeOK
    <3>2. Cardinality(Busy) < Concurrency
      BY <1>2, <2>1, BusyBelowConcurrency DEF TakeLock
    <3>3. target[t] \notin Busy /\ Busy' = Busy \cup {target[t]}
      BY <1>2, <2>1, <3>1, ExecutorAssumption DEF TakeLock, ExecInv, ExecTypeOK
    <3>4. Pool!Begin(target[t])
      BY <3>2, <3>3 DEF Cardinality, Pool!Cardinality
    <3>. QED BY <3>1, <3>4
  <2>2. ASSUME NEW t \in Task, Release(t)
        PROVE  Pool!Next
    <3>1. target[t] \in Script /\ owner[target[t]] = t
      BY <1>2, <2>2 DEF Release, ExecInv, ExecTypeOK, NoLeak, LocksOwned, HoldsLock
    <3>2. target[t] \in Busy /\ Busy' = Busy \ {target[t]}
      BY <1>2, <2>2, <3>1, ExecutorAssumption DEF Release, ExecInv, ExecTypeOK
    <3>. QED BY <3>1, <3>2
  <2>3. ASSUME NEW S \in SUBSET Script, ExecCrash(S)
        PROVE  Pool!Next
    BY <2>3 DEF ExecCrash
  <2>4. ASSUME NEW t \in Task, Work(t)
        PROVE  [Pool!Next]_Busy
    BY <2>1, <2>2, <2>4
       DEF Work, TakeSlot, RunScriptRaises, SetupFails, SpawnProcess, ProcessExits, SupervisionFails
  <2>5. CASE ExecStep
    BY <2>4, <2>5 DEF ExecStep, Submit, Retire, Chain, StrayEnds
  <2>6. CASE UNCHANGED execVars
    BY <2>6 DEF execVars
  <2>. QED BY <2>3, <2>5, <2>6, <1>2 DEF ExecNext
<1>3. ExecSpec => []ExecInv
  BY ExecInvariant, PTL DEF ExecInv
<1>. QED BY <1>1, <1>2, <1>3, PTL DEF ExecSpec, ImplementsPoolSafely, Pool!Spec, Busy

-----------------------------------------------------------------------------
(***************************************************************************)
(* The engine.  Every step of it is a step of the executor or leaves the   *)
(* executor alone, so the theorems above hold of it; on top of them come   *)
(* the types of the engine's own variables and what the rows promise.      *)
(***************************************************************************)

\* Local variables that outlive an await name rows that exist, and the rows
\* they name are never deleted: what the types alone do not say, and what the
\* writes through these variables need.
JobLinked(t) ==
    /\ job[t] \in JobType
    /\ job[t].run \in Rows
    /\ job[t].step = "flip" => job[t].next \in Rows

TickLinked ==
    /\ tick.pc \in {"overlap", "skip", "count", "full", "enqueue", "create"} =>
          tick.at \in Schedule
    /\ tick.retries \subseteq Rows
    /\ tick.pc = "rerun" => tick.row \in Rows

RequestsLinked ==
    /\ \A q \in Request : trigger[q].pc = "checked" => trigger[q].script \in Script
    /\ \A c \in Canceller : cancel[c].pc \in {"read", "write"} => cancel[c].run \in Rows

Linked ==
    /\ \A t \in Task : stage[t] # "idle" => JobLinked(t)
    /\ TickLinked
    /\ RequestsLinked

EngineInv == EngineTypeOK /\ Linked

-----------------------------------------------------------------------------
(* The engine's steps, seen by the executor. *)

LEMMA FreeTaskIsIdle ==
    ASSUME \E t \in Task : stage[t] = "idle"
    PROVE  FreeTask \in Task /\ stage[FreeTask] = "idle"
BY DEF FreeTask

\* What a step of the engine does to the executor's variables is a step of
\* the executor or nothing.
LEMMA EngineStepIsExecStep ==
    ASSUME EngineInv, [Next]_vars
    PROVE  [ExecNext]_execVars
<1>1. ASSUME NEW by, NEW r, NEW s \in Script, Dispatch(by, r, s)
      PROVE  ExecNext
  BY <1>1, FreeTaskIsIdle DEF Dispatch, ExecNext, ExecStep
<1>2. CASE TickStep
  <2>1. CASE CreateAndDispatch
    <3>1. ScriptOf[tick.at] \in Script
      BY <2>1, EngineAssumption DEF CreateAndDispatch, EngineInv, Linked, TickLinked
    <3>. QED BY <2>1, <3>1, <1>1 DEF CreateAndDispatch
  <2>2. CASE Rerun
    <3>1. runs[tick.row].script \in Script
      BY <2>2 DEF Rerun, EngineInv, EngineTypeOK, Linked, TickLinked, Rows, RowType, NoRow
    <3>. QED BY <2>2, <3>1, <1>1 DEF Rerun
  <2>. QED BY <1>2, <2>1, <2>2
           DEF TickStep, BeginTick, AdvanceCursor, CheckOverlap, RecordSkip, CheckQueue,
               RecordDrop, Enqueue, PickRetries, CheckRetry, EndTick
<1>3. CASE RequestStep
  <2>1. ASSUME NEW q \in Request, TriggerCreate(q)
        PROVE  ExecNext
    <3>1. trigger[q].script \in Script
      BY <2>1 DEF TriggerCreate, EngineInv, Linked, RequestsLinked
    <3>. QED BY <2>1, <3>1, <1>1 DEF TriggerCreate
  <2>. QED BY <1>3, <2>1 DEF RequestStep, TriggerCheck, CancelRead, CancelSignal, CancelWrite
<1>4. ASSUME NEW t \in Task, TaskStep(t)
      PROVE  [ExecNext]_execVars
  <2>1. CASE Acquire(t) \/ Raise(t) \/ Provision(t) \/ ProcessEnds(t) \/ LoseProcess(t) \/ GiveBack(t)
    BY <2>1 DEF Acquire, Raise, Provision, ProcessEnds, LoseProcess, GiveBack, Work, ExecNext, ExecStep
  <2>2. CASE Finish(t) \/ FinalizerFails(t)
    BY <2>2 DEF Finish, FinalizerFails, FinalizeTriggered, ReadAttempt, MarkPendingRetry, Finalize,
                NothingPending, SelectPending, Promote, EndJob, ExecNext, ExecStep
  <2>. QED BY <1>4, <2>1, <2>2 DEF TaskStep
<1>5. CASE ClockMoves \/ (\E r \in RunId : BackoffElapses(r)) \/ TickFails
  BY <1>5 DEF ClockMoves, BackoffElapses, TickFails
<1>6. CASE \E s \in Script : LoseStray(s)
  BY <1>6 DEF LoseStray, ExecNext, ExecStep
<1>7. CASE \E S \in SUBSET Script : Crash(S)
  BY <1>7 DEF Crash, ExecNext
<1>8. CASE UNCHANGED vars
  BY <1>8 DEF vars
<1>. QED BY <1>2, <1>3, <1>4, <1>5, <1>6, <1>7, <1>8 DEF Next

-----------------------------------------------------------------------------
(* Rows: an update keeps the table well formed, and no row disappears. *)

LEMMA RowsUpdated ==
    ASSUME EngineTypeOK, NEW r \in Rows, NEW st \in Status, SetStatus(r, st)
    PROVE  /\ runs' \in [RunId -> RowType \cup {NoRow}]
           /\ Rows \subseteq Rows'
BY DEF EngineTypeOK, Rows, SetStatus, RowType, NoRow, Status

LEMMA RowTakenUp ==
    ASSUME EngineTypeOK, NEW r \in Rows, TakeUp(r)
    PROVE  /\ runs' \in [RunId -> RowType \cup {NoRow}]
           /\ Rows \subseteq Rows'
BY DEF EngineTypeOK, Rows, TakeUp, RowType, NoRow, Status

LEMMA RowInserted ==
    ASSUME EngineTypeOK, NEW r \in RunId, NextId(r),
           NEW s \in Script, NEW sc \in Schedule \cup {NoSchedule}, NEW st \in Status,
           runs' = [runs EXCEPT ![r] = NewRow(s, sc, st)]
    PROVE  /\ runs' \in [RunId -> RowType \cup {NoRow}]
           /\ Rows \subseteq Rows'
           /\ r \in Rows'
BY DEF EngineTypeOK, Rows, NextId, NewRow, RowType, NoRow, Status

LEMMA RowsSame ==
    ASSUME runs' = runs
    PROVE  Rows' = Rows
BY DEF Rows

\* A task of the engine that is alive has a well-formed job, and stays linked
\* while rows are only added.
LEMMA JobsKept ==
    ASSUME EngineInv, Rows \subseteq Rows', job' = job,
           \A t \in Task : stage'[t] # "idle" => stage[t] # "idle"
    PROVE  \A t \in Task : stage'[t] # "idle" => JobLinked(t)'
BY DEF EngineInv, Linked, JobLinked

LEMMA TickKept ==
    ASSUME EngineInv, Rows \subseteq Rows', tick' = tick
    PROVE  TickLinked'
BY DEF EngineInv, Linked, TickLinked

LEMMA RequestsKept ==
    ASSUME EngineInv, Rows \subseteq Rows', UNCHANGED apiVars
    PROVE  RequestsLinked'
BY DEF EngineInv, Linked, RequestsLinked, apiVars

\* A dispatch gives a free task a job on a row that exists, the other tasks
\* keep theirs.
LEMMA Dispatched ==
    ASSUME EngineInv, Rows \subseteq Rows', NEW by \in {"tick", "drain", "api"},
           NEW r \in RunId, r \in Rows', NEW s, Dispatch(by, r, s),
           stage \in [Task -> Stage]
    PROVE  /\ job' \in [Task -> JobType \cup {NoJob}]
           /\ \A t \in Task : stage'[t] # "idle" => JobLinked(t)'
<1>1. FreeTask \in Task /\ stage[FreeTask] = "idle"
  BY FreeTaskIsIdle DEF Dispatch
<1>2. NewJob(by, r) \in JobType
  BY DEF NewJob, JobType
<1>3. job' \in [Task -> JobType \cup {NoJob}]
  BY <1>1, <1>2 DEF Dispatch, EngineInv, EngineTypeOK
<1>4. ASSUME NEW t \in Task, stage'[t] # "idle"
      PROVE  JobLinked(t)'
  <2>1. CASE t = FreeTask
    <3>1. job'[t] = NewJob(by, r)
      BY <2>1, <1>1 DEF Dispatch, EngineInv, EngineTypeOK
    <3>. QED BY <3>1, <1>2 DEF JobLinked, NewJob
  <2>2. CASE t # FreeTask
    <3>1. job'[t] = job[t] /\ stage'[t] = stage[t]
      BY <2>2, <1>1 DEF Dispatch, Submit, EngineInv, EngineTypeOK
    <3>2. JobLinked(t)
      BY <1>4, <3>1 DEF EngineInv, Linked
    <3>. QED BY <3>1, <3>2 DEF JobLinked
  <2>. QED BY <2>1, <2>2
<1>. QED BY <1>3, <1>4

-----------------------------------------------------------------------------
(* Time and the tick. *)

LEMMA TimeInv ==
    ASSUME EngineInv, ClockMoves \/ \E r \in RunId : BackoffElapses(r)
    PROVE  EngineInv'
<1>1. CASE ClockMoves
  <2>1. EngineTypeOK'
    BY <1>1, EngineAssumption
       DEF ClockMoves, EngineInv, EngineTypeOK, dbVars, apiVars, boundVars
  <2>2. Linked'
    BY <1>1, RowsSame, JobsKept, TickKept, RequestsKept
       DEF ClockMoves, Linked, dbVars, apiVars, execVars
  <2>. QED BY <2>1, <2>2 DEF EngineInv
<1>2. ASSUME NEW r \in RunId, BackoffElapses(r)
      PROVE  EngineInv'
  <2>0. runs[r] \in RowType
    BY <1>2 DEF BackoffElapses, EngineInv, EngineTypeOK, NoRow
  <2>1. runs' \in [RunId -> RowType \cup {NoRow}] /\ Rows \subseteq Rows'
    <3>1. [runs[r] EXCEPT !.ripe = TRUE] \in RowType
      BY <2>0 DEF RowType
    <3>2. runs' = [runs EXCEPT ![r] = [runs[r] EXCEPT !.ripe = TRUE]]
      BY <1>2 DEF BackoffElapses
    <3>3. [runs[r] EXCEPT !.ripe = TRUE].status = runs[r].status
      BY <2>0 DEF RowType
    <3>. QED BY <3>1, <3>2, <3>3 DEF EngineInv, EngineTypeOK, Rows
  <2>2. EngineTypeOK'
    BY <1>2, <2>1 DEF BackoffElapses, EngineInv, EngineTypeOK, apiVars, boundVars
  <2>3. Linked'
    BY <1>2, <2>1, JobsKept, TickKept, RequestsKept DEF BackoffElapses, Linked, execVars
  <2>. QED BY <2>2, <2>3 DEF EngineInv
<1>. QED BY <1>1, <1>2

\* The steps of the tick that only read.
LEMMA TickReadsInv ==
    ASSUME EngineInv,
           \/ BeginTick
           \/ CheckOverlap
           \/ CheckQueue
           \/ PickRetries
           \/ \E r \in RunId : CheckRetry(r)
           \/ EndTick
    PROVE  EngineInv'
<1>. USE DEF BeginTick, CheckOverlap, CheckQueue, PickRetries, CheckRetry, EndTick
<1>1. UNCHANGED <<execVars, dbVars, clock, job, apiVars, boundVars>>
  OBVIOUS
<1>2. Rows' = Rows
  BY <1>1, RowsSame DEF dbVars
<1>3. tick' \in TickType /\ TickLinked'
  <2>. USE <1>2 DEF EngineInv, EngineTypeOK, Linked, TickLinked, TickType, TickPc
  <2>1. CASE BeginTick
    BY <2>1
  <2>2. CASE CheckOverlap
    BY <2>2
  <2>3. CASE CheckQueue
    BY <2>3
  <2>4. CASE PickRetries
    <3>1. tick'.retries \subseteq Rows
      BY <2>4 DEF Rows
    <3>2. tick'.retries \subseteq RunId
      BY <2>4
    <3>. QED BY <2>4, <3>1, <3>2
  <2>5. ASSUME NEW r \in RunId, CheckRetry(r)
        PROVE  tick' \in TickType /\ TickLinked'
    BY <2>5
  <2>6. CASE EndTick
    BY <2>6 DEF Asleep
  <2>. QED BY <2>1, <2>2, <2>3, <2>4, <2>5, <2>6
<1>4. EngineTypeOK'
  BY <1>1, <1>3 DEF EngineInv, EngineTypeOK, dbVars, apiVars, boundVars
<1>5. Linked'
  BY <1>1, <1>3, RowsSame, JobsKept, RequestsKept DEF Linked, dbVars, execVars
<1>. QED BY <1>4, <1>5 DEF EngineInv

LEMMA AdvanceCursorInv ==
    ASSUME EngineInv, NEW s \in Schedule, AdvanceCursor(s)
    PROVE  EngineInv'
<1>. USE DEF AdvanceCursor
<1>1. cursor' \in [Schedule -> Nat]
  BY DEF EngineInv, EngineTypeOK, NextCursor
<1>2. tick' \in TickType /\ TickLinked'
  BY RowsSame DEF EngineInv, EngineTypeOK, Linked, TickLinked, TickType, TickPc
<1>3. EngineTypeOK'
  BY <1>1, <1>2 DEF EngineInv, EngineTypeOK, apiVars, boundVars
<1>4. Linked'
  BY <1>2, RowsSame, JobsKept, RequestsKept DEF Linked, execVars
<1>. QED BY <1>3, <1>4 DEF EngineInv

\* The steps that record a fire without dispatching it.
LEMMA RecordInv ==
    ASSUME EngineInv, RecordSkip \/ RecordDrop \/ Enqueue
    PROVE  EngineInv'
<1>. USE DEF RecordSkip, RecordDrop, Enqueue
<1>1. tick.at \in Schedule /\ ScriptOf[tick.at] \in Script
  BY EngineAssumption DEF EngineInv, Linked, TickLinked
<1>2. PICK st \in {"skipped", "pending"}, r \in RunId :
          /\ NextId(r)
          /\ runs' = [runs EXCEPT ![r] = NewRow(ScriptOf[tick.at], tick.at, st)]
  BY DEF InsertFire
<1>3. runs' \in [RunId -> RowType \cup {NoRow}] /\ Rows \subseteq Rows'
  BY <1>1, <1>2, RowInserted DEF EngineInv, Status
<1>4. dropped' \in [Schedule -> Nat]
  BY <1>1 DEF EngineInv, EngineTypeOK
<1>5. tick' \in TickType /\ TickLinked'
  BY <1>3 DEF BackToFire, EngineInv, EngineTypeOK, Linked, TickLinked, TickType, TickPc
<1>6. EngineTypeOK'
  BY <1>3, <1>4, <1>5 DEF EngineInv, EngineTypeOK, apiVars, boundVars
<1>7. Linked'
  BY <1>3, <1>5, JobsKept, RequestsKept DEF Linked, execVars
<1>. QED BY <1>6, <1>7 DEF EngineInv

LEMMA CreateAndDispatchInv ==
    ASSUME EngineInv, stage \in [Task -> Stage], CreateAndDispatch
    PROVE  EngineInv'
<1>. USE DEF CreateAndDispatch
<1>1. tick.at \in Schedule /\ ScriptOf[tick.at] \in Script
  BY EngineAssumption DEF EngineInv, Linked, TickLinked
<1>2. PICK r \in RunId :
          /\ NextId(r)
          /\ runs' = [runs EXCEPT ![r] = NewRow(ScriptOf[tick.at], tick.at, "running")]
          /\ Dispatch("tick", r, ScriptOf[tick.at])
  OBVIOUS
<1>3. runs' \in [RunId -> RowType \cup {NoRow}] /\ Rows \subseteq Rows' /\ r \in Rows'
  BY <1>1, <1>2, RowInserted DEF EngineInv, Status
<1>4. /\ job' \in [Task -> JobType \cup {NoJob}]
      /\ \A t \in Task : stage'[t] # "idle" => JobLinked(t)'
  BY <1>2, <1>3, Dispatched
<1>5. tick' \in TickType /\ TickLinked'
  BY <1>3 DEF BackToFire, EngineInv, EngineTypeOK, Linked, TickLinked, TickType, TickPc
<1>6. EngineTypeOK'
  BY <1>3, <1>4, <1>5 DEF EngineInv, EngineTypeOK, apiVars, boundVars
<1>7. Linked'
  BY <1>3, <1>4, <1>5, RequestsKept DEF Linked
<1>. QED BY <1>6, <1>7 DEF EngineInv

LEMMA RerunInv ==
    ASSUME EngineInv, stage \in [Task -> Stage], Rerun
    PROVE  EngineInv'
<1>. USE DEF Rerun
<1>1. tick.row \in Rows /\ tick.row \in RunId
  BY DEF EngineInv, Linked, TickLinked, Rows
<1>2. runs' \in [RunId -> RowType \cup {NoRow}] /\ Rows \subseteq Rows'
  BY <1>1, RowTakenUp DEF EngineInv
<1>3. /\ job' \in [Task -> JobType \cup {NoJob}]
      /\ \A t \in Task : stage'[t] # "idle" => JobLinked(t)'
  BY <1>1, <1>2, Dispatched
<1>4. tick' \in TickType /\ TickLinked'
  BY <1>2 DEF EngineInv, EngineTypeOK, Linked, TickLinked, TickType, TickPc
<1>5. EngineTypeOK'
  BY <1>2, <1>3, <1>4 DEF EngineInv, EngineTypeOK, apiVars, boundVars
<1>6. Linked'
  BY <1>2, <1>3, <1>4, RequestsKept DEF Linked
<1>. QED BY <1>5, <1>6 DEF EngineInv

LEMMA TickFailsInv ==
    ASSUME EngineInv, TickFails
    PROVE  EngineInv'
<1>. USE DEF TickFails
<1>1. tick' \in TickType /\ TickLinked'
  BY RowsSame DEF Asleep, TickType, TickPc, TickLinked, dbVars
<1>2. EngineTypeOK'
  BY <1>1, EngineAssumption DEF EngineInv, EngineTypeOK, dbVars, apiVars
<1>3. Linked'
  BY <1>1, RowsSame, JobsKept, RequestsKept DEF Linked, dbVars, execVars
<1>. QED BY <1>2, <1>3 DEF EngineInv

-----------------------------------------------------------------------------
(* Tasks. *)

\* The steps inside run_script create no task and touch nothing of the engine.
LEMMA RunScriptInv ==
    ASSUME EngineInv, NEW t \in Task, stage \in [Task -> Stage],
           Acquire(t) \/ Raise(t) \/ Provision(t) \/ ProcessEnds(t) \/ LoseProcess(t) \/ GiveBack(t)
    PROVE  EngineInv'
<1>1. UNCHANGED restVars
  BY DEF Acquire, Raise, Provision, ProcessEnds, LoseProcess, GiveBack
<1>2. \A u \in Task : stage'[u] # "idle" => stage[u] # "idle"
  BY DEF Acquire, Raise, Provision, ProcessEnds, LoseProcess, GiveBack, TakeSlot, TakeLock,
         RunScriptRaises, SetupFails, SpawnProcess, ProcessExits, SupervisionFails, Release, Stage
<1>3. EngineTypeOK'
  BY <1>1 DEF restVars, EngineInv, EngineTypeOK, dbVars, apiVars, boundVars
<1>4. Linked'
  BY <1>1, <1>2, RowsSame, JobsKept, TickKept, RequestsKept DEF Linked, restVars, dbVars
<1>. QED BY <1>3, <1>4 DEF EngineInv

\* When a task ends, the others keep their jobs.
LEMMA JobEnded ==
    ASSUME EngineInv, NEW t \in Task, stage \in [Task -> Stage], EndJob(t), Rows \subseteq Rows'
    PROVE  /\ job' \in [Task -> JobType \cup {NoJob}]
           /\ \A u \in Task : stage'[u] # "idle" => JobLinked(u)'
BY DEF EndJob, Retire, EngineInv, EngineTypeOK, Linked, JobLinked, Stage

\* A finalizer that goes on changes its own job only.
LEMMA JobMoved ==
    ASSUME EngineInv, NEW t \in Task, UNCHANGED stage, Rows \subseteq Rows',
           stage[t] # "idle", NEW j \in JobType, job' = [job EXCEPT ![t] = j],
           j.run = job[t].run, j.step = "flip" => j.next \in Rows
    PROVE  /\ job' \in [Task -> JobType \cup {NoJob}]
           /\ \A u \in Task : stage'[u] # "idle" => JobLinked(u)'
BY DEF EngineInv, EngineTypeOK, Linked, JobLinked

LEMMA FinishEndsInv ==
    ASSUME EngineInv, NEW t \in Task, stage \in [Task -> Stage], outcome \in [Task -> Outcome],
           outcome[t] # "none",
           FinalizeTriggered(t) \/ MarkPendingRetry(t) \/ NothingPending(t) \/ FinalizerFails(t)
    PROVE  EngineInv'
<1>. USE DEF FinalizeTriggered, MarkPendingRetry, NothingPending, FinalizerFails
<1>1. stage[t] # "idle" /\ EndJob(t)
  OBVIOUS
<1>2. JobLinked(t) /\ job[t].run \in Rows /\ job[t].run \in RunId
  BY <1>1 DEF EngineInv, Linked, JobLinked, Rows
<1>3. runs' \in [RunId -> RowType \cup {NoRow}] /\ Rows \subseteq Rows'
  <2>1. CASE FinalizeTriggered(t)
    BY <2>1, <1>2, RowsUpdated DEF EngineInv, Status, Outcome
  <2>2. CASE MarkPendingRetry(t)
    <3>1. runs[job[t].run] \in RowType
      BY <1>2 DEF EngineInv, EngineTypeOK, Rows, NoRow
    <3>2. job[t].seen \in Nat
      BY <1>2 DEF JobLinked, JobType
    <3>. DEFINE row == [runs[job[t].run] EXCEPT !.status = "pending_retry",
                                                !.attempt = job[t].seen + 1,
                                                !.ripe = FALSE]
    <3>3. row \in RowType /\ row.status = "pending_retry"
      <4>. DEFINE r1 == [runs[job[t].run] EXCEPT !.status = "pending_retry"]
                  r2 == [r1 EXCEPT !.attempt = job[t].seen + 1]
                  r3 == [r2 EXCEPT !.ripe = FALSE]
      <4>1. r1 \in RowType /\ r1.status = "pending_retry"
        BY <3>1 DEF RowType, Status
      <4>2. r2 \in RowType /\ r2.status = "pending_retry"
        <5>. HIDE DEF r1
        <5>. QED BY <3>2, <4>1 DEF RowType
      <4>3. r3 \in RowType /\ r3.status = "pending_retry"
        <5>. HIDE DEF r2
        <5>. QED BY <4>2 DEF RowType
      <4>. QED BY <4>3
    <3>4. runs' = [runs EXCEPT ![job[t].run] = row]
      BY <2>2, <1>2, <3>1 DEF EngineInv, EngineTypeOK, RowType
    <3>. QED BY <3>3, <3>4, <1>2 DEF EngineInv, EngineTypeOK, Rows
  <2>3. CASE NothingPending(t) \/ FinalizerFails(t)
    BY <2>3, RowsSame DEF EngineInv, EngineTypeOK, dbVars
  <2>. QED BY <2>1, <2>2, <2>3
<1>4. /\ job' \in [Task -> JobType \cup {NoJob}]
      /\ \A u \in Task : stage'[u] # "idle" => JobLinked(u)'
  BY <1>1, <1>3, JobEnded
<1>5. UNCHANGED <<cursor, dropped, clock, tick, apiVars, crashes>> /\ faults' \in 0 .. MaxFaults
  BY EngineAssumption DEF EngineInv, EngineTypeOK, dbVars, boundVars, apiVars
<1>6. EngineTypeOK'
  BY <1>3, <1>4, <1>5 DEF EngineInv, EngineTypeOK, apiVars
<1>7. Linked'
  BY <1>3, <1>4, <1>5, TickKept, RequestsKept DEF Linked
<1>. QED BY <1>6, <1>7 DEF EngineInv

LEMMA NatLeast ==
    ASSUME NEW S \in SUBSET Nat, S # {}
    PROVE  \E m \in S : \A n \in S : m <= n
<1>. DEFINE R == OpToRel(<, Nat)
<1>1. IsWellFoundedOn(R, Nat)
  BY NatLessThanWellFounded
<1>2. PICK m \in S : \A n \in S : ~ (<<n, m>> \in R)
  BY <1>1, WFMin
<1>3. \A n \in S : ~ (n < m)
  BY <1>2 DEF OpToRel
<1>. QED BY <1>3

\* A non-empty set of row ids has a least element: SELECT ... ORDER BY
\* started_at LIMIT 1 on a non-empty table returns a row of it.
LEMMA OldestExists ==
    ASSUME NEW s, RowsWith(s, "pending") # {}
    PROVE  OldestPending(s) \in RowsWith(s, "pending")
<1>1. RowsWith(s, "pending") \subseteq Nat
  BY EngineAssumption DEF RowsWith
<1>2. \E r \in RowsWith(s, "pending") : \A q \in RowsWith(s, "pending") : r <= q
  BY <1>1, NatLeast
<1>. QED BY <1>2 DEF OldestPending

LEMMA FinishGoesOnInv ==
    ASSUME EngineInv, NEW t \in Task, outcome \in [Task -> Outcome], outcome[t] # "none",
           ReadAttempt(t) \/ Finalize(t) \/ SelectPending(t)
    PROVE  EngineInv'
<1>. USE DEF ReadAttempt, Finalize, SelectPending
<1>1. stage[t] # "idle" /\ UNCHANGED execVars
  OBVIOUS
<1>2. /\ JobLinked(t)
      /\ job[t] \in JobType
      /\ job[t].run \in Rows
      /\ job[t].run \in RunId
  BY <1>1 DEF EngineInv, Linked, JobLinked, Rows
<1>3. runs' \in [RunId -> RowType \cup {NoRow}] /\ Rows \subseteq Rows'
  <2>1. CASE Finalize(t)
    BY <2>1, <1>2, RowsUpdated DEF EngineInv, Status, Outcome
  <2>2. CASE ReadAttempt(t) \/ SelectPending(t)
    BY <2>2, RowsSame DEF EngineInv, EngineTypeOK, dbVars
  <2>. QED BY <2>1, <2>2
<1>4. /\ job' \in [Task -> JobType \cup {NoJob}]
      /\ \A u \in Task : stage'[u] # "idle" => JobLinked(u)'
  <2>1. CASE ReadAttempt(t)
    <3>. DEFINE j == [job[t] EXCEPT !.step = "attempt", !.seen = runs[job[t].run].attempt]
    <3>1. runs[job[t].run].attempt \in Nat
      BY <1>2 DEF EngineInv, EngineTypeOK, RowType, NoRow
    <3>2. j \in JobType /\ j.run = job[t].run /\ j.step # "flip"
      BY <1>2, <3>1 DEF JobType
    <3>3. job' = [job EXCEPT ![t] = j]
      BY <2>1, <1>2 DEF EngineInv, EngineTypeOK, JobType
    <3>. QED BY <3>2, <3>3, <1>1, <1>3, JobMoved DEF execVars
  <2>2. CASE Finalize(t)
    <3>. DEFINE j == [job[t] EXCEPT !.step = "drain"]
    <3>1. j \in JobType /\ j.run = job[t].run /\ j.step # "flip"
      BY <1>2 DEF JobType
    <3>2. job' = [job EXCEPT ![t] = j]
      BY <2>2
    <3>. QED BY <3>1, <3>2, <1>1, <1>3, JobMoved DEF execVars
  <2>3. CASE SelectPending(t)
    <3>. DEFINE p == OldestPending(target[t])
                j == [job[t] EXCEPT !.step = "flip", !.next = p]
    <3>1. p \in Rows /\ p \in RunId
      BY <2>3, OldestExists DEF Rows, RowsWith
    <3>2. j \in JobType /\ j.run = job[t].run /\ j.next \in Rows
      BY <1>2, <3>1 DEF JobType
    <3>3. job' = [job EXCEPT ![t] = j]
      BY <2>3, <1>2 DEF EngineInv, EngineTypeOK, JobType
    <3>. QED BY <3>2, <3>3, <1>1, <1>3, JobMoved DEF execVars
  <2>. QED BY <2>1, <2>2, <2>3
<1>5. UNCHANGED <<cursor, dropped, clock, tick, apiVars, boundVars>>
  BY DEF dbVars
<1>6. EngineTypeOK'
  BY <1>3, <1>4, <1>5 DEF EngineInv, EngineTypeOK, apiVars, boundVars
<1>7. Linked'
  BY <1>3, <1>4, <1>5, TickKept, RequestsKept DEF Linked
<1>. QED BY <1>6, <1>7 DEF EngineInv

LEMMA PromoteInv ==
    ASSUME EngineInv, NEW t \in Task, stage \in [Task -> Stage], Promote(t)
    PROVE  EngineInv'
<1>. USE DEF Promote, Chain
<1>1. JobLinked(t) /\ job[t].next \in Rows /\ job[t].next \in RunId
  BY DEF EngineInv, Linked, JobLinked, Rows
<1>2. runs' \in [RunId -> RowType \cup {NoRow}] /\ Rows \subseteq Rows'
  BY <1>1, RowTakenUp DEF EngineInv
<1>3. NewJob("drain", job[t].next) \in JobType
  BY <1>1 DEF NewJob, JobType
<1>4. job' \in [Task -> JobType \cup {NoJob}]
  BY <1>3 DEF EngineInv, EngineTypeOK
<1>5. ASSUME NEW u \in Task, stage'[u] # "idle"
      PROVE  JobLinked(u)'
  <2>1. CASE u = t
    <3>1. job'[u] = NewJob("drain", job[t].next)
      BY <2>1 DEF EngineInv, EngineTypeOK
    <3>. QED BY <3>1, <1>1, <1>2, <1>3 DEF JobLinked, NewJob
  <2>2. CASE u # t
    BY <1>2, <1>5, <2>2 DEF EngineInv, EngineTypeOK, Linked, JobLinked, Stage
  <2>. QED BY <2>1, <2>2
<1>6. EngineTypeOK'
  BY <1>2, <1>4 DEF EngineInv, EngineTypeOK, apiVars, boundVars
<1>7. Linked'
  BY <1>2, <1>5, TickKept, RequestsKept DEF Linked
<1>. QED BY <1>6, <1>7 DEF EngineInv

-----------------------------------------------------------------------------
(* Requests and crashes. *)

LEMMA TriggerCheckInv ==
    ASSUME EngineInv, NEW q \in Request, NEW s \in Script, TriggerCheck(q, s)
    PROVE  EngineInv'
<1>. USE DEF TriggerCheck
<1>1. trigger' \in [Request -> TriggerType]
  BY DEF EngineInv, EngineTypeOK, TriggerType
<1>2. EngineTypeOK'
  BY <1>1 DEF EngineInv, EngineTypeOK, dbVars, boundVars
<1>3. RequestsLinked'
  BY RowsSame DEF EngineInv, EngineTypeOK, Linked, RequestsLinked, dbVars
<1>4. Linked'
  BY <1>3, RowsSame, JobsKept, TickKept DEF Linked, dbVars, execVars
<1>. QED BY <1>2, <1>4 DEF EngineInv

LEMMA TriggerCreateInv ==
    ASSUME EngineInv, stage \in [Task -> Stage], NEW q \in Request, TriggerCreate(q)
    PROVE  EngineInv'
<1>. USE DEF TriggerCreate
<1>1. trigger[q].script \in Script
  BY DEF EngineInv, Linked, RequestsLinked
<1>2. PICK r \in RunId :
          /\ NextId(r)
          /\ runs' = [runs EXCEPT ![r] = NewRow(trigger[q].script, NoSchedule, "running")]
          /\ Dispatch("api", r, trigger[q].script)
  OBVIOUS
<1>3. runs' \in [RunId -> RowType \cup {NoRow}] /\ Rows \subseteq Rows' /\ r \in Rows'
  BY <1>1, <1>2, RowInserted DEF EngineInv, Status
<1>4. /\ job' \in [Task -> JobType \cup {NoJob}]
      /\ \A t \in Task : stage'[t] # "idle" => JobLinked(t)'
  BY <1>2, <1>3, Dispatched
<1>5. trigger' \in [Request -> TriggerType]
  BY DEF EngineInv, EngineTypeOK, TriggerType
<1>6. EngineTypeOK'
  BY <1>3, <1>4, <1>5 DEF EngineInv, EngineTypeOK, boundVars
<1>7. RequestsLinked'
  BY <1>3 DEF EngineInv, EngineTypeOK, Linked, RequestsLinked, TriggerType
<1>8. Linked'
  BY <1>3, <1>4, <1>7, TickKept DEF Linked
<1>. QED BY <1>6, <1>8 DEF EngineInv

LEMMA CancelReadInv ==
    ASSUME EngineInv, NEW c \in Canceller, NEW r \in RunId, CancelRead(c, r)
    PROVE  EngineInv'
<1>. USE DEF CancelRead
<1>1. runs[r].status \in Status
  BY DEF EngineInv, EngineTypeOK, RowType, Rows, NoRow
<1>2. cancel' \in [Canceller -> CancelType]
  BY <1>1 DEF EngineInv, EngineTypeOK, CancelType
<1>3. EngineTypeOK'
  BY <1>2 DEF EngineInv, EngineTypeOK, dbVars, boundVars
<1>4. RequestsLinked'
  BY RowsSame DEF EngineInv, EngineTypeOK, Linked, RequestsLinked, dbVars
<1>5. Linked'
  BY <1>4, RowsSame, JobsKept, TickKept DEF Linked, dbVars, execVars
<1>. QED BY <1>3, <1>5 DEF EngineInv

LEMMA CancelSignalInv ==
    ASSUME EngineInv, NEW c \in Canceller, CancelSignal(c)
    PROVE  EngineInv'
<1>. USE DEF CancelSignal
<1>1. Rows' = Rows
  BY RowsSame DEF dbVars
<1>2. \A t \in Task : job[t] \in JobType =>
          LET j == [job[t] EXCEPT !.term = TRUE]
          IN  j \in JobType /\ j.run = job[t].run /\ j.step = job[t].step /\ j.next = job[t].next
  BY DEF JobType
<1>3. \A t \in Task : stage[t] = "proc" => job[t] \in JobType
  BY DEF EngineInv, Linked, JobLinked
<1>4. job' \in [Task -> JobType \cup {NoJob}]
  BY <1>2, <1>3 DEF EngineInv, EngineTypeOK, Registered
<1>5. \A t \in Task : stage'[t] # "idle" => JobLinked(t)'
  <2>. SUFFICES ASSUME NEW t \in Task, stage[t] # "idle"
                PROVE  JobLinked(t)'
    BY DEF execVars
  <2>1. JobLinked(t)
    BY DEF EngineInv, Linked
  <2>2. job'[t] \in JobType /\ job'[t].run = job[t].run /\ job'[t].step = job[t].step
          /\ job'[t].next = job[t].next
    BY <1>2, <2>1 DEF JobLinked
  <2>. QED BY <1>1, <2>1, <2>2 DEF JobLinked
<1>6. cancel' \in [Canceller -> CancelType]
  BY DEF EngineInv, EngineTypeOK, CancelType
<1>7. EngineTypeOK'
  BY <1>4, <1>6 DEF EngineInv, EngineTypeOK, dbVars, boundVars
<1>8. RequestsLinked'
  BY <1>1 DEF EngineInv, EngineTypeOK, Linked, RequestsLinked, CancelType
<1>9. Linked'
  BY <1>1, <1>5, <1>8, TickKept DEF Linked
<1>. QED BY <1>7, <1>9 DEF EngineInv

LEMMA CancelWriteInv ==
    ASSUME EngineInv, NEW c \in Canceller, CancelWrite(c)
    PROVE  EngineInv'
<1>. USE DEF CancelWrite
<1>1. cancel[c].run \in Rows
  BY DEF EngineInv, Linked, RequestsLinked
<1>2. runs' \in [RunId -> RowType \cup {NoRow}] /\ Rows \subseteq Rows'
  BY <1>1, RowsUpdated DEF EngineInv, Status
<1>3. cancel' \in [Canceller -> CancelType]
  BY DEF EngineInv, EngineTypeOK, CancelType
<1>4. EngineTypeOK'
  BY <1>2, <1>3 DEF EngineInv, EngineTypeOK, boundVars
<1>5. RequestsLinked'
  BY <1>2 DEF EngineInv, EngineTypeOK, Linked, RequestsLinked, CancelType
<1>6. Linked'
  BY <1>2, <1>5, JobsKept, TickKept DEF Linked, execVars
<1>. QED BY <1>4, <1>6 DEF EngineInv

LEMMA CrashInv ==
    ASSUME EngineInv, NEW S \in SUBSET Script, Crash(S)
    PROVE  EngineInv'
<1>. USE DEF Crash
<1>1. tick' \in TickType /\ TickLinked'
  BY DEF Asleep, TickType, TickPc, TickLinked
<1>2. job' \in [Task -> JobType \cup {NoJob}] /\ \A t \in Task : stage'[t] = "idle"
  BY DEF ExecCrash
<1>3. trigger' \in [Request -> TriggerType] /\ \A q \in Request : trigger'[q].pc # "checked"
  BY DEF EngineInv, EngineTypeOK, TriggerType
<1>4. cancel' \in [Canceller -> CancelType]
  BY DEF EngineInv, EngineTypeOK, CancelType
<1>5. \A c \in Canceller : cancel'[c].pc \notin {"read", "write"}
  BY DEF EngineInv, EngineTypeOK, CancelType
<1>6. EngineTypeOK'
  BY <1>1, <1>2, <1>3, <1>4, EngineAssumption DEF EngineInv, EngineTypeOK, dbVars
<1>7. Linked'
  BY <1>1, <1>2, <1>3, <1>5 DEF Linked, RequestsLinked
<1>. QED BY <1>6, <1>7 DEF EngineInv

LEMMA LoseStrayInv ==
    ASSUME EngineInv, NEW s \in Script, LoseStray(s)
    PROVE  EngineInv'
<1>1. UNCHANGED restVars /\ UNCHANGED stage
  BY DEF LoseStray, StrayEnds
<1>2. EngineTypeOK'
  BY <1>1 DEF restVars, EngineInv, EngineTypeOK, dbVars, apiVars, boundVars
<1>3. Linked'
  BY <1>1, RowsSame, JobsKept, TickKept, RequestsKept DEF Linked, restVars, dbVars
<1>. QED BY <1>2, <1>3 DEF EngineInv

LEMMA StutterInv ==
    ASSUME EngineInv, UNCHANGED vars
    PROVE  EngineInv'
<1>1. EngineTypeOK'
  BY DEF vars, EngineInv, EngineTypeOK, dbVars, apiVars, boundVars
<1>2. Linked'
  BY RowsSame, JobsKept, TickKept, RequestsKept DEF Linked, vars, dbVars, execVars
<1>. QED BY <1>1, <1>2 DEF EngineInv

-----------------------------------------------------------------------------
(* The invariant of the engine, and what follows from it. *)

LEMMA EngineInit == Init => EngineInv
<1>. SUFFICES ASSUME Init PROVE EngineInv
  OBVIOUS
<1>1. runs \in [RunId -> RowType \cup {NoRow}] /\ job \in [Task -> JobType \cup {NoJob}]
  BY DEF Init
<1>2. tick \in TickType /\ TickLinked
  BY DEF Init, Asleep, TickType, TickPc, TickLinked
<1>3. trigger \in [Request -> TriggerType] /\ cancel \in [Canceller -> CancelType]
  BY DEF Init, TriggerType, CancelType
<1>4. EngineTypeOK
  BY <1>1, <1>2, <1>3, EngineAssumption DEF Init, EngineTypeOK
<1>5. Linked
  BY <1>2 DEF Init, ExecInit, Linked, RequestsLinked
<1>. QED BY <1>4, <1>5 DEF EngineInv

LEMMA FinishInv ==
    ASSUME ExecTypeOK, EngineInv, NEW t \in Task, Finish(t) \/ FinalizerFails(t)
    PROVE  EngineInv'
<1>1. /\ stage \in [Task -> Stage]
      /\ outcome \in [Task -> Outcome]
      /\ stage[t] = "over" => outcome[t] # "none"
  BY DEF ExecTypeOK
<1>2. stage[t] = "over"
  BY DEF Finish, FinalizerFails, FinalizeTriggered, ReadAttempt, MarkPendingRetry, Finalize,
         NothingPending, SelectPending, Promote
<1>. QED BY <1>1, <1>2, FinishEndsInv, FinishGoesOnInv, PromoteInv DEF Finish

LEMMA EngineStep ==
    ASSUME ExecTypeOK, EngineInv, [Next]_vars
    PROVE  EngineInv'
<1>0. stage \in [Task -> Stage]
  BY DEF ExecTypeOK
<1>1. CASE ClockMoves \/ \E r \in RunId : BackoffElapses(r)
  BY <1>1, TimeInv
<1>2. CASE TickStep
  BY <1>0, <1>2, TickReadsInv, AdvanceCursorInv, RecordInv, CreateAndDispatchInv, RerunInv DEF TickStep
<1>3. CASE TickFails
  BY <1>3, TickFailsInv
<1>4. ASSUME NEW t \in Task, TaskStep(t)
      PROVE  EngineInv'
  BY <1>0, <1>4, RunScriptInv, FinishInv DEF TaskStep
<1>5. CASE \E s \in Script : LoseStray(s)
  BY <1>5, LoseStrayInv
<1>6. CASE RequestStep
  BY <1>0, <1>6, TriggerCheckInv, TriggerCreateInv, CancelReadInv, CancelSignalInv, CancelWriteInv
     DEF RequestStep
<1>7. CASE \E S \in SUBSET Script : Crash(S)
  BY <1>7, CrashInv
<1>8. CASE UNCHANGED vars
  BY <1>8, StutterInv
<1>. QED BY <1>1, <1>2, <1>3, <1>4, <1>5, <1>6, <1>7, <1>8 DEF Next

\* Every variable of the engine and of the executor under it keeps its type,
\* no slot or lock leaks, and every local variable that outlives an await
\* names a row that exists.
THEOREM EngineInvariant == Spec => [](TypeOK /\ NoLeak /\ Linked)
<1>. DEFINE Inv == ExecInv /\ EngineInv
<1>1. Init => Inv
  BY InitInv, EngineInit DEF Init
<1>2. Inv /\ [Next]_vars => Inv'
  BY EngineStepIsExecStep, StepInv, EngineStep DEF ExecInv
<1>3. Inv => TypeOK /\ NoLeak /\ Linked
  BY DEF ExecInv, EngineInv, TypeOK
<1>. QED BY <1>1, <1>2, <1>3, PTL DEF Spec

\* The same, in the form the lemmas above use it.
LEMMA Always == Spec => [](ExecTypeOK /\ EngineInv)
<1>1. TypeOK /\ NoLeak /\ Linked => ExecTypeOK /\ EngineInv
  BY DEF TypeOK, EngineInv
<1>. QED BY <1>1, EngineInvariant, PTL

\* The engine drives run_script the way run_script expects it: whatever the
\* tick, the requests and the finalizers do, the executor sees behaviours of
\* its own specification.
THEOREM UsesExecutor == Spec => ExecSpec
<1>1. Init => ExecInit
  BY DEF Init
<1>2. EngineInv /\ [Next]_vars => [ExecNext]_execVars
  BY EngineStepIsExecStep
<1>. QED BY <1>1, <1>2, Always, PTL DEF Spec, ExecSpec

\* So the executor's theorems are theorems of the whole engine: two tasks
\* never supervise subprocesses of one script at once, and the executor is a
\* pool of Concurrency slots with one execution per script.
THEOREM EngineExclusion == Spec => []ProcessesExclusive /\ ImplementsPoolSafely
BY UsesExecutor, Exclusion, Refinement, PTL

-----------------------------------------------------------------------------
(* How the steps of the engine write rows. *)

\* A step writes rows in one of four ways, or not at all.
Inserts(r) ==
    /\ NextId(r)
    /\ \E s \in Script, sc \in Schedule \cup {NoSchedule}, st \in Status :
          runs' = [runs EXCEPT ![r] = NewRow(s, sc, st)]

\* The statuses an UPDATE of the status alone writes.
Written == {"running", "success", "failure", "error", "cancelled"}

Flips(r) == TakeUp(r) \/ \E st \in Written : SetStatus(r, st)

LEMMA FlipWrites ==
    ASSUME EngineTypeOK, NEW r \in Rows, Flips(r)
    PROVE  /\ r \in RunId /\ runs[r] \in RowType
           /\ \E st \in Written, n \in Nat :
                 runs' = [runs EXCEPT ![r] = [runs[r] EXCEPT !.status = st, !.starts = n]]
<1>1. /\ r \in RunId /\ runs[r] \in RowType
      /\ runs \in [RunId -> RowType \cup {NoRow}]
  BY DEF EngineTypeOK, Rows, NoRow
<1>2. CASE TakeUp(r)
  <2>1. runs' = [runs EXCEPT ![r] = [runs[r] EXCEPT !.status = "running",
                                                    !.starts = runs[r].starts + 1]]
    BY <1>2 DEF TakeUp
  <2>2. runs[r].starts + 1 \in Nat
    BY <1>1 DEF RowType
  <2>. QED BY <1>1, <2>1, <2>2 DEF Written
<1>3. ASSUME NEW st \in Written, SetStatus(r, st)
      PROVE  runs' = [runs EXCEPT ![r] = [runs[r] EXCEPT !.status = st,
                                                         !.starts = runs[r].starts]]
  <2>1. [runs[r] EXCEPT !.status = st]
            = [runs[r] EXCEPT !.status = st, !.starts = runs[r].starts]
    BY <1>1 DEF RowType
  <2>. QED BY <1>3, <2>1 DEF SetStatus
<1>4. runs[r].starts \in Nat
  BY <1>1 DEF RowType
<1>. QED BY <1>1, <1>2, <1>3, <1>4 DEF Flips

InsertStep ==
    \/ RecordSkip \/ RecordDrop \/ Enqueue \/ CreateAndDispatch
    \/ \E q \in Request : TriggerCreate(q)

LEMMA InsertsRow ==
    ASSUME EngineInv, InsertStep
    PROVE  \E r \in RunId : Inserts(r)
<1>1. CASE RecordSkip \/ RecordDrop \/ Enqueue \/ CreateAndDispatch
  <2>1. tick.at \in Schedule /\ ScriptOf[tick.at] \in Script
    BY <1>1, EngineAssumption
       DEF RecordSkip, RecordDrop, Enqueue, CreateAndDispatch, EngineInv, Linked, TickLinked
  <2>2. PICK r \in RunId, st \in {"skipped", "pending", "running"} :
            /\ NextId(r)
            /\ runs' = [runs EXCEPT ![r] = NewRow(ScriptOf[tick.at], tick.at, st)]
    BY <1>1 DEF RecordSkip, RecordDrop, Enqueue, CreateAndDispatch, InsertFire
  <2>3. st \in Status
    BY DEF Status
  <2>. QED BY <2>1, <2>2, <2>3 DEF Inserts
<1>2. ASSUME NEW q \in Request, TriggerCreate(q)
      PROVE  \E r \in RunId : Inserts(r)
  <2>1. trigger[q].script \in Script
    BY <1>2 DEF TriggerCreate, EngineInv, Linked, RequestsLinked
  <2>. QED BY <1>2, <2>1 DEF TriggerCreate, Inserts, Status
<1>. QED BY <1>1, <1>2 DEF InsertStep

\* The tasks' and the tick's updates name a row that exists; the outcome they
\* write is never "none".
LEMMA StepWritesRows ==
    ASSUME ExecTypeOK, EngineInv, [Next]_vars
    PROVE  \/ runs' = runs
           \/ \E r \in RunId : BackoffElapses(r)
           \/ \E t \in Task : MarkPendingRetry(t)
           \/ InsertStep /\ \E r \in RunId : Inserts(r)
           \/ \E r \in Rows : Flips(r)
<1>1. CASE TickStep
  <2>1. CASE RecordSkip \/ RecordDrop \/ Enqueue \/ CreateAndDispatch
    BY <2>1, InsertsRow DEF InsertStep
  <2>2. CASE Rerun
    BY <2>2 DEF Rerun, Flips, Written, EngineInv, Linked, TickLinked
  <2>. QED BY <1>1, <2>1, <2>2 DEF TickStep, BeginTick, AdvanceCursor, CheckOverlap, CheckQueue,
              PickRetries, CheckRetry, EndTick, dbVars
<1>2. ASSUME NEW t \in Task, TaskStep(t), runs' # runs
      PROVE  MarkPendingRetry(t) \/ \E r \in Rows : Flips(r)
  <2>1. Finish(t)
    BY <1>2 DEF TaskStep, Acquire, Raise, Provision, ProcessEnds, LoseProcess, GiveBack,
                FinalizerFails, restVars, dbVars
  <2>2. JobLinked(t) /\ outcome[t] \in Written
    <3>1. stage[t] = "over"
      BY <2>1 DEF Finish, FinalizeTriggered, ReadAttempt, MarkPendingRetry, Finalize,
                  NothingPending, SelectPending, Promote
    <3>. QED BY <3>1 DEF ExecTypeOK, EngineInv, Linked, Outcome, Written
  <2>. QED BY <1>2, <2>1, <2>2 DEF Finish, FinalizeTriggered, ReadAttempt, Finalize,
              NothingPending, SelectPending, Promote, Flips, JobLinked, Written, dbVars
<1>3. CASE RequestStep
  <2>1. ASSUME NEW q \in Request, TriggerCreate(q)
        PROVE  InsertStep /\ \E r \in RunId : Inserts(r)
    BY <2>1, InsertsRow DEF InsertStep
  <2>2. ASSUME NEW c \in Canceller, CancelWrite(c)
        PROVE  \E r \in Rows : Flips(r)
    BY <2>2 DEF CancelWrite, EngineInv, Linked, RequestsLinked, Flips, Written
  <2>. QED BY <1>3, <2>1, <2>2 DEF RequestStep, TriggerCheck, CancelRead, CancelSignal, dbVars
<1>4. CASE ClockMoves \/ TickFails \/ (\E s \in Script : LoseStray(s)) \/ (\E S \in SUBSET Script : Crash(S))
  BY <1>4 DEF ClockMoves, TickFails, LoseStray, Crash, restVars, dbVars
<1>5. CASE UNCHANGED vars
  BY <1>5 DEF vars, dbVars
<1>. QED BY <1>1, <1>2, <1>3, <1>4, <1>5 DEF Next

\* Who these writers are.
LEMMA RowWriters ==
    ASSUME [Next]_vars
    PROVE  \/ runs' = runs
           \/ \E r \in RunId : BackoffElapses(r)
           \/ InsertStep
           \/ \E t \in Task : FinalizeTriggered(t) \/ MarkPendingRetry(t) \/ Finalize(t) \/ Promote(t)
           \/ Rerun
           \/ \E c \in Canceller : CancelWrite(c)
<1>1. CASE TickStep
  BY <1>1
     DEF TickStep, InsertStep, BeginTick, AdvanceCursor, CheckOverlap, CheckQueue, PickRetries,
         CheckRetry, EndTick, dbVars
<1>2. ASSUME NEW t \in Task, TaskStep(t)
      PROVE  \/ runs' = runs
             \/ FinalizeTriggered(t) \/ MarkPendingRetry(t) \/ Finalize(t) \/ Promote(t)
  BY <1>2 DEF TaskStep, Acquire, Raise, Provision, ProcessEnds, LoseProcess, GiveBack, FinalizerFails,
              Finish, ReadAttempt, NothingPending, SelectPending, restVars, dbVars
<1>3. CASE RequestStep
  BY <1>3 DEF RequestStep, InsertStep, TriggerCheck, CancelRead, CancelSignal, dbVars
<1>4. CASE ClockMoves \/ TickFails \/ (\E s \in Script : LoseStray(s)) \/ (\E S \in SUBSET Script : Crash(S))
           \/ UNCHANGED vars
  BY <1>4 DEF ClockMoves, TickFails, LoseStray, Crash, restVars, dbVars, vars
<1>. QED BY <1>1, <1>2, <1>3, <1>4 DEF Next

-----------------------------------------------------------------------------
(* Retries. *)

\* What the column says; how often a row is executed comes further below.
AttemptsWithinRetryMax ==
    \A r \in Rows : runs[r].attempt <= RetriesOf(r)

\* An attempt is only ever counted up by mark_pending_retry, from a value it
\* has compared with retry_max in the same step.
LEMMA AttemptsStep ==
    ASSUME ExecTypeOK, EngineInv, AttemptsWithinRetryMax, [Next]_vars
    PROVE  AttemptsWithinRetryMax'
<1>1. CASE runs' = runs
  BY <1>1 DEF AttemptsWithinRetryMax, Rows, RetriesOf
<1>2. ASSUME NEW r \in RunId, BackoffElapses(r)
      PROVE  AttemptsWithinRetryMax'
  <2>1. runs[r] \in RowType
    BY <1>2 DEF BackoffElapses, EngineInv, EngineTypeOK, NoRow
  <2>2. runs' = [runs EXCEPT ![r] = [runs[r] EXCEPT !.ripe = TRUE]]
    BY <1>2 DEF BackoffElapses
  <2>. QED BY <2>1, <2>2 DEF EngineInv, EngineTypeOK, RowType, AttemptsWithinRetryMax, Rows, RetriesOf
<1>3. ASSUME NEW t \in Task, MarkPendingRetry(t)
      PROVE  AttemptsWithinRetryMax'
  <2>. USE DEF MarkPendingRetry
  <2>. DEFINE r == job[t].run
  <2>1. r \in Rows /\ r \in RunId /\ job[t].seen \in Nat
    BY <1>3 DEF EngineInv, Linked, JobLinked, Rows, JobType
  <2>2. runs[r] \in RowType
    BY <2>1 DEF EngineInv, EngineTypeOK, Rows, NoRow
  <2>3. /\ runs'[r].attempt = job[t].seen + 1
        /\ runs'[r].sched = runs[r].sched
        /\ \A q \in RunId \ {r} : runs'[q] = runs[q]
    BY <1>3, <2>1, <2>2 DEF EngineInv, EngineTypeOK, RowType
  <2>4. RetriesOf(r) \in Nat /\ job[t].seen < RetriesOf(r)
    BY <1>3, <2>2, EngineAssumption DEF RetriesOf, RowType
  <2>5. ASSUME NEW q \in Rows'
        PROVE  (runs[q].attempt <= RetriesOf(q))'
    <3>1. CASE q = r
      <4>1. RetriesOf(q)' = RetriesOf(r)
        BY <2>3, <3>1 DEF RetriesOf
      <4>. QED BY <2>1, <2>3, <2>4, <3>1, <4>1
    <3>2. CASE q # r
      BY <2>3, <2>5, <3>2 DEF AttemptsWithinRetryMax, Rows, RetriesOf
    <3>. QED BY <3>1, <3>2
  <2>. QED BY <2>5 DEF AttemptsWithinRetryMax
<1>4. ASSUME NEW r \in RunId, Inserts(r)
      PROVE  AttemptsWithinRetryMax'
  BY <1>4, EngineAssumption
     DEF Inserts, NewRow, EngineInv, EngineTypeOK, AttemptsWithinRetryMax, Rows, RetriesOf
<1>5. ASSUME NEW r \in Rows, Flips(r)
      PROVE  AttemptsWithinRetryMax'
  <2>1. runs[r] \in RowType
    BY <1>5 DEF EngineInv, EngineTypeOK, Rows, NoRow
  <2>2. PICK st \in Written, n \in Nat :
            runs' = [runs EXCEPT ![r] = [runs[r] EXCEPT !.status = st, !.starts = n]]
    BY <1>5, FlipWrites DEF EngineInv
  <2>. QED BY <2>1, <2>2 DEF EngineInv, EngineTypeOK, RowType, AttemptsWithinRetryMax, Rows, RetriesOf
<1>. QED BY <1>1, <1>2, <1>3, <1>4, <1>5, StepWritesRows

LEMMA AttemptsBounded == Spec => []AttemptsWithinRetryMax
<1>1. Init => AttemptsWithinRetryMax
  BY DEF Init, AttemptsWithinRetryMax, Rows, NoRow
<1>2. (ExecTypeOK /\ EngineInv) /\ AttemptsWithinRetryMax /\ [Next]_vars => AttemptsWithinRetryMax'
  BY AttemptsStep
<1>. QED BY <1>1, <1>2, Always, PTL DEF Spec

-----------------------------------------------------------------------------
(* Running rows. *)

\* t is going to write the outcome of r.
Carries(t, r) ==
    /\ stage[t] # "idle"
    /\ job[t].run = r
    /\ job[t].step \in {"result", "attempt"}

Carried(r) == \E t \in Task : Carries(t, r)

Running(r) == runs[r].status = "running"

RunningCarried == \A r \in RunId : Running(r) => Carried(r)

\* A step that makes no row running and takes no task's job away.
LEMMA CarriersKept ==
    ASSUME RunningCarried, \A r \in RunId : Running(r)' => Running(r),
           \A t \in Task, r \in RunId : Carries(t, r) => Carries(t, r)'
    PROVE  RunningCarried'
BY DEF RunningCarried, Carried

\* A row becomes running together with the dispatch of the task that carries it.
LEMMA CarrierDispatched ==
    ASSUME ExecTypeOK, EngineInv, RunningCarried, NEW r \in RunId,
           NEW by \in {"tick", "drain", "api"}, NEW s, Dispatch(by, r, s),
           \A q \in RunId \ {r} : Running(q)' => Running(q)
    PROVE  RunningCarried'
<1>1. PICK f \in Task : f = FreeTask /\ stage[f] = "idle"
  BY FreeTaskIsIdle DEF Dispatch
<1>2. /\ stage'[f] = "slot"
      /\ job'[f] = NewJob(by, r)
      /\ \A t \in Task \ {f} : stage'[t] = stage[t] /\ job'[t] = job[t]
  <2>1. stage' = [stage EXCEPT ![f] = "slot"] /\ stage \in [Task -> Stage]
    BY <1>1 DEF Dispatch, Submit, ExecTypeOK
  <2>2. job' = [job EXCEPT ![f] = NewJob(by, r)] /\ job \in [Task -> JobType \cup {NoJob}]
    BY <1>1 DEF Dispatch, EngineInv, EngineTypeOK
  <2>. QED BY <1>1, <2>1, <2>2
<1>3. Carries(f, r)'
  BY <1>1, <1>2 DEF Carries, NewJob
<1>4. ASSUME NEW t \in Task, NEW q \in RunId, Carries(t, q)
      PROVE  Carries(t, q)'
  BY <1>1, <1>2, <1>4 DEF Carries
<1>. QED BY <1>1, <1>3, <1>4 DEF RunningCarried, Carried

\* A task that writes an outcome gives up no row but the one whose status it
\* replaces, and a task that promotes a row carries it on.
LEMMA FinishCarried ==
    ASSUME ExecTypeOK, EngineInv, RunningCarried, NEW t \in Task, Finish(t)
    PROVE  RunningCarried'
<1>1. stage[t] = "over" /\ outcome[t] \in Outcome
  BY DEF Finish, FinalizeTriggered, ReadAttempt, MarkPendingRetry, Finalize,
         NothingPending, SelectPending, Promote, ExecTypeOK
<1>2. /\ JobLinked(t)
      /\ job[t] \in JobType
      /\ job[t].run \in RunId
      /\ runs[job[t].run] \in RowType
  BY <1>1 DEF EngineInv, Linked, JobLinked, Rows, EngineTypeOK, NoRow
<1>3. \A u \in Task \ {t}, q \in RunId : Carries(u, q) => Carries(u, q)'
  BY DEF Finish, FinalizeTriggered, ReadAttempt, MarkPendingRetry, Finalize, NothingPending,
         SelectPending, Promote, EndJob, Retire, Chain, Carries, EngineInv, EngineTypeOK,
         ExecTypeOK, execVars
<1>4. CASE FinalizeTriggered(t) \/ MarkPendingRetry(t) \/ Finalize(t)
  <2>1. \A q \in RunId : Running(q)' => q # job[t].run /\ Running(q)
    <3>1. CASE FinalizeTriggered(t) \/ Finalize(t)
      BY <1>1, <1>2, <3>1
         DEF FinalizeTriggered, Finalize, SetStatus, Running, Outcome, EngineInv, EngineTypeOK, RowType
    <3>2. CASE MarkPendingRetry(t)
      BY <1>2, <3>2 DEF MarkPendingRetry, Running, EngineInv, EngineTypeOK, RowType
    <3>. QED BY <1>4, <3>1, <3>2
  <2>2. ASSUME NEW q \in RunId, Running(q)'
        PROVE  Carried(q)'
    <3>1. PICK u \in Task : Carries(u, q)
      BY <2>1, <2>2 DEF RunningCarried, Carried
    <3>2. u # t
      BY <2>1, <2>2, <3>1 DEF Carries
    <3>. QED BY <1>3, <3>1, <3>2 DEF Carried
  <2>. QED BY <2>2 DEF RunningCarried
<1>5. CASE ReadAttempt(t) \/ NothingPending(t) \/ SelectPending(t)
  <2>1. \A q \in RunId : Carries(t, q) => Carries(t, q)'
    <3>1. CASE ReadAttempt(t)
      <4>1. /\ job'[t].run = job[t].run
            /\ job'[t].step = "attempt"
            /\ stage' = stage
        BY <1>2, <3>1 DEF ReadAttempt, EngineInv, EngineTypeOK, JobType, execVars
      <4>. QED BY <4>1 DEF Carries
    <3>2. CASE NothingPending(t) \/ SelectPending(t)
      BY <3>2 DEF NothingPending, SelectPending, Carries
    <3>. QED BY <1>5, <3>1, <3>2
  <2>2. runs' = runs
    BY <1>5 DEF ReadAttempt, NothingPending, SelectPending, dbVars
  <2>. QED BY <1>3, <2>1, <2>2, CarriersKept DEF Running
<1>6. CASE Promote(t)
  <2>1. job[t].step = "flip" /\ job[t].next \in RunId
    BY <1>2, <1>6 DEF Promote, JobLinked, Rows
  <2>2. PICK next \in RunId : next = job[t].next
    BY <2>1
  <2>3. \A q \in RunId \ {next} : Running(q)' => Running(q)
    BY <1>6, <2>2 DEF Promote, TakeUp, Running, EngineInv, EngineTypeOK
  <2>4. Carries(t, next)'
    <3>1. stage' = [stage EXCEPT ![t] = "slot"] /\ stage \in [Task -> Stage]
      BY <1>6 DEF Promote, Chain, ExecTypeOK
    <3>2. job' = [job EXCEPT ![t] = NewJob("drain", next)] /\ job \in [Task -> JobType \cup {NoJob}]
      BY <1>6, <2>2 DEF Promote, EngineInv, EngineTypeOK
    <3>. QED BY <3>1, <3>2 DEF NewJob, Carries
  <2>5. \A q \in RunId : ~Carries(t, q)
    BY <2>1 DEF Carries
  <2>6. ASSUME NEW q \in RunId, Running(q)'
        PROVE  Carried(q)'
    <3>1. CASE q = next
      BY <2>4, <3>1 DEF Carried
    <3>2. CASE q # next
      <4>1. PICK u \in Task : Carries(u, q)
        BY <2>3, <2>6, <3>2 DEF RunningCarried, Carried
      <4>2. Carries(u, q)'
        BY <1>3, <2>5, <4>1
      <4>. QED BY <4>2 DEF Carried
    <3>. QED BY <3>1, <3>2
  <2>. QED BY <2>6 DEF RunningCarried
<1>. QED BY <1>4, <1>5, <1>6 DEF Finish

\* The counters of crashes and errors only count up.
LEMMA StepCounts ==
    ASSUME [Next]_vars
    PROVE  crashes' \in {crashes, crashes + 1} /\ faults' \in {faults, faults + 1}
<1>1. CASE TickStep
  BY <1>1 DEF TickStep, BeginTick, AdvanceCursor, CheckOverlap, RecordSkip, CheckQueue, RecordDrop,
              Enqueue, CreateAndDispatch, PickRetries, CheckRetry, Rerun, EndTick, boundVars
<1>2. CASE \E t \in Task : TaskStep(t)
  BY <1>2 DEF TaskStep, Acquire, Raise, Provision, ProcessEnds, LoseProcess, GiveBack, Finish,
              FinalizeTriggered, ReadAttempt, MarkPendingRetry, Finalize, NothingPending,
              SelectPending, Promote, FinalizerFails, restVars, boundVars
<1>3. CASE RequestStep
  BY <1>3 DEF RequestStep, TriggerCreate, TriggerCheck, CancelRead, CancelSignal, CancelWrite, boundVars
<1>4. CASE ClockMoves \/ (\E r \in RunId : BackoffElapses(r)) \/ (\E s \in Script : LoseStray(s))
  BY <1>4 DEF ClockMoves, BackoffElapses, LoseStray, restVars, boundVars
<1>5. CASE TickFails \/ (\E S \in SUBSET Script : Crash(S)) \/ UNCHANGED vars
  BY <1>5 DEF TickFails, Crash, vars, boundVars
<1>. QED BY <1>1, <1>2, <1>3, <1>4, <1>5 DEF Next

LEMMA RunningStep ==
    ASSUME ExecTypeOK, EngineInv, RunningCarried, [Next]_vars,
           crashes' = crashes, faults' = faults
    PROVE  RunningCarried'
<1>0. crashes \in Nat /\ faults \in Nat
  BY EngineAssumption DEF EngineInv, EngineTypeOK
<1>1. CASE TickStep
  <2>1. CASE CreateAndDispatch
    <3>1. PICK r \in RunId :
              /\ NextId(r)
              /\ runs' = [runs EXCEPT ![r] = NewRow(ScriptOf[tick.at], tick.at, "running")]
              /\ Dispatch("tick", r, ScriptOf[tick.at])
      BY <2>1 DEF CreateAndDispatch
    <3>2. \A q \in RunId \ {r} : Running(q)' => Running(q)
      BY <3>1 DEF Running, EngineInv, EngineTypeOK
    <3>. QED BY <3>1, <3>2, CarrierDispatched
  <2>2. CASE Rerun
    <3>1. tick.row \in RunId
      BY <2>2 DEF Rerun, EngineInv, Linked, TickLinked, Rows
    <3>2. \A q \in RunId \ {tick.row} : Running(q)' => Running(q)
      BY <2>2 DEF Rerun, TakeUp, Running, EngineInv, EngineTypeOK
    <3>. QED BY <2>2, <3>1, <3>2, CarrierDispatched DEF Rerun
  <2>3. CASE RecordSkip \/ RecordDrop \/ Enqueue
    <3>1. PICK st \in {"skipped", "pending"}, r \in RunId :
              runs' = [runs EXCEPT ![r] = NewRow(ScriptOf[tick.at], tick.at, st)]
      BY <2>3 DEF RecordSkip, RecordDrop, Enqueue, InsertFire
    <3>2. \A q \in RunId : Running(q)' => Running(q)
      BY <3>1 DEF Running, NewRow, EngineInv, EngineTypeOK
    <3>3. UNCHANGED <<stage, job>>
      BY <2>3 DEF RecordSkip, RecordDrop, Enqueue, execVars
    <3>. QED BY <3>2, <3>3, CarriersKept DEF Carries
  <2>4. CASE UNCHANGED <<stage, job, runs>>
    BY <2>4, CarriersKept DEF Carries, Running
  <2>. QED BY <1>1, <2>1, <2>2, <2>3, <2>4
           DEF TickStep, BeginTick, AdvanceCursor, CheckOverlap, CheckQueue,
               PickRetries, CheckRetry, EndTick, execVars, dbVars
<1>2. ASSUME NEW t \in Task, TaskStep(t)
      PROVE  RunningCarried'
  <2>1. CASE Finish(t)
    BY <2>1, FinishCarried
  <2>2. CASE Acquire(t) \/ Raise(t) \/ Provision(t) \/ ProcessEnds(t) \/ LoseProcess(t) \/ GiveBack(t)
    <3>1. \A u \in Task : stage[u] # "idle" => stage'[u] # "idle"
      BY <2>2 DEF Acquire, Raise, Provision, ProcessEnds, LoseProcess, GiveBack, TakeSlot, TakeLock,
         RunScriptRaises, SetupFails, SpawnProcess, ProcessExits, SupervisionFails, Release, ExecTypeOK
    <3>2. UNCHANGED <<job, runs>>
      BY <2>2 DEF Acquire, Raise, Provision, ProcessEnds, LoseProcess, GiveBack, restVars, dbVars
    <3>. QED BY <3>1, <3>2, CarriersKept DEF Carries, Running
  <2>3. ~FinalizerFails(t)
    BY <1>0 DEF FinalizerFails
  <2>. QED BY <1>2, <2>1, <2>2, <2>3 DEF TaskStep
<1>3. CASE RequestStep
  <2>1. ASSUME NEW q \in Request, TriggerCreate(q)
        PROVE  RunningCarried'
    <3>1. PICK r \in RunId :
              /\ NextId(r)
              /\ runs' = [runs EXCEPT ![r] = NewRow(trigger[q].script, NoSchedule, "running")]
              /\ Dispatch("api", r, trigger[q].script)
      BY <2>1 DEF TriggerCreate
    <3>2. \A p \in RunId \ {r} : Running(p)' => Running(p)
      BY <3>1 DEF Running, EngineInv, EngineTypeOK
    <3>. QED BY <3>1, <3>2, CarrierDispatched
  <2>2. ASSUME NEW c \in Canceller, CancelWrite(c)
        PROVE  RunningCarried'
    <3>1. \A p \in RunId : Running(p)' => Running(p)
      BY <2>2 DEF CancelWrite, SetStatus, Running, EngineInv, EngineTypeOK
    <3>2. UNCHANGED <<stage, job>>
      BY <2>2 DEF CancelWrite, execVars
    <3>. QED BY <3>1, <3>2, CarriersKept DEF Carries
  <2>3. ASSUME NEW c \in Canceller, CancelSignal(c)
        PROVE  RunningCarried'
    <3>1. \A u \in Task : Registered(u) => job[u] \in JobType
      BY DEF Registered, EngineInv, Linked, JobLinked
    <3>2. \A u \in Task : job'[u].run = job[u].run /\ job'[u].step = job[u].step
      BY <2>3, <3>1 DEF CancelSignal, JobType
    <3>3. UNCHANGED <<stage, runs>>
      BY <2>3 DEF CancelSignal, execVars, dbVars
    <3>. QED BY <3>2, <3>3, CarriersKept DEF Carries, Running
  <2>4. CASE UNCHANGED <<stage, job, runs>>
    BY <2>4, CarriersKept DEF Carries, Running
  <2>. QED BY <1>3, <2>1, <2>2, <2>3, <2>4
           DEF RequestStep, TriggerCheck, CancelRead, execVars, dbVars
<1>4. ASSUME NEW r \in RunId, BackoffElapses(r)
      PROVE  RunningCarried'
  <2>1. runs[r] \in RowType
    BY <1>4 DEF BackoffElapses, EngineInv, EngineTypeOK, NoRow
  <2>2. runs' = [runs EXCEPT ![r] = [runs[r] EXCEPT !.ripe = TRUE]]
    BY <1>4 DEF BackoffElapses
  <2>3. \A q \in RunId : Running(q)' => Running(q)
    BY <2>1, <2>2 DEF Running, EngineInv, EngineTypeOK, RowType
  <2>4. UNCHANGED <<stage, job>>
    BY <1>4 DEF BackoffElapses, execVars
  <2>. QED BY <2>3, <2>4, CarriersKept DEF Carries
<1>5. CASE ClockMoves \/ (\E s \in Script : LoseStray(s)) \/ UNCHANGED vars
  <2>1. UNCHANGED <<stage, job, runs>>
    BY <1>5 DEF ClockMoves, LoseStray, StrayEnds, restVars, vars, execVars, dbVars
  <2>. QED BY <2>1, CarriersKept DEF Carries, Running
<1>6. ~TickFails /\ \A S \in SUBSET Script : ~Crash(S)
  BY <1>0 DEF TickFails, Crash
<1>. QED BY <1>1, <1>2, <1>3, <1>4, <1>5, <1>6 DEF Next

\* While the server has not died and no database error has escaped a
\* coroutine, every row that says "running" has a live task that will still
\* write its outcome: no run is active for ever for want of somebody to end it.
THEOREM NoOrphans == Spec => []RunningHasTask
<1>. DEFINE Quiet == crashes = 0 /\ faults = 0
            Inv == Quiet => RunningCarried
<1>1. Init => Inv
  BY DEF Init, RunningCarried, Running, NoRow
<1>2. (ExecTypeOK /\ EngineInv) /\ Inv /\ [Next]_vars => Inv'
  <2>. SUFFICES ASSUME ExecTypeOK, EngineInv, Inv, [Next]_vars, Quiet'
                PROVE  RunningCarried'
    OBVIOUS
  <2>1. crashes' = crashes /\ faults' = faults
    <3>1. crashes \in Nat /\ faults \in Nat
      BY EngineAssumption DEF EngineInv, EngineTypeOK
    <3>2. crashes' \in {crashes, crashes + 1} /\ faults' \in {faults, faults + 1}
      BY StepCounts
    <3>. QED BY <3>1, <3>2
  <2>. QED BY <2>1, RunningStep
<1>3. Inv => RunningHasTask
  BY DEF RunningHasTask, RunningCarried, Running, Carried, Carries
<1>. QED BY <1>1, <1>2, <1>3, Always, PTL DEF Spec

-----------------------------------------------------------------------------
(* Fires: what the cursor has passed is in the table, in hand or lost.     *)

\* The tick holds a schedule exactly between the commit of its cursor and
\* that of its row.
HandsFull ==
    tick.pc \in {"sleep", "fire", "retries", "rerun"} => tick.at = NoSchedule

FiresInv ==
    /\ \A s \in Schedule : cursor[s] > 0
    /\ HandsFull
    /\ FiresAccounted

LEMMA RowsOfFinite ==
    ASSUME NEW s
    PROVE  IsFiniteSet(RowsOf(s)) /\ Cardinality(RowsOf(s)) \in Nat
<1>1. IsFiniteSet(RowsOf(s))
  BY FS_Subset, EngineAssumption DEF RowsOf
<1>. QED BY <1>1, FS_CardinalityType

\* A row keeps its script and its schedule once it exists.
LEMMA OriginKept ==
    ASSUME ExecTypeOK, EngineInv, [Next]_vars
    PROVE  \A r \in Rows : /\ runs'[r].script = runs[r].script
                           /\ runs'[r].sched = runs[r].sched
<1>1. CASE runs' = runs
  BY <1>1
<1>2. ASSUME NEW q \in RunId, BackoffElapses(q)
      PROVE  \A r \in Rows : runs'[r].script = runs[r].script /\ runs'[r].sched = runs[r].sched
  <2>1. runs[q] \in RowType /\ runs' = [runs EXCEPT ![q] = [runs[q] EXCEPT !.ripe = TRUE]]
    BY <1>2 DEF BackoffElapses, EngineInv, EngineTypeOK, NoRow
  <2>. QED BY <2>1 DEF EngineInv, EngineTypeOK, RowType, Rows
<1>3. ASSUME NEW t \in Task, MarkPendingRetry(t)
      PROVE  \A r \in Rows : runs'[r].script = runs[r].script /\ runs'[r].sched = runs[r].sched
  <2>1. job[t].run \in RunId /\ runs[job[t].run] \in RowType
    BY <1>3 DEF MarkPendingRetry, EngineInv, Linked, JobLinked, Rows, EngineTypeOK, NoRow
  <2>. QED BY <1>3, <2>1 DEF MarkPendingRetry, EngineInv, EngineTypeOK, RowType, Rows
<1>4. ASSUME NEW q \in RunId, Inserts(q)
      PROVE  \A r \in Rows : runs'[r].script = runs[r].script /\ runs'[r].sched = runs[r].sched
  BY <1>4 DEF Inserts, NextId, Rows, EngineInv, EngineTypeOK
<1>5. ASSUME NEW q \in Rows, Flips(q)
      PROVE  \A r \in Rows : runs'[r].script = runs[r].script /\ runs'[r].sched = runs[r].sched
  <2>1. runs[q] \in RowType
    BY <1>5 DEF EngineInv, EngineTypeOK, Rows, NoRow
  <2>2. PICK st \in Written, n \in Nat :
            runs' = [runs EXCEPT ![q] = [runs[q] EXCEPT !.status = st, !.starts = n]]
    BY <1>5, FlipWrites DEF EngineInv
  <2>. QED BY <2>1, <2>2 DEF EngineInv, EngineTypeOK, RowType, Rows
<1>. QED BY <1>1, <1>2, <1>3, <1>4, <1>5, StepWritesRows

\* Rows that do not exist belong to no schedule, so only an INSERT adds one.
LEMMA RowsOfInserted ==
    ASSUME EngineTypeOK, NEW r \in RunId, NextId(r), NEW s \in Script,
           NEW sc \in Schedule \cup {NoSchedule}, NEW st \in Status,
           runs' = [runs EXCEPT ![r] = NewRow(s, sc, st)]
    PROVE  \A x \in Schedule :
               Cardinality(RowsOf(x)') = Cardinality(RowsOf(x)) + IF x = sc THEN 1 ELSE 0
<1>. TAKE x \in Schedule
<1>1. r \notin RowsOf(x)
  <2>1. runs[r] = NoRow
    BY DEF NextId, EngineTypeOK, RowType, Status
  <2>. QED BY <2>1, EngineAssumption DEF RowsOf, NoRow
<1>2. RowsOf(x)' = IF x = sc THEN RowsOf(x) \cup {r} ELSE RowsOf(x)
  BY <1>1 DEF RowsOf, EngineTypeOK, NewRow
<1>. QED BY <1>1, <1>2, RowsOfFinite, FS_AddElement

LEMMA OnlyInsertsAdd ==
    ASSUME ExecTypeOK, EngineInv, [Next]_vars, ~InsertStep
    PROVE  Rows' = Rows
<1>1. CASE runs' = runs
  BY <1>1, RowsSame
<1>2. ASSUME NEW q \in RunId, BackoffElapses(q)
      PROVE  Rows' = Rows
  <2>1. runs[q] \in RowType /\ runs' = [runs EXCEPT ![q] = [runs[q] EXCEPT !.ripe = TRUE]]
    BY <1>2 DEF BackoffElapses, EngineInv, EngineTypeOK, NoRow
  <2>. QED BY <2>1 DEF EngineInv, EngineTypeOK, RowType, Rows
<1>3. ASSUME NEW t \in Task, MarkPendingRetry(t)
      PROVE  Rows' = Rows
  <2>1. job[t].run \in Rows /\ runs[job[t].run] \in RowType
    BY <1>3 DEF MarkPendingRetry, EngineInv, Linked, JobLinked, Rows, EngineTypeOK, NoRow
  <2>. QED BY <1>3, <2>1 DEF MarkPendingRetry, EngineInv, EngineTypeOK, RowType, Rows
<1>4. ASSUME NEW q \in Rows, Flips(q)
      PROVE  Rows' = Rows
  <2>1. q \in RunId /\ runs[q] \in RowType
    BY <1>4, FlipWrites DEF EngineInv
  <2>2. PICK st \in Written, n \in Nat :
            runs' = [runs EXCEPT ![q] = [runs[q] EXCEPT !.status = st, !.starts = n]]
    BY <1>4, FlipWrites DEF EngineInv
  <2>. QED BY <2>1, <2>2 DEF EngineInv, EngineTypeOK, RowType, Rows, NoRow, Written
<1>. QED BY <1>1, <1>2, <1>3, <1>4, StepWritesRows

LEMMA RowsOfSame ==
    ASSUME ExecTypeOK, EngineInv, [Next]_vars, ~InsertStep
    PROVE  \A x \in Schedule : RowsOf(x)' = RowsOf(x)
<1>0. Rows' = Rows
  BY OnlyInsertsAdd
<1>. SUFFICES ASSUME NEW r \in RunId
              PROVE  \A x \in Schedule : runs'[r].sched = x <=> runs[r].sched = x
  BY DEF RowsOf
<1>1. CASE r \in Rows
  BY <1>1, OriginKept
<1>2. CASE r \notin Rows
  <2>1. r \notin Rows'
    BY <1>0, <1>2
  <2>2. runs[r] = NoRow
    BY <1>2 DEF Rows, EngineInv, EngineTypeOK, RowType, Status
  <2>3. runs'[r] = NoRow
    <3>1. EngineInv'
      BY EngineStep
    <3>. QED BY <2>1, <3>1 DEF Rows, EngineInv, EngineTypeOK, RowType, Status
  <2>. QED BY <2>2, <2>3
<1>. QED BY <1>1, <1>2

\* An INSERT of the tick puts the fire in hand into the table.
LEMMA FireRecorded ==
    ASSUME EngineInv, FiresInv,
           RecordSkip \/ RecordDrop \/ Enqueue \/ CreateAndDispatch
    PROVE  FiresInv'
<1>1. tick.at \in Schedule /\ ScriptOf[tick.at] \in Script
  BY EngineAssumption
     DEF RecordSkip, RecordDrop, Enqueue, CreateAndDispatch, EngineInv, Linked, TickLinked
<1>2. PICK r \in RunId, st \in {"skipped", "pending", "running"} :
          /\ NextId(r)
          /\ runs' = [runs EXCEPT ![r] = NewRow(ScriptOf[tick.at], tick.at, st)]
  BY DEF RecordSkip, RecordDrop, Enqueue, CreateAndDispatch, InsertFire
<1>3. \A x \in Schedule :
          Cardinality(RowsOf(x)') = Cardinality(RowsOf(x)) + IF x = tick.at THEN 1 ELSE 0
  <2>1. EngineTypeOK /\ st \in Status /\ tick.at \in Schedule \cup {NoSchedule}
    BY <1>1 DEF EngineInv, Status
  <2>. QED BY <1>1, <1>2, <2>1, RowsOfInserted
<1>4. tick'.at = NoSchedule /\ UNCHANGED <<cursor, crashes, faults>>
  BY DEF RecordSkip, RecordDrop, Enqueue, CreateAndDispatch, BackToFire, boundVars,
         EngineInv, EngineTypeOK, TickType
<1>5. HandsFull' /\ \A x \in Schedule : cursor'[x] > 0
  BY <1>4 DEF FiresInv, HandsFull
<1>6. ASSUME NEW x \in Schedule, Gap[x] = {}
      PROVE  (Fired(x) - Cardinality(RowsOf(x)) - InHand(x) \in 0 .. crashes + faults)'
  <2>1. Fired(x) - Cardinality(RowsOf(x)) - InHand(x) \in 0 .. crashes + faults
    BY <1>6 DEF FiresInv, FiresAccounted
  <2>2. InHand(x) = (IF x = tick.at THEN 1 ELSE 0) /\ InHand(x)' = 0
    BY <1>4, EngineAssumption DEF InHand
  <2>3. Fired(x)' = Fired(x) /\ Fired(x) \in Int
    BY <1>4 DEF Fired, EngineInv, EngineTypeOK
  <2>4. crashes + faults \in Int /\ (crashes + faults)' = crashes + faults
    BY <1>4 DEF EngineInv, EngineTypeOK
  <2>5. Cardinality(RowsOf(x)) \in Nat
    BY RowsOfFinite
  <2>6. Cardinality(RowsOf(x)') = Cardinality(RowsOf(x)) + InHand(x)
    BY <1>3, <2>2
  <2>. QED BY <2>1, <2>2, <2>3, <2>4, <2>5, <2>6
<1>. QED BY <1>5, <1>6 DEF FiresInv, FiresAccounted

\* A committed cursor puts a fire into the hand of the tick.
LEMMA FireTaken ==
    ASSUME ExecTypeOK, EngineInv, FiresInv, NEW s \in Schedule, AdvanceCursor(s)
    PROVE  FiresInv'
<1>1. tick.at = NoSchedule /\ tick'.at = s /\ tick'.pc = "overlap"
  BY DEF AdvanceCursor, FiresInv, HandsFull, EngineInv, EngineTypeOK, TickType
<1>2. /\ cursor' = [cursor EXCEPT ![s] = NextCursor(s)]
      /\ UNCHANGED <<runs, crashes, faults>>
  BY DEF AdvanceCursor, boundVars
<1>3. \A x \in Schedule : /\ cursor'[x] > 0
                          /\ Gap[x] = {} =>
                                cursor'[x] = cursor[x] + IF x = s THEN 1 ELSE 0
  BY <1>2 DEF NextCursor, FiresInv, EngineInv, EngineTypeOK
<1>4. ASSUME NEW x \in Schedule, Gap[x] = {}
      PROVE  (Fired(x) - Cardinality(RowsOf(x)) - InHand(x) \in 0 .. crashes + faults)'
  <2>1. Fired(x) - Cardinality(RowsOf(x)) - InHand(x) \in 0 .. crashes + faults
    BY <1>4 DEF FiresInv, FiresAccounted
  <2>2. InHand(x) = 0 /\ InHand(x)' = IF x = s THEN 1 ELSE 0
    BY <1>1, EngineAssumption DEF InHand
  <2>3. RowsOf(x)' = RowsOf(x) /\ Cardinality(RowsOf(x)) \in Nat
    BY <1>2, RowsOfFinite DEF RowsOf
  <2>4. /\ Fired(x) \in Int
        /\ Fired(x)' = Fired(x) + IF x = s THEN 1 ELSE 0
    BY <1>3, <1>4 DEF Fired, EngineInv, EngineTypeOK
  <2>. QED BY <1>2, <2>1, <2>2, <2>3, <2>4
<1>. QED BY <1>1, <1>3, <1>4 DEF FiresInv, FiresAccounted, HandsFull

\* A tick that is interrupted loses at most the fire in its hand, and is
\* counted.
LEMMA FireLost ==
    ASSUME EngineInv, FiresInv, TickFails \/ \E S \in SUBSET Script : Crash(S)
    PROVE  FiresInv'
<1>1. /\ tick' = Asleep
      /\ UNCHANGED <<runs, cursor>>
      /\ crashes' + faults' = crashes + faults + 1
      /\ crashes + faults \in Nat
  BY EngineAssumption DEF TickFails, Crash, dbVars, EngineInv, EngineTypeOK
<1>2. ASSUME NEW x \in Schedule, Gap[x] = {}
      PROVE  (Fired(x) - Cardinality(RowsOf(x)) - InHand(x) \in 0 .. crashes + faults)'
  <2>1. Fired(x) - Cardinality(RowsOf(x)) - InHand(x) \in 0 .. crashes + faults
    BY <1>2 DEF FiresInv, FiresAccounted
  <2>2. InHand(x) \in {0, 1} /\ InHand(x)' = 0
    BY <1>1, EngineAssumption DEF InHand, Asleep
  <2>3. RowsOf(x)' = RowsOf(x) /\ Cardinality(RowsOf(x)) \in Nat
    BY <1>1, RowsOfFinite DEF RowsOf
  <2>4. Fired(x)' = Fired(x) /\ Fired(x) \in Int
    BY <1>1 DEF Fired, EngineInv, EngineTypeOK
  <2>. QED BY <1>1, <2>1, <2>2, <2>3, <2>4
<1>. QED BY <1>1, <1>2 DEF FiresInv, FiresAccounted, HandsFull, Asleep

\* A trigger's row belongs to no schedule.
LEMMA FireUntriggered ==
    ASSUME EngineInv, FiresInv, NEW q \in Request, TriggerCreate(q)
    PROVE  FiresInv'
<1>1. trigger[q].script \in Script
  BY DEF TriggerCreate, EngineInv, Linked, RequestsLinked
<1>2. PICK r \in RunId :
          /\ NextId(r)
          /\ runs' = [runs EXCEPT ![r] = NewRow(trigger[q].script, NoSchedule, "running")]
  BY DEF TriggerCreate
<1>3. \A x \in Schedule :
          Cardinality(RowsOf(x)') = Cardinality(RowsOf(x)) + IF x = NoSchedule THEN 1 ELSE 0
  BY <1>1, <1>2, RowsOfInserted DEF EngineInv, Status
<1>4. UNCHANGED <<tick, cursor, crashes, faults>>
  BY DEF TriggerCreate, boundVars
<1>5. \A x \in Schedule : Cardinality(RowsOf(x)') = Cardinality(RowsOf(x))
  BY <1>3, RowsOfFinite, EngineAssumption
<1>. QED BY <1>4, <1>5 DEF FiresInv, FiresAccounted, HandsFull, Fired, InHand

\* Every other step leaves cursors, hand and rows' schedules alone.
LEMMA FireUntouched ==
    ASSUME ExecTypeOK, EngineInv, FiresInv, [Next]_vars, ~InsertStep, HandsFull',
           UNCHANGED cursor, tick'.at = tick.at
    PROVE  FiresInv'
<1>1. \A x \in Schedule : RowsOf(x)' = RowsOf(x)
  BY RowsOfSame
<1>2. /\ crashes \in Nat /\ faults \in Nat
      /\ crashes' \in {crashes, crashes + 1} /\ faults' \in {faults, faults + 1}
  BY StepCounts, EngineAssumption DEF EngineInv, EngineTypeOK
<1>3. ASSUME NEW x \in Schedule, Gap[x] = {}
      PROVE  (Fired(x) - Cardinality(RowsOf(x)) - InHand(x) \in 0 .. crashes + faults)'
  <2>1. Fired(x) - Cardinality(RowsOf(x)) - InHand(x) \in 0 .. crashes + faults
    BY <1>3 DEF FiresInv, FiresAccounted
  <2>2. Fired(x)' = Fired(x) /\ InHand(x)' = InHand(x)
    BY DEF Fired, InHand
  <2>. QED BY <1>1, <1>2, <2>1, <2>2
<1>. QED BY <1>3 DEF FiresInv, FiresAccounted

LEMMA FiresStep ==
    ASSUME ExecTypeOK, EngineInv, FiresInv, [Next]_vars
    PROVE  FiresInv'
<1>1. CASE InsertStep
  BY <1>1, FireRecorded, FireUntriggered DEF InsertStep
<1>2. CASE ~InsertStep /\ TickStep
  <2>1. CASE \E s \in Schedule : AdvanceCursor(s)
    BY <2>1, FireTaken
  <2>2. CASE BeginTick \/ PickRetries \/ (\E r \in RunId : CheckRetry(r)) \/ Rerun \/ EndTick
             \/ CheckOverlap \/ CheckQueue
    <3>1. HandsFull' /\ tick'.at = tick.at
      <4>. USE DEF FiresInv, HandsFull, EngineInv, EngineTypeOK, TickType
      <4>1. CASE BeginTick \/ PickRetries \/ Rerun
        BY <4>1 DEF BeginTick, PickRetries, Rerun
      <4>2. CASE \E r \in RunId : CheckRetry(r)
        BY <4>2 DEF CheckRetry
      <4>3. CASE EndTick
        BY <4>3 DEF EndTick, Asleep
      <4>4. CASE CheckOverlap
        BY <4>4 DEF CheckOverlap
      <4>5. CASE CheckQueue
        BY <4>5 DEF CheckQueue
      <4>. QED BY <2>2, <4>1, <4>2, <4>3, <4>4, <4>5
    <3>2. UNCHANGED cursor
      BY <2>2 DEF BeginTick, PickRetries, CheckRetry, Rerun, EndTick, CheckOverlap, CheckQueue, dbVars
    <3>. QED BY <1>2, <3>1, <3>2, FireUntouched
  <2>. QED BY <1>2, <2>1, <2>2 DEF TickStep, InsertStep
<1>3. CASE TickFails \/ \E S \in SUBSET Script : Crash(S)
  BY <1>3, FireLost
<1>4. ASSUME NEW t \in Task, TaskStep(t)
      PROVE  UNCHANGED <<cursor, tick>>
  BY <1>4 DEF TaskStep, Acquire, Raise, Provision, ProcessEnds, LoseProcess, GiveBack, Finish,
              FinalizeTriggered, ReadAttempt, MarkPendingRetry, Finalize, NothingPending,
              SelectPending, Promote, FinalizerFails, restVars, dbVars
<1>5. ASSUME \/ RequestStep \/ ClockMoves \/ \E r \in RunId : BackoffElapses(r)
             \/ (\E s \in Script : LoseStray(s)) \/ UNCHANGED vars
      PROVE  UNCHANGED <<cursor, tick>>
  BY <1>5 DEF RequestStep, TriggerCreate, TriggerCheck, CancelRead, CancelSignal, CancelWrite,
              ClockMoves, BackoffElapses, LoseStray, restVars, vars, dbVars
<1>6. CASE ~InsertStep /\ UNCHANGED <<cursor, tick>>
  <2>1. HandsFull'
    BY <1>6 DEF FiresInv, HandsFull
  <2>. QED BY <1>6, <2>1, FireUntouched
<1>. QED BY <1>1, <1>2, <1>3, <1>4, <1>5, <1>6 DEF Next

\* Every fire of a schedule without a gap leaves exactly one row, but for at
\* most one lost with each crash or database error: the commit of the cursor
\* and that of the row are two (scheduler/tick.py).
THEOREM FiresKept == Spec => []FiresAccounted
<1>1. Init => FiresInv
  <2>. SUFFICES ASSUME Init PROVE FiresInv
    OBVIOUS
  <2>1. \A x \in Schedule : RowsOf(x) = {}
    BY EngineAssumption DEF Init, RowsOf, NoRow
  <2>2. \A x \in Schedule : Fired(x) = 0 /\ InHand(x) = 0
    BY EngineAssumption DEF Init, Fired, InHand, Asleep
  <2>. QED BY <2>1, <2>2, FS_EmptySet DEF Init, FiresInv, HandsFull, Asleep, FiresAccounted
<1>2. (ExecTypeOK /\ EngineInv) /\ FiresInv /\ [Next]_vars => FiresInv'
  BY FiresStep
<1>3. FiresInv => FiresAccounted
  BY DEF FiresInv
<1>. QED BY <1>1, <1>2, <1>3, Always, PTL DEF Spec

-----------------------------------------------------------------------------
(* The queue: count_pending and create_run are two steps of the tick, and  *)
(* between them the queue only gets shorter.                               *)

\* What the tick knows of the queue between the two.
QueueInv ==
    /\ tick.pc \in {"count", "enqueue"} => Policy[tick.at] = "queue"
    /\ tick.pc = "enqueue" => CountPending(ScriptOf[tick.at]) < QueueMax[tick.at]
    /\ PendingWithinQueueMax

LEMMA PendingFinite ==
    ASSUME NEW s
    PROVE  IsFiniteSet(RowsWith(s, "pending")) /\ CountPending(s) \in Nat
<1>1. IsFiniteSet(RowsWith(s, "pending"))
  BY FS_Subset, EngineAssumption DEF RowsWith
<1>. QED BY <1>1, FS_CardinalityType DEF CountPending

\* Nobody but the tick moves the tick on.
LEMMA OnlyTickMoves ==
    ASSUME [Next]_vars
    PROVE  TickStep \/ tick' = tick \/ tick' = Asleep
<1>1. ASSUME NEW t \in Task, TaskStep(t)
      PROVE  tick' = tick
  BY <1>1 DEF TaskStep, Acquire, Raise, Provision, ProcessEnds, LoseProcess, GiveBack, Finish,
              FinalizeTriggered, ReadAttempt, MarkPendingRetry, Finalize, NothingPending,
              SelectPending, Promote, FinalizerFails, restVars
<1>2. ASSUME \/ RequestStep \/ ClockMoves \/ \E r \in RunId : BackoffElapses(r)
             \/ (\E s \in Script : LoseStray(s)) \/ UNCHANGED vars
      PROVE  tick' = tick
  BY <1>2 DEF RequestStep, TriggerCreate, TriggerCheck, CancelRead, CancelSignal, CancelWrite,
              ClockMoves, BackoffElapses, LoseStray, restVars, vars
<1>3. ASSUME TickFails \/ \E S \in SUBSET Script : Crash(S)
      PROVE  tick' = Asleep
  BY <1>3 DEF TickFails, Crash
<1>. QED BY <1>1, <1>2, <1>3 DEF Next

\* Only Enqueue makes a row pending.
LEMMA PendingOnlyEnqueued ==
    ASSUME ExecTypeOK, EngineInv, [Next]_vars, ~Enqueue
    PROVE  \A s \in Script : RowsWith(s, "pending")' \subseteq RowsWith(s, "pending")
<1>. SUFFICES ASSUME NEW s \in Script, NEW r \in RunId,
                     runs'[r].script = s, runs'[r].status = "pending"
              PROVE  runs[r].script = s /\ runs[r].status = "pending"
  BY DEF RowsWith
<1>0. runs \in [RunId -> RowType \cup {NoRow}]
  BY DEF EngineInv, EngineTypeOK
<1>1. CASE runs' = runs
  BY <1>1
<1>2. ASSUME NEW q \in RunId, BackoffElapses(q)
      PROVE  runs[r].script = s /\ runs[r].status = "pending"
  <2>1. runs[q] \in RowType /\ runs' = [runs EXCEPT ![q] = [runs[q] EXCEPT !.ripe = TRUE]]
    BY <1>0, <1>2 DEF BackoffElapses, NoRow
  <2>. QED BY <1>0, <2>1 DEF RowType
<1>3. ASSUME NEW t \in Task, MarkPendingRetry(t)
      PROVE  runs[r].script = s /\ runs[r].status = "pending"
  <2>1. job[t].run \in RunId /\ runs[job[t].run] \in RowType
    BY <1>3 DEF MarkPendingRetry, EngineInv, Linked, JobLinked, Rows, EngineTypeOK, NoRow
  <2>. QED BY <1>0, <1>3, <2>1 DEF MarkPendingRetry, RowType
<1>4. CASE InsertStep
  <2>1. ASSUME NEW q \in RunId, NEW x, NEW sc, NEW st \in {"skipped", "running"},
               runs' = [runs EXCEPT ![q] = NewRow(x, sc, st)]
        PROVE  runs[r].script = s /\ runs[r].status = "pending"
    BY <1>0, <2>1 DEF NewRow
  <2>2. CASE RecordSkip \/ RecordDrop
    <3>1. PICK q \in RunId : runs' = [runs EXCEPT ![q] = NewRow(ScriptOf[tick.at], tick.at, "skipped")]
      BY <2>2 DEF RecordSkip, RecordDrop, InsertFire
    <3>. QED BY <2>1, <3>1
  <2>3. CASE CreateAndDispatch
    <3>1. PICK q \in RunId : runs' = [runs EXCEPT ![q] = NewRow(ScriptOf[tick.at], tick.at, "running")]
      BY <2>3 DEF CreateAndDispatch
    <3>. QED BY <2>1, <3>1
  <2>4. ASSUME NEW q \in Request, TriggerCreate(q)
        PROVE  runs[r].script = s /\ runs[r].status = "pending"
    <3>1. PICK p \in RunId : runs' = [runs EXCEPT ![p] = NewRow(trigger[q].script, NoSchedule, "running")]
      BY <2>4 DEF TriggerCreate
    <3>. QED BY <2>1, <3>1
  <2>. QED BY <1>4, <2>2, <2>3, <2>4 DEF InsertStep
<1>5. ASSUME NEW q \in Rows, Flips(q)
      PROVE  runs[r].script = s /\ runs[r].status = "pending"
  <2>1. q \in RunId /\ runs[q] \in RowType
    BY <1>0 DEF Rows, NoRow
  <2>2. PICK st \in Written, n \in Nat :
            runs' = [runs EXCEPT ![q] = [runs[q] EXCEPT !.status = st, !.starts = n]]
    BY <1>5, FlipWrites DEF EngineInv
  <2>. QED BY <1>0, <2>1, <2>2 DEF RowType, Written
<1>. QED BY <1>1, <1>2, <1>3, <1>4, <1>5, StepWritesRows

\* So a step that does not enqueue makes no queue longer.
LEMMA QueueShrinks ==
    ASSUME ExecTypeOK, EngineInv, QueueInv, [Next]_vars, ~Enqueue
    PROVE  /\ PendingWithinQueueMax'
           /\ \A s \in Script : CountPending(s)' <= CountPending(s)
<1>1. ASSUME NEW s \in Script
      PROVE  RowsWith(s, "pending")' \subseteq RowsWith(s, "pending") /\ CountPending(s)' <= CountPending(s)
  <2>1. RowsWith(s, "pending")' \subseteq RowsWith(s, "pending")
    BY PendingOnlyEnqueued
  <2>2. Cardinality(RowsWith(s, "pending")') <= Cardinality(RowsWith(s, "pending"))
    BY <2>1, PendingFinite, FS_Subset
  <2>. QED BY <2>1, <2>2 DEF CountPending
<1>2. ASSUME NEW s \in Script, RowsWith(s, "pending")' # {}
      PROVE  \E sc \in Schedule : /\ ScriptOf[sc] = s
                                  /\ Policy[sc] = "queue"
                                  /\ CountPending(s)' <= QueueMax[sc]
  <2>1. PICK sc \in Schedule : /\ ScriptOf[sc] = s
                               /\ Policy[sc] = "queue"
                               /\ CountPending(s) <= QueueMax[sc]
    BY <1>1, <1>2 DEF QueueInv, PendingWithinQueueMax
  <2>2. QueueMax[sc] \in Nat
    BY EngineAssumption
  <2>3. CountPending(s) \in Nat /\ CountPending(s)' \in Nat
    <3>1. IsFiniteSet(RowsWith(s, "pending")')
      BY <1>1, PendingFinite, FS_Subset
    <3>. QED BY <3>1, PendingFinite, FS_CardinalityType DEF CountPending
  <2>. QED BY <1>1, <2>1, <2>2, <2>3
<1>. QED BY <1>1, <1>2 DEF PendingWithinQueueMax

LEMMA EnqueueBounded ==
    ASSUME EngineInv, QueueInv, Enqueue
    PROVE  QueueInv'
<1>1. /\ tick.at \in Schedule
      /\ ScriptOf[tick.at] \in Script
      /\ Policy[tick.at] = "queue"
      /\ QueueMax[tick.at] \in Nat
      /\ CountPending(ScriptOf[tick.at]) < QueueMax[tick.at]
  BY EngineAssumption DEF Enqueue, EngineInv, Linked, TickLinked, QueueInv
<1>2. PICK r \in RunId : /\ NextId(r)
                         /\ runs' = [runs EXCEPT ![r] = NewRow(ScriptOf[tick.at], tick.at, "pending")]
  BY DEF Enqueue, InsertFire
<1>3. \A s \in Script : /\ r \notin RowsWith(s, "pending")
                        /\ RowsWith(s, "pending")' = IF s = ScriptOf[tick.at]
                                                    THEN RowsWith(s, "pending") \cup {r}
                                                    ELSE RowsWith(s, "pending")
  BY <1>2 DEF NextId, RowsWith, NewRow, EngineInv, EngineTypeOK
<1>4. ASSUME NEW s \in Script, RowsWith(s, "pending")' # {}
      PROVE  \E sc \in Schedule : /\ ScriptOf[sc] = s
                                  /\ Policy[sc] = "queue"
                                  /\ CountPending(s)' <= QueueMax[sc]
  <2>1. CASE s = ScriptOf[tick.at]
    <3>1. CountPending(s)' = CountPending(s) + 1
      BY <1>3, <2>1, PendingFinite, FS_AddElement DEF CountPending
    <3>. QED BY <1>1, <2>1, <3>1, PendingFinite
  <2>2. CASE s # ScriptOf[tick.at]
    BY <1>3, <1>4, <2>2 DEF CountPending, QueueInv, PendingWithinQueueMax
  <2>. QED BY <2>1, <2>2
<1>5. tick'.pc = "fire"
  BY DEF Enqueue, BackToFire, EngineInv, EngineTypeOK, TickType
<1>. QED BY <1>4, <1>5 DEF QueueInv, PendingWithinQueueMax

LEMMA QueueStep ==
    ASSUME ExecTypeOK, EngineInv, QueueInv, [Next]_vars
    PROVE  QueueInv'
<1>1. CASE Enqueue
  BY <1>1, EnqueueBounded
<1>2. CASE ~Enqueue /\ tick' = Asleep
  BY <1>2, QueueShrinks DEF QueueInv, Asleep
<1>3. CASE ~Enqueue /\ tick' = tick
  <2>1. tick.pc = "enqueue" => tick.at \in Schedule /\ ScriptOf[tick.at] \in Script
                                 /\ QueueMax[tick.at] \in Nat
    BY EngineAssumption DEF EngineInv, Linked, TickLinked
  <2>2. tick.pc = "enqueue" => CountPending(ScriptOf[tick.at])' < QueueMax[tick.at]
    <3>. SUFFICES ASSUME tick.pc = "enqueue"
                  PROVE  CountPending(ScriptOf[tick.at])' < QueueMax[tick.at]
      OBVIOUS
    <3>1. CountPending(ScriptOf[tick.at])' <= CountPending(ScriptOf[tick.at])
      BY <1>3, <2>1, QueueShrinks
    <3>2. CountPending(ScriptOf[tick.at])' \in Nat
      <4>1. RowsWith(ScriptOf[tick.at], "pending")' \subseteq RowsWith(ScriptOf[tick.at], "pending")
        BY <1>3, <2>1, PendingOnlyEnqueued
      <4>2. IsFiniteSet(RowsWith(ScriptOf[tick.at], "pending")')
        BY <4>1, PendingFinite, FS_Subset
      <4>. QED BY <1>3, <4>2, FS_CardinalityType DEF CountPending
    <3>. QED BY <1>3, <2>1, <3>1, <3>2, PendingFinite DEF QueueInv
  <2>. QED BY <1>3, <2>2, QueueShrinks DEF QueueInv
<1>4. CASE ~Enqueue /\ TickStep
  <2>0. PendingWithinQueueMax'
    BY <1>4, QueueShrinks
  <2>. USE DEF QueueInv, EngineInv, EngineTypeOK, TickType
  <2>1. CASE CheckOverlap
    BY <2>0, <2>1 DEF CheckOverlap
  <2>2. CASE CheckQueue
    <3>1. UNCHANGED runs
      BY <2>2 DEF CheckQueue, dbVars
    <3>2. /\ tick'.at = tick.at
          /\ tick'.pc \in {"full", "enqueue"}
          /\ tick'.pc = "enqueue" => ~(CountPending(ScriptOf[tick.at]) >= QueueMax[tick.at])
      BY <2>2 DEF CheckQueue
    <3>3. QueueMax[tick.at] \in Nat /\ CountPending(ScriptOf[tick.at]) \in Nat
      BY <2>2, EngineAssumption, PendingFinite DEF CheckQueue, Linked, TickLinked
    <3>4. CountPending(ScriptOf[tick.at])' = CountPending(ScriptOf[tick.at])
      BY <3>1, <3>2 DEF CountPending, RowsWith
    <3>. QED BY <2>0, <2>2, <3>2, <3>3, <3>4 DEF CheckQueue
  <2>3. CASE \/ BeginTick \/ RecordSkip \/ RecordDrop \/ CreateAndDispatch \/ PickRetries
             \/ Rerun \/ EndTick \/ \E s \in Schedule : AdvanceCursor(s)
             \/ \E r \in RunId : CheckRetry(r)
    <3>1. tick'.pc \notin {"count", "enqueue"}
      <4>1. CASE RecordSkip \/ RecordDrop \/ CreateAndDispatch
        BY <4>1 DEF RecordSkip, RecordDrop, CreateAndDispatch, BackToFire
      <4>2. CASE BeginTick \/ PickRetries
        BY <4>2 DEF BeginTick, PickRetries
      <4>4. CASE Rerun
        BY <4>4 DEF Rerun
      <4>5. CASE EndTick
        BY <4>5 DEF EndTick, Asleep
      <4>3. CASE (\E s \in Schedule : AdvanceCursor(s)) \/ \E r \in RunId : CheckRetry(r)
        BY <4>3 DEF AdvanceCursor, CheckRetry
      <4>. QED BY <2>3, <4>1, <4>2, <4>3, <4>4, <4>5
    <3>. QED BY <2>0, <3>1
  <2>. QED BY <1>4, <2>1, <2>2, <2>3 DEF TickStep
<1>. QED BY <1>1, <1>2, <1>3, <1>4, OnlyTickMoves

LEMMA QueueInit == Init => QueueInv
<1>. SUFFICES ASSUME Init PROVE QueueInv
  OBVIOUS
<1>1. \A s \in Script : RowsWith(s, "pending") = {}
  BY DEF Init, RowsWith, NoRow
<1>. QED BY <1>1 DEF Init, QueueInv, Asleep, PendingWithinQueueMax

\* The queue of a script never grows beyond the queue_max of one of its
\* queueing schedules, whatever finalizers, triggers and cancels come between
\* the count and the INSERT (scheduler/tick.py).
THEOREM QueueBounded == Spec => []PendingWithinQueueMax
<1>1. Init => QueueInv
  BY QueueInit
<1>2. (ExecTypeOK /\ EngineInv) /\ QueueInv /\ [Next]_vars => QueueInv'
  BY QueueStep
<1>3. QueueInv => PendingWithinQueueMax
  BY DEF QueueInv
<1>. QED BY <1>1, <1>2, <1>3, Always, PTL DEF Spec

-----------------------------------------------------------------------------
(* Who writes a row.  Finalizers write by id alone, so what a row says can *)
(* only be trusted if nobody else is going to write it.                    *)

\* What a row says after st was written: a cancel may come on top of it.
Shown(st) == IF Canceller = {} THEN {st} ELSE {st, "cancelled"}

\* The rows the tick has read in Phase 2 and is going to run again.
Targets == tick.retries \cup {tick.row}

\* A live task works for the script of its row, is past run_script when its
\* finalizer has moved on, which that of a triggered run never does, and
\* promotes rows of its own script, which queues.
JobOwned(t) ==
    /\ target[t] = runs[job[t].run].script
    /\ stage[t] # "over" \/ job[t].by = "api" => job[t].step = "result"
    /\ job[t].step = "flip" =>
          /\ runs[job[t].next].script = target[t]
          /\ ~NeverQueues(target[t])

\* A row of a script without a queue has one writer at most: one task, which
\* shows it as running, or the tick, which found it waiting for a retry.
Owned(r) ==
    NeverQueues(runs[r].script) =>
        /\ \A t, u \in Task : Carries(t, r) /\ Carries(u, r) => t = u
        /\ Carried(r) => runs[r].status \in Shown("running")
        /\ r \in Targets => ~Carried(r) /\ runs[r].status \in Shown("pending_retry")

JobsOwned == \A t \in Task : stage[t] # "idle" => JobOwned(t)
RowsOwned == \A r \in RunId : Owned(r)
TickAims ==
    /\ tick.pc # "rerun" => tick.row = NoRun
    /\ tick.row \notin tick.retries

OwnInv == JobsOwned /\ RowsOwned /\ TickAims

\* u goes on with the job it has, or ends.
Keeps(u) ==
    stage'[u] # "idle" =>
        /\ stage[u] # "idle"
        /\ stage[u] = "over" => stage'[u] = "over"
        /\ job'[u].by = job[u].by
        /\ job'[u].run = job[u].run
        /\ job'[u].step = job[u].step
        /\ job'[u].seen = job[u].seen
        /\ job'[u].next = job[u].next
        /\ target'[u] = target[u]

DispatchStep == CreateAndDispatch \/ Rerun \/ \E q \in Request : TriggerCreate(q)

\* What a dispatch changes.
LEMMA DispatchMoves ==
    ASSUME ExecTypeOK, EngineInv, NEW by, NEW r, NEW s, Dispatch(by, r, s)
    PROVE  /\ FreeTask \in Task
           /\ stage[FreeTask] = "idle"
           /\ stage'[FreeTask] = "slot"
           /\ target'[FreeTask] = s
           /\ job'[FreeTask] = NewJob(by, r)
           /\ \A u \in Task \ {FreeTask} : Keeps(u)
<1>1. FreeTask \in Task /\ stage[FreeTask] = "idle"
  BY FreeTaskIsIdle DEF Dispatch
<1>2. /\ stage' = [stage EXCEPT ![FreeTask] = "slot"]
      /\ target' = [target EXCEPT ![FreeTask] = s]
      /\ job' = [job EXCEPT ![FreeTask] = NewJob(by, r)]
  BY DEF Dispatch, Submit
<1>3. /\ DOMAIN stage = Task
      /\ DOMAIN target = Task
      /\ DOMAIN job = Task
  BY DEF ExecTypeOK, EngineInv, EngineTypeOK
<1>. QED BY <1>1, <1>2, <1>3 DEF Keeps

\* How the job of a task changes.
LEMMA TaskMoves ==
    ASSUME ExecTypeOK, EngineInv, [Next]_vars, NEW u \in Task
    PROVE  \/ Keeps(u)
           \/ ReadAttempt(u) \/ Finalize(u) \/ SelectPending(u) \/ Promote(u)
           \/ DispatchStep /\ u = FreeTask
<1>1. CASE UNCHANGED <<stage, target, job>>
  BY <1>1 DEF Keeps
<1>2. ASSUME NEW by, NEW r, NEW s, Dispatch(by, r, s), u # FreeTask
      PROVE  Keeps(u)
  BY <1>2, DispatchMoves
<1>3. CASE TickStep
  <2>1. CASE CreateAndDispatch \/ Rerun
    BY <1>2, <2>1 DEF CreateAndDispatch, Rerun, DispatchStep
  <2>. QED BY <1>1, <1>3, <2>1
           DEF TickStep, BeginTick, AdvanceCursor, CheckOverlap, RecordSkip, CheckQueue, RecordDrop,
               Enqueue, PickRetries, CheckRetry, EndTick, execVars
<1>4. ASSUME NEW t \in Task, TaskStep(t)
      PROVE  Keeps(u) \/ ReadAttempt(u) \/ Finalize(u) \/ SelectPending(u) \/ Promote(u)
  <2>1. CASE Acquire(t) \/ Raise(t) \/ Provision(t) \/ ProcessEnds(t) \/ LoseProcess(t) \/ GiveBack(t)
    <3>1. UNCHANGED <<job, target>>
      BY <2>1 DEF Acquire, Raise, Provision, ProcessEnds, LoseProcess, GiveBack, TakeSlot, TakeLock,
         RunScriptRaises, SetupFails, SpawnProcess, ProcessExits, SupervisionFails, Release, restVars
    <3>2. stage'[u] # "idle" => stage[u] # "idle" /\ (stage[u] = "over" => stage'[u] = "over")
      BY <2>1 DEF Acquire, Raise, Provision, ProcessEnds, LoseProcess, GiveBack, TakeSlot, TakeLock,
         RunScriptRaises, SetupFails, SpawnProcess, ProcessExits, SupervisionFails, Release, ExecTypeOK
    <3>. QED BY <3>1, <3>2 DEF Keeps
  <2>2. CASE FinalizerFails(t) \/ FinalizeTriggered(t) \/ MarkPendingRetry(t) \/ NothingPending(t)
    BY <2>2 DEF FinalizerFails, FinalizeTriggered, MarkPendingRetry, NothingPending, EndJob, Retire,
                Keeps, ExecTypeOK, EngineInv, EngineTypeOK
  <2>3. CASE t # u /\ (ReadAttempt(t) \/ Finalize(t) \/ SelectPending(t) \/ Promote(t))
    BY <2>3 DEF ReadAttempt, Finalize, SelectPending, Promote, Chain, Keeps, ExecTypeOK, EngineInv,
                EngineTypeOK, execVars
  <2>. QED BY <1>4, <2>1, <2>2, <2>3 DEF TaskStep, Finish
<1>5. CASE RequestStep
  <2>1. ASSUME NEW q \in Request, TriggerCreate(q)
        PROVE  Keeps(u) \/ (DispatchStep /\ u = FreeTask)
    BY <1>2, <2>1 DEF TriggerCreate, DispatchStep
  <2>2. ASSUME NEW c \in Canceller, CancelSignal(c)
        PROVE  Keeps(u)
    <3>1. Registered(u) => job[u] \in JobType
      BY DEF Registered, EngineInv, Linked, JobLinked
    <3>2. /\ job'[u].by = job[u].by
          /\ job'[u].run = job[u].run
          /\ job'[u].step = job[u].step
          /\ job'[u].seen = job[u].seen
          /\ job'[u].next = job[u].next
      BY <2>2, <3>1 DEF CancelSignal, JobType
    <3>3. UNCHANGED <<stage, target>>
      BY <2>2 DEF CancelSignal, execVars
    <3>. QED BY <3>2, <3>3 DEF Keeps
  <2>. QED BY <1>1, <1>5, <2>1, <2>2
           DEF RequestStep, TriggerCheck, CancelRead, CancelWrite, execVars
<1>6. CASE ClockMoves \/ (\E r \in RunId : BackoffElapses(r)) \/ TickFails
           \/ (\E s \in Script : LoseStray(s)) \/ UNCHANGED vars
  BY <1>1, <1>6 DEF ClockMoves, BackoffElapses, TickFails, LoseStray, StrayEnds, restVars, vars, execVars
<1>7. CASE \E S \in SUBSET Script : Crash(S)
  BY <1>7 DEF Crash, ExecCrash, Keeps
<1>. QED BY <1>3, <1>4, <1>5, <1>6, <1>7 DEF Next

\* A task that goes on with its job, or ends, takes no row up.
LEMMA KeepsCarries ==
    ASSUME NEW u, Keeps(u), NEW r, Carries(u, r)'
    PROVE  Carries(u, r)
BY DEF Keeps, Carries

LEMMA DispatchCarries ==
    ASSUME ExecTypeOK, EngineInv, NEW by, NEW r, NEW s, Dispatch(by, r, s),
           NEW u \in Task, NEW q, Carries(u, q)'
    PROVE  Carries(u, q) \/ (u = FreeTask /\ q = r)
<1>1. CASE u = FreeTask
  <2>1. job'[u] = NewJob(by, r)
    BY <1>1, DispatchMoves
  <2>2. job'[u].run = r
    BY <2>1 DEF NewJob
  <2>. QED BY <1>1, <2>2 DEF Carries
<1>2. CASE u # FreeTask
  <2>1. Keeps(u)
    BY <1>2, DispatchMoves
  <2>. QED BY <2>1, KeepsCarries
<1>. QED BY <1>1, <1>2

\* The jobs.  A row keeps its script, so a task that goes on stays true to it.
LEMMA JobsStep ==
    ASSUME ExecTypeOK, EngineInv, QueueInv, OwnInv, [Next]_vars
    PROVE  JobsOwned'
<1>. SUFFICES ASSUME NEW u \in Task, stage'[u] # "idle"
              PROVE  JobOwned(u)'
  BY DEF JobsOwned
<1>0. stage[u] # "idle" =>
          /\ JobOwned(u)
          /\ JobLinked(u)
          /\ runs'[job[u].run].script = runs[job[u].run].script
          /\ job[u].step = "flip" => runs'[job[u].next].script = runs[job[u].next].script
  BY OriginKept DEF OwnInv, JobsOwned, EngineInv, Linked, JobLinked
<1>1. CASE Keeps(u)
  BY <1>0, <1>1 DEF Keeps, JobOwned, NeverQueues
<1>2. CASE ReadAttempt(u) \/ Finalize(u)
  <2>1. /\ stage[u] = "over"
        /\ UNCHANGED <<stage, target>>
        /\ job[u] \in JobType
    BY <1>0, <1>2 DEF ReadAttempt, Finalize, execVars, JobLinked
  <2>2. /\ job'[u].run = job[u].run
        /\ job'[u].by = job[u].by
        /\ job'[u].step \in {"attempt", "drain"}
    BY <1>2, <2>1 DEF ReadAttempt, Finalize, EngineInv, EngineTypeOK, JobType
  <2>3. job[u].by # "api"
    BY <1>0, <1>2, <2>1 DEF ReadAttempt, Finalize, JobOwned
  <2>. QED BY <1>0, <2>1, <2>2, <2>3 DEF JobOwned
<1>3. CASE SelectPending(u)
  <2>. DEFINE next == OldestPending(target[u])
  <2>1. /\ stage[u] = "over"
        /\ UNCHANGED <<stage, target, runs>>
        /\ job[u] \in JobType
    BY <1>0, <1>3 DEF SelectPending, execVars, dbVars, JobLinked
  <2>2. /\ job'[u].run = job[u].run
        /\ job'[u].by = job[u].by
        /\ job'[u].next = next
    BY <1>3, <2>1 DEF SelectPending, EngineInv, EngineTypeOK, JobType
  <2>3. runs[next].script = target[u]
    BY <1>3, OldestExists DEF SelectPending, RowsWith
  <2>4. target[u] \in Script
    BY <1>0, <2>1 DEF JobOwned, JobLinked, Rows, EngineInv, EngineTypeOK, RowType, NoRow
  <2>5. ~NeverQueues(target[u])
    BY <1>3, <2>4 DEF SelectPending, QueueInv, PendingWithinQueueMax, NeverQueues
  <2>6. job[u].by # "api"
    BY <1>0, <1>3, <2>1 DEF SelectPending, JobOwned
  <2>. QED BY <1>0, <2>1, <2>2, <2>3, <2>5, <2>6 DEF JobOwned, NeverQueues
<1>4. CASE Promote(u)
  <2>1. /\ stage'[u] = "slot"
        /\ UNCHANGED target
        /\ job'[u] = NewJob("drain", job[u].next)
    BY <1>4 DEF Promote, Chain, ExecTypeOK, EngineInv, EngineTypeOK
  <2>2. stage[u] # "idle" /\ job[u].step = "flip"
    BY <1>4 DEF Promote
  <2>. QED BY <1>0, <2>1, <2>2 DEF JobOwned, NewJob
<1>5. CASE DispatchStep /\ u = FreeTask
  <2>1. ASSUME NEW by, NEW r, NEW s, Dispatch(by, r, s), runs'[r].script = s
        PROVE  JobOwned(u)'
    <3>1. target'[u] = s /\ job'[u] = NewJob(by, r)
      BY <1>5, <2>1, DispatchMoves
    <3>2. job'[u].run = r /\ job'[u].step = "result"
      BY <3>1 DEF NewJob
    <3>. QED BY <2>1, <3>1, <3>2 DEF JobOwned
  <2>2. runs \in [RunId -> RowType \cup {NoRow}]
    BY DEF EngineInv, EngineTypeOK
  <2>3. CASE CreateAndDispatch
    <3>1. PICK r \in RunId :
              /\ runs' = [runs EXCEPT ![r] = NewRow(ScriptOf[tick.at], tick.at, "running")]
              /\ Dispatch("tick", r, ScriptOf[tick.at])
      BY <2>3 DEF CreateAndDispatch
    <3>. QED BY <2>1, <2>2, <3>1 DEF NewRow
  <2>4. CASE Rerun
    <3>1. tick.row \in Rows
      BY <2>4 DEF Rerun, EngineInv, Linked, TickLinked
    <3>2. runs'[tick.row].script = runs[tick.row].script
      BY <3>1, OriginKept
    <3>. QED BY <2>1, <2>4, <3>2 DEF Rerun
  <2>5. ASSUME NEW q \in Request, TriggerCreate(q)
        PROVE  JobOwned(u)'
    <3>1. PICK r \in RunId :
              /\ runs' = [runs EXCEPT ![r] = NewRow(trigger[q].script, NoSchedule, "running")]
              /\ Dispatch("api", r, trigger[q].script)
      BY <2>5 DEF TriggerCreate
    <3>. QED BY <2>1, <2>2, <3>1 DEF NewRow
  <2>. QED BY <1>5, <2>3, <2>4, <2>5 DEF DispatchStep
<1>. QED BY <1>1, <1>2, <1>3, <1>4, <1>5, TaskMoves

\* What the tick aims at.
LEMMA AimsStep ==
    ASSUME EngineInv, OwnInv, [Next]_vars
    PROVE  TickAims'
<1>1. CASE tick' = tick
  BY <1>1 DEF OwnInv, TickAims
<1>2. CASE tick' = Asleep
  BY <1>2 DEF TickAims, Asleep
<1>3. CASE TickStep
  <2>1. tick \in TickType /\ TickAims /\ NoRun \notin RunId
    BY EngineAssumption DEF EngineInv, EngineTypeOK, OwnInv
  <2>2. CASE BeginTick \/ CheckOverlap \/ CheckQueue \/ RecordSkip \/ RecordDrop \/ Enqueue
             \/ CreateAndDispatch
    <3>1. tick.pc # "rerun" /\ tick'.row = tick.row /\ tick'.retries = tick.retries
      BY <2>1, <2>2 DEF BeginTick, CheckOverlap, CheckQueue, RecordSkip, RecordDrop, Enqueue,
                        CreateAndDispatch, BackToFire, TickType
    <3>. QED BY <2>1, <3>1 DEF TickAims
  <2>3. ASSUME NEW s \in Schedule, AdvanceCursor(s)
        PROVE  TickAims'
    BY <2>1, <2>3 DEF AdvanceCursor, TickType, TickAims
  <2>4. CASE PickRetries
    BY <2>1, <2>4 DEF PickRetries, TickType, TickAims
  <2>5. ASSUME NEW r \in RunId, CheckRetry(r)
        PROVE  TickAims'
    BY <2>1, <2>5 DEF CheckRetry, TickType, TickAims
  <2>6. CASE Rerun
    BY <2>1, <2>6 DEF Rerun, TickType, TickAims
  <2>7. CASE EndTick
    BY <2>7 DEF EndTick, Asleep, TickAims
  <2>. QED BY <1>3, <2>2, <2>3, <2>4, <2>5, <2>6, <2>7 DEF TickStep
<1>. QED BY <1>1, <1>2, <1>3, OnlyTickMoves

\* A row whose columns stay, that nobody takes up.
LEMMA OwnedKept ==
    ASSUME NEW r \in RunId, Owned(r),
           runs'[r].script = runs[r].script, runs'[r].status = runs[r].status,
           \A u \in Task : Carries(u, r)' => Carries(u, r),
           r \in Targets' => r \in Targets
    PROVE  Owned(r)'
<1>. SUFFICES ASSUME NeverQueues(runs[r].script)
              PROVE  Owned(r)'
  BY DEF Owned, NeverQueues
<1>1. Carried(r)' => Carried(r)
  BY DEF Carried
<1>. QED BY <1>1 DEF Owned, Shown

\* A step that writes no row, where nobody takes a row up.
LEMMA RowsOwnedKept ==
    ASSUME RowsOwned, runs' = runs, Targets' \cap RunId \subseteq Targets,
           \A u \in Task, r \in RunId : Carries(u, r)' => Carries(u, r)
    PROVE  RowsOwned'
BY OwnedKept DEF RowsOwned

\* A row that no task carries and the tick does not aim at is nobody's.
LEMMA OwnedByNobody ==
    ASSUME NEW r \in RunId, \A u \in Task : ~Carries(u, r)', r \notin Targets'
    PROVE  Owned(r)'
BY DEF Owned, Carried

\* A task that is past run_script gives its row up when it writes it.
LEMMA OwnedGivenUp ==
    ASSUME ExecTypeOK, EngineInv, OwnInv, NEW t \in Task,
           FinalizeTriggered(t) \/ MarkPendingRetry(t) \/ Finalize(t)
    PROVE  RowsOwned'
<1>. SUFFICES ASSUME NEW r \in RunId
              PROVE  Owned(r)'
  BY DEF RowsOwned
<1>1. stage[t] = "over" /\ tick' = tick
  BY DEF FinalizeTriggered, MarkPendingRetry, Finalize
<1>2. JobLinked(t) /\ JobOwned(t)
  BY <1>1 DEF EngineInv, Linked, OwnInv, JobsOwned
<1>3. job[t].run \in Rows /\ Carries(t, job[t].run)
  <2>1. job[t].step \in {"result", "attempt"}
    BY <1>2 DEF FinalizeTriggered, MarkPendingRetry, Finalize, JobOwned
  <2>. QED BY <1>1, <1>2, <2>1 DEF JobLinked, Carries
<1>4. \A u \in Task : Carries(u, r)' => Carries(u, r) /\ u # t
  <2>1. CASE FinalizeTriggered(t) \/ MarkPendingRetry(t)
    BY <2>1 DEF FinalizeTriggered, MarkPendingRetry, EndJob, Retire, Carries, ExecTypeOK, EngineInv,
                EngineTypeOK
  <2>2. CASE Finalize(t)
    <3>1. job'[t].step = "drain" /\ stage' = stage
      BY <1>2, <2>2 DEF Finalize, EngineInv, EngineTypeOK, JobLinked, JobType, execVars
    <3>2. \A u \in Task \ {t} : job'[u] = job[u]
      BY <2>2 DEF Finalize, EngineInv, EngineTypeOK
    <3>. QED BY <3>1, <3>2 DEF Carries
  <2>. QED BY <2>1, <2>2
<1>5. r = job[t].run \/ runs'[r] = runs[r]
  BY DEF FinalizeTriggered, MarkPendingRetry, Finalize, SetStatus, EngineInv, EngineTypeOK
<1>6. CASE r = job[t].run /\ NeverQueues(runs[r].script)
  <2>1. Carried(r)
    BY <1>3, <1>6 DEF Carried
  <2>2. r \notin Targets
    BY <1>6, <2>1 DEF OwnInv, RowsOwned, Owned
  <2>3. \A u \in Task : ~Carries(u, r)'
    BY <1>3, <1>4, <1>6 DEF OwnInv, RowsOwned, Owned
  <2>. QED BY <1>1, <2>2, <2>3, OwnedByNobody DEF Targets
<1>7. CASE r = job[t].run /\ ~NeverQueues(runs[r].script)
  <2>1. runs'[r].script = runs[r].script
    BY <1>3, <1>7
       DEF FinalizeTriggered, MarkPendingRetry, Finalize, SetStatus, EngineInv, EngineTypeOK, Rows,
           RowType, NoRow
  <2>. QED BY <1>7, <2>1 DEF Owned, NeverQueues
<1>8. CASE runs'[r] = runs[r]
  BY <1>1, <1>4, <1>8, OwnedKept DEF OwnInv, RowsOwned, Targets
<1>. QED BY <1>5, <1>6, <1>7, <1>8

\* A row that was not there before is carried by the task it was inserted for.
LEMMA OwnedInserted ==
    ASSUME ExecTypeOK, EngineInv, QueueInv, OwnInv, InsertStep
    PROVE  RowsOwned'
<1>0. runs \in [RunId -> RowType \cup {NoRow}]
  BY DEF EngineInv, EngineTypeOK
<1>1. ASSUME NEW q \in RunId, NextId(q)
      PROVE  (\A u \in Task : ~Carries(u, q)) /\ q \notin Targets
  <2>1. q \notin Rows
    BY <1>1 DEF NextId, Rows
  <2>2. tick.row # q
    BY <2>1, <1>1, EngineAssumption DEF EngineInv, Linked, TickLinked, OwnInv, TickAims
  <2>. QED BY <2>1, <2>2 DEF EngineInv, Linked, JobLinked, TickLinked, Carries, Targets
<1>2. ASSUME NEW q \in RunId, NextId(q), NEW by, NEW s, NEW sc, NEW r \in RunId,
             runs' = [runs EXCEPT ![q] = NewRow(s, sc, "running")],
             Dispatch(by, q, s), Targets' = Targets
      PROVE  Owned(r)'
  <2>1. \A u \in Task : Carries(u, r)' => Carries(u, r) \/ (u = FreeTask /\ r = q)
    BY <1>2, DispatchCarries
  <2>2. CASE r = q
    <3>1. \A u \in Task : Carries(u, r)' => u = FreeTask
      BY <1>1, <1>2, <2>1, <2>2
    <3>2. runs'[r].status \in Shown("running")
      BY <1>0, <1>2, <2>2 DEF NewRow, Shown
    <3>3. r \notin Targets'
      BY <1>1, <1>2, <2>2
    <3>. QED BY <3>1, <3>2, <3>3 DEF Owned, Shown
  <2>3. CASE r # q
    BY <1>0, <1>2, <2>1, <2>3, OwnedKept DEF OwnInv, RowsOwned
  <2>. QED BY <2>2, <2>3
<1>3. CASE CreateAndDispatch
  <2>1. PICK q \in RunId : /\ NextId(q)
                           /\ runs' = [runs EXCEPT ![q] = NewRow(ScriptOf[tick.at], tick.at, "running")]
                           /\ Dispatch("tick", q, ScriptOf[tick.at])
    BY <1>3 DEF CreateAndDispatch
  <2>2. Targets' = Targets
    BY <1>3 DEF CreateAndDispatch, BackToFire, Targets, EngineInv, EngineTypeOK, TickType
  <2>. QED BY <1>2, <2>1, <2>2 DEF RowsOwned
<1>4. ASSUME NEW p \in Request, TriggerCreate(p)
      PROVE  RowsOwned'
  <2>1. PICK q \in RunId : /\ NextId(q)
                           /\ runs' = [runs EXCEPT ![q] = NewRow(trigger[p].script, NoSchedule, "running")]
                           /\ Dispatch("api", q, trigger[p].script)
    BY <1>4 DEF TriggerCreate
  <2>2. Targets' = Targets
    BY <1>4 DEF TriggerCreate, Targets
  <2>. QED BY <1>2, <2>1, <2>2 DEF RowsOwned
<1>5. CASE RecordSkip \/ RecordDrop \/ Enqueue
  <2>1. PICK q \in RunId, st \in {"skipped", "pending"} :
             /\ NextId(q)
             /\ runs' = [runs EXCEPT ![q] = NewRow(ScriptOf[tick.at], tick.at, st)]
    BY <1>5 DEF RecordSkip, RecordDrop, Enqueue, InsertFire
  <2>2. Targets' = Targets /\ UNCHANGED <<stage, job>>
    BY <1>5 DEF RecordSkip, RecordDrop, Enqueue, BackToFire, Targets, EngineInv, EngineTypeOK,
                TickType, execVars
  <2>3. \A u \in Task, r \in RunId : Carries(u, r)' = Carries(u, r)
    BY <2>2 DEF Carries
  <2>4. ASSUME NEW r \in RunId
        PROVE  Owned(r)'
    <3>1. CASE r = q
      BY <1>1, <2>1, <2>2, <2>3, <3>1, OwnedByNobody
    <3>2. CASE r # q
      BY <1>0, <2>1, <2>2, <2>3, <3>2, OwnedKept DEF OwnInv, RowsOwned
    <3>. QED BY <3>1, <3>2
  <2>. QED BY <2>4 DEF RowsOwned
<1>. QED BY <1>3, <1>4, <1>5 DEF InsertStep

\* The tick takes up a row it found waiting for a retry, whatever it says by
\* now, and no task writes it.
LEMMA OwnedRerun ==
    ASSUME ExecTypeOK, EngineInv, OwnInv, Rerun
    PROVE  RowsOwned'
<1>. SUFFICES ASSUME NEW r \in RunId
              PROVE  Owned(r)'
  BY DEF RowsOwned
<1>1. /\ tick.pc = "rerun"
      /\ tick.row \in RunId
      /\ runs[tick.row] \in RowType
      /\ runs' = [runs EXCEPT ![tick.row] = [runs[tick.row] EXCEPT !.status = "running",
                                                   !.starts = runs[tick.row].starts + 1]]
  <2>1. tick.pc = "rerun" /\ TakeUp(tick.row)
    BY DEF Rerun
  <2>2. tick.row \in Rows
    BY <2>1 DEF EngineInv, Linked, TickLinked
  <2>3. tick.row \in RunId /\ runs[tick.row] \in RowType
    BY <2>2 DEF EngineInv, EngineTypeOK, Rows, NoRow
  <2>4. runs' = [runs EXCEPT ![tick.row] = [runs[tick.row] EXCEPT !.status = "running",
                                                   !.starts = runs[tick.row].starts + 1]]
    BY <2>1 DEF TakeUp
  <2>. QED BY <2>1, <2>3, <2>4
<1>2. /\ tick'.retries = tick.retries
      /\ tick'.row = NoRun
      /\ NoRun \notin RunId
  BY EngineAssumption DEF Rerun, EngineInv, EngineTypeOK, TickType
<1>3. \A u \in Task : Carries(u, r)' => Carries(u, r) \/ (u = FreeTask /\ r = tick.row)
  BY DispatchCarries DEF Rerun
<1>4. CASE r = tick.row /\ NeverQueues(runs[r].script)
  <2>1. \A u \in Task : ~Carries(u, r)
    BY <1>4 DEF OwnInv, RowsOwned, Owned, Targets, Carried
  <2>2. \A u \in Task : Carries(u, r)' => u = FreeTask
    BY <1>3, <2>1
  <2>3. runs'[r].status \in Shown("running")
    BY <1>1, <1>4 DEF Shown, EngineInv, EngineTypeOK, RowType
  <2>4. r \notin Targets'
    BY <1>2, <1>4 DEF Targets, OwnInv, TickAims
  <2>. QED BY <2>2, <2>3, <2>4 DEF Owned, Shown
<1>5. CASE r = tick.row /\ ~NeverQueues(runs[r].script)
  <2>1. runs'[r].script = runs[r].script
    BY <1>1, <1>5 DEF EngineInv, EngineTypeOK, RowType
  <2>. QED BY <1>5, <2>1 DEF Owned, NeverQueues
<1>6. CASE r # tick.row
  <2>1. runs'[r] = runs[r]
    BY <1>1, <1>6 DEF EngineInv, EngineTypeOK
  <2>2. r \in Targets' => r \in Targets
    BY <1>2 DEF Targets
  <2>. QED BY <1>3, <1>6, <2>1, <2>2, OwnedKept DEF OwnInv, RowsOwned
<1>. QED BY <1>4, <1>5, <1>6

\* A promoted row is of a script that queues.
LEMMA OwnedPromoted ==
    ASSUME ExecTypeOK, EngineInv, OwnInv, NEW t \in Task, Promote(t)
    PROVE  RowsOwned'
<1>. SUFFICES ASSUME NEW r \in RunId
              PROVE  Owned(r)'
  BY DEF RowsOwned
<1>1. JobLinked(t) /\ JobOwned(t) /\ job[t].step = "flip"
  BY DEF Promote, EngineInv, Linked, OwnInv, JobsOwned
<1>2. job[t].next \in RunId /\ runs[job[t].next] \in RowType
  BY <1>1 DEF JobLinked, Rows, EngineInv, EngineTypeOK, NoRow
<1>3. CASE r = job[t].next
  <2>1. runs'[r].script = runs[r].script
    BY <1>2, <1>3 DEF Promote, TakeUp, EngineInv, EngineTypeOK, RowType
  <2>. QED BY <1>1, <1>3, <2>1 DEF JobOwned, Owned, NeverQueues
<1>4. CASE r # job[t].next
  <2>1. runs'[r] = runs[r]
    BY <1>2, <1>4 DEF Promote, TakeUp, EngineInv, EngineTypeOK
  <2>2. ASSUME NEW u \in Task, Carries(u, r)'
        PROVE  Carries(u, r)
    <3>1. job'[t].run = job[t].next
      BY DEF Promote, NewJob, EngineInv, EngineTypeOK
    <3>2. u # t
      BY <1>4, <2>2, <3>1 DEF Carries
    <3>3. job'[u] = job[u] /\ stage'[u] = stage[u]
      BY <3>2 DEF Promote, Chain, EngineInv, EngineTypeOK, ExecTypeOK
    <3>. QED BY <2>2, <3>3 DEF Carries
  <2>3. Targets' = Targets
    BY DEF Promote, Targets
  <2>. QED BY <2>1, <2>2, <2>3, OwnedKept DEF OwnInv, RowsOwned
<1>. QED BY <1>3, <1>4

\* A cancel adds nothing but what a row may say anyway.
LEMMA OwnedCancelled ==
    ASSUME ExecTypeOK, EngineInv, OwnInv, NEW c \in Canceller, CancelWrite(c)
    PROVE  RowsOwned'
<1>. SUFFICES ASSUME NEW r \in RunId
              PROVE  Owned(r)'
  BY DEF RowsOwned
<1>1. cancel[c].run \in RunId /\ runs[cancel[c].run] \in RowType
  BY DEF CancelWrite, EngineInv, EngineTypeOK, Linked, RequestsLinked, Rows, NoRow
<1>2. runs'[r].script = runs[r].script /\ runs'[r].status \in {runs[r].status, "cancelled"}
  BY <1>1 DEF CancelWrite, SetStatus, EngineInv, EngineTypeOK, RowType
<1>3. UNCHANGED <<stage, job, tick>>
  BY DEF CancelWrite, execVars
<1>4. \A u \in Task : Carries(u, r)' = Carries(u, r)
  BY <1>3 DEF Carries
<1>5. Carried(r)' = Carried(r) /\ Targets' = Targets
  BY <1>3, <1>4 DEF Carried, Targets
<1>6. Owned(r)
  BY DEF OwnInv, RowsOwned
<1>7. CASE NeverQueues(runs[r].script)
  BY <1>2, <1>4, <1>5, <1>6, <1>7 DEF Owned, Shown
<1>8. CASE ~NeverQueues(runs[r].script)
  BY <1>2, <1>8 DEF Owned, NeverQueues
<1>. QED BY <1>7, <1>8

\* The tick reads rows that wait for a retry, which no task carries.
LEMMA OwnedPicked ==
    ASSUME EngineInv, OwnInv, PickRetries
    PROVE  RowsOwned'
<1>. SUFFICES ASSUME NEW r \in RunId
              PROVE  Owned(r)'
  BY DEF RowsOwned
<1>1. UNCHANGED <<stage, job, runs>>
  BY DEF PickRetries, execVars, dbVars
<1>2. \A u \in Task : Carries(u, r)' = Carries(u, r)
  BY <1>1 DEF Carries
<1>3. tick'.row = tick.row /\ \A q \in tick'.retries : runs[q].status = "pending_retry"
  BY DEF PickRetries, EngineInv, EngineTypeOK, TickType
<1>4. CASE r \in tick'.retries /\ NeverQueues(runs[r].script)
  <2>1. runs[r].status = "pending_retry"
    BY <1>3, <1>4
  <2>2. ~Carried(r)
    BY <1>4, <2>1 DEF OwnInv, RowsOwned, Owned, Shown
  <2>3. \A u \in Task : ~Carries(u, r)'
    BY <1>2, <2>2 DEF Carried
  <2>4. runs'[r].status \in Shown("pending_retry")
    BY <1>1, <2>1 DEF Shown
  <2>. QED BY <2>3, <2>4 DEF Owned, Carried
<1>5. CASE r \in tick'.retries /\ ~NeverQueues(runs[r].script)
  BY <1>1, <1>5 DEF Owned, NeverQueues
<1>6. CASE r \notin tick'.retries
  BY <1>1, <1>2, <1>3, <1>6, OwnedKept DEF OwnInv, RowsOwned, Targets
<1>. QED BY <1>4, <1>5, <1>6

LEMMA RowsOwnedStep ==
    ASSUME ExecTypeOK, EngineInv, QueueInv, OwnInv, [Next]_vars
    PROVE  RowsOwned'
<1>0. RowsOwned
  BY DEF OwnInv
<1>1. CASE UNCHANGED <<stage, job, tick, runs>>
  BY <1>0, <1>1, RowsOwnedKept DEF Carries, Targets
<1>2. CASE TickStep
  <2>1. CASE InsertStep \/ Rerun \/ PickRetries
    BY <2>1, OwnedInserted, OwnedRerun, OwnedPicked
  <2>2. ASSUME UNCHANGED <<stage, job, runs>>, Targets' \cap RunId \subseteq Targets
        PROVE  RowsOwned'
    BY <1>0, <2>2, RowsOwnedKept DEF Carries
  <2>. USE DEF Targets, EngineInv, EngineTypeOK, TickType, execVars, dbVars
  <2>3. CASE BeginTick \/ CheckOverlap \/ CheckQueue
    BY <2>2, <2>3 DEF BeginTick, CheckOverlap, CheckQueue
  <2>4. ASSUME NEW s \in Schedule, AdvanceCursor(s)
        PROVE  RowsOwned'
    BY <2>2, <2>4 DEF AdvanceCursor
  <2>5. ASSUME NEW r \in RunId, CheckRetry(r)
        PROVE  RowsOwned'
    BY <2>2, <2>5 DEF CheckRetry
  <2>6. CASE EndTick
    BY <2>2, <2>6, EngineAssumption DEF EndTick, Asleep
  <2>. QED BY <1>2, <2>1, <2>3, <2>4, <2>5, <2>6 DEF TickStep, InsertStep
<1>3. ASSUME NEW t \in Task, TaskStep(t)
      PROVE  RowsOwned'
  <2>1. CASE FinalizeTriggered(t) \/ MarkPendingRetry(t) \/ Finalize(t) \/ Promote(t)
    BY <2>1, OwnedGivenUp, OwnedPromoted
  <2>2. CASE Acquire(t) \/ Raise(t) \/ Provision(t) \/ ProcessEnds(t) \/ LoseProcess(t) \/ GiveBack(t)
    <3>1. \A u \in Task : stage'[u] # "idle" => stage[u] # "idle"
      BY <2>2 DEF Acquire, Raise, Provision, ProcessEnds, LoseProcess, GiveBack, TakeSlot, TakeLock,
         RunScriptRaises, SetupFails, SpawnProcess, ProcessExits, SupervisionFails, Release, ExecTypeOK
    <3>2. UNCHANGED <<job, runs, tick>>
      BY <2>2 DEF Acquire, Raise, Provision, ProcessEnds, LoseProcess, GiveBack, restVars, dbVars
    <3>. QED BY <1>0, <3>1, <3>2, RowsOwnedKept DEF Carries, Targets
  <2>3. CASE FinalizerFails(t) \/ NothingPending(t)
    <3>1. UNCHANGED <<runs, tick>>
      BY <2>3 DEF FinalizerFails, NothingPending, dbVars
    <3>2. \A u \in Task, r \in RunId : Carries(u, r)' => Carries(u, r)
      BY <2>3 DEF FinalizerFails, NothingPending, EndJob, Retire, Carries, ExecTypeOK, EngineInv,
                  EngineTypeOK
    <3>. QED BY <1>0, <3>1, <3>2, RowsOwnedKept DEF Targets
  <2>4. CASE ReadAttempt(t) \/ SelectPending(t)
    <3>1. UNCHANGED <<stage, runs, tick>> /\ job[t] \in JobType
      BY <2>4 DEF ReadAttempt, SelectPending, EngineInv, Linked, JobLinked, execVars, dbVars
    <3>2. \A u \in Task \ {t} : job'[u] = job[u]
      BY <2>4 DEF ReadAttempt, SelectPending, EngineInv, EngineTypeOK
    <3>3. job'[t].step = "flip" \/ (job'[t].run = job[t].run /\ job[t].step = "result")
      BY <2>4, <3>1 DEF ReadAttempt, SelectPending, EngineInv, EngineTypeOK, JobType
    <3>4. \A u \in Task, r \in RunId : Carries(u, r)' => Carries(u, r)
      BY <3>1, <3>2, <3>3 DEF Carries
    <3>. QED BY <1>0, <3>1, <3>4, RowsOwnedKept DEF Targets
  <2>. QED BY <1>3, <2>1, <2>2, <2>3, <2>4 DEF TaskStep, Finish
<1>4. CASE RequestStep
  <2>1. CASE \E q \in Request : TriggerCreate(q)
    BY <2>1, OwnedInserted DEF InsertStep
  <2>2. CASE \E c \in Canceller : CancelWrite(c)
    BY <2>2, OwnedCancelled
  <2>3. ASSUME NEW c \in Canceller, CancelSignal(c)
        PROVE  RowsOwned'
    <3>1. \A u \in Task : Registered(u) => job[u] \in JobType
      BY DEF Registered, EngineInv, Linked, JobLinked
    <3>2. \A u \in Task : job'[u].run = job[u].run /\ job'[u].step = job[u].step
      BY <2>3, <3>1 DEF CancelSignal, JobType
    <3>3. UNCHANGED <<stage, runs, tick>>
      BY <2>3 DEF CancelSignal, execVars, dbVars
    <3>. QED BY <1>0, <3>2, <3>3, RowsOwnedKept DEF Carries, Targets
  <2>. QED BY <1>1, <1>4, <2>1, <2>2, <2>3
           DEF RequestStep, TriggerCheck, CancelRead, execVars, dbVars
<1>5. ASSUME NEW q \in RunId, BackoffElapses(q)
      PROVE  RowsOwned'
  <2>1. runs[q] \in RowType /\ runs' = [runs EXCEPT ![q] = [runs[q] EXCEPT !.ripe = TRUE]]
    BY <1>5 DEF BackoffElapses, EngineInv, EngineTypeOK, NoRow
  <2>2. \A r \in RunId : runs'[r].script = runs[r].script /\ runs'[r].status = runs[r].status
    BY <2>1 DEF EngineInv, EngineTypeOK, RowType
  <2>3. UNCHANGED <<stage, job, tick>>
    BY <1>5 DEF BackoffElapses, execVars
  <2>. QED BY <1>0, <2>2, <2>3, OwnedKept DEF RowsOwned, Carries, Targets
<1>6. CASE ClockMoves \/ (\E s \in Script : LoseStray(s)) \/ UNCHANGED vars
  BY <1>1, <1>6 DEF ClockMoves, LoseStray, StrayEnds, restVars, vars, execVars, dbVars
<1>7. CASE TickFails \/ \E S \in SUBSET Script : Crash(S)
  <2>1. runs' = runs /\ tick' = Asleep
    BY <1>7 DEF TickFails, Crash, dbVars
  <2>2. \A u \in Task, r \in RunId : Carries(u, r)' => Carries(u, r)
    BY <1>7 DEF TickFails, Crash, ExecCrash, Carries, execVars
  <2>3. Targets' \cap RunId = {}
    BY <2>1, EngineAssumption DEF Targets, Asleep
  <2>. QED BY <1>0, <2>1, <2>2, <2>3, RowsOwnedKept
<1>. QED BY <1>2, <1>3, <1>4, <1>5, <1>6, <1>7 DEF Next

LEMMA OwnInit == Init => QueueInv /\ OwnInv
<1>. SUFFICES ASSUME Init PROVE QueueInv /\ OwnInv
  OBVIOUS
<1>1. QueueInv
  BY QueueInit
<1>2. \A u \in Task : stage[u] = "idle"
  BY DEF Init, ExecInit
<1>3. \A r \in RunId : r \notin Targets
  BY EngineAssumption DEF Init, Asleep, Targets
<1>. QED BY <1>1, <1>2, <1>3 DEF Init, Asleep, OwnInv, JobsOwned, RowsOwned, TickAims, Owned, Carried, Carries

LEMMA AlwaysOwned == Spec => [](ExecTypeOK /\ EngineInv /\ QueueInv /\ OwnInv)
<1>1. (ExecTypeOK /\ EngineInv) /\ (QueueInv /\ OwnInv) /\ [Next]_vars => (QueueInv /\ OwnInv)'
  BY QueueStep, JobsStep, RowsOwnedStep, AimsStep DEF OwnInv
<1>. QED BY <1>1, OwnInit, Always, PTL DEF Spec

\* While a task is inside run_script for a script without a queue, its row
\* shows it as running or cancelled, although the tick's retries and the
\* finalizers of other tasks write rows by id alone (scheduler/tick.py,
\* api/runs.py).
THEOREM VisibleProcess == Spec => []ProcessVisible
<1>1. OwnInv /\ EngineInv => ProcessVisible
  <2>. SUFFICES ASSUME OwnInv, EngineInv, NEW t \in Task,
                       stage[t] \notin {"idle", "over"}, NeverQueues(target[t])
                PROVE  runs[job[t].run].status \in {"running", "cancelled"}
    BY DEF ProcessVisible
  <2>1. JobOwned(t) /\ job[t].run \in RunId
    BY DEF OwnInv, JobsOwned, EngineInv, Linked, JobLinked, Rows
  <2>2. Carried(job[t].run) /\ NeverQueues(runs[job[t].run].script)
    BY <2>1 DEF JobOwned, Carried, Carries
  <2>3. runs[job[t].run].status \in Shown("running")
    BY <2>1, <2>2 DEF OwnInv, RowsOwned, Owned
  <2>. QED BY <2>3 DEF Shown
<1>. QED BY <1>1, AlwaysOwned, PTL

-----------------------------------------------------------------------------
(* How often a row is executed. *)

\* A row has been taken up once per attempt at most, and one attempt is left
\* while the row waits for a retry or the tick is about to run it again.  A
\* finalizer that is going to grant a retry has seen all attempts so far.
StartsInv ==
    \A r \in RunId : NeverQueues(runs[r].script) =>
        /\ runs[r].starts <= runs[r].attempt + 1
        /\ runs[r].status = "pending_retry" \/ r \in Targets => runs[r].starts <= runs[r].attempt
        /\ \A t \in Task : Carries(t, r) /\ job[t].step = "attempt" =>
              runs[r].starts <= job[t].seen + 1

\* t, created for r or done with the row before, is going to execute r.
TakesUp(t, r) ==
    /\ stage[t] \in {"idle", "over"}
    /\ stage'[t] = "slot"
    /\ job'[t].run = r

\* A row is taken up by a promotion, or by a task created for it.
LEMMA TakenUp ==
    ASSUME ExecTypeOK, EngineInv, [Next]_vars, NEW u \in Task, NEW r \in RunId, TakesUp(u, r)
    PROVE  Promote(u) \/ (DispatchStep /\ u = FreeTask)
<1>1. ~Keeps(u)
  BY DEF TakesUp, Keeps
<1>2. ~ReadAttempt(u) /\ ~Finalize(u) /\ ~SelectPending(u)
  BY DEF TakesUp, ReadAttempt, Finalize, SelectPending, execVars
<1>. QED BY <1>1, <1>2, TaskMoves

\* A row that is not taken up and not granted a retry keeps its attempt, and
\* does not come to wait for one; a new row has attempt 0.
LEMMA AttemptKept ==
    ASSUME ExecTypeOK, EngineInv, [Next]_vars, NEW r \in RunId,
           \A t \in Task : MarkPendingRetry(t) => job[t].run # r
    PROVE  /\ runs'[r].attempt = runs[r].attempt
           /\ runs'[r].status = "pending_retry" => runs[r].status = "pending_retry"
           /\ runs'[r].status = "absent" => runs[r].status = "absent"
<1>0. runs \in [RunId -> RowType \cup {NoRow}]
  BY DEF EngineInv, EngineTypeOK
<1>1. CASE runs' = runs
  BY <1>1
<1>2. ASSUME NEW q \in RunId, BackoffElapses(q)
      PROVE  /\ runs'[r].attempt = runs[r].attempt
             /\ runs'[r].status = runs[r].status
  <2>1. runs[q] \in RowType
    BY <1>0, <1>2 DEF BackoffElapses, NoRow
  <2>2. runs' = [runs EXCEPT ![q] = [runs[q] EXCEPT !.ripe = TRUE]]
    BY <1>2 DEF BackoffElapses
  <2>. QED BY <1>0, <2>1, <2>2 DEF RowType
<1>3. ASSUME NEW t \in Task, MarkPendingRetry(t)
      PROVE  runs'[r] = runs[r]
  BY <1>0, <1>3 DEF MarkPendingRetry
<1>4. ASSUME InsertStep, NEW q \in RunId, Inserts(q)
      PROVE  /\ runs'[r].attempt = runs[r].attempt
             /\ runs'[r].status = "pending_retry" => runs[r].status = "pending_retry"
             /\ runs'[r].status = "absent" => runs[r].status = "absent"
  <2>1. CASE r # q
    BY <1>0, <1>4, <2>1 DEF Inserts
  <2>2. CASE r = q
    <3>1. runs[r] = NoRow
      BY <1>0, <1>4, <2>2 DEF Inserts, NextId, RowType, Status
    <3>2. PICK st \in {"skipped", "pending", "running"}, w \in RunId :
              \E sc, so : NextId(w) /\ runs' = [runs EXCEPT ![w] = NewRow(sc, so, st)]
      BY <1>4 DEF InsertStep, RecordSkip, RecordDrop, Enqueue, CreateAndDispatch, TriggerCreate,
                  InsertFire
    <3>3. PICK sc, so : runs' = [runs EXCEPT ![w] = NewRow(sc, so, st)]
      BY <3>2
    <3>4. /\ NewRow(sc, so, st).status = st
          /\ NewRow(sc, so, st).attempt = 0
      BY DEF NewRow
    <3>5. CASE w = r
      BY <1>0, <3>1, <3>3, <3>4, <3>5 DEF NoRow
    <3>6. CASE w # r
      BY <1>0, <3>1, <3>3, <3>6 DEF NoRow
    <3>. QED BY <3>5, <3>6
  <2>. QED BY <2>1, <2>2
<1>5. ASSUME NEW q \in Rows, Flips(q)
      PROVE  /\ runs'[r].attempt = runs[r].attempt
             /\ runs'[r].status = "pending_retry" => runs[r].status = "pending_retry"
             /\ runs'[r].status = "absent" => runs[r].status = "absent"
  <2>1. q \in RunId /\ runs[q] \in RowType
    BY <1>0 DEF Rows, NoRow
  <2>2. PICK st \in Written, n \in Nat :
            runs' = [runs EXCEPT ![q] = [runs[q] EXCEPT !.status = st, !.starts = n]]
    BY <1>5, FlipWrites DEF EngineInv
  <2>. QED BY <1>0, <2>1, <2>2 DEF RowType, Written
<1>. QED BY <1>1, <1>2, <1>3, <1>4, <1>5, StepWritesRows

\* A retry is granted to a row nobody else carries.
LEMMA StartsGranted ==
    ASSUME ExecTypeOK, EngineInv, OwnInv, StartsInv, [Next]_vars, NEW r \in RunId,
           NeverQueues(runs[r].script), NEW t \in Task, MarkPendingRetry(t), job[t].run = r,
           runs'[r].starts = runs[r].starts
    PROVE  /\ runs'[r].starts <= runs'[r].attempt
           /\ runs'[r].attempt \in Nat
           /\ \A u \in Task : ~Carries(u, r)'
<1>1. /\ stage[t] = "over"
      /\ job[t] \in JobType
      /\ r \in Rows
      /\ Carries(t, r)
      /\ job[t].step = "attempt"
  BY DEF MarkPendingRetry, EngineInv, Linked, JobLinked, Carries
<1>2. job[t].seen \in Nat /\ runs'[r].attempt = job[t].seen + 1
  BY <1>1 DEF MarkPendingRetry, JobType, Rows, EngineInv, EngineTypeOK, RowType, NoRow
<1>3. runs[r].starts <= job[t].seen + 1
  BY <1>1 DEF StartsInv
<1>4. ASSUME NEW u \in Task, Carries(u, r)'
      PROVE  FALSE
  <2>1. CASE u = t
    BY <1>4, <2>1 DEF MarkPendingRetry, EndJob, Retire, Carries, ExecTypeOK
  <2>2. CASE u # t
    <3>1. stage'[u] = stage[u] /\ job'[u] = job[u]
      BY <2>2 DEF MarkPendingRetry, EndJob, Retire, ExecTypeOK, EngineInv, EngineTypeOK
    <3>2. Carries(u, r)
      BY <1>4, <3>1 DEF Carries
    <3>. QED BY <1>1, <2>2, <3>2 DEF OwnInv, RowsOwned, Owned
  <2>. QED BY <2>1, <2>2
<1>. QED BY <1>2, <1>3, <1>4

\* A row that nobody carries after a step, and that was taken up no more often
\* than its attempts, is all right whether or not it is waiting.
LEMMA StartsUncarried ==
    ASSUME NEW r \in RunId, runs'[r].starts \in Nat, runs'[r].attempt \in Nat,
           runs'[r].starts <= runs'[r].attempt, \A u \in Task : ~Carries(u, r)'
    PROVE  /\ runs'[r].starts <= runs'[r].attempt + 1
           /\ (runs[r].status = "pending_retry" \/ r \in Targets)'
                 => runs'[r].starts <= runs'[r].attempt
           /\ \A t \in Task : Carries(t, r)' /\ job'[t].step = "attempt" =>
                 runs'[r].starts <= job'[t].seen + 1
OBVIOUS

\* A row that is taken up had an attempt left.
LEMMA StartsTaken ==
    ASSUME ExecTypeOK, EngineInv, QueueInv, OwnInv, StartsInv, [Next]_vars, NEW r \in RunId,
           NeverQueues(runs'[r].script), NEW f \in Task, TakesUp(f, r),
           runs'[r].starts = runs[r].starts + 1
    PROVE  /\ runs'[r].starts <= runs'[r].attempt + 1
           /\ runs'[r].status = "running" /\ r \notin Targets'
           /\ \A t \in Task : Carries(t, r)' => job'[t].step # "attempt"
<1>0. /\ runs \in [RunId -> RowType \cup {NoRow}]
      /\ runs[r].starts \in Nat
      /\ NoRun \notin RunId
  BY EngineAssumption DEF EngineInv, EngineTypeOK, RowType, NoRow
<1>1. ASSUME NEW by, NEW s, Dispatch(by, r, s), \A u \in Task : ~Carries(u, r)
      PROVE  \A t \in Task : Carries(t, r)' => job'[t].step # "attempt"
  <2>1. job'[FreeTask] = NewJob(by, r)
    BY <1>1, DispatchMoves
  <2>2. job'[FreeTask].step = "result"
    BY <2>1 DEF NewJob
  <2>. QED BY <1>1, <2>2, DispatchCarries
<1>2. ASSUME NEW by, NEW q, NEW s, Dispatch(by, q, s), f = FreeTask
      PROVE  q = r
  <2>1. job'[f] = NewJob(by, q)
    BY <1>2, DispatchMoves
  <2>. QED BY <2>1 DEF TakesUp, NewJob
<1>3. CASE Promote(f)
  <2>1. stage[f] = "over" /\ job[f].step = "flip"
    BY <1>3 DEF Promote
  <2>2. /\ job[f].next \in Rows
        /\ ~NeverQueues(runs[job[f].next].script)
    BY <2>1 DEF OwnInv, JobsOwned, JobOwned, EngineInv, Linked, JobLinked
  <2>3. job'[f].run = job[f].next
    BY <1>3 DEF Promote, NewJob, EngineInv, EngineTypeOK
  <2>. QED BY <2>2, <2>3, OriginKept DEF TakesUp, NeverQueues
<1>4. ASSUME NEW s, NEW sc, NEW by, NextId(r), Dispatch(by, r, s),
             runs' = [runs EXCEPT ![r] = NewRow(s, sc, "running")],
             tick'.retries = tick.retries, tick'.row = tick.row, tick'.pc # "rerun", TickAims'
      PROVE  /\ runs'[r].starts <= runs'[r].attempt + 1
             /\ runs'[r].status = "running" /\ r \notin Targets'
             /\ \A t \in Task : Carries(t, r)' => job'[t].step # "attempt"
  <2>1. runs[r].status = "absent" /\ r \notin Rows /\ runs[r].starts = 0
    BY <1>0, <1>4 DEF NextId, Rows, RowType, Status, NoRow
  <2>2. runs'[r].status = "running" /\ runs'[r].attempt = 0
    BY <1>0, <1>4 DEF NewRow
  <2>3. r \notin Targets'
    BY <1>0, <1>4, <2>1 DEF Targets, TickAims, EngineInv, Linked, TickLinked
  <2>4. \A u \in Task : ~Carries(u, r)
    BY <2>1 DEF Carries, EngineInv, Linked, JobLinked
  <2>. QED BY <1>1, <1>4, <2>1, <2>2, <2>3, <2>4
<1>5. CASE CreateAndDispatch /\ f = FreeTask
  <2>1. PICK q \in RunId : /\ NextId(q)
                           /\ runs' = [runs EXCEPT ![q] = NewRow(ScriptOf[tick.at], tick.at, "running")]
                           /\ Dispatch("tick", q, ScriptOf[tick.at])
    BY <1>5 DEF CreateAndDispatch
  <2>2. q = r
    BY <1>2, <1>5, <2>1
  <2>3. /\ tick'.retries = tick.retries /\ tick'.row = tick.row /\ tick'.pc # "rerun"
    BY <1>5 DEF CreateAndDispatch, BackToFire, EngineInv, EngineTypeOK, TickType
  <2>. QED BY <1>4, <2>1, <2>2, <2>3, AimsStep
<1>6. ASSUME NEW q \in Request, TriggerCreate(q), f = FreeTask
      PROVE  /\ runs'[r].starts <= runs'[r].attempt + 1
             /\ runs'[r].status = "running" /\ r \notin Targets'
             /\ \A t \in Task : Carries(t, r)' => job'[t].step # "attempt"
  <2>1. PICK w \in RunId : /\ NextId(w)
                           /\ runs' = [runs EXCEPT ![w] = NewRow(trigger[q].script, NoSchedule, "running")]
                           /\ Dispatch("api", w, trigger[q].script)
    BY <1>6 DEF TriggerCreate
  <2>2. w = r
    BY <1>2, <1>6, <2>1
  <2>3. tick' = tick
    BY <1>6 DEF TriggerCreate
  <2>4. r \notin Rows /\ runs[r].status = "absent" /\ runs[r].starts = 0
    BY <1>0, <2>1, <2>2 DEF NextId, Rows, RowType, Status, NoRow
  <2>5. r \notin Targets'
    BY <1>0, <2>3, <2>4 DEF Targets, OwnInv, TickAims, EngineInv, Linked, TickLinked
  <2>6. runs'[r].status = "running" /\ runs'[r].attempt = 0
    BY <1>0, <2>1, <2>2 DEF NewRow
  <2>7. \A u \in Task : ~Carries(u, r)
    BY <2>4 DEF Carries, EngineInv, Linked, JobLinked
  <2>. QED BY <1>1, <2>1, <2>2, <2>4, <2>5, <2>6, <2>7
<1>7. CASE Rerun /\ f = FreeTask
  <2>1. /\ tick.pc = "rerun" /\ tick.row \in Rows
        /\ Dispatch("tick", tick.row, runs[tick.row].script)
        /\ tick'.retries = tick.retries /\ tick'.row = NoRun
    BY <1>7 DEF Rerun, EngineInv, Linked, TickLinked, EngineTypeOK, TickType
  <2>2. tick.row = r
    BY <1>2, <1>7, <2>1
  <2>3. /\ runs[r] \in RowType
        /\ runs' = [runs EXCEPT ![r] = [runs[r] EXCEPT !.status = "running", !.starts = runs[r].starts + 1]]
    <3>1. runs[r] \in RowType
      BY <1>0, <2>1, <2>2 DEF Rows, NoRow
    <3>2. TakeUp(r)
      BY <1>7, <2>2 DEF Rerun
    <3>3. runs' = [runs EXCEPT ![r] = [runs[r] EXCEPT !.status = "running", !.starts = runs[r].starts + 1]]
      BY <3>2 DEF TakeUp
    <3>. QED BY <3>1, <3>3
  <2>4. /\ runs'[r].status = "running" /\ runs'[r].attempt = runs[r].attempt
        /\ runs'[r].script = runs[r].script /\ runs[r].attempt \in Nat
    BY <1>0, <2>3 DEF RowType
  <2>5. runs[r].starts <= runs[r].attempt /\ \A u \in Task : ~Carries(u, r)
    BY <2>2, <2>4 DEF StartsInv, Targets, OwnInv, RowsOwned, Owned, Carried
  <2>6. r \notin Targets'
    BY <1>0, <2>1, <2>2 DEF Targets, OwnInv, TickAims
  <2>. QED BY <1>0, <1>1, <2>1, <2>2, <2>4, <2>5, <2>6
<1>. QED BY <1>3, <1>5, <1>6, <1>7, TakenUp DEF DispatchStep

\* A row that is neither taken up nor granted a retry.
LEMMA StartsKept ==
    ASSUME ExecTypeOK, EngineInv, OwnInv, StartsInv, [Next]_vars, NEW r \in RunId,
           NeverQueues(runs[r].script), runs'[r].starts = runs[r].starts,
           runs'[r].attempt = runs[r].attempt,
           runs'[r].status = "pending_retry" => runs[r].status = "pending_retry"
    PROVE  /\ runs'[r].starts <= runs'[r].attempt + 1
           /\ (runs[r].status = "pending_retry" \/ r \in Targets)'
                 => runs'[r].starts <= runs'[r].attempt
           /\ \A t \in Task : Carries(t, r)' /\ job'[t].step = "attempt" =>
                 runs'[r].starts <= job'[t].seen + 1
<1>0. NoRun \notin RunId /\ tick \in TickType
  BY EngineAssumption DEF EngineInv, EngineTypeOK
<1>1. r \in Targets' => r \in Targets \/ runs[r].status = "pending_retry"
  <2>1. CASE tick' = tick
    BY <2>1 DEF Targets
  <2>2. CASE tick' = Asleep
    BY <1>0, <2>2 DEF Targets, Asleep
  <2>3. CASE TickStep
    <3>1. CASE \/ BeginTick \/ CheckOverlap \/ RecordSkip \/ CheckQueue \/ RecordDrop \/ Enqueue
               \/ CreateAndDispatch
      <4>1. tick'.retries = tick.retries /\ tick'.row = tick.row
        BY <1>0, <3>1 DEF BeginTick, CheckOverlap, RecordSkip, CheckQueue, RecordDrop, Enqueue,
                          CreateAndDispatch, BackToFire, TickType
      <4>. QED BY <4>1 DEF Targets
    <3>2. ASSUME NEW s \in Schedule, AdvanceCursor(s)
          PROVE  tick'.retries = tick.retries /\ tick'.row = tick.row
      BY <1>0, <3>2 DEF AdvanceCursor, TickType
    <3>3. CASE PickRetries
      BY <1>0, <3>3 DEF PickRetries, TickType, Targets
    <3>4. ASSUME NEW q \in RunId, CheckRetry(q)
          PROVE  Targets' \subseteq Targets
      BY <1>0, <3>4 DEF CheckRetry, TickType, Targets
    <3>5. CASE Rerun
      BY <1>0, <3>5 DEF Rerun, TickType, Targets
    <3>6. CASE EndTick
      BY <2>2, <3>6 DEF EndTick
    <3>. QED BY <2>3, <3>1, <3>2, <3>3, <3>4, <3>5, <3>6 DEF TickStep, Targets
  <2>. QED BY <2>1, <2>2, <2>3, OnlyTickMoves
<1>2. ASSUME NEW t \in Task, Carries(t, r)', job'[t].step = "attempt"
      PROVE  runs[r].starts <= job'[t].seen + 1
  <2>1. CASE ReadAttempt(t)
    <3>1. stage[t] = "over" /\ job[t] \in JobType
      BY <2>1 DEF ReadAttempt, EngineInv, Linked, JobLinked
    <3>2. job'[t].run = job[t].run /\ job'[t].seen = runs[job[t].run].attempt
      BY <2>1, <3>1 DEF ReadAttempt, EngineInv, EngineTypeOK, JobType
    <3>. QED BY <1>2, <3>2 DEF Carries, StartsInv
  <2>2. CASE Finalize(t) \/ SelectPending(t) \/ Promote(t)
    <3>1. stage[t] = "over" /\ job[t] \in JobType
      BY <2>2 DEF Finalize, SelectPending, Promote, EngineInv, Linked, JobLinked
    <3>2. job'[t].step # "attempt"
      BY <2>2, <3>1 DEF Finalize, SelectPending, Promote, NewJob, EngineInv, EngineTypeOK, JobType
    <3>. QED BY <1>2, <3>2
  <2>3. CASE DispatchStep /\ t = FreeTask
    <3>1. ASSUME NEW by, NEW q, NEW s, Dispatch(by, q, s)
          PROVE  job'[t].step = "result"
      <4>1. job'[t] = NewJob(by, q)
        BY <2>3, <3>1, DispatchMoves
      <4>. QED BY <4>1 DEF NewJob
    <3>2. job'[t].step = "result"
      BY <2>3, <3>1 DEF DispatchStep, CreateAndDispatch, Rerun, TriggerCreate
    <3>. QED BY <1>2, <3>2
  <2>4. CASE Keeps(t)
    <3>1. Carries(t, r) /\ job[t].step = "attempt"
      BY <1>2, <2>4 DEF Keeps, Carries
    <3>2. job'[t].seen = job[t].seen
      BY <1>2, <2>4 DEF Keeps, Carries
    <3>. QED BY <3>1, <3>2 DEF StartsInv
  <2>. QED BY <2>1, <2>2, <2>3, <2>4, TaskMoves
<1>. QED BY <1>1, <1>2 DEF StartsInv

\* The history tells the truth: a row counts a start when a task takes it up,
\* and at no other step.
LEMMA StartsCounted ==
    ASSUME ExecTypeOK, EngineInv, [Next]_vars, NEW r \in RunId
    PROVE  \/ runs'[r].starts = runs[r].starts
           \/ /\ runs'[r].starts = runs[r].starts + 1
              /\ \E t \in Task : TakesUp(t, r)
<1>0. runs \in [RunId -> RowType \cup {NoRow}]
  BY DEF EngineInv, EngineTypeOK
<1>1. ASSUME NEW by, NEW q, NEW x, Dispatch(by, q, x)
      PROVE  TakesUp(FreeTask, q) /\ FreeTask \in Task
  <2>1. /\ FreeTask \in Task
        /\ stage[FreeTask] = "idle" /\ stage'[FreeTask] = "slot"
        /\ job'[FreeTask] = NewJob(by, q)
    BY <1>1, DispatchMoves
  <2>2. job'[FreeTask].run = q
    BY <2>1 DEF NewJob
  <2>. QED BY <2>1, <2>2 DEF TakesUp
<1>2. ASSUME NEW q \in RunId, NextId(q), NEW x, NEW sc, NEW st,
             runs' = [runs EXCEPT ![q] = NewRow(x, sc, st)]
      PROVE  /\ r # q => runs'[r] = runs[r]
             /\ r = q => runs[r].starts = 0 /\ runs'[r].starts = IF st = "running" THEN 1 ELSE 0
  <2>1. runs[q] = NoRow
    BY <1>0, <1>2 DEF NextId, RowType, Status
  <2>2. NewRow(x, sc, st).starts = IF st = "running" THEN 1 ELSE 0
    BY DEF NewRow
  <2>. QED BY <1>0, <1>2, <2>1, <2>2 DEF NoRow
<1>3. ASSUME NEW q \in Rows, TakeUp(q)
      PROVE  /\ r # q => runs'[r] = runs[r]
             /\ r = q => runs'[r].starts = runs[r].starts + 1
  <2>1. q \in RunId /\ runs[q] \in RowType
    BY <1>0 DEF Rows, NoRow
  <2>. QED BY <1>0, <1>3, <2>1 DEF TakeUp, RowType
<1>4. ASSUME NEW q \in Rows, NEW st, SetStatus(q, st)
      PROVE  runs'[r].starts = runs[r].starts
  <2>1. q \in RunId /\ runs[q] \in RowType
    BY <1>0 DEF Rows, NoRow
  <2>. QED BY <1>0, <1>4, <2>1 DEF SetStatus, RowType
<1>5. ASSUME NEW q \in RunId, BackoffElapses(q)
      PROVE  runs'[r].starts = runs[r].starts
  <2>1. runs[q] \in RowType /\ runs' = [runs EXCEPT ![q] = [runs[q] EXCEPT !.ripe = TRUE]]
    BY <1>0, <1>5 DEF BackoffElapses, NoRow
  <2>. QED BY <1>0, <2>1 DEF RowType
<1>6. CASE RecordSkip \/ RecordDrop \/ Enqueue
  <2>1. PICK q \in RunId, st \in {"skipped", "pending"} :
            /\ NextId(q)
            /\ runs' = [runs EXCEPT ![q] = NewRow(ScriptOf[tick.at], tick.at, st)]
    BY <1>6 DEF RecordSkip, RecordDrop, Enqueue, InsertFire
  <2>. QED BY <1>2, <2>1
<1>7. CASE CreateAndDispatch
  <2>1. PICK q \in RunId : /\ NextId(q)
                           /\ runs' = [runs EXCEPT ![q] = NewRow(ScriptOf[tick.at], tick.at, "running")]
                           /\ Dispatch("tick", q, ScriptOf[tick.at])
    BY <1>7 DEF CreateAndDispatch
  <2>2. TakesUp(FreeTask, q) /\ FreeTask \in Task
    BY <1>1, <2>1
  <2>3. /\ r # q => runs'[r] = runs[r]
        /\ r = q => runs[r].starts = 0 /\ runs'[r].starts = 1
    BY <1>2, <2>1
  <2>4. CASE r = q
    <3>1. TakesUp(FreeTask, r)
      BY <2>2, <2>4
    <3>2. runs'[r].starts = runs[r].starts + 1
      BY <2>3, <2>4
    <3>. QED BY <2>2, <3>1, <3>2
  <2>5. CASE r # q
    BY <2>3, <2>5
  <2>. QED BY <2>4, <2>5
<1>8. ASSUME NEW c \in Request, TriggerCreate(c)
      PROVE  \/ runs'[r].starts = runs[r].starts
             \/ runs'[r].starts = runs[r].starts + 1 /\ \E t \in Task : TakesUp(t, r)
  <2>1. PICK q \in RunId : /\ NextId(q)
                           /\ runs' = [runs EXCEPT ![q] = NewRow(trigger[c].script, NoSchedule, "running")]
                           /\ Dispatch("api", q, trigger[c].script)
    BY <1>8 DEF TriggerCreate
  <2>2. TakesUp(FreeTask, q) /\ FreeTask \in Task
    BY <1>1, <2>1
  <2>3. /\ r # q => runs'[r] = runs[r]
        /\ r = q => runs[r].starts = 0 /\ runs'[r].starts = 1
    BY <1>2, <2>1
  <2>4. CASE r = q
    <3>1. TakesUp(FreeTask, r)
      BY <2>2, <2>4
    <3>2. runs'[r].starts = runs[r].starts + 1
      BY <2>3, <2>4
    <3>. QED BY <2>2, <3>1, <3>2
  <2>5. CASE r # q
    BY <2>3, <2>5
  <2>. QED BY <2>4, <2>5
<1>9. ASSUME NEW t \in Task, FinalizeTriggered(t) \/ Finalize(t)
      PROVE  runs'[r].starts = runs[r].starts
  <2>1. job[t].run \in Rows
    BY <1>9 DEF FinalizeTriggered, Finalize, EngineInv, Linked, JobLinked
  <2>. QED BY <1>4, <1>9, <2>1 DEF FinalizeTriggered, Finalize
<1>10. ASSUME NEW t \in Task, MarkPendingRetry(t)
       PROVE  runs'[r].starts = runs[r].starts
  <2>1. job[t].run \in RunId /\ runs[job[t].run] \in RowType
    BY <1>0, <1>10 DEF MarkPendingRetry, EngineInv, Linked, JobLinked, Rows, NoRow
  <2>. QED BY <1>0, <1>10, <2>1 DEF MarkPendingRetry, RowType
<1>11. ASSUME NEW t \in Task, Promote(t)
       PROVE  \/ runs'[r].starts = runs[r].starts
              \/ runs'[r].starts = runs[r].starts + 1 /\ TakesUp(t, r)
  <2>1. job[t].next \in Rows /\ TakeUp(job[t].next)
    BY <1>11 DEF Promote, EngineInv, Linked, JobLinked
  <2>2. TakesUp(t, job[t].next)
    BY <1>11 DEF Promote, Chain, NewJob, TakesUp, ExecTypeOK, EngineInv, EngineTypeOK
  <2>. QED BY <1>3, <2>1, <2>2
<1>12. CASE Rerun
  <2>1. tick.row \in Rows /\ TakeUp(tick.row)
    BY <1>12 DEF Rerun, EngineInv, Linked, TickLinked
  <2>2. TakesUp(FreeTask, tick.row) /\ FreeTask \in Task
    BY <1>1, <1>12 DEF Rerun
  <2>. QED BY <1>3, <2>1, <2>2
<1>13. ASSUME NEW c \in Canceller, CancelWrite(c)
       PROVE  runs'[r].starts = runs[r].starts
  <2>1. cancel[c].run \in Rows
    BY <1>13 DEF CancelWrite, EngineInv, Linked, RequestsLinked
  <2>. QED BY <1>4, <1>13, <2>1 DEF CancelWrite
<1>. QED BY <1>5, <1>6, <1>7, <1>8, <1>9, <1>10, <1>11, <1>12, <1>13, RowWriters DEF InsertStep

LEMMA StartsStep ==
    ASSUME ExecTypeOK, EngineInv, QueueInv, OwnInv, StartsInv, [Next]_vars
    PROVE  StartsInv'
<1>0. \A r \in RunId :
          \/ runs'[r].starts = runs[r].starts
          \/ runs'[r].starts = runs[r].starts + 1 /\ \E t \in Task : TakesUp(t, r)
  BY StartsCounted
<1>1. EngineInv'
  BY EngineStep
<1>. DEFINE Fine(r) ==
         NeverQueues(runs'[r].script) =>
             /\ runs'[r].starts <= runs'[r].attempt + 1
             /\ (runs[r].status = "pending_retry" \/ r \in Targets)'
                   => runs'[r].starts <= runs'[r].attempt
             /\ \A t \in Task : Carries(t, r)' /\ job'[t].step = "attempt" =>
                   runs'[r].starts <= job'[t].seen + 1
<1>2. ASSUME NEW r \in RunId, NEW t \in Task, MarkPendingRetry(t), job[t].run = r
      PROVE  Fine(r)
  <2>1. \A f \in Task : ~TakesUp(f, r)
    BY <1>2 DEF TakesUp, MarkPendingRetry, EndJob, Retire, ExecTypeOK
  <2>2. runs'[r].starts = runs[r].starts /\ runs'[r].starts \in Nat
    <3>1. runs'[r].starts = runs[r].starts
      BY <1>0, <1>2, <2>1
    <3>2. runs'[r] \in RowType \cup {NoRow}
      BY <1>1, <1>2 DEF EngineInv, EngineTypeOK
    <3>. QED BY <3>1, <3>2 DEF RowType, NoRow
  <2>3. r \in Rows
    BY <1>2 DEF MarkPendingRetry, EngineInv, Linked, JobLinked
  <2>4. runs'[r].status = "pending_retry"
    BY <1>2, <2>3 DEF MarkPendingRetry, EngineInv, EngineTypeOK, Rows, RowType, NoRow
  <2>5. NeverQueues(runs'[r].script) => NeverQueues(runs[r].script)
    BY <1>0, <2>3, OriginKept DEF NeverQueues
  <2>6. CASE NeverQueues(runs'[r].script)
    <3>1. /\ runs'[r].starts <= runs'[r].attempt
          /\ runs'[r].attempt \in Nat
          /\ \A u \in Task : ~Carries(u, r)'
      BY <1>0, <1>2, <2>2, <2>5, <2>6, StartsGranted
    <3>. QED BY <2>2, <2>4, <3>1, StartsUncarried
  <2>. QED BY <2>4, <2>6
<1>3. ASSUME NEW r \in RunId, NEW f \in Task, TakesUp(f, r), runs'[r].starts = runs[r].starts + 1
      PROVE  Fine(r)
  <2>1. CASE NeverQueues(runs'[r].script)
    BY <1>0, <1>3, <2>1, StartsTaken
  <2>2. CASE ~NeverQueues(runs'[r].script)
    <3>1. runs'[r].script # NoScript
      BY <2>2, EngineAssumption, ExecutorAssumption DEF NeverQueues
    <3>2. runs'[r].status # "absent"
      BY <1>1, <3>1 DEF EngineInv, EngineTypeOK, RowType, Status, NoRow
    <3>. QED BY <2>2, <3>2
  <2>. QED BY <2>1, <2>2
<1>4. ASSUME NEW r \in RunId, \A t \in Task : MarkPendingRetry(t) => job[t].run # r,
             runs'[r].starts = runs[r].starts
      PROVE  Fine(r)
  <2>1. /\ runs'[r].attempt = runs[r].attempt
        /\ runs'[r].status = "pending_retry" => runs[r].status = "pending_retry"
        /\ runs'[r].status = "absent" => runs[r].status = "absent"
    BY <1>0, <1>4, AttemptKept
  <2>2. NeverQueues(runs'[r].script) => NeverQueues(runs[r].script)
    <3>1. CASE r \in Rows
      BY <1>0, <3>1, OriginKept DEF NeverQueues
    <3>2. CASE r \notin Rows
      <4>1. runs[r].script = NoScript
        BY <3>2 DEF Rows, EngineInv, EngineTypeOK, RowType, Status, NoRow
      <4>. QED BY <4>1, EngineAssumption, ExecutorAssumption DEF NeverQueues
    <3>. QED BY <3>1, <3>2
  <2>3. CASE NeverQueues(runs'[r].script)
    BY <1>0, <1>4, <2>1, <2>2, <2>3, StartsKept DEF StartsInv
  <2>. QED BY <1>4, <2>1, <2>3 DEF StartsInv
<1>5. \A r \in RunId : Fine(r)
  BY <1>0, <1>2, <1>3, <1>4
<1>. QED BY <1>0, <1>5 DEF StartsInv, NeverQueues

LEMMA StartsInit == Init => StartsInv
<1>. SUFFICES ASSUME Init
              PROVE  StartsInv
  OBVIOUS
<1>1. \A r \in RunId : runs[r] = NoRow /\ r \notin Targets
  BY EngineAssumption DEF Init, Targets, Asleep
<1>2. \A t \in Task, r \in RunId : ~Carries(t, r)
  BY DEF Init, ExecInit, Carries
<1>. QED BY <1>1, <1>2 DEF StartsInv, NoRow

\* A row of a script without a queue is executed no more often than one plus
\* the retry_max of its schedule, however retries, finalizers, cancels,
\* crashes and errors fall (scheduler/tick.py, services/run_service.py): the
\* column bounds the retries that are granted, and what the tick is about to
\* run again, or a finalizer to grant, has been executed no more often than
\* the column says.
THEOREM RetryBound == Spec => []StartsWithinRetryMax
<1>1. (ExecTypeOK /\ EngineInv /\ QueueInv /\ OwnInv) /\ StartsInv /\ [Next]_vars => StartsInv'
  BY StartsStep
<1>2. EngineInv /\ AttemptsWithinRetryMax /\ StartsInv => StartsWithinRetryMax
  <2>. SUFFICES ASSUME EngineInv, AttemptsWithinRetryMax, StartsInv, NEW r \in Rows,
                       NeverQueues(runs[r].script)
                PROVE  runs[r].starts <= RetriesOf(r) + 1
    BY DEF StartsWithinRetryMax
  <2>1. r \in RunId /\ runs[r] \in RowType
    BY DEF Rows, EngineInv, EngineTypeOK, NoRow
  <2>2. /\ runs[r].starts \in Nat /\ runs[r].attempt \in Nat /\ RetriesOf(r) \in Nat
        /\ runs[r].starts <= runs[r].attempt + 1
        /\ runs[r].attempt <= RetriesOf(r)
    BY <2>1, EngineAssumption DEF RowType, StartsInv, AttemptsWithinRetryMax, RetriesOf
  <2>. QED BY <2>2
<1>. QED BY <1>1, <1>2, StartsInit, AttemptsBounded, AlwaysOwned, PTL DEF Spec

\* Without cancels, what a finalizer, a skip or a drop has written of a script
\* without a queue is never written over: no second task, no retry that was
\* read before, no promotion (scheduler/tick.py, api/runs.py).
THEOREM FinalStays == Spec => FinalIsFinal
<1>. DEFINE Stays == Canceller = {} =>
                \A r \in RunId : runs[r].status \in Final /\ NeverQueues(runs[r].script) =>
                    runs'[r].status = runs[r].status
<1>1. (ExecTypeOK /\ EngineInv /\ QueueInv /\ OwnInv) /\ [Next]_vars => Stays
  <2>. SUFFICES ASSUME ExecTypeOK, EngineInv, OwnInv, [Next]_vars, Canceller = {}, NEW r \in RunId,
                       runs[r].status \in Final, NeverQueues(runs[r].script)
                PROVE  runs'[r].status = runs[r].status
    BY DEF Stays
  <2>0. /\ runs \in [RunId -> RowType \cup {NoRow}]
        /\ r \in Rows
        /\ ~Carried(r)
        /\ r \notin Targets
    BY DEF EngineInv, EngineTypeOK, Rows, Final, OwnInv, RowsOwned, Owned, Shown
  <2>1. CASE runs' = runs
    BY <2>1
  <2>2. ASSUME NEW q \in RunId, BackoffElapses(q)
        PROVE  runs'[r].status = runs[r].status
    <3>1. runs[q] \in RowType /\ runs' = [runs EXCEPT ![q] = [runs[q] EXCEPT !.ripe = TRUE]]
      BY <2>0, <2>2 DEF BackoffElapses, NoRow
    <3>. QED BY <2>0, <3>1 DEF RowType
  <2>3. ASSUME NEW q \in RunId, Inserts(q)
        PROVE  runs'[r].status = runs[r].status
    BY <2>0, <2>3 DEF Inserts, NextId, Rows
  <2>4. ASSUME NEW t \in Task, FinalizeTriggered(t) \/ MarkPendingRetry(t) \/ Finalize(t)
        PROVE  runs'[r].status = runs[r].status
    <3>1. JobOwned(t) /\ stage[t] = "over"
      BY <2>4 DEF FinalizeTriggered, MarkPendingRetry, Finalize, OwnInv, JobsOwned
    <3>2. Carries(t, job[t].run)
      BY <2>4, <3>1 DEF FinalizeTriggered, MarkPendingRetry, Finalize, JobOwned, Carries
    <3>3. r # job[t].run
      BY <2>0, <3>2 DEF Carried
    <3>. QED BY <2>0, <2>4, <3>3 DEF FinalizeTriggered, MarkPendingRetry, Finalize, SetStatus
  <2>5. ASSUME NEW t \in Task, Promote(t)
        PROVE  runs'[r].status = runs[r].status
    <3>1. JobOwned(t) /\ job[t].step = "flip"
      BY <2>5 DEF Promote, OwnInv, JobsOwned
    <3>2. r # job[t].next
      BY <3>1 DEF JobOwned
    <3>. QED BY <2>0, <2>5, <3>2 DEF Promote, TakeUp
  <2>6. CASE Rerun
    <3>1. r # tick.row
      BY <2>0 DEF Targets
    <3>. QED BY <2>0, <2>6, <3>1 DEF Rerun, TakeUp
  <2>. QED BY <2>1, <2>2, <2>3, <2>4, <2>5, <2>6, RowWriters, InsertsRow
<1>2. [](ExecTypeOK /\ EngineInv /\ QueueInv /\ OwnInv) /\ [][Next]_vars => [][Stays]_vars
  BY <1>1, PTL
<1>. QED BY <1>2, AlwaysOwned, PTL DEF Spec, FinalIsFinal

-----------------------------------------------------------------------------
(* One active run: has_active_run and the write that relies on its answer  *)
(* are two steps, and what holds between them is part of the invariant.    *)

\* The tick has asked for s, was told that nothing is active, and has not
\* written yet.
Cleared(s) ==
    \/ tick.pc = "create" /\ ScriptOf[tick.at] = s
    \/ tick.pc = "rerun" /\ runs[tick.row].script = s

ActiveOnce(s) ==
    /\ \A q, r \in RowsWith(s, "running") : q = r
    /\ Cleared(s) => ~HasActiveRun(s)

ActiveInv == Request = {} => \A s \in Script : OnlySkips(s) => ActiveOnce(s)

\* A step that makes no row of s running, and does not clear s.
LEMMA ActiveKept ==
    ASSUME NEW s, ActiveOnce(s), RowsWith(s, "running")' \subseteq RowsWith(s, "running"),
           Cleared(s)' => Cleared(s) \/ ~HasActiveRun(s)
    PROVE  ActiveOnce(s)'
BY DEF ActiveOnce, HasActiveRun

\* When nobody triggers, three kinds of step make a row running.
LEMMA RunningMade ==
    ASSUME ExecTypeOK, EngineInv, [Next]_vars, Request = {},
           ~CreateAndDispatch, ~Rerun, \A t \in Task : ~Promote(t), NEW r \in RunId, Running(r)'
    PROVE  Running(r)
<1>0. runs \in [RunId -> RowType \cup {NoRow}]
  BY DEF EngineInv, EngineTypeOK
<1>1. CASE runs' = runs
  BY <1>1 DEF Running
<1>2. ASSUME NEW q \in RunId, BackoffElapses(q)
      PROVE  Running(r)
  <2>1. runs[q] \in RowType /\ runs' = [runs EXCEPT ![q] = [runs[q] EXCEPT !.ripe = TRUE]]
    BY <1>0, <1>2 DEF BackoffElapses, NoRow
  <2>. QED BY <1>0, <2>1 DEF Running, RowType
<1>3. CASE InsertStep
  <2>1. PICK q \in RunId, st \in {"skipped", "pending"} :
             runs' = [runs EXCEPT ![q] = NewRow(ScriptOf[tick.at], tick.at, st)]
    BY <1>3 DEF InsertStep, RecordSkip, RecordDrop, Enqueue, InsertFire
  <2>2. NewRow(ScriptOf[tick.at], tick.at, st).status # "running"
    BY DEF NewRow
  <2>. QED BY <1>0, <2>1, <2>2 DEF Running
<1>4. ASSUME NEW t \in Task, FinalizeTriggered(t) \/ MarkPendingRetry(t) \/ Finalize(t)
      PROVE  Running(r)
  <2>1. stage[t] = "over" /\ outcome[t] # "running"
    BY <1>4 DEF FinalizeTriggered, MarkPendingRetry, Finalize, ExecTypeOK, Outcome
  <2>2. job[t].run \in RunId /\ runs[job[t].run] \in RowType
    BY <1>0, <2>1 DEF EngineInv, Linked, JobLinked, Rows, NoRow
  <2>. QED BY <1>0, <1>4, <2>1, <2>2
           DEF FinalizeTriggered, MarkPendingRetry, Finalize, SetStatus, Running, RowType
<1>5. ASSUME NEW c \in Canceller, CancelWrite(c)
      PROVE  Running(r)
  BY <1>0, <1>5 DEF CancelWrite, SetStatus, Running
<1>. QED BY <1>1, <1>2, <1>3, <1>4, <1>5, RowWriters

\* The tick clears a script only when nothing of it is active.
LEMMA ClearedStep ==
    ASSUME ExecTypeOK, EngineInv, [Next]_vars, NEW s, OnlySkips(s), Cleared(s)'
    PROVE  Cleared(s) \/ ~HasActiveRun(s)
<1>1. CASE tick' = tick
  <2>1. CASE tick.pc = "rerun"
    <3>1. runs'[tick.row].script = runs[tick.row].script
      BY <2>1, OriginKept DEF EngineInv, Linked, TickLinked
    <3>. QED BY <1>1, <2>1, <3>1 DEF Cleared
  <2>2. CASE tick.pc # "rerun"
    BY <1>1, <2>2 DEF Cleared
  <2>. QED BY <2>1, <2>2
<1>2. tick' # Asleep
  BY DEF Cleared, Asleep
<1>3. CASE TickStep
  <2>1. tick \in TickType
    BY DEF EngineInv, EngineTypeOK
  <2>2. CASE CheckOverlap
    <3>1. tick'.pc = "create" /\ ScriptOf[tick.at] = s
      BY <2>1, <2>2 DEF CheckOverlap, Cleared, TickType
    <3>2. Policy[tick.at] = "skip"
      BY <2>2, <3>1 DEF CheckOverlap, OnlySkips, EngineInv, Linked, TickLinked
    <3>. QED BY <2>1, <2>2, <3>1, <3>2 DEF CheckOverlap, TickType
  <2>3. ASSUME NEW r \in RunId, CheckRetry(r)
        PROVE  ~HasActiveRun(s)
    <3>1. ~HasActiveRun(runs[r].script) /\ tick'.pc = "rerun" /\ tick'.row = r
      BY <2>1, <2>3 DEF CheckRetry, Cleared, TickType
    <3>2. runs' = runs
      BY <2>3 DEF CheckRetry, dbVars
    <3>. QED BY <3>1, <3>2 DEF Cleared
  <2>4. CASE BeginTick \/ CheckQueue \/ RecordSkip \/ RecordDrop \/ Enqueue \/ CreateAndDispatch
             \/ PickRetries \/ Rerun
    BY <2>1, <2>4 DEF BeginTick, CheckQueue, RecordSkip, RecordDrop, Enqueue, CreateAndDispatch,
                      BackToFire, PickRetries, Rerun, Cleared, TickType
  <2>5. ~\E sc \in Schedule : AdvanceCursor(sc)
    BY <2>1 DEF AdvanceCursor, Cleared, TickType
  <2>. QED BY <1>2, <1>3, <2>2, <2>3, <2>4, <2>5 DEF TickStep, EndTick
<1>. QED BY <1>1, <1>2, <1>3, OnlyTickMoves

LEMMA ActiveStep ==
    ASSUME ExecTypeOK, EngineInv, OwnInv, ActiveInv, [Next]_vars
    PROVE  ActiveInv'
<1>. SUFFICES ASSUME Request = {}, NEW s \in Script, OnlySkips(s)
              PROVE  ActiveOnce(s)'
  BY DEF ActiveInv, OnlySkips
<1>0. /\ runs \in [RunId -> RowType \cup {NoRow}]
      /\ ActiveOnce(s)
  BY DEF EngineInv, EngineTypeOK, ActiveInv
<1>1. ASSUME NEW q \in RunId, \A r \in RunId \ {q} : runs'[r] = runs[r],
             runs'[q].script = s => Cleared(s), tick'.pc \notin {"create", "rerun"}
      PROVE  ActiveOnce(s)'
  <2>1. ~Cleared(s)'
    BY <1>1 DEF Cleared
  <2>2. CASE runs'[q].script = s
    <3>1. RowsWith(s, "running") = {}
      BY <1>0, <1>1, <2>2 DEF ActiveOnce, HasActiveRun
    <3>2. RowsWith(s, "running")' \subseteq {q}
      BY <1>1, <3>1 DEF RowsWith
    <3>. QED BY <2>1, <3>2 DEF ActiveOnce
  <2>3. CASE runs'[q].script # s
    BY <1>0, <1>1, <2>1, <2>3, ActiveKept DEF RowsWith
  <2>. QED BY <2>2, <2>3
<1>2. CASE CreateAndDispatch
  <2>1. PICK q \in RunId : runs' = [runs EXCEPT ![q] = NewRow(ScriptOf[tick.at], tick.at, "running")]
    BY <1>2 DEF CreateAndDispatch
  <2>2. runs'[q].script = ScriptOf[tick.at]
    BY <1>0, <2>1 DEF NewRow
  <2>3. tick.pc = "create" /\ tick'.pc = "fire"
    BY <1>2 DEF CreateAndDispatch, BackToFire, EngineInv, EngineTypeOK, TickType
  <2>. QED BY <1>0, <1>1, <2>1, <2>2, <2>3 DEF Cleared
<1>3. CASE Rerun
  <2>1. /\ tick.pc = "rerun"
        /\ tick'.pc = "retries"
        /\ tick.row \in Rows
    BY <1>3 DEF Rerun, EngineInv, EngineTypeOK, TickType, Linked, TickLinked
  <2>2. runs'[tick.row].script = runs[tick.row].script
    BY <2>1, OriginKept
  <2>3. tick.row \in RunId /\ \A r \in RunId \ {tick.row} : runs'[r] = runs[r]
    BY <1>0, <1>3, <2>1 DEF Rerun, TakeUp, Rows
  <2>. QED BY <1>1, <2>1, <2>2, <2>3 DEF Cleared
<1>4. ASSUME NEW t \in Task, Promote(t)
      PROVE  ActiveOnce(s)'
  <2>1. JobOwned(t) /\ JobLinked(t) /\ job[t].step = "flip"
    BY <1>4 DEF Promote, OwnInv, JobsOwned, EngineInv, Linked
  <2>2. runs'[job[t].next].script = runs[job[t].next].script
    BY <2>1, OriginKept DEF JobLinked
  <2>3. runs'[job[t].next].script # s
    BY <2>1, <2>2 DEF JobOwned, NeverQueues, OnlySkips
  <2>4. \A r \in RunId : r # job[t].next => runs'[r] = runs[r]
    BY <1>0, <1>4 DEF Promote, TakeUp
  <2>5. RowsWith(s, "running")' \subseteq RowsWith(s, "running")
    BY <2>3, <2>4 DEF RowsWith
  <2>. QED BY <1>0, <2>5, ClearedStep, ActiveKept
<1>5. CASE ~CreateAndDispatch /\ ~Rerun /\ \A t \in Task : ~Promote(t)
  <2>1. ASSUME NEW r \in RunId, runs'[r].script = s, Running(r)'
        PROVE  runs[r].script = s /\ Running(r)
    <3>1. Running(r)
      BY <1>5, <2>1, RunningMade
    <3>2. r \in Rows
      BY <3>1 DEF Running, Rows
    <3>. QED BY <2>1, <3>1, <3>2, OriginKept
  <2>2. RowsWith(s, "running")' \subseteq RowsWith(s, "running")
    BY <2>1 DEF RowsWith, Running
  <2>. QED BY <1>0, <2>2, ClearedStep, ActiveKept
<1>. QED BY <1>2, <1>3, <1>4, <1>5

\* A script that skips on overlap never has two active rows, unless somebody
\* triggers it by hand: between has_active_run and the write that relies on
\* it nobody else makes a row running (scheduler/tick.py).
THEOREM ActiveAlone == Spec => []OneActiveRun
<1>1. Init => ActiveInv
  <2>. SUFFICES ASSUME Init PROVE ActiveInv
    OBVIOUS
  <2>1. \A s : RowsWith(s, "running") = {}
    BY DEF Init, RowsWith, NoRow
  <2>. QED BY <2>1 DEF Init, Asleep, ActiveInv, ActiveOnce, HasActiveRun
<1>2. (ExecTypeOK /\ EngineInv /\ QueueInv /\ OwnInv) /\ ActiveInv /\ [Next]_vars => ActiveInv'
  BY ActiveStep
<1>3. ActiveInv => OneActiveRun
  <2>. SUFFICES ASSUME ActiveInv, Request = {}, NEW s \in Script, OnlySkips(s)
                PROVE  Cardinality(RowsWith(s, "running")) <= 1
    BY DEF OneActiveRun
  <2>1. \A q, r \in RowsWith(s, "running") : q = r
    BY DEF ActiveInv, ActiveOnce
  <2>2. CASE RowsWith(s, "running") = {}
    BY <2>2, FS_EmptySet
  <2>3. CASE RowsWith(s, "running") # {}
    <3>1. PICK r : RowsWith(s, "running") = {r}
      BY <2>1, <2>3
    <3>2. Cardinality({r}) = 1
      BY FS_Singleton
    <3>. QED BY <3>1, <3>2
  <2>. QED BY <2>2, <2>3
<1>. QED BY <1>1, <1>2, <1>3, AlwaysOwned, PTL DEF Spec
=============================================================================
