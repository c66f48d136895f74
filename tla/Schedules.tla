------------------------------ MODULE Schedules ------------------------------
(***************************************************************************)
(* The rows of the schedules table: the requests that edit them            *)
(* (api/schedules.py, DELETE in api/scripts.py), the tick that works from  *)
(* a copy of them (scheduler/tick.py), and the computation of the next     *)
(* fire (services/schedule_service.py).                                    *)
(*                                                                         *)
(* Time is a sequence of instants.  What a cron expression means is the    *)
(* croniter library's affair; here a plan (kind, expression, timezone and  *)
(* filters of a row) comes with the instants it stands for: Calendar, in   *)
(* its timezone and on the days its filters allow, and Naive, in UTC and   *)
(* on every day.  What becomes of a fire once its row is inserted is the   *)
(* matter of RunEngine.                                                    *)
(***************************************************************************)
EXTENDS Naturals

CONSTANTS
    Schedule,      \* schedules.id
    Script,        \* scripts.id
    ScriptOf,      \* schedules.script_id, which no request changes
    Plan,          \* what a row says about when to fire
    NoPlan,
    Interval,      \* the plans of kind interval
    Step,          \* and the length of each interval
    Broken,        \* cron plans whose computation raises no ComputeError but
                   \* another exception (ZoneInfo does, on an absolute path)
    Calendar,      \* instants of a cron plan, timezone and filters applied
    Naive,         \* instants of its expression alone
    Window,        \* _MAX_COMPUTE_HORIZON_DAYS
    First,         \* the plans of the schedules that are there at the start
    Request,       \* editing requests, each made at most once, numbered in
                   \* the order in which they are made
    Nowhere,       \* "the tick has no row in hand"
    Horizon,       \* bound: the last instant of the clock
    MaxFaults      \* bound: database errors that end a tick

ASSUME SchedulesAssumption ==
    /\ ScriptOf \in [Schedule -> Script]
    /\ Interval \subseteq Plan
    /\ Broken \subseteq Plan \ Interval
    /\ NoPlan \notin Plan
    /\ Step \in [Plan -> Nat]
    /\ Calendar \in [Plan -> SUBSET Nat]
    /\ Naive \in [Plan -> SUBSET Nat]
    /\ \A p \in Plan, i \in 0 .. Horizon : \E j \in Naive[p] : i < j
    /\ First \in [Schedule -> Plan \cup {NoPlan}]
    /\ Window \in Nat
    /\ Request \subseteq Nat
    /\ Nowhere \notin Schedule
    /\ Horizon \in Nat
    /\ MaxFaults \in Nat

VARIABLES
    row,       \* the schedules table
    scripts,   \* the scripts that exist
    request,   \* progress of each editing request
    pc,        \* where the scheduler's coroutine is
    copy,      \* the due rows it has not handled yet, as list_due returned them
    hand,      \* the schedule whose cursor is written and whose run is not yet
    clock,
    faults,
    hist       \* history: see HistType

tickVars == <<pc, copy, hand>>
vars == <<row, scripts, request, tickVars, clock, faults, hist>>

-----------------------------------------------------------------------------
(* schedule_service.py: the next instant. *)

Earliest(S) == CHOOSE i \in S : \A j \in S : i <= j

\* compute_next_run: the first instant after i that the timezone and the
\* filters leave, if there is one within the window.
Candidates(p, i) == {j \in Calendar[p] : i < j /\ j <= i + Window}
ComputeFails(p, i) == p \notin Interval /\ Candidates(p, i) = {}

\* advance_next_run.  It knows neither timezone nor filters.
AdvanceNext(p, i) ==
    IF p \in Interval THEN i + Step[p] ELSE Earliest({j \in Naive[p] : i < j})

\* Fault: the tick too computes with advance_next_run.
NextFireNaive(p, i) == AdvanceNext(p, i)

\* What the tick makes of a due row: a ComputeError keeps the cursor.
NextFire(p, i) ==
    IF p \in Interval THEN i + Step[p]
    ELSE IF ComputeFails(p, i) THEN i
    ELSE Earliest(Candidates(p, i))

-----------------------------------------------------------------------------
RowType == [is : {"there"}, plan : Plan, enabled : BOOLEAN, next : Nat]
Absent == [is |-> "absent", plan |-> NoPlan, enabled |-> FALSE, next |-> 0]
NewRow(p, on, i) == [is |-> "there", plan |-> p, enabled |-> on, next |-> i]
Deleted == [is |-> "deleted", plan |-> NoPlan, enabled |-> FALSE, next |-> 0]

There(s) == row[s].is = "there"

\* list_due joins with scripts, so the row of a deleted script is never due.
On(s) == There(s) /\ row[s].enabled /\ ScriptOf[s] \in scripts

\* A request has passed its checks ("asked") and is going to write.  next was
\* computed before the checks.
RequestType == [pc : {"new", "asked", "done"},
                op : {"none", "create", "update", "set", "delete"},
                on : Schedule \cup {Nowhere}, plan : Plan \cup {NoPlan},
                enabled : BOOLEAN, next : Nat]
NewRequest == [pc |-> "new", op |-> "none", on |-> Nowhere, plan |-> NoPlan,
               enabled |-> FALSE, next |-> 0]

CopyType == [plan : Plan, next : Nat]
NoCopy == [plan |-> NoPlan, next |-> 0]

\* taken: fires the tick has taken in hand since the plan was last written,
\* counted up to 2; last: the latest of them.  late: runs inserted since the
\* schedule was last switched off, counted up to 2.  edited: the plan has
\* been written over.
HistType == [taken : 0 .. 2, last : Nat, late : 0 .. 2, edited : BOOLEAN]
NoHist == [taken |-> 0, last |-> 0, late |-> 0, edited |-> FALSE]
UpTo2(n) == IF n < 2 THEN n + 1 ELSE n

Due(s) == On(s) /\ row[s].next <= clock

TypeOK ==
    /\ row \in [Schedule -> RowType \cup {Absent, Deleted}]
    /\ scripts \subseteq Script
    /\ request \in [Request -> RequestType]
    /\ pc \in {"sleep", "loop", "insert"}
    /\ copy \in [Schedule -> CopyType \cup {NoCopy}]
    /\ \A s \in Schedule : copy[s].next <= clock
    /\ hand \in Schedule \cup {Nowhere}
    /\ clock \in 0 .. Horizon
    /\ faults \in 0 .. MaxFaults
    /\ hist \in [Schedule -> HistType]

\* Some schedules were created just before.
Init ==
    /\ row = [s \in Schedule |->
           IF First[s] = NoPlan THEN Absent ELSE NewRow(First[s], TRUE, AdvanceNext(First[s], 0))]
    /\ scripts = Script
    /\ request = [r \in Request |-> NewRequest]
    /\ pc = "sleep"
    /\ copy = [s \in Schedule |-> NoCopy]
    /\ hand = Nowhere
    /\ clock = 0
    /\ faults = 0
    /\ hist = [s \in Schedule |-> NoHist]

ClockMoves ==
    /\ clock < Horizon
    /\ clock' = clock + 1
    /\ UNCHANGED <<row, scripts, request, tickVars, faults, hist>>

-----------------------------------------------------------------------------
(* Requests. *)

Ask(r, op, s, p, on) ==
    /\ request[r].pc = "new"
    /\ \A q \in Request : q < r => request[q].pc # "new"
    /\ ScriptOf[s] \in scripts
    /\ request' = [request EXCEPT ![r] =
           [pc |-> "asked", op |-> op, on |-> s, plan |-> p, enabled |-> on,
            next |-> IF p = NoPlan THEN 0 ELSE AdvanceNext(p, clock)]]
    /\ UNCHANGED <<row, scripts, tickVars, clock, faults, hist>>

\* create: the first fire comes from advance_next_run.
AskCreate(r, s, p, on) == row[s] = Absent /\ Ask(r, "create", s, p, on)

\* update_schedule: so does the first one under the new plan.
AskUpdate(r, s, p, on) == There(s) /\ Ask(r, "update", s, p, on)

\* enable and disable.
AskSet(r, s, on) == There(s) /\ Ask(r, "set", s, NoPlan, on)

AskDelete(r, s) == There(s) /\ Ask(r, "delete", s, NoPlan, FALSE)

Writes(r, op) ==
    /\ request[r].pc = "asked"
    /\ request[r].op = op
    /\ request' = [request EXCEPT ![r] = [NewRequest EXCEPT !.pc = "done"]]
    /\ UNCHANGED <<scripts, tickVars, clock, faults>>

Insert(r) ==
    LET q == request[r]
    IN  /\ Writes(r, "create")
        /\ row[q.on] = Absent
        /\ row' = [row EXCEPT ![q.on] = NewRow(q.plan, q.enabled, q.next)]
        /\ UNCHANGED hist

Update(r) ==
    LET q == request[r]
    IN  /\ Writes(r, "update")
        /\ There(q.on)
        /\ row' = [row EXCEPT ![q.on] = NewRow(q.plan, q.enabled, q.next)]
        /\ hist' = [hist EXCEPT ![q.on] =
               [taken |-> 0, last |-> 0, edited |-> TRUE,
                late |-> IF q.enabled THEN 0 ELSE @.late]]

\* Fault: enabling and disabling does not reach the row.
SetEnabledUnwritten(r) ==
    /\ Writes(r, "set")
    /\ There(request[r].on)
    /\ UNCHANGED <<row, hist>>

\* _set_enabled: the cursor stays where it was.
SetEnabled(r) ==
    LET q == request[r]
    IN  /\ Writes(r, "set")
        /\ There(q.on)
        /\ row' = [row EXCEPT ![q.on].enabled = q.enabled]
        /\ hist' = [hist EXCEPT ![q.on].late = IF q.enabled THEN 0 ELSE @]

Remove(r) ==
    /\ Writes(r, "delete")
    /\ There(request[r].on)
    /\ row' = [row EXCEPT ![request[r].on] = Deleted]
    /\ UNCHANGED hist

\* The row was deleted between check and write: the statement changes nothing.
WritesNothing(r) ==
    /\ \E op \in {"update", "set", "delete"} : Writes(r, op)
    /\ ~There(request[r].on)
    /\ UNCHANGED <<row, hist>>

\* DELETE of a script removes its row only: foreign keys are not enforced.
DeleteScript(sc) ==
    /\ sc \in scripts
    /\ scripts' = scripts \ {sc}
    /\ UNCHANGED <<row, request, tickVars, clock, faults, hist>>

-----------------------------------------------------------------------------
(* The tick, Phase 1. *)

Listed(S) ==
    /\ pc = "sleep"
    /\ pc' = "loop"
    /\ copy' = [s \in Schedule |->
           IF s \in S THEN [plan |-> row[s].plan, next |-> row[s].next] ELSE NoCopy]
    /\ UNCHANGED <<row, scripts, request, hand, clock, faults, hist>>

\* Fault: list_due without its filter on enabled.
ListDueDisabled == Listed({s \in Schedule : There(s) /\ row[s].next <= clock})

\* Fault: list_due without its filter on next_run_at.
ListDueEarly == Listed({s \in Schedule : On(s)})

ListDue == Listed({s \in Schedule : Due(s)})

StopTick == pc' = "sleep" /\ copy' = [s \in Schedule |-> NoCopy] /\ hand' = Nowhere

\* Fault: a ComputeError is not caught, and ends the tick.
AdvanceCursorOrStop(s) ==
    /\ pc = "loop"
    /\ copy[s] # NoCopy
    /\ copy[s].plan \notin Broken
    /\ IF ComputeFails(copy[s].plan, copy[s].next)
       THEN StopTick /\ UNCHANGED <<row, hist>>
       ELSE /\ row' = IF There(s)
                      THEN [row EXCEPT ![s].next = NextFire(copy[s].plan, copy[s].next)] ELSE row
            /\ copy' = [copy EXCEPT ![s] = NoCopy]
            /\ pc' = "insert"
            /\ hand' = s
            /\ hist' = [hist EXCEPT ![s].taken = UpTo2(@), ![s].last = copy[s].next]
    /\ UNCHANGED <<scripts, request, clock, faults>>

\* The next fire is computed from the copy and written over whatever cursor
\* the row has by now, if there is a row.
AdvanceCursor(s) ==
    /\ pc = "loop"
    /\ copy[s] # NoCopy
    /\ copy[s].plan \notin Broken
    /\ row' = IF There(s)
              THEN [row EXCEPT ![s].next = NextFire(copy[s].plan, copy[s].next)] ELSE row
    /\ copy' = [copy EXCEPT ![s] = NoCopy]
    /\ pc' = "insert"
    /\ hand' = s
    /\ hist' = [hist EXCEPT ![s].taken = UpTo2(@), ![s].last = copy[s].next]
    /\ UNCHANGED <<scripts, request, clock, faults>>

\* An exception that is no ComputeError ends the tick, for this row and for
\* those behind it.
AdvanceRaises(s) ==
    /\ pc = "loop"
    /\ copy[s].plan \in Broken
    /\ StopTick
    /\ UNCHANGED <<row, scripts, request, clock, faults, hist>>

\* Whatever the overlap policy decides, a row of runs for this fire.
InsertRun ==
    /\ pc = "insert"
    /\ pc' = "loop"
    /\ hand' = Nowhere
    /\ hist' = IF On(hand) THEN hist ELSE [hist EXCEPT ![hand].late = UpTo2(@)]
    /\ UNCHANGED <<row, scripts, request, copy, clock, faults>>

EndTick ==
    /\ pc = "loop"
    /\ \A s \in Schedule : copy[s] = NoCopy
    /\ StopTick
    /\ UNCHANGED <<row, scripts, request, clock, faults, hist>>

\* A database error, or the end of the server.
TickFails ==
    /\ pc # "sleep"
    /\ faults < MaxFaults
    /\ faults' = faults + 1
    /\ StopTick
    /\ UNCHANGED <<row, scripts, request, clock, hist>>

TickStep ==
    \/ ListDue
    \/ \E s \in Schedule : AdvanceCursor(s) \/ AdvanceRaises(s)
    \/ InsertRun
    \/ EndTick

RequestStep(r) ==
    \/ \E s \in Schedule :
          \/ \E p \in Plan, on \in BOOLEAN : AskCreate(r, s, p, on) \/ AskUpdate(r, s, p, on)
          \/ \E on \in BOOLEAN : AskSet(r, s, on)
          \/ AskDelete(r, s)
    \/ Insert(r)
    \/ Update(r)
    \/ SetEnabled(r)
    \/ Remove(r)
    \/ WritesNothing(r)

Next ==
    \/ ClockMoves
    \/ TickStep
    \/ TickFails
    \/ \E r \in Request : RequestStep(r)
    \/ \E sc \in Script : DeleteScript(sc)

Spec == Init /\ [][Next]_vars

\* The scheduler's loop goes on; nobody has to make or finish a request.
FairSpec == Spec /\ WF_vars(TickStep)

-----------------------------------------------------------------------------
(* Properties. *)

\* The fires of a plan: j comes after i with none in between.
Follows(p, i, j) ==
    IF p \in Interval THEN j = i + Step[p]
    ELSE /\ j \in Calendar[p] /\ i < j
         /\ \A k \in Calendar[p] : i < k => j <= k

\* Nothing of a cron plan is left within the window: the cursor stays at i.
Exhausted(p, i) ==
    /\ p \notin Interval
    /\ \A k \in Calendar[p] : i < k => i + Window < k

\* advance_next_run gives a row its first cursor without regard to its
\* timezone and filters, and a tick that works from an older copy may write a
\* cursor of the plan before; yet from the second fire of a new row, and from
\* the third fire after a plan was written over, whatever requests and ticks
\* interleave, each fire is the next of the plan: none is left out, doubled or
\* off the calendar.  One case is excepted, and it is the code's own: where
\* the plan has no fire within seven days of the last, the tick catches the
\* ComputeError, keeps the cursor and fires all the same, so the fire before
\* is taken again, by every tick, until somebody edits the row.  The window
\* is counted from the cursor, not from now, so time does not help.  The
\* shipped preset "First of month" (services/presets.py) is such a plan, and
\* the design's "always keeps the schedule moving" does not hold of it.
FiresFollowPlan ==
    [][\A s \in Schedule :
          /\ hand # s /\ hand' = s
          /\ There(s)
          /\ hist[s].taken >= IF hist[s].edited THEN 2 ELSE 1
          => IF Exhausted(row[s].plan, hist[s].last)
             THEN hist'[s].last = hist[s].last
             ELSE Follows(row[s].plan, hist[s].last, hist'[s].last)]_vars

\* A schedule that was disabled or deleted, or whose script was deleted, still
\* fires at most once: only a tick that had it in its copy may do that, and
\* the tick after it does not find it.
LateOnce == \A s \in Schedule : hist[s].late <= 1

\* A plan that always has a fire within the window, and a computation that
\* does not fail otherwise.
Regular(p) ==
    /\ p \notin Broken
    /\ p \in Interval => Step[p] > 0
    /\ p \notin Interval => \A i \in 0 .. Horizon : Candidates(p, i) # {}

\* A due row whose computation raises what the tick does not catch.
Blocked == \E s \in Schedule : Due(s) /\ row[s].plan \in Broken

\* A due schedule with such a plan fires, whatever becomes of the others, as
\* long as none of them is Blocked: one whose next fire is beyond the window
\* does not stop the tick.
RegularFires ==
    \A s \in Schedule :
        Due(s) /\ Regular(row[s].plan) ~> ~(Due(s) /\ Regular(row[s].plan)) \/ Blocked
=============================================================================
