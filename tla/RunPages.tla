------------------------------ MODULE RunPages ------------------------------
(***************************************************************************)
(* What the browser shows of runs: the list (pages/Runs.tsx), one run      *)
(* (pages/RunView.tsx with useLiveLogs) and the Logs tab of a script       *)
(* (pages/ScriptEdit.tsx), each on top of polled answers and of a server   *)
(* on which runs go on meanwhile.  The router mounts one page at a time:   *)
(* route says which, from the beginning, and the state of the others is    *)
(* left at its start.                                                      *)
(*                                                                         *)
(* The answer to a poll that is merely late is a poll made earlier, so it  *)
(* is one step with the poll; an answer that the code may drop, or take    *)
(* for another run, is a step of its own.                                  *)
(***************************************************************************)
EXTENDS Naturals, FiniteSets

CONSTANTS
    LastRun,         \* bound: how many runs there will be
    ScheduleFilters, \* the choices of the first select; 0 is "all"
    StatusFilters,   \* the choices of the second
    SchedulesOf,     \* the schedule of each run
    PageSize,        \* PAGE_SIZE
    RunningLimit,    \* the limit of "runs-running", 100 in the code
    LastPage,        \* bound: pages looked at
    MaxLooks,        \* bound: changes of filter and page
    MaxLines,        \* bound: lines an attempt writes
    TabLines,        \* ... when it is looked at in the Logs tab
    MaxAttempts,     \* bound: attempts that reach the log file
    Outcomes,        \* bound: how runs end, but for the one looked at in "view"
    MaxRestarts,     \* bound: how often the server is started again
    MayCancel        \* user.role # "viewer"

Runs == 1 .. LastRun
Ended == {"success", "failure", "error"}
Status == {"none", "running", "cancelled", "skipped", "pending", "pending_retry"} \cup Ended
Logs == [try : 0 .. MaxAttempts, n : 0 .. MaxLines]

ASSUME PagesAssumption ==
    /\ LastRun \in Nat \ {0} /\ PageSize \in Nat \ {0} /\ LastPage \in Nat \ {0}
    /\ RunningLimit \in Nat \ {0} /\ MaxAttempts \in Nat \ {0} /\ MaxRestarts \in Nat
    /\ 0 \in ScheduleFilters /\ ScheduleFilters \subseteq Nat
    /\ "all" \in StatusFilters
    /\ SchedulesOf \in [Runs -> Nat]
    /\ Outcomes \subseteq Ended
    /\ MaxLines \in Nat /\ TabLines \in 0 .. MaxLines /\ MaxLooks \in Nat /\ MayCancel \in BOOLEAN

Keys == [schedule : ScheduleFilters, status : StatusFilters, page : 1 .. LastPage]
NoKey == [schedule |-> 0, status |-> "all", page |-> 0]
NoRows == {[id |-> 0, status |-> "none"]}     \* a query without data
NoFile == [try |-> 0, n |-> 0]
Unset == [try |-> 0, n |-> MaxLines + 1]      \* a channel open, a log not fetched

VARIABLES
    status, log,   \* server: the runs, and their log files: the attempt that
                   \* wrote it, and its lines
    task,          \* server: where the task of each run is
    closedAt,      \* server: log broker: the log when the run's channel was
                   \* closed, Unset before
    restarts,
    route,         \* which page is mounted: "list", "view" or "script"
    key,           \* Runs: the two filters and the page
    history,       \* ["runs-history", ...] of the key: rows, or NoRows
    lastKey, last, \* the query before with data, and its data
    looks,         \* changes of filter and page so far
    running,       \* ["runs-running", ...]: ScheduleFilters -> rows, or NoRows
    asked,         \* filters of which "runs-running" is being fetched
    viewed, row,   \* RunView: the run, and the status in ["run", id]
    stream,        \* the EventSource: "closed", "open" or "done"
    at,            \* the last line the connection has passed on
    lines, ended,  \* events (attempt, line) and ended of useLiveLogs
    recorded,      \* ["run-log", id]: the recorded log, or Unset
    recording,     \* ... is being fetched
    missed,        \* history: "found" the run ended; or "yes" if the connection
                   \* began after the first line, or again, or lost one; or "no"
    final,         \* history: what was published, when the end arrived
    clicked,       \* ScriptEdit: run.mutate(): NotClicked, Sent, or the answer
    current, polled, runLog,  \* currentRunId, runStatus.data and runLog
    fetches,       \* the fetches of the log, live until the effect is cleaned up
    failed,        \* history: the last of them failed
    crossed        \* history: the text shown was being read from a response when
                   \* its effect was cleaned up

server == <<status, log, task, closedAt, restarts>>
list == <<key, history, lastKey, last, looks, running, asked>>
view == <<viewed, row, stream, at, lines, ended, recorded, recording, missed, final>>
tabs == <<clicked, current, polled, runLog, fetches, failed, crossed>>
vars == <<server, route, list, view, tabs>>

NoLog == [run |-> 0, n |-> 0]
NotClicked == 0
Sent == LastRun + 1
Rows == [id : Runs, status : Status \ {"none"}]

RunsTypeOK ==
    /\ status \in [Runs -> Status] /\ log \in [Runs -> Logs] /\ restarts \in 0 .. MaxRestarts
    /\ task \in [Runs -> {"none", "waiting", "writing", "exited"}]
    /\ closedAt \in [Runs -> Logs \cup {Unset}]
    /\ route \in {"list", "view", "script"}
    /\ key \in Keys /\ lastKey \in Keys \cup {NoKey}
    /\ history \in {NoRows} \cup SUBSET Rows /\ last \in {NoRows} \cup SUBSET Rows
    /\ looks \in 0 .. MaxLooks
    /\ \A f \in ScheduleFilters : running[f] = NoRows \/ running[f] \subseteq Rows
    /\ asked \subseteq ScheduleFilters
    /\ viewed \in Runs /\ row \in Status /\ stream \in {"closed", "open", "done"}
    /\ at \in 0 .. MaxLines /\ ended \in BOOLEAN
    /\ lines \subseteq (0 .. MaxAttempts) \X (1 .. MaxLines)
    /\ recorded \in Logs \cup {Unset} /\ recording \in BOOLEAN
    /\ missed \in {"found", "no", "yes"} /\ final \in Logs \cup {Unset}
    /\ clicked \in {NotClicked, Sent} \cup Runs
    /\ current \in 0 .. LastRun /\ polled \in Status
    /\ runLog \in [run : 0 .. LastRun, n : 0 .. MaxLines]
    /\ fetches \subseteq [run : Runs, n : 0 .. MaxLines, live : BOOLEAN,
                   stage : {"sent", "reading", "crossed"}]
    /\ failed \in BOOLEAN /\ crossed \in BOOLEAN

(* The first runs are there: running, before the log file or with some     *)
(* lines in it, or over.                                                   *)
Init ==
    /\ status \in [Runs -> {"none", "running", "success"}]
    /\ \A r, q \in Runs : r < q /\ status[q] # "none" => status[r] # "none"
    /\ log \in [Runs -> {l \in Logs : l.try <= 1 /\ (l.n > 0 => l.try = 1)}]
    /\ \A r \in Runs : status[r] = "none" => log[r] = NoFile
    /\ task = [r \in Runs |-> CASE status[r] # "running" -> "none"
                                [] status[r] = "running" /\ log[r].try = 0 -> "waiting"
                                [] OTHER -> "writing"]
    /\ restarts = 0
    /\ route \in {"list", "view", "script"}
    /\ closedAt = [r \in Runs |-> IF route # "list" /\ status[r] = "success" THEN log[r]
                                ELSE Unset]
    /\ route = "list" => \A r \in Runs : log[r] = NoFile
    /\ route = "script" => \A r \in Runs : status[r] = "none"
    /\ key = [schedule |-> 0, status |-> "all", page |-> 1]
    /\ history = NoRows /\ lastKey = NoKey /\ last = NoRows /\ looks = 0
    /\ running = [f \in ScheduleFilters |-> NoRows]
    /\ asked = {0}
    /\ viewed \in IF route = "view" THEN {r \in Runs : status[r] # "none"} ELSE {1}
    /\ route = "view" => \A r \in Runs \ {viewed} : status[r] = "none"
    /\ row = "none" /\ stream = "closed" /\ at = 0 /\ lines = {}
    /\ ended = FALSE /\ recorded = Unset /\ recording = TRUE /\ final = Unset
    /\ missed = IF closedAt[viewed] = Unset THEN "no" ELSE "found"
    /\ clicked = NotClicked /\ current = 0 /\ polled = "none" /\ runLog = NoLog
    /\ fetches = {} /\ failed = FALSE /\ crossed = FALSE
-----------------------------------------------------------------------------
(* The server, as RunEngine has it, but for a row that two tasks execute:  *)
(* runs begin, wait or are skipped, wait again for their retry, write, are *)
(* cancelled by somebody else, and end; what settles a run writes over a   *)
(* cancel.  A channel that was closed stays closed.  (The list sees the    *)
(* statuses only: logs, channels and what goes on between two statuses are *)
(* left out where it is looked at.)                                        *)
Close(r) ==
    closedAt' = IF route # "list" /\ closedAt[r] = Unset
                THEN [closedAt EXCEPT ![r] = log[r]] ELSE closedAt

Fresh(r) == status[r] = "none" /\ \A q \in 1 .. r - 1 : status[q] # "none"

Begin(r) ==
    /\ route # "script" /\ Fresh(r)
    /\ \/ status' = [status EXCEPT ![r] = "running"] /\ task' = [task EXCEPT ![r] = "waiting"]
       \/ \E s \in {"skipped", "pending"} : status' = [status EXCEPT ![r] = s] /\ UNCHANGED task
    /\ UNCHANGED <<log, closedAt, restarts, route, list, view, tabs>>

(* A queued run that is promoted, or a retry that is due. *)
TakeUp(r) ==
    /\ status[r] \in {"pending", "pending_retry"}
    /\ status' = [status EXCEPT ![r] = "running"]
    /\ task' = [task EXCEPT ![r] = "waiting"]
    /\ UNCHANGED <<log, closedAt, restarts, route, list, view, tabs>>

\* Fault: each attempt has a channel of its own.
OpenLogAndChannel(r) ==
    /\ route # "list" /\ task[r] = "waiting" /\ log[r].try < MaxAttempts
    /\ task' = [task EXCEPT ![r] = "writing"]
    /\ log' = [log EXCEPT ![r] = [try |-> @.try + 1, n |-> 0]]
    /\ closedAt' = [closedAt EXCEPT ![r] = Unset]
    /\ at' = IF r = viewed THEN 0 ELSE at
    /\ UNCHANGED <<status, restarts, route, list, viewed, row, stream, lines, ended, recorded,
                   recording, missed, final, tabs>>

(* The file of the attempt before is opened with "wb".  Who listens on a   *)
(* channel that is still open has heard nothing on it yet.                 *)
OpenLog(r) ==
    /\ route # "list" /\ task[r] = "waiting" /\ log[r].try < MaxAttempts
    /\ task' = [task EXCEPT ![r] = "writing"]
    /\ log' = [log EXCEPT ![r] = [try |-> @.try + 1, n |-> 0]]
    /\ at' = IF r = viewed /\ closedAt[r] = Unset THEN 0 ELSE at
    /\ UNCHANGED <<status, closedAt, restarts, route, list, viewed, row, stream, lines, ended,
                   recorded, recording, missed, final, tabs>>

WriteLine(r) ==
    /\ task[r] = "writing" /\ log[r].n < IF route = "script" THEN TabLines ELSE MaxLines
    /\ log' = [log EXCEPT ![r].n = @ + 1]
    /\ UNCHANGED <<status, task, closedAt, restarts, route, list, view, tabs>>

CancelElsewhere(r) ==
    /\ status[r] = "running"
    /\ status' = [status EXCEPT ![r] = "cancelled"]
    /\ Close(r)
    /\ UNCHANGED <<log, task, restarts, route, list, view, tabs>>

(* The attempt is over, perhaps before there was a process. *)
Exit(r) ==
    /\ route # "list" /\ task[r] \in {"waiting", "writing"}
    /\ task' = [task EXCEPT ![r] = "exited"]
    /\ Close(r)
    /\ UNCHANGED <<status, log, restarts, route, list, view, tabs>>

(* finalize_run or mark_pending_retry, which only scheduled runs have. *)
Settle(r) ==
    /\ task[r] = "exited" \/ (route = "list" /\ task[r] # "none")
    /\ task' = [task EXCEPT ![r] = "none"]
    /\ \/ \E s \in (IF route = "view" THEN Ended ELSE Outcomes) :
             status' = [status EXCEPT ![r] = s]
       \/ /\ route # "script" /\ log[r].try < MaxAttempts
          /\ status' = [status EXCEPT ![r] = "pending_retry"]
    /\ UNCHANGED <<log, closedAt, restarts, route, list, view, tabs>>
-----------------------------------------------------------------------------
(* The list.  GET /runs: newest first, filtered, a page of them.           *)
Wanted(f) == IF f = "failed" THEN "failure" ELSE f

Matching(schedule, f) ==
    {r \in Runs : /\ status[r] # "none"
                  /\ schedule = 0 \/ SchedulesOf[r] = schedule
                  /\ f = "all" \/ status[r] = Wanted(f)}

Answer(k, size) ==
    LET all == Matching(k.schedule, k.status)
        newer(r) == Cardinality({q \in all : q > r})
    IN {[id |-> r, status |-> status[r]] :
           r \in {q \in all : newer(q) >= (k.page - 1) * size
                              /\ newer(q) < k.page * size}}

\* Fault: the status is not part of the query's key.
HistoryKeyWithoutStatus(k) == [k EXCEPT !.status = "all"]

(* queryKey: ["runs-history", schedule, status, page]. *)
HistoryKey(k) == k

(* The rows of the History table: those of the key, or, until it has some, *)
(* those shown before (keepPreviousData).                                  *)
ShownHistory ==
    CASE history # NoRows -> history
      [] history = NoRows /\ last # NoRows -> last
      [] OTHER -> {}

ShownRunning ==
    IF running[key.schedule] = NoRows THEN {} ELSE running[key.schedule]

(* The button of a row of "Currently running". *)
CancelButtons == {r.id : r \in {q \in ShownRunning : MayCancel /\ q.status = "running"}}

HistoryPolled ==
    /\ route = "list"
    /\ history # Answer(key, PageSize)
    /\ history' = Answer(key, PageSize)
    /\ UNCHANGED <<server, route, key, lastKey, last, looks, running, asked, view, tabs>>

\* Fault: polling goes on for two rows or more.
PollsRunningOfSeveral(f) == running[f] # NoRows /\ Cardinality(running[f]) > 1

(* refetchInterval of "runs-running": every 2 seconds while it has rows.   *)
PollsRunning(f) == running[f] # NoRows /\ running[f] # {}

RunningPolled(f) ==
    /\ route = "list"
    /\ f \in asked \/ (f = key.schedule /\ PollsRunning(f))
    /\ running' = [running EXCEPT ![f] =
                      Answer([schedule |-> f, status |-> "running", page |-> 1],
                             RunningLimit)]
    /\ asked' = asked \ {f}
    /\ UNCHANGED <<server, route, key, history, lastKey, last, looks, view, tabs>>

(* The fetch and its one retry fail: what was there remains. *)
RunningFails(f) ==
    /\ route = "list" /\ f \in asked
    /\ asked' = asked \ {f}
    /\ UNCHANGED <<server, route, key, history, lastKey, last, looks, running, view, tabs>>

(* A query that comes into view is fetched again (staleTime is 0).  The    *)
(* cache still has the rows of the query looked at before; it has had the  *)
(* time to drop the others.                                                *)
Look(k) ==
    /\ looks < MaxLooks /\ looks' = looks + 1
    /\ key' = k
    /\ asked' = IF k.schedule = key.schedule THEN asked ELSE asked \cup {k.schedule}
    /\ CASE HistoryKey(k) = HistoryKey(key) -> UNCHANGED <<history, lastKey, last>>
         [] HistoryKey(k) # HistoryKey(key) /\ history # NoRows ->
               /\ history' = IF HistoryKey(k) = lastKey THEN last ELSE NoRows
               /\ lastKey' = HistoryKey(key) /\ last' = history
         [] OTHER ->
               /\ history' = IF HistoryKey(k) = lastKey THEN last ELSE NoRows
               /\ UNCHANGED <<lastKey, last>>
    /\ UNCHANGED <<server, route, running, view, tabs>>

(* A change of either filter goes back to the first page. *)
SelectFilters ==
    /\ route = "list"
    /\ \E f \in ScheduleFilters \ {key.schedule} :
          Look([key EXCEPT !.schedule = f, !.page = 1])
       \/ \E s \in StatusFilters \ {key.status} :
          Look([key EXCEPT !.status = s, !.page = 1])

\* Fault: the handler of the disabled link acts, too.
TurnAnyhow ==
    /\ route = "list"
    /\ \/ Look([key EXCEPT !.page = @ - 1])
       \/ key.page < LastPage /\ Look([key EXCEPT !.page = @ + 1])

(* The links are only marked as disabled; LastPage is a bound of the model. *)
Turn ==
    /\ route = "list"
    /\ \/ key.page > 1 /\ Look([key EXCEPT !.page = @ - 1])
       \/ key.page < LastPage /\ Look([key EXCEPT !.page = @ + 1])

(* cancelRun: the endpoint answers 200 whatever the run's status is, and   *)
(* both queries are fetched again, also when the request has failed.       *)
CancelFromList(r) ==
    /\ route = "list" /\ r \in CancelButtons
    /\ \/ /\ status[r] = "running"
          /\ status' = [status EXCEPT ![r] = "cancelled"] /\ Close(r)
       \/ UNCHANGED <<status, closedAt>>
    /\ asked' = asked \cup {key.schedule}
    /\ UNCHANGED <<log, task, restarts, route, key, history, lastKey, last, looks, running,
                   view, tabs>>

List ==
    \/ HistoryPolled \/ SelectFilters \/ Turn
    \/ \E f \in ScheduleFilters : RunningPolled(f) \/ RunningFails(f)
    \/ \E r \in Runs : CancelFromList(r)
-----------------------------------------------------------------------------
(* One run. *)
RowPolled ==
    /\ route = "view"
    /\ row' = status[viewed]
    /\ UNCHANGED <<server, route, list, viewed, stream, at, lines, ended,
                   recorded, recording, missed, final, tabs>>

(* The subscription passes on what is published from now on, and the end.  *)
(* What is written after the channel was closed - by a process that was    *)
(* cancelled, by the next attempt - is in the log only.                    *)
Published == IF closedAt[viewed] = Unset THEN log[viewed] ELSE closedAt[viewed]

StreamOpens ==
    /\ route = "view" /\ stream = "closed"
    /\ stream' = "open"
    /\ at' = Published.n
    /\ missed' = IF missed = "no" /\ Published.n > 0 THEN "yes" ELSE missed
    /\ UNCHANGED <<server, route, list, viewed, row, lines, ended, recorded,
                   recording, final, tabs>>

LineArrives ==
    /\ stream = "open" /\ at < Published.n
    /\ at' = at + 1
    /\ lines' = lines \cup {<<Published.try, at + 1>>}
    /\ UNCHANGED <<server, route, list, viewed, row, stream, ended, recorded,
                   recording, missed, final, tabs>>

(* The subscriber's queue is full: publish passes over it.  (Of the lines  *)
(* it takes 1024; any line may find it full here.)                         *)
LineDropped ==
    /\ stream = "open" /\ at < Published.n
    /\ at' = at + 1
    /\ missed' = IF missed = "no" THEN "yes" ELSE missed
    /\ UNCHANGED <<server, route, list, viewed, row, stream, lines, ended, recorded,
                   recording, final, tabs>>

(* Or is dropped like a line, and does not arrive. *)
EndArrives ==
    /\ stream = "open" /\ at = Published.n /\ closedAt[viewed] # Unset
    /\ stream' = "done" /\ ended' = TRUE
    /\ final' = closedAt[viewed]
    /\ UNCHANGED <<server, route, list, viewed, row, at, lines, recorded,
                   recording, missed, tabs>>

(* The browser connects again by itself. *)
StreamBreaks ==
    /\ stream = "open"
    /\ stream' = "closed"
    /\ missed' = IF missed = "no" THEN "yes" ELSE missed
    /\ UNCHANGED <<server, route, list, viewed, row, at, lines, ended, recorded,
                   recording, final, tabs>>

(* The server is started again: tasks, channels and connections are gone,  *)
(* rows and files are there; a row that was running stays so.              *)
Restart ==
    /\ route = "view" /\ restarts < MaxRestarts
    /\ restarts' = restarts + 1
    /\ task' = [r \in Runs |-> "none"]
    /\ closedAt' = [r \in Runs |-> Unset]
    /\ stream' = IF stream = "open" THEN "closed" ELSE stream
    /\ missed' = IF stream = "open" /\ missed = "no" THEN "yes" ELSE missed
    /\ UNCHANGED <<status, log, route, list, viewed, row, at, lines, ended, recorded,
                   recording, final, tabs>>

(* Asked for on arrival, when there are no live lines yet. *)
RecordedAnswered ==
    /\ route = "view" /\ recording /\ log[viewed] # NoFile
    /\ recorded' = log[viewed]
    /\ recording' = FALSE
    /\ UNCHANGED <<server, route, list, viewed, row, stream, at, lines, ended,
                   missed, final, tabs>>

(* Also 404, when there is no log file yet. *)
RecordedFails ==
    /\ route = "view" /\ recording
    /\ recording' = FALSE
    /\ UNCHANGED <<server, route, list, viewed, row, stream, at, lines, ended,
                   recorded, missed, final, tabs>>

Lines(l) == {l.try} \X (1 .. l.n)

(* liveText || fallbackText || "" *)
Output ==
    CASE lines # {} -> lines
      [] lines = {} /\ recorded # Unset -> Lines(recorded)
      [] OTHER -> {}

CanCancel == row = "running" /\ MayCancel /\ ~ended

CancelFromView ==
    /\ route = "view" /\ CanCancel
    /\ status[viewed] = "running"
    /\ status' = [status EXCEPT ![viewed] = "cancelled"]
    /\ Close(viewed)
    /\ UNCHANGED <<log, task, restarts, route, list, view, tabs>>

View ==
    \/ RowPolled \/ StreamOpens \/ LineArrives \/ LineDropped \/ EndArrives \/ StreamBreaks
    \/ Restart \/ RecordedAnswered \/ RecordedFails \/ CancelFromView
-----------------------------------------------------------------------------
(* The Logs tab of the script's page, whose runs are all of Runs. *)
ClickRun ==
    /\ route = "script" /\ clicked = NotClicked
    /\ \E r \in Runs : Fresh(r)
    /\ clicked' = Sent
    /\ UNCHANGED <<server, route, list, view, current, polled, runLog, fetches,
                   failed, crossed>>

(* POST /scripts/{id}/run, refused while a run is in progress. *)
ServeRun(r) ==
    /\ clicked = Sent /\ Fresh(r)
    /\ \A q \in Runs : status[q] # "running"
    /\ status' = [status EXCEPT ![r] = "running"]
    /\ task' = [task EXCEPT ![r] = "waiting"]
    /\ clicked' = r
    /\ UNCHANGED <<log, closedAt, restarts, route, list, view, current, polled, runLog, fetches,
                   failed, crossed>>

RunRefused ==
    /\ clicked = Sent
    /\ clicked' = NotClicked
    /\ UNCHANGED <<server, route, list, view, current, polled, runLog, fetches,
                   failed, crossed>>

(* The effect's cleanup and its next run: a fetch unless the run is known  *)
(* to be running.                                                          *)
RefreshLog(r, s) ==
    fetches' = {[f EXCEPT !.live = FALSE,
                          !.stage = IF @ = "reading" THEN "crossed" ELSE @] : f \in fetches}
               \cup (IF s = "running" THEN {}
                     ELSE {[run |-> r, n |-> 0, live |-> TRUE, stage |-> "sent"]})

RunStarted ==
    /\ clicked \in Runs
    /\ current' = clicked /\ polled' = "none" /\ runLog' = [run |-> clicked, n |-> 0]
    /\ RefreshLog(clicked, "none")
    /\ clicked' = NotClicked /\ failed' = FALSE /\ crossed' = FALSE
    /\ UNCHANGED <<server, route, list, view>>

(* Every second, until it is answered with something else than running.    *)
StatusPolled ==
    /\ current # 0 /\ polled \in {"none", "running"}
    /\ status[current] # polled
    /\ polled' = status[current]
    /\ RefreshLog(current, polled')
    /\ failed' = FALSE
    /\ UNCHANGED <<server, route, list, view, clicked, current, runLog, crossed>>

\* Fault: no look at the flag of the cleaned-up effect.
LogResponseLate(f) ==
    /\ f.stage = "sent"
    /\ fetches' = (fetches \ {f})
          \cup {[f EXCEPT !.stage = "reading", !.n = log[f.run].n]}
    /\ UNCHANGED <<server, route, list, view, clicked, current, polled, runLog, failed,
                   crossed>>

(* GET /runs/{id}/log.  The flag of the effect is looked at when the       *)
(* response begins ...                                                     *)
LogResponse(f) ==
    /\ f.stage = "sent"
    /\ fetches' = (fetches \ {f})
          \cup (IF f.live THEN {[f EXCEPT !.stage = "reading", !.n = log[f.run].n]}
                ELSE {})
    /\ UNCHANGED <<server, route, list, view, clicked, current, polled, runLog, failed,
                   crossed>>

(* ... and not again when its text has been read.                          *)
LogAnswered(f) ==
    /\ f.stage # "sent"
    /\ fetches' = fetches \ {f}
    /\ runLog' = [run |-> f.run, n |-> f.n]
    /\ crossed' = (f.stage = "crossed")
    /\ UNCHANGED <<server, route, list, view, clicked, current, polled, failed>>

(* Not found, another error, or no answer: ignored. *)
LogFails(f) ==
    /\ fetches' = fetches \ {f}
    /\ failed' = (failed \/ f.live)
    /\ UNCHANGED <<server, route, list, view, clicked, current, polled, runLog, crossed>>

Script ==
    \/ ClickRun \/ RunRefused \/ RunStarted \/ StatusPolled
    \/ \E r \in Runs : ServeRun(r)
    \/ \E f \in fetches : LogResponse(f) \/ LogAnswered(f) \/ LogFails(f)
-----------------------------------------------------------------------------
(* The page of one run depends on that run only. *)
Server ==
    \E r \in Runs :
        /\ route = "view" => r = viewed
        /\ \/ Begin(r) \/ TakeUp(r) \/ OpenLog(r) \/ WriteLine(r)
           \/ CancelElsewhere(r) \/ Exit(r) \/ Settle(r)

Next == Server \/ List \/ View \/ Script

(* Polls are made every few seconds as long as the page is looked at, and  *)
(* answered in the end.                                                    *)
Fairness ==
    /\ WF_vars(HistoryPolled)
    /\ \A f \in ScheduleFilters : WF_vars(RunningPolled(f))

Spec == Init /\ [][Next]_vars /\ Fairness
-----------------------------------------------------------------------------
(* Rows under a filter are rows of that filter, however the filters were   *)
(* changed while answers were on their way; rows of the filter before are  *)
(* there only until the first answer.                                      *)
ShownMatchesFilter ==
    history # NoRows =>
        \A r \in ShownHistory :
            /\ key.schedule # 0 => SchedulesOf[r.id] = key.schedule
            /\ key.status # "all" => r.status = Wanted(key.status)

(* A run that is over, or waits for its retry, does not stay in the list   *)
(* as running, neither above nor in the history, once the user stays with  *)
(* a filter; unless it runs again.                                         *)
ShownAsRunning(r) ==
    /\ route = "list"
    /\ [id |-> r, status |-> "running"] \in ShownRunning \cup ShownHistory
StaleRowGoes ==
    \A r \in Runs :
        (ShownAsRunning(r) /\ status[r] # "running")
            ~> (~ShownAsRunning(r) \/ status[r] = "running")

(* The output shown of a run is that of one attempt, though lines of the   *)
(* next are in the same file: not a line of one after a line of the other. *)
(* (A page that was connected across a restart of the server may hear the  *)
(* retry on the new channel.)  After the end it is all that was published, *)
(* if the page was connected from the first line on and its queue was      *)
(* never full: of a retried run that is the first attempt, for good.  Of a *)
(* run that the page found ended it is the whole log.                      *)
OutputOfOneAttempt ==
    /\ restarts = 0 \/ missed # "yes" =>
           \E a \in 0 .. MaxAttempts : Output \subseteq {a} \X (1 .. MaxLines)
    /\ ended /\ missed = "no" /\ final.n > 0 => Output = Lines(final)
    /\ missed = "found" /\ recorded # Unset => Output = Lines(log[viewed])

(* The Logs tab shows the log of the run named above it, and once that run *)
(* is seen to have ended, and the log was fetched, all of it - unless the  *)
(* text that came last is one whose reading outlasted its effect: nothing  *)
(* looks at the flag again, and what it shows may be short, or another     *)
(* run's (ScriptEdit.tsx:269).                                             *)
LogSettled == polled \in Ended /\ ~failed /\ \A f \in fetches : ~f.live
LogsTabShowsFinal ==
    ~crossed =>
    /\ runLog.run = current
    /\ LogSettled => runLog.n = log[current].n
=============================================================================
