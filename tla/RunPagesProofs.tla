--------------------------- MODULE RunPagesProofs ---------------------------
(***************************************************************************)
(* Proofs about RunPages, for any number of runs, lines, attempts,         *)
(* restarts, pages and choices of the filters: the list shows rows of its  *)
(* filter, the page of a run the output of one attempt, and the Logs tab   *)
(* the log of the run it names.                                            *)
(*                                                                         *)
(* OutputOfOneAttempt and LogsTabShowsFinal speak of what has arrived.     *)
(* StreamInv says what a connection has brought before that, and           *)
(* FetchesOwn what a fetch of the log will bring; both rest on what the    *)
(* server promises (ServerInv): a run that has ended writes nothing more,  *)
(* and until the server is started again a channel carries one attempt.    *)
(***************************************************************************)
EXTENDS RunPages, TLAPS

ListTypes ==
    /\ key \in Keys /\ lastKey \in Keys \cup {NoKey}
    /\ history \in {NoRows} \cup SUBSET Rows /\ last \in {NoRows} \cup SUBSET Rows
    /\ looks \in 0 .. MaxLooks
    /\ running \in [ScheduleFilters -> {NoRows} \cup SUBSET Rows]
    /\ asked \subseteq ScheduleFilters

ServerTypes ==
    /\ status \in [Runs -> Status] /\ log \in [Runs -> Logs] /\ restarts \in 0 .. MaxRestarts
    /\ task \in [Runs -> {"none", "waiting", "writing", "exited"}]
    /\ closedAt \in [Runs -> Logs \cup {Unset}]

ViewTypes ==
    /\ route \in {"list", "view", "script"}
    /\ viewed \in Runs /\ row \in Status /\ stream \in {"closed", "open", "done"}
    /\ at \in 0 .. MaxLines /\ ended \in BOOLEAN
    /\ lines \subseteq (0 .. MaxAttempts) \X (1 .. MaxLines)
    /\ recorded \in Logs \cup {Unset} /\ recording \in BOOLEAN
    /\ missed \in {"found", "no", "yes"} /\ final \in Logs \cup {Unset}

FetchType == [run : Runs, n : 0 .. MaxLines, live : BOOLEAN,
              stage : {"sent", "reading", "crossed"}]
TabTypes ==
    /\ clicked \in {NotClicked, Sent} \cup Runs
    /\ current \in 0 .. LastRun /\ polled \in Status
    /\ runLog \in [run : 0 .. LastRun, n : 0 .. MaxLines]
    /\ fetches \subseteq FetchType
    /\ failed \in BOOLEAN /\ crossed \in BOOLEAN

PagesTypes == ServerTypes /\ ListTypes /\ ViewTypes /\ TabTypes

LEMMA TypesTogether == PagesTypes => RunsTypeOK
BY DEF PagesTypes, ServerTypes, ListTypes, ViewTypes, TabTypes, FetchType, RunsTypeOK

\* The constants, as the provers need them.
LEMMA Bounds ==
    /\ LastRun \in Nat /\ LastRun > 0 /\ MaxLines \in Nat /\ MaxLooks \in Nat
    /\ MaxAttempts \in Nat /\ MaxRestarts \in Nat /\ TabLines \in 0 .. MaxLines
    /\ Runs = 1 .. LastRun /\ 1 \in Runs
    /\ "all" \in StatusFilters /\ 0 \in ScheduleFilters
    /\ LastPage \in Nat /\ LastPage > 0
    /\ Outcomes \subseteq Ended /\ Ended \subseteq Status
    /\ {"none", "running", "skipped", "cancelled", "pending", "pending_retry", "success"}
          \subseteq Status
    /\ {"none", "running", "skipped", "cancelled", "pending", "pending_retry"}
          \cap Ended = {}
    /\ Unset \notin Logs /\ NoFile \in Logs
BY PagesAssumption DEF Runs, Status, Ended, Unset, NoFile, Logs

-----------------------------------------------------------------------------
(* The server.                                                             *)

\* A file that no attempt opened is empty.
Whole(l) == l.try = 0 => l.n = 0

\* A channel is open for the first attempt only, unless it has been forgotten.
OneAttempt(r) ==
    /\ closedAt[r] = Unset => /\ log[r].try <= 1
                              /\ task[r] # "writing" => log[r].try = 0
    /\ closedAt[r] # Unset => closedAt[r].try <= 1

ServerInv ==
    /\ ServerTypes
    /\ \A r \in Runs :
          /\ status[r] \in Ended \cup {"none", "pending", "pending_retry"} => task[r] = "none"
          /\ task[r] = "exited" => closedAt[r] # Unset
          /\ task[r] = "writing" => route # "list" /\ log[r].try > 0
          /\ Whole(log[r]) /\ (closedAt[r] # Unset => Whole(closedAt[r]))
          /\ restarts = 0 => OneAttempt(r)

LEMMA ServerInit == Init => ServerInv
<1>. SUFFICES ASSUME Init PROVE ServerInv
  OBVIOUS
<1>1. ServerTypes
  <2>1. status \in [Runs -> Status] /\ restarts \in 0 .. MaxRestarts
    BY Bounds DEF Init
  <2>2. log \in [Runs -> Logs]
    BY DEF Init
  <2>3. task \in [Runs -> {"none", "waiting", "writing", "exited"}]
    BY DEF Init
  <2>4. closedAt \in [Runs -> Logs \cup {Unset}]
    BY <2>2 DEF Init
  <2>. QED BY <2>1, <2>2, <2>3, <2>4 DEF ServerTypes
<1>2. ASSUME NEW r \in Runs
      PROVE  /\ status[r] \in Ended \cup {"none", "pending", "pending_retry"} => task[r] = "none"
             /\ task[r] # "exited"
             /\ task[r] = "writing" => route # "list" /\ log[r].try > 0
             /\ Whole(log[r]) /\ (closedAt[r] # Unset => Whole(closedAt[r]))
             /\ OneAttempt(r)
  <2>1. /\ status[r] \in {"none", "running", "success"}
        /\ log[r] \in Logs /\ log[r].try <= 1 /\ (log[r].n > 0 => log[r].try = 1)
        /\ log[r].try \in Nat /\ log[r].n \in Nat
    BY Bounds DEF Init, Logs
  <2>2. task[r] = CASE status[r] # "running" -> "none"
                    [] status[r] = "running" /\ log[r].try = 0 -> "waiting"
                    [] OTHER -> "writing"
    BY DEF Init
  <2>3. closedAt[r] = IF route # "list" /\ status[r] = "success" THEN log[r] ELSE Unset
    BY DEF Init
  <2>4. /\ status[r] = "none" => log[r] = NoFile
        /\ route = "list" => log[r] = NoFile
        /\ NoFile.try = 0
    BY DEF Init, NoFile
  <2>5. log[r] # Unset
    BY <2>1, Bounds
  <2>6. /\ status[r] \in Ended \cup {"none", "pending", "pending_retry"} => task[r] = "none"
        /\ task[r] # "exited"
        /\ task[r] = "writing" => route # "list" /\ log[r].try > 0
    BY <2>1, <2>2, <2>4, Bounds
  <2>7. Whole(log[r]) /\ (closedAt[r] # Unset => Whole(closedAt[r]))
    BY <2>1, <2>3, <2>5 DEF Whole
  <2>8. OneAttempt(r)
    BY <2>1, <2>2, <2>3, <2>4, <2>5 DEF OneAttempt
  <2>. QED BY <2>6, <2>7, <2>8
<1>. QED BY <1>1, <1>2 DEF ServerInv

\* What a step does to the server: somebody cancels a run that is running; a run
\* starts, is put off, opens its file, writes, exits and is settled; or the server
\* is started again.
Cancelled(r) ==
    /\ status[r] = "running"
    /\ status' = [status EXCEPT ![r] = "cancelled"]
    /\ Close(r) /\ UNCHANGED <<log, task, restarts>>
Starts(r) ==
    /\ status[r] \in {"none", "pending", "pending_retry"}
    /\ status' = [status EXCEPT ![r] = "running"]
    /\ task' = [task EXCEPT ![r] = "waiting"]
    /\ UNCHANGED <<log, closedAt, restarts>>
PutOff(r) ==
    /\ status[r] = "none"
    /\ \E s \in {"skipped", "pending"} : status' = [status EXCEPT ![r] = s]
    /\ UNCHANGED <<log, task, closedAt, restarts>>
Opens(r) ==
    /\ route # "list" /\ task[r] = "waiting" /\ log[r].try < MaxAttempts
    /\ task' = [task EXCEPT ![r] = "writing"]
    /\ log' = [log EXCEPT ![r] = [try |-> @.try + 1, n |-> 0]]
    /\ UNCHANGED <<status, closedAt, restarts>>
Writes(r) ==
    /\ task[r] = "writing" /\ log[r].n < MaxLines
    /\ log' = [log EXCEPT ![r].n = @ + 1]
    /\ UNCHANGED <<status, task, closedAt, restarts>>
Exits(r) ==
    /\ route # "list" /\ task[r] \in {"waiting", "writing"}
    /\ task' = [task EXCEPT ![r] = "exited"]
    /\ Close(r) /\ UNCHANGED <<status, log, restarts>>
Settles(r) ==
    /\ task[r] = "exited" \/ (route = "list" /\ task[r] # "none")
    /\ task' = [task EXCEPT ![r] = "none"]
    /\ \E s \in Ended \cup {"pending_retry"} : status' = [status EXCEPT ![r] = s]
    /\ UNCHANGED <<log, closedAt, restarts>>
StartedAgain ==
    /\ restarts < MaxRestarts /\ restarts' = restarts + 1
    /\ task' = [r \in Runs |-> "none"]
    /\ closedAt' = [r \in Runs |-> Unset]
    /\ UNCHANGED <<status, log>>

Goes(r) ==
    \/ UNCHANGED server
    \/ Cancelled(r) \/ Starts(r) \/ PutOff(r) \/ Writes(r) \/ Exits(r) \/ Settles(r)
ServerMoves(r) == (Goes(r) \/ Opens(r) \/ StartedAgain) /\ UNCHANGED route

\* The parts of the server keep their types, whichever task moves.
LEMMA ServerTyped ==
    ASSUME ServerTypes, NEW r \in Runs, ServerMoves(r)
    PROVE  ServerTypes'
<1>. USE DEF ServerTypes
<1>1. CASE UNCHANGED server
  BY <1>1 DEF server
<1>2. CASE Cancelled(r) \/ Exits(r)
  BY <1>2, Bounds DEF Cancelled, Exits, Close
<1>3. CASE Starts(r) \/ PutOff(r) \/ Settles(r)
  BY <1>3, Bounds DEF Starts, PutOff, Settles
<1>4. CASE Opens(r)
  <2>1. log[r].try + 1 \in 0 .. MaxAttempts /\ 0 \in 0 .. MaxLines
    BY <1>4, Bounds DEF Opens, Logs
  <2>2. [try |-> log[r].try + 1, n |-> 0] \in Logs
    BY <2>1 DEF Logs
  <2>. QED BY <1>4, <2>2 DEF Opens
<1>5. CASE Writes(r)
  <2>1. log[r].n + 1 \in 0 .. MaxLines
    BY <1>5, Bounds DEF Writes, Logs
  <2>2. [log[r] EXCEPT !.n = @ + 1] \in Logs
    BY <2>1 DEF Logs
  <2>. QED BY <1>5, <2>2 DEF Writes
<1>6. CASE StartedAgain
  BY <1>6, Bounds DEF StartedAgain
<1>. QED BY <1>1, <1>2, <1>3, <1>4, <1>5, <1>6 DEF ServerMoves, Goes

\* What a step does to the run q, whichever run it is of.
LEMMA ServerAt ==
    ASSUME ServerInv, NEW r \in Runs, ServerMoves(r), NEW q \in Runs
    PROVE  /\ log'[q] = log[q]
              \/ /\ q = r /\ Opens(r)
                 /\ log'[q].try = log[q].try + 1 /\ log'[q].n = 0
              \/ /\ q = r /\ Writes(r)
                 /\ log'[q].try = log[q].try /\ log'[q].n = log[q].n + 1
           /\ closedAt'[q] \in {closedAt[q], log[q]} \/ (StartedAgain /\ closedAt'[q] = Unset)
           /\ closedAt'[q] # closedAt[q] => closedAt[q] = Unset \/ StartedAgain
           /\ task'[q] # task[q] =>
                 \/ /\ Starts(r) /\ q = r /\ task[q] = "none"
                    /\ task'[q] = "waiting" /\ status'[q] = "running"
                 \/ /\ Opens(r) /\ q = r /\ task'[q] = "writing"
                    /\ log'[q].try = log[q].try + 1
                 \/ task[q] # "none" /\ task'[q] = "exited" /\ closedAt'[q] # Unset
                 \/ task'[q] = "none" /\ (task[q] = "exited" \/ route = "list")
                 \/ StartedAgain /\ task'[q] = "none"
           /\ status'[q] # status[q] =>
                 \/ status[q] = "running" /\ status'[q] = "cancelled" /\ task'[q] = task[q]
                 \/ status[q] \in {"none", "pending", "pending_retry"} /\ status'[q] = "running"
                 \/ status[q] = "none" /\ status'[q] \in {"skipped", "pending"} /\ task'[q] = task[q]
                 \/ task[q] # "none" /\ task'[q] = "none"
<1>0. ServerTypes /\ log[q] \in Logs /\ log[r] \in Logs
  BY DEF ServerInv, ServerTypes
<1>1. CASE UNCHANGED server
  BY <1>1 DEF server
<1>2. CASE Cancelled(r)
  BY <1>0, <1>2 DEF Cancelled, Close, ServerTypes
<1>3. CASE Starts(r)
  <2>1. task[r] = "none"
    BY <1>3 DEF Starts, ServerInv
  <2>. QED BY <1>0, <1>3, <2>1 DEF Starts, ServerTypes
<1>4. CASE PutOff(r)
  BY <1>0, <1>4 DEF PutOff, ServerTypes
<1>5. CASE Opens(r)
  BY <1>0, <1>5 DEF Opens, ServerTypes
<1>6. CASE Writes(r)
  <2>1. [log[r] EXCEPT !.n = @ + 1] = [try |-> log[r].try, n |-> log[r].n + 1]
    BY <1>0 DEF Logs
  <2>. QED BY <1>0, <1>6, <2>1 DEF Writes, ServerTypes
<1>7. CASE Exits(r)
  <2>1. log[r] # Unset
    BY <1>0, Bounds
  <2>. QED BY <1>0, <1>7, <2>1 DEF Exits, Close, ServerTypes
<1>8. CASE Settles(r)
  BY <1>0, <1>8 DEF Settles, ServerTypes
<1>9. CASE StartedAgain
  BY <1>0, <1>9 DEF StartedAgain, ServerTypes
<1>. QED BY <1>1, <1>2, <1>3, <1>4, <1>5, <1>6, <1>7, <1>8, <1>9 DEF ServerMoves, Goes

LEMMA ServerKept ==
    ASSUME ServerInv, NEW r \in Runs, ServerMoves(r)
    PROVE  ServerInv'
<1>1. ServerTypes'
  BY ServerTyped DEF ServerInv
<1>2. ASSUME NEW q \in Runs
      PROVE  /\ status'[q] \in Ended \cup {"none", "pending", "pending_retry"} => task'[q] = "none"
             /\ task'[q] = "exited" => closedAt'[q] # Unset
             /\ task'[q] = "writing" => route' # "list" /\ log'[q].try > 0
             /\ Whole(log[q])' /\ (closedAt'[q] # Unset => Whole(closedAt[q])')
             /\ restarts' = 0 => OneAttempt(q)'
  <2>1. /\ status[q] \in Status /\ log[q] \in Logs /\ log'[q] \in Logs
        /\ log[q].try \in Nat /\ log[q].n \in Nat
        /\ task[q] \in {"none", "waiting", "writing", "exited"}
        /\ closedAt[q] \in Logs \cup {Unset} /\ restarts \in Nat
        /\ log[q] # Unset /\ route' = route
    <3>1. /\ log'[q] \in Logs /\ log[q] \in Logs /\ log[q] # Unset
          /\ status[q] \in Status /\ closedAt[q] \in Logs \cup {Unset}
          /\ task[q] \in {"none", "waiting", "writing", "exited"}
          /\ restarts \in Nat
      BY <1>1, Bounds DEF ServerInv, ServerTypes
    <3>2. log[q].try \in Nat /\ log[q].n \in Nat
      BY <3>1, Bounds DEF Logs
    <3>. QED BY <3>1, <3>2 DEF ServerMoves
  <2>2. /\ status[q] \in Ended \cup {"none", "pending", "pending_retry"} => task[q] = "none"
        /\ task[q] = "exited" => closedAt[q] # Unset
        /\ task[q] = "writing" => route # "list" /\ log[q].try > 0
        /\ Whole(log[q]) /\ (closedAt[q] # Unset => Whole(closedAt[q]))
        /\ restarts = 0 => OneAttempt(q)
    BY DEF ServerInv
  <2>3. /\ StartedAgain => restarts' # 0 /\ task'[q] = "none" /\ closedAt'[q] = Unset
        /\ ~StartedAgain => restarts' = restarts
        /\ Opens(r) => route # "list" /\ task[r] = "waiting"
        /\ Writes(r) => task[r] = "writing" /\ task' = task /\ closedAt' = closedAt
        /\ Opens(r) => task'[r] = "writing" /\ closedAt' = closedAt
    BY <2>1 DEF StartedAgain, Opens, Writes, ServerMoves, Goes, Cancelled, Starts, PutOff, Exits,
                Settles, server, ServerInv, ServerTypes
  <2>4. status'[q] \in Ended \cup {"none", "pending", "pending_retry"} => task'[q] = "none"
    BY <2>1, <2>2, <2>3, ServerAt, Bounds
  <2>5. task'[q] = "exited" => closedAt'[q] # Unset
    BY <2>1, <2>2, <2>3, ServerAt
  <2>6. task'[q] = "writing" => route' # "list" /\ log'[q].try > 0
    BY <2>1, <2>2, <2>3, ServerAt
  <2>7. Whole(log[q])'
    BY <2>1, <2>2, <2>3, ServerAt DEF Whole
  <2>8. closedAt'[q] # Unset => Whole(closedAt[q])'
    BY <2>1, <2>2, ServerAt DEF Whole
  <2>9. ASSUME restarts' = 0 PROVE OneAttempt(q)'
    <3>1. ~StartedAgain /\ OneAttempt(q)
      BY <2>2, <2>3, <2>9
    <3>2. closedAt'[q] # Unset => closedAt'[q].try <= 1
      BY <3>1, <2>1, ServerAt DEF OneAttempt
    <3>3. ASSUME closedAt'[q] = Unset
          PROVE  log'[q].try <= 1 /\ (task'[q] # "writing" => log'[q].try = 0)
      <4>1. closedAt[q] = Unset
        BY <3>1, <3>3, ServerAt
      <4>. QED BY <2>1, <2>2, <2>3, <3>1, <3>3, <4>1, ServerAt DEF OneAttempt
    <3>. QED BY <3>2, <3>3 DEF OneAttempt
  <2>. QED BY <2>4, <2>5, <2>6, <2>7, <2>8, <2>9
<1>. QED BY <1>1, <1>2 DEF ServerInv

\* A run that has ended stays so, and writes nothing more.
LEMMA EndedKeeps ==
    ASSUME ServerInv, NEW r \in Runs, ServerMoves(r), NEW q \in Runs, status[q] \in Ended
    PROVE  status'[q] = status[q] /\ log'[q] = log[q]
<1>1. task[q] = "none" /\ status[q] \notin {"none", "running", "pending", "pending_retry"}
  BY Bounds DEF ServerInv
<1>2. Opens(r) => task[r] = "waiting"
  BY DEF Opens
<1>3. Writes(r) => task[r] = "writing"
  BY DEF Writes
<1>. QED BY <1>1, <1>2, <1>3, ServerAt

-----------------------------------------------------------------------------
(* The pages are seen by their parts: a step is one of the server, which   *)
(* the page of a run notices when a file is opened, or of one page.        *)

LEMMA ServerAlone ==
    ASSUME ServerTypes, NEW r \in Runs, Begin(r) \/ TakeUp(r) \/ WriteLine(r)
                                        \/ CancelElsewhere(r) \/ Exit(r) \/ Settle(r)
    PROVE  Goes(r) /\ UNCHANGED <<route, list, view, tabs>>
<1>1. CASE Begin(r)
  BY <1>1 DEF Begin, Fresh, Goes, Starts, PutOff
<1>2. CASE TakeUp(r)
  BY <1>2 DEF TakeUp, Goes, Starts
<1>3. CASE WriteLine(r)
  <2>1. log[r].n \in Nat /\ TabLines \in Nat /\ TabLines <= MaxLines
    BY Bounds DEF ServerTypes, Logs
  <2>2. log[r].n < MaxLines
    BY <1>3, <2>1, Bounds DEF WriteLine
  <2>. QED BY <1>3, <2>2 DEF WriteLine, Goes, Writes
<1>4. CASE CancelElsewhere(r)
  BY <1>4 DEF CancelElsewhere, Goes, Cancelled
<1>5. CASE Exit(r)
  BY <1>5 DEF Exit, Goes, Exits
<1>6. CASE Settle(r)
  <2>1. \E s \in Ended \cup {"pending_retry"} : status' = [status EXCEPT ![r] = s]
    BY <1>6, Bounds DEF Settle
  <2>. QED BY <1>6, <2>1 DEF Settle, Goes, Settles
<1>. QED BY <1>1, <1>2, <1>3, <1>4, <1>5, <1>6

LEMMA ListAlone ==
    ASSUME List
    PROVE  (\E r \in Runs : Goes(r)) /\ UNCHANGED <<route, view, tabs>>
<1>1. CASE HistoryPolled \/ SelectFilters \/ Turn
           \/ \E f \in ScheduleFilters : RunningPolled(f) \/ RunningFails(f)
  <2>1. UNCHANGED <<server, route, view, tabs>>
    BY <1>1 DEF HistoryPolled, SelectFilters, Turn, Look, RunningPolled, RunningFails
  <2>. QED BY <2>1, Bounds DEF Goes
<1>2. ASSUME NEW r \in Runs, CancelFromList(r)
      PROVE  Goes(r) /\ UNCHANGED <<route, view, tabs>>
  BY <1>2 DEF CancelFromList, Goes, Cancelled, server
<1>. QED BY <1>1, <1>2 DEF List

LEMMA ViewAlone ==
    ASSUME View, viewed \in Runs
    PROVE  (\E r \in Runs : ServerMoves(r)) /\ UNCHANGED <<viewed, list, tabs>>
<1>1. CASE RowPolled \/ StreamOpens \/ LineArrives \/ LineDropped \/ EndArrives
           \/ StreamBreaks \/ RecordedAnswered \/ RecordedFails
  <2>1. UNCHANGED <<server, route, viewed, list, tabs>>
    BY <1>1 DEF RowPolled, StreamOpens, LineArrives, LineDropped, EndArrives, StreamBreaks,
                RecordedAnswered, RecordedFails
  <2>. QED BY <2>1 DEF ServerMoves, Goes
<1>2. CASE CancelFromView
  BY <1>2 DEF CancelFromView, ServerMoves, Goes, Cancelled, view
<1>3. CASE Restart
  BY <1>3 DEF Restart, ServerMoves, StartedAgain
<1>. QED BY <1>1, <1>2, <1>3 DEF View

LEMMA ScriptAlone ==
    ASSUME Script
    PROVE  (\E r \in Runs : Goes(r)) /\ UNCHANGED <<route, list, view>>
<1>1. CASE \/ ClickRun \/ RunRefused \/ RunStarted \/ StatusPolled
           \/ \E f \in fetches : LogResponse(f) \/ LogAnswered(f) \/ LogFails(f)
  <2>1. UNCHANGED <<server, route, list, view>>
    BY <1>1 DEF ClickRun, RunRefused, RunStarted, StatusPolled, LogResponse, LogAnswered, LogFails
  <2>. QED BY <2>1, Bounds DEF Goes
<1>2. ASSUME NEW r \in Runs, ServeRun(r)
      PROVE  Goes(r) /\ UNCHANGED <<route, list, view>>
  BY <1>2 DEF ServeRun, Fresh, Goes, Starts
<1>. QED BY <1>1, <1>2 DEF Script

LEMMA OpenLogMoves ==
    ASSUME NEW r \in Runs, OpenLog(r)
    PROVE  ServerMoves(r) /\ UNCHANGED <<viewed, list, tabs>>
BY DEF OpenLog, ServerMoves, Opens

LEMMA EveryStep ==
    ASSUME ServerTypes, viewed \in Runs, [Next]_vars
    PROVE  /\ \E r \in Runs : ServerMoves(r)
           /\ UNCHANGED viewed
           /\ List \/ UNCHANGED list
           /\ \/ View
              \/ \E r \in Runs : OpenLog(r)
              \/ (\E r \in Runs : Goes(r)) /\ UNCHANGED <<route, view>>
           /\ Script \/ UNCHANGED tabs
<1>1. CASE Server
  <2>1. PICK r \in Runs : OpenLog(r) \/ Begin(r) \/ TakeUp(r) \/ WriteLine(r)
                          \/ CancelElsewhere(r) \/ Exit(r) \/ Settle(r)
    BY <1>1 DEF Server
  <2>2. CASE OpenLog(r)
    BY <2>2, OpenLogMoves
  <2>3. CASE ~OpenLog(r)
    BY <2>1, <2>3, ServerAlone DEF view, ServerMoves
  <2>. QED BY <2>2, <2>3
<1>2. CASE List
  BY <1>2, ListAlone DEF view, ServerMoves
<1>3. CASE View
  BY <1>3, ViewAlone
<1>4. CASE Script
  BY <1>4, ScriptAlone DEF view, ServerMoves
<1>5. CASE UNCHANGED vars
  BY <1>5, Bounds DEF vars, view, ServerMoves, Goes
<1>. QED BY <1>1, <1>2, <1>3, <1>4, <1>5 DEF Next

-----------------------------------------------------------------------------
(* The list.                                                               *)

\* Rows of the filters of k.
Suits(rows, k) ==
    \A r \in rows :
        /\ k.schedule # 0 => SchedulesOf[r.id] = k.schedule
        /\ k.status # "all" => r.status = Wanted(k.status)

ListInv ==
    /\ ListTypes
    /\ history # NoRows => Suits(history, key)
    /\ last # NoRows => Suits(last, lastKey)

LEMMA AnswerSuits ==
    ASSUME ServerTypes, NEW k, NEW size
    PROVE  Answer(k, size) \in SUBSET Rows /\ Suits(Answer(k, size), k)
<1>. DEFINE all == Matching(k.schedule, k.status)
<1>1. \A r \in all : /\ r \in Runs /\ [id |-> r, status |-> status[r]] \in Rows
                     /\ k.schedule # 0 => SchedulesOf[r] = k.schedule
                     /\ k.status # "all" => status[r] = Wanted(k.status)
  BY DEF Matching, ServerTypes, Rows
<1>2. \A x \in Answer(k, size) : \E r \in all : x = [id |-> r, status |-> status[r]]
  BY DEF Answer
<1>. HIDE DEF all
<1>. QED BY <1>1, <1>2 DEF Suits

\* keepPreviousData shows what was there under its own key, and only that.
LEMMA LookKeeps ==
    ASSUME ListInv, NEW k \in Keys, Look(k)
    PROVE  ListInv'
<1>1. /\ looks' \in 0 .. MaxLooks /\ asked' \subseteq ScheduleFilters
      /\ key' = k /\ running' = running
  BY Bounds DEF Look, ListInv, ListTypes, Keys
<1>2. CASE k = key
  BY <1>1, <1>2 DEF Look, HistoryKey, ListInv, ListTypes
<1>3. CASE k # key /\ history # NoRows
  BY <1>1, <1>3 DEF Look, HistoryKey, ListInv, ListTypes
<1>4. CASE k # key /\ history = NoRows
  BY <1>1, <1>4 DEF Look, HistoryKey, ListInv, ListTypes
<1>. QED BY <1>2, <1>3, <1>4

LEMMA FiltersChange ==
    ASSUME NEW k \in Keys
    PROVE  /\ \A f \in ScheduleFilters : [k EXCEPT !.schedule = f, !.page = 1] \in Keys
           /\ \A s \in StatusFilters : [k EXCEPT !.status = s, !.page = 1] \in Keys
<1>. DEFINE P == 1 .. LastPage
<1>1. 1 \in P
  BY Bounds
<1>. HIDE DEF P
<1>2. Keys = [schedule : ScheduleFilters, status : StatusFilters, page : P]
  BY DEF Keys, P
<1>. QED BY <1>1, <1>2

LEMMA ListStep ==
    ASSUME ListInv, ServerTypes, List
    PROVE  ListInv'
<1>1. CASE HistoryPolled
  <2>1. Answer(key, PageSize) \in SUBSET Rows /\ Suits(Answer(key, PageSize), key)
    BY AnswerSuits
  <2>. QED BY <1>1, <2>1 DEF HistoryPolled, ListInv, ListTypes
<1>2. CASE SelectFilters
  <2>0. key \in Keys
    BY DEF ListInv, ListTypes
  <2>. QED BY <1>2, <2>0, FiltersChange, LookKeeps DEF SelectFilters
<1>3. CASE Turn
  <2>1. \E k \in Keys : Look(k)
    BY <1>3, Bounds DEF Turn, ListInv, ListTypes, Keys
  <2>. QED BY <2>1, LookKeeps
<1>4. ASSUME NEW f \in ScheduleFilters, RunningPolled(f) PROVE ListInv'
  <2>1. Answer([schedule |-> f, status |-> "running", page |-> 1], RunningLimit) \in SUBSET Rows
    BY AnswerSuits
  <2>. QED BY <1>4, <2>1 DEF RunningPolled, ListInv, ListTypes
<1>5. ASSUME NEW f \in ScheduleFilters, RunningFails(f) PROVE ListInv'
  BY <1>5 DEF RunningFails, ListInv, ListTypes
<1>6. ASSUME NEW r \in Runs, CancelFromList(r) PROVE ListInv'
  BY <1>6 DEF CancelFromList, ListInv, ListTypes, Keys
<1>. QED BY <1>1, <1>2, <1>3, <1>4, <1>5, <1>6 DEF List

-----------------------------------------------------------------------------
(* The page of one run.                                                    *)

\* A file whose channel is open is empty until its attempt writes.
WaitsEmpty(r) == closedAt[r] = Unset /\ task[r] # "writing" => log[r].n = 0

\* What was published of a run that the page found ended is its log; of one seen
\* from its first line on, it has all come, up to the position.
FoundEnded ==
    /\ status[viewed] \in Ended /\ closedAt[viewed] \in {Unset, log[viewed]}
    /\ lines = {}
    /\ stream = "open" => at = log[viewed].n
    /\ recorded # Unset => recorded = log[viewed]

FromTheFirst ==
    /\ stream = "closed" => lines = {}
    /\ stream = "open" => /\ lines = {Published.try} \X (1 .. at) /\ at <= Published.n
                          /\ WaitsEmpty(viewed)
    /\ ended => lines = Lines(final)

StreamInv ==
    /\ ended <=> stream = "done"
    /\ missed = "no" => FromTheFirst
    /\ missed = "found" => FoundEnded
    /\ restarts = 0 => lines \subseteq {1} \X (1 .. MaxLines)

ViewInv == ViewTypes /\ StreamInv

PublishedOf(q) == IF closedAt[q] = Unset THEN log[q] ELSE closedAt[q]

\* As long as no file is opened and the server runs on, what is published of a
\* run is of the same attempt, and only grows.
LEMMA GoesOn ==
    ASSUME ServerInv, NEW r \in Runs, Goes(r), UNCHANGED route, NEW q \in Runs
    PROVE  /\ (PublishedOf(q).try)' = PublishedOf(q).try
           /\ PublishedOf(q).n <= (PublishedOf(q).n)'
           /\ WaitsEmpty(q) => WaitsEmpty(q)'
           /\ restarts' = restarts
<1>0. /\ ServerTypes /\ log[q] \in Logs /\ log[r] \in Logs /\ log[q] # Unset /\ log[r] # Unset
      /\ closedAt[q] \in Logs \cup {Unset}
  BY Bounds DEF ServerInv, ServerTypes
<1>1. log[q].n \in Nat /\ Unset.n \in Nat /\ closedAt[q].n \in Nat
  <2>1. \A l \in Logs : l.n \in Nat
    BY Bounds DEF Logs
  <2>2. Unset.n \in Nat
    BY Bounds DEF Unset
  <2>. QED BY <1>0, <2>1, <2>2
<1>. USE DEF PublishedOf, WaitsEmpty
<1>2. CASE UNCHANGED server
  BY <1>1, <1>2 DEF server
<1>3. CASE Cancelled(r)
  BY <1>0, <1>1, <1>3 DEF Cancelled, Close, ServerTypes
<1>4. CASE Starts(r)
  <2>1. task[r] = "none"
    BY <1>4 DEF Starts, ServerInv
  <2>. QED BY <1>0, <1>1, <1>4, <2>1 DEF Starts, ServerTypes
<1>5. CASE PutOff(r)
  BY <1>0, <1>1, <1>5 DEF PutOff, ServerTypes
<1>6. CASE Writes(r)
  <2>1. [log[r] EXCEPT !.n = @ + 1] = [try |-> log[r].try, n |-> log[r].n + 1]
    BY <1>0 DEF Logs
  <2>2. log'[q] = IF q = r THEN [try |-> log[r].try, n |-> log[r].n + 1] ELSE log[q]
    BY <1>0, <1>6, <2>1 DEF Writes, ServerTypes
  <2>3. task[r] = "writing" /\ UNCHANGED <<task, closedAt, restarts>>
    BY <1>6 DEF Writes
  <2>. QED BY <1>0, <1>1, <2>2, <2>3
<1>7. CASE Exits(r)
  BY <1>0, <1>1, <1>7 DEF Exits, Close, ServerTypes
<1>8. CASE Settles(r)
  <2>1. task[r] # "writing" \/ closedAt[r] # Unset
    BY <1>8 DEF Settles, ServerInv
  <2>. QED BY <1>0, <1>1, <1>8, <2>1 DEF Settles, ServerTypes
<1>. QED BY <1>2, <1>3, <1>4, <1>5, <1>6, <1>7, <1>8 DEF Goes

LEMMA PublishedTyped ==
    ASSUME ServerInv, viewed \in Runs
    PROVE  /\ Published = PublishedOf(viewed) /\ Published \in Logs
           /\ Published.try \in 0 .. MaxAttempts /\ Published.n \in 0 .. MaxLines
           /\ restarts = 0 /\ Published.n > 0 => Published.try = 1
           /\ log[viewed] \in Logs /\ log[viewed].n \in 0 .. MaxLines
<1>1. /\ log[viewed] \in Logs /\ closedAt[viewed] \in Logs \cup {Unset}
      /\ Whole(log[viewed]) /\ (closedAt[viewed] # Unset => Whole(closedAt[viewed]))
      /\ restarts = 0 => OneAttempt(viewed)
  BY DEF ServerInv, ServerTypes
<1>2. Published = PublishedOf(viewed) /\ Published \in Logs
  BY <1>1 DEF Published, PublishedOf
<1>3. \A l \in Logs : l.try \in 0 .. MaxAttempts /\ l.n \in 0 .. MaxLines
  BY DEF Logs
<1>4. restarts = 0 => Published.try <= 1
  BY <1>1 DEF Published, OneAttempt
<1>5. Whole(Published)
  BY <1>1 DEF Published
<1>. QED BY <1>1, <1>2, <1>3, <1>4, <1>5, Bounds DEF Whole

\* The server goes on under the page.
LEMMA ViewUnderServer ==
    ASSUME ServerInv, ViewInv, NEW r \in Runs, Goes(r), UNCHANGED <<route, view>>
    PROVE  ViewInv'
<1>0. ServerMoves(r) /\ UNCHANGED route /\ viewed \in Runs
  BY DEF ServerMoves, ViewInv, ViewTypes
<1>1. ViewTypes'
  BY DEF ViewInv, ViewTypes, view
<1>2. FoundEnded => FoundEnded'
  <2>. SUFFICES ASSUME FoundEnded PROVE FoundEnded'
    OBVIOUS
  <2>1. status'[viewed] = status[viewed] /\ log'[viewed] = log[viewed]
    BY <1>0, EndedKeeps DEF FoundEnded
  <2>2. closedAt'[viewed] \in {Unset, log[viewed]}
    BY <1>0, ServerAt DEF FoundEnded
  <2>. QED BY <2>1, <2>2 DEF FoundEnded, view
<1>3. FromTheFirst => FromTheFirst'
  <2>1. /\ (PublishedOf(viewed).try)' = PublishedOf(viewed).try
        /\ PublishedOf(viewed).n <= (PublishedOf(viewed).n)'
        /\ WaitsEmpty(viewed) => WaitsEmpty(viewed)'
    <3>1. ASSUME NEW q \in Runs, q = viewed
          PROVE  /\ (PublishedOf(q).try)' = PublishedOf(q).try
                 /\ PublishedOf(q).n <= (PublishedOf(q).n)'
                 /\ WaitsEmpty(q) => WaitsEmpty(q)'
      BY <1>0, GoesOn
    <3>2. viewed' = viewed
      BY DEF view
    <3>. QED BY <1>0, <3>1, <3>2 DEF PublishedOf, WaitsEmpty
  <2>2. PublishedOf(viewed) = Published /\ PublishedOf(viewed)' = Published'
    BY DEF PublishedOf, Published
  <2>3. Published.n \in Nat /\ (Published.n)' \in Nat /\ at \in Nat
    <3>1. ServerTypes' /\ viewed' = viewed
      BY <1>0, ServerTyped DEF view, ServerInv
    <3>2. (Published.n)' \in 0 .. MaxLines
      <4>1. log'[viewed] \in Logs /\ closedAt'[viewed] \in Logs \cup {Unset}
        BY <1>0, <3>1 DEF ServerTypes
      <4>2. Published' \in Logs
        BY <3>1, <4>1 DEF Published
      <4>. QED BY <4>2 DEF Logs
    <3>. QED BY <1>0, <3>2, PublishedTyped, Bounds DEF ViewInv, ViewTypes
  <2>. QED BY <2>1, <2>2, <2>3 DEF FromTheFirst, view, Lines
<1>4. restarts' = restarts
  BY <1>0, GoesOn
<1>. QED BY <1>1, <1>2, <1>3, <1>4 DEF ViewInv, StreamInv, view

\* Nothing of the attempt that opens its file has come yet.
LEMMA ViewUnderOpening ==
    ASSUME ServerInv, ViewInv, NEW r \in Runs, OpenLog(r)
    PROVE  ViewInv'
<1>0. /\ ServerMoves(r) /\ viewed \in Runs /\ log[viewed] \in Logs /\ log[viewed] # Unset
      /\ UNCHANGED <<route, viewed, row, stream, lines, ended, recorded, recording, missed, final,
                     restarts, closedAt, status>>
      /\ at' = IF r = viewed /\ closedAt[r] = Unset THEN 0 ELSE at
      /\ log' = [log EXCEPT ![r] = [try |-> @.try + 1, n |-> 0]]
      /\ task' = [task EXCEPT ![r] = "writing"] /\ task[r] = "waiting"
      /\ log \in [Runs -> Logs] /\ task \in [Runs -> {"none", "waiting", "writing", "exited"}]
  BY Bounds DEF OpenLog, ServerMoves, Opens, ViewInv, ViewTypes, ServerInv, ServerTypes
<1>1. ViewTypes'
  BY <1>0, Bounds DEF ViewInv, ViewTypes
<1>2. FoundEnded => FoundEnded'
  <2>. SUFFICES ASSUME FoundEnded PROVE FoundEnded'
    OBVIOUS
  <2>1. r # viewed
    BY <1>0 DEF FoundEnded, ServerInv
  <2>. QED BY <1>0, <2>1 DEF FoundEnded
<1>3. FromTheFirst => FromTheFirst'
  <2>1. CASE r = viewed /\ closedAt[r] = Unset
    <3>1. stream = "open" /\ FromTheFirst => lines = {}
      <4>1. at \in Nat
        BY Bounds DEF ViewInv, ViewTypes
      <4>2. WaitsEmpty(viewed) => log[viewed].n = 0 /\ Published = log[viewed]
        BY <1>0, <2>1 DEF WaitsEmpty, Published
      <4>. QED BY <4>1, <4>2 DEF FromTheFirst
    <3>2. at' = 0 /\ log'[viewed].n = 0 /\ closedAt'[viewed] = Unset /\ task'[viewed] = "writing"
      BY <1>0, <2>1
    <3>3. Published' = log'[viewed] /\ WaitsEmpty(viewed)'
      BY <1>0, <3>2 DEF Published, WaitsEmpty
    <3>. QED BY <1>0, <3>1, <3>2, <3>3, 1 .. 0 = {} DEF FromTheFirst, Lines
  <2>2. CASE ~(r = viewed /\ closedAt[r] = Unset)
    <3>1. Published' = Published /\ at' = at
      BY <1>0, <2>2 DEF Published
    <3>2. WaitsEmpty(viewed) => WaitsEmpty(viewed)'
      BY <1>0, <2>2 DEF WaitsEmpty
    <3>. QED BY <1>0, <3>1, <3>2 DEF FromTheFirst, Lines
  <2>. QED BY <2>1, <2>2
<1>. QED BY <1>0, <1>1, <1>2, <1>3 DEF ViewInv, StreamInv

LEMMA LineKeeps ==
    ASSUME ServerInv, ViewInv, LineArrives
    PROVE  ViewInv'
<1>0. /\ stream = "open" /\ at < Published.n /\ at' = at + 1
      /\ lines' = lines \cup {<<Published.try, at + 1>>}
      /\ UNCHANGED <<server, route, viewed, row, stream, ended, recorded, recording, missed, final>>
  BY DEF LineArrives
<1>1. /\ viewed \in Runs /\ at \in 0 .. MaxLines
      /\ Published.try \in 0 .. MaxAttempts /\ Published.n \in 0 .. MaxLines
      /\ restarts = 0 /\ Published.n > 0 => Published.try = 1
  BY PublishedTyped DEF ViewInv, ViewTypes
<1>2. at + 1 \in 1 .. MaxLines /\ at + 1 <= Published.n /\ Published.n > 0
  BY <1>0, <1>1, Bounds
<1>3. ViewTypes'
  BY <1>0, <1>1, <1>2, Bounds DEF ViewInv, ViewTypes
<1>4. Published' = Published /\ (WaitsEmpty(viewed)' <=> WaitsEmpty(viewed))
  BY <1>0 DEF Published, WaitsEmpty, server
<1>5. FromTheFirst => FromTheFirst'
  <2>. SUFFICES ASSUME FromTheFirst PROVE FromTheFirst'
    OBVIOUS
  <2>1. lines = {Published.try} \X (1 .. at)
    BY <1>0 DEF FromTheFirst
  <2>2. 1 .. (at + 1) = (1 .. at) \cup {at + 1}
    BY <1>1, Bounds
  <2>3. lines' = {Published.try} \X (1 .. (at + 1))
    BY <1>0, <2>1, <2>2
  <2>4. ~ended
    BY <1>0 DEF ViewInv, StreamInv
  <2>. QED BY <1>0, <1>2, <1>4, <2>3, <2>4 DEF FromTheFirst
<1>6. missed # "found"
  <2>1. FoundEnded => Published = log[viewed]
    BY DEF FoundEnded, Published
  <2>. QED BY <1>0, <1>1, <2>1 DEF ViewInv, StreamInv, FoundEnded
<1>7. restarts = 0 => lines' \subseteq {1} \X (1 .. MaxLines)
  BY <1>0, <1>1, <1>2 DEF ViewInv, StreamInv
<1>. QED BY <1>0, <1>3, <1>5, <1>6, <1>7 DEF ViewInv, StreamInv, server

\* The page's own steps leave the server alone, but for the cancel; a restart of
\* the server cuts the connection.
LEMMA ViewStep ==
    ASSUME ServerInv, ViewInv, View
    PROVE  ViewInv'
<1>0. /\ viewed \in Runs /\ Published \in Logs /\ Published.n \in 0 .. MaxLines
      /\ log[viewed] \in Logs /\ status[viewed] \in Status
      /\ closedAt[viewed] \in Logs \cup {Unset}
      /\ at \in 0 .. MaxLines
  BY PublishedTyped DEF ViewInv, ViewTypes, ServerInv, ServerTypes
<1>. USE DEF ViewInv, StreamInv
<1>1. CASE RowPolled
  BY <1>0, <1>1 DEF RowPolled, ViewTypes, FromTheFirst, FoundEnded, server, Published, WaitsEmpty
<1>2. CASE StreamOpens
  <2>1. ViewTypes'
    BY <1>0, <1>2 DEF StreamOpens, ViewTypes, server
  <2>2. ASSUME missed' = "no" PROVE FromTheFirst'
    <3>1. missed = "no" /\ Published.n = 0 /\ lines = {} /\ ~ended
      BY <1>0, <1>2, <2>2, Bounds DEF StreamOpens, FromTheFirst
    <3>2. Published' = Published /\ at' = 0 /\ ~ended' /\ lines' = {} /\ stream' = "open"
      BY <1>2, <3>1 DEF StreamOpens, Published, server
    <3>3. WaitsEmpty(viewed)'
      BY <1>2, <3>1 DEF StreamOpens, WaitsEmpty, Published, server
    <3>. QED BY <3>1, <3>2, <3>3, 1 .. 0 = {} DEF FromTheFirst
  <2>3. ASSUME missed' = "found" PROVE FoundEnded'
    <3>1. FoundEnded /\ Published = log[viewed]
      BY <1>2, <2>3 DEF StreamOpens, FoundEnded, Published
    <3>. QED BY <1>2, <3>1 DEF StreamOpens, FoundEnded, server
  <2>. QED BY <1>2, <2>1, <2>2, <2>3 DEF StreamOpens, server
<1>3. CASE LineArrives
  BY <1>3, LineKeeps
<1>4. CASE LineDropped
  <2>1. ViewTypes'
    BY <1>0, <1>4, Bounds DEF LineDropped, ViewTypes
  <2>2. missed # "found"
    <3>1. FoundEnded => Published = log[viewed]
      BY DEF FoundEnded, Published
    <3>. QED BY <1>0, <1>4, <3>1 DEF LineDropped, FoundEnded
  <2>3. missed' = "yes"
    BY <1>4, <2>2 DEF LineDropped, ViewTypes
  <2>. QED BY <1>4, <2>1, <2>3 DEF LineDropped, server
<1>5. CASE EndArrives
  <2>1. Published = closedAt[viewed] /\ closedAt[viewed] \in Logs
    BY <1>0, <1>5 DEF EndArrives, Published
  <2>2. ViewTypes'
    BY <1>5, <2>1 DEF EndArrives, ViewTypes
  <2>3. FromTheFirst => FromTheFirst'
    BY <1>5, <2>1 DEF EndArrives, FromTheFirst, Lines, server
  <2>4. FoundEnded => FoundEnded'
    BY <1>5 DEF EndArrives, FoundEnded, server
  <2>. QED BY <1>5, <2>2, <2>3, <2>4 DEF EndArrives, server
<1>6. CASE StreamBreaks
  <2>1. ViewTypes'
    BY <1>6 DEF StreamBreaks, ViewTypes
  <2>2. missed' # "no" /\ (FoundEnded => FoundEnded')
    BY <1>6 DEF StreamBreaks, FoundEnded, server
  <2>. QED BY <1>6, <2>1, <2>2 DEF StreamBreaks, server, ViewTypes
<1>7. CASE Restart
  <2>1. ViewTypes'
    BY <1>7 DEF Restart, ViewTypes
  <2>2. FoundEnded => FoundEnded'
    BY <1>0, <1>7 DEF Restart, FoundEnded
  <2>3. missed' = "no" => FromTheFirst'
    BY <1>7 DEF Restart, FromTheFirst, Lines
  <2>4. restarts' # 0
    BY <1>7, Bounds DEF Restart, ServerInv, ServerTypes
  <2>. QED BY <1>7, <2>1, <2>2, <2>3, <2>4 DEF Restart
<1>8. CASE RecordedAnswered
  <2>1. ViewTypes'
    BY <1>0, <1>8 DEF RecordedAnswered, ViewTypes
  <2>2. FromTheFirst => FromTheFirst'
    BY <1>8 DEF RecordedAnswered, FromTheFirst, Published, WaitsEmpty, Lines, server
  <2>3. FoundEnded => FoundEnded'
    BY <1>8 DEF RecordedAnswered, FoundEnded, server
  <2>. QED BY <1>8, <2>1, <2>2, <2>3 DEF RecordedAnswered, server
<1>9. CASE RecordedFails
  BY <1>0, <1>9 DEF RecordedFails, ViewTypes, FromTheFirst, FoundEnded, server, Published, WaitsEmpty
<1>10. CASE CancelFromView
  BY <1>0, <1>10, ViewUnderServer DEF CancelFromView, Goes, Cancelled
<1>. QED BY <1>1, <1>2, <1>3, <1>4, <1>5, <1>6, <1>7, <1>8, <1>9, <1>10 DEF View

\* Live lines are of one attempt, and so is the recorded log.
LEMMA OutputOfOne ==
    ASSUME ServerInv, ViewInv
    PROVE  OutputOfOneAttempt
<1>0. /\ viewed \in Runs /\ missed \in {"found", "no", "yes"} /\ stream \in {"closed", "open", "done"}
      /\ recorded \in Logs \cup {Unset} /\ final \in Logs \cup {Unset}
      /\ at \in 0 .. MaxLines /\ lines \subseteq (0 .. MaxAttempts) \X (1 .. MaxLines)
      /\ ended <=> stream = "done"
      /\ missed = "no" => FromTheFirst
      /\ missed = "found" => FoundEnded
      /\ restarts = 0 => lines \subseteq {1} \X (1 .. MaxLines)
  BY DEF ViewInv, ViewTypes, StreamInv
<1>1. 0 \in 0 .. MaxAttempts /\ 1 \in 0 .. MaxAttempts
  BY Bounds, PagesAssumption
<1>2. \A l \in Logs : l.try \in 0 .. MaxAttempts /\ l.n \in 0 .. MaxLines
                      /\ Lines(l) \subseteq {l.try} \X (1 .. MaxLines)
  BY Bounds DEF Logs, Lines
<1>3. ASSUME restarts = 0 \/ missed # "yes"
      PROVE  \E a \in 0 .. MaxAttempts : Output \subseteq {a} \X (1 .. MaxLines)
  <2>1. CASE lines = {}
    <3>1. CASE recorded = Unset
      BY <1>1, <2>1, <3>1 DEF Output
    <3>2. CASE recorded # Unset
      BY <1>0, <1>2, <2>1, <3>2 DEF Output
    <3>. QED BY <3>1, <3>2
  <2>2. CASE lines # {}
    <3>1. Output = lines
      BY <2>2 DEF Output
    <3>2. CASE restarts = 0
      BY <1>0, <1>1, <3>1, <3>2
    <3>3. CASE restarts # 0
      <4>1. missed = "no" /\ FromTheFirst /\ stream # "closed"
        BY <1>0, <1>3, <2>2, <3>3 DEF FoundEnded, FromTheFirst
      <4>2. PICK a : lines \subseteq {a} \X (1 .. MaxLines)
        <5>1. CASE stream = "open"
          <6>1. lines = {Published.try} \X (1 .. at)
            BY <4>1, <5>1 DEF FromTheFirst
          <6>2. 1 .. at \subseteq 1 .. MaxLines
            BY <1>0, Bounds
          <6>3. lines \subseteq {Published.try} \X (1 .. MaxLines)
            BY <6>1, <6>2
          <6>. QED BY <6>3
        <5>2. CASE stream = "done"
          <6>1. lines = {final.try} \X (1 .. final.n)
            BY <1>0, <4>1, <5>2 DEF FromTheFirst, Lines
          <6>2. lines \subseteq {final.try} \X (1 .. MaxLines)
            BY <1>0, <6>1
          <6>. QED BY <6>2
        <5>. QED BY <1>0, <4>1, <5>1, <5>2
      <4>3. a \in 0 .. MaxAttempts
        BY <1>0, <2>2, <4>2
      <4>. QED BY <3>1, <4>2, <4>3
    <3>. QED BY <3>2, <3>3
  <2>. QED BY <2>1, <2>2
<1>4. ended /\ missed = "no" /\ final.n > 0 => Output = Lines(final)
  <2>. SUFFICES ASSUME ended, missed = "no", final.n > 0 PROVE Output = Lines(final)
    OBVIOUS
  <2>1. lines = Lines(final)
    BY <1>0 DEF FromTheFirst
  <2>2. final.n \in Nat
    BY <1>0, <1>2, Bounds DEF Unset
  <2>3. <<final.try, 1>> \in lines
    BY <2>1, <2>2 DEF Lines
  <2>. QED BY <2>1, <2>3 DEF Output
<1>5. missed = "found" /\ recorded # Unset => Output = Lines(log[viewed])
  BY <1>0 DEF FoundEnded, Output
<1>. QED BY <1>3, <1>4, <1>5 DEF OutputOfOneAttempt

-----------------------------------------------------------------------------
(* The Logs tab.                                                           *)

\* A fetch that is live is one for the run shown; once that run is known to
\* have ended, what it has read is the whole log.
FetchesOwn ==
    \A f \in fetches :
        /\ f.stage = "reading" => f.live
        /\ f.live => f.run = current /\ f.stage # "crossed"
        /\ f.live /\ f.stage = "reading" /\ polled \in Ended => f.n = log[current].n

TabInv ==
    /\ TabTypes
    /\ polled # "none" => current # 0
    /\ polled \in Ended => status[current] = polled
    /\ FetchesOwn /\ LogsTabShowsFinal

LEMMA TabUnderServer ==
    ASSUME ServerInv, TabInv, NEW r \in Runs, ServerMoves(r), UNCHANGED tabs
    PROVE  TabInv'
<1>1. TabTypes' /\ UNCHANGED <<current, polled, fetches, runLog, failed, crossed>>
  BY DEF TabInv, TabTypes, tabs
<1>2. polled \in Ended => /\ status'[current] = polled
                          /\ log'[current] = log[current]
  <2>. SUFFICES ASSUME polled \in Ended
                PROVE  status'[current] = polled /\ log'[current] = log[current]
    OBVIOUS
  <2>1. current \in Runs /\ status[current] = polled
    BY Bounds DEF TabInv, TabTypes, Ended
  <2>. QED BY <2>1, EndedKeeps
<1>3. LogSettled' <=> LogSettled
  BY <1>1 DEF LogSettled
<1>4. FetchesOwn'
  BY <1>1, <1>2 DEF TabInv, FetchesOwn
<1>5. LogsTabShowsFinal'
  BY <1>1, <1>2, <1>3 DEF TabInv, LogsTabShowsFinal, LogSettled
<1>. QED BY <1>1, <1>2, <1>4, <1>5 DEF TabInv

\* The effect runs again: every fetch is abandoned, and unless the run is known
\* to be running there is a new one.
LEMMA FetchesRenewed ==
    ASSUME TabTypes, NEW r \in Runs, NEW s, RefreshLog(r, s)
    PROVE  /\ fetches' \subseteq FetchType
           /\ \A f \in fetches' :
                 /\ f.stage # "reading"
                 /\ f.live => f.run = r /\ f.stage = "sent"
           /\ s # "running" => \E f \in fetches' : f.live
<1>. DEFINE Old == {[f EXCEPT !.live = FALSE,
                             !.stage = IF @ = "reading" THEN "crossed" ELSE @] : f \in fetches}
            new == [run |-> r, n |-> 0, live |-> TRUE, stage |-> "sent"]
<1>1. \A f \in fetches : f \in FetchType
  BY DEF TabTypes
<1>2. \A g \in Old : g \in FetchType /\ ~g.live /\ g.stage # "reading"
  BY <1>1 DEF FetchType
<1>3. new \in FetchType /\ new.live /\ new.run = r /\ new.stage = "sent"
  BY Bounds DEF FetchType
<1>4. fetches' = Old \cup (IF s = "running" THEN {} ELSE {new})
  BY DEF RefreshLog
<1>. HIDE DEF Old, new
<1>. QED BY <1>2, <1>3, <1>4

LEMMA RefreshKeeps ==
    ASSUME ServerInv, TabInv, RunStarted \/ StatusPolled
    PROVE  TabInv'
<1>1. CASE RunStarted
  <2>1. /\ clicked \in Runs /\ clicked # 0 /\ RefreshLog(clicked, "none")
        /\ current' = clicked /\ polled' = "none" /\ runLog' = [run |-> clicked, n |-> 0]
        /\ clicked' = NotClicked /\ failed' = FALSE /\ crossed' = FALSE
    BY <1>1, Bounds DEF RunStarted
  <2>2. TabTypes
    BY DEF TabInv
  <2>3. /\ fetches' \subseteq FetchType
        /\ \A f \in fetches' :
              f.stage # "reading" /\ (f.live => f.run = clicked /\ f.stage = "sent")
    BY <2>1, <2>2, FetchesRenewed
  <2>4. TabTypes'
    <3>1. clicked \in 0 .. LastRun /\ 0 \in 0 .. MaxLines
      BY <2>1, Bounds
    <3>. QED BY <2>1, <2>3, <3>1, Bounds DEF TabTypes
  <2>5. FetchesOwn'
    BY <2>1, <2>3 DEF FetchesOwn
  <2>6. LogsTabShowsFinal'
    BY <2>1 DEF LogsTabShowsFinal, LogSettled, Ended
  <2>. QED BY <2>1, <2>4, <2>5, <2>6 DEF TabInv, Ended
<1>2. CASE StatusPolled
  <2>1. /\ current # 0 /\ polled \in {"none", "running"} /\ polled' = status[current]
        /\ RefreshLog(current, polled') /\ failed' = FALSE
        /\ UNCHANGED <<server, clicked, current, runLog, crossed>>
    BY <1>2 DEF StatusPolled
  <2>2. TabTypes /\ current \in Runs
    BY <2>1, Bounds DEF TabInv, TabTypes
  <2>3. /\ fetches' \subseteq FetchType
        /\ \A f \in fetches' :
              f.stage # "reading" /\ (f.live => f.run = current /\ f.stage = "sent")
        /\ polled' # "running" => \E f \in fetches' : f.live
    BY <2>1, <2>2, FetchesRenewed
  <2>4. TabTypes'
    BY <2>1, <2>2, <2>3 DEF TabTypes, ServerInv, ServerTypes
  <2>5. FetchesOwn'
    BY <2>1, <2>3 DEF FetchesOwn
  <2>6. ~LogSettled'
    BY <2>3 DEF LogSettled, Ended
  <2>7. LogsTabShowsFinal'
    BY <2>1, <2>6 DEF TabInv, LogsTabShowsFinal
  <2>. QED BY <2>1, <2>4, <2>5, <2>7 DEF TabInv, server
<1>. QED BY <1>1, <1>2

\* The response has begun after the run was known to have ended, so it is of
\* the whole log.
LEMMA ResponseKeeps ==
    ASSUME ServerInv, TabInv, NEW f \in fetches, LogResponse(f)
    PROVE  TabInv'
<1>. DEFINE g == [f EXCEPT !.stage = "reading", !.n = log[f.run].n]
<1>1. /\ f.stage = "sent" /\ fetches' = (fetches \ {f}) \cup (IF f.live THEN {g} ELSE {})
      /\ UNCHANGED <<server, clicked, current, polled, runLog, failed, crossed>>
  BY DEF LogResponse
<1>2. f \in FetchType /\ log[f.run].n \in 0 .. MaxLines
  BY DEF TabInv, TabTypes, FetchType, ServerInv, ServerTypes, Logs
<1>3. /\ g \in FetchType
      /\ g.run = f.run /\ g.live = f.live /\ g.stage = "reading" /\ g.n = log[f.run].n
  BY <1>2 DEF FetchType
<1>. HIDE DEF g
<1>4. TabTypes'
  BY <1>1, <1>3 DEF TabInv, TabTypes
<1>5. FetchesOwn'
  BY <1>1, <1>3 DEF TabInv, FetchesOwn, server
<1>6. LogSettled' => LogSettled
  BY <1>1, <1>3 DEF LogSettled
<1>7. LogsTabShowsFinal'
  BY <1>1, <1>6 DEF TabInv, LogsTabShowsFinal, server
<1>. QED BY <1>1, <1>4, <1>5, <1>7 DEF TabInv, server

LEMMA AnswerKeeps ==
    ASSUME ServerInv, TabInv, NEW f \in fetches, LogAnswered(f)
    PROVE  TabInv'
<1>1. /\ f.stage # "sent" /\ fetches' = fetches \ {f}
      /\ runLog' = [run |-> f.run, n |-> f.n] /\ crossed' = (f.stage = "crossed")
      /\ UNCHANGED <<server, clicked, current, polled, failed>>
  BY DEF LogAnswered
<1>2. f \in FetchType
  BY DEF TabInv, TabTypes
<1>3. TabTypes'
  BY <1>1, <1>2, Bounds DEF TabInv, TabTypes, FetchType
<1>4. FetchesOwn'
  BY <1>1 DEF TabInv, FetchesOwn, server
<1>5. ~crossed' => f.live /\ f.run = current /\ (polled \in Ended => f.n = log[current].n)
  BY <1>1, <1>2 DEF TabInv, FetchesOwn, FetchType
<1>6. LogsTabShowsFinal'
  BY <1>1, <1>5 DEF LogsTabShowsFinal, LogSettled, server
<1>. QED BY <1>1, <1>3, <1>4, <1>6 DEF TabInv, server

LEMMA FailKeeps ==
    ASSUME TabInv, NEW f \in fetches, LogFails(f)
    PROVE  TabInv'
<1>1. /\ fetches' = fetches \ {f} /\ failed' = (failed \/ f.live)
      /\ UNCHANGED <<server, clicked, current, polled, runLog, crossed>>
  BY DEF LogFails
<1>2. f \in FetchType
  BY DEF TabInv, TabTypes
<1>3. TabTypes'
  BY <1>1, <1>2 DEF TabInv, TabTypes, FetchType
<1>4. FetchesOwn'
  BY <1>1 DEF TabInv, FetchesOwn, server
<1>5. LogSettled' => LogSettled
  BY <1>1 DEF LogSettled
<1>6. LogsTabShowsFinal'
  BY <1>1, <1>5 DEF TabInv, LogsTabShowsFinal, server
<1>. QED BY <1>1, <1>3, <1>4, <1>6 DEF TabInv, server

LEMMA ScriptStep ==
    ASSUME ServerInv, TabInv, Script
    PROVE  TabInv'
<1>1. CASE ClickRun \/ RunRefused
  <2>1. clicked' \in {NotClicked, Sent}
        /\ UNCHANGED <<server, current, polled, runLog, fetches, failed, crossed>>
    BY <1>1 DEF ClickRun, RunRefused
  <2>. QED BY <2>1 DEF TabInv, TabTypes, FetchesOwn, LogsTabShowsFinal, LogSettled, server
<1>2. CASE RunStarted \/ StatusPolled
  BY <1>2, RefreshKeeps
<1>3. ASSUME NEW r \in Runs, ServeRun(r) PROVE TabInv'
  <2>1. /\ status' = [status EXCEPT ![r] = "running"] /\ Fresh(r) /\ clicked' = r
        /\ UNCHANGED <<log, current, polled, runLog, fetches, failed, crossed>>
    BY <1>3 DEF ServeRun
  <2>2. polled \in Ended => status'[current] = polled
    BY <2>1 DEF TabInv, Fresh, Ended, ServerInv, ServerTypes
  <2>. QED BY <2>1, <2>2 DEF TabInv, TabTypes, FetchesOwn, LogsTabShowsFinal, LogSettled
<1>4. ASSUME NEW f \in fetches, LogResponse(f) \/ LogAnswered(f) \/ LogFails(f)
      PROVE  TabInv'
  BY <1>4, ResponseKeeps, AnswerKeeps, FailKeeps
<1>. QED BY <1>1, <1>2, <1>3, <1>4 DEF Script

-----------------------------------------------------------------------------
(* The theorems.                                                           *)

PagesInv == ServerInv /\ ListInv /\ ViewInv /\ TabInv

LEMMA PagesInit == Init => PagesInv
<1>. SUFFICES ASSUME Init PROVE PagesInv
  OBVIOUS
<1>1. ServerInv
  BY ServerInit
<1>2. ListInv
  <2>1. key \in Keys
    BY Bounds DEF Init, Keys
  <2>. QED BY <2>1, Bounds DEF Init, ListInv, ListTypes
<1>3. ViewInv
  <2>1. viewed \in Runs
    BY Bounds DEF Init
  <2>2. ViewTypes
    <3>1. 0 \in 0 .. MaxLines /\ "none" \in Status
      BY Bounds
    <3>2. /\ route \in {"list", "view", "script"} /\ stream = "closed" /\ at = 0 /\ lines = {}
          /\ row = "none" /\ ended = FALSE /\ recorded = Unset /\ recording = TRUE /\ final = Unset
          /\ missed \in {"found", "no", "yes"}
      BY DEF Init
    <3>. QED BY <2>1, <3>1, <3>2 DEF ViewTypes
  <2>3. missed = "found" => status[viewed] \in Ended /\ closedAt[viewed] = log[viewed]
    BY <2>1 DEF Init, Ended
  <2>4. /\ missed # "yes" /\ lines = {} /\ stream = "closed" /\ ~ended /\ recorded = Unset
    BY DEF Init
  <2>. QED BY <2>2, <2>3, <2>4 DEF ViewInv, StreamInv, FromTheFirst, FoundEnded
<1>4. TabInv
  <2>1. TabTypes
    <3>1. 0 \in 0 .. MaxLines /\ 0 \in 0 .. LastRun
      BY Bounds
    <3>2. NoLog \in [run : 0 .. LastRun, n : 0 .. MaxLines]
      BY <3>1 DEF NoLog
    <3>. QED BY <3>1, <3>2, Bounds DEF Init, TabTypes
  <2>. QED BY <2>1 DEF Init, TabInv, FetchesOwn, LogsTabShowsFinal, LogSettled, NoLog, Ended
<1>. QED BY <1>1, <1>2, <1>3, <1>4 DEF PagesInv

LEMMA PagesStep ==
    ASSUME PagesInv, [Next]_vars
    PROVE  PagesInv'
<1>1. viewed \in Runs /\ ServerTypes
  BY DEF PagesInv, ViewInv, ViewTypes, ServerInv
<1>2. PICK r \in Runs : ServerMoves(r)
  BY <1>1, EveryStep
<1>3. List \/ UNCHANGED list
  BY <1>1, EveryStep
<1>4. \/ View
      \/ \E q \in Runs : OpenLog(q)
      \/ (\E q \in Runs : Goes(q)) /\ UNCHANGED <<route, view>>
  BY <1>1, EveryStep
<1>5. Script \/ UNCHANGED tabs
  BY <1>1, EveryStep
<1>6. ServerInv'
  BY <1>2, ServerKept DEF PagesInv
<1>7. ListInv'
  BY <1>3, ListStep DEF PagesInv, ServerInv, list, ListInv, ListTypes
<1>8. ViewInv'
  BY <1>4, ViewStep, ViewUnderServer, ViewUnderOpening DEF PagesInv
<1>9. TabInv'
  BY <1>2, <1>5, ScriptStep, TabUnderServer DEF PagesInv
<1>. QED BY <1>6, <1>7, <1>8, <1>9 DEF PagesInv

LEMMA PagesInvariant == Spec => []PagesInv
BY PagesInit, PagesStep, PTL DEF Spec

\* The pages and the server keep their types, for any number of runs.
THEOREM RunsTypes == Spec => []RunsTypeOK
<1>1. PagesInv => RunsTypeOK
  BY TypesTogether DEF PagesInv, PagesTypes, ServerInv, ListInv, ViewInv, TabInv
<1>. QED BY <1>1, PagesInvariant, PTL

\* Rows under a filter are rows of that filter, however the filters change while
\* answers are on their way and whatever the cache still holds (Runs.tsx).
THEOREM FilterHeeded == Spec => []ShownMatchesFilter
<1>1. PagesInv => ShownMatchesFilter
  BY DEF PagesInv, ListInv, ShownMatchesFilter, ShownHistory, Suits
<1>. QED BY <1>1, PagesInvariant, PTL

\* The page of a run shows the output of one attempt, all that was published of
\* it to a page that listened from the first line on and lost none, and the whole
\* log of a run found ended (RunView.tsx, useLiveLogs.ts).
THEOREM OutputWhole == Spec => []OutputOfOneAttempt
<1>1. PagesInv => OutputOfOneAttempt
  BY OutputOfOne DEF PagesInv
<1>. QED BY <1>1, PagesInvariant, PTL

\* But for a text whose reading outlasted its effect, the Logs tab shows the log
\* of the run it names, and all of it once the run is seen to have ended, however
\* many fetches were abandoned before (ScriptEdit.tsx).
THEOREM TabShowsFinal == Spec => []LogsTabShowsFinal
<1>1. PagesInv => LogsTabShowsFinal
  BY DEF PagesInv, TabInv
<1>. QED BY <1>1, PagesInvariant, PTL
=============================================================================
