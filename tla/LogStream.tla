------------------------------ MODULE LogStream ------------------------------
(***************************************************************************)
(* The live log of a run: services/log_broker.py, its callers in           *)
(* runner/executor.py and api/runs.py, and the browser's end of the        *)
(* connection in frontend/src/hooks/useLiveLogs.ts.                        *)
(*                                                                         *)
(* publish and close hold the broker's only lock without an await inside,  *)
(* so each is one step that finds the lock free.  subscribe is different:  *)
(* to a run that has ended it yields the end frame with the lock in hand,  *)
(* for as long as that frame takes to be sent.                             *)
(*                                                                         *)
(* Line n of a run is the number n, counted over its attempts; heartbeats  *)
(* carry nothing and are left out.  A connection is a viewer with a        *)
(* number, since EventSource opens a new one whenever the old one breaks.  *)
(***************************************************************************)
EXTENDS Naturals, Sequences

CONSTANTS
    Run,          \* runs with a page somebody looks at
    Viewer,       \* open RunView pages
    Watches,      \* the run of each page
    QueueSize,    \* maxsize of a subscriber's queue
    Free,         \* "nobody holds the broker's lock"
    MaxLines,     \* bound: lines of an attempt
    MaxAttempts,  \* bound: attempts of a run
    MaxConns,     \* bound: connections a page opens
    MaxRestarts   \* bound: how often the server is restarted

ASSUME LogStreamAssumption ==
    /\ Watches \in [Viewer -> Run]
    /\ QueueSize \in Nat \ {0}
    /\ MaxLines \in Nat /\ MaxAttempts \in Nat \ {0}
    /\ MaxConns \in Nat /\ MaxRestarts \in Nat
    /\ Free \notin Viewer \X (1 .. MaxConns)

VARIABLES
    lock,      \* who holds the broker's lock between two steps
    channel,   \* the broker's channels; one never asked for is an empty one
    queue,     \* the queue of each connection
    conn,      \* where the server is with each connection
    page,      \* each page: its current connection, and what it was told
    got,       \* what each page received over each connection
    missed,    \* what did not fit in the queue of a connection
    run,       \* the execution of each run
    restarts

vars == <<lock, channel, queue, conn, page, got, missed, run, restarts>>

Conn == Viewer \X (1 .. MaxConns)
RunOf(c) == Watches[c[1]]

End == 0                            \* the end frame
Event == 0 .. MaxLines * MaxAttempts

ConnPc == {"unused", "asking",   \* the request has reached subscribe
           "live",               \* registered, in the loop on q.get
           "reply",              \* yielding the end frame, lock in hand
           "returning",          \* end frame sent, lock in hand
           "done"}

LogTypeOK ==
    /\ lock \in Conn \cup {Free}
    /\ channel \in [Run -> [queues : SUBSET Conn, ended : BOOLEAN]]
    /\ queue \in [Conn -> Seq(Event)]
    /\ \A c \in Conn : Len(queue[c]) <= QueueSize
    /\ conn \in [Conn -> ConnPc]
    /\ page \in [Viewer -> [open : BOOLEAN, at : 0 .. MaxConns, ended : BOOLEAN]]
    /\ got \in [Conn -> Seq(Event)]
    /\ missed \in [Conn -> SUBSET {"line", "end"}]
    /\ run \in [Run -> [is : {"up", "ended", "lost"}, attempt : 1 .. MaxAttempts,
                        lines : 0 .. MaxLines, sent : Event]]
    /\ restarts \in 0 .. MaxRestarts

NoChannel == [queues |-> {}, ended |-> FALSE]

Init ==
    /\ lock = Free
    /\ channel = [r \in Run |-> NoChannel]
    /\ queue = [c \in Conn |-> <<>>]
    /\ conn = [c \in Conn |-> "unused"]
    /\ page = [v \in Viewer |-> [open |-> FALSE, at |-> 0, ended |-> FALSE]]
    /\ got = [c \in Conn |-> <<>>]
    /\ missed = [c \in Conn |-> {}]
    /\ run = [r \in Run |-> [is |-> "up", attempt |-> 1, lines |-> 0, sent |-> 0]]
    /\ restarts = 0

-----------------------------------------------------------------------------
(* What the broker's callers do. *)

\* Fault: put without a bound.
OfferUnbounded(qs, e) ==
    /\ queue' = [c \in Conn |-> IF c \in qs THEN Append(queue[c], e) ELSE queue[c]]
    /\ UNCHANGED missed

\* put_nowait of e into the queues of qs; QueueFull is passed over.
Offer(qs, e) ==
    LET full == {c \in qs : Len(queue[c]) >= QueueSize}
    IN  /\ queue' = [c \in Conn |-> IF c \in qs \ full THEN Append(queue[c], e) ELSE queue[c]]
        /\ missed' = [c \in Conn |->
               IF c \in full THEN missed[c] \cup {IF e = End THEN "end" ELSE "line"}
               ELSE missed[c]]

NextLine(r) == [run[r] EXCEPT !.lines = @ + 1, !.sent = @ + 1]

\* Fault: publish does not look whether the channel has ended.
PublishAfterEnd(r) ==
    /\ lock = Free
    /\ run[r].is = "up" /\ run[r].lines < MaxLines
    /\ Offer(channel[r].queues, run[r].sent + 1)
    /\ run' = [run EXCEPT ![r] = NextLine(r)]
    /\ UNCHANGED <<lock, channel, conn, page, got, restarts>>

\* publish, awaited by the read loop of run_script for each line.
Publish(r) ==
    /\ lock = Free
    /\ run[r].is = "up" /\ run[r].lines < MaxLines
    /\ Offer(IF channel[r].ended THEN {} ELSE channel[r].queues, run[r].sent + 1)
    /\ run' = [run EXCEPT ![r] = NextLine(r)]
    /\ UNCHANGED <<lock, channel, conn, page, got, restarts>>

\* close: the first call ends the channel for good, later ones return.
CloseChannel(r) ==
    /\ lock = Free
    /\ channel' = [channel EXCEPT ![r].ended = TRUE]
    /\ Offer(IF channel[r].ended THEN {} ELSE channel[r].queues, End)

\* run_script closes the channel at the end of an attempt.
Close(r) ==
    /\ run[r].is = "up"
    /\ CloseChannel(r)
    /\ run' = [run EXCEPT ![r].is = "ended"]
    /\ UNCHANGED <<lock, conn, page, got, restarts>>

\* The cancel request closes it as well, for a row that says running: the
\* process may still write, or be gone with the server that started it.
CancelCloses(r) ==
    /\ run[r].is # "ended"
    /\ CloseChannel(r)
    /\ UNCHANGED <<lock, conn, page, got, run, restarts>>

\* The tick dispatches the run again: same run id, same channel, or after a
\* restart a new one.
Retry(r) ==
    /\ run[r].is = "ended"
    /\ run[r].attempt < MaxAttempts
    /\ run' = [run EXCEPT ![r].is = "up", ![r].attempt = @ + 1, ![r].lines = 0]
    /\ UNCHANGED <<lock, channel, queue, conn, page, got, missed, restarts>>

-----------------------------------------------------------------------------
(* Connections. *)

Here(v) == <<v, page[v].at>>

\* The page is still at the other end of c.
Attached(c) == page[c[1]].open /\ page[c[1]].at = c[2]

\* The hook's effect, or EventSource's own reconnection; not after "end".
Connect(v) ==
    /\ ~page[v].open /\ ~page[v].ended
    /\ page[v].at < MaxConns
    /\ page' = [page EXCEPT ![v].open = TRUE, ![v].at = @ + 1]
    /\ conn' = [conn EXCEPT ![<<v, page[v].at + 1>>] = "asking"]
    /\ UNCHANGED <<lock, channel, queue, got, missed, run, restarts>>

\* Fault: what was published so far is sent again to every new connection.
SubscribeReplaying(c) ==
    /\ conn[c] = "asking"
    /\ lock = Free
    /\ ~channel[RunOf(c)].ended
    /\ conn' = [conn EXCEPT ![c] = "live"]
    /\ channel' = [channel EXCEPT ![RunOf(c)].queues = @ \cup {c}]
    /\ queue' = [queue EXCEPT ![c] = [i \in 1 .. run[RunOf(c)].sent |-> i]]
    /\ UNCHANGED <<lock, page, got, missed, run, restarts>>

\* subscribe to a run that has not ended.
Subscribe(c) ==
    /\ conn[c] = "asking"
    /\ lock = Free
    /\ ~channel[RunOf(c)].ended
    /\ conn' = [conn EXCEPT ![c] = "live"]
    /\ channel' = [channel EXCEPT ![RunOf(c)].queues = @ \cup {c}]
    /\ UNCHANGED <<lock, queue, page, got, missed, run, restarts>>

\* Fault: an ended channel is subscribed to like any other.
SubscribeEndedLikeAny(c) ==
    /\ conn[c] = "asking"
    /\ lock = Free
    /\ channel[RunOf(c)].ended
    /\ conn' = [conn EXCEPT ![c] = "live"]
    /\ channel' = [channel EXCEPT ![RunOf(c)].queues = @ \cup {c}]
    /\ UNCHANGED <<lock, queue, page, got, missed, run, restarts>>

\* subscribe to a run that has: the end frame is yielded inside the lock.
SubscribeEnded(c) ==
    /\ conn[c] = "asking"
    /\ lock = Free
    /\ channel[RunOf(c)].ended
    /\ lock' = c
    /\ conn' = [conn EXCEPT ![c] = "reply"]
    /\ UNCHANGED <<channel, queue, page, got, missed, run, restarts>>

\* An event reaches the page, which closes its EventSource on "end".
Receive(c, e) ==
    /\ got' = [got EXCEPT ![c] = Append(@, e)]
    /\ page' = IF e = End
               THEN [page EXCEPT ![c[1]] = [open |-> FALSE, at |-> @.at, ended |-> TRUE]]
               ELSE page

SendEnd(c) ==
    /\ conn[c] = "reply"
    /\ Attached(c)
    /\ Receive(c, End)
    /\ conn' = [conn EXCEPT ![c] = "returning"]
    /\ UNCHANGED <<lock, channel, queue, missed, run, restarts>>

\* Fault: only a frame that was sent lets go of the lock.
ReturnIfSent(c) ==
    /\ conn[c] = "returning"
    /\ lock' = Free
    /\ conn' = [conn EXCEPT ![c] = "done"]
    /\ UNCHANGED <<channel, queue, page, got, missed, run, restarts>>

\* The generator is resumed and returns, or is closed at its yield because
\* the client is gone: either way it leaves "async with self._lock".
Return(c) ==
    /\ \/ conn[c] = "returning"
       \/ conn[c] = "reply" /\ ~Attached(c)
    /\ lock' = Free
    /\ conn' = [conn EXCEPT ![c] = "done"]
    /\ UNCHANGED <<channel, queue, page, got, missed, run, restarts>>

\* q.get, the yield, and the page's listener.
Deliver(c) ==
    /\ conn[c] = "live"
    /\ Attached(c)
    /\ queue[c] # <<>>
    /\ Receive(c, Head(queue[c]))
    /\ queue' = [queue EXCEPT ![c] = Tail(@)]
    /\ UNCHANGED <<lock, channel, conn, missed, run, restarts>>

\* The page is left, or the network breaks the connection.
Break(v) ==
    /\ page[v].open
    /\ page' = [page EXCEPT ![v].open = FALSE]
    /\ UNCHANGED <<lock, channel, queue, conn, got, missed, run, restarts>>

\* The server finds the client gone before subscribe had the lock.
Abandon(c) ==
    /\ conn[c] = "asking"
    /\ ~Attached(c)
    /\ conn' = [conn EXCEPT ![c] = "done"]
    /\ UNCHANGED <<lock, channel, queue, page, got, missed, run, restarts>>

\* It finds it gone later: the generator's finally takes the lock and
\* discards the queue.
Unsubscribe(c) ==
    /\ conn[c] = "live"
    /\ ~Attached(c)
    /\ lock = Free
    /\ channel' = [channel EXCEPT ![RunOf(c)].queues = @ \ {c}]
    /\ queue' = [queue EXCEPT ![c] = <<>>]
    /\ conn' = [conn EXCEPT ![c] = "done"]
    /\ UNCHANGED <<lock, page, got, missed, run, restarts>>

\* The broker lives in memory: a restart forgets its channels, breaks every
\* connection, and nobody goes on with the runs that were up, or that had
\* ended with their outcome not yet written.
Restart ==
    /\ restarts < MaxRestarts
    /\ restarts' = restarts + 1
    /\ lock' = Free
    /\ channel' = [r \in Run |-> NoChannel]
    /\ queue' = [c \in Conn |-> <<>>]
    /\ conn' = [c \in Conn |-> IF conn[c] = "unused" THEN "unused" ELSE "done"]
    /\ page' = [v \in Viewer |-> [page[v] EXCEPT !.open = FALSE]]
    /\ \E settled \in SUBSET {r \in Run : run[r].is = "ended"} :
          run' = [r \in Run |-> IF r \in settled THEN run[r] ELSE [run[r] EXCEPT !.is = "lost"]]
    /\ UNCHANGED <<got, missed>>

Next ==
    \/ \E r \in Run : Publish(r) \/ Close(r) \/ CancelCloses(r) \/ Retry(r)
    \/ \E v \in Viewer : Connect(v) \/ Break(v)
    \/ \E c \in Conn :
          \/ Subscribe(c)
          \/ SubscribeEnded(c)
          \/ SendEnd(c)
          \/ Return(c)
          \/ Deliver(c)
          \/ Abandon(c)
          \/ Unsubscribe(c)
    \/ Restart

Spec == Init /\ [][Next]_vars

(***************************************************************************)
(* Fairness.  asyncio.Lock serves its waiters in order (strong fairness);  *)
(* the end frame of an ended run is the first, small write of a response,  *)
(* which does not wait for the client; a process that is read ends; a page *)
(* that is open reads.                                                     *)
(***************************************************************************)
Fairness ==
    /\ \A r \in Run : SF_vars(Close(r))
    /\ \A c \in Conn :
          /\ SF_vars(Subscribe(c) \/ SubscribeEnded(c))
          /\ SF_vars(Unsubscribe(c))
          /\ WF_vars(SendEnd(c) \/ Return(c))
          /\ WF_vars(Deliver(c))

FairSpec == Spec /\ Fairness

-----------------------------------------------------------------------------
(* Properties. *)

\* What a connection carries is a piece of the log: no line repeated or out of
\* order, none left out unless the queue overflowed, and the end frame once
\* and last, in whatever order run_script, a cancel and a retry publish and
\* close.
Carried(c) == got[c] \o queue[c]

WellFormed(s, gaps) ==
    \A i \in 1 .. Len(s) - 1 :
        /\ s[i] # End
        /\ s[i + 1] # End => IF gaps THEN s[i] < s[i + 1] ELSE s[i + 1] = s[i] + 1

ConnectionInOrder == \A c \in Conn : WellFormed(Carried(c), "line" \in missed[c])

\* A page that reconnects never shows a line twice: its list of events is the
\* concatenation of what its connections delivered.
NoLineTwice ==
    \A v \in Viewer : \A i, j \in 1 .. MaxConns : i < j =>
        \A m \in 1 .. Len(got[<<v, i>>]), n \in 1 .. Len(got[<<v, j>>]) :
            got[<<v, j>>][n] # End => got[<<v, i>>][m] < got[<<v, j>>][n]

\* A page that stays connected to a run whose channel has ended is told so,
\* unless its queue was full at the moment of the end.
EndReaches ==
    \A v \in Viewer :
        page[v].open /\ channel[Watches[v]].ended
            ~> \/ page[v].ended
               \/ ~page[v].open
               \/ "end" \in missed[Here(v)]

\* No viewer can hold up an execution: run_script gets through the broker's
\* lock, whoever holds it and whether or not that client is still there.
\* (Executor's fairness of Release assumes this.)
RunGoesOn ==
    \A r \in Run : run[r].is = "up" ~> run[r].is # "up"
=============================================================================
