--------------------------- MODULE LogStreamProofs ---------------------------
(***************************************************************************)
(* Proofs about LogStream, for any number of runs, pages, lines, attempts, *)
(* reconnections and restarts: a connection carries a piece of the log in  *)
(* order, and no page shows a line twice.                                  *)
(*                                                                         *)
(* Neither is inductive: that the line published next fits to the end of   *)
(* what a connection carries needs to know where that end is (Abreast).    *)
(* The channel of a run that goes on has queues in which there is no end   *)
(* frame, and whose last line is the last one published, unless a line was *)
(* missed.  A page that reconnects gets lines published after it did, all  *)
(* of them later than those it has (Later).                                *)
(***************************************************************************)
EXTENDS LogStream, TLAPS, SequenceTheorems

RunType == [is : {"up", "ended", "lost"}, attempt : 1 .. MaxAttempts,
            lines : 0 .. MaxLines, sent : Event]

\* No more lines than the attempts so far may have.
LinesCounted ==
    \A r \in Run : run[r].sent <= MaxLines * (run[r].attempt - 1) + run[r].lines

Listed(c) == c \in channel[RunOf(c)].queues

QueuesListed ==
    \A r \in Run : \A c \in channel[r].queues : RunOf(c) = r /\ conn[c] = "live"

\* Where nothing was delivered, or nothing waits.
EmptyUntilLive ==
    \A c \in Conn :
        /\ conn[c] \in {"unused", "asking", "reply"} => got[c] = <<>>
        /\ conn[c] # "live" => queue[c] = <<>>

Bounded(s, n) == \A i \in 1 .. Len(s) : s[i] <= n
Published == \A c \in Conn : Bounded(Carried(c), run[RunOf(c)].sent)

\* s may be continued with line n + 1.
Continues(s, n, gaps) ==
    /\ \A i \in 1 .. Len(s) : s[i] # End
    /\ s # <<>> /\ ~gaps => s[Len(s)] = n
Abreast ==
    \A c \in Conn :
        Listed(c) /\ ~channel[RunOf(c)].ended =>
            Continues(Carried(c), run[RunOf(c)].sent, "line" \in missed[c])

PagesCount ==
    \A v \in Viewer : \A i \in 1 .. MaxConns : i > page[v].at => conn[<<v, i>>] = "unused"

\* Every line of t is later than those of s.
After(s, t) ==
    \A m \in 1 .. Len(s), n \in 1 .. Len(t) : t[n] # End => s[m] < t[n]
Later ==
    \A v \in Viewer : \A i, j \in 1 .. MaxConns : i < j =>
        After(got[<<v, i>>], Carried(<<v, j>>))

LogInv ==
    /\ LogTypeOK
    /\ LinesCounted
    /\ QueuesListed
    /\ EmptyUntilLive
    /\ Published
    /\ ConnectionInOrder
    /\ Abreast
    /\ PagesCount
    /\ Later

-----------------------------------------------------------------------------
(* Sequences of events.                                                    *)

LEMMA EventNat == Event \subseteq Nat /\ End \in Event /\ MaxLines * MaxAttempts \in Nat
BY LogStreamAssumption DEF Event, End

LEMMA CarryAppend ==
    ASSUME NEW a \in Seq(Event), NEW b \in Seq(Event), NEW e \in Event
    PROVE  a \o Append(b, e) = Append(a \o b, e)
<1>1. Append(b, e) = b \o <<e>> /\ <<e>> \in Seq(Event)
  BY AppendIsConcat
<1>2. a \o (b \o <<e>>) = (a \o b) \o <<e>>
  BY <1>1, ConcatAssociative
<1>3. a \o b \in Seq(Event)
  BY ConcatProperties
<1>. QED BY <1>1, <1>2, <1>3, AppendIsConcat

LEMMA CarryDeliver ==
    ASSUME NEW a \in Seq(Event), NEW b \in Seq(Event), b # <<>>
    PROVE  /\ Head(b) \in Event /\ Tail(b) \in Seq(Event) /\ Len(Tail(b)) <= Len(b)
           /\ Append(a, Head(b)) \in Seq(Event)
           /\ Append(a, Head(b)) \o Tail(b) = a \o b
<1>1. /\ Head(b) \in Event /\ Tail(b) \in Seq(Event) /\ Len(Tail(b)) = Len(b) - 1
      /\ Len(b) \in Nat \ {0} /\ \A i \in 1 .. Len(b) - 1 : Tail(b)[i] = b[i + 1]
  BY HeadTailProperties, EmptySeq
<1>2. Head(b) = b[1]
  OBVIOUS
<1>3. /\ Append(a, Head(b)) \in Seq(Event) /\ Len(Append(a, Head(b))) = Len(a) + 1
      /\ \A i \in 1 .. Len(a) : Append(a, Head(b))[i] = a[i]
      /\ Append(a, Head(b))[Len(a) + 1] = b[1] /\ Len(a) \in Nat
  BY <1>1, <1>2, AppendProperties, LenProperties
<1>. DEFINE h == Append(a, Head(b))
            t == Tail(b)
<1>. HIDE DEF h, t
<1>4. /\ h \o t \in Seq(Event) /\ Len(h \o t) = Len(h) + Len(t)
      /\ \A i \in 1 .. Len(h) + Len(t) :
            (h \o t)[i] = IF i <= Len(h) THEN h[i] ELSE t[i - Len(h)]
  BY <1>1, <1>3, ConcatProperties DEF h, t
<1>5. /\ a \o b \in Seq(Event) /\ Len(a \o b) = Len(a) + Len(b)
      /\ \A i \in 1 .. Len(a) + Len(b) :
            (a \o b)[i] = IF i <= Len(a) THEN a[i] ELSE b[i - Len(a)]
  BY ConcatProperties
<1>6. /\ Len(h) = Len(a) + 1 /\ Len(t) = Len(b) - 1
      /\ \A i \in 1 .. Len(a) : h[i] = a[i]
      /\ h[Len(a) + 1] = b[1]
      /\ \A i \in 1 .. Len(b) - 1 : t[i] = b[i + 1]
  BY <1>1, <1>3 DEF h, t
<1>7. Len(h \o t) = Len(a \o b)
  BY <1>1, <1>3, <1>4, <1>5, <1>6
<1>8. ASSUME NEW i \in 1 .. Len(h \o t) PROVE (h \o t)[i] = (a \o b)[i]
  <2>1. CASE i <= Len(a)
    BY <1>1, <1>3, <1>4, <1>5, <1>6, <2>1
  <2>2. CASE i = Len(a) + 1
    BY <1>1, <1>3, <1>4, <1>5, <1>6, <2>2
  <2>3. CASE i > Len(a) + 1
    <3>1. i - Len(h) \in 1 .. Len(b) - 1 /\ i - Len(h) + 1 = i - Len(a)
      BY <1>1, <1>3, <1>4, <1>6, <2>3
    <3>2. t[i - Len(h)] = b[i - Len(a)]
      BY <1>6, <3>1
    <3>. QED BY <1>1, <1>3, <1>4, <1>5, <1>6, <2>3, <3>2
  <2>4. i \in Nat
    BY <1>1, <1>3, <1>4, <1>6
  <2>5. i <= Len(a) \/ i = Len(a) + 1 \/ i > Len(a) + 1
    BY <1>3, <2>4
  <2>. QED BY <2>1, <2>2, <2>3, <2>5
<1>9. h \o t = a \o b
  BY <1>4, <1>5, <1>7, <1>8, SeqEqual
<1>. QED BY <1>1, <1>3, <1>9 DEF h, t

LEMMA PartsOf ==
    ASSUME NEW a \in Seq(Event), NEW b \in Seq(Event)
    PROVE  /\ a \o b \in Seq(Event) /\ Len(a \o b) \in Nat /\ Len(a) \in Nat
           /\ Len(a) <= Len(a \o b)
           /\ \A i \in 1 .. Len(a) : i \in 1 .. Len(a \o b) /\ a[i] = (a \o b)[i]
           /\ \A i \in 1 .. Len(a \o b) : (a \o b)[i] \in Event
<1>1. /\ a \o b \in Seq(Event) /\ Len(a \o b) = Len(a) + Len(b)
      /\ \A i \in 1 .. Len(a) + Len(b) :
            (a \o b)[i] = IF i <= Len(a) THEN a[i] ELSE b[i - Len(a)]
  BY ConcatProperties
<1>2. Len(a) \in Nat /\ Len(b) \in Nat
  BY LenProperties
<1>3. \A i \in 1 .. Len(a \o b) : (a \o b)[i] \in Event
  BY <1>1, ElementOfSeq
<1>4. \A i \in 1 .. Len(a) : i \in 1 .. Len(a) + Len(b) /\ i <= Len(a)
  BY <1>2
<1>. QED BY <1>1, <1>2, <1>3, <1>4

LEMMA CarryTypes ==
    ASSUME LogTypeOK, NEW c \in Conn
    PROVE  /\ got[c] \in Seq(Event) /\ queue[c] \in Seq(Event) /\ Carried(c) \in Seq(Event)
           /\ Len(Carried(c)) \in Nat /\ Len(got[c]) \in Nat
           /\ \A i \in 1 .. Len(got[c]) :
                 i \in 1 .. Len(Carried(c)) /\ got[c][i] = Carried(c)[i]
           /\ \A i \in 1 .. Len(Carried(c)) : Carried(c)[i] \in Event
           /\ RunOf(c) \in Run /\ run[RunOf(c)].sent \in Nat
<1>1. got[c] \in Seq(Event) /\ queue[c] \in Seq(Event)
  BY DEF LogTypeOK
<1>2. RunOf(c) \in Run
  BY LogStreamAssumption DEF Conn, RunOf
<1>3. run[RunOf(c)].sent \in Nat
  BY <1>2, EventNat DEF LogTypeOK
<1>. QED BY <1>1, <1>2, <1>3, PartsOf DEF Carried

\* One event more.
LEMMA AppendFits ==
    ASSUME NEW s \in Seq(Event), NEW e \in Event, NEW gaps \in BOOLEAN, NEW n \in Nat,
           WellFormed(s, gaps), Bounded(s, n), Continues(s, n, gaps), e \in {End, n + 1}
    PROVE  /\ WellFormed(Append(s, e), gaps)
           /\ Bounded(Append(s, e), n + 1)
           /\ e = End => Bounded(Append(s, e), n)
           /\ e = n + 1 => Continues(Append(s, e), n + 1, gaps)
<1>. DEFINE t == Append(s, e)
<1>1. /\ t \in Seq(Event) /\ Len(t) = Len(s) + 1 /\ Len(s) \in Nat
      /\ \A i \in 1 .. Len(s) : t[i] = s[i] /\ s[i] \in Nat
      /\ t[Len(s) + 1] = e /\ e \in Nat
  <2>1. \A i \in 1 .. Len(s) : s[i] \in Event
    BY ElementOfSeq
  <2>2. e \in Nat /\ \A i \in 1 .. Len(s) : s[i] \in Nat
    BY <2>1, EventNat
  <2>3. t \in Seq(Event) /\ Len(t) = Len(s) + 1 /\ t[Len(s) + 1] = e
    BY AppendProperties
  <2>4. \A i \in 1 .. Len(s) : t[i] = s[i]
    BY AppendProperties
  <2>5. Len(s) \in Nat
    BY LenProperties
  <2>. QED BY <2>2, <2>3, <2>4, <2>5
<1>2. s # <<>> <=> Len(s) > 0
  BY <1>1, EmptySeq
<1>. HIDE DEF t
<1>3. WellFormed(t, gaps)
  <2>. SUFFICES ASSUME NEW i \in 1 .. Len(t) - 1
                PROVE  /\ t[i] # End
                       /\ t[i + 1] # End => IF gaps THEN t[i] < t[i + 1] ELSE t[i + 1] = t[i] + 1
    BY DEF WellFormed
  <2>1. CASE i < Len(s)
    <3>1. i \in 1 .. Len(s) - 1 /\ i \in 1 .. Len(s) /\ i + 1 \in 1 .. Len(s)
      BY <1>1, <2>1
    <3>. QED BY <1>1, <3>1 DEF WellFormed
  <2>2. CASE i = Len(s)
    <3>1. i \in 1 .. Len(s) /\ s # <<>> /\ t[i + 1] = e
      BY <1>1, <1>2, <2>2
    <3>2. t[i] # End /\ t[i] <= n /\ t[i] \in Nat /\ (~gaps => t[i] = n)
      BY <1>1, <2>2, <3>1 DEF Continues, Bounded
    <3>. QED BY <3>1, <3>2
  <2>. QED BY <1>1, <2>1, <2>2
<1>4. Bounded(t, n + 1) /\ (e = End => Bounded(t, n))
  <2>1. \A i \in 1 .. Len(t) : i \in 1 .. Len(s) \/ i = Len(s) + 1
    BY <1>1
  <2>. QED BY <1>1, <2>1 DEF Bounded, End
<1>5. e = n + 1 => Continues(t, n + 1, gaps)
  <2>1. \A i \in 1 .. Len(t) : i \in 1 .. Len(s) \/ i = Len(s) + 1
    BY <1>1
  <2>. QED BY <1>1, <2>1 DEF Continues, End
<1>. QED BY <1>3, <1>4, <1>5 DEF t

\* The same events, with a line missed at the end.
LEMMA MissedFits ==
    ASSUME NEW s \in Seq(Event), NEW gaps \in BOOLEAN, NEW n \in Nat,
           WellFormed(s, gaps), Bounded(s, n), Continues(s, n, gaps)
    PROVE  WellFormed(s, TRUE) /\ Bounded(s, n + 1) /\ Continues(s, n + 1, TRUE)
<1>1. Len(s) \in Nat /\ \A i \in 1 .. Len(s) : s[i] \in Nat
  BY LenProperties, ElementOfSeq, EventNat
<1>2. WellFormed(s, TRUE)
  <2>1. \A i \in 1 .. Len(s) - 1 : i \in 1 .. Len(s) /\ i + 1 \in 1 .. Len(s)
    BY <1>1
  <2>. QED BY <1>1, <2>1 DEF WellFormed
<1>3. Bounded(s, n + 1)
  <2>. SUFFICES ASSUME NEW i \in 1 .. Len(s) PROVE s[i] <= n + 1
    BY DEF Bounded
  <2>1. s[i] <= n /\ s[i] \in Nat
    BY <1>1 DEF Bounded
  <2>. QED BY <2>1
<1>4. Continues(s, n + 1, TRUE)
  BY DEF Continues
<1>. QED BY <1>2, <1>3, <1>4

\* Fewer of the events.
LEMMA PrefixFits ==
    ASSUME NEW s \in Seq(Event), NEW t \in Seq(Event),
           \A i \in 1 .. Len(t) : i \in 1 .. Len(s) /\ t[i] = s[i]
    PROVE  /\ \A gaps \in BOOLEAN : WellFormed(s, gaps) => WellFormed(t, gaps)
           /\ \A n \in Nat : Bounded(s, n) => Bounded(t, n)
           /\ \A u : After(u, s) => After(u, t)
<1>1. Len(s) \in Nat /\ Len(t) \in Nat
  BY LenProperties
<1>2. ASSUME NEW gaps \in BOOLEAN, WellFormed(s, gaps) PROVE WellFormed(t, gaps)
  <2>. SUFFICES ASSUME NEW i \in 1 .. Len(t) - 1
                PROVE  /\ t[i] # End
                       /\ t[i + 1] # End => IF gaps THEN t[i] < t[i + 1] ELSE t[i + 1] = t[i] + 1
    BY DEF WellFormed
  <2>1. i \in 1 .. Len(t) /\ i + 1 \in 1 .. Len(t)
    BY <1>1
  <2>2. t[i] = s[i] /\ t[i + 1] = s[i + 1] /\ i + 1 \in 1 .. Len(s)
    BY <2>1
  <2>3. i \in 1 .. Len(s) - 1
    BY <1>1, <2>2
  <2>. QED BY <1>2, <2>2, <2>3 DEF WellFormed
<1>3. ASSUME NEW n \in Nat, Bounded(s, n) PROVE Bounded(t, n)
  BY <1>3 DEF Bounded
<1>4. ASSUME NEW u, After(u, s) PROVE After(u, t)
  BY <1>4 DEF After
<1>. QED BY <1>2, <1>3, <1>4

LEMMA EmptyFits ==
    /\ <<>> \in Seq(Event) /\ <<>> \o <<>> = <<>>
    /\ \A gaps \in BOOLEAN : WellFormed(<<>>, gaps)
    /\ \A n \in Nat : Bounded(<<>>, n)
    /\ \A n \in Nat, gaps \in BOOLEAN : Continues(<<>>, n, gaps)
    /\ \A u : After(u, <<>>)
<1>1. <<>> \in Seq(Event) /\ Len(<<>>) = 0
  BY EmptySeq
<1>2. <<>> \o <<>> = <<>>
  BY <1>1, ConcatEmptySeq
<1>. QED BY <1>1, <1>2 DEF WellFormed, Bounded, Continues, After

\* The lines of an attempt are within the bound of the run.
LEMMA Counting ==
    ASSUME NEW a \in 1 .. MaxAttempts
    PROVE  /\ MaxLines * (a - 1) + MaxLines = MaxLines * a
           /\ MaxLines * (a - 1) \in Nat /\ MaxLines * a \in Nat
           /\ MaxLines * a <= MaxLines * MaxAttempts
<1>1. MaxLines \in Nat /\ MaxAttempts \in Nat /\ a \in Nat
  BY LogStreamAssumption
<1>2. MaxLines * (a - 1) + MaxLines = MaxLines * a
  BY <1>1
<1>3. \A m, k \in Nat : m * k \in Nat
  OBVIOUS
<1>4. \A m, k, l \in Nat : k <= l => m * k <= m * l
  OBVIOUS
<1>5. a - 1 \in Nat
  BY <1>1
<1>. QED BY <1>1, <1>2, <1>3, <1>4, <1>5

-----------------------------------------------------------------------------
(* The initial state, and steps that leave the events where they are.      *)

LEMMA LogInit == Init => LogInv
<1>. SUFFICES ASSUME Init PROVE LogInv
  OBVIOUS
<1>. USE DEF Init
<1>1. LogTypeOK
  <2>1. run \in [Run -> [is : {"up", "ended", "lost"}, attempt : 1 .. MaxAttempts,
                         lines : 0 .. MaxLines, sent : Event]]
    BY LogStreamAssumption, EventNat DEF End
  <2>2. \A c \in Conn : Len(queue[c]) <= QueueSize
    BY EmptySeq, LogStreamAssumption
  <2>3. page \in [Viewer -> [open : BOOLEAN, at : 0 .. MaxConns, ended : BOOLEAN]]
    BY LogStreamAssumption
  <2>4. queue \in [Conn -> Seq(Event)] /\ got \in [Conn -> Seq(Event)]
    BY EmptySeq
  <2>5. restarts \in 0 .. MaxRestarts
    BY LogStreamAssumption
  <2>. QED BY <2>1, <2>2, <2>3, <2>4, <2>5 DEF LogTypeOK, NoChannel, ConnPc
<1>2. LinesCounted
  <2>. SUFFICES ASSUME NEW r \in Run
                PROVE  run[r].sent <= MaxLines * (run[r].attempt - 1) + run[r].lines
    BY DEF LinesCounted
  <2>1. run[r].sent = 0 /\ run[r].attempt = 1 /\ run[r].lines = 0
    OBVIOUS
  <2>2. MaxLines * (1 - 1) \in Nat
    BY LogStreamAssumption
  <2>. QED BY <2>1, <2>2
<1>3. QueuesListed /\ EmptyUntilLive
  BY DEF QueuesListed, EmptyUntilLive, NoChannel
<1>4. \A c \in Conn : Carried(c) = <<>>
  BY EmptyFits DEF Carried
<1>. HIDE DEF Init
<1>10. \A c \in Conn : run[RunOf(c)].sent \in Nat /\ ("line" \in missed[c]) \in BOOLEAN
  BY <1>1, CarryTypes
<1>5. Published
  BY <1>4, <1>10, EmptyFits DEF Published
<1>6. ConnectionInOrder
  BY <1>4, <1>10, EmptyFits DEF ConnectionInOrder
<1>7. Abreast
  BY <1>4, <1>10, EmptyFits DEF Abreast
<1>8. PagesCount
  BY DEF PagesCount, Conn, Init
<1>9. Later
  BY <1>4, EmptyFits DEF Later, Conn
<1>. QED BY <1>1, <1>2, <1>3, <1>5, <1>6, <1>7, <1>8, <1>9 DEF LogInv

Order == Published /\ ConnectionInOrder /\ Abreast /\ Later

\* No event moves, and what joins a channel has carried nothing yet.
LEMMA EventsStay ==
    ASSUME LogInv, UNCHANGED <<queue, got, missed>>,
           \A r \in Run : run'[r].sent = run[r].sent,
           \A c \in Conn : (Listed(c) /\ ~channel[RunOf(c)].ended)' =>
               Carried(c) = <<>> \/ (Listed(c) /\ ~channel[RunOf(c)].ended)
    PROVE  Order'
<1>1. \A c \in Conn : Carried(c)' = Carried(c) /\ RunOf(c)' = RunOf(c)
  BY DEF Carried, RunOf
<1>2. \A c \in Conn : RunOf(c) \in Run /\ run[RunOf(c)].sent \in Nat
  BY CarryTypes DEF LogInv
<1>3. Published'
  BY <1>1, <1>2 DEF LogInv, Published
<1>4. ConnectionInOrder'
  BY <1>1 DEF LogInv, ConnectionInOrder
<1>5. Abreast'
  <2>. SUFFICES ASSUME NEW c \in Conn, (Listed(c) /\ ~channel[RunOf(c)].ended)'
                PROVE  Continues(Carried(c), run[RunOf(c)].sent, "line" \in missed[c])'
    BY DEF Abreast
  <2>1. CASE Carried(c) = <<>>
    <3>1. \A gaps \in BOOLEAN : Continues(<<>>, run[RunOf(c)].sent, gaps)
      BY <1>2, EmptyFits
    <3>2. /\ (run[RunOf(c)].sent)' = run[RunOf(c)].sent
          /\ Carried(c)' = <<>> /\ ("line" \in missed[c])' \in BOOLEAN
      BY <1>1, <1>2, <2>1
    <3>. QED BY <3>1, <3>2
  <2>2. CASE Listed(c) /\ ~channel[RunOf(c)].ended
    BY <1>1, <1>2, <2>2 DEF LogInv, Abreast
  <2>. QED BY <2>1, <2>2
<1>6. Later'
  BY <1>1 DEF LogInv, Later, Conn
<1>. QED BY <1>3, <1>4, <1>5, <1>6 DEF Order

Books == LogTypeOK /\ LinesCounted /\ QueuesListed /\ EmptyUntilLive /\ PagesCount

LEMMA TwoParts == LogInv' <=> Books' /\ Order'
BY DEF LogInv, Books, Order

LEMMA OfAChannel ==
    ASSUME LogInv, NEW r \in Run, NEW c \in channel[r].queues
    PROVE  c \in Conn /\ RunOf(c) = r /\ conn[c] = "live" /\ Listed(c)
<1>1. channel[r].queues \in SUBSET Conn
  BY DEF LogInv, LogTypeOK
<1>2. RunOf(c) = r /\ conn[c] = "live"
  BY DEF LogInv, QueuesListed
<1>. QED BY <1>1, <1>2 DEF Listed

\* Nothing new is listed, and what is listed stays live.
LEMMA StillListed ==
    ASSUME LogInv, \A r \in Run : channel'[r].queues \subseteq channel[r].queues,
           \A c \in Conn : conn[c] = "live" =>
               conn'[c] = "live" \/ c \notin channel'[RunOf(c)].queues
    PROVE  QueuesListed'
<1>. SUFFICES ASSUME NEW r \in Run, NEW c \in channel'[r].queues
              PROVE  RunOf(c) = r /\ conn'[c] = "live"
  BY DEF QueuesListed, RunOf
<1>1. c \in channel[r].queues
  OBVIOUS
<1>2. c \in Conn /\ RunOf(c) = r /\ conn[c] = "live"
  BY <1>1, OfAChannel
<1>. QED BY <1>2

LEMMA RetryStep == ASSUME LogInv, NEW r \in Run, Retry(r) PROVE LogInv'
<1>. USE DEF Retry
<1>1. /\ run[r] \in RunType /\ run[r].attempt \in Nat /\ run[r].attempt + 1 \in 1 .. MaxAttempts
      /\ run[r].lines \in 0 .. MaxLines /\ run[r].sent \in Nat /\ 0 \in 0 .. MaxLines
  BY LogStreamAssumption, EventNat DEF LogInv, LogTypeOK, RunType
<1>2. /\ run'[r] = [run[r] EXCEPT !.is = "up", !.attempt = @ + 1, !.lines = 0]
      /\ \A q \in Run \ {r} : run'[q] = run[q]
      /\ DOMAIN run' = Run
  BY DEF LogInv, LogTypeOK
<1>3. /\ run'[r] \in RunType /\ run'[r].sent = run[r].sent /\ run'[r].lines = 0
      /\ run'[r].attempt = run[r].attempt + 1
  BY <1>1, <1>2 DEF RunType
<1>4. run' \in [Run -> RunType]
  <2>1. run' = [run EXCEPT ![r] = run'[r]]
    BY <1>2 DEF LogInv, LogTypeOK
  <2>. QED BY <1>3, <2>1 DEF LogInv, LogTypeOK, RunType
<1>5. LogTypeOK'
  BY <1>4 DEF LogInv, LogTypeOK, RunType
<1>6. LinesCounted'
  <2>. SUFFICES ASSUME NEW q \in Run
                PROVE  run'[q].sent <= MaxLines * (run'[q].attempt - 1) + run'[q].lines
    BY DEF LinesCounted
  <2>1. CASE q = r
    <3>1. run[r].sent <= MaxLines * (run[r].attempt - 1) + run[r].lines
      BY DEF LogInv, LinesCounted
    <3>2. run[r].attempt \in 1 .. MaxAttempts
      BY <1>1 DEF RunType
    <3>. DEFINE before == MaxLines * (run[r].attempt - 1)
                now == MaxLines * run[r].attempt
    <3>3. before + MaxLines = now /\ before \in Nat /\ now \in Nat
      BY <3>2, Counting
    <3>4. run'[r].attempt - 1 = run[r].attempt
      BY <1>1, <1>3
    <3>5. MaxLines * (run'[r].attempt - 1) = now
      BY <3>4
    <3>. HIDE DEF before, now
    <3>6. run[r].sent <= before + run[r].lines
      BY <3>1 DEF before
    <3>7. run[r].sent <= now + 0
      BY <1>1, <3>3, <3>6, LogStreamAssumption
    <3>. QED BY <1>3, <2>1, <3>5, <3>7
  <2>2. CASE q # r
    BY <1>2, <2>2 DEF LogInv, LinesCounted
  <2>. QED BY <2>1, <2>2
<1>7. QueuesListed' /\ EmptyUntilLive' /\ PagesCount'
  BY DEF LogInv, QueuesListed, EmptyUntilLive, PagesCount, RunOf
<1>8. Order'
  <2>1. \A q \in Run : run'[q].sent = run[q].sent
    BY <1>2, <1>3
  <2>2. \A c \in Conn : (Listed(c) /\ ~channel[RunOf(c)].ended)' =>
            Listed(c) /\ ~channel[RunOf(c)].ended
    BY DEF Listed, RunOf
  <2>. QED BY <2>1, <2>2, EventsStay
<1>. QED BY <1>5, <1>6, <1>7, <1>8, TwoParts DEF Books

LEMMA ConnectStep == ASSUME LogInv, NEW v \in Viewer, Connect(v) PROVE LogInv'
<1>. USE DEF Connect
<1>. DEFINE k == page[v].at + 1
            d == <<v, k>>
<1>1. /\ page[v] \in [open : BOOLEAN, at : 0 .. MaxConns, ended : BOOLEAN]
      /\ k \in 1 .. MaxConns /\ d \in Conn
  BY LogStreamAssumption DEF LogInv, LogTypeOK, Conn
<1>2. conn[d] = "unused"
  BY <1>1 DEF LogInv, PagesCount
<1>3. page'[v] = [page[v] EXCEPT !.open = TRUE, !.at = @ + 1]
  BY DEF LogInv, LogTypeOK
<1>4. page'[v] \in [open : BOOLEAN, at : 0 .. MaxConns, ended : BOOLEAN] /\ page'[v].at = k
  <2>1. page'[v] = [open |-> TRUE, at |-> k, ended |-> page[v].ended]
    BY <1>1, <1>3
  <2>2. k \in 0 .. MaxConns
    BY <1>1, LogStreamAssumption
  <2>3. page[v].ended \in BOOLEAN
    BY <1>1
  <2>. HIDE DEF k
  <2>4. [open |-> TRUE, at |-> k, ended |-> page[v].ended]
           \in [open : BOOLEAN, at : 0 .. MaxConns, ended : BOOLEAN]
    BY <2>2, <2>3
  <2>5. [open |-> TRUE, at |-> k, ended |-> page[v].ended].at = k
    OBVIOUS
  <2>. QED BY <2>1, <2>4, <2>5 DEF k
<1>5. /\ page' \in [Viewer -> [open : BOOLEAN, at : 0 .. MaxConns, ended : BOOLEAN]]
      /\ \A w \in Viewer \ {v} : page'[w] = page[w]
  <2>1. page' = [page EXCEPT ![v] = page'[v]]
    BY DEF LogInv, LogTypeOK
  <2>. QED BY <1>4, <2>1 DEF LogInv, LogTypeOK
<1>6. conn' = [conn EXCEPT ![d] = "asking"]
  OBVIOUS
<1>. HIDE DEF d
<1>7. LogTypeOK'
  BY <1>1, <1>5, <1>6 DEF LogInv, LogTypeOK, ConnPc
<1>8. LinesCounted' /\ QueuesListed' /\ EmptyUntilLive'
  <2>1. LinesCounted'
    BY DEF LogInv, LinesCounted
  <2>2. QueuesListed'
    <3>1. \A c \in Conn : conn[c] = "live" => conn'[c] = "live"
      BY <1>2, <1>6 DEF LogInv, LogTypeOK
    <3>. QED BY <3>1, StillListed
  <2>3. EmptyUntilLive'
    BY <1>1, <1>2, <1>6 DEF LogInv, EmptyUntilLive, LogTypeOK
  <2>. QED BY <2>1, <2>2, <2>3
<1>9. PagesCount'
  <2>. SUFFICES ASSUME NEW w \in Viewer, NEW i \in 1 .. MaxConns, i > page'[w].at
                PROVE  conn'[<<w, i>>] = "unused"
    BY DEF PagesCount
  <2>1. CASE w = v
    <3>1. i > page[v].at /\ i # k
      BY <1>1, <1>4, <2>1, LogStreamAssumption
    <3>2. <<w, i>> # d /\ <<w, i>> \in Conn
      BY <3>1 DEF d, Conn
    <3>. QED BY <1>6, <2>1, <3>1, <3>2 DEF LogInv, PagesCount, LogTypeOK
  <2>2. CASE w # v
    <3>1. <<w, i>> # d /\ <<w, i>> \in Conn
      BY <2>2 DEF d, Conn
    <3>. QED BY <1>5, <1>6, <2>2, <3>1 DEF LogInv, PagesCount, LogTypeOK
  <2>. QED BY <2>1, <2>2
<1>10. Order'
  BY EventsStay DEF Listed, RunOf
<1>. QED BY <1>7, <1>8, <1>9, <1>10, TwoParts DEF Books

LEMMA BreakStep == ASSUME LogInv, NEW v \in Viewer, Break(v) PROVE LogInv'
<1>. USE DEF Break
<1>1. /\ page' \in [Viewer -> [open : BOOLEAN, at : 0 .. MaxConns, ended : BOOLEAN]]
      /\ \A w \in Viewer : page'[w].at = page[w].at
  BY DEF LogInv, LogTypeOK
<1>2. LogTypeOK'
  BY <1>1 DEF LogInv, LogTypeOK
<1>3. LinesCounted' /\ QueuesListed' /\ EmptyUntilLive' /\ PagesCount'
  BY <1>1 DEF LogInv, LinesCounted, QueuesListed, EmptyUntilLive, PagesCount, RunOf
<1>4. Order'
  BY EventsStay DEF Listed, RunOf
<1>. QED BY <1>2, <1>3, <1>4, TwoParts DEF Books

\* A connection that is not in use stays out of use.
LEMMA PagesStillCount ==
    ASSUME LogInv, NEW c \in Conn, conn[c] # "unused",
           \A d \in Conn \ {c} : conn'[d] = conn[d],
           \A v \in Viewer : page'[v].at = page[v].at
    PROVE  PagesCount'
<1>. SUFFICES ASSUME NEW v \in Viewer, NEW i \in 1 .. MaxConns, i > page'[v].at
              PROVE  conn'[<<v, i>>] = "unused"
  BY DEF PagesCount
<1>1. conn[<<v, i>>] = "unused" /\ <<v, i>> \in Conn
  BY DEF LogInv, PagesCount, Conn
<1>. QED BY <1>1

\* The steps that change nothing but where a connection is, and the lock.
LEMMA ConnMoves ==
    ASSUME LogInv, NEW c \in Conn, NEW pc \in ConnPc \ {"unused", "live"},
           conn[c] \notin {"unused", "live"}, conn' = [conn EXCEPT ![c] = pc],
           pc \in {"asking", "reply"} => conn[c] \in {"asking", "reply"},
           lock' \in Conn \cup {Free},
           UNCHANGED <<channel, queue, page, got, missed, run, restarts>>
    PROVE  LogInv'
<1>1. LogTypeOK'
  BY DEF LogInv, LogTypeOK
<1>2. conn'[c] = pc /\ \A d \in Conn \ {c} : conn'[d] = conn[d]
  BY DEF LogInv, LogTypeOK
<1>3. LinesCounted'
  BY DEF LogInv, LinesCounted
<1>4. QueuesListed'
  BY <1>2, StillListed
<1>5. EmptyUntilLive'
  BY <1>2 DEF LogInv, EmptyUntilLive
<1>6. PagesCount'
  BY <1>2, PagesStillCount
<1>7. Order'
  BY EventsStay DEF Listed, RunOf
<1>. QED BY <1>1, <1>3, <1>4, <1>5, <1>6, <1>7, TwoParts DEF Books

LEMMA AbandonStep == ASSUME LogInv, NEW c \in Conn, Abandon(c) PROVE LogInv'
<1>1. lock' \in Conn \cup {Free}
  BY DEF LogInv, LogTypeOK, Abandon
<1>. QED BY <1>1, ConnMoves DEF Abandon, ConnPc

LEMMA SubscribeEndedStep == ASSUME LogInv, NEW c \in Conn, SubscribeEnded(c) PROVE LogInv'
BY ConnMoves DEF SubscribeEnded, ConnPc

LEMMA ReturnStep == ASSUME LogInv, NEW c \in Conn, Return(c) PROVE LogInv'
BY ConnMoves DEF Return, ConnPc

LEMMA SubscribeStep == ASSUME LogInv, NEW c \in Conn, Subscribe(c) PROVE LogInv'
<1>. USE DEF Subscribe
<1>. DEFINE q == RunOf(c)
<1>1. q \in Run
  BY CarryTypes DEF LogInv
<1>2. channel[q] \in [queues : SUBSET Conn, ended : BOOLEAN]
  BY <1>1 DEF LogInv, LogTypeOK
<1>3. /\ channel'[q] = [channel[q] EXCEPT !.queues = @ \cup {c}]
      /\ \A r \in Run \ {q} : channel'[r] = channel[r]
  BY <1>1 DEF LogInv, LogTypeOK
<1>4. /\ channel'[q] \in [queues : SUBSET Conn, ended : BOOLEAN]
      /\ channel'[q].queues = channel[q].queues \cup {c}
      /\ channel'[q].ended = channel[q].ended
  BY <1>2, <1>3
<1>5. channel' \in [Run -> [queues : SUBSET Conn, ended : BOOLEAN]]
  <2>1. channel' = [channel EXCEPT ![q] = channel'[q]]
    BY <1>1, <1>3 DEF LogInv, LogTypeOK
  <2>. QED BY <1>4, <2>1 DEF LogInv, LogTypeOK
<1>6. conn'[c] = "live" /\ \A d \in Conn \ {c} : conn'[d] = conn[d]
  BY DEF LogInv, LogTypeOK
<1>7. LogTypeOK'
  BY <1>5 DEF LogInv, LogTypeOK, ConnPc
<1>8. LinesCounted'
  BY DEF LogInv, LinesCounted
<1>9. QueuesListed'
  <2>. SUFFICES ASSUME NEW r \in Run, NEW d \in channel'[r].queues
                PROVE  RunOf(d) = r /\ conn'[d] = "live"
    BY DEF QueuesListed, RunOf
  <2>1. CASE d = c
    <3>1. r = q
      <4>1. SUFFICES ASSUME r # q PROVE FALSE
        OBVIOUS
      <4>2. c \in channel[r].queues
        BY <1>3, <2>1, <4>1
      <4>. QED BY <4>1, <4>2, OfAChannel
    <3>. QED BY <1>6, <2>1, <3>1
  <2>2. CASE d # c
    <3>1. d \in channel[r].queues
      BY <1>3, <1>4, <2>2
    <3>2. d \in Conn /\ RunOf(d) = r /\ conn[d] = "live"
      BY <3>1, OfAChannel
    <3>. QED BY <1>6, <2>2, <3>2
  <2>. QED BY <2>1, <2>2
<1>10. EmptyUntilLive'
  BY <1>6 DEF LogInv, EmptyUntilLive
<1>11. PagesCount'
  BY <1>6, PagesStillCount
<1>12. Carried(c) = <<>>
  BY EmptyFits DEF LogInv, EmptyUntilLive, Carried
<1>13. Order'
  <2>. SUFFICES ASSUME NEW d \in Conn, (Listed(d) /\ ~channel[RunOf(d)].ended)', d # c
                PROVE  Listed(d) /\ ~channel[RunOf(d)].ended
    BY <1>12, EventsStay
  <2>1. RunOf(d)' = RunOf(d) /\ RunOf(d) \in Run
    BY CarryTypes DEF RunOf, LogInv
  <2>2. CASE RunOf(d) = q
    BY <1>4, <2>1, <2>2 DEF Listed
  <2>3. CASE RunOf(d) # q
    BY <1>3, <2>1, <2>3 DEF Listed
  <2>. QED BY <2>2, <2>3
<1>. QED BY <1>7, <1>8, <1>9, <1>10, <1>11, <1>13, TwoParts DEF Books

-----------------------------------------------------------------------------
(* Steps that drop queues.                                                 *)

LEMMA EventsCut ==
    ASSUME LogInv, UNCHANGED <<got, missed>>,
           \A r \in Run : run'[r].sent = run[r].sent,
           \A c \in Conn :
               \/ /\ queue'[c] = queue[c]
                  /\ (Listed(c) /\ ~channel[RunOf(c)].ended)' =>
                         Listed(c) /\ ~channel[RunOf(c)].ended
               \/ queue'[c] = <<>> /\ ~Listed(c)'
    PROVE  Order'
<1>1. \A c \in Conn :
          /\ RunOf(c)' = RunOf(c) /\ RunOf(c) \in Run
          /\ run[RunOf(c)].sent \in Nat /\ run'[RunOf(c)].sent = run[RunOf(c)].sent
          /\ Carried(c) \in Seq(Event) /\ got'[c] = got[c]
          /\ ("line" \in missed[c])' = ("line" \in missed[c])
          /\ ("line" \in missed[c]) \in BOOLEAN
  BY CarryTypes DEF LogInv, RunOf
<1>2. ASSUME NEW c \in Conn
      PROVE  /\ Carried(c)' \in Seq(Event)
             /\ \A i \in 1 .. Len(Carried(c)') :
                    i \in 1 .. Len(Carried(c)) /\ Carried(c)'[i] = Carried(c)[i]
  <2>1. CASE queue'[c] = queue[c]
    <3>1. Carried(c)' = Carried(c)
      BY <2>1 DEF Carried
    <3>. QED BY <1>1, <3>1
  <2>2. CASE queue'[c] = <<>>
    <3>1. got[c] \in Seq(Event)
      BY CarryTypes DEF LogInv
    <3>2. Carried(c)' = got[c]
      BY <2>2, <3>1, ConcatEmptySeq DEF Carried
    <3>. QED BY <3>1, <3>2, CarryTypes DEF LogInv
  <2>. QED BY <2>1, <2>2
<1>3. ASSUME NEW c \in Conn
      PROVE  /\ Bounded(Carried(c), run[RunOf(c)].sent)'
             /\ WellFormed(Carried(c), "line" \in missed[c])'
  <2>1. Bounded(Carried(c), run[RunOf(c)].sent)
    BY DEF LogInv, Published
  <2>2. WellFormed(Carried(c), "line" \in missed[c])
    BY DEF LogInv, ConnectionInOrder
  <2>3. Bounded(Carried(c)', run[RunOf(c)].sent)
    BY <1>1, <1>2, <2>1, PrefixFits
  <2>4. WellFormed(Carried(c)', "line" \in missed[c])
    <3>1. \A gaps \in BOOLEAN : WellFormed(Carried(c), gaps) => WellFormed(Carried(c)', gaps)
      BY <1>1, <1>2, PrefixFits
    <3>. QED BY <1>1, <2>2, <3>1
  <2>5. Bounded(Carried(c), run[RunOf(c)].sent)'
    BY <1>1, <2>3
  <2>6. WellFormed(Carried(c), "line" \in missed[c])'
    BY <1>1, <2>4
  <2>. QED BY <2>5, <2>6
<1>4. Published' /\ ConnectionInOrder'
  BY <1>3 DEF Published, ConnectionInOrder
<1>5. Abreast'
  <2>. SUFFICES ASSUME NEW c \in Conn, (Listed(c) /\ ~channel[RunOf(c)].ended)'
                PROVE  Continues(Carried(c), run[RunOf(c)].sent, "line" \in missed[c])'
    BY DEF Abreast
  <2>1. queue'[c] = queue[c] /\ Listed(c) /\ ~channel[RunOf(c)].ended
    OBVIOUS
  <2>2. Continues(Carried(c), run[RunOf(c)].sent, "line" \in missed[c])
    BY <2>1 DEF LogInv, Abreast
  <2>3. Carried(c)' = Carried(c)
    BY <2>1 DEF Carried
  <2>. QED BY <1>1, <2>2, <2>3
<1>6. Later'
  <2>. SUFFICES ASSUME NEW v \in Viewer, NEW i \in 1 .. MaxConns, NEW j \in 1 .. MaxConns, i < j
                PROVE  After(got[<<v, i>>], Carried(<<v, j>>))'
    BY DEF Later
  <2>1. <<v, i>> \in Conn /\ <<v, j>> \in Conn
    BY DEF Conn
  <2>2. After(got[<<v, i>>], Carried(<<v, j>>))
    BY DEF LogInv, Later
  <2>3. After(got[<<v, i>>], Carried(<<v, j>>)')
    BY <1>1, <1>2, <2>1, <2>2, PrefixFits
  <2>. QED BY <2>3
<1>. QED BY <1>4, <1>5, <1>6 DEF Order

LEMMA UnsubscribeStep == ASSUME LogInv, NEW c \in Conn, Unsubscribe(c) PROVE LogInv'
<1>. USE DEF Unsubscribe
<1>. DEFINE q == RunOf(c)
<1>1. q \in Run
  BY CarryTypes DEF LogInv
<1>2. channel[q] \in [queues : SUBSET Conn, ended : BOOLEAN]
  BY <1>1 DEF LogInv, LogTypeOK
<1>3. /\ channel'[q] = [channel[q] EXCEPT !.queues = @ \ {c}]
      /\ \A r \in Run \ {q} : channel'[r] = channel[r]
  BY <1>1 DEF LogInv, LogTypeOK
<1>4. /\ channel'[q] \in [queues : SUBSET Conn, ended : BOOLEAN]
      /\ channel'[q].queues = channel[q].queues \ {c}
      /\ channel'[q].ended = channel[q].ended
  BY <1>2, <1>3
<1>5. channel' \in [Run -> [queues : SUBSET Conn, ended : BOOLEAN]]
  <2>1. channel' = [channel EXCEPT ![q] = channel'[q]]
    BY <1>1, <1>3 DEF LogInv, LogTypeOK
  <2>. QED BY <1>4, <2>1 DEF LogInv, LogTypeOK
<1>6. /\ conn'[c] = "done" /\ queue'[c] = <<>>
      /\ \A d \in Conn \ {c} : conn'[d] = conn[d] /\ queue'[d] = queue[d]
  BY DEF LogInv, LogTypeOK
<1>7. LogTypeOK'
  <2>1. queue' \in [Conn -> Seq(Event)]
    BY EmptySeq DEF LogInv, LogTypeOK
  <2>2. ASSUME NEW d \in Conn PROVE Len(queue'[d]) <= QueueSize
    <3>1. CASE d = c
      BY <1>6, <3>1, EmptySeq, LogStreamAssumption
    <3>2. CASE d # c
      BY <1>6, <3>2 DEF LogInv, LogTypeOK
    <3>. QED BY <3>1, <3>2
  <2>. QED BY <1>5, <2>1, <2>2 DEF LogInv, LogTypeOK, ConnPc
<1>8. LinesCounted'
  BY DEF LogInv, LinesCounted
<1>9. QueuesListed'
  <2>1. \A r \in Run : channel'[r].queues \subseteq channel[r].queues
    BY <1>3, <1>4
  <2>2. c \notin channel'[RunOf(c)].queues
    BY <1>4
  <2>. QED BY <1>6, <2>1, <2>2, StillListed
<1>10. EmptyUntilLive'
  BY <1>6 DEF LogInv, EmptyUntilLive
<1>11. PagesCount'
  BY <1>6, PagesStillCount
<1>12. Order'
  <2>1. ASSUME NEW d \in Conn, d # c
        PROVE  (Listed(d) /\ ~channel[RunOf(d)].ended)' =>
                   Listed(d) /\ ~channel[RunOf(d)].ended
    <3>1. RunOf(d)' = RunOf(d) /\ RunOf(d) \in Run
      BY CarryTypes DEF RunOf, LogInv
    <3>2. CASE RunOf(d) = q
      BY <1>4, <3>1, <3>2 DEF Listed
    <3>3. CASE RunOf(d) # q
      BY <1>3, <3>1, <3>3 DEF Listed
    <3>. QED BY <3>2, <3>3
  <2>2. ~Listed(c)'
    BY <1>4 DEF Listed, RunOf
  <2>. QED BY <1>6, <2>1, <2>2, EventsCut
<1>. QED BY <1>7, <1>8, <1>9, <1>10, <1>11, <1>12, TwoParts DEF Books

LEMMA RestartStep == ASSUME LogInv, Restart PROVE LogInv'
<1>. USE DEF Restart
<1>1. \A r \in Run : run[r] \in RunType
  BY DEF LogInv, LogTypeOK, RunType
<1>2. PICK settled \in SUBSET {r \in Run : run[r].is = "ended"} :
          run' = [r \in Run |-> IF r \in settled THEN run[r] ELSE [run[r] EXCEPT !.is = "lost"]]
  OBVIOUS
<1>3. \A r \in Run : /\ run'[r] \in RunType /\ run'[r].sent = run[r].sent
                     /\ run'[r].attempt = run[r].attempt /\ run'[r].lines = run[r].lines
  BY <1>1, <1>2 DEF RunType
<1>4. \A v \in Viewer :
          /\ page[v] \in [open : BOOLEAN, at : 0 .. MaxConns, ended : BOOLEAN]
          /\ page'[v] = [page[v] EXCEPT !.open = FALSE]
  BY DEF LogInv, LogTypeOK
<1>5. \A v \in Viewer :
          /\ page'[v] \in [open : BOOLEAN, at : 0 .. MaxConns, ended : BOOLEAN]
          /\ page'[v].at = page[v].at
  BY <1>4
<1>6. \A r \in Run : channel'[r].queues = {} /\ channel'[r].ended = FALSE
  BY DEF NoChannel
<1>7. LogTypeOK'
  <2>1. queue' \in [Conn -> Seq(Event)]
    BY EmptySeq
  <2>2. \A d \in Conn : Len(queue'[d]) <= QueueSize
    BY EmptySeq, LogStreamAssumption
  <2>3. run' \in [Run -> RunType]
    BY <1>2, <1>3
  <2>4. page' \in [Viewer -> [open : BOOLEAN, at : 0 .. MaxConns, ended : BOOLEAN]]
    BY <1>5
  <2>5. channel' \in [Run -> [queues : SUBSET Conn, ended : BOOLEAN]]
    BY DEF NoChannel
  <2>6. conn' \in [Conn -> ConnPc]
    BY DEF ConnPc
  <2>7. restarts' \in 0 .. MaxRestarts
    BY LogStreamAssumption DEF LogInv, LogTypeOK
  <2>8. lock' \in Conn \cup {Free}
    OBVIOUS
  <2>9. got' \in [Conn -> Seq(Event)] /\ missed' \in [Conn -> SUBSET {"line", "end"}]
    BY DEF LogInv, LogTypeOK
  <2>. QED BY <2>1, <2>2, <2>3, <2>4, <2>5, <2>6, <2>7, <2>8, <2>9 DEF LogTypeOK, RunType
<1>8. LinesCounted'
  BY <1>3 DEF LogInv, LinesCounted
<1>9. QueuesListed'
  BY <1>6 DEF QueuesListed
<1>10. EmptyUntilLive'
  BY DEF LogInv, EmptyUntilLive
<1>11. PagesCount'
  BY <1>5 DEF LogInv, PagesCount, Conn
<1>12. Order'
  <2>1. \A c \in Conn : RunOf(c)' \in Run
    BY CarryTypes DEF LogInv, RunOf
  <2>2. \A c \in Conn : queue'[c] = <<>> /\ ~Listed(c)'
    BY <1>6, <2>1 DEF Listed
  <2>. QED BY <1>3, <2>2, EventsCut
<1>. QED BY <1>7, <1>8, <1>9, <1>10, <1>11, <1>12, TwoParts DEF Books

-----------------------------------------------------------------------------
(* Steps by which an event reaches a page.                                 *)

LEMMA PageReceives ==
    ASSUME LogInv, NEW c \in Conn, NEW e \in Event, Receive(c, e)
    PROVE  /\ page' \in [Viewer -> [open : BOOLEAN, at : 0 .. MaxConns, ended : BOOLEAN]]
           /\ \A v \in Viewer : page'[v].at = page[v].at
<1>. DEFINE P == [open : BOOLEAN, at : 0 .. MaxConns, ended : BOOLEAN]
            w == c[1]
<1>1. page \in [Viewer -> P] /\ w \in Viewer
  BY DEF LogInv, LogTypeOK, Conn
<1>2. CASE e # End
  BY <1>1, <1>2 DEF Receive
<1>3. CASE e = End
  <2>1. page' = [page EXCEPT ![w] = [open |-> FALSE, at |-> page[w].at, ended |-> TRUE]]
    BY <1>1, <1>3 DEF Receive
  <2>3. page[w].at \in 0 .. MaxConns
    BY <1>1
  <2>4. /\ [open |-> FALSE, at |-> page[w].at, ended |-> TRUE] \in P
        /\ [open |-> FALSE, at |-> page[w].at, ended |-> TRUE].at = page[w].at
    BY <2>3
  <2>5. page'[w] \in P /\ page'[w].at = page[w].at /\ page' = [page EXCEPT ![w] = page'[w]]
    BY <1>1, <2>1, <2>4
  <2>. QED BY <1>1, <2>5
<1>. QED BY <1>2, <1>3

LEMMA EndFits ==
    /\ Append(<<>>, End) \in Seq(Event)
    /\ Append(<<>>, End) \o <<>> = Append(<<>>, End)
    /\ \A gaps \in BOOLEAN : WellFormed(Append(<<>>, End), gaps)
    /\ \A n \in Nat : Bounded(Append(<<>>, End), n)
    /\ \A s : After(s, Append(<<>>, End))
    /\ \A s \in Seq(Event) : After(Append(<<>>, End), s)
<1>. DEFINE t == Append(<<>>, End)
<1>1. <<>> \in Seq(Event) /\ Len(<<>>) = 0 /\ End \in Event
  BY EmptySeq, EventNat
<1>2. t \in Seq(Event) /\ Len(t) = Len(<<>>) + 1 /\ t[Len(<<>>) + 1] = End
  BY <1>1, AppendProperties
<1>3. t \in Seq(Event) /\ Len(t) = 1 /\ t[1] = End
  BY <1>1, <1>2
<1>4. t \o <<>> = t
  BY <1>3, ConcatEmptySeq
<1>. HIDE DEF t
<1>5. 1 .. Len(t) = {1} /\ 1 .. Len(t) - 1 = {}
  BY <1>3
<1>6. \A gaps \in BOOLEAN : WellFormed(t, gaps)
  BY <1>5 DEF WellFormed
<1>7. \A n \in Nat : Bounded(t, n)
  BY <1>3, <1>5 DEF Bounded, End
<1>8. \A s : After(s, t)
  BY <1>3, <1>5 DEF After
<1>9. ASSUME NEW s \in Seq(Event) PROVE After(t, s)
  <2>. SUFFICES ASSUME NEW m \in 1 .. Len(t), NEW n \in 1 .. Len(s), s[n] # End
                PROVE  t[m] < s[n]
    BY DEF After
  <2>1. s[n] \in Event
    BY ElementOfSeq
  <2>2. s[n] \in Nat /\ s[n] # 0 /\ t[m] = 0
    BY <1>3, <1>5, <2>1, EventNat DEF End
  <2>. QED BY <2>2
<1>. QED BY <1>3, <1>4, <1>6, <1>7, <1>8, <1>9 DEF t

LEMMA SendEndStep == ASSUME LogInv, NEW c \in Conn, SendEnd(c) PROVE LogInv'
<1>. USE DEF SendEnd
<1>1. /\ page' \in [Viewer -> [open : BOOLEAN, at : 0 .. MaxConns, ended : BOOLEAN]]
      /\ \A v \in Viewer : page'[v].at = page[v].at
  BY PageReceives, EventNat
<1>2. got[c] = <<>> /\ queue[c] = <<>> /\ ~Listed(c)
  <2>1. got[c] = <<>> /\ queue[c] = <<>>
    BY DEF LogInv, EmptyUntilLive
  <2>2. RunOf(c) \in Run
    BY CarryTypes DEF LogInv
  <2>. QED BY <2>1, <2>2 DEF LogInv, QueuesListed, Listed
<1>3. /\ got' = [got EXCEPT ![c] = Append(<<>>, End)]
      /\ got'[c] = Append(<<>>, End)
      /\ \A d \in Conn \ {c} : got'[d] = got[d]
  BY <1>2 DEF LogInv, LogTypeOK, Receive
<1>4. conn'[c] = "returning" /\ \A d \in Conn \ {c} : conn'[d] = conn[d]
  BY DEF LogInv, LogTypeOK
<1>5. LogTypeOK'
  BY <1>1, <1>3, EndFits DEF LogInv, LogTypeOK, ConnPc
<1>6. LinesCounted'
  BY DEF LogInv, LinesCounted
<1>7. QueuesListed'
  BY <1>4, StillListed
<1>8. EmptyUntilLive'
  BY <1>3, <1>4 DEF LogInv, EmptyUntilLive
<1>9. PagesCount'
  BY <1>1, <1>4, PagesStillCount
<1>10. /\ Carried(c)' = Append(<<>>, End)
       /\ \A d \in Conn \ {c} : Carried(d)' = Carried(d)
  BY <1>2, <1>3, EndFits DEF Carried
<1>11. \A d \in Conn : /\ run[RunOf(d)].sent \in Nat /\ Carried(d) \in Seq(Event)
                       /\ got[d] \in Seq(Event) /\ RunOf(d)' = RunOf(d)
  BY CarryTypes DEF LogInv, RunOf
<1>12. Published' /\ ConnectionInOrder'
  <2>. SUFFICES ASSUME NEW d \in Conn
                PROVE  /\ Bounded(Carried(d), run[RunOf(d)].sent)'
                       /\ WellFormed(Carried(d), "line" \in missed[d])'
    BY DEF Published, ConnectionInOrder
  <2>1. CASE d = c
    <3>1. ("line" \in missed[d])' \in BOOLEAN /\ (run[RunOf(d)].sent)' \in Nat
      BY <1>11
    <3>. QED BY <1>10, <2>1, <3>1, EndFits
  <2>2. CASE d # c
    BY <1>10, <1>11, <2>2 DEF LogInv, Published, ConnectionInOrder
  <2>. QED BY <2>1, <2>2
<1>13. Abreast'
  <2>. SUFFICES ASSUME NEW d \in Conn, (Listed(d) /\ ~channel[RunOf(d)].ended)'
                PROVE  Continues(Carried(d), run[RunOf(d)].sent, "line" \in missed[d])'
    BY DEF Abreast
  <2>1. d # c /\ Listed(d) /\ ~channel[RunOf(d)].ended
    BY <1>2, <1>11 DEF Listed
  <2>. QED BY <1>10, <1>11, <2>1 DEF LogInv, Abreast
<1>14. Later'
  <2>. SUFFICES ASSUME NEW v \in Viewer, NEW i \in 1 .. MaxConns, NEW j \in 1 .. MaxConns, i < j
                PROVE  After(got[<<v, i>>], Carried(<<v, j>>))'
    BY DEF Later
  <2>. DEFINE d == <<v, i>>
              f == <<v, j>>
  <2>1. d \in Conn /\ f \in Conn /\ d # f /\ After(got[d], Carried(f))
    BY DEF Conn, LogInv, Later
  <2>. HIDE DEF d, f
  <2>2. CASE f = c
    BY <1>3, <1>10, <2>1, <2>2, EndFits DEF d, f
  <2>3. CASE d = c
    <3>1. Carried(f)' = Carried(f) /\ Carried(f) \in Seq(Event) /\ got'[d] = Append(<<>>, End)
      BY <1>3, <1>10, <1>11, <2>1, <2>3
    <3>2. After(got'[d], Carried(f)')
      BY <3>1, EndFits
    <3>. QED BY <3>2 DEF d, f
  <2>4. CASE d # c /\ f # c
    <3>1. Carried(f)' = Carried(f) /\ got'[d] = got[d]
      BY <1>3, <1>10, <2>1, <2>4
    <3>2. After(got'[d], Carried(f)')
      BY <2>1, <3>1
    <3>. QED BY <3>2 DEF d, f
  <2>. QED BY <2>2, <2>3, <2>4
<1>. QED BY <1>5, <1>6, <1>7, <1>8, <1>9, <1>12, <1>13, <1>14, TwoParts DEF Books, Order

LEMMA DeliverStep == ASSUME LogInv, NEW c \in Conn, Deliver(c) PROVE LogInv'
<1>. USE DEF Deliver
<1>. DEFINE a == got[c]
            b == queue[c]
<1>1. a \in Seq(Event) /\ b \in Seq(Event) /\ b # <<>>
  BY CarryTypes DEF LogInv
<1>2. /\ Head(b) \in Event /\ Tail(b) \in Seq(Event) /\ Len(Tail(b)) <= Len(b)
      /\ Append(a, Head(b)) \in Seq(Event)
      /\ Append(a, Head(b)) \o Tail(b) = a \o b
  BY <1>1, CarryDeliver
<1>3. /\ page' \in [Viewer -> [open : BOOLEAN, at : 0 .. MaxConns, ended : BOOLEAN]]
      /\ \A v \in Viewer : page'[v].at = page[v].at
  BY <1>2, PageReceives
<1>4. /\ got' = [got EXCEPT ![c] = Append(a, Head(b))]
      /\ queue' = [queue EXCEPT ![c] = Tail(b)]
  BY DEF Receive
<1>. HIDE DEF a, b
<1>5. /\ got'[c] = Append(a, Head(b)) /\ queue'[c] = Tail(b)
      /\ \A d \in Conn \ {c} : got'[d] = got[d] /\ queue'[d] = queue[d]
  BY <1>4 DEF LogInv, LogTypeOK
<1>6. LogTypeOK'
  <2>1. queue' \in [Conn -> Seq(Event)] /\ got' \in [Conn -> Seq(Event)]
    BY <1>2, <1>4 DEF LogInv, LogTypeOK
  <2>2. ASSUME NEW d \in Conn PROVE Len(queue'[d]) <= QueueSize
    <3>1. CASE d = c
      <4>1. Len(b) <= QueueSize /\ Len(b) \in Nat /\ Len(Tail(b)) \in Nat
        BY <1>1, <1>2, LenProperties DEF LogInv, LogTypeOK, b
      <4>. QED BY <1>2, <1>5, <3>1, <4>1, LogStreamAssumption
    <3>2. CASE d # c
      BY <1>5, <3>2 DEF LogInv, LogTypeOK
    <3>. QED BY <3>1, <3>2
  <2>. QED BY <1>3, <2>1, <2>2 DEF LogInv, LogTypeOK
<1>7. LinesCounted'
  BY DEF LogInv, LinesCounted
<1>8. QueuesListed'
  BY StillListed
<1>9. EmptyUntilLive'
  BY <1>5 DEF LogInv, EmptyUntilLive
<1>10. PagesCount'
  BY <1>3, PagesStillCount
<1>11. \A d \in Conn : Carried(d)' = Carried(d) /\ RunOf(d)' = RunOf(d)
  BY <1>2, <1>5 DEF Carried, RunOf, a, b
<1>12. Published' /\ ConnectionInOrder' /\ Abreast'
  BY <1>11 DEF LogInv, Published, ConnectionInOrder, Abreast, Listed
<1>13. Later'
  <2>. SUFFICES ASSUME NEW v \in Viewer, NEW i \in 1 .. MaxConns, NEW j \in 1 .. MaxConns, i < j
                PROVE  After(got[<<v, i>>], Carried(<<v, j>>))'
    BY DEF Later
  <2>. DEFINE d == <<v, i>>
              f == <<v, j>>
  <2>1. d \in Conn /\ f \in Conn /\ After(got[d], Carried(f))
    BY DEF Conn, LogInv, Later
  <2>2. CASE d = c
    <3>1. j > page[v].at
      BY <2>2 DEF Attached
    <3>2. conn[f] = "unused"
      BY <3>1 DEF LogInv, PagesCount
    <3>. HIDE DEF d, f
    <3>3. Carried(f) = <<>>
      BY <2>1, <3>2, EmptyFits DEF LogInv, EmptyUntilLive, Carried
    <3>4. After(got'[d], Carried(f)')
      BY <1>11, <2>1, <3>3, EmptyFits
    <3>. QED BY <3>4 DEF d, f
  <2>3. CASE d # c
    <3>. HIDE DEF d, f
    <3>1. After(got'[d], Carried(f)')
      BY <1>5, <1>11, <2>1, <2>3
    <3>. QED BY <3>1 DEF d, f
  <2>. QED BY <2>2, <2>3
<1>. QED BY <1>6, <1>7, <1>8, <1>9, <1>10, <1>12, <1>13, TwoParts DEF Books, Order

-----------------------------------------------------------------------------
(* Steps by which an event enters the queues of a channel.                 *)

LEMMA AfterAppend ==
    ASSUME NEW u, NEW s \in Seq(Event), NEW e \in Event, After(u, s),
           e # End => \A m \in 1 .. Len(u) : u[m] < e
    PROVE  After(u, Append(s, e))
<1>. DEFINE t == Append(s, e)
<1>1. /\ Len(t) = Len(s) + 1 /\ t[Len(s) + 1] = e
      /\ \A i \in 1 .. Len(s) : t[i] = s[i]
  BY AppendProperties
<1>2. Len(s) \in Nat
  BY LenProperties
<1>. HIDE DEF t
<1>3. ASSUME NEW m \in 1 .. Len(u), NEW n \in 1 .. Len(t), t[n] # End
      PROVE  u[m] < t[n]
  <2>1. CASE n = Len(s) + 1
    BY <1>1, <1>3, <2>1
  <2>2. CASE n # Len(s) + 1
    <3>1. n \in 1 .. Len(s)
      BY <1>1, <1>2, <2>2
    <3>. QED BY <1>1, <1>3, <3>1 DEF After
  <2>. QED BY <2>1, <2>2
<1>. QED BY <1>3 DEF After, t

\* The queues of the channel of r that are still told.
Told(r) == IF channel[r].ended THEN {} ELSE channel[r].queues

LEMMA OfferOne ==
    ASSUME LogInv, NEW r \in Run, NEW e \in Event, Offer(Told(r), e), got' = got
    PROVE  /\ queue' \in [Conn -> Seq(Event)]
           /\ \A c \in Conn : Len(queue'[c]) <= QueueSize
           /\ missed' \in [Conn -> SUBSET {"line", "end"}]
           /\ \A c \in Conn \ Told(r) : queue'[c] = queue[c] /\ missed'[c] = missed[c]
           /\ \A c \in Told(r) :
                \/ /\ Carried(c)' = Append(Carried(c), e)
                   /\ missed'[c] = missed[c]
                \/ /\ Carried(c)' = Carried(c)
                   /\ missed'[c] = missed[c] \cup {IF e = End THEN "end" ELSE "line"}
<1>. DEFINE qs == Told(r)
            full == {c \in qs : Len(queue[c]) >= QueueSize}
<1>1. qs \in SUBSET Conn
  BY DEF LogInv, LogTypeOK, Told
<1>2. /\ queue' = [c \in Conn |-> IF c \in qs \ full THEN Append(queue[c], e) ELSE queue[c]]
      /\ missed' = [c \in Conn |->
               IF c \in full THEN missed[c] \cup {IF e = End THEN "end" ELSE "line"}
               ELSE missed[c]]
  BY DEF Offer
<1>3. \A c \in Conn : queue[c] \in Seq(Event) /\ got[c] \in Seq(Event) /\ Len(queue[c]) \in Nat
                      /\ Len(queue[c]) <= QueueSize /\ missed[c] \in SUBSET {"line", "end"}
  <2>1. \A c \in Conn : queue[c] \in Seq(Event) /\ got[c] \in Seq(Event)
                        /\ Len(queue[c]) <= QueueSize /\ missed[c] \in SUBSET {"line", "end"}
    BY DEF LogInv, LogTypeOK
  <2>2. \A c \in Conn : Len(queue[c]) \in Nat
    BY <2>1, LenProperties
  <2>. QED BY <2>1, <2>2
<1>4. \A c \in Conn : Append(queue[c], e) \in Seq(Event)
                      /\ Len(Append(queue[c], e)) = Len(queue[c]) + 1
  BY <1>3, AppendProperties
<1>5. \A c \in Conn : c \notin full /\ c \in qs => Len(queue[c]) < QueueSize
  BY <1>3, LogStreamAssumption
<1>. HIDE DEF full, qs
<1>6. queue' \in [Conn -> Seq(Event)]
  BY <1>2, <1>3, <1>4
<1>7. ASSUME NEW c \in Conn PROVE Len(queue'[c]) <= QueueSize
  <2>1. CASE c \in qs \ full
    <3>1. queue'[c] = Append(queue[c], e)
      BY <1>2, <2>1
    <3>2. Len(queue'[c]) = Len(queue[c]) + 1 /\ Len(queue[c]) < QueueSize
      BY <1>4, <1>5, <2>1, <3>1
    <3>. QED BY <1>3, <3>2, LogStreamAssumption
  <2>2. CASE c \notin qs \ full
    BY <1>2, <1>3, <2>2
  <2>. QED BY <2>1, <2>2
<1>8. missed' \in [Conn -> SUBSET {"line", "end"}]
  BY <1>2, <1>3
<1>9. full \subseteq qs
  BY DEF full
<1>10. \A c \in Conn \ qs : queue'[c] = queue[c] /\ missed'[c] = missed[c]
  BY <1>2, <1>9
<1>11. ASSUME NEW c \in qs
       PROVE  \/ /\ Carried(c)' = Append(Carried(c), e)
                 /\ missed'[c] = missed[c]
              \/ /\ Carried(c)' = Carried(c)
                 /\ missed'[c] = missed[c] \cup {IF e = End THEN "end" ELSE "line"}
  <2>1. c \in Conn
    BY <1>1
  <2>2. CASE c \in full
    BY <1>2, <2>1, <2>2 DEF Carried
  <2>3. CASE c \notin full
    <3>1. queue'[c] = Append(queue[c], e) /\ missed'[c] = missed[c]
      BY <1>2, <2>1, <2>3
    <3>2. got[c] \o Append(queue[c], e) = Append(got[c] \o queue[c], e)
      BY <1>3, <2>1, CarryAppend
    <3>. QED BY <3>1, <3>2 DEF Carried
  <2>. QED BY <2>2, <2>3
<1>. QED BY <1>6, <1>7, <1>8, <1>10, <1>11 DEF qs

\* What the three steps that call Offer have in common: e is the next line
\* of the run, or the end frame and then the channel is ended.
Offers(r, e) ==
    /\ Offer(Told(r), e)
    /\ \A q \in Run : channel'[q].queues = channel[q].queues
    /\ \A q \in Run \ {r} : channel'[q].ended = channel[q].ended /\ run'[q].sent = run[q].sent
    /\ channel[r].ended => channel'[r].ended
    /\ \/ e = End /\ run'[r].sent = run[r].sent /\ channel'[r].ended
       \/ e = run[r].sent + 1 /\ run'[r].sent = e
    /\ UNCHANGED <<got, conn>>

LEMMA OfferOrder ==
    ASSUME LogInv, NEW r \in Run, NEW e \in Event, Offers(r, e)
    PROVE  Order'
<1>. DEFINE n == run[r].sent
            n2 == run'[r].sent
<1>1. /\ \A c \in Conn \ Told(r) : queue'[c] = queue[c] /\ missed'[c] = missed[c]
      /\ \A c \in Told(r) :
             \/ /\ Carried(c)' = Append(Carried(c), e)
                /\ missed'[c] = missed[c]
             \/ /\ Carried(c)' = Carried(c)
                /\ missed'[c] = missed[c] \cup {IF e = End THEN "end" ELSE "line"}
  BY OfferOne DEF Offers
<1>2. \A c \in Conn \ Told(r) : Carried(c)' = Carried(c)
  BY <1>1 DEF Offers, Carried
<1>3. \A c \in Conn :
          /\ RunOf(c)' = RunOf(c) /\ RunOf(c) \in Run
          /\ run[RunOf(c)].sent \in Nat
          /\ Carried(c) \in Seq(Event) /\ got[c] \in Seq(Event) /\ got'[c] = got[c]
          /\ ("line" \in missed[c]) \in BOOLEAN
          /\ Bounded(Carried(c), run[RunOf(c)].sent)
          /\ WellFormed(Carried(c), "line" \in missed[c])
          /\ Listed(c) /\ ~channel[RunOf(c)].ended =>
                 Continues(Carried(c), run[RunOf(c)].sent, "line" \in missed[c])
  BY CarryTypes DEF LogInv, RunOf, Offers, Published, ConnectionInOrder, Abreast
<1>4. /\ n \in Nat /\ n2 \in Nat
      /\ \/ e = n + 1 /\ n2 = n + 1
         \/ e = End /\ n2 = n
      /\ e = End => channel'[r].ended
  <2>1. n \in Nat
    BY EventNat DEF LogInv, LogTypeOK
  <2>. QED BY <2>1 DEF Offers, End
<1>5. ASSUME NEW c \in Told(r)
      PROVE  c \in Conn /\ RunOf(c) = r /\ Listed(c) /\ ~channel[r].ended
  BY OfAChannel DEF Told
<1>6. ASSUME NEW c \in Conn, c \notin Told(r)
      PROVE  /\ Bounded(Carried(c), run[RunOf(c)].sent)'
             /\ WellFormed(Carried(c), "line" \in missed[c])'
             /\ (Listed(c) /\ ~channel[RunOf(c)].ended)' =>
                    Continues(Carried(c), run[RunOf(c)].sent, "line" \in missed[c])'
  <2>1. Carried(c)' = Carried(c) /\ ("line" \in missed[c])' = ("line" \in missed[c])
    BY <1>1, <1>2, <1>6
  <2>2. WellFormed(Carried(c), "line" \in missed[c])'
    BY <1>3, <2>1
  <2>3. CASE RunOf(c) = r
    <3>1. n <= n2
      BY <1>4
    <3>2. Bounded(Carried(c), n2)
      <4>. SUFFICES ASSUME NEW i \in 1 .. Len(Carried(c)) PROVE Carried(c)[i] <= n2
        BY DEF Bounded
      <4>1. Carried(c)[i] \in Nat /\ Carried(c)[i] <= n
        BY <1>3, <2>3, CarryTypes, EventNat DEF Bounded, LogInv
      <4>. QED BY <1>4, <3>1, <4>1
    <3>3. ~(Listed(c) /\ ~channel[RunOf(c)].ended)'
      BY <1>3, <1>6, <2>3 DEF Listed, Told, Offers
    <3>. QED BY <1>3, <2>1, <2>2, <2>3, <3>2, <3>3
  <2>4. CASE RunOf(c) # r
    <3>1. (run[RunOf(c)].sent)' = run[RunOf(c)].sent
      BY <1>3, <2>4 DEF Offers
    <3>2. (Listed(c) /\ ~channel[RunOf(c)].ended)' => Listed(c) /\ ~channel[RunOf(c)].ended
      BY <1>3, <2>4 DEF Offers, Listed
    <3>. QED BY <1>3, <2>1, <2>2, <3>1, <3>2
  <2>. QED BY <2>3, <2>4
<1>7. ASSUME NEW c \in Told(r)
      PROVE  /\ Bounded(Carried(c)', n2)
             /\ WellFormed(Carried(c)', ("line" \in missed[c])')
             /\ ~channel'[r].ended => Continues(Carried(c)', n2, ("line" \in missed[c])')
  <2>. DEFINE s == Carried(c)
              g == "line" \in missed[c]
  <2>1. /\ s \in Seq(Event) /\ g \in BOOLEAN
        /\ WellFormed(s, g) /\ Bounded(s, n) /\ Continues(s, n, g)
    BY <1>3, <1>5
  <2>2. CASE Carried(c)' = Append(s, e) /\ missed'[c] = missed[c]
    <3>1. ("line" \in missed[c])' = g
      BY <2>2
    <3>. HIDE DEF s, g, n, n2
    <3>2. e \in {End, n + 1}
      BY <1>4
    <3>3. /\ WellFormed(Append(s, e), g)
          /\ Bounded(Append(s, e), n + 1)
          /\ e = End => Bounded(Append(s, e), n)
          /\ e = n + 1 => Continues(Append(s, e), n + 1, g)
      BY <1>4, <2>1, <3>2, AppendFits
    <3>. QED BY <1>4, <2>2, <3>1, <3>3
  <2>3. CASE Carried(c)' = s /\ missed'[c] = missed[c] \cup {IF e = End THEN "end" ELSE "line"}
    <3>1. CASE e = End
      <4>1. ("line" \in missed[c])' = g
        BY <2>3, <3>1
      <4>2. n2 = n
        BY <1>4, <3>1 DEF End
      <4>. QED BY <1>4, <2>1, <2>3, <3>1, <4>1, <4>2
    <3>2. CASE e # End
      <4>1. ("line" \in missed[c])' = TRUE
        BY <2>3, <3>2
      <4>2. n2 = n + 1
        BY <1>4, <3>2
      <4>. HIDE DEF s, g, n, n2
      <4>3. WellFormed(s, TRUE) /\ Bounded(s, n + 1) /\ Continues(s, n + 1, TRUE)
        BY <1>4, <2>1, MissedFits
      <4>. QED BY <2>3, <4>1, <4>2, <4>3
    <3>. QED BY <3>1, <3>2
  <2>. QED BY <1>1, <2>2, <2>3
<1>8. ASSUME NEW c \in Told(r)
      PROVE  /\ Bounded(Carried(c), run[RunOf(c)].sent)'
             /\ WellFormed(Carried(c), "line" \in missed[c])'
             /\ (Listed(c) /\ ~channel[RunOf(c)].ended)' =>
                    Continues(Carried(c), run[RunOf(c)].sent, "line" \in missed[c])'
  <2>1. RunOf(c)' = r
    BY <1>3, <1>5
  <2>. QED BY <1>7, <2>1
<1>9. Published' /\ ConnectionInOrder' /\ Abreast'
  BY <1>6, <1>8 DEF Published, ConnectionInOrder, Abreast
<1>10. Later'
  <2>. SUFFICES ASSUME NEW v \in Viewer, NEW i \in 1 .. MaxConns, NEW j \in 1 .. MaxConns, i < j
                PROVE  After(got[<<v, i>>], Carried(<<v, j>>))'
    BY DEF Later
  <2>. DEFINE d == <<v, i>>
              f == <<v, j>>
  <2>1. d \in Conn /\ f \in Conn /\ RunOf(d) = RunOf(f) /\ After(got[d], Carried(f))
    BY DEF Conn, LogInv, Later, RunOf
  <2>. HIDE DEF d, f
  <2>2. CASE Carried(f)' = Carried(f)
    <3>1. After(got'[d], Carried(f)')
      BY <1>3, <2>1, <2>2
    <3>. QED BY <3>1 DEF d, f
  <2>3. CASE f \in Told(r) /\ Carried(f)' = Append(Carried(f), e)
    <3>1. Bounded(Carried(d), n)
      BY <1>3, <1>5, <2>1, <2>3
    <3>2. ASSUME NEW m \in 1 .. Len(got[d]) PROVE got[d][m] \in Nat /\ got[d][m] <= n
      BY <2>1, <3>1, CarryTypes, EventNat DEF Bounded, LogInv
    <3>3. e # End => \A m \in 1 .. Len(got[d]) : got[d][m] < e
      BY <1>4, <3>2
    <3>4. After(got[d], Append(Carried(f), e))
      BY <1>3, <2>1, <3>3, AfterAppend
    <3>5. After(got'[d], Carried(f)')
      BY <1>3, <2>1, <2>3, <3>4
    <3>. QED BY <3>5 DEF d, f
  <2>. QED BY <1>1, <1>2, <2>1, <2>2, <2>3
<1>. QED BY <1>9, <1>10 DEF Order

\* The channels after CloseChannel.
LEMMA CloseChannels ==
    ASSUME LogInv, NEW r \in Run, channel' = [channel EXCEPT ![r].ended = TRUE]
    PROVE  /\ channel' \in [Run -> [queues : SUBSET Conn, ended : BOOLEAN]]
           /\ \A q \in Run : channel'[q].queues = channel[q].queues
           /\ \A q \in Run \ {r} : channel'[q].ended = channel[q].ended
           /\ channel'[r].ended
BY DEF LogInv, LogTypeOK

\* What Offers leaves of the bookkeeping.
LEMMA OfferBooks ==
    ASSUME LogInv, NEW r \in Run, NEW e \in Event, Offers(r, e), UNCHANGED <<page, lock, restarts>>,
           channel' \in [Run -> [queues : SUBSET Conn, ended : BOOLEAN]],
           run' \in [Run -> RunType]
    PROVE  LogTypeOK' /\ QueuesListed' /\ EmptyUntilLive' /\ PagesCount'
<1>1. LogTypeOK'
  BY OfferOne DEF LogInv, LogTypeOK, Offers, RunType
<1>2. QueuesListed'
  BY StillListed DEF Offers
<1>3. EmptyUntilLive'
  <2>1. \A c \in Conn : conn[c] # "live" => c \notin Told(r)
    BY OfAChannel DEF Told
  <2>2. \A c \in Conn \ Told(r) : queue'[c] = queue[c]
    BY OfferOne DEF Offers
  <2>. QED BY <2>1, <2>2 DEF LogInv, EmptyUntilLive, Offers
<1>4. PagesCount'
  BY DEF LogInv, PagesCount, Offers
<1>. QED BY <1>1, <1>2, <1>3, <1>4

LEMMA PublishStep == ASSUME LogInv, NEW r \in Run, Publish(r) PROVE LogInv'
<1>. USE DEF Publish
<1>. DEFINE e == run[r].sent + 1
            before == MaxLines * (run[r].attempt - 1)
<1>1. /\ run[r] \in RunType /\ run[r].attempt \in 1 .. MaxAttempts
      /\ run[r].lines \in Nat /\ run[r].lines + 1 \in 0 .. MaxLines /\ run[r].sent \in Nat
  BY LogStreamAssumption, EventNat DEF LogInv, LogTypeOK, RunType
<1>2. /\ before \in Nat /\ run[r].sent <= before + run[r].lines
      /\ before + MaxLines <= MaxLines * MaxAttempts
  <2>1. run[r].sent <= before + run[r].lines
    BY DEF LogInv, LinesCounted
  <2>2. /\ before + MaxLines = MaxLines * run[r].attempt /\ before \in Nat
        /\ MaxLines * run[r].attempt <= MaxLines * MaxAttempts
    BY <1>1, Counting
  <2>. HIDE DEF before
  <2>. QED BY <2>1, <2>2
<1>. HIDE DEF before
<1>3. e \in Event /\ e <= before + (run[r].lines + 1)
  <2>1. e \in Nat /\ e <= MaxLines * MaxAttempts
    BY <1>1, <1>2, EventNat, LogStreamAssumption
  <2>2. e <= before + (run[r].lines + 1)
    BY <1>1, <1>2
  <2>. QED BY <2>1, <2>2, EventNat DEF Event
<1>4. /\ run'[r] = [run[r] EXCEPT !.lines = @ + 1, !.sent = @ + 1]
      /\ \A q \in Run \ {r} : run'[q] = run[q]
      /\ run' = [run EXCEPT ![r] = run'[r]]
  BY DEF LogInv, LogTypeOK, NextLine
<1>5. /\ run'[r] \in RunType /\ run'[r].sent = e /\ run'[r].lines = run[r].lines + 1
      /\ run'[r].attempt = run[r].attempt
  <2>. DEFINE x == run[r]
              y == [x EXCEPT !.lines = @ + 1]
  <2>1. x \in RunType /\ x.lines + 1 \in 0 .. MaxLines /\ x.sent + 1 = e
    BY <1>1
  <2>2. y \in RunType /\ y.sent = x.sent /\ y.lines = x.lines + 1 /\ y.attempt = x.attempt
    BY <2>1 DEF RunType
  <2>3. run'[r] = [y EXCEPT !.sent = @ + 1]
    BY <1>4
  <2>. HIDE DEF x, y, e
  <2>4. run'[r] = [y EXCEPT !.sent = e]
    BY <2>1, <2>2, <2>3
  <2>5. run'[r] \in RunType /\ run'[r].sent = e
        /\ run'[r].lines = y.lines /\ run'[r].attempt = y.attempt
    BY <1>3, <2>2, <2>4 DEF RunType
  <2>. QED BY <2>2, <2>5 DEF x
<1>6. run' \in [Run -> RunType]
  BY <1>4, <1>5 DEF LogInv, LogTypeOK, RunType
<1>7. Offers(r, e)
  BY <1>4, <1>5 DEF Offers, Told
<1>8. LinesCounted'
  <2>. SUFFICES ASSUME NEW q \in Run
                PROVE  run'[q].sent <= MaxLines * (run'[q].attempt - 1) + run'[q].lines
    BY DEF LinesCounted
  <2>1. CASE q = r
    BY <1>3, <1>5, <2>1 DEF before
  <2>2. CASE q # r
    BY <1>4, <2>2 DEF LogInv, LinesCounted
  <2>. QED BY <2>1, <2>2
<1>9. channel' \in [Run -> [queues : SUBSET Conn, ended : BOOLEAN]]
  BY DEF LogInv, LogTypeOK
<1>. HIDE DEF e
<1>10. LogTypeOK' /\ QueuesListed' /\ EmptyUntilLive' /\ PagesCount'
  BY <1>3, <1>6, <1>7, <1>9, OfferBooks
<1>11. Order'
  BY <1>3, <1>7, OfferOrder
<1>. QED BY <1>8, <1>10, <1>11, TwoParts DEF Books

LEMMA CloseStep == ASSUME LogInv, NEW r \in Run, Close(r) PROVE LogInv'
<1>. USE DEF Close, CloseChannel
<1>1. /\ channel' \in [Run -> [queues : SUBSET Conn, ended : BOOLEAN]]
      /\ \A q \in Run : channel'[q].queues = channel[q].queues
      /\ \A q \in Run \ {r} : channel'[q].ended = channel[q].ended
      /\ channel'[r].ended
  BY CloseChannels
<1>2. run' \in [Run -> RunType]
  BY DEF LogInv, LogTypeOK, RunType
<1>3. \A q \in Run : /\ run'[q].sent = run[q].sent /\ run'[q].lines = run[q].lines
                     /\ run'[q].attempt = run[q].attempt
  BY DEF LogInv, LogTypeOK
<1>4. Offers(r, End)
  BY <1>1, <1>3 DEF Offers, Told
<1>5. LinesCounted'
  BY <1>3 DEF LogInv, LinesCounted
<1>6. LogTypeOK' /\ QueuesListed' /\ EmptyUntilLive' /\ PagesCount'
  BY <1>1, <1>2, <1>4, EventNat, OfferBooks
<1>7. Order'
  BY <1>4, EventNat, OfferOrder
<1>. QED BY <1>5, <1>6, <1>7, TwoParts DEF Books

LEMMA CancelClosesStep == ASSUME LogInv, NEW r \in Run, CancelCloses(r) PROVE LogInv'
<1>. USE DEF CancelCloses, CloseChannel
<1>1. /\ channel' \in [Run -> [queues : SUBSET Conn, ended : BOOLEAN]]
      /\ \A q \in Run : channel'[q].queues = channel[q].queues
      /\ \A q \in Run \ {r} : channel'[q].ended = channel[q].ended
      /\ channel'[r].ended
  BY CloseChannels
<1>2. run' \in [Run -> RunType]
  BY DEF LogInv, LogTypeOK, RunType
<1>3. Offers(r, End)
  BY <1>1 DEF Offers, Told
<1>4. LinesCounted'
  BY DEF LogInv, LinesCounted
<1>5. LogTypeOK' /\ QueuesListed' /\ EmptyUntilLive' /\ PagesCount'
  BY <1>1, <1>2, <1>3, EventNat, OfferBooks
<1>6. Order'
  BY <1>3, EventNat, OfferOrder
<1>. QED BY <1>4, <1>5, <1>6, TwoParts DEF Books

-----------------------------------------------------------------------------
(* The theorems.                                                           *)

LEMMA LogNext == LogInv /\ [Next]_vars => LogInv'
<1>. SUFFICES ASSUME LogInv, [Next]_vars PROVE LogInv'
  OBVIOUS
<1>1. ASSUME NEW r \in Run, Publish(r) \/ Close(r) \/ CancelCloses(r) \/ Retry(r)
      PROVE  LogInv'
  BY <1>1, PublishStep, CloseStep, CancelClosesStep, RetryStep
<1>2. ASSUME NEW v \in Viewer, Connect(v) \/ Break(v)
      PROVE  LogInv'
  BY <1>2, ConnectStep, BreakStep
<1>3. ASSUME NEW c \in Conn,
             \/ Subscribe(c) \/ SubscribeEnded(c) \/ SendEnd(c) \/ Return(c)
             \/ Deliver(c) \/ Abandon(c) \/ Unsubscribe(c)
      PROVE  LogInv'
  BY <1>3, SubscribeStep, SubscribeEndedStep, SendEndStep, ReturnStep, DeliverStep,
     AbandonStep, UnsubscribeStep
<1>4. CASE Restart
  BY <1>4, RestartStep
<1>5. CASE UNCHANGED vars
  <2>1. Order'
    BY <1>5, EventsStay DEF vars, Listed, RunOf
  <2>2. Books'
    BY <1>5 DEF vars, LogInv, Books, LogTypeOK, LinesCounted, QueuesListed, EmptyUntilLive,
                PagesCount, RunOf
  <2>. QED BY <2>1, <2>2, TwoParts
<1>. QED BY <1>1, <1>2, <1>3, <1>4, <1>5 DEF Next

\* The strengthening: where every line of the log is, in the queue or on the
\* page, through every publish, close, subscription, loss and restart.
THEOREM StreamInvariant == Spec => []LogInv
<1>. QED BY LogInit, LogNext, PTL DEF Spec

\* The broker, its queues and the pages keep their shapes; no queue holds
\* more than asyncio.Queue was given to hold.
THEOREM StreamTypes == Spec => []LogTypeOK
<1>1. LogInv => LogTypeOK
  BY DEF LogInv
<1>. QED BY <1>1, StreamInvariant, PTL

\* What a connection carries is a piece of the log, in order and without a
\* gap but for what QueueFull dropped, with the end frame once and last.
THEOREM CarriedInOrder == Spec => []ConnectionInOrder
<1>1. LogInv => ConnectionInOrder
  BY DEF LogInv
<1>. QED BY <1>1, StreamInvariant, PTL

\* A page that reconnects shows no line twice, and none after a later one.
THEOREM ShownOnce == Spec => []NoLineTwice
<1>1. LogInv => NoLineTwice
  <2>. SUFFICES ASSUME LogInv, NEW v \in Viewer,
                       NEW i \in 1 .. MaxConns, NEW j \in 1 .. MaxConns, i < j,
                       NEW m \in 1 .. Len(got[<<v, i>>]), NEW n \in 1 .. Len(got[<<v, j>>]),
                       got[<<v, j>>][n] # End
                PROVE  got[<<v, i>>][m] < got[<<v, j>>][n]
    BY DEF NoLineTwice
  <2>. DEFINE f == <<v, j>>
  <2>1. f \in Conn /\ After(got[<<v, i>>], Carried(f))
    BY DEF Conn, LogInv, Later
  <2>2. n \in 1 .. Len(Carried(f)) /\ got[f][n] = Carried(f)[n]
    BY <2>1, CarryTypes DEF LogInv
  <2>. QED BY <2>1, <2>2 DEF After
<1>. QED BY <1>1, StreamInvariant, PTL

=============================================================================
