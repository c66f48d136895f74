----------------------------- MODULE MCRunEngine -----------------------------
(* Instances of RunEngine for TLC. *)
EXTENDS RunEngine

CONSTANTS t1, t2, t3, a, x, q1, c1

Tasks2 == {t1, t2}
Tasks3 == {t1, t2, t3}
OneScript == {a}
OneSchedule == {x}
OneRequest == {q1}
OneCanceller == {c1}
Nobody == {}

AllOfA == [s \in Schedule |-> a]
AllSkip == [s \in Schedule |-> "skip"]
AllQueue == [s \in Schedule |-> "queue"]
QueueOfOne == [s \in Schedule |-> 1]
NoRetry == [s \in Schedule |-> 0]
RetryOnce == [s \in Schedule |-> 1]
NoGap == [s \in Schedule |-> {}]
Ids3 == 1 .. 3
=============================================================================
