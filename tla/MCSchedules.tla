----------------------------- MODULE MCSchedules -----------------------------
(* An instance of Schedules for TLC.  cron fires at 2 and 3 and not again     *)
(* within the window, and at other instants if its timezone and filters are   *)
(* disregarded; every is an interval; odd has a timezone that makes the       *)
(* computation raise.                                                         *)
EXTENDS Schedules

CONSTANTS x, y, a, cron, every, odd

MCSchedule == {x, y}
MCScript == {a}
MCScriptOf == [s \in MCSchedule |-> a]
MCPlan == {cron, every, odd}
MCInterval == {every}
MCBroken == {odd}
MCFirst == [s \in MCSchedule |-> IF s = x THEN cron ELSE NoPlan]
MCRequest == {1, 2}
MCStep == [p \in MCPlan |-> 1]
MCCalendar == [p \in MCPlan |-> {2, 3, 12}]
MCNaive == [p \in MCPlan |-> {i \in 0 .. 20 : i % 2 = 1}]
=============================================================================
