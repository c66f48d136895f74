----------------------------- MODULE RunnerPool -----------------------------
(***************************************************************************)
(* What the runner promises, without saying how: at most one execution of  *)
(* a script at a time (ROADMAP.md:34, "at most one runner per script at a  *)
(* time") and at most Concurrency executions in all                        *)
(* (settings.runner_concurrency).  An execution is the critical section of *)
(* run_script, from taking the script's lock to giving it back.            *)
(***************************************************************************)
EXTENDS Naturals, FiniteSets

CONSTANTS Script, Concurrency

VARIABLE busy   \* the scripts with an execution under way

Init == busy = {}

Begin(s) ==
    /\ s \notin busy
    /\ Cardinality(busy) < Concurrency
    /\ busy' = busy \cup {s}

End(s) ==
    /\ s \in busy
    /\ busy' = busy \ {s}

\* The server dies: every execution it supervised is gone with it.
Wipe == busy' = {}

Next ==
    \/ \E s \in Script : Begin(s) \/ End(s)
    \/ Wipe

Spec == Init /\ [][Next]_busy

\* Every execution that began comes to an end.
FairSpec == Spec /\ \A s \in Script : WF_busy(End(s))
=============================================================================
