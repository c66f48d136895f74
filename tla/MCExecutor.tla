----------------------------- MODULE MCExecutor -----------------------------
(* An instance of Executor for TLC: three tasks, two scripts. *)
EXTENDS Executor

CONSTANTS t1, t2, t3, a, b

MCTask == {t1, t2, t3}
MCScript == {a, b}
=============================================================================
