---------------------------- MODULE MCLogStream ----------------------------
(* An instance of LogStream for TLC: one page on one run. *)
EXTENDS LogStream

CONSTANTS r1, v1

MCRun == {r1}
MCViewer == {v1}
MCWatches == [v \in MCViewer |-> r1]
=============================================================================
