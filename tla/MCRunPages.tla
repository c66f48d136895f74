---------------------------- MODULE MCRunPages ----------------------------
EXTENDS RunPages

MCSchedules == {0, 1}
MCStatuses == {"all", "failed"}
MCOutcomes == {"failure"}
MCOf == [r \in Runs |-> r - 1]
=============================================================================
