SPECIFICATION MigrateSpec
CONSTANTS
    Server = {server}
    Doctor = {doctor}
    Froms = {0, 1, 2, 3, 4, 5, 6, 7, 8, 9, 10, 11, 12, 13, 14}
    MaxStarts = 3
    MaxCrashes = 2
INVARIANTS
    ServesNewest
    RowsKept
    FailsOnlyTorn
CHECK_DEADLOCK FALSE
