CONSTANTS
    LastRun = 2
    ScheduleFilters <- MCSchedules
    StatusFilters <- MCStatuses
    SchedulesOf <- MCOf
    PageSize = 1
    RunningLimit = 2
    LastPage = 2
    MaxLooks = 2
    MaxLines = 2
    TabLines = 1
    MaxAttempts = 2
    MaxRestarts = 1
    Outcomes <- MCOutcomes
    MayCancel = TRUE
SPECIFICATION Spec
INVARIANTS RunsTypeOK ShownMatchesFilter OutputOfOneAttempt LogsTabShowsFinal
PROPERTIES StaleRowGoes
CHECK_DEADLOCK FALSE
