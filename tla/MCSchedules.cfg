SPECIFICATION FairSpec
CONSTANTS
    x = x
    y = y
    a = a
    cron = cron
    every = every
    odd = odd
    NoPlan = NoPlan
    Nowhere = Nowhere
    Schedule <- MCSchedule
    Script <- MCScript
    ScriptOf <- MCScriptOf
    Plan <- MCPlan
    Interval <- MCInterval
    Step <- MCStep
    Broken <- MCBroken
    Calendar <- MCCalendar
    Naive <- MCNaive
    Window = 4
    First <- MCFirst
    Request <- MCRequest
    Horizon = 3
    MaxFaults = 1
INVARIANTS
    TypeOK
    LateOnce
PROPERTIES
    FiresFollowPlan
    RegularFires
