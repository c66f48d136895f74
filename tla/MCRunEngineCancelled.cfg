SPECIFICATION Spec
CONSTANTS
    t1 = t1
    t2 = t2
    t3 = t3
    a = a
    x = x
    q1 = q1
    c1 = c1
    NoTask = NoTask
    NoScript = NoScript
    NoSchedule = NoSchedule
    NoRun = NoRun
    Task <- Tasks3
    Script <- OneScript
    Schedule <- OneSchedule
    ScriptOf <- AllOfA
    Policy <- AllSkip
    QueueMax <- QueueOfOne
    RetryMax <- NoRetry
    Gap <- NoGap
    Endless <- Nobody
    Request <- Nobody
    Canceller <- OneCanceller
    RunId <- Ids3
    Concurrency = 1
    Sandboxed = FALSE
    HostFails = FALSE
    Horizon = 1
    MaxCrashes = 0
    MaxFaults = 0
PROPERTIES
    CancelledIsTerminal
