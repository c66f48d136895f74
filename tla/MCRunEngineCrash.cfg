SPECIFICATION Spec
CONSTANTS
    t1 = t1
    t2 = t2
    t3 = t3
    a = a
    x = x
    q1 = q1
    c1 = c1
    NoTask = NoTask
    NoScript = NoScript
    NoSchedule = NoSchedule
    NoRun = NoRun
    Task <- Tasks3
    Script <- OneScript
    Schedule <- OneSchedule
    ScriptOf <- AllOfA
    Policy <- AllQueue
    QueueMax <- QueueOfOne
    RetryMax <- RetryOnce
    Gap <- NoGap
    Endless <- Nobody
    Request <- OneRequest
    Canceller <- OneCanceller
    RunId <- Ids3
    Concurrency = 1
    Sandboxed = FALSE
    HostFails = FALSE
    Horizon = 2
    MaxCrashes = 1
    MaxFaults = 1
INVARIANTS
    FiresAccounted
    PendingWithinQueueMax
    RunningHasTask
