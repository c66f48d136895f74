SPECIFICATION ExecFairSpec
CONSTANTS
    t1 = t1
    t2 = t2
    t3 = t3
    a = a
    b = b
    Task <- MCTask
    Script <- MCScript
    Concurrency = 2
    NoTask = NoTask
    NoScript = NoScript
INVARIANTS
    ProcessesExclusive
    NoLeak
PROPERTIES
    ImplementsPool
    TaskEnds
