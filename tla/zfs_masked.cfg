SPECIFICATION Spec
CONSTANTS
    Job <- TwoJobs
    Run = {"r1", "r2"}
    Server = {"s1"}
    Host = {"h1"}
    Pool = {0}
    RunOf <- TwoRuns
    ServerOf <- OneServer
    HostOf <- OneHost
    PoolsOf <- AnyPool
    Keep = 1
    MaxDepth = 1
    MaxTime = 1
    MaxFaults = 0
    RunGap = 1
INVARIANT ReportedArchiveWhole
\* The last second of the clock ends the instance.
CHECK_DEADLOCK FALSE
