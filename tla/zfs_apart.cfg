SPECIFICATION Spec
CONSTANTS
    Job <- TwoJobs
    Run = {"r1"}
    Server = {"s1", "s2"}
    Host = {"h1", "h2"}
    Pool = {0}
    RunOf <- OneRun
    ServerOf <- TwoServers
    HostOf <- TwoHosts
    PoolsOf <- AnyPool
    Keep = 1
    MaxDepth = 1
    MaxTime = 2
    MaxFaults = 2
    RunGap = 1
INVARIANTS
    TypeOK
    FaultFreeCallHeals
    ReportedArchivePresent
PROPERTIES
    LossOnlyByRetention
    RetentionFloor
\* The last second of the clock ends the instance.
CHECK_DEADLOCK FALSE
