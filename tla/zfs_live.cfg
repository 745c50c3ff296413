SPECIFICATION FairSpec
CONSTANTS
    Job <- OneJob
    Run = {"r1"}
    Server = {"s1"}
    Host = {"h1"}
    Pool = {0,1}
    RunOf <- OneRun
    ServerOf <- OneServer
    HostOf <- OneHost
    PoolsOf <- AnyPool
    Keep = 1
    MaxDepth = 1
    MaxTime = 1
    MaxFaults = 3
    RunGap = 0
PROPERTIES
    LeftoversRemoved
