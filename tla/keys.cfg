SPECIFICATION FairSpec
CONSTANTS
    Setup = {"p1", "p2"}
    Server = {1, 2, 3}
    Local = {3}
    LooksFor <- OneDotted
    MaxKeys = 2
    MaxFaults = 2
INVARIANTS
    ReportedKeyWorks
    CopiesCostFaults
    FaultFreeSetupHeals
PROPERTY
    EveryServerServed
