SPECIFICATION FairSpec
CONSTANTS
    Run = {"r1", "r2"}
    KeepOf <- OneAndThree
    MaxTime = 3
    MaxFaults = 1
    RunGap = 1
CONSTRAINT EnoughCalls
INVARIANTS
    FaultFreeCallsReturn
    PairAtHand
    OverlapLosesNothing
PROPERTIES
    KeepsVault
    CallsEnd
\* The last second of the clock ends the instance.
CHECK_DEADLOCK FALSE
