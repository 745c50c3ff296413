SPECIFICATION FairSpec
CONSTANTS
    Server <- ThreeServers
    MaxParallel = 2
    TypeOption <- Options
    Flags <- SomeFlags
INVARIANTS
    TypeOK
    VerdictTruthful
    FailureIsolated
    MailTellsVerdict
    SummaryComplete
PROPERTIES
    Independent
    RunEnds
\* The process ends.
CHECK_DEADLOCK FALSE
