SPECIFICATION Spec
CONSTANTS
    Main = main
    Thread = {main, other}
    Profile = {"none"}
    Line <- ThreadLines
    Content = {"good", "refused"}
    LogName = {"X"}
    OwnLog <- OwnBadX
    EnvFile <- EnvX
    MaxCalls = 3
    MaxEdits = 0
INVARIANTS NeverRunsOnEmpty
