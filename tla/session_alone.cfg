SPECIFICATION Spec
CONSTANTS
    Main = main
    Thread = {main}
    Profile = {"none", "test"}
    Line <- AloneLines
    Content = {"good", "broken", "refused", "unsafe"}
    LogName = {"X", "Y"}
    OwnLog <- OwnX
    EnvFile <- EnvXY
    MaxCalls = 2
    MaxEdits = 1
INVARIANTS RefusedIffFaulty UsageErrorFirst NothingLeftBehind LogVariablesKept
PROPERTY RepairNeverBlocked
