SPECIFICATION Spec
CONSTANTS
    Option <- AllOptions
    FileConfig <- Configs
    MaxOptions = 3
CHECK_DEADLOCK FALSE
INVARIANTS NoOptionLost OthersUntouched
