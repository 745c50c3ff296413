SPECIFICATION Spec
CONSTANTS
    Section <- Sections
    Hosts = 2
    Rcpts <- TwoRcpts
CHECK_DEADLOCK FALSE
INVARIANTS RefusedBeforeDelivery SuccessReachesAll ProtectionNeverOff NoSettingIgnored
