CONSTANTS
    Procs = {p1, p2}
    Instances = 1
    MaxBackups = 2
    Horizon = 2
    SameSecond = TRUE
    RepliesLost = FALSE
    Crashes = FALSE
    None = None
SPECIFICATION Spec
INVARIANT FinalZipsComplete
CHECK_DEADLOCK FALSE
