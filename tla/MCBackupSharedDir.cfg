CONSTANTS
    Procs = {p1}
    Instances = 2
    MaxBackups = 2
    Horizon = 2
    SameSecond = TRUE
    RepliesLost = FALSE
    Crashes = FALSE
    None = None
SPECIFICATION Spec
INVARIANT KeepsNewest
CHECK_DEADLOCK FALSE
