CONSTANTS
    Procs = {p1}
    Instances = 1
    MaxBackups = 1
    Horizon = 2
    SameSecond = FALSE
    RepliesLost = FALSE
    Crashes = FALSE
    None = None
SPECIFICATION Spec
INVARIANT NoStrayTmp
CHECK_DEADLOCK FALSE
