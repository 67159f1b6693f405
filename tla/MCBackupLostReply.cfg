CONSTANTS
    Procs = {p1}
    Instances = 1
    MaxBackups = 2
    Horizon = 2
    SameSecond = FALSE
    RepliesLost = TRUE
    Crashes = FALSE
    None = None
SPECIFICATION Spec
INVARIANT AutosaveRestored
CHECK_DEADLOCK FALSE
