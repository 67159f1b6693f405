CONSTANTS
    Procs = {p1, p2}
    Instances = 2
    MaxBackups = 1
    Horizon = 4
    SameSecond = FALSE
    RepliesLost = FALSE
    Crashes = TRUE
    None = None
SPECIFICATION Spec
SYMMETRY Symmetry
INVARIANTS TypeOK AutosaveRestored FinalZipsComplete LeftoverIsTold KeepsNewest
CHECK_DEADLOCK FALSE
