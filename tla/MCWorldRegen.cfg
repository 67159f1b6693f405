CONSTANTS
    Extras = {e1}
    Templates = {t1, t2}
    Horizon = 4
    MaxWorlds = 2
    MaxProgress = 3
    Disciplined = TRUE
    SameSecond = FALSE
    None = None
    Torn = Torn
SPECIFICATION Spec
SYMMETRY Symmetry
INVARIANTS TypeOK WorldsKept ProgressKept OkMeansPrepared
CHECK_DEADLOCK FALSE
