CONSTANTS
    Extras = {e1}
    Templates = {t1}
    Horizon = 2
    MaxWorlds = 1
    MaxProgress = 1
    Disciplined = TRUE
    SameSecond = TRUE
    None = None
    Torn = Torn
SPECIFICATION Spec
INVARIANT ProgressKept
CHECK_DEADLOCK FALSE
