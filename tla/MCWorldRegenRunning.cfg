CONSTANTS
    Extras = {e1}
    Templates = {t1}
    Horizon = 2
    MaxWorlds = 1
    MaxProgress = 1
    Disciplined = FALSE
    SameSecond = FALSE
    None = None
    Torn = Torn
SPECIFICATION Spec
PROPERTY RegenOnStoppedOnly
CHECK_DEADLOCK FALSE
