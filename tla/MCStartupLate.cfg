CONSTANTS
    Commands = 2
    CommandTries = 1
    ProbeTries = 1
    BootTimeout = 1
    UsesLog = TRUE
    Texts = {0, 1, 2}
SPECIFICATION Spec
PROPERTY InOrder
CHECK_DEADLOCK FALSE
