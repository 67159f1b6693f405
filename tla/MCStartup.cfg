CONSTANTS
    Commands = 3
    CommandTries = 2
    ProbeTries = 2
    BootTimeout = 2
    UsesLog = TRUE
    Texts = {0, 1, 2, 3}
SPECIFICATION FairSpec
INVARIANTS TypeOK AppliedOrTold BoundedRepeats OwnAnswer OnlyAuthenticated
PROPERTY ApplyEnds
CHECK_DEADLOCK FALSE
