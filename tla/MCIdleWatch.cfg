CONSTANTS
    Conns = {c1, c2}
    Watchers = {w1, w2}
    PollInterval = 0
    IdleTimeout = 1
    ReadyTimeout = 1
    StopTimeout = 1
    ExternalOps = TRUE
    RconFails = FALSE
    BootFails = TRUE
    ProcessExits = TRUE
SPECIFICATION FairSpec
INVARIANTS TypeOK WakingIsOwned AwakeIsWatched StopNeedsIdleEvidence
PROPERTIES Lifecycle WakingEnds EmptyBackendIsStopped
