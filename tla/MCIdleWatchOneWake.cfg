CONSTANTS
    Conns = {c1, c2}
    Watchers = {w1}
    PollInterval = 1
    IdleTimeout = 1
    ReadyTimeout = 1
    StopTimeout = 1
    ExternalOps = FALSE
    RconFails = FALSE
    BootFails = FALSE
    ProcessExits = FALSE
SPECIFICATION Spec
INVARIANT OneWakeUp
