CONSTANTS
    Keys = {k1, k2}
    MaxAttempts = 2
    Window = 3
    TTL = 2
    Grain = 2
    Horizon = 4
    Cookies = 1
    Restarts = 1
SPECIFICATION Spec
SYMMETRY Symmetry
INVARIANTS TypeOK GuessesBounded RefusedForAReason SessionLength
CHECK_DEADLOCK FALSE
