CONSTANTS
    Servers = {s1, s2}
    Requests = {r1}
    Commands = {k1}
    Callers = {r1, k1}
    Asked = {"start", "stop", "restart", "status"}
    WithoutRcon = {s2}
    Namesakes = {s1, s2}
    StopTimeout = 2
    None = None
SPECIFICATION FairSpec
INVARIANTS TypeOK StopStops
PROPERTY EveryCallEnds
