CONSTANTS
    Servers = {s1}
    Requests = {r1, r2}
    Commands = {}
    Callers = {r1, r2}
    Asked = {"status", "restart"}
    WithoutRcon = {}
    Namesakes = {s1}
    StopTimeout = 1
    None = None
    ReadTimeout = 1
    ActionTimeout = 3
    RconTime = 1
SPECIFICATION GatewaySpec
PROPERTY UptimeSurvives
CHECK_DEADLOCK FALSE
