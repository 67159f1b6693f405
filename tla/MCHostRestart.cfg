CONSTANTS
    Servers = {s1}
    Requests = {r1}
    Commands = {}
    Callers = {r1}
    Asked = {"restart"}
    WithoutRcon = {}
    Namesakes = {s1}
    StopTimeout = 1
    None = None
SPECIFICATION Spec
INVARIANT RestartRestarts
