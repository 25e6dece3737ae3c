SPECIFICATION Spec
CONSTANTS
    Clients = {c1}
    NoClient = NoClient
    Conns = {f1, f2}
    Draws = {1, 2}
    Timeout = 1
    MaxClock = 2
    MaxRestarts = 1
CHECK_DEADLOCK FALSE
PROPERTIES
    RequestsAnswered
