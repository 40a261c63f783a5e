SPECIFICATION Spec
CONSTANTS
    r1 = r1
    r2 = r2
    A = A
    Requests = {r1, r2}
    Shapes = {A}
    Shape <- MCShape
    Heartbeat = Heartbeat
    None = None
    Tries <- MCTries
    QueueMax = 1
    MaxConnections = 1
PROPERTIES RequestsEnd
CHECK_DEADLOCK FALSE
