SPECIFICATION Spec
CONSTANTS
    c1 = c1
    c2 = c2
    c3 = c3
    NoConn = NoConn
    Conns = {c1, c2, c3}
    MaxClients = 3
    Kinds <- Objects
    Patient = {}
    Slow = {}
    MaxRequests = 1
    Loads <- OneEach
INVARIANT ReplyReachesAsker
CHECK_DEADLOCK FALSE
