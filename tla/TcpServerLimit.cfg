SPECIFICATION Spec
CONSTANTS
    c1 = c1
    c2 = c2
    c3 = c3
    NoConn = NoConn
    Conns = {c1, c2, c3}
    MaxClients = 2
    Kinds <- Objects
    Patient = {}
    Slow = {}
    MaxRequests = 1
    Loads <- OneEach
PROPERTY LimitKeepsClients
CHECK_DEADLOCK FALSE
