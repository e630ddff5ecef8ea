SPECIFICATION FairSpec
CONSTANTS
    c1 = c1
    c2 = c2
    c3 = c3
    NoConn = NoConn
    Conns = {c1}
    MaxClients = 2
    Kinds <- Objects
    Patient = {}
    Slow = {}
    MaxRequests = 2
    Loads <- TwoEach
PROPERTY RequestsAnswered
CHECK_DEADLOCK FALSE
