SPECIFICATION Spec
CONSTANTS
    c1 = c1
    c2 = c2
    c3 = c3
    NoConn = NoConn
    Conns = {c1}
    MaxClients = 2
    Kinds <- Unknowns
    Patient = {}
    Slow = {}
    MaxRequests = 2
    Loads <- TwoEach
INVARIANT ServerSurvives
CHECK_DEADLOCK FALSE
