SPECIFICATION FairSpec
CONSTANTS
    c1 = c1
    c2 = c2
    c3 = c3
    NoConn = NoConn
    Conns = {c1, c2, c3}
    MaxClients = 3
    Kinds <- MCKinds
    Patient = {c1}
    Slow = {c2}
    MaxRequests = 3
    Loads <- MCLoads
INVARIANTS EveryClientVisited StrayOnlyFromClosed AnsweredOnceInOrder
PROPERTIES AcceptKeepsClients PatientPeerAnswered
CHECK_DEADLOCK FALSE
