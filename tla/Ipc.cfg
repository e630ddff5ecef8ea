SPECIFICATION FairSpec
CONSTANTS
    Clients = {c1, c2}
    NumberOfMessages = 2
    MaxConnections = 2
    MaxRequests = 2
INVARIANTS RequestsConserved OneRequestPerConnection LogTellsState
PROPERTIES CloseEnds
CHECK_DEADLOCK FALSE
