SPECIFICATION FairSpec
CONSTANTS
    Clients = {c1, c2}
    NumberOfMessages = 1
    MaxConnections = 1
    MaxRequests = 2
PROPERTY EveryRequestRead
CHECK_DEADLOCK FALSE
