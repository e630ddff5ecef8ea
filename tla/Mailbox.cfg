SPECIFICATION FairSpec
CONSTANTS
    Senders = {s1, s2, s3}
    None = None
    MaxCommands = 6
INVARIANTS WokenFindsCommand WakeUpDue DrainedIsQuiet
PROPERTIES ImplementsQueue CommandsReceived
