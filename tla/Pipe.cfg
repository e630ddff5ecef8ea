SPECIFICATION FairSpec
CONSTANTS
    Hwm <- MCHwm
    MaxMessages <- MCMaxMessages
    MaxParts <- MCMaxParts
INVARIANTS TypeOK TerminationSafe WakeUpsDue WithinMarks WholeAndInOrder PendingDelivered
PROPERTIES TerminationEnds WriterResumes
CHECK_DEADLOCK FALSE
