SPECIFICATION FairSpec
CONSTANTS
    BPMs = {120, 256}
    MaxTaps = 2
INVARIANTS WaitIsSafe CountersInPhase
PROPERTIES ImplementsBeatClock BlockingCallsRestart StopEnds RunningBeats
CHECK_DEADLOCK FALSE
