SPECIFICATION Spec
CONSTANTS
    BPMs = {120}
    MaxTaps = 4
INVARIANT FourTapsGiveBPM
CHECK_DEADLOCK FALSE
