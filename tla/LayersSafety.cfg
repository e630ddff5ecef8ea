SPECIFICATION LayersSpec
CONSTANTS
    MaxLayers = 6
    MaxArg = 8
INVARIANTS SelectionNeverPastEnd
PROPERTIES SelectionKept ShrinkNeverOvershoots
CHECK_DEADLOCK FALSE
