SPECIFICATION LayersSpec
CONSTANTS
    MaxLayers = 6
    MaxArg = 8
PROPERTY NewSetHasItsLayers
CHECK_DEADLOCK FALSE
