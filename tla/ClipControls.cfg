SPECIFICATION Spec
CONSTANTS
    Unit = 2
    Inputs <- MCInputs
    Codes = {0, 1, 2, 3, 4}
PROPERTIES RangeRepaired PlaybackSettles
