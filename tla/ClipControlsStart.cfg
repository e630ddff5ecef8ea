SPECIFICATION Spec
CONSTANTS
    Unit = 2
    Inputs <- MCInputs
    Codes = {1, 2, 3}
INVARIANT StartWithinEnd
