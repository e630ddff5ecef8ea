SPECIFICATION Spec
CONSTANTS
    NLayers = 1
    NColumns = 2
    Scene <- OneLayer
    Cameras <- Nothing
    Missing <- Nothing
    BeatSnap <- Second
    Retrigger <- OneLayer
    CounterLimit = 2
    BeatsToSnap = 2
    FileManagerRuns = FALSE
    NULL = NULL
PROPERTY StopAllStops
