SPECIFICATION FairSpec
CONSTANTS
    NLayers = 2
    NColumns = 1
    Scene <- Blocked
    Cameras <- Nothing
    Missing <- Front
    BeatSnap <- Nothing
    Retrigger <- Blocked
    CounterLimit = 0
    BeatsToSnap = 1
    FileManagerRuns = TRUE
    NULL = NULL
PROPERTIES ActiveRuns
