SPECIFICATION FairSpec
CONSTANTS
    NLayers = 1
    NColumns = 2
    Scene <- OneLayer
    Cameras <- Nothing
    Missing <- Nothing
    BeatSnap <- Second
    Retrigger <- OneLayer
    CounterLimit = 0
    BeatsToSnap = 1
    FileManagerRuns = FALSE
    NULL = NULL
PROPERTY TriggeredStartsOnBeat
