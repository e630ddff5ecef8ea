SPECIFICATION Spec
CONSTANTS
    NLayers = 1
    NColumns = 3
    Scene <- OneLayer
    Cameras <- Nothing
    Missing <- Nothing
    BeatSnap <- Second
    Retrigger <- OneLayer
    CounterLimit = 32
    BeatsToSnap = 4
    FileManagerRuns = FALSE
    NULL = NULL
INVARIANTS OnlyActiveRolls PlayingFlagTruthful
PROPERTIES SnappedStartsOnSnap
