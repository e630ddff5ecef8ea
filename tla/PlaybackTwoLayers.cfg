SPECIFICATION Spec
CONSTANTS
    NLayers = 2
    NColumns = 2
    Scene <- TwoLayers
    Cameras <- Webcam
    Missing <- Unopenable
    BeatSnap <- Webcam
    Retrigger <- Nothing
    CounterLimit = 0
    BeatsToSnap = 1
    FileManagerRuns = FALSE
    NULL = NULL
INVARIANTS OnlyActiveRolls PlayingFlagTruthful
