SPECIFICATION Spec
CONSTANTS
    Files = {"a", "b"}
    Camera = "camera"
    VisualIds <- MCVisualIds
    SceneIds <- MCSceneIds
    ClipIds <- MCClipIds
    Layer <- MCLayer
    Column <- MCColumn
    Hosts <- MCHosts
    FirstFile <- MCFirstFile
INVARIANTS PointersLive ScenesConsistent
PROPERTIES ReloadSettles
CHECK_DEADLOCK FALSE
