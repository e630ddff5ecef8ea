SPECIFICATION Spec
CONSTANTS
    Files = {"a", "b"}
    Camera = "camera"
    VisualIds <- MCVisualIds
    SceneIds <- MCSceneIds
    ClipIds <- MCClipIds
    Layer <- MCLayer
    Column <- MCColumn
    Hosts <- Players
    FirstFile <- MCFirstFile
INVARIANT OneVisualPerFile
CHECK_DEADLOCK FALSE
