SPECIFICATION Spec
CONSTANTS
    Files = {"a", "b"}
    Camera = "camera"
    VisualIds <- MCVisualIds
    SceneIds <- MCSceneIds
    ClipIds <- MCClipIds
    Layer <- MCLayer
    Column <- MCColumn
    Hosts <- Editors
    FirstFile <- MCFirstFile
PROPERTY ReloadKeepsSet
CHECK_DEADLOCK FALSE
