SPECIFICATION Spec
CONSTANTS
    Width = 2
    Depth = 2
    Cone <- AllInCone
    BoxDepth = 2
    Slant <- OneSlanted
    Hit = 2
    Miss = 1
    Low <- MinusOne
    High = 1
    MaxRange = 2
    MaxUpdateTime = 1
    Entries <- CameraAndLaser
    Scenes <- SomeScenes
    Dropouts <- NoneOrFirst
    publishOverDynamic = TRUE
INVARIANT
    TypeOK
PROPERTIES
    StaticMapStays
    SeenIsLowered
CHECK_DEADLOCK FALSE
