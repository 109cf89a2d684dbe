SPECIFICATION FairSpec
CONSTANTS
    SceneIds = {0, 1}
    RequestIds = {0, 1}
    TrajectoryIds = {0, 1, 2, 3}
    JunkIds = {0}
    Arms = {"right", "left"}
    ArmOf <- TwoArms
    Modes <- Sessions
INVARIANTS
    TypeOK
    EditorAgrees
PROPERTIES
    SaveKeepsWork
    RecordingEnds
CHECK_DEADLOCK FALSE
