SPECIFICATION Spec
CONSTANTS
    SceneIds = {0, 1}
    RequestIds = {0, 1}
    TrajectoryIds = {0, 1, 2, 3}
    JunkIds = {0}
    Arms = {"right", "left"}
    ArmOf <- TwoArms
    Modes <- FiledSession
PROPERTIES
    SavesBeforeLoading
CHECK_DEADLOCK FALSE
