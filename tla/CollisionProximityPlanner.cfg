SPECIFICATION PlannerSpec
CONSTANTS
    Tolerance = 0
    Offset <- MCOffset
    Reach <- MCReach
    GroupLinks <- MCGroupLinks
    Bodies <- MCBodies
    Group = "arm"
    Operations <- UpperExcluded
    JointValues = {0, 1, 2, 3, 4, 5}
    SphereRadius = 1
    MaxEnvironmentDistance = 6
    MaxSelfDistance = 9
    UndefinedDistance = 50
    Far = 100
    Scenes <- MCScenes
    max_iterations = 3
    max_joint_update = 1
    Trajectories <- MCTrajectories
INVARIANTS
    PlannerTypeOK
    CalledFreeIsFree
PROPERTY
    PathLeadsOut
CHECK_DEADLOCK FALSE
