SPECIFICATION Spec
CONSTANTS
    Lo <- MinusOne
    Hi = 5
    NaN = NaN
    JointMin = 0
    JointMax = 5
    Turn = 6
    Solid <- TwoSolids
    Radius = 1
    Clearance = 1
    Rule <- ForwardDifference
    SmoothnessWeight = 1
    JointUpdateLimit = 1
    MaxIterations = 4
    MaxIterationsAfterCollisionFree = 1
    CollisionThreshold = 2
    Tolerance = 1
    AddRandomness = TRUE
    UseStochasticDescent = TRUE
    AnimatePath = FALSE
    CheckInterval = 3
    CostWindow = 2
    PlanPoints = 4
    MinSplinePoints = 3
    MaxSplinePoints = 3
    UseTrajectoryFilter = TRUE
    Requests <- SomeRequests
INVARIANTS
    TypeOK
    EndsStay
    AnswerIsBest
    BreaksOutSoon
CHECK_DEADLOCK FALSE
