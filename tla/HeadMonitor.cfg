SPECIFICATION FairSpec
CONSTANTS
    Arms <- BothArms
    Goals <- ThreeGoals
    ArmOf <- RightFirst
    Modes <- InTurnOrBlind
INVARIANTS
    TypeOK
    ArmObeysStatus
PROPERTY
    GoalsEnd
CHECK_DEADLOCK FALSE
