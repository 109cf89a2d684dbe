SPECIFICATION FairSpec
CONSTANTS
    Goals <- ThreeGoals
    Attempts = 1
INVARIANTS
    TypeOK
    MachineIsOwn
    GoalIsServed
PROPERTIES
    EveryGoalEnds
CHECK_DEADLOCK FALSE
