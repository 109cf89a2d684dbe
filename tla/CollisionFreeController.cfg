SPECIFICATION FairSpec
CONSTANT
    Goals <- ThreeGoals
INVARIANTS
    TypeOK
    MovesWatched
PROPERTY
    EveryGoalEnds
CHECK_DEADLOCK FALSE
