SPECIFICATION Spec
CONSTANTS
    MinSegment = 1
    FirstSegment = 1
    MaxAcceleration = 1
    Joints = 2
    Distance = 6
    Worlds <- SomeWorlds
    Parameters <- SomeParameters
    consistent_angle = 1
INVARIANTS
    TypeOK
    MovesWithinLimits
PROPERTIES
    CodesAreTrue
