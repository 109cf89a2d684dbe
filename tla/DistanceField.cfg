SPECIFICATION FieldSpec
CONSTANTS
    Size <- Room
    MaxDistance = 4
    PointSets <- Clouds
    Before = {TRUE, FALSE}
    MaxCalls = 3
INVARIANTS
    FieldTypeOK
    FieldIsSound
PROPERTY NeverJoinsDrained
\* After MaxCalls calls the client stops.
CHECK_DEADLOCK FALSE
