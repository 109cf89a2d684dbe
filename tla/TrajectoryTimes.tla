---------------------------- MODULE TrajectoryTimes ----------------------------
(***************************************************************************)
(* IKUtilities.trajectory_times_and_vels: when each point of a joint path  *)
(* is reached, and how fast.  Speeds are counted in quarters of the        *)
(* fastest, times in the time it takes for one angle at that speed, so     *)
(* that what is divided for the bounded inputs leaves no rest.             *)
(***************************************************************************)
EXTENDS Integers, SequencesExt

CONSTANTS
    MinSegment,         \* min_segment_time
    FirstSegment,       \* the time a trajectory has to start
    MaxAcceleration     \* max_joint_accs, in quarters of the fastest speed

ASSUME TimesAssumption == {MinSegment, FirstSegment, MaxAcceleration} \subseteq Nat \ {0}

Size(x) == IF x < 0 THEN -x ELSE x
Step(path, k, j) == path[k][j] - path[k - 1][j]

\* At the greatest speed of the joint that has farthest to go.
Segment(path, k) ==
    IF k = 1 THEN FirstSegment
    ELSE Max({Size(Step(path, k, j)) : j \in DOMAIN path[k]} \cup {MinSegment})

\* In halves of the fastest.
Rate(path, k, j) == (2 * Step(path, k, j)) \div Segment(path, k)

Turns(path, k, j) == Step(path, k, j) * Step(path, k + 1, j) < 0

\* At rest at the ends and where a joint turns; between, the mean of the two speeds.
Velocity(path, k, j) ==
    IF k = 1 \/ k = Len(path) \/ Turns(path, k, j) THEN 0
    ELSE Rate(path, k, j) + Rate(path, k + 1, j)
Velocities(path) == [k \in DOMAIN path |-> [j \in DOMAIN path[k] |-> Velocity(path, k, j)]]

\* The time to change the speed that much, where the segment is too short for it: as much
\* as it takes, so what the division leaves counts as a whole unit.
SlowerFor(path, k) ==
    {(Size(Velocity(path, k, j) - Velocity(path, k - 1, j)) + MaxAcceleration - 1) \div MaxAcceleration :
        j \in DOMAIN path[k]}
\* A mutation: the last segment is not slowed down.
SlowedButLast(path, k) ==
    IF k \in {1, Len(path)} THEN Segment(path, k) ELSE Max({Segment(path, k)} \cup SlowerFor(path, k))
SlowedSegment(path, k) ==
    IF k = 1 THEN Segment(path, k) ELSE Max({Segment(path, k)} \cup SlowerFor(path, k))

\* The times add up.
Times(path) ==
    LET time[k \in DOMAIN path] == SlowedSegment(path, k) + (IF k = 1 THEN 0 ELSE time[k - 1])
    IN  time

=============================================================================
