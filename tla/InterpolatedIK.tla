---------------------------- MODULE InterpolatedIK ----------------------------
(***************************************************************************)
(* interpolated_ik_motion_planner: a straight line of the wrist is cut     *)
(* into steps, and inverse kinematics asked about each of them, from       *)
(* either end.  The parameters can be set by another service, whose thread *)
(* runs while a plan waits for the inverse kinematics.                     *)
(***************************************************************************)
EXTENDS TrajectoryTimes

CONSTANTS
    Joints,             \* the arm's joints
    Distance,           \* between the start pose and the goal
    Worlds,             \* the angles that reach each pose, and those that are free there
    Parameters,         \* what the parameters may be set to
    consistent_angle

ASSUME ArmAssumption == Joints \in Nat \ {0} /\ Distance \in Nat /\ consistent_angle \in Nat

Angles == [1..Joints -> Int]
Zeros == [j \in 1..Joints |-> 0]
ParameterType == [num_steps : Int, pos_spacing : Int, collision_aware : BOOLEAN,
                  collision_check_resolution : Int, steps_before_abort : Int,
                  start_from_end : BOOLEAN]
ASSUME ParametersAssumption == Parameters \subseteq ParameterType
ASSUME WorldsAssumption ==
    \A w \in Worlds : DOMAIN w = 0..Distance /\ \A p \in 0..Distance :
        w[p].reach \subseteq Angles /\ w[p].free \subseteq w[p].reach /\ Zeros \notin w[p].reach

VARIABLES
    parameters,     \* the members that set_params_callback writes
    world,
    pc,
    args,           \* what check_cartesian_path was called with
    steps,          \* the poses, as distances from the start
    trajectory, error_codes,
    answer

vars == <<parameters, world, pc, args, steps, trajectory, error_codes, answer>>

Good == 0
Colliding == 1
Inconsistent == 2
OutOfReach == 3
Unchecked == 4

NoAnswer == [points |-> << >>, codes |-> << >>, times |-> << >>, vels |-> << >>]

Init ==
    /\ parameters \in Parameters /\ world \in Worlds
    /\ pc = "idle" /\ args = parameters
    /\ steps = << >> /\ trajectory = << >> /\ error_codes = << >> /\ answer = NoAnswer

-----------------------------------------------------------------------------
(* The parameters and the request *)

set_params_callback ==
    /\ \E p \in Parameters : parameters' = p
    /\ UNCHANGED <<world, pc, args, steps, trajectory, error_codes, answer>>

\* A missing joint angle, another link: no answer.
Refuse ==
    /\ pc = "idle"
    /\ answer' = NoAnswer
    /\ UNCHANGED <<parameters, world, pc, args, steps, trajectory, error_codes>>

\* The sanity checks of check_cartesian_path.
Sane(p) == [p EXCEPT !.num_steps = IF @ # 0 /\ @ < 2 THEN 2 ELSE @,
                     !.collision_check_resolution = IF @ < 1 THEN 1 ELSE @]
Insane(p) == p.num_steps = 0 /\ p.pos_spacing <= 0

Count(p) == IF p.num_steps = 0 THEN (Distance \div p.pos_spacing) + 2 ELSE p.num_steps
interpolate_cartesian(p) == [k \in 1..Count(p) |-> (Distance * (k - 1)) \div (Count(p) - 1)]

\* interpolated_ik_motion_planner_callback, up to the loop over the steps.
Call ==
    /\ pc = "idle"
    /\ world' \in Worlds
    /\ answer' = NoAnswer
    /\ IF Insane(parameters)
       THEN pc' = "checked" /\ steps' = << >> /\ args' = parameters
       ELSE /\ pc' = "checking" /\ args' = Sane(parameters)
            /\ steps' = (IF args'.start_from_end THEN Reverse(interpolate_cartesian(args'))
                         ELSE interpolate_cartesian(args'))
    /\ UNCHANGED <<parameters, trajectory, error_codes>>

-----------------------------------------------------------------------------
(* The loop of check_cartesian_path *)

k == Len(trajectory) + 1
Pose == world[steps[k]]

\* A mutation: the last step may be one that is not checked.
ChecksEveryOther == args.collision_aware /\ (k - 1) % args.collision_check_resolution = 0
collision_aware_this_step ==
    args.collision_aware /\ ((k - 1) % args.collision_check_resolution = 0 \/ k = Len(steps))

\* A mutation: it is enough if one joint moves little.
ConsistentSomewhere(a, b) == \E j \in 1..Joints : Size(a[j] - b[j]) <= consistent_angle
check_consistent(a, b) == \A j \in 1..Joints : Size(a[j] - b[j]) <= consistent_angle

FollowsOn(solution) ==
    \/ k = 1
    \/ Last(error_codes) = OutOfReach
    \/ check_consistent(Last(trajectory), solution)

\* Too many invalid steps: what is left is not looked at.
Aborts(code) == code > 0 /\ args.steps_before_abort >= 0 /\ k - 1 >= args.steps_before_abort

\* A mutation: the step that failed is counted among those that are left.
AddCountsItself(solution, code) ==
    LET rest == IF Aborts(code) THEN Len(steps) - k + 1 ELSE 0 IN
    /\ trajectory' = Append(trajectory, solution) \o [i \in 1..rest |-> Zeros]
    /\ error_codes' = Append(error_codes, code) \o [i \in 1..rest |-> Unchecked]
    /\ pc' = IF Len(trajectory') >= Len(steps) THEN "checked" ELSE pc
    /\ UNCHANGED <<parameters, world, args, steps, answer>>

Add(solution, code) ==
    LET rest == IF Aborts(code) THEN Len(steps) - k ELSE 0 IN
    /\ trajectory' = Append(trajectory, solution) \o [i \in 1..rest |-> Zeros]
    /\ error_codes' = Append(error_codes, code) \o [i \in 1..rest |-> Unchecked]
    /\ pc' = IF Len(trajectory') = Len(steps) THEN "checked" ELSE pc
    /\ UNCHANGED <<parameters, world, args, steps, answer>>

\* No solution, or no answer of the service.
NoSolution == pc = "checking" /\ Add(Zeros, OutOfReach)

\* A solution where collisions are allowed is kept where no other is found.
Solution ==
    /\ pc = "checking"
    /\ \E colliding \in Pose.reach :
          IF ~collision_aware_this_step
          THEN Add(colliding, IF FollowsOn(colliding) THEN Good ELSE Inconsistent)
          ELSE \/ Add(colliding, IF FollowsOn(colliding) THEN Colliding ELSE Inconsistent)
               \/ \E solution \in Pose.free :
                     Add(solution, IF FollowsOn(solution) THEN Good ELSE Inconsistent)

-----------------------------------------------------------------------------
(* The answer *)

InOrder(s) == IF args.start_from_end THEN Reverse(s) ELSE s

\* A mutation: the last invalid point of the start is kept.
StartIndKeepsInvalid(codes) ==
    IF parameters.start_from_end
    THEN Max({1} \cup {i \in 2..Len(codes) : codes[i] # Good})
    ELSE 1

\* The valid part of the path: its end is kept if the search is from the end.  The
\* loop that looks for an invalid point from the end does not reach the first one.
StartInd(codes) ==
    IF parameters.start_from_end
    THEN Max({1} \cup {i + 1 : i \in {m \in 2..Len(codes) : codes[m] # Good}})
    ELSE 1
StopInd(codes) ==
    IF parameters.start_from_end THEN Len(codes)
    ELSE Min({Len(codes)} \cup {i - 1 : i \in {m \in DOMAIN codes : codes[m] # Good}})

Answer ==
    /\ pc = "checked"
    /\ LET points == InOrder(trajectory)
           codes == InOrder(error_codes)
           first == StartInd(codes)
           last == StopInd(codes)
           part == SubSeq(points, first, last)
           times == Times(part)
           vels == Velocities(part)
       IN  answer' = [points |-> points, codes |-> codes,
                      times |-> [i \in DOMAIN codes |-> IF i \in first..last THEN times[i - first + 1] ELSE 0],
                      vels |-> [i \in DOMAIN codes |-> IF i \in first..last THEN vels[i - first + 1] ELSE Zeros]]
    /\ pc' = "idle" /\ steps' = << >> /\ trajectory' = << >> /\ error_codes' = << >>
    /\ UNCHANGED <<parameters, world, args>>

Next == set_params_callback \/ Refuse \/ Call \/ NoSolution \/ Solution \/ Answer

Spec == Init /\ [][Next]_vars

-----------------------------------------------------------------------------
(* Properties *)

TypeOK ==
    /\ parameters \in Parameters /\ world \in Worlds /\ args \in ParameterType
    /\ pc \in {"idle", "checking", "checked"}
    /\ trajectory \in Seq(Angles) /\ error_codes \in Seq(Good..Unchecked)
    /\ Len(trajectory) = Len(error_codes) /\ Len(trajectory) <= Len(steps)
    /\ Len(answer.points) = Len(answer.codes) /\ Len(answer.times) = Len(answer.codes)
    /\ Len(answer.vels) = Len(answer.codes)

\* Whether the search goes from the start or from the end, and however few steps
\* are checked: an end of the path that is good is free of collisions.
EndsAreFree ==
    [][Answer /\ args.collision_aware =>
         \A i \in {1, Len(steps)} \cap DOMAIN answer'.codes :
            answer'.codes[i] = Good =>
                answer'.points[i] \in world[InOrder(steps)[i]].free]_vars

\* Of two neighbours that can be reached, the one that was searched later is not
\* good, nor only in collision, unless every joint moves at most consistent_angle.
GoodIsConsistent ==
    [][Answer =>
         \A i \in 1..Len(answer'.codes) - 1 :
            LET later == IF args.start_from_end THEN i ELSE i + 1 IN
            /\ answer'.codes[later] \in {Good, Colliding}
            /\ {answer'.codes[i], answer'.codes[i + 1]} \cap {OutOfReach, Unchecked} = {}
            => \A j \in 1..Joints :
                  Size(answer'.points[i][j] - answer'.points[i + 1][j]) <= consistent_angle]_vars

\* The points that are given a time are the good ones from the end that was set last up
\* to the first point that is not good ("keep the end", "keep the start"), even where
\* set_params changes that end while the inverse kinematics is asked.  One defect is let
\* through: the loop that goes from the end stops before index 0, so where every other
\* point is good the first one is timed with them, good or not, against the comment there
\* (the valid part is kept, the invalid one gets 0).
ValidPartIsTimed ==
    [][Answer =>
         LET codes == answer'.codes
             fromEnd == parameters.start_from_end
             good == {i \in DOMAIN codes :
                        \A m \in (IF fromEnd THEN i..Len(codes) ELSE 1..i) : codes[m] = Good}
             timed == {i \in DOMAIN codes : answer'.times[i] > 0}
         IN  \/ timed = good
             \/ fromEnd /\ good = 2..Len(codes) /\ timed = 1..Len(codes)]_vars

\* The codes of an answer are true of its points, whichever end was searched from, and
\* its times go with the codes but for the first point of a path kept from its end.
CodesAreTrue == EndsAreFree /\ GoodIsConsistent /\ ValidPartIsTimed

\* The part that is timed begins and ends at rest, and between two of its points no
\* joint needs more than the greatest speed or the greatest acceleration.
MovesWithinLimits ==
    LET timed == {i \in DOMAIN answer.codes : answer.times[i] > 0} IN
    \A i \in timed :
        /\ i - 1 \notin timed \/ i + 1 \notin timed => answer.vels[i] = Zeros
        /\ i + 1 \in timed =>
              LET dt == answer.times[i + 1] - answer.times[i] IN
              \A j \in 1..Joints :
                 /\ Size(answer.points[i + 1][j] - answer.points[i][j]) <= dt
                 /\ Size(answer.vels[i + 1][j] - answer.vels[i][j]) <= MaxAcceleration * dt

=============================================================================
