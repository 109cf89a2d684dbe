----------------------- MODULE CollisionProximityPlanner -----------------------
(***************************************************************************)
(* collision_proximity_planner: the service "plan" moves a group that is   *)
(* in collision along the gradients of its CollisionProximitySpace until   *)
(* it is free or max_iterations_ are over.  Scenes arrive in another       *)
(* thread, without a lock.  Between plans the space is asked whether a     *)
(* trajectory that passes through a collision is safe.                     *)
(***************************************************************************)
EXTENDS CollisionProximity

CONSTANTS
    max_iterations,
    max_joint_update,
    Trajectories        \* what isTrajectorySafe is asked about

ASSUME PlannerAssumption == max_iterations \in Nat \ {0} /\ max_joint_update \in Nat
ASSUME TrajectoriesAssumption == Trajectories \subseteq Seq(JointValues) \ {<< >>}

VARIABLES
    in_call,        \* in which call the service thread is
    q,              \* jnt_array_group
    trajectory,     \* jnt_trajectory
    in_collision,
    start,          \* the request's start state
    response        \* the service's answer

call == <<in_call, q, trajectory, in_collision, start, response>>
plannerVars == <<space, call>>

Calls == {"idle", "refining", "crashed"}
NoAnswer == [result |-> FALSE, free |-> FALSE]

PlannerInit ==
    /\ SpaceInit
    /\ in_call = "idle" /\ q = 0 /\ trajectory = << >> /\ in_collision = TRUE
    /\ start = 0 /\ response = NoAnswer

-----------------------------------------------------------------------------
(* The interface's thread *)

SceneArrives ==
    /\ in_call # "crashed"
    /\ \E s \in Scenes, reverts \in BOOLEAN : SetPlanningScene(s, reverts)
    /\ UNCHANGED call

SceneGoes ==
    /\ in_call # "crashed"
    /\ Revert
    /\ UNCHANGED call

-----------------------------------------------------------------------------
(* getFreePath and findPathToFreeState *)

Crash == in_call' = "crashed" /\ UNCHANGED <<space, q, trajectory, in_collision, start, response>>

\* A request for a group that is not there gets an answer with no error code.
Refuse ==
    /\ in_call = "idle"
    /\ response' = NoAnswer
    /\ UNCHANGED <<space, in_call, q, trajectory, in_collision, start>>

GetFreePath(q0) ==
    /\ in_call = "idle"
    /\ SetupForGroupQueries(q0)
    /\ in_call' = "refining" /\ q' = q0 /\ start' = q0
    /\ trajectory' = << >> /\ in_collision' = TRUE /\ response' = NoAnswer

GetFreePathCrashes == in_call = "idle" /\ SetupFails /\ Crash

\* calculateCollisionIncrements and updateJointState: how far a step may go.
JointUpdated(from) == {to \in JointValues : Gap(to, from) <= max_joint_update}

\* calculateCollisionIncrements: what the space and the meshes say.
Collides(links, objects) == GradientsCollide(links, objects) \/ MeshesCollide(q)

\* A mutation: the point is kept after it is moved.
IterateKeepsNext ==
    /\ in_call = "refining" /\ Len(trajectory) < max_iterations /\ in_collision
    /\ IsSet
    /\ SetCurrentGroupState(q)
    /\ in_collision' = Collides(spheres', attached')
    /\ q' \in (IF in_collision' THEN JointUpdated(q) ELSE {q})
    /\ trajectory' = Append(trajectory, q')
    /\ UNCHANGED <<in_call, start, response>>

\* One round of the loop.  The point is kept before it is looked at.
Iterate ==
    /\ in_call = "refining" /\ Len(trajectory) < max_iterations /\ in_collision
    /\ IsSet
    /\ trajectory' = Append(trajectory, q)
    /\ SetCurrentGroupState(q)
    /\ in_collision' = Collides(spheres', attached')
    /\ q' \in (IF in_collision' THEN JointUpdated(q) ELSE {q})
    /\ UNCHANGED <<in_call, start, response>>

IterateCrashes ==
    /\ in_call = "refining" /\ Len(trajectory) < max_iterations /\ in_collision
    /\ ~IsSet /\ Crash

\* Free, or not: the path is returned.
ReturnPath ==
    /\ in_call = "refining"
    /\ ~in_collision \/ Len(trajectory) = max_iterations
    /\ response' = [result |-> TRUE, free |-> ~in_collision]
    /\ in_call' = "idle" /\ q' = 0 /\ trajectory' = << >> /\ in_collision' = TRUE /\ start' = 0
    /\ UNCHANGED space

-----------------------------------------------------------------------------
(* isTrajectorySafe *)

CheckTrajectory ==
    /\ in_call = "idle" /\ IsSet /\ current_group # ""
    /\ \E t \in Trajectories : IsTrajectorySafe(t)
    /\ UNCHANGED call

CheckCrashes == in_call = "idle" /\ ~IsSet /\ Crash

PlannerNext ==
    \/ SceneArrives \/ SceneGoes
    \/ Refuse \/ (\E q0 \in JointValues : GetFreePath(q0)) \/ GetFreePathCrashes
    \/ Iterate \/ IterateCrashes \/ ReturnPath
    \/ CheckTrajectory \/ CheckCrashes

PlannerSpec == PlannerInit /\ [][PlannerNext]_plannerVars

-----------------------------------------------------------------------------
(* What the answers are about: the scene itself, wherever the spheres are,  *)
(* and all of its obstacles and of the robot but what the fields had once   *)
(* known, at an earlier scene or set-up, and lost by the reset.             *)

Ids == [k \in DOMAIN GroupNames |-> LinkId(GroupNames[k])] \o HeldIds(GroupHeld)
PlaceOf(id, at) == IF Len(id) = 1 THEN LinkAt(id[1], at) ELSE AttachedAt(scene, at)[id]

MayMeet(a, b) ==
    \/ Len(a) = 1 /\ Len(b) = 1 /\ {a[1], b[1]} \in DisabledPairs
    \/ \E k \in DOMAIN scene.attached, l \in Links :
          /\ l \in scene.attached[k].touch
          /\ {a, b} = {makeAttachedObjectId(scene.attached[k]), LinkId(l)}

\* Something of the group is nearer than m to an obstacle, to the rest of the
\* robot, to another part of the group.
NearWorld(at, m) ==
    \E id \in Range(Ids), o \in Obstacles(scene) \ envField.missing : Gap(PlaceOf(id, at), o) - SphereRadius < m
NearRobot(at, m) ==
    \E id \in Range(Ids) \ {LinkId(l) : l \in SelfExcludes}, o \in RestPoints(at) \ selfField.missing :
        Gap(PlaceOf(id, at), o) - SphereRadius < m
NearItself(at, m) ==
    \E a, b \in Range(Ids) :
        a # b /\ ~MayMeet(a, b) /\ Gap(PlaceOf(a, at), PlaceOf(b, at)) - 2 * SphereRadius < m
Near(at, m) == NearWorld(at, m) \/ NearRobot(at, m) \/ NearItself(at, m)

\* Distances of exactly the tolerance are free here and in collision there.
Free(at) == ~Near(at, Tolerance)
Clear(at) == ~Near(at, Tolerance + 1)

\* The scene of the last setup, when nothing is left of an earlier one in the
\* list of what objects may touch, and no link holds two objects.
Understood ==
    /\ steady
    /\ \A pair \in touch : pair[1] \in ObjectIds(scene) => MayMeet(pair[1], pair[2])
    /\ IsInjective([k \in DOMAIN GroupHeld |-> GroupHeld[k].link])

-----------------------------------------------------------------------------
(* Properties *)

FieldType == [points : SUBSET Int, known : SUBSET Int, missing : SUBSET Int]

PlannerTypeOK ==
    /\ scene \in Scenes \cup {NoScene} /\ state \in JointValues
    /\ spheres \in [Bodies -> Int] /\ points \in [Bodies -> Int]
    /\ DOMAIN attached = ObjectIds(scene) /\ Range(attached) \subseteq Int
    /\ envField \in FieldType /\ selfField \in FieldType
    /\ current_group \in {"", Group} /\ names \in {<< >>, GroupNames} /\ steady \in BOOLEAN
    /\ held \in {<< >>, GroupHeld}
    /\ gradients \in Seq(Int) /\ Len(names) + Len(held) <= Len(gradients)
    /\ in_call \in Calls /\ q \in JointValues /\ in_collision \in BOOLEAN /\ start \in JointValues
    /\ trajectory \in Seq(JointValues) /\ Len(trajectory) <= max_iterations
    /\ response \in [result : BOOLEAN, free : BOOLEAN]

\* findPathToFreeState: once the loop has stopped because the group is free, its meshes
\* are off every obstacle, and its spheres clear of each other and of all obstacles and parts
\* of the robot but those lost to a reset.  Nothing keeps the margin to the latter: an obstacle
\* that an earlier scene had, or the robot's rest from the second set-up on, is in no field.
FreeIsFree ==
    in_call = "refining" /\ ~in_collision /\ Understood =>
        Clear(Last(trajectory)) /\ ~MeshesCollide(Last(trajectory))

\* A returned path starts where the request said, no step of it is longer than
\* max_joint_update_, and only its last point may be free by the meshes and clear of what
\* the fields hold.
PathLeadsOut ==
    [][ReturnPath =>
         /\ trajectory # << >> /\ trajectory[1] = start
         /\ \A k \in 1..Len(trajectory) - 1 :
               Gap(trajectory[k], trajectory[k + 1]) <= max_joint_update
         /\ Understood =>
               \A k \in DOMAIN trajectory :
                  Clear(trajectory[k]) => k = Len(trajectory) \/ MeshesCollide(trajectory[k])]_plannerVars

\* isTrajectorySafe: a trajectory it accepts does not go from free space through
\* an obstacle, or the rest of the robot, and out of it again, if the fields have not lost it.
NeverThrough ==
    in_call = "idle" /\ current_group # "" /\ Understood =>
        \A t \in Trajectories :
            SafetyOf(t) = "InCollisionSafe" =>
                ~\E i, j, k \in DOMAIN t :
                    /\ i < j /\ j < k /\ Free(t[i]) /\ Free(t[k])
                    /\ NearWorld(t[j], Tolerance) \/ NearRobot(t[j], Tolerance)

\* What either service calls free, or safe, is, as far as the fields know (findPathToFreeState,
\* isTrajectorySafe, over any scenes and set-ups that came before).
CalledFreeIsFree == FreeIsFree /\ NeverThrough

=============================================================================
