-------------------------- MODULE CollisionProximity --------------------------
(***************************************************************************)
(* CollisionProximitySpace: the robot and the objects of a planning scene  *)
(* as spheres and points, two distance fields made of the points, and the  *)
(* queries about a group of links: is it in collision with the             *)
(* environment, with the rest of the robot, with itself?  The arm slides   *)
(* along a line: a joint moves the links of its group together, except     *)
(* that a link may lie where it is.  Each body is one sphere and one point.*)
(***************************************************************************)
EXTENDS Integers, Sequences, SequencesExt, FiniteSets, FiniteSetsExt, Functions, Selection, TrajectorySafety

CONSTANTS
    Offset,             \* where each link lies when its joint is at 0
    Reach,              \* how far the joint moves each link
    GroupLinks,         \* getUpdatedLinkModelNames of the group
    Bodies,             \* the links with a shape
    Group,              \* the group's name
    Operations,         \* distance_collision_operations
    JointValues,
    SphereRadius,       \* of every sphere
    MaxEnvironmentDistance, MaxSelfDistance, UndefinedDistance,
    Far,                \* DBL_MAX
    Scenes              \* the planning scenes the environment server may send

Links == DOMAIN Offset
ASSUME LinksAssumption ==
    /\ GroupLinks \in Seq(Links) /\ IsInjective(GroupLinks) /\ Bodies \subseteq Links
    /\ Offset \in [Links -> Int] /\ Reach \in [Links -> Int]
    /\ \A l \in Links \ Range(GroupLinks) : Reach[l] = 0
ASSUME DistancesAssumption ==
    /\ SphereRadius \in Nat
    /\ \A max \in {MaxEnvironmentDistance, MaxSelfDistance} :
          max \in Nat /\ SphereRadius < max /\ SphereRadius + Tolerance < max /\ max < Far
    /\ Far \in Nat /\ UndefinedDistance \in Int /\ Tolerance <= UndefinedDistance
ASSUME JointAssumption == JointValues \subseteq Int /\ 0 \in JointValues
ASSUME GroupAssumption == Group # ""
ASSUME OperationsAssumption ==
    Operations \in Seq([object1 : Links \cup {Group}, object2 : Links \cup {Group}, enable : BOOLEAN])
ASSUME ScenesAssumption ==
    \A s \in Scenes :
        /\ s.objects \subseteq Int /\ s.map \subseteq Int /\ s.joint \in JointValues
        /\ s.attached \in Seq([link : Links, name : STRING, offset : Int, touch : SUBSET Links])

VARIABLES
    scene,          \* the scene that collision_models_interface_ holds, or NoScene
    state,          \* the joint, in its planning scene state
    spheres,        \* body_decomposition_map_: where each link's sphere is
    points,         \* and its point
    attached,       \* attached_object_map_: where each object's sphere is
    touch,          \* attached_object_collision_links_: what an object may touch
    envField,       \* environment_distance_field_: its points, object_voxel_locations_ and,
                    \* a history, what it misses of what it was last given
    selfField,      \* self_distance_field_
    current_group,  \* current_group_name_
    names,          \* current_link_names_
    held,           \* current_attached_body_names_, each with its link
    pairs,          \* current_intra_group_collision_links_
    gradients,      \* current_gradients_: the sphere's location of each body
    steady          \* history: the scene is that of the last setup

bodies == <<spheres, points, attached, touch>>
current == <<current_group, names, held, pairs, gradients>>
space == <<scene, state, bodies, envField, selfField, current, steady>>

NoScene == [objects |-> {}, map |-> {}, joint |-> 0, attached |-> << >>, set |-> FALSE]
IsSet == scene # NoScene

-----------------------------------------------------------------------------
(* Where things are *)

LinkAt(l, q) == Offset[l] + Reach[l] * q
LinkId(l) == <<l>>
makeAttachedObjectId(b) == <<b.link, b.name>>
BodyAt(b, q) == LinkAt(b.link, q) + b.offset
ObjectIds(s) == {makeAttachedObjectId(s.attached[k]) : k \in DOMAIN s.attached}
AttachedAt(s, q) ==
    [id \in ObjectIds(s) |->
       BodyAt(s.attached[CHOOSE k \in DOMAIN s.attached : makeAttachedObjectId(s.attached[k]) = id], q)]

Gap(p, q) == IF p > q THEN p - q ELSE q - p

-----------------------------------------------------------------------------
(* loadDefaultCollisionOperations *)

Expanded(object) == IF object = Group THEN Range(GroupLinks) ELSE {object}

\* The pairs of links that are not checked: a link with itself is another list.
DisabledPairs ==
    FoldLeft(LAMBDA off, op :
               LET these == {{a, b} : a \in Expanded(op.object1), b \in Expanded(op.object2)} IN
               IF op.object1 = op.object2 /\ op.object1 # Group THEN off
               ELSE IF op.enable THEN off \ these ELSE off \cup these,
             {}, Operations)
SelfExcludes == {op.object1 : op \in {o \in Range(Operations) :
                                        o.object1 = o.object2 /\ o.object1 # Group}}

-----------------------------------------------------------------------------
(* The distance fields *)

NoField == [points |-> {}, known |-> {}, missing |-> {}]

\* reset() and addPointsToField(S): the reset takes all points away and leaves
\* object_voxel_locations_, so that a point on that list is not taken in again.
Refilled(field, S) ==
    [points |-> S \ field.known, known |-> field.known \cup S, missing |-> S \cap field.known]

-----------------------------------------------------------------------------
(* The scene *)

SpaceInit ==
    /\ scene = NoScene /\ state = 0
    /\ spheres = [l \in Bodies |-> LinkAt(l, 0)] /\ points = spheres
    /\ attached = << >> /\ touch = {}
    /\ envField = NoField /\ selfField = NoField
    /\ current_group = "" /\ names = << >> /\ held = << >> /\ pairs = << >> /\ gradients = << >>
    /\ steady = FALSE

\* prepareEnvironmentDistanceField: the points of the objects and of the map.
Obstacles(s) == s.objects \cup s.map

\* setPlanningSceneCallback, perhaps after the revert of the scene before.  What
\* an object might once touch stays in the list; the group, its links and its
\* gradients stay, the objects it holds do not.
SetPlanningScene(s, reverts) ==
    /\ reverts => IsSet
    /\ scene' = s /\ state' = s.joint
    /\ attached' = AttachedAt(s, s.joint)
    /\ touch' = touch \cup UNION {{<<makeAttachedObjectId(s.attached[k]), LinkId(l)>> :
                                     l \in s.attached[k].touch} : k \in DOMAIN s.attached}
    /\ envField' = Refilled(envField, Obstacles(s))
    /\ current_group' = IF reverts THEN "" ELSE current_group
    /\ held' = << >>
    /\ steady' = FALSE
    /\ UNCHANGED <<spheres, points, selfField, names, pairs, gradients>>

\* A mutation: the objects the robot holds stay.
RevertKeepsObjects ==
    /\ IsSet
    /\ scene' = NoScene /\ current_group' = "" /\ held' = << >> /\ steady' = FALSE
    /\ UNCHANGED <<state, spheres, points, attached, touch, envField, selfField, names, pairs, gradients>>

\* revertPlanningSceneCallback: the fields stay.
Revert ==
    /\ IsSet
    /\ scene' = NoScene /\ attached' = << >>
    /\ current_group' = "" /\ held' = << >>
    /\ steady' = FALSE
    /\ UNCHANGED <<state, spheres, points, touch, envField, selfField, names, pairs, gradients>>

-----------------------------------------------------------------------------
(* Setting up for a group *)

\* getGroupLinkAndAttachedBodyNames
GroupNames == Selected(GroupLinks, Bodies)
GroupHeld == Selected(scene.attached, {b \in Range(scene.attached) : b.link \in Range(GroupNames)})

HeldIds(h) == [k \in DOMAIN h |-> makeAttachedObjectId(h[k])]
MayTouch(a, b) == <<a, b>> \in touch

\* Which pairs of the group's links and objects are checked.
PairsOf(ns, ids) ==
    LET all == [i \in DOMAIN ns |-> LinkId(ns[i])] \o ids
        n == Len(ns)
    IN
    [i \in DOMAIN all |-> [j \in DOMAIN all |->
        IF i <= n /\ j <= n THEN {ns[i], ns[j]} \notin DisabledPairs
        ELSE ~MayTouch(all[i], all[j]) /\ ~MayTouch(all[j], all[i])]]

\* Looking up an object that may touch nothing follows an iterator past its end;
\* so does everything without a scene.
SetupFails ==
    ~IsSet \/ \E k \in DOMAIN GroupHeld :
                 \A l \in Links : ~MayTouch(makeAttachedObjectId(GroupHeld[k]), LinkId(l))

\* The rest of the robot, with what it holds, where it is now.
RestPoints(q) ==
    LET rest == Bodies \ Range(GroupLinks) IN
    {LinkAt(l, q) : l \in rest} \cup
    {BodyAt(scene.attached[k], q) : k \in {m \in DOMAIN scene.attached : scene.attached[m].link \in rest}}

\* setupForGroupQueries: the gradients take the spheres before they are posed.
SetupForGroupQueries(q) ==
    /\ ~SetupFails
    /\ state' = q /\ current_group' = Group
    /\ names' = GroupNames /\ held' = GroupHeld
    /\ gradients' = [i \in 1..Len(names') + Len(held') |->
                       IF i <= Len(names') THEN spheres[names'[i]]
                       ELSE attached[makeAttachedObjectId(held'[i - Len(names')])]]
    /\ pairs' = PairsOf(names', HeldIds(held'))
    /\ spheres' = [l \in Bodies |-> LinkAt(l, q)] /\ points' = spheres'
    /\ attached' = AttachedAt(scene, q)
    /\ selfField' = Refilled(selfField, RestPoints(q))
    /\ steady' = TRUE
    /\ UNCHANGED <<scene, touch, envField>>

\* An object's sphere is posed once for each object of its link: the last one stays.
LastOfLink(l) ==
    scene.attached[Max({k \in DOMAIN scene.attached : scene.attached[k].link = l})]
PosedSpheres(q) ==
    [l \in Bodies |-> IF current_group # "" /\ l \in Range(names) THEN LinkAt(l, q) ELSE spheres[l]]
PosedAttachedForgotten(q) == attached     \* a mutation: held objects are not posed
PosedAttached(q) ==
    [id \in DOMAIN attached |->
       IF current_group # "" /\ id \in Range(HeldIds(held)) THEN BodyAt(LastOfLink(id[1]), q) ELSE attached[id]]

\* updateSphereLocations: all objects' spheres go to the first object's place.
UpdatedGradients(links, objects) ==
    IF Len(names) + Len(held) # Len(gradients) THEN gradients
    ELSE [i \in DOMAIN gradients |->
            IF i <= Len(names) THEN links[names[i]]
            ELSE IF i = Len(names) + 1 THEN objects[Last(HeldIds(held))] ELSE gradients[i]]

\* setCurrentGroupState, once the planning scene's state is set.
SetCurrentGroupState(q) ==
    /\ state' = q
    /\ spheres' = PosedSpheres(q) /\ attached' = PosedAttached(q)
    /\ gradients' = IF current_group = "" THEN gradients ELSE UpdatedGradients(spheres', attached')
    /\ UNCHANGED <<scene, points, touch, envField, selfField, current_group, names, held, pairs, steady>>

-----------------------------------------------------------------------------
(* Queries, of spheres that may be about to be posed *)

Count == Len(names) + Len(held)
SphereAt(links, objects, i) ==
    IF i <= Len(names) THEN links[names[i]] ELSE objects[HeldIds(held)[i - Len(names)]]

FieldDistance(field, p, max) == Min({Gap(p, o) : o \in field} \cup {max})

\* A distance in a field, to the sphere's surface if the field has an obstacle near it.
Proximity(field, p, max) ==
    LET d == FieldDistance(field, p, max) IN IF d < max THEN d - SphereRadius ELSE d
Touches(field, p, max) ==
    FieldDistance(field, p, max) < max /\ Proximity(field, p, max) <= Tolerance

Env(links, objects, i) ==
    IF i <= Count THEN Proximity(envField.points, SphereAt(links, objects, i), MaxEnvironmentDistance) ELSE Far
ChecksSelf(i) == i <= Count /\ ~(i <= Len(names) /\ names[i] \in SelfExcludes)
Self(links, objects, i) ==
    IF ChecksSelf(i) THEN Proximity(selfField.points, SphereAt(links, objects, i), MaxSelfDistance) ELSE Far

Between(links, objects, i, j) ==
    Gap(SphereAt(links, objects, i), SphereAt(links, objects, j)) - 2 * SphereRadius
Checked(i) == {j \in 1..Count \ {i} : pairs[i][j]}
Intra(links, objects, i) ==
    IF i <= Count THEN Min({Between(links, objects, i, j) : j \in Checked(i)} \cup {Far}) ELSE Far

\* The distance getStateGradients reports: within the group only where one of the fields has none.
Closest(env, self, intra) ==
    LET envAtMax == env >= MaxEnvironmentDistance
        selfAtMax == self >= MaxSelfDistance
    IN  CASE envAtMax /\ (selfAtMax \/ intra < self) -> IF intra = Far THEN UndefinedDistance ELSE intra
          [] envAtMax /\ ~(selfAtMax \/ intra < self) -> self
          [] ~envAtMax /\ selfAtMax -> IF intra < env THEN intra ELSE env
          [] ~envAtMax /\ ~selfAtMax -> IF self < env THEN self ELSE env

Reported(links, objects) ==
    [i \in DOMAIN gradients |->
       Closest(Env(links, objects, i), Self(links, objects, i), Intra(links, objects, i))]

\* What getStateGradients returns, with the radii subtracted.
GradientsCollide(links, objects) ==
    \/ \E i \in 1..Count : Touches(envField.points, SphereAt(links, objects, i), MaxEnvironmentDistance)
    \/ \E i \in 1..Count : ChecksSelf(i) /\ Touches(selfField.points, SphereAt(links, objects, i), MaxSelfDistance)
    \/ \E i \in 1..Count : \E j \in Checked(i) : Between(links, objects, i, j) <= Tolerance

\* isKinematicStateInCollision of the interface: the meshes of the scene.
MeshesCollide(q) ==
    LET solid == Obstacles(scene) IN
    \/ \E l \in Bodies : LinkAt(l, q) \in solid
    \/ \E k \in DOMAIN scene.attached : BodyAt(scene.attached[k], q) \in solid

\* isTrajectorySafe, of the joint's values: the spheres stay where the verdict fell.
SafetyPoints(trajectory) ==
    [k \in DOMAIN trajectory |->
       [distances |-> Reported(PosedSpheres(trajectory[k]), PosedAttached(trajectory[k])),
        collision |-> FALSE]]
SafetyOf(trajectory) ==
    isTrajectorySafe(\A k \in DOMAIN trajectory : ~MeshesCollide(trajectory[k]), SafetyPoints(trajectory))
Visited(trajectory) ==
    Min({Len(trajectory)} \cup
        {k \in DOMAIN trajectory :
           isTrajectorySafe(FALSE, SubSeq(SafetyPoints(trajectory), 1, k)) \in Unsafe})

IsTrajectorySafe(trajectory) ==
    IF SafetyOf(trajectory) = "MeshToMeshSafe"
    THEN /\ state' = scene.joint
         /\ UNCHANGED <<scene, bodies, envField, selfField, current, steady>>
    ELSE SetCurrentGroupState(trajectory[Visited(trajectory)])

=============================================================================
