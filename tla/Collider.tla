------------------------------- MODULE Collider -------------------------------
(***************************************************************************)
(* collider.cpp: the octree of what the sensors have seen around the arm.  *)
(* Clouds raise and lower the log-odds of its cells; cells the camera      *)
(* looks through, and lone cells, are degraded.  The callbacks run in the  *)
(* node's spin thread, which starts before the constructor has subscribed  *)
(* to every cloud; the goals that make a static map run in the action      *)
(* server's thread and share the octree and cloud_sources_ without a lock. *)
(* Cell <<x, y>> lies at distance y on the camera's ray x and at distance  *)
(* x on the laser's ray y.                                                 *)
(***************************************************************************)
EXTENDS Integers, Sequences, SequencesExt, FiniteSets

CONSTANTS
    Width, Depth,           \* the cells around the arm
    Cone, BoxDepth,         \* the camera's rays of inSensorCone, and how far its box reaches
    Slant,                  \* how much shorter than the distance a ray's z is
    Hit, Miss, Low, High,   \* the sensor model, in log-odds: updates and clamping
    MaxRange,               \* max_range_
    MaxUpdateTime,          \* max_update_time of degradeOutdatedRaw
    Entries,                \* the parameter "cloud_sources"
    Scenes,                 \* what may be around the arm
    Dropouts,               \* the sets of rays a cloud may have no answer on
    publishOverDynamic      \* publish_over_dynamic_map_

ASSUME CellsAssumption == {Width, Depth, Hit, Miss, MaxRange, MaxUpdateTime} \subseteq Nat \ {0}
ASSUME OddsAssumption == Low \in Int /\ High \in Int /\ Low < 0 /\ High >= 0
ASSUME RaysAssumption == Slant \in [1..Width -> Nat]
ASSUME EntriesAssumption ==
    Entries \in Seq([name : STRING, valid : BOOLEAN, raw : BOOLEAN, dynamic : BOOLEAN])

VARIABLES
    octree,         \* collision_octree_: the known cells' log-odds and age in seconds
    scene,          \* what stands around the arm, the arm, and the object it holds
    attached,       \* cm_ knows the object the arm holds
    parsed,         \* how many of Entries the constructor has been through
    listening,      \* the clouds that are subscribed to
    sources,        \* cloud_sources_: dynamic_publish_ of each
    serving,        \* action_server_ is started
    camera,         \* cam_model_initialized_
    cb,             \* the cloud whose callback runs, with the settings it copied
    making,         \* makeStaticCollisionMap
    found,          \* its reading of the octree may find more than one cell
    topic,          \* which map was last sent on collision_map_out
    staticMade,     \* history: a goal was answered
    alive

tree == <<octree, scene, attached>>
setup == <<parsed, listening, sources, serving, camera>>
action == <<making, found>>
outside == <<topic, staticMade, alive>>
vars == <<tree, setup, cb, action, outside>>

Voxels == (1..Width) \X (1..Depth)
CameraAxis == 2
LaserAxis == 1
NoCloud == [name |-> "none", axis |-> CameraAxis, dynamic |-> FALSE, dropped |-> {}, late |-> FALSE]

SceneType == [world : SUBSET Voxels, arm : SUBSET Voxels, held : SUBSET Voxels]
ASSUME ScenesAssumption == Scenes \subseteq SceneType /\ Dropouts \subseteq SUBSET (1..Width)

-----------------------------------------------------------------------------
(* The sensors *)

\* On the beams along an axis, u is before v.
Ahead(axis, u, v) == u[3 - axis] = v[3 - axis] /\ u[axis] < v[axis]
Things == scene.world \cup scene.arm \cup scene.held
Seen(axis) == {v \in Things : \A u \in Things : ~Ahead(axis, u, v)}

\* The robot's self mask, and the bodies cm_ knows.
Masked == scene.arm \cup (IF attached THEN scene.held ELSE {})

\* The points of a cloud without the rays that were lost, the robot (which an
\* earlier node filters) and the attached object.
Filtered(axis, dropped) == {v \in Seen(axis) : v[3 - axis] \notin dropped} \ Masked

-----------------------------------------------------------------------------
(* The octree *)

LogOdds(t, v) == IF v \in DOMAIN t THEN t[v].odds ELSE 0
Lowered(odds) == IF odds - Miss < Low THEN Low ELSE odds - Miss

\* Mutant: the update is not clamped.
RaisedUnclamped(odds) == odds + Hit

Raised(odds) == IF odds + Hit > High THEN High ELSE odds + Hit

\* The cells getOccupiedPoints lists.
Occupied(t) == {v \in DOMAIN t : t[v].odds >= 0}

\* insertScan: the beams' ends are hit unless they are out of range, the cells
\* before them are missed.
InsertScan(t, axis, points) ==
    LET near == {v \in Voxels : v[axis] <= MaxRange}
        hits == points \cap near
        misses == {v \in near : \E p \in points : Ahead(axis, v, p)} \ hits
    IN  [v \in DOMAIN t \cup hits \cup misses |->
            IF v \in hits THEN [odds |-> Raised(LogOdds(t, v)), age |-> 0]
            ELSE IF v \in misses THEN [odds |-> Lowered(LogOdds(t, v)), age |-> 0] ELSE t[v]]

\* integrateMissNoTime on the cells of S.
IntegrateMissNoTime(t, S) == [v \in DOMAIN t |-> IF v \in S THEN [t[v] EXCEPT !.odds = Lowered(@)] ELSE t[v]]

inSensorCone(v) == v[1] \in Cone

\* computeBBX
BBX == {v \in Voxels : v[2] <= BoxDepth}

\* The range of a ray without an answer is NaN: nothing is smaller.
\* Mutant: what is behind hides what is before it.
IsOccludedBehind(v, dropped) ==
    v[1] \notin dropped /\ \E u \in Seen(CameraAxis) : u[1] = v[1] /\ u[2] - Slant[u[1]] > v[2]

isOccludedRaw(v, dropped) ==
    v[1] \notin dropped /\ \E u \in Seen(CameraAxis) : u[1] = v[1] /\ u[2] - Slant[u[1]] < v[2]

InShadow(v) == \E u \in Masked : Ahead(CameraAxis, u, v)

\* Mutant: only where the camera has an answer.
DegradeOutdatedAnswered(t, dropped) == IntegrateMissNoTime(t,
    {v \in BBX \cap Occupied(t) :
        /\ t[v].age > MaxUpdateTime
        /\ inSensorCone(v) /\ ~isOccludedRaw(v, dropped) /\ ~InShadow(v)
        /\ v[1] \notin dropped})

DegradeOutdatedRaw(t, dropped) == IntegrateMissNoTime(t,
    {v \in BBX \cap Occupied(t) :
        /\ t[v].age > MaxUpdateTime
        /\ inSensorCone(v) /\ ~isOccludedRaw(v, dropped) /\ ~InShadow(v)})

Neighbours(v) == {u \in Voxels \ {v} : \A i \in 1..2 : u[i] - v[i] \in -1..1}

\* degradeSingleSpeckles: one cell after the other, but a cell that is degraded was
\* no one's neighbour, so that the order does not matter.
DegradeSingleSpeckles(t) == IntegrateMissNoTime(t, {v \in Occupied(t) : Neighbours(v) \cap Occupied(t) = {}})

\* occupancyBBXSrv and occupancyBBXSizeSrv, of the cells of a box; of one cell,
\* occupancyPointSrv, where UNKNOWN is neither.
OccupancyBBX(box) == [occupied |-> box \cap Occupied(octree), free |-> (box \cap DOMAIN octree) \ Occupied(octree)]

-----------------------------------------------------------------------------
(* The constructor *)

Init ==
    /\ octree = <<>> /\ scene \in Scenes /\ attached = FALSE
    /\ parsed = 0 /\ listening = {} /\ sources = <<>> /\ serving = FALSE /\ camera = FALSE
    /\ cb = NoCloud /\ making = "idle" /\ found = FALSE
    /\ topic = "none" /\ staticMade = FALSE /\ alive = TRUE

Entry == Entries[parsed + 1]
Known(n) == \E i \in 1..parsed : Entries[i].name = n /\ n \in listening

\* The callback is registered before the settings are stored.
Subscribe ==
    /\ parsed < Len(Entries) /\ Entry.valid /\ Entry.name \notin listening
    /\ listening' = listening \cup {Entry.name}
    /\ UNCHANGED <<tree, parsed, sources, serving, camera, cb, action, outside>>

StoreSettings ==
    /\ parsed < Len(Entries) /\ Entry.valid /\ Entry.name \in listening /\ ~Known(Entry.name)
    /\ sources' = [n \in DOMAIN sources \cup {Entry.name} |-> IF n = Entry.name THEN Entry.dynamic ELSE sources[n]]
    /\ parsed' = parsed + 1
    /\ UNCHANGED <<tree, listening, serving, camera, cb, action, outside>>

\* A source of a known name is skipped, a malformed one stops the processing.
SkipEntry ==
    /\ parsed < Len(Entries) /\ (Entry.valid => Known(Entry.name))
    /\ parsed' = IF Entry.valid THEN parsed + 1 ELSE Len(Entries)
    /\ UNCHANGED <<tree, listening, sources, serving, camera, cb, action, outside>>

StartServer ==
    /\ parsed = Len(Entries) /\ ~serving
    /\ serving' = TRUE
    /\ UNCHANGED <<tree, parsed, listening, sources, camera, cb, action, outside>>

-----------------------------------------------------------------------------
(* The callbacks of the spin thread *)

Idle == cb = NoCloud

CameraInfo ==
    /\ Idle /\ ~camera
    /\ camera' = TRUE
    /\ UNCHANGED <<tree, parsed, listening, sources, serving, cb, action, outside>>

\* Whether a cloud comes with its raw cloud; the first entry of a name counts.
Combined(n) == Entries[SelectInSeq(Entries, LAMBDA e : e.name = n)].raw

\* The settings are copied; cloud_sources_[topic_name] makes the defaults if it must.
Cloud(n, dropped) ==
    /\ Idle /\ n \in listening /\ (~Combined(n) => dropped = {})
    /\ sources' = IF n \in DOMAIN sources THEN sources
                  ELSE [m \in DOMAIN sources \cup {n} |-> IF m = n THEN TRUE ELSE sources[m]]
    /\ cb' = IF Combined(n) /\ ~camera THEN NoCloud ELSE
             [name |-> n, axis |-> IF Combined(n) THEN CameraAxis ELSE LaserAxis,
              dynamic |-> sources'[n], dropped |-> dropped, late |-> staticMade]
    /\ UNCHANGED <<tree, parsed, listening, serving, camera, action, outside>>

\* waitForTransform times out.
NoTransform ==
    /\ ~Idle
    /\ cb' = NoCloud
    /\ UNCHANGED <<tree, setup, action, outside>>

\* A reading of the octree that runs while it changes may find anything.
ReadMeanwhile == found' = (found \/ making = "reading")

\* publishCollisionMap: nobody may listen, and a map of at most one cell is not sent.
Publishes(cells) == Cardinality(cells) > 1

\* What cloudCombinedCallback and what cloudCallback make of the octree.
CombinedScan(dropped) == DegradeOutdatedRaw(InsertScan(octree, CameraAxis, Filtered(CameraAxis, dropped)), dropped)
PlainScan == DegradeSingleSpeckles(InsertScan(octree, LaserAxis, Filtered(LaserAxis, {})))

CloudDone ==
    /\ ~Idle
    /\ octree' = IF cb.axis = CameraAxis THEN CombinedScan(cb.dropped) ELSE PlainScan
    /\ ReadMeanwhile
    /\ \/ topic' = topic
       \/ cb.dynamic /\ Publishes(Occupied(octree')) /\ topic' = "dynamic"
    /\ cb' = NoCloud
    /\ UNCHANGED <<scene, attached, setup, making, staticMade, alive>>

\* attachedObjectCallback
AttachedObject(b) ==
    /\ Idle /\ attached # b
    /\ attached' = b
    /\ UNCHANGED <<octree, scene, setup, cb, action, outside>>

\* reset: the octree is deleted. Whoever reads it then finds anything, or crashes.
Reset ==
    /\ Idle /\ octree # <<>>
    /\ octree' = <<>>
    /\ ReadMeanwhile
    /\ IF making = "reading" THEN alive' \in BOOLEAN ELSE UNCHANGED alive
    /\ UNCHANGED <<scene, attached, setup, cb, making, topic, staticMade>>

-----------------------------------------------------------------------------
(* makeStaticCollisionMap, in the action server's thread *)

Make ==
    /\ serving /\ making = "idle"
    /\ making' = "reading" /\ found' = Publishes(Occupied(octree))
    /\ UNCHANGED <<tree, setup, cb, outside>>

MakePublishes ==
    /\ making = "reading"
    /\ topic' \in {topic} \cup (IF publishOverDynamic /\ found THEN {"static"} ELSE {})
    /\ making' = "published" /\ found' = FALSE
    /\ UNCHANGED <<tree, setup, cb, staticMade, alive>>

\* Mutant: dynamic_publish_ is cleared for the sources that publish a raw cloud.
MakeDoneRawOnly ==
    /\ making = "published"
    /\ sources' = IF publishOverDynamic THEN [n \in DOMAIN sources |-> sources[n] /\ ~Combined(n)] ELSE sources
    /\ making' = "idle" /\ staticMade' = TRUE
    /\ UNCHANGED <<tree, parsed, listening, serving, camera, cb, found, topic, alive>>

MakeDone ==
    /\ making = "published"
    /\ sources' = IF publishOverDynamic THEN [n \in DOMAIN sources |-> FALSE] ELSE sources
    /\ making' = "idle" /\ staticMade' = TRUE
    /\ UNCHANGED <<tree, parsed, listening, serving, camera, cb, found, topic, alive>>

-----------------------------------------------------------------------------
(* The surroundings: time passes, and things move between two clouds. *)

Second ==
    /\ Idle /\ \E v \in DOMAIN octree : octree[v].age <= MaxUpdateTime
    /\ octree' = [v \in DOMAIN octree |->
                     [octree[v] EXCEPT !.age = IF @ > MaxUpdateTime THEN @ ELSE @ + 1]]
    /\ UNCHANGED <<scene, attached, setup, cb, action, outside>>

SceneChanges ==
    /\ Idle
    /\ scene' \in Scenes \ {scene}
    /\ UNCHANGED <<octree, attached, setup, cb, action, outside>>

Construct == Subscribe \/ StoreSettings \/ SkipEntry \/ StartServer
CloudComes == \E n \in listening, dropped \in Dropouts : Cloud(n, dropped)
Spin == CameraInfo \/ CloudComes \/ NoTransform \/ CloudDone \/ Reset \/ \E b \in BOOLEAN : AttachedObject(b)
Action == Make \/ MakePublishes \/ MakeDone

Next == alive /\ (Construct \/ Spin \/ Action \/ Second \/ SceneChanges)

Spec == Init /\ [][Next]_vars

-----------------------------------------------------------------------------
(* Properties *)

TypeOK ==
    /\ DOMAIN octree \subseteq Voxels
    /\ \A v \in DOMAIN octree : octree[v] \in [odds : Low..High, age : 0..MaxUpdateTime + 1]
    /\ scene \in Scenes /\ {attached, serving, camera, staticMade, alive} \subseteq BOOLEAN
    /\ parsed \in 0..Len(Entries) /\ DOMAIN sources \subseteq listening
    /\ cb = NoCloud \/ cb.name \in DOMAIN sources
    /\ making \in {"idle", "reading", "published"} /\ found \in BOOLEAN
    /\ topic \in {"none", "dynamic", "static"}

\* "Should stop publishing dynamic map": once a static map was made over the dynamic
\* one, no cloud that is received from then on replaces it, whichever of the two
\* threads copied, cleared or inserted a source's settings first.
StaticMapStays == [][publishOverDynamic /\ cb.late => topic' \in {topic, "static"}]_vars

\* What the camera cannot see, because something it sees or knows is in front, is as
\* sure after its cloud as it was before it: nothing that is there is lost from sight.
HiddenStays == [][
    \A v \in OccupancyBBX(Voxels).occupied :
        (/\ CloudDone /\ cb.axis = CameraAxis
         /\ \E u \in Seen(CameraAxis) : Ahead(CameraAxis, u, v) /\ (v[1] \notin cb.dropped \/ u \in Masked))
        => v \in DOMAIN octree' /\ octree'[v].odds >= octree[v].odds]_vars

\* The camera looks straight through v, where nothing is.
LooksThrough(v) == v \in BBX /\ inSensorCone(v) /\ Slant[v[1]] = 0 /\ \A u \in Things : u[1] = v[1] => u[2] > v[2]

\* A cell where nothing is and that the camera looks through is an obstacle no more
\* after as many of its clouds, without a new reading of it, as its log-odds allow: each
\* lowers them, even one without an answer on that ray.
GhostFades == [][
    \A v \in OccupancyBBX(Voxels).occupied :
        CloudDone /\ cb.axis = CameraAxis /\ octree[v].age > MaxUpdateTime /\ LooksThrough(v)
        => octree'[v].odds < octree[v].odds]_vars

\* A cloud of the camera lowers what it sees to be empty, and nothing that is hidden
\* (degradeOutdatedRaw, isOccludedRaw).
SeenIsLowered == HiddenStays /\ GhostFades

=============================================================================
