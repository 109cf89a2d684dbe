---------------------------- MODULE DistanceField ----------------------------
(***************************************************************************)
(* propagation_distance_field.cpp: a grid of voxels, each with the squared *)
(* distance to its closest obstacle, up to a largest distance.  Obstacles  *)
(* are added and removed as the sensors see them.  Their distances spread  *)
(* by a queue of buckets, one per distance: a voxel that is brought closer *)
(* to an obstacle is put in the bucket of its new distance, and offers its *)
(* obstacle to its neighbours when that bucket is drained.  One drained    *)
(* entry, or one entry of the stack of a removal, is a step here.          *)
(***************************************************************************)
EXTENDS Integers, Sequences, FiniteSets, SequencesExt, Selection

CONSTANTS
    Size,           \* num_cells_
    MaxDistance,    \* max_distance_ in cells, rounded up
    PointSets,      \* the point clouds a client may pass, as cells
    Before,         \* what may be read before the grid, as a distance: whether it is 0
    MaxCalls        \* bound on the calls of a behaviour

ASSUME SizeAssumption == Size \in [1..3 -> Nat \ {0}]
ASSUME MaxDistanceAssumption == MaxDistance \in Nat \ {0}
ASSUME PointSetsAssumption == \A P \in PointSets : P \subseteq Int \X Int \X Int
ASSUME CallsAssumption == MaxCalls \in Nat
ASSUME BeforeAssumption == Before \subseteq BOOLEAN

VARIABLES
    voxels,     \* data_, without location_: where it is set, it is the voxel's own
    object_voxel_locations,
    bucket_queue,
    drained,    \* the bucket propogate() is at; None when it does not run
    stack,      \* the stack of removeObstacleVoxels
    adding,     \* of an update: points_added, once the removal is over
    doing,      \* in which of its loops a call is
    given,      \* history: the obstacles there should be
    gone,       \* history: the obstacles a reset or an iterative update took away, until an
                \* update from scratch brings them back
    made,       \* history: how many calls were made
    before      \* what is read before the grid, for good

fieldVars == <<voxels, object_voxel_locations, bucket_queue, drained, stack, adding, doing,
               given, gone, made, before>>

None == -1
MaxSq == MaxDistance * MaxDistance
Cells == (0..Size[1] - 1) \X (0..Size[2] - 1) \X (0..Size[3] - 1)
CellOrNone == Cells \cup {<<None, None, None>>}

-----------------------------------------------------------------------------
(* Directions and neighbourhoods *)

\* getLocationDifference: the direction of a number of getDirectionNumber.
Direction(n) == <<(n \div 9) - 1, ((n \div 3) % 3) - 1, (n % 3) - 1>>
Directions == 0..26
AllDirections == [k \in 1..27 |-> k - 1]
Still == 13

Shifted(c, n) == [i \in 1..3 |-> c[i] + Direction(n)[i]]

eucDistSq(c, d) == (c[1] - d[1]) * (c[1] - d[1]) + (c[2] - d[2]) * (c[2] - d[2])
                   + (c[3] - d[3]) * (c[3] - d[3])

Straight(n) == eucDistSq(Direction(n), Direction(Still)) = 1
Against(n, m) == \E i \in 1..3 : Direction(n)[i] * Direction(m)[i] < 0

\* Mutant: later, only the way it came.
NeighborhoodsForward == [D \in 0..1 |-> [n \in Directions |->
    Selected(AllDirections, {m \in Directions \ {Still} : D = 1 => Straight(m) /\ m = n})]]

\* initNeighborhoods: in the first bucket everywhere, later straight on.
neighborhoods == [D \in 0..1 |-> [n \in Directions |->
    Selected(AllDirections, {m \in Directions \ {Still} : D = 1 => Straight(m) /\ ~Against(n, m)})]]

\* The cells of the grid next to c in the directions of ns.
Around(c, ns) == Selected([k \in DOMAIN ns |-> Shifted(c, ns[k])], Cells)

\* The cells of a VoxelSet, in the order of compareInt3.
Listed(S) == LET cell(k) == <<k % Size[1], (k \div Size[1]) % Size[2], k \div (Size[1] * Size[2])>>
             IN Selected([k \in 1..Size[1] * Size[2] * Size[3] |-> cell(k - 1)], S)

-----------------------------------------------------------------------------
(* The operations *)

Blank == [dist |-> MaxSq, closest |-> <<None, None, None>>, dir |-> None]
Own(c, d) == [dist |-> d, closest |-> c, dir |-> Still]

\* Mutant: bucket_queue_.resize(max_distance_sq_).
NoBucketsOneLess == [i \in 0..MaxSq - 1 |-> <<>>]

NoBuckets == [i \in 0..MaxSq |-> <<>>]

\* The constructor, and the reset() every client begins with.
FieldInit ==
    /\ voxels = [c \in Cells |-> Blank]
    /\ object_voxel_locations = {} /\ bucket_queue = NoBuckets
    /\ drained = None /\ stack = <<>> /\ adding = {}
    /\ doing = "idle" /\ given = {} /\ gone = {} /\ made = 0 /\ before \in Before

Called == doing = "idle" /\ made < MaxCalls /\ made' = made + 1

\* The points that worldToGrid finds in the grid.
Valid(P) == P \cap Cells

\* addNewObstacleVoxels up to propogate(), in the field vs with the buckets bs.
AddNewObstacleVoxels(vs, bs, S) ==
    /\ voxels' = [c \in Cells |-> IF c \in S THEN Own(c, 0) ELSE vs[c]]
    /\ bucket_queue' = [bs EXCEPT ![0] = @ \o Listed(S)]
    /\ drained' = 0 /\ doing' = "propogate"

\* What there should be from now on is S; what was there and is not any more is gone.
Gives(S) == given' = S /\ gone' = gone \cup (given \ S)

\* The list of obstacles outlives the reset: what is on it is not added again.
ResetField ==
    /\ Called
    /\ voxels' = [c \in Cells |-> Blank]
    /\ Gives({})
    /\ UNCHANGED <<object_voxel_locations, bucket_queue, drained, stack, adding, doing, before>>

AddPointsToField(P) ==
    /\ Called
    /\ object_voxel_locations' = object_voxel_locations \cup Valid(P)
    /\ Gives(given \cup Valid(P))
    /\ AddNewObstacleVoxels(voxels, bucket_queue, Valid(P) \ object_voxel_locations)
    /\ UNCHANGED <<stack, adding, before>>

\* updatePointsInField(points, true) up to the loop of removeObstacleVoxels.
UpdateIteratively(P) ==
    LET removed == object_voxel_locations \ Valid(P) IN
    /\ Called
    /\ object_voxel_locations' = object_voxel_locations \cup Valid(P)
    /\ Gives(Valid(P))
    /\ adding' = Valid(P) \ object_voxel_locations
    /\ voxels' = [c \in Cells |-> IF c \in removed THEN Own(c, MaxSq) ELSE voxels[c]]
    /\ stack' = Listed(removed)
    /\ doing' = "remove"
    /\ UNCHANGED <<bucket_queue, drained, before>>

\* updatePointsInField(points, false)
UpdateFromScratch(P) ==
    /\ Called
    /\ object_voxel_locations' = object_voxel_locations \cup Valid(P)
    /\ given' = Valid(P) /\ gone' = (gone \cup given) \ Valid(P)
    /\ AddNewObstacleVoxels([c \in Cells |-> Blank], bucket_queue, Valid(P))
    /\ UNCHANGED <<stack, adding, before>>

\* Mutant: only the neighbours of what is removed lose their distance.
RemoveObstacleVoxelsNearby ==
    LET top == stack[Len(stack)]
        alive(c) == IF voxels[c].closest \in Cells THEN voxels[voxels[c].closest].dist = 0
                    ELSE before
        loses(c) == ~alive(c) /\ voxels[c].dist # MaxSq IN
    /\ doing = "remove" /\ stack # <<>>
    /\ \E near \in {Around(top, AllDirections)} :
       \E losing \in {Selected(near, {c \in ToSet(near) : loses(c)})} :
          /\ voxels' = [c \in Cells |-> IF c \in ToSet(losing) THEN Own(c, MaxSq) ELSE voxels[c]]
          /\ stack' = SubSeq(stack, 1, Len(stack) - 1)
          /\ bucket_queue' =
                [bucket_queue EXCEPT ![0] = @ \o Selected(near, {c \in ToSet(near) : alive(c)})]
    /\ UNCHANGED <<object_voxel_locations, drained, adding, doing, given, gone, made, before>>

\* Of the neighbours of the top of the stack, those whose closest point is no obstacle
\* any more lose their distance, and the others are put in the first bucket.  The closest
\* point of a voxel that no obstacle reached yet is (-1,-1,-1): what getCell reads for it
\* lies before the grid.
RemoveObstacleVoxels ==
    LET top == stack[Len(stack)]
        alive(c) == IF voxels[c].closest \in Cells THEN voxels[voxels[c].closest].dist = 0
                    ELSE before
        loses(c) == ~alive(c) /\ voxels[c].dist # MaxSq IN
    /\ doing = "remove" /\ stack # <<>>
    /\ \E near \in {Around(top, AllDirections)} :
       \E losing \in {Selected(near, {c \in ToSet(near) : loses(c)})} :
          /\ voxels' = [c \in Cells |-> IF c \in ToSet(losing) THEN Own(c, MaxSq) ELSE voxels[c]]
          /\ stack' = SubSeq(stack, 1, Len(stack) - 1) \o losing
          /\ bucket_queue' =
                [bucket_queue EXCEPT ![0] = @ \o Selected(near, {c \in ToSet(near) : alive(c)})]
    /\ UNCHANGED <<object_voxel_locations, drained, adding, doing, given, gone, made, before>>

RemovalPropogates ==
    /\ doing = "remove" /\ stack = <<>>
    /\ drained' = 0 /\ doing' = "propogate"
    /\ UNCHANGED <<voxels, object_voxel_locations, bucket_queue, stack, adding, given, gone, made, before>>

\* Whom a voxel of the bucket offers its obstacle to; nobody, when its direction is invalid.
OfferedBy(from) ==
    IF voxels[from].dir = None THEN <<>>
    ELSE Around(from, neighborhoods[IF drained = 0 THEN 0 ELSE 1][voxels[from].dir])

\* Mutant: new_distance_sq <= neighbor->distance_square_.
PropogateTies ==
    LET from == bucket_queue[drained][1]
        offer(c) == eucDistSq(voxels[from].closest, c)
        takes(c) == offer(c) <= MaxSq /\ offer(c) <= voxels[c].dist
        way(c) == CHOOSE n \in Directions : Shifted(from, n) = c
        offered(c) == [dist |-> offer(c), closest |-> voxels[from].closest, dir |-> way(c)] IN
    /\ doing = "propogate" /\ bucket_queue[drained] # <<>>
    /\ \E near \in {OfferedBy(from)} :
       \E taking \in {Selected(near, {c \in ToSet(near) : takes(c)})} :
          /\ voxels' = [c \in Cells |-> IF c \in ToSet(taking) THEN offered(c) ELSE voxels[c]]
          /\ bucket_queue' = [i \in 0..MaxSq |->
                 (IF i = drained THEN Tail(bucket_queue[i]) ELSE bucket_queue[i])
                 \o Selected(taking, {c \in ToSet(taking) : offer(c) = i})]
    /\ UNCHANGED <<object_voxel_locations, drained, stack, adding, doing, given, gone, made, before>>

\* propogate(), for one entry of the bucket it is at.
Propogate ==
    LET from == bucket_queue[drained][1]
        offer(c) == eucDistSq(voxels[from].closest, c)
        takes(c) == offer(c) <= MaxSq /\ offer(c) < voxels[c].dist
        way(c) == CHOOSE n \in Directions : Shifted(from, n) = c
        offered(c) == [dist |-> offer(c), closest |-> voxels[from].closest, dir |-> way(c)] IN
    /\ doing = "propogate" /\ bucket_queue[drained] # <<>>
    /\ \E near \in {OfferedBy(from)} :
       \E taking \in {Selected(near, {c \in ToSet(near) : takes(c)})} :
          /\ voxels' = [c \in Cells |-> IF c \in ToSet(taking) THEN offered(c) ELSE voxels[c]]
          /\ bucket_queue' = [i \in 0..MaxSq |->
                 (IF i = drained THEN Tail(bucket_queue[i]) ELSE bucket_queue[i])
                 \o Selected(taking, {c \in ToSet(taking) : offer(c) = i})]
    /\ UNCHANGED <<object_voxel_locations, drained, stack, adding, doing, given, gone, made, before>>

NextBucket ==
    /\ doing = "propogate" /\ bucket_queue[drained] = <<>> /\ drained < MaxSq
    /\ drained' = drained + 1
    /\ UNCHANGED <<voxels, object_voxel_locations, bucket_queue, stack, adding, doing, given, gone, made, before>>

\* An update goes on with the points it adds.
PropogateEnds ==
    /\ doing = "propogate" /\ bucket_queue[drained] = <<>> /\ drained = MaxSq
    /\ IF adding = {}
       THEN drained' = None /\ doing' = "idle" /\ UNCHANGED <<voxels, bucket_queue>>
       ELSE AddNewObstacleVoxels(voxels, bucket_queue, adding)
    /\ adding' = {}
    /\ UNCHANGED <<object_voxel_locations, stack, given, gone, made, before>>

Step == RemoveObstacleVoxels \/ RemovalPropogates \/ Propogate \/ NextBucket \/ PropogateEnds

FieldNext ==
    \/ ResetField \/ Step
    \/ \E P \in PointSets : AddPointsToField(P) \/ UpdateIteratively(P) \/ UpdateFromScratch(P)

FieldSpec == FieldInit /\ [][FieldNext]_fieldVars

-----------------------------------------------------------------------------
(* Correctness *)

VoxelType == [dist : 0..MaxSq, closest : CellOrNone, dir : Directions \cup {None}]

FieldTypeOK ==
    /\ voxels \in [Cells -> VoxelType]
    /\ object_voxel_locations \subseteq Cells /\ adding \subseteq Cells
    /\ given \subseteq Cells /\ gone \subseteq Cells
    /\ bucket_queue \in [0..MaxSq -> Seq(Cells)]
    /\ drained \in 0..MaxSq \cup {None}
    /\ stack \in Seq(Cells)
    /\ doing \in {"idle", "remove", "propogate"}
    /\ made \in 0..MaxCalls /\ before \in Before

\* The distance of a cell to the closest of the obstacles S, up to the largest one.
DistanceSq(c, S) ==
    LET within == {MaxSq} \cup {eucDistSq(c, d) : d \in S} IN
    CHOOSE m \in within : \A n \in within : m <= n

\* While the field has known at most two obstacles, their fronts meet once.  A third may
\* cut off another's: a voxel is then reached when its bucket has been drained, or not at all,
\* and what is left in a bucket may be offered when its obstacle is gone.
Few == Cardinality(object_voxel_locations) <= 2

\* What of the given obstacles the field has.  distance_field.h:96 promises all of them: "Use
\* the reset() function if you need to remove all points and start afresh".  Yet a point that
\* was taken away, by reset() too, stays in object_voxel_locations_ and is skipped when it is
\* added again; every caller resets and adds (collision_proximity_space.cpp:507, 529).
Kept == given \ gone

\* The test's check_distance_field: when a call returns, every voxel has the distance to the
\* closest of the obstacles there should be, but for those that were taken away once and came
\* back: these are missing, until an update from scratch, and nothing else is.
FieldIsExact ==
    doing = "idle" /\ Few => \A c \in Cells : voxels[c].dist = DistanceSq(c, Kept)

\* A distance below the largest is always the one to the voxel's closest point.
DistanceIsMeasured ==
    \A c \in Cells : voxels[c].dist < MaxSq =>
        voxels[c].closest \in Cells /\ voxels[c].dist = eucDistSq(c, voxels[c].closest)

\* The closest point of a voxel is an obstacle, whatever the client does: removal leaves
\* no distance behind, and propagation invents none, as long as fronts meet once.
NamesItsObstacle ==
    doing # "remove" /\ Few => \A c \in Cells : voxels[c].dist < MaxSq =>
        voxels[voxels[c].closest].dist = 0

\* However many obstacles there are, and whatever is removed around them: an obstacle that
\* was given and has not been taken away since is there.
ObstaclesAreThere ==
    doing = "idle" => \A c \in Kept : voxels[c].dist = 0

\* When a call returns the field is that of the obstacles it was given but for those that
\* returned (addPointsToField, reset, removeObstacleVoxels), for every client.
FieldIsSound == FieldIsExact /\ DistanceIsMeasured /\ NamesItsObstacle /\ ObstaclesAreThere

\* No voxel joins the bucket that is being drained, where push_back would move the
\* entries under the iterator, or one that was drained before, where nothing looks again
\* before the next call.
NeverJoinsDrained ==
    [][doing = "propogate" /\ drained' = drained /\ Few =>
          /\ bucket_queue'[drained] = Tail(bucket_queue[drained])
          /\ \A i \in 0..drained - 1 : bucket_queue'[i] = bucket_queue[i]]_fieldVars

=============================================================================
