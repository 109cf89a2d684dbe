---------------------------- MODULE ColliderProofs ----------------------------
(***************************************************************************)
(* Proofs about Collider for any grid, sensor model, sources and scenes: a *)
(* static map stays, and a cloud of the camera lowers what it sees to be   *)
(* empty and nothing that is hidden.                                       *)
(***************************************************************************)
EXTENDS Collider, TLAPS

-----------------------------------------------------------------------------
(* The octree *)

CellType == [odds : Low..High, age : 0..MaxUpdateTime + 1]
IsTree(t) == /\ t = [v \in DOMAIN t |-> t[v]] /\ DOMAIN t \subseteq Voxels
             /\ \A v \in DOMAIN t : t[v] \in CellType

\* An update stays between the clamping values; lowering what is above the lowest
\* lowers it, and raising never lowers.
LEMMA Clamped ==
    ASSUME NEW odds \in Low..High
    PROVE  /\ Lowered(odds) \in Low..High /\ Raised(odds) \in Low..High
           /\ Lowered(odds) <= odds /\ odds <= Raised(odds)
           /\ odds >= 0 => Lowered(odds) < odds
BY CellsAssumption, OddsAssumption DEF Lowered, Raised

\* What a scan makes of a cell.
LEMMA InsertScanFacts ==
    ASSUME NEW t, IsTree(t), NEW axis, NEW points
    PROVE  LET new == InsertScan(t, axis, points) IN
           /\ IsTree(new) /\ DOMAIN t \subseteq DOMAIN new
           /\ \A v \in DOMAIN t :
                 \/ v \in points /\ new[v].odds = Raised(t[v].odds)
                 \/ (\E p \in points : Ahead(axis, v, p)) /\ new[v].odds = Lowered(t[v].odds)
                 \/ new[v] = t[v]
<1> DEFINE near == {v \in Voxels : v[axis] <= MaxRange}
           hits == points \cap near
           misses == {v \in near : \E p \in points : Ahead(axis, v, p)} \ hits
           new == InsertScan(t, axis, points)
<1>1. new = [v \in DOMAIN t \cup hits \cup misses |->
                IF v \in hits THEN [odds |-> Raised(LogOdds(t, v)), age |-> 0]
                ELSE IF v \in misses THEN [odds |-> Lowered(LogOdds(t, v)), age |-> 0] ELSE t[v]]
  BY DEF InsertScan
<1>2. hits \subseteq Voxels /\ misses \subseteq Voxels OBVIOUS
<1>3. \A v \in misses : \E p \in points : Ahead(axis, v, p) OBVIOUS
<1> HIDE DEF new, near, misses
<1>4. \A v : LogOdds(t, v) \in Low..High
  BY OddsAssumption DEF LogOdds, IsTree, CellType
<1>5. \A v : Raised(LogOdds(t, v)) \in Low..High /\ Lowered(LogOdds(t, v)) \in Low..High
  BY <1>4, Clamped
<1>6. 0 \in 0..MaxUpdateTime + 1 BY CellsAssumption
<1>7. IsTree(new) BY <1>1, <1>2, <1>5, <1>6 DEF IsTree, CellType
<1>8. ASSUME NEW v \in DOMAIN t
      PROVE  \/ v \in points /\ new[v].odds = Raised(t[v].odds)
             \/ (\E p \in points : Ahead(axis, v, p)) /\ new[v].odds = Lowered(t[v].odds)
             \/ new[v] = t[v]
  BY <1>1, <1>3 DEF LogOdds
<1> QED BY <1>1, <1>7, <1>8 DEF new

\* What is degraded is lowered, and nothing else changes.
LEMMA IntegrateMissFacts ==
    ASSUME NEW t, IsTree(t), NEW S
    PROVE  LET new == IntegrateMissNoTime(t, S) IN
           /\ IsTree(new) /\ DOMAIN new = DOMAIN t
           /\ \A v \in DOMAIN t : new[v].odds = IF v \in S THEN Lowered(t[v].odds) ELSE t[v].odds
BY Clamped DEF IsTree, CellType, IntegrateMissNoTime

\* Both kinds of clouds leave an octree.
LEMMA ScansMakeTrees ==
    ASSUME IsTree(octree), NEW dropped
    PROVE  IsTree(CombinedScan(dropped)) /\ IsTree(PlainScan)
<1>1. \A axis, points : IsTree(InsertScan(octree, axis, points)) BY InsertScanFacts
<1>2. \A t, S : IsTree(t) => IsTree(IntegrateMissNoTime(t, S)) BY IntegrateMissFacts
<1> QED BY <1>1, <1>2 DEF CombinedScan, PlainScan, DegradeOutdatedRaw, DegradeSingleSpeckles

-----------------------------------------------------------------------------
(* Types *)

\* No step of any thread leaves a variable's type.
LEMMA TypeStep ==
    ASSUME TypeOK, IsTree(octree), [Next]_vars
    PROVE  TypeOK' /\ IsTree(octree)'
<1> USE DEF TypeOK, tree, setup, action, outside, NoCloud
<1>1. octree' = octree => IsTree(octree)' OBVIOUS
<1>2. IsTree(octree)' =>
          /\ DOMAIN octree' \subseteq Voxels
          /\ \A v \in DOMAIN octree' : octree'[v] \in [odds : Low..High, age : 0..MaxUpdateTime + 1]
  BY DEF IsTree, CellType
<1>3. Len(Entries) \in Nat BY EntriesAssumption
<1>4. ASSUME Construct PROVE TypeOK' /\ IsTree(octree)'
  <2>1. UNCHANGED <<tree, cb, camera, action, outside>> /\ listening \subseteq listening'
    BY <1>4 DEF Construct, Subscribe, StoreSettings, SkipEntry, StartServer
  <2>2. parsed' \in 0..Len(Entries)
    BY <1>3, <1>4 DEF Construct, Subscribe, StoreSettings, SkipEntry, StartServer
  <2>3. DOMAIN sources' \subseteq listening' /\ DOMAIN sources \subseteq DOMAIN sources' /\ serving' \in BOOLEAN
    BY <1>4 DEF Construct, Subscribe, StoreSettings, SkipEntry, StartServer
  <2> QED BY <1>1, <2>1, <2>2, <2>3
<1>5. ASSUME CameraInfo \/ NoTransform PROVE TypeOK' /\ IsTree(octree)'
  BY <1>1, <1>5 DEF CameraInfo, NoTransform
<1>6. ASSUME NEW n \in listening, NEW dropped, Cloud(n, dropped) PROVE TypeOK' /\ IsTree(octree)'
  <2>1. DOMAIN sources' = DOMAIN sources \cup {n} BY <1>6 DEF Cloud
  <2>2. cb' = NoCloud \/ cb'.name = n BY <1>6 DEF Cloud
  <2> QED BY <1>1, <1>6, <2>1, <2>2 DEF Cloud
<1>7. ASSUME CloudDone PROVE TypeOK' /\ IsTree(octree)'
  <2>1. IsTree(octree)' BY <1>7, ScansMakeTrees DEF CloudDone
  <2> QED BY <1>2, <1>7, <2>1 DEF CloudDone, ReadMeanwhile
<1>8. ASSUME Reset PROVE TypeOK' /\ IsTree(octree)'
  <2>1. DOMAIN octree' = {} /\ IsTree(octree)' BY <1>8 DEF Reset, IsTree
  <2> QED BY <1>2, <1>8, <2>1 DEF Reset, ReadMeanwhile
<1>9. ASSUME NEW b \in BOOLEAN, AttachedObject(b) PROVE TypeOK' /\ IsTree(octree)'
  BY <1>1, <1>9 DEF AttachedObject
<1>10. ASSUME Action PROVE TypeOK' /\ IsTree(octree)'
  <2>1. DOMAIN sources' = DOMAIN sources BY <1>10 DEF Action, Make, MakePublishes, MakeDone
  <2>2. topic' \in {"none", "dynamic", "static"} BY <1>10 DEF Action, Make, MakePublishes, MakeDone
  <2>3. making' \in {"idle", "reading", "published"} BY <1>10 DEF Action, Make, MakePublishes, MakeDone
  <2>4. staticMade' \in BOOLEAN BY <1>10 DEF Action, Make, MakePublishes, MakeDone
  <2>5. Publishes(Occupied(octree)) \in BOOLEAN BY DEF Publishes
  <2>6. found' \in BOOLEAN
    BY Zenon, <1>10, <2>5 DEF Action, Make, MakePublishes, MakeDone
  <2>7. UNCHANGED <<tree, parsed, listening, serving, camera, cb, alive>>
    BY <1>10 DEF Action, Make, MakePublishes, MakeDone
  <2> QED BY <1>1, <2>1, <2>2, <2>3, <2>4, <2>6, <2>7
<1>11. ASSUME Second PROVE TypeOK' /\ IsTree(octree)'
  <2>1. \A v \in DOMAIN octree : octree[v] \in CellType BY DEF IsTree
  <2>2. ASSUME NEW c \in CellType
        PROVE  [c EXCEPT !.age = IF c.age > MaxUpdateTime THEN c.age ELSE c.age + 1] \in CellType
    BY CellsAssumption DEF CellType
  <2>3. IsTree(octree)' BY <1>11, <2>1, <2>2 DEF Second, IsTree
  <2> QED BY <1>2, <1>11, <2>3 DEF Second
<1>12. ASSUME SceneChanges PROVE TypeOK' /\ IsTree(octree)' BY <1>1, <1>12 DEF SceneChanges
<1>13. ASSUME UNCHANGED vars PROVE TypeOK' /\ IsTree(octree)' BY <1>1, <1>13 DEF vars
<1> QED
  BY <1>4, <1>5, <1>6, <1>7, <1>8, <1>9, <1>10, <1>11, <1>12, <1>13 DEF Next, Spin, CloudComes

\* The constructor begins with an empty octree.
LEMMA InitTyped == Init => TypeOK /\ IsTree(octree)
<1> SUFFICES ASSUME Init PROVE TypeOK /\ IsTree(octree) OBVIOUS
<1>1. DOMAIN octree = {} /\ IsTree(octree) BY DEF Init, IsTree
<1>2. DOMAIN sources = {} BY DEF Init
<1>3. parsed \in 0..Len(Entries)
  <2>1. Len(Entries) \in Nat BY EntriesAssumption
  <2> QED BY <2>1 DEF Init
<1>4. attached \in BOOLEAN /\ serving \in BOOLEAN /\ camera \in BOOLEAN
  BY Zenon DEF Init
<1>5. staticMade \in BOOLEAN /\ alive \in BOOLEAN /\ found \in BOOLEAN
  BY Zenon DEF Init
<1>6. {attached, serving, camera, staticMade, alive} \subseteq BOOLEAN
  BY Zenon, <1>4, <1>5
<1>7. scene \in Scenes /\ cb = NoCloud /\ making = "idle" /\ topic = "none"
  BY DEF Init
<1> QED BY <1>1, <1>2, <1>3, <1>5, <1>6, <1>7 DEF TypeOK

\* The variables keep their types; the log-odds stay clamped.
THEOREM TypeCorrect == Spec => []TypeOK
<1>1. Init => TypeOK /\ IsTree(octree) BY InitTyped
<1>2. TypeOK /\ IsTree(octree) /\ [Next]_vars => TypeOK' /\ IsTree(octree)' BY TypeStep
<1> QED BY <1>1, <1>2, PTL DEF Spec

-----------------------------------------------------------------------------
(* The static map *)

\* Every entry the constructor is through with has its settings; of the one it is at, the
\* topic may be heard already.  Goals come after that.  Once one of them is answered, no
\* source publishes any more, nor does a callback that begins.
Silenced ==
    /\ parsed < Len(Entries) => /\ \A i \in 1..parsed : Entries[i].name \in DOMAIN sources
                                /\ listening \subseteq DOMAIN sources \cup {Entry.name}
                                /\ ~Entry.valid => listening \subseteq DOMAIN sources
    /\ parsed = Len(Entries) => listening \subseteq DOMAIN sources
    /\ serving => parsed = Len(Entries)
    /\ making # "idle" \/ staticMade => serving
    /\ publishOverDynamic =>
          /\ staticMade => \A n \in DOMAIN sources : ~sources[n]
          /\ cb.late => ~cb.dynamic

\* No step of the constructor, of a cloud or of a goal breaks that.
LEMMA SilencedStep ==
    ASSUME TypeOK, Silenced, [Next]_vars
    PROVE  Silenced'
<1> USE DEF TypeOK, Silenced, Entry, tree, setup, action, outside
<1>1. Len(Entries) \in Nat /\ parsed \in Nat /\ parsed <= Len(Entries) BY EntriesAssumption
<1>2. ASSUME Subscribe PROVE Silenced'
  BY <1>1, <1>2 DEF Subscribe
<1>3. ASSUME StoreSettings PROVE Silenced'
  <2>1. DOMAIN sources' = DOMAIN sources \cup {Entry.name} /\ parsed' = parsed + 1 /\ listening' = listening
    BY <1>3 DEF StoreSettings
  <2>2. ~serving /\ ~staticMade /\ making = "idle" /\ parsed < Len(Entries) BY <1>1, <1>3 DEF StoreSettings
  <2>3. listening' \subseteq DOMAIN sources' BY <2>1, <2>2
  <2>4. \A i \in 1..parsed' : Entries[i].name \in DOMAIN sources' BY <1>1, <2>1, <2>2
  <2> QED BY <1>3, <2>2, <2>3, <2>4 DEF StoreSettings
<1>4. ASSUME SkipEntry PROVE Silenced'
  <2>1. ~serving /\ ~staticMade /\ making = "idle" /\ parsed < Len(Entries) BY <1>1, <1>4 DEF SkipEntry
  <2>2. Entry.valid => Entry.name \in DOMAIN sources BY <1>4, <2>1 DEF SkipEntry, Known
  <2>3. listening \subseteq DOMAIN sources BY <2>1, <2>2
  <2>4. Entry.valid => \A i \in 1..parsed + 1 : Entries[i].name \in DOMAIN sources
    BY <1>1, <2>1, <2>2
  <2>5. UNCHANGED <<tree, listening, sources, serving, camera, cb, action, outside>>
        /\ parsed' = IF Entry.valid THEN parsed + 1 ELSE Len(Entries)
    BY <1>4 DEF SkipEntry
  <2> QED BY <1>1, <2>1, <2>3, <2>4, <2>5
<1>5. ASSUME StartServer PROVE Silenced' BY <1>5 DEF StartServer
<1>6. ASSUME CameraInfo PROVE Silenced' BY <1>6 DEF CameraInfo
<1>7. ASSUME NoTransform \/ CloudDone \/ Reset PROVE Silenced'
  BY <1>7 DEF NoTransform, CloudDone, Reset, NoCloud
<1>8. ASSUME NEW n \in listening, NEW dropped, Cloud(n, dropped) PROVE Silenced'
  <2>1. /\ DOMAIN sources' = DOMAIN sources \cup {n}
        /\ \A m \in DOMAIN sources : sources'[m] = sources[m]
    BY <1>8 DEF Cloud
  <2>2. UNCHANGED <<parsed, listening, serving, making, staticMade>> BY <1>8 DEF Cloud
  <2>3. cb'.late => staticMade /\ cb'.dynamic = sources'[n] BY <1>8 DEF Cloud, NoCloud
  <2>4. staticMade => DOMAIN sources' = DOMAIN sources BY <2>1
  <2> QED BY <2>1, <2>2, <2>3, <2>4
<1>9. ASSUME NEW b \in BOOLEAN, AttachedObject(b) PROVE Silenced' BY <1>9 DEF AttachedObject
<1>10. ASSUME Make \/ MakePublishes PROVE Silenced' BY <1>10 DEF Make, MakePublishes
<1>11. ASSUME MakeDone PROVE Silenced'
  <2>1. DOMAIN sources' = DOMAIN sources BY <1>11 DEF MakeDone
  <2>2. publishOverDynamic => \A n \in DOMAIN sources' : ~sources'[n] BY <1>11 DEF MakeDone
  <2> QED BY <1>11, <2>1, <2>2 DEF MakeDone
<1>12. ASSUME Second \/ SceneChanges \/ UNCHANGED vars PROVE Silenced'
  BY <1>12 DEF Second, SceneChanges, vars
<1> QED
  BY <1>2, <1>3, <1>4, <1>5, <1>6, <1>7, <1>8, <1>9, <1>10, <1>11, <1>12
  DEF Next, Construct, Spin, CloudComes, Action

\* Once a static map was made over the dynamic one, no cloud that is received from then on
\* replaces it, however the constructor, the clouds and the goals interleave.
THEOREM StaticMapIsKept == Spec => StaticMapStays
<1>1. Init => Silenced
  BY EntriesAssumption DEF Init, Silenced, NoCloud
<1>2. TypeOK /\ Silenced /\ [Next]_vars => Silenced' BY SilencedStep
<1>3. ASSUME Silenced, [Next]_vars
      PROVE  publishOverDynamic /\ cb.late => topic' \in {topic, "static"}
  BY <1>3
  DEF Silenced, Next, Construct, Subscribe, StoreSettings, SkipEntry, StartServer, Spin, CameraInfo, CloudComes, Cloud,
      NoTransform, CloudDone, Reset, AttachedObject, Action, Make, MakePublishes, MakeDone, Second, SceneChanges,
      outside, vars
<1>4. Silenced /\ [Next]_vars => [publishOverDynamic /\ cb.late => topic' \in {topic, "static"}]_vars
  BY <1>3
<1> QED BY <1>1, <1>2, <1>4, TypeCorrect, PTL DEF Spec, StaticMapStays

-----------------------------------------------------------------------------
(* What is seen and what is hidden *)

\* Cells have coordinates, and so have things.
LEMMA Geometry ==
    ASSUME TypeOK
    PROVE  /\ \A v \in Voxels : v[1] \in 1..Width /\ v[2] \in 1..Depth
           /\ Things \subseteq Voxels /\ Seen(CameraAxis) \subseteq Things /\ Masked \subseteq Things
           /\ \A dropped : Filtered(CameraAxis, dropped) \subseteq Seen(CameraAxis)
           /\ Slant \in [1..Width -> Nat]
BY ScenesAssumption, RaysAssumption DEF TypeOK, Voxels, Things, Seen, Masked, Filtered, SceneType

\* A cell with something before it that the camera sees, or knows, is no less occupied after
\* the camera's cloud.
LEMMA HiddenIsLeft ==
    ASSUME TypeOK, IsTree(octree), CloudDone, cb.axis = CameraAxis,
           NEW v \in OccupancyBBX(Voxels).occupied, NEW u \in Seen(CameraAxis), Ahead(CameraAxis, u, v),
           v[1] \notin cb.dropped \/ u \in Masked
    PROVE  v \in DOMAIN octree' /\ octree'[v].odds >= octree[v].odds
<1> DEFINE points == Filtered(CameraAxis, cb.dropped)
           scanned == InsertScan(octree, CameraAxis, points)
<1>1. v \in DOMAIN octree /\ v \in Voxels /\ octree[v].odds \in Low..High
  BY DEF OccupancyBBX, Occupied, IsTree, CellType
<1>2. IsTree(scanned) /\ v \in DOMAIN scanned
      /\ \/ scanned[v].odds = Raised(octree[v].odds)
         \/ \E p \in points : Ahead(CameraAxis, v, p)
         \/ scanned[v] = octree[v]
  BY <1>1, InsertScanFacts
<1>3. ~\E p \in points : Ahead(CameraAxis, v, p)
  <2> SUFFICES ASSUME NEW p \in points, Ahead(CameraAxis, v, p) PROVE FALSE
    OBVIOUS
  <2>1. p \in Seen(CameraAxis) /\ u \in Things /\ {u, v, p} \subseteq Voxels BY <1>1, Geometry
  <2>2. Ahead(CameraAxis, u, p) BY <2>1, Geometry DEF Ahead, CameraAxis
  <2> QED BY <2>1, <2>2 DEF Seen
<1>4. scanned[v].odds >= octree[v].odds
  BY <1>1, <1>2, <1>3, Clamped, OddsAssumption
<1>5. isOccludedRaw(v, cb.dropped) \/ InShadow(v)
  <2>1. u \in Voxels /\ v \in Voxels BY <1>1, Geometry
  <2>2. u[1] = v[1] /\ u[2] < v[2] /\ u[1] \in 1..Width /\ u[2] \in Nat /\ v[2] \in Nat
    BY <2>1, Geometry DEF Ahead, CameraAxis
  <2>3. u[2] - Slant[u[1]] < v[2] BY <2>2, RaysAssumption
  <2> QED BY <2>2, <2>3 DEF isOccludedRaw, InShadow
<1> HIDE DEF scanned, points
<1>6. octree' = DegradeOutdatedRaw(scanned, cb.dropped)
  BY DEF CloudDone, CombinedScan, scanned, points
<1>7. v \in DOMAIN octree' /\ octree'[v].odds = scanned[v].odds
  BY <1>2, <1>5, <1>6, IntegrateMissFacts DEF DegradeOutdatedRaw
<1> QED BY <1>4, <1>7

\* An outdated cell that the camera looks through is less occupied after its cloud.
LEMMA GhostIsLowered ==
    ASSUME TypeOK, IsTree(octree), CloudDone, cb.axis = CameraAxis,
           NEW v \in OccupancyBBX(Voxels).occupied, octree[v].age > MaxUpdateTime, LooksThrough(v)
    PROVE  octree'[v].odds < octree[v].odds
<1> DEFINE points == Filtered(CameraAxis, cb.dropped)
           scanned == InsertScan(octree, CameraAxis, points)
<1>1. v \in DOMAIN octree /\ v \in Voxels /\ octree[v].odds \in Low..High /\ octree[v].odds >= 0
  BY DEF OccupancyBBX, Occupied, IsTree, CellType
<1>2. v \notin Things BY <1>1, Geometry DEF LooksThrough
<1>3. v \notin points BY <1>2, Geometry
<1>4. IsTree(scanned) /\ v \in DOMAIN scanned
      /\ (scanned[v].odds = Lowered(octree[v].odds) \/ scanned[v] = octree[v])
  BY <1>1, <1>3, InsertScanFacts
<1>5. ~isOccludedRaw(v, cb.dropped) /\ ~InShadow(v)
  <2>1. \A u \in Things : u[1] = v[1] => u[2] > v[2] /\ u[2] \in Nat /\ v[2] \in Nat
    BY <1>1, Geometry DEF LooksThrough
  <2>2. \A u \in Seen(CameraAxis) \cup Masked : u \in Things BY Geometry
  <2>3. Slant[v[1]] = 0 BY DEF LooksThrough
  <2>4. ~InShadow(v)
    <3> SUFFICES ASSUME NEW u \in Masked, Ahead(CameraAxis, u, v) PROVE FALSE
      BY DEF InShadow
    <3>1. u[1] = v[1] /\ u[2] < v[2] BY DEF Ahead, CameraAxis
    <3> QED BY <2>1, <2>2, <3>1
  <2>5. ~isOccludedRaw(v, cb.dropped)
    <3> SUFFICES ASSUME NEW u \in Seen(CameraAxis), u[1] = v[1], u[2] - Slant[u[1]] < v[2] PROVE FALSE
      BY DEF isOccludedRaw
    <3> QED BY <2>1, <2>2, <2>3
  <2> QED BY <2>4, <2>5
<1> HIDE DEF scanned, points
<1>6. octree' = IntegrateMissNoTime(scanned, {w \in BBX \cap Occupied(scanned) :
          /\ scanned[w].age > MaxUpdateTime
          /\ inSensorCone(w) /\ ~isOccludedRaw(w, cb.dropped) /\ ~InShadow(w)})
  BY DEF CloudDone, CombinedScan, DegradeOutdatedRaw, scanned, points
<1>7. scanned[v].odds \in Low..High BY <1>4 DEF IsTree, CellType
<1>8. Lowered(octree[v].odds) < octree[v].odds /\ Lowered(octree[v].odds) \in Low..High BY <1>1, Clamped
<1>9. CASE scanned[v].odds = Lowered(octree[v].odds)
  <2>1. octree'[v].odds \in {Lowered(scanned[v].odds), scanned[v].odds} BY <1>4, <1>6, IntegrateMissFacts
  <2>2. Lowered(scanned[v].odds) <= scanned[v].odds /\ Lowered(scanned[v].odds) \in Low..High BY <1>7, Clamped
  <2> QED BY <1>1, <1>7, <1>8, <1>9, <2>1, <2>2, OddsAssumption
<1>10. CASE scanned[v] = octree[v]
  <2>1. v \in BBX \cap Occupied(scanned) /\ scanned[v].age > MaxUpdateTime /\ inSensorCone(v)
    BY <1>1, <1>4, <1>10 DEF LooksThrough, Occupied
  <2>2. octree'[v].odds = Lowered(scanned[v].odds) BY <1>4, <1>5, <1>6, <2>1, IntegrateMissFacts
  <2> QED BY <1>8, <1>10, <2>2
<1> QED BY <1>4, <1>9, <1>10

\* A cloud of the camera leaves what is hidden from it as sure as it was, and lowers outdated
\* cells that it looks through, also on rays without an answer.
THEOREM SeenIsLoweredOnly == Spec => SeenIsLowered
<1>1. Init => TypeOK /\ IsTree(octree) BY InitTyped
<1>2. TypeOK /\ IsTree(octree) /\ [Next]_vars => TypeOK' /\ IsTree(octree)' BY TypeStep
<1>3. TypeOK /\ IsTree(octree) =>
          [\A v \in OccupancyBBX(Voxels).occupied :
              (/\ CloudDone /\ cb.axis = CameraAxis
               /\ \E u \in Seen(CameraAxis) : Ahead(CameraAxis, u, v) /\ (v[1] \notin cb.dropped \/ u \in Masked))
              => v \in DOMAIN octree' /\ octree'[v].odds >= octree[v].odds]_vars
  BY HiddenIsLeft
<1>4. TypeOK /\ IsTree(octree) =>
          [\A v \in OccupancyBBX(Voxels).occupied :
              CloudDone /\ cb.axis = CameraAxis /\ octree[v].age > MaxUpdateTime /\ LooksThrough(v)
              => octree'[v].odds < octree[v].odds]_vars
  BY GhostIsLowered
<1> QED BY <1>1, <1>2, <1>3, <1>4, PTL DEF Spec, SeenIsLowered, HiddenStays, GhostFades

=============================================================================
