------------------------- MODULE PlanningSceneEditor -------------------------
(***************************************************************************)
(* move_arm_utils.cpp and planning_scene_warehouse_viewer.cpp: the editor  *)
(* of planning scenes.  It holds the scenes it knows of, and the motion    *)
(* plan requests and trajectories of the one it works on; it reads them    *)
(* from the warehouse and writes them back.  Requests and trajectories are *)
(* found by name, a name is an identifier, and an identifier is one more   *)
(* than the largest in use.  While the arm executes a trajectory, the      *)
(* editor records what it does, under the request's name.                  *)
(***************************************************************************)
EXTENDS Integers, Sequences, FiniteSets, FiniteSetsExt, TLC

CONSTANTS
    SceneIds,       \* identifiers of planning scenes (bound)
    RequestIds,     \* identifiers of motion plan requests (bound)
    TrajectoryIds,  \* identifiers of trajectories (bound)
    JunkIds,        \* what an identifier that was never set may hold (bound)
    Arms,           \* the arm groups, each with a controller client
    ArmOf,          \* the group of every request
    Modes           \* the sessions: what the user may do, and its bounds

ASSUME IdsAssumption == /\ SceneIds \subseteq Nat
                        /\ RequestIds \subseteq Nat
                        /\ TrajectoryIds \subseteq Nat /\ JunkIds \subseteq TrajectoryIds
                        /\ 0 \in SceneIds \cap RequestIds /\ IsFiniteSet(RequestIds)
ASSUME ArmOfAssumption == ArmOf \in [RequestIds -> Arms]
ASSUME ModesAssumption ==
    Modes \subseteq [robot : BOOLEAN,       \* use_robot_data_: trajectories can be executed
                     foreign : BOOLEAN,     \* the warehouse holds a scene from another host
                     careless : BOOLEAN,    \* scenes are saved or copied that the editor no
                                            \* longer holds, and the current one is removed
                     busy : BOOLEAN,        \* the user goes on while the arm moves
                     fails : BOOLEAN,       \* the planner and the filter may not answer
                     documents : Nat,       \* bound on the documents a save may leave
                     plans : Nat]           \* bound on the trajectories made for a request

None == -1                  \* the empty name
Here == "here"              \* this host
Hosts == {Here, "elsewhere", "nowhere"}

VARIABLES
    warehouse,      \* the stored scenes in the order they were pushed, each with its
                    \* requests and the trajectories of each
    editor,         \* planning_scene_map_, current_planning_scene_name_,
                    \* motion_plan_map_ and trajectory_map_
    dialog,         \* load_planning_scene_dialog_: closed, loading its table, or open
    loadedOnce,     \* warehouse_data_loaded_once_
    initialized,    \* planning_scene_initialized_
    running,        \* the arms whose controllers have yet to call back
    monitor,        \* monitor_status_
    logged,         \* logged_motion_plan_request_
    work,           \* history: the requests of the current scene that the user has
                    \* loaded or made, and not deleted
    whole,          \* history: the current scene was loaded whole, and the table has
                    \* not been loaded since
    mode            \* the session, for good

vars == <<warehouse, editor, dialog, loadedOnce, initialized, running, monitor, logged,
          work, whole, mode>>
arm == <<running, monitor, logged>>

Empty == <<>>
Largest(S) == Max(S \cup {-1})

-----------------------------------------------------------------------------
(* The maps *)

\* PlanningSceneData(): identifier 0, no host.
BlankScene == [id |-> 0, host |-> "nowhere", requests |-> {}]

\* MotionPlanRequestData(): without a name, its identifier not initialized.
BlankRequest == [named |-> FALSE, trajs |-> {}]

NewRequest == [named |-> TRUE, trajs |-> {}]

Put(map, key, value) == [k \in DOMAIN map \cup {key} |-> IF k = key THEN value ELSE map[k]]

\* operator[] of a map inserts what it does not find.
Found(map, key, blank) ==
    [k \in DOMAIN map \cup {key} |-> IF k \in DOMAIN map THEN map[k] ELSE blank]

Named(e) == {r \in DOMAIN e.requests : e.requests[r].named}

Without(map, keys) == [k \in DOMAIN map \ keys |-> map[k]]

\* A trajectory_map_ entry goes when its last trajectory does.
Remaining(map, gone) ==
    [k \in {r \in DOMAIN map : map[r] \ gone[r] # {}} |-> map[k] \ gone[k]]

NextId(ids) == Largest(ids) + 1

-----------------------------------------------------------------------------
(* The warehouse *)

StoredIds(w) == {w[i].scene : i \in DOMAIN w}

Stored(w, s) == {i \in DOMAIN w : w[i].scene = s}

\* A mutant: a scene that is there already is pushed beside itself.
RemovedNever(w, host, s) == w

\* removePlanningSceneAndAssociatedDataFromWarehouse
Removed(w, host, s) ==
    LET left[i \in 0..Len(w)] ==
            IF i = 0 THEN Empty
            ELSE IF w[i].scene = s /\ w[i].host = host THEN left[i - 1]
            ELSE Append(left[i - 1], w[i])
    IN  left[Len(w)]

\* determineNextPlanningSceneId
NextSceneId(w) == NextId(StoredIds(w))

\* Those of a scene's documents that hold request r, and its trajectories in them.
Holding(w, s, r) == {i \in Stored(w, s) : r \in DOMAIN w[i].requests}
TrajectoriesOf(w, s, r) == UNION {w[i].requests[r] : i \in Holding(w, s, r)}

Document(e, s) ==
    LET listed == e.scenes[e.current].requests IN
    [scene |-> s, host |-> Here,
     requests |-> [r \in listed |-> Found(e.requests, r, BlankRequest)[r].trajs]]

-----------------------------------------------------------------------------
(* What the operations do to the editor *)

\* A mutant: the request goes, its trajectories stay.
RequestsDeletedOnly(e, rs) ==
    LET scenes == IF rs = {} THEN e.scenes ELSE Found(e.scenes, e.current, BlankScene) IN
    [e EXCEPT !.requests = Without(@, rs),
              !.scenes = IF rs = {} THEN @ ELSE [scenes EXCEPT ![e.current].requests = @ \ rs]]

\* A mutant: the scene still lists the request.
RequestsDeletedStillListed(e, rs) ==
    LET listed == [k \in DOMAIN e.trajectories |-> IF k \in rs THEN e.requests[k].trajs ELSE {}] IN
    [e EXCEPT !.requests = Without(@, rs),
              !.trajectories = Remaining(@, listed)]

\* deleteMotionPlanRequest with its deleteTrajectory calls, for every r in rs.
RequestsDeleted(e, rs) ==
    LET listed == [k \in DOMAIN e.trajectories |-> IF k \in rs THEN e.requests[k].trajs ELSE {}]
        scenes == IF rs = {} THEN e.scenes ELSE Found(e.scenes, e.current, BlankScene) IN
    [e EXCEPT !.requests = Without(@, rs),
              !.trajectories = Remaining(@, listed),
              !.scenes = IF rs = {} THEN @ ELSE [scenes EXCEPT ![e.current].requests = @ \ rs]]

\* setCurrentPlanningScene.  The old requests are deleted while the old scene still is
\* current.  A request met a second time among the scene's documents is deleted before
\* it is put back: the scene no longer lists it.
CurrentSet(e, w, s, withRequests, withTrajectories) ==
    LET left == RequestsDeleted(e, Named(e))
        ids == IF withRequests THEN {r \in RequestIds : Holding(w, s, r) # {}} ELSE {}
        twice == {r \in ids : Cardinality(Holding(w, s, r)) > 1}
        trajs(r) == IF withTrajectories THEN TrajectoriesOf(w, s, r) ELSE {}
        orphans(k) == IF k \in DOMAIN left.trajectories THEN left.trajectories[k] ELSE {} IN
    IF s \notin DOMAIN e.scenes THEN e
    ELSE [scenes |-> [left.scenes EXCEPT ![s].requests = (@ \cup ids) \ twice],
          current |-> s,
          requests |-> [r \in ids |-> [named |-> TRUE, trajs |-> trajs(r)]],
          trajectories |->
              [k \in DOMAIN left.trajectories \cup {r \in ids : trajs(r) # {}} |->
                  orphans(k) \cup (IF k \in ids THEN trajs(k) ELSE {})]]

\* createNewPlanningScene
SceneCreated(e, w) ==
    LET n == NextSceneId(w) IN
    [e EXCEPT !.scenes = Put(@, n, [id |-> n, host |-> Here, requests |-> {}])]

\* savePlanningScene(data, true): the copy keeps the host of its original.
SceneCopied(e, n) ==
    [e EXCEPT !.scenes = Put(@, n, [e.scenes[e.current] EXCEPT !.id = n])]

CurrentFound(e) == [e EXCEPT !.scenes = Found(@, e.current, BlankScene)]

\* savePlanningScene(planning_scene_map_[current], false)
SavedTo(e, w) ==
    LET data == e.scenes[e.current] IN
    Append(Removed(w, data.host, data.id), Document(e, data.id))

MaySave(e) == mode.careless \/ e.current \in DOMAIN e.scenes

\* Bound.
Fits(w) == Len(w) <= mode.documents /\ StoredIds(w) \subseteq SceneIds

-----------------------------------------------------------------------------
(* The load dialog and the file menu: the window's thread *)

Idle == monitor = "idle" /\ running = {}
Calm == mode.busy \/ Idle

Init ==
    /\ mode \in Modes
    /\ warehouse \in {Empty} \cup
           {<<[scene |-> 0, host |-> h, requests |-> [r \in {0} |-> {0}]]>> :
               h \in IF mode.foreign THEN {"elsewhere"} ELSE {Here}}
    /\ editor = [scenes |-> Empty, current |-> None, requests |-> Empty, trajectories |-> Empty]
    /\ dialog = "loading" /\ loadedOnce = FALSE /\ initialized = FALSE
    /\ running = {} /\ monitor = "idle" /\ logged = None
    /\ work = {} /\ whole = FALSE

\* popupLoadPlanningScenes: a table that a save has made stale is loaded anew.
OpenLoadDialog ==
    /\ dialog = "closed"
    /\ dialog' = IF loadedOnce THEN "open" ELSE "loading"
    /\ UNCHANGED <<warehouse, editor, loadedOnce, initialized, arm, work, whole, mode>>

RefreshButtonPressed ==
    /\ dialog = "open"
    /\ dialog' = "loading"
    /\ UNCHANGED <<warehouse, editor, loadedOnce, initialized, arm, work, whole, mode>>

\* createPlanningSceneTable on the table's thread: loadAllWarehouseData empties every map.
TableLoads ==
    /\ dialog = "loading" /\ Calm
    /\ editor' = [editor EXCEPT
           !.scenes = [s \in StoredIds(warehouse) |->
                          [id |-> s, host |-> warehouse[Min(Stored(warehouse, s))].host, requests |-> {}]],
           !.requests = Empty, !.trajectories = Empty]
    /\ loadedOnce' = TRUE /\ dialog' = "open"
    /\ whole' = FALSE
    /\ UNCHANGED <<warehouse, initialized, arm, work, mode>>

CloseDialog ==
    /\ dialog = "open"
    /\ dialog' = "closed"
    /\ UNCHANGED <<warehouse, editor, loadedOnce, initialized, arm, work, whole, mode>>

\* The user works on another scene from here on.
Begins(all) ==
    /\ work' = Named(editor')
    /\ whole' = all
    /\ initialized' = TRUE
    /\ dialog' = "closed"

LoadScene(s, saveFirst, withRequests, withTrajectories) ==
    LET e == IF saveFirst THEN CurrentFound(editor) ELSE editor
        w == IF saveFirst THEN SavedTo(e, warehouse) ELSE warehouse IN
    /\ dialog = "open" /\ Calm
    /\ s \in DOMAIN editor.scenes \cap StoredIds(warehouse)
    /\ saveFirst => initialized /\ MaySave(editor)
    /\ saveFirst => Fits(w)
    /\ warehouse' = w
    /\ loadedOnce' = (loadedOnce /\ ~saveFirst)
    /\ editor' = CurrentSet(e, w, s, withRequests, withTrajectories)
    /\ Begins(withRequests /\ withTrajectories)
    /\ UNCHANGED <<arm, mode>>

\* createNewPlanningSceneConfirm.  After a save it creates the scene a second time, with
\* the same identifier, which changes nothing.
NewScene(saveFirst) ==
    LET e == IF saveFirst THEN CurrentFound(editor) ELSE editor
        w == IF saveFirst THEN SavedTo(e, warehouse) ELSE warehouse
        n == NextSceneId(w) IN
    /\ dialog # "loading" /\ Calm
    /\ saveFirst => initialized /\ MaySave(editor)
    /\ saveFirst => Fits(w)
    /\ n \in SceneIds
    /\ warehouse' = w
    /\ loadedOnce' = (loadedOnce /\ ~saveFirst)
    /\ editor' = CurrentSet(SceneCreated(e, w), w, n, TRUE, TRUE)
    /\ Begins(TRUE)
    /\ UNCHANGED <<arm, mode>>

SaveScene ==
    LET e == CurrentFound(editor) IN
    /\ dialog = "closed" /\ Calm /\ MaySave(editor)
    /\ Fits(SavedTo(e, warehouse))
    /\ editor' = e
    /\ warehouse' = SavedTo(e, warehouse)
    /\ loadedOnce' = FALSE
    /\ UNCHANGED <<dialog, initialized, arm, work, whole, mode>>

CopyScene ==
    LET n == NextSceneId(warehouse)
        copied == SceneCopied(CurrentFound(editor), n)
        w == Append(warehouse, Document(copied, n)) IN
    /\ dialog = "closed" /\ Calm /\ MaySave(editor)
    /\ Fits(w)
    /\ warehouse' = w
    /\ loadedOnce' = FALSE
    /\ editor' = CurrentSet(copied, w, n, TRUE, TRUE)
    /\ work' = Named(editor')
    /\ UNCHANGED <<dialog, initialized, arm, whole, mode>>

RemoveScene(s) ==
    LET data == editor.scenes[s] IN
    /\ dialog = "open"
    /\ s \in DOMAIN editor.scenes \cap StoredIds(warehouse)
    /\ mode.careless \/ s # editor.current
    /\ warehouse' = Removed(warehouse, data.host, data.id)
    /\ editor' = [editor EXCEPT !.scenes = Without(@, {s})]
    /\ UNCHANGED <<dialog, loadedOnce, initialized, arm, work, whole, mode>>

-----------------------------------------------------------------------------
(* Requests and trajectories: the window's thread, or the markers' *)

\* createNewMotionPlanRequest, createMotionPlanRequest
CreateRequest ==
    LET e == CurrentFound(editor)
        id == NextId(e.scenes[e.current].requests) IN
    /\ dialog = "closed" /\ Calm
    /\ editor.current # None /\ MaySave(editor)
    /\ id \in RequestIds
    /\ editor' = [e EXCEPT !.requests = Put(@, id, NewRequest),
                           !.scenes[e.current].requests = @ \cup {id}]
    /\ work' = work \cup {id}
    /\ UNCHANGED <<warehouse, dialog, loadedOnce, initialized, arm, whole, mode>>

DeleteRequest(r) ==
    /\ dialog # "loading" /\ Calm
    /\ r \in Named(editor)
    /\ editor' = RequestsDeleted(editor, {r})
    /\ work' = work \ {r}
    /\ UNCHANGED <<warehouse, dialog, loadedOnce, initialized, arm, whole, mode>>

\* A mutant: it gets the largest identifier in use, not the next.
AddedLast(e, key) ==
    LET requests == Found(e.requests, key, BlankRequest)
        t == Largest(requests[key].trajs)
        name == IF requests[key].named THEN key ELSE None IN
    [e EXCEPT !.requests = [requests EXCEPT ![key].trajs = @ \cup {t}],
              !.trajectories = [Found(@, name, {}) EXCEPT ![name] = @ \cup {t}]]

\* addTrajectoryId on the entry for key, and the trajectory under the entry's name.
Added(e, key) ==
    LET requests == Found(e.requests, key, BlankRequest)
        t == NextId(requests[key].trajs)
        name == IF requests[key].named THEN key ELSE None
        filed == Found(e.trajectories, name, {}) IN
    [e EXCEPT !.requests = [requests EXCEPT ![key].trajs = @ \cup {t}],
              !.trajectories = [filed EXCEPT ![name] = @ \cup {t}]]

\* planToRequest or filterTrajectory, when the service answers.
Produce(r) ==
    /\ dialog # "loading" /\ Calm
    /\ r \in Named(editor)
    /\ Cardinality(editor.requests[r].trajs) < mode.plans
    /\ NextId(editor.requests[r].trajs) < mode.plans
    /\ editor' = Added(editor, r)
    /\ UNCHANGED <<warehouse, dialog, loadedOnce, initialized, arm, work, whole, mode>>

\* The service does not answer: the identifier of the trajectory that is selected and
\* played next was never set, and the look-up inserts it.
ProduceFails(r, junk) ==
    /\ dialog # "loading" /\ Calm /\ mode.fails
    /\ r \in Named(editor)
    /\ LET filed == Found(editor.trajectories, r, {}) IN
       editor' = [editor EXCEPT !.trajectories = [filed EXCEPT ![r] = @ \cup {junk}]]
    /\ UNCHANGED <<warehouse, dialog, loadedOnce, initialized, arm, work, whole, mode>>

DeleteTrajectory(r, t) ==
    LET only == [k \in DOMAIN editor.trajectories |-> IF k = r THEN {t} ELSE {}] IN
    /\ dialog # "loading" /\ Calm
    /\ r \in Named(editor) \cap DOMAIN editor.trajectories
    /\ t \in editor.requests[r].trajs \cap editor.trajectories[r]
    /\ editor' = [editor EXCEPT !.requests[r].trajs = @ \ {t},
                                !.trajectories = Remaining(@, only)]
    /\ UNCHANGED <<warehouse, dialog, loadedOnce, initialized, arm, work, whole, mode>>

-----------------------------------------------------------------------------
(* Executing and recording: the controllers' callbacks take no lock *)

\* Bound: every callback to come finds an identifier.
RoomToRecord(e, r) ==
    \A k \in DOMAIN e.requests \cup {None} :
        LET ids == Found(e.requests, k, BlankRequest)[k].trajs IN
        NextId(ids) + Cardinality(running \cup {ArmOf[r]}) \in TrajectoryIds

\* A mutant: what is recorded has no request.
ExecuteUnlogged(r, t) ==
    /\ dialog # "loading" /\ Calm /\ mode.robot
    /\ r \in Named(editor) \cap DOMAIN editor.trajectories
    /\ t \in editor.requests[r].trajs \cap editor.trajectories[r]
    /\ RoomToRecord(editor, r)
    /\ running' = running \cup {ArmOf[r]}
    /\ monitor' = "Executing"
    /\ UNCHANGED <<warehouse, editor, dialog, loadedOnce, initialized, logged, work, whole, mode>>

\* A client forgets the goal it had when it is given another.
Execute(r, t) ==
    /\ dialog # "loading" /\ Calm /\ mode.robot
    /\ r \in Named(editor) \cap DOMAIN editor.trajectories
    /\ t \in editor.requests[r].trajs \cap editor.trajectories[r]
    /\ RoomToRecord(editor, r)
    /\ running' = running \cup {ArmOf[r]}
    /\ logged' = r
    /\ monitor' = "Executing"
    /\ UNCHANGED <<warehouse, editor, dialog, loadedOnce, initialized, work, whole, mode>>

\* controllerDoneCallback, on the client's thread
ControllerDone(a) ==
    /\ a \in running
    /\ running' = running \ {a}
    /\ editor' = Added(editor, logged)
    /\ monitor' = "WaitingForStop"
    /\ UNCHANGED <<warehouse, dialog, loadedOnce, initialized, logged, work, whole, mode>>

\* A mutant: it waits on.
ArmHasStoppedStaysWaiting ==
    /\ monitor = "WaitingForStop"
    /\ editor' = Added(editor, logged)
    /\ logged' = None
    /\ UNCHANGED <<warehouse, dialog, loadedOnce, initialized, running, monitor, work, whole, mode>>

\* jointTrajectoryControllerStateCallback, armHasStoppedMoving
ArmHasStoppedMoving ==
    /\ monitor = "WaitingForStop"
    /\ editor' = Added(editor, logged)
    /\ logged' = None
    /\ monitor' = "idle"
    /\ UNCHANGED <<warehouse, dialog, loadedOnce, initialized, running, work, whole, mode>>

Recording == ArmHasStoppedMoving \/ \E a \in Arms : ControllerDone(a)

Editing == \/ CreateRequest
           \/ \E r \in RequestIds :
                 \/ DeleteRequest(r) \/ Produce(r)
                 \/ \E junk \in JunkIds : ProduceFails(r, junk)
                 \/ \E t \in TrajectoryIds : DeleteTrajectory(r, t) \/ Execute(r, t)

Filing == \/ OpenLoadDialog \/ RefreshButtonPressed \/ TableLoads \/ CloseDialog
          \/ SaveScene \/ CopyScene
          \/ \E s \in SceneIds, first, requests, trajs \in BOOLEAN :
                LoadScene(s, first, requests, trajs)
          \/ \E first \in BOOLEAN : NewScene(first)
          \/ \E s \in SceneIds : RemoveScene(s)

Next == Recording \/ Editing \/ Filing

Spec == Init /\ [][Next]_vars

\* An arm's action ends, and the arm comes to rest.
FairSpec == Spec /\ WF_vars(ArmHasStoppedMoving) /\ \A a \in Arms : WF_vars(ControllerDone(a))

-----------------------------------------------------------------------------
(* Correctness *)

RequestData == [named : BOOLEAN, trajs : SUBSET Nat]
SceneData == [id : SceneIds, host : Hosts, requests : SUBSET RequestIds]

TypeOK ==
    /\ \A i \in DOMAIN warehouse :
          /\ warehouse[i].scene \in SceneIds /\ warehouse[i].host \in Hosts
          /\ DOMAIN warehouse[i].requests \subseteq RequestIds
          /\ \A r \in DOMAIN warehouse[i].requests :
                warehouse[i].requests[r] \subseteq Nat
    /\ DOMAIN editor = {"scenes", "current", "requests", "trajectories"}
    /\ DOMAIN editor.scenes \subseteq SceneIds \cup {None}
    /\ \A s \in DOMAIN editor.scenes : editor.scenes[s] \in SceneData
    /\ editor.current \in SceneIds \cup {None}
    /\ DOMAIN editor.requests \subseteq RequestIds \cup {None}
    /\ \A r \in DOMAIN editor.requests : editor.requests[r] \in RequestData
    /\ DOMAIN editor.trajectories \subseteq RequestIds \cup {None}
    /\ \A r \in DOMAIN editor.trajectories : editor.trajectories[r] \in SUBSET Nat
    /\ dialog \in {"closed", "loading", "open"}
    /\ loadedOnce \in BOOLEAN /\ initialized \in BOOLEAN /\ whole \in BOOLEAN
    /\ running \in SUBSET Arms
    /\ monitor \in {"idle", "Executing", "WaitingForStop"}
    /\ logged \in RequestIds \cup {None}
    /\ work \in SUBSET RequestIds
    /\ mode \in Modes

\* The requests the current scene lists are in motion_plan_map_ under their names, and each
\* request's trajectories are in trajectory_map_: a save that follows the lists writes nothing
\* that an operator[] has just made up.  Only the current scene lists requests: their
\* identifiers mean nothing in another.
ListsMatchMaps ==
    /\ editor.current \in DOMAIN editor.scenes =>
          editor.scenes[editor.current].requests \subseteq Named(editor)
    /\ \A r \in Named(editor) :
          editor.requests[r].trajs \subseteq Found(editor.trajectories, r, {})[r]
    /\ \A s \in DOMAIN editor.scenes : editor.scenes[s].requests # {} => s = editor.current

\* While the user leaves the editor alone until the arm is at rest, whatever is recorded
\* is recorded under a request that exists.
RecordedUnderARequest ==
    ~mode.busy => /\ None \notin DOMAIN editor.trajectories
                  /\ DOMAIN editor.requests = Named(editor)

\* The editor's lists name nothing that its maps lack, and nothing is filed under what is gone
\* (setCurrentPlanningScene, deleteMotionPlanRequest, controllerDoneCallback).
EditorAgrees == ListsMatchMaps /\ RecordedUnderARequest

\* Conversely, a save that follows the lists leaves nothing out; and, while services answer
\* and the arm is left to stop, nothing else is in trajectory_map_, where a later request of
\* the same name would find it.
MapsMatchLists ==
    /\ editor.current \in DOMAIN editor.scenes /\ ~mode.foreign /\ ~mode.careless =>
          Named(editor) \subseteq editor.scenes[editor.current].requests
    /\ ~mode.fails /\ ~mode.busy /\ ~mode.foreign /\ ~mode.careless =>
          \A k \in DOMAIN editor.trajectories :
             k \in Named(editor) /\ editor.trajectories[k] = editor.requests[k].trajs

\* The warehouse has one document for a scene, if every scene is this host's and what is
\* saved is what the editor holds: a save replaces, and a new identifier is new.
OneDocumentPerScene ==
    ~mode.foreign /\ ~mode.careless =>
        \A s \in SceneIds : Cardinality(Stored(warehouse, s)) <= 1

Held(w, s) == {r \in RequestIds : Holding(w, s, r) # {}}

\* Saving, by itself, as a copy, or before another scene is loaded or created, leaves in the
\* warehouse exactly the requests the user loaded or made and did not delete, in one document,
\* that of the current scene or of its copy; and every step leaves the maps such that a save can.
SaveKeepsWork ==
    [][/\ MapsMatchLists' /\ OneDocumentPerScene'
       /\ whole /\ ~mode.foreign /\ ~mode.careless /\ ~loadedOnce' /\ warehouse' # warehouse =>
             LET saved == warehouse'[Len(warehouse')].scene IN
             /\ saved \in {editor.current, editor'.current}
             /\ Held(warehouse', saved) = work]_vars

\* "Save Changes Before Loading New" does save the requests the user has loaded or made.
SavesBeforeLoading ==
    [][dialog = "open" /\ dialog' = "closed" /\ ~loadedOnce'
       => work \subseteq Held(warehouse', editor.current)]_vars

\* Whatever else the user does meanwhile, a recording comes to its end, unless one
\* trajectory after the other is executed for ever.
RecordingEnds ==
    \/ []<><<\E r \in RequestIds, t \in TrajectoryIds : Execute(r, t)>>_vars
    \/ (monitor # "idle") ~> (monitor = "idle")

=============================================================================
