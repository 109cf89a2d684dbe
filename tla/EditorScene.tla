----------------------------- MODULE EditorScene -----------------------------
(***************************************************************************)
(* move_arm_utils.cpp and planning_scene_warehouse_viewer.cpp: what the    *)
(* editor shows and edits of the scene it works on.  The objects it lists  *)
(* have markers to drag and menus to attach, detach and delete them; every *)
(* change is sent to the environment server as a planning scene, and what  *)
(* the server answers becomes the scene.  A send deletes the kinematic     *)
(* states of the robot, of the requests' ends and of the trajectories, and *)
(* makes them anew from the answer.  The ends of a request are dragged     *)
(* with inverse kinematics, and trajectories are played point by point.    *)
(*                                                                         *)
(* Markers call back in the spin thread, the window's slots run in Qt's    *)
(* and the markers are drawn in a third; lock_scene_ is held while a send  *)
(* awaits its answer, but not everything that follows a state takes it.    *)
(***************************************************************************)
EXTENDS Integers, Sequences, FiniteSets, FiniteSetsExt

CONSTANTS
    Objects,        \* identifiers of collision objects, by their numbers (bound)
    Links,          \* the robot's links
    LinksOf,        \* for every link itself, for every group its links
    Poses, Home,    \* of the robot; the default one
    Trajs,          \* identifiers of a request's trajectories (bound)
    Modes           \* the sessions: what the user may do, and its bounds

ASSUME ObjectsAssumption == Objects \subseteq Nat
ASSUME LinksAssumption ==
    /\ Links \subseteq DOMAIN LinksOf
    /\ \A l \in Links : LinksOf[l] = {l}
    /\ \A n \in DOMAIN LinksOf : LinksOf[n] \subseteq Links
ASSUME BoundsAssumption == Home \in Poses /\ Trajs \subseteq Nat

MapsOf(D, S) == UNION {[d -> S] : d \in SUBSET D}
Expanded(names) == UNION {LinksOf[n] : n \in names}

\* A planning scene of the warehouse, with one request and its trajectories.
StoredScenes ==
    [coll : SUBSET Objects, att : MapsOf(Objects, SUBSET Links), acm : MapsOf(Objects, SUBSET Links),
     robot : Poses, start : Poses, goal : Poses, sizes : {s \in Seq(Nat) : DOMAIN s \subseteq Trajs}]
ASSUME ModesAssumption ==
    \A m \in Modes :
        /\ {m.objects,      \* the user works on objects
            m.careful,      \* gives a new one a new name, and reads the warehouse once
            m.allowed,      \* the user edits the allowed collisions
            m.arm,          \* the user works on a request and its trajectories
            m.unlucky,      \* a hundred random states may all collide
            m.real,         \* use_robot_data_: the robot's joints are read
            m.fails,        \* the environment server may not answer, or not usefully
            m.crosses}      \* a thread may follow a state while another one sends
               \subseteq BOOLEAN
        /\ m.own \subseteq Objects          \* the objects the server knows of by itself
        /\ m.steps \in Nat                  \* bound on the user's operations
        /\ m.sizes \subseteq Nat            \* numbers of points of the planned trajectories
        /\ m.stored \in StoredScenes
        \* What was stored was saved by such a session: who may touch what is attached.
        /\ m.allowed \/ \A o \in DOMAIN m.stored.acm : m.stored.acm[o] =
               IF o \in DOMAIN m.stored.att THEN Expanded(m.stored.att[o]) ELSE {}

VARIABLES
    ed,         \* the editor's maps and states, as follows
    call,       \* the operation that holds lock_scene_: whether it awaits the answer
                \* to a send, and what it has yet to do then
    dialog,     \* attach_object_dialog_: the object it is open for, or NoObject
    crashed,    \* a pointer that is NULL was followed
    left,       \* the user's operations to come
    mode        \* the session, for good

sceneVars == <<ed, call, dialog, crashed, left, mode>>

NoObject == 0
NoState == 0
NoRobot == "no state"           \* robot_state_ is NULL
ASSUME NoRobotAssumption == NoRobot \notin Poses

Ends == {"start", "goal"}
Empty == <<>>
NoCall == [by |-> "nobody", awaits |-> FALSE, todo |-> <<>>, acm |-> Empty, name |-> NoObject]

Without(f, S) == [x \in DOMAIN f \ S |-> f[x]]
With(f, y, v) == [x \in DOMAIN f \cup {y} |-> IF x = y THEN v ELSE f[x]]

-----------------------------------------------------------------------------
(* Selectable objects and their markers *)

\* SelectableObject(): both operations are REMOVE.
Blank == [coll |-> FALSE, att |-> FALSE, attach |-> FALSE, detach |-> FALSE, touch |-> {}]

NoMarkers == [sel |-> "none", control |-> FALSE]

\* operator[] of selectable_objects_ inserts what it does not find.
Entry(e, o) == IF o \in DOMAIN e.objects THEN e.objects[o] ELSE Blank

Put(e, o, entry) == [e EXCEPT !.objects = With(@, o, entry)]

\* A marker is erased and inserted by the name in the entry: a blank one has none.
Named(e, o) == Entry(e, o).coll \/ Entry(e, o).att
Mark(e, o, m) == IF Named(e, o) THEN [e EXCEPT !.markers[o] = m] ELSE e

\* createSelectableMarkerFromCollisionObject
Selectable(e, o, insert) ==
    LET listed == Put(e, o, [Blank EXCEPT !.coll = TRUE]) IN
    IF insert THEN [listed EXCEPT !.markers[o].sel = "select"] ELSE listed

\* The same, of the collision objects S, each with its marker.
SelectableAll(e, S) ==
    [e EXCEPT !.objects = [o \in DOMAIN @ \cup S |->
                              IF o \in S THEN [Blank EXCEPT !.coll = TRUE] ELSE e.objects[o]],
              !.markers = [o \in Objects |-> IF o \in S THEN [e.markers[o] EXCEPT !.sel = "select"]
                                             ELSE e.markers[o]]]

\* deleteCollisionObject
Deleted(e, o) ==
    Put(Mark(e, o, NoMarkers), o, [Entry(e, o) EXCEPT !.coll = FALSE, !.att = FALSE])

\* changeToAttached
ChangedToAttached(e, o) ==
    Put(Mark(e, o, [sel |-> "attached", control |-> FALSE]), o, Entry(e, o))

\* attachCollisionObject, up to its send
Attaching(e, o, link, touch) ==
    [e EXCEPT !.objects[o].att = TRUE, !.objects[o].attach = TRUE,
              !.objects[o].touch = touch \cup {link}]

\* Neither operation is ADD: the object is to be removed.
Removed(objects) == {o \in DOMAIN objects : ~objects[o].att /\ ~objects[o].coll}

\* A mutant: what a detached object was allowed to touch, it still is.
AllowedStays(objects, acm) ==
    [o \in (DOMAIN acm \cup {x \in DOMAIN objects : objects[x].attach \/ ~objects[x].att})
               \ Removed(objects) |->
        IF o \in DOMAIN objects /\ objects[o].attach THEN Expanded(objects[o].touch)
        ELSE IF o \notin DOMAIN acm THEN {} ELSE acm[o]]

\* The allowed collisions a send makes of the scene's: for every object with an entry,
\* the links that may touch it.
Allowed(objects, acm) ==
    [o \in (DOMAIN acm \cup {x \in DOMAIN objects : objects[x].attach \/ ~objects[x].att})
               \ Removed(objects) |->
        IF o \in DOMAIN objects /\ objects[o].attach THEN Expanded(objects[o].touch)
        ELSE IF o \notin DOMAIN acm \/ (o \in DOMAIN objects /\ objects[o].detach) THEN {}
        ELSE acm[o]]

\* attach_ and detach_ are cleared as the request is made, answered or not.
Cleared(objects) ==
    [o \in DOMAIN objects |->
        LET x == objects[o] IN
        IF x.attach THEN [x EXCEPT !.attach = FALSE, !.touch = Expanded(@)]
        ELSE IF x.detach THEN [x EXCEPT !.detach = FALSE, !.att = FALSE, !.coll = TRUE]
        ELSE x]

-----------------------------------------------------------------------------
(* Kinematic states *)

HeldByEnds(e) == {e.requests[r].state[end] : r \in DOMAIN e.requests, end \in Ends} \ {NoState}
HeldByTrajs(e) == {e.trajs[t].state : t \in DOMAIN e.trajs} \ {NoState}
Held(e) == HeldByEnds(e) \cup HeldByTrajs(e)

\* An address that no state has.
FreshState(live) == 1 + Max(live \cup {NoState})

\* The end's kinematic state, made of the robot's and set to pose p.
WithState(e, r, end, p) ==
    LET id == FreshState(e.live) IN
    [e EXCEPT !.requests[r].state[end] = id, !.requests[r].shown[end] = p,
              !.live = @ \cup {id}, !.registry = @ \cup {id}]

\* Both ends of the request are made anew from its message.
Restated(e) ==
    IF e.requests = Empty THEN e
    ELSE WithState(WithState(e, 1, "start", e.requests[1].planned["start"]),
                   1, "goal", e.requests[1].planned["goal"])

\* TrajectoryData::reset
Reset(trajectory) ==
    [trajectory EXCEPT !.state = NoState, !.playing = FALSE, !.visible = FALSE, !.point = 0]

\* deleteKinematicStates: what is held is deleted by who holds it, the rest of the
\* registry after it.
StatesDeleted(e) ==
    [e EXCEPT !.trajs = [t \in DOMAIN @ |-> Reset(e.trajs[t])],
              !.requests = [r \in DOMAIN @ |->
                               [e.requests[r] EXCEPT !.state = [end \in Ends |-> NoState],
                                            !.shown = [end \in Ends |-> NoRobot]]],
              !.live = @ \ (Held(e) \cup e.registry),
              !.registry = {}]

\* deleteTrajectory's and playTrajectory's share: the state goes, and its entry with it.
Unheld(e, ids) == [e EXCEPT !.live = @ \ ids, !.registry = @ \ ids]

-----------------------------------------------------------------------------
(* Sending the scene *)

BlankScene(p) == [coll |-> {}, att |-> Empty, acm |-> Empty, robot |-> p, sent |-> FALSE]

\* sendPlanningScene up to the service's call, as thread by's last act or with more to do.
Send(e, by, name, rest) ==
    /\ ed' = [StatesDeleted(e) EXCEPT !.objects = Cleared(@), !.robot = NoRobot,
                                      !.scene.sent = FALSE]
    /\ call' = [by |-> by, awaits |-> TRUE, todo |-> rest, name |-> name,
                acm |-> Allowed(e.objects, e.scene.acm)]
    /\ UNCHANGED crashed

Awaiting == ~crashed /\ call.awaits

Returns == call' = [call EXCEPT !.awaits = FALSE]

\* What the environment server's planning scene holds: the request's objects and its own.
AttachedIn(objects) == {o \in DOMAIN objects : objects[o].att}
FreeIn(objects) == {o \in DOMAIN objects : objects[o].coll} \ AttachedIn(objects)

\* The objects that were to go have gone, and data.setPlanningScene stores the answer.
Answer(p) ==
    LET remaining == AttachedIn(ed.objects) \cup FreeIn(ed.objects) IN
    [ed EXCEPT !.objects = Without(@, DOMAIN @ \ remaining),
               !.scene = [coll |-> FreeIn(ed.objects) \cup (mode.own \ AttachedIn(ed.objects)),
                          att |-> [o \in AttachedIn(ed.objects) |-> ed.objects[o].touch],
                          acm |-> call.acm, robot |-> p, sent |-> TRUE],
               !.robot = p, !.values = p]

\* Objects of the answer that are not listed get an entry and a marker.
WithUnknown(e) == SelectableAll(e, e.scene.coll \ DOMAIN e.objects)

Answered ==
    /\ Awaiting
    /\ \E p \in IF mode.real THEN Poses ELSE {ed.scene.robot} :
           ed' = Restated(WithUnknown(Answer(p)))
    /\ Returns
    /\ UNCHANGED <<dialog, crashed, left, mode>>

\* The server does not answer, or cm_->setPlanningScene makes no state of the answer.
Unanswered ==
    /\ Awaiting /\ mode.fails
    /\ ed' \in {ed, [Answer(ed.scene.robot) EXCEPT !.robot = NoRobot, !.values = ed.values, !.scene.sent = FALSE]}
    /\ Returns
    /\ UNCHANGED <<dialog, crashed, left, mode>>

-----------------------------------------------------------------------------
(* The user's operations *)

Idle == ~crashed /\ ~call.awaits /\ call.todo = <<>>

\* A thread may follow a state while another one awaits an answer.
Reaches(by) == Idle \/ (Awaiting /\ mode.crosses /\ call.by # by)

User == left > 0 /\ left' = left - 1 /\ UNCHANGED mode

Crash == crashed' = TRUE /\ UNCHANGED <<ed, call, dialog>>

Edits(e) == ed' = e /\ UNCHANGED <<call, dialog, crashed>>

\* createCollisionObject and createMeshObject, with the name the dialog proposes or another
Create ==
    /\ Idle /\ User /\ mode.objects
    /\ \E o \in Objects :
           /\ mode.careful => o \notin DOMAIN ed.objects \cup ed.scene.coll \cup mode.own
           /\ ~mode.careful => o = ed.newest + 1
           /\ Send([Selectable(ed, o, TRUE) EXCEPT !.newest = IF mode.careful THEN @ ELSE o], "qt", o, <<>>)
    /\ UNCHANGED dialog

\* collisionObjectSelectionCallback: Select, or a click
Select ==
    /\ Idle /\ User /\ mode.objects
    /\ \E o \in Objects :
           /\ ed.markers[o].sel = "select"
           /\ Edits(Put(Mark(ed, o, [sel |-> "none", control |-> TRUE]), o, Entry(ed, o)))

\* collisionObjectMovementCallback: Deselect, or the button is pressed
Deselect ==
    /\ Idle /\ User /\ mode.objects
    /\ \E o \in Objects :
           /\ ed.markers[o].control
           /\ Edits(Put(Mark(ed, o, [sel |-> "select", control |-> FALSE]), o, Entry(ed, o)))

\* Delete, of either marker's menu
Delete ==
    /\ Idle /\ User /\ mode.objects
    /\ \E o \in Objects :
           /\ ed.markers[o].control \/ ed.markers[o].sel = "select"
           /\ Send(Deleted(ed, o), "spin", o, <<"forget">>)
    /\ UNCHANGED dialog

\* The object is let go where it was dragged: moved, or grown or shrunk by as much.
Drop ==
    /\ Idle /\ User /\ mode.objects
    /\ \E o \in DOMAIN ed.objects :
           /\ ed.markers[o].control
           /\ \/ Send(ed, "spin", o, <<>>)
              \/ Send(Selectable(ed, o, FALSE), "spin", o, <<>>)
    /\ UNCHANGED dialog

OpenAttachDialog ==
    /\ Idle /\ User /\ mode.objects /\ dialog = NoObject
    /\ \E o \in Objects : ed.markers[o].control /\ dialog' = o
    /\ UNCHANGED <<ed, call, crashed>>

\* attachObject: the object may have gone while the dialog was open.
Attach ==
    /\ Idle /\ User /\ dialog # NoObject /\ dialog' = NoObject
    /\ \/ /\ dialog \notin DOMAIN ed.objects
          /\ ed' = ChangedToAttached(ed, dialog) /\ UNCHANGED <<call, crashed>>
       \/ /\ dialog \in DOMAIN ed.objects
          /\ ed.robot = NoRobot \/ ~Named(ed, dialog)      \* an entry without poses
          /\ crashed' = TRUE /\ UNCHANGED <<ed, call>>
       \/ /\ ed.robot # NoRobot /\ Named(ed, dialog)
          /\ \E link \in Links, touch \in SUBSET (DOMAIN LinksOf \ Links) :
                 Send(Attaching(ed, dialog, link, touch), "qt", dialog, <<"attached">>)

CancelAttach ==
    /\ Idle /\ User /\ dialog # NoObject /\ dialog' = NoObject
    /\ UNCHANGED <<ed, call, crashed>>

\* attachedCollisionObjectInteractiveCallback: Detach
Detach ==
    /\ Idle /\ User /\ mode.objects
    /\ \E o \in DOMAIN ed.objects :
           /\ ed.markers[o].sel = "attached"
           /\ Send(Put(Mark(ed, o, [sel |-> "none", control |-> TRUE]), o,
                       [Entry(ed, o) EXCEPT !.detach = TRUE]), "spin", o, <<>>)
    /\ UNCHANGED dialog

\* enableCollisionClicked, disableCollisionClicked and resetAllowedCollisionClicked
EditAllowed ==
    /\ Idle /\ User /\ mode.allowed
    /\ \/ \E o \in DOMAIN ed.scene.acm, l \in Links :
              \E changed \in {ed.scene.acm[o] \cup {l}, ed.scene.acm[o] \ {l}} \ {ed.scene.acm[o]} :
                  Send([ed EXCEPT !.scene.acm[o] = changed], "qt", o, <<>>)
       \/ Send([ed EXCEPT !.scene.acm = Empty], "qt", NoObject, <<>>)
    /\ UNCHANGED dialog

\* refreshSceneButtonPressed, and what else sends the scene: a link's padding was altered.
Refresh ==
    /\ Idle /\ User
    /\ Send(ed, "qt", NoObject, <<>>)
    /\ UNCHANGED dialog

\* jointStateSliderChanged
SlideJoint ==
    /\ Reaches("qt") /\ User
    /\ IF ed.robot = NoRobot THEN Crash
       ELSE /\ \E p \in Poses : Send([ed EXCEPT !.scene.robot = p], "qt", NoObject, <<>>)
            /\ UNCHANGED dialog

\* jointStateCallback
JointStates ==
    /\ Idle /\ mode.real /\ ed.robot # NoRobot
    /\ \E p \in Poses : ed' = [ed EXCEPT !.robot = p, !.values = p]
    /\ UNCHANGED <<call, dialog, crashed, left, mode>>

-----------------------------------------------------------------------------
(* Scenes *)

\* setCurrentPlanningScene up to the scene's objects: no request, trajectory or marker
\* of the old scene stays.
Emptied(e, scene) ==
    [StatesDeleted(e) EXCEPT !.requests = Empty, !.trajs = Empty, !.objects = Empty,
        !.markers = [o \in Objects |-> IF Named(e, o) THEN NoMarkers ELSE e.markers[o]],
        !.scene = scene]

\* createNewPlanningSceneConfirm
NewScene ==
    /\ Idle /\ User
    /\ LET p == IF ed.robot = NoRobot THEN Home ELSE ed.values IN
       Send(Emptied([ed EXCEPT !.robot = p], BlankScene(p)), "qt", NoObject, <<>>)
    /\ UNCHANGED dialog

\* loadButtonPressed: an attached object of the stored scene is attached, and the scene
\* sent, before the next one is looked for, in the answer.
LoadScene ==
    /\ Idle /\ User
    /\ \E rest \in {<<"shown">>, <<"requests", "shown">>} :
       LET emptied == Emptied(ed, [BlankScene(mode.stored.robot) EXCEPT
                                       !.coll = mode.stored.coll, !.att = mode.stored.att,
                                       !.acm = mode.stored.acm])
           listed == SelectableAll(emptied, mode.stored.coll) IN
       IF DOMAIN mode.stored.att = {}
       THEN /\ ed' = listed /\ UNCHANGED crashed
            /\ call' = [NoCall EXCEPT !.by = "qt", !.todo = rest]
       ELSE IF ed.robot = NoRobot
       THEN crashed' = TRUE /\ UNCHANGED <<ed, call>>
       ELSE \E o \in DOMAIN mode.stored.att, link \in Links :
                /\ link \in mode.stored.att[o]
                /\ Send(Attaching(Selectable(listed, o, FALSE), o, link, mode.stored.att[o]),
                        "qt", o, <<"attached", "second">> \o rest)
    /\ UNCHANGED dialog

Step(s) ==
    /\ ~crashed /\ ~call.awaits /\ call.todo # <<>> /\ Head(call.todo) = s
    /\ UNCHANGED <<dialog, left, mode>>

Done == call' = [call EXCEPT !.todo = Tail(@)]

\* selectable_objects_->erase(name), after the send
Forget ==
    /\ Step("forget")
    /\ ed' = [ed EXCEPT !.objects = Without(@, {call.name})]
    /\ Done /\ UNCHANGED crashed

ShowAttached ==
    /\ Step("attached")
    /\ ed' = ChangedToAttached(ed, call.name)
    /\ Done /\ UNCHANGED crashed

\* Without an answer the stored scene's second attached object is still there.
LookForSecond ==
    /\ Step("second")
    /\ crashed' = (Cardinality(DOMAIN ed.scene.att) > 1 /\ ed.robot = NoRobot)
    /\ Done /\ UNCHANGED ed

\* MotionPlanRequestData's constructor, and its states in the registry
Requested(e, start, goal) ==
    LET r == [state |-> [end \in Ends |-> NoState], shown |-> [end \in Ends |-> NoRobot],
              planned |-> [end \in Ends |-> IF end = "start" THEN start ELSE goal],
              good |-> [end \in Ends |-> TRUE]] IN
    Restated([e EXCEPT !.requests = [n \in {1} |-> r]])

NewTrajectory(n, timed) ==
    [size |-> n, timed |-> timed, state |-> NoState, playing |-> FALSE, visible |-> TRUE,
     point |-> 0, elapsed |-> 0]

\* initMotionPlanRequestData sets the robot's state to the request's start, then the
\* trajectories are read and the scene is sent.
LoadRequests ==
    /\ Step("requests")
    /\ LET rest == Tail(call.todo)
           loaded == Requested([ed EXCEPT !.robot = mode.stored.start],
                               mode.stored.start, mode.stored.goal) IN
       IF mode.stored.sizes = <<>> THEN Send(ed, "qt", NoObject, rest)
       ELSE IF ed.robot = NoRobot THEN crashed' = TRUE /\ UNCHANGED <<ed, call>>
       ELSE Send([loaded EXCEPT !.trajs =
                      [t \in DOMAIN mode.stored.sizes |->
                           NewTrajectory(mode.stored.sizes[t], FALSE)]], "qt", NoObject, rest)

\* updateJointStates and data.getRobotState
ShowLoaded ==
    /\ Step("shown")
    /\ crashed' = (ed.robot = NoRobot)
    /\ ed' = [ed EXCEPT !.robot = IF @ = NoRobot THEN @ ELSE ed.scene.robot]
    /\ Done

\* loadAllWarehouseData: the maps are emptied and the objects' numbers start over; the
\* states stay, and stay registered.
ReadWarehouse ==
    /\ Idle /\ User /\ (mode.objects => ~mode.careful)
    /\ \E scene \in {BlankScene(Home), [BlankScene(mode.stored.robot) EXCEPT !.acm = mode.stored.acm]} :
           Edits([ed EXCEPT !.requests = Empty, !.trajs = Empty, !.scene = scene, !.newest = 0])

-----------------------------------------------------------------------------
(* The request, its ends and its trajectories *)

CreateRequest ==
    /\ Reaches("qt") /\ User /\ mode.arm /\ ed.requests = Empty
    /\ IF ed.robot = NoRobot THEN Crash
       ELSE Send(Requested(ed, ed.robot, ed.robot), "qt", NoObject, <<>>) /\ UNCHANGED dialog

DeleteRequest ==
    /\ Idle /\ User /\ ed.requests # Empty
    /\ Edits([Unheld(ed, Held(ed)) EXCEPT !.requests = Empty, !.trajs = Empty])

\* IKControllerCallback while an end is dragged: the state follows, then
\* solveIKForEndEffectorPose; without a solution the request stays as it was.
DragEnd ==
    /\ Reaches("spin") /\ User /\ mode.arm
    /\ \E r \in DOMAIN ed.requests, end \in Ends, p \in Poses :
           IF ed.requests[r].state[end] = NoState THEN Crash
           ELSE LET moved == [ed EXCEPT !.requests[r].shown[end] = p] IN
                \/ Edits([moved EXCEPT !.requests[r].planned[end] = p,
                                       !.requests[r].good[end] = TRUE])
                \/ Edits([moved EXCEPT !.requests[r].good[end] = FALSE])

\* Map to Robot State
MapToRobot ==
    /\ Reaches("spin") /\ User /\ mode.arm
    /\ \E r \in DOMAIN ed.requests, end \in Ends :
           /\ ed.requests[r].good[end]
           /\ IF ed.requests[r].state[end] = NoState THEN Crash
              ELSE /\ Send([ed EXCEPT !.scene.robot = ed.requests[r].shown[end]], "spin", NoObject, <<>>)
                   /\ UNCHANGED dialog

\* Map from Robot State
MapFromRobot ==
    /\ Reaches("spin") /\ User /\ mode.arm
    /\ \E r \in DOMAIN ed.requests, end \in Ends :
           IF NoState = ed.requests[r].state[end] \/ ed.robot = NoRobot THEN Crash
           ELSE Edits([ed EXCEPT !.requests[r].shown[end] = ed.robot,
                                 !.requests[r].planned[end] = ed.robot])

\* JointControllerCallback and setJointState, within the joint's bounds
DragJoint ==
    /\ Idle /\ User /\ mode.arm
    /\ \E r \in DOMAIN ed.requests, end \in Ends, p \in Poses :
           /\ ed.requests[r].state[end] # NoState
           /\ Edits([ed EXCEPT !.requests[r].shown[end] = p, !.requests[r].planned[end] = p])

\* randomlyPerturb: when a hundred random states all collide, the last one stays, since
\* originalState was never filled.
Perturb ==
    /\ Idle /\ User /\ mode.arm
    /\ \E r \in DOMAIN ed.requests, end \in Ends, p \in Poses :
           IF ed.requests[r].state[end] = NoState THEN Crash
           ELSE LET moved == [ed EXCEPT !.requests[r].shown[end] = p] IN
                \/ Edits([moved EXCEPT !.requests[r].planned[end] = p,
                                       !.requests[r].good[end] = TRUE])
                \/ mode.unlucky /\ Edits(moved)

\* A mutant: the deleted state stays in the registry.
PlayedStaysRegistered(e, t) ==
    LET reset == Reset(e.trajs[t])
        freed == [e EXCEPT !.live = @ \ {e.trajs[t].state}]
        id == FreshState(freed.live) IN
    IF reset.size = 0
    THEN [freed EXCEPT !.trajs[t] = [reset EXCEPT !.playing = TRUE, !.visible = TRUE]]
    ELSE [freed EXCEPT !.live = @ \cup {id}, !.registry = @ \cup {id},
                       !.trajs[t] = [reset EXCEPT !.state = id, !.playing = TRUE,
                                                  !.visible = TRUE, !.elapsed = 0]]

\* playTrajectory
Played(e, t) ==
    LET reset == Reset(e.trajs[t])
        freed == Unheld(e, {e.trajs[t].state})
        id == FreshState(freed.live) IN
    IF reset.size = 0
    THEN [freed EXCEPT !.trajs[t] = [reset EXCEPT !.playing = TRUE, !.visible = TRUE]]
    ELSE [freed EXCEPT !.live = @ \cup {id}, !.registry = @ \cup {id},
                       !.trajs[t] = [reset EXCEPT !.state = id, !.playing = TRUE,
                                                  !.visible = TRUE, !.elapsed = 0]]

\* Play, or the new trajectory of a planner or a filter is played.
Play ==
    /\ Idle /\ User /\ mode.arm
    /\ \E t \in DOMAIN ed.trajs :
           IF ed.robot = NoRobot /\ ed.trajs[t].size > 0 THEN Crash ELSE Edits(Played(ed, t))

\* planToRequest's trajectory has no times to go by, filterTrajectory's has.
PlanOrFilter ==
    /\ Idle /\ User /\ ed.requests # Empty
    /\ \E t \in Trajs \ DOMAIN ed.trajs, n \in mode.sizes, timed \in BOOLEAN :
           LET made == [ed EXCEPT !.trajs = With(@, t, NewTrajectory(n, timed))] IN
           /\ timed => DOMAIN ed.trajs # {}
           /\ IF ed.robot = NoRobot /\ (timed \/ n > 0) THEN Crash ELSE Edits(Played(made, t))

DeleteTrajectory ==
    /\ Idle /\ User
    /\ \E t \in DOMAIN ed.trajs :
           Edits([Unheld(ed, {ed.trajs[t].state}) EXCEPT !.trajs = Without(@, {t})])

\* trajectoryEditChanged: the state it may make is not registered.
EditPoint ==
    /\ Reaches("qt") /\ User /\ mode.arm
    /\ \E t \in DOMAIN ed.trajs : \E point \in 0 .. Max({0, ed.trajs[t].size - 1}) :
           LET id == FreshState(ed.live)
               edited == [ed EXCEPT !.trajs[t].point = point, !.trajs[t].visible = TRUE] IN
           IF ed.trajs[t].state # NoState THEN Edits(edited)
           ELSE IF ed.robot = NoRobot THEN Crash
           ELSE Edits([edited EXCEPT !.trajs[t].state = id, !.live = @ \cup {id}])

\* A mutant: a step past the end is not taken back.
SteppedOver(t) ==
    LET next == t.point + 2 IN
    IF next >= t.size - 1 THEN [t EXCEPT !.point = next, !.playing = FALSE]
    ELSE [t EXCEPT !.point = next]

\* advanceThroughTrajectory(2)
Stepped(t) ==
    LET next == t.point + 2 IN
    IF next >= t.size - 1 THEN [t EXCEPT !.point = t.size - 1, !.playing = FALSE]
    ELSE [t EXCEPT !.point = next]

\* A mutant: the last point is shown and then waited past.
TimedPast(t) ==
    LET due == {i \in t.point .. t.size - 1 : i <= t.elapsed}
        next == IF due = {} THEN t.point ELSE Max(due) IN
    IF next > t.size - 1 THEN [t EXCEPT !.point = t.size - 1, !.playing = FALSE]
    ELSE [t EXCEPT !.point = next]

\* advanceToNextClosestPoint, a unit of time between points
Timed(t) ==
    LET due == {i \in t.point .. t.size - 1 : i <= t.elapsed}
        next == IF due = {} THEN t.point ELSE Max(due) IN
    IF next >= t.size - 1 THEN [t EXCEPT !.point = t.size - 1, !.playing = FALSE]
    ELSE [t EXCEPT !.point = next]

Advanced(t) ==
    IF ~t.playing THEN t
    ELSE LET now == [t EXCEPT !.elapsed = Min({@ + 1, t.size})] IN
         IF t.state = NoState \/ t.size = 0 THEN now
         ELSE IF t.timed THEN Timed(now) ELSE Stepped(now)

\* sendMarkers, every tenth of a second or so: getTrajectoryMarkers advances what plays.
SendMarkers ==
    /\ Idle
    /\ ed' = [ed EXCEPT !.trajs = [t \in DOMAIN @ |-> Advanced(ed.trajs[t])]]
    /\ UNCHANGED <<call, dialog, crashed, left, mode>>

-----------------------------------------------------------------------------
SceneInit ==
    /\ mode \in Modes
    /\ ed = [objects |-> Empty, markers |-> [o \in Objects |-> NoMarkers],
             scene |-> BlankScene(Home), robot |-> Home, values |-> Home, newest |-> 0, requests |-> Empty, trajs |-> Empty,
             live |-> {}, registry |-> {}]
    /\ call = NoCall /\ dialog = NoObject /\ crashed = FALSE /\ left = mode.steps

SceneNext ==
    \/ Answered \/ Unanswered
    \/ Forget \/ ShowAttached \/ LookForSecond \/ LoadRequests \/ ShowLoaded
    \/ Create \/ Select \/ Deselect \/ Delete \/ Drop
    \/ OpenAttachDialog \/ Attach \/ CancelAttach \/ Detach \/ EditAllowed
    \/ Refresh \/ SlideJoint \/ JointStates \/ NewScene \/ LoadScene \/ ReadWarehouse
    \/ CreateRequest \/ DeleteRequest \/ DragEnd \/ MapToRobot \/ MapFromRobot
    \/ DragJoint \/ Perturb \/ Play \/ PlanOrFilter \/ DeleteTrajectory \/ EditPoint
    \/ SendMarkers

\* The thread that draws the markers goes on, and a call under way is carried on.
SceneSpec == SceneInit /\ [][SceneNext]_sceneVars /\ WF_sceneVars(SendMarkers)
             /\ WF_sceneVars(Answered \/ Unanswered \/ Forget \/ ShowAttached \/ LookForSecond
                           \/ LoadRequests \/ ShowLoaded)

-----------------------------------------------------------------------------
(* Properties *)

\* The type of the editor's maps and states.
SceneTypeOK ==
    /\ mode \in Modes /\ left \in 0 .. mode.steps
    /\ crashed \in BOOLEAN /\ dialog \in Objects \cup {NoObject}
    /\ DOMAIN ed.objects \subseteq Objects
    /\ \A o \in DOMAIN ed.objects :
           ed.objects[o] \in [coll : BOOLEAN, att : BOOLEAN, attach : BOOLEAN, detach : BOOLEAN,
                              touch : SUBSET DOMAIN LinksOf]
    /\ ed.markers \in [Objects -> [sel : {"none", "select", "attached"}, control : BOOLEAN]]
    /\ ed.robot \in Poses \cup {NoRobot} /\ ed.scene.robot \in Poses
    /\ DOMAIN ed.requests \subseteq {1} /\ DOMAIN ed.trajs \subseteq Trajs
    /\ \A r \in DOMAIN ed.requests :
           ed.requests[r] \in [state : [Ends -> Nat],
                               shown : [Ends -> Poses \cup {NoRobot}],
                               planned : [Ends -> Poses], good : [Ends -> BOOLEAN]]
    /\ ed.registry \subseteq Nat \ {NoState} /\ ed.live \subseteq Nat \ {NoState}
    \* The point that updateCurrentState reads is one of the trajectory's.
    /\ \A t \in DOMAIN ed.trajs : ed.trajs[t].point \in 0 .. Max({0, ed.trajs[t].size - 1})

\* What the editor lists is what the scene holds, and as what: attached, or free.  An
\* object of the server's own may be missing once it was deleted.
ListedIsThere ==
    /\ FreeIn(ed.objects) \subseteq ed.scene.coll
    /\ ed.scene.coll \subseteq FreeIn(ed.objects) \cup mode.own
    /\ AttachedIn(ed.objects) = DOMAIN ed.scene.att

\* A robot's link may touch an object if and only if the object is attached with leave
\* to touch that link.
AllowedIsTouch ==
    \A o \in (ed.scene.coll \ mode.own) \cup DOMAIN ed.scene.att :
        /\ o \in DOMAIN ed.scene.acm
        /\ ed.scene.acm[o] = IF o \in DOMAIN ed.scene.att THEN ed.scene.att[o] ELSE {}

\* No answer is lost, the user leaves the allowed collisions alone and gives a new object a
\* new name, and the stored scene has but one attached object (LoadScene forgets the others).
Regular ==
    /\ ~mode.fails /\ ~mode.allowed /\ mode.objects /\ mode.careful
    /\ \A a, b \in DOMAIN mode.stored.att : a = b

\* Once the environment server has answered, the scene is what the editor shows
\* (sendPlanningScene), whatever was attached, detached, replaced or deleted before, and
\* with sends that failed between.  What links may touch an object is sure only if no
\* answer was lost, no object took another's name, the warehouse was not read over the
\* scene and the user left that alone.
SceneIsListed ==
    ed.scene.sent /\ ~call.awaits /\ call.todo = <<>> =>
        /\ ListedIsThere
        /\ Regular => AllowedIsTouch

\* Every kinematic state that is registered or held has not been deleted, and is held
\* once: deleteKinematicStates deletes none twice.
OwnedOnce ==
    /\ Held(ed) \cup ed.registry \subseteq ed.live
    /\ Cardinality(HeldByEnds(ed)) =
           Cardinality({h \in (DOMAIN ed.requests) \X Ends :
                            ed.requests[h[1]].state[h[2]] # NoState})
    /\ Cardinality(HeldByTrajs(ed)) =
           Cardinality({t \in DOMAIN ed.trajs : ed.trajs[t].state # NoState})
    /\ HeldByEnds(ed) \cap HeldByTrajs(ed) = {}

\* An end that is shown in its own colour, not in red, is the one that would be planned.
ShownIsPlanned ==
    \A r \in DOMAIN ed.requests, end \in Ends :
        ed.requests[r].good[end] /\ ed.requests[r].state[end] # NoState =>
            ed.requests[r].shown[end] = ed.requests[r].planned[end]

\* The editor follows no pointer that is NULL, unless the environment server failed it, a
\* thread crossed another one's send, or an object of the server's own was deleted; and
\* the states it shows are its own, and the ones it would plan with.
StatesAreSound ==
    /\ crashed => mode.fails \/ mode.crosses \/ mode.own # {}
    /\ OwnedOnce
    /\ ~mode.unlucky => ShownIsPlanned

\* A trajectory that is played comes to its end, however the user drags its point, unless
\* it goes (advanceThroughTrajectory, advanceToNextClosestPoint).
PlaybackEnds ==
    \A t \in Trajs :
        (t \in DOMAIN ed.trajs /\ ed.trajs[t].playing /\ ed.trajs[t].size > 0) ~>
            (crashed \/ t \notin DOMAIN ed.trajs \/ ~ed.trajs[t].playing)

=============================================================================
