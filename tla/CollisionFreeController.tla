----------------------- MODULE CollisionFreeController -----------------------
(***************************************************************************)
(* collision_free_arm_trajectory_controller.cpp: an action server that     *)
(* passes a trajectory to the arm's controller and checks what remains of  *)
(* it against the planning scene on every joint state.  Goals and joint    *)
(* states are handled on the main thread; controllerDoneCallback runs on   *)
(* the thread of traj_action_client_, and its setSucceeded waits for the   *)
(* action server's lock, which the main thread holds in executeTrajectory. *)
(***************************************************************************)
EXTENDS ActionServer

CONSTANT
    Goals       \* the goals clients send, numbered by time stamp

ASSUME GoalsAssumption == Goals \subseteq Nat \ {0}

VARIABLES
    server,     \* action_server_
    pc,         \* the main thread: "idle", or where executeTrajectory is
    state,      \* state_
    remaining,  \* the goal current_joint_trajectory_ has points of; 0 when it has none
    arm,        \* the goal handle of traj_action_client_: for which goal, and its phase
    done,       \* controllerDoneCallback: for which goal, and how far it got
    sceneSet,   \* whether collision_models_interface_ has a planning scene
    late        \* history: the goals that were current while controllerDoneCallback told the
                \* state machine or the server of another one's end

vars == <<server, pc, state, remaining, arm, done, sceneSet, late>>
ambient == <<sceneSet, late>>

Current == server.current
NoGoal == [goal |-> 0, phase |-> "none"]

Init ==
    /\ server = NewServer(Goals) /\ pc = "idle"
    /\ state = "IDLE" /\ remaining = 0
    /\ arm = NoGoal /\ done = NoGoal
    /\ sceneSet = FALSE /\ late = {}

\* cancelAllGoals: the controller stops; its answer is still to come.
Cancelled == IF arm.phase = "running" THEN [arm EXCEPT !.phase = "cancelled"] ELSE arm

-----------------------------------------------------------------------------
(* executeTrajectory *)

\* A client sends a goal whenever it likes.
MaySend(g) == pc = "idle" /\ Sendable(server, g)

\* Mutant: the trajectory under way is not stopped.
ExecuteOverTheLast(g) ==
    /\ MaySend(g)
    /\ LET accepted == AcceptNewGoal(Receive(server, g)) IN
       IF sceneSet
       THEN server' = accepted /\ pc' = "filter"
       ELSE server' = Settle(accepted, "aborted") /\ UNCHANGED pc
    /\ UNCHANGED <<state, remaining, arm, done, ambient>>

\* Up to the planning scene: no trajectory is executed without one.
ExecuteTrajectory(g) ==
    /\ MaySend(g)
    /\ arm' = IF state # "IDLE" THEN Cancelled ELSE arm
    /\ LET accepted == AcceptNewGoal(Receive(server, g)) IN
       IF sceneSet
       THEN server' = accepted /\ pc' = "filter"
       ELSE server' = Settle(accepted, "aborted") /\ UNCHANGED pc
    /\ UNCHANGED <<state, remaining, done, ambient>>

\* The filter rejects the trajectory, or its service fails.
FilterRejects ==
    /\ pc = "filter"
    /\ server' = Settle(server, "aborted")
    /\ pc' = "idle"
    /\ UNCHANGED <<state, remaining, arm, done, ambient>>

\* sendGoal replaces the handle: the answer for the old one is not heard any more.
FilterAccepts ==
    /\ pc = "filter"
    /\ remaining' = Current
    /\ arm' = [goal |-> Current, phase |-> "running"]
    /\ pc' = "sent"
    /\ UNCHANGED <<server, state, done, ambient>>

\* Mutant: the state machine stays where it was.
StartWithoutMonitoring ==
    /\ pc = "sent"
    /\ pc' = "idle"
    /\ UNCHANGED <<server, state, remaining, arm, done, ambient>>

\* Mutant: the state of the enumeration that no callback knows.
StartControlFirst ==
    /\ pc = "sent"
    /\ state' = "START_CONTROL"
    /\ pc' = "idle"
    /\ UNCHANGED <<server, remaining, arm, done, ambient>>

StartMonitoring ==
    /\ pc = "sent"
    /\ state' = "MONITOR"
    /\ pc' = "idle"
    /\ UNCHANGED <<server, remaining, arm, done, ambient>>

-----------------------------------------------------------------------------
(* jointStateCallback *)

InMonitor == pc = "idle" /\ state = "MONITOR"

\* Mutant: the goal is aborted and the arm goes on.
AbortWithoutCancel ==
    /\ server' = Settle(server, "aborted")
    /\ state' = "IDLE"
    /\ UNCHANGED <<pc, remaining, arm, done, ambient>>

Abort ==
    /\ arm' = Cancelled
    /\ server' = Settle(server, "aborted")
    /\ state' = "IDLE"
    /\ UNCHANGED <<pc, remaining, done, ambient>>

SceneIsGone == InMonitor /\ ~sceneSet /\ Abort

\* What remains of the trajectory is not valid in the scene.  The points that were
\* dropped do not come back.
Collides == InMonitor /\ sceneSet /\ remaining # 0 /\ Abort

Completes ==
    /\ InMonitor /\ sceneSet /\ remaining # 0
    /\ remaining' = 0
    /\ UNCHANGED <<server, pc, state, arm, done, ambient>>

-----------------------------------------------------------------------------
(* controllerDoneCallback, whatever the controller's answer is *)

DoneArrives ==
    /\ arm.phase # "none" /\ done = NoGoal
    /\ done' = [goal |-> arm.goal, phase |-> "arrived"]
    /\ arm' = NoGoal
    /\ UNCHANGED <<server, pc, state, remaining, ambient>>

\* The callback does not look at the goal its answer is of.
Answered == late' = IF done.goal = Current THEN late ELSE late \cup {Current}

DoneIdles ==
    /\ done.phase = "arrived"
    /\ state' = "IDLE"
    /\ done' = [done EXCEPT !.phase = "idle"]
    /\ Answered
    /\ UNCHANGED <<server, pc, remaining, arm, sceneSet>>

\* Mutant: only the state machine is told.
DoneSettlesNothing ==
    /\ done.phase = "idle" /\ pc = "idle"
    /\ done' = NoGoal
    /\ UNCHANGED <<server, pc, state, remaining, arm, ambient>>

DoneSettles ==
    /\ done.phase = "idle" /\ pc = "idle"
    /\ server' = Settle(server, "succeeded")
    /\ done' = NoGoal
    /\ Answered
    /\ UNCHANGED <<pc, state, remaining, arm, sceneSet>>

-----------------------------------------------------------------------------
(* The environment: planning scenes are set and reverted while no callback holds
   the bodies lock, and a client's cancellation only sets the server's flag. *)

SceneChanges ==
    /\ pc = "idle"
    /\ sceneSet' = ~sceneSet
    /\ UNCHANGED <<server, pc, state, remaining, arm, done, late>>

CancelGoal(g) ==
    /\ pc = "idle" /\ server.status[g] = "active"
    /\ server' = Cancel(server, g)
    /\ UNCHANGED <<pc, state, remaining, arm, done, ambient>>

-----------------------------------------------------------------------------
Main == FilterRejects \/ FilterAccepts \/ StartMonitoring
JointState == SceneIsGone \/ Collides \/ Completes
Done == DoneIdles \/ DoneSettles

Next ==
    \/ \E g \in Goals : ExecuteTrajectory(g) \/ CancelGoal(g)
    \/ Main \/ JointState \/ DoneArrives \/ Done \/ SceneChanges

Spec == Init /\ [][Next]_vars

\* Both threads run, the filter service returns and the controller answers; joint
\* states and scenes come as they like.
FairSpec == Spec /\ WF_vars(Main) /\ WF_vars(DoneArrives) /\ WF_vars(Done)

-----------------------------------------------------------------------------
(* Properties *)

HandleType(Phases) == [goal : Goals \cup {0}, phase : Phases]

TypeOK ==
    /\ server \in ServerType(Goals)
    /\ pc \in {"idle", "filter", "sent"} /\ state \in {"IDLE", "MONITOR"}
    /\ remaining \in Goals \cup {0} /\ sceneSet \in BOOLEAN /\ late \subseteq Goals \cup {0}
    /\ arm \in HandleType({"none", "running", "cancelled"})
    /\ done \in HandleType({"none", "arrived", "idle"})

\* "the node will not allow the arm to move if it thinks there is going to be a
\* collision with the environment at any point in the trajectory": while the arm
\* moves, joint states are checked against what was sent, ...
MovingIsWatched == arm.phase = "running" /\ pc = "idle" => state = "MONITOR" /\ remaining \in {0, arm.goal}

\* ... and it moves for the goal that is active, and only for that one.
MovesForActiveGoal == arm.phase = "running" => server.status[arm.goal] = "active"

\* Of whatever clients, at whatever moment they send: the arm moves under watch and for the
\* active goal (controllerDoneCallback, executeTrajectory), unless the answer for another
\* goal, which the callback does not tell from this one's, was taken for it.  That answer
\* takes the watch and the goal away and leaves the arm moving.
MovesWatched == arm.goal \notin late => MovingIsWatched /\ MovesForActiveGoal

\* Every goal ends.
EveryGoalEnds == \A g \in Goals : server.status[g] # "unsent" ~> server.status[g] \in Terminal

=============================================================================
