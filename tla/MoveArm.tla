------------------------------ MODULE MoveArm ------------------------------
(***************************************************************************)
(* move_arm_simple_action.cpp: the move_<group> action.  The execute       *)
(* thread of its action server scans the scene, sets a planning scene and  *)
(* cycles through PLANNING, START_CONTROL and MONITOR until the goal has a *)
(* terminal status; it looks at preemption once per turn of its loop.      *)
(* Clients send and cancel goals, and the head monitor's action client     *)
(* calls monitorDoneCallback, at any time in between.                      *)
(***************************************************************************)
EXTENDS ActionServer

CONSTANTS
    Goals,      \* the goals clients send, numbered by time stamp
    Attempts    \* num_planning_attempts of every request

ASSUME GoalsAssumption == Goals \subseteq Nat \ {0}
ASSUME AttemptsAssumption == Attempts \in Nat

VARIABLES
    server,     \* action_server_
    pc,         \* where the execute thread is
    state,      \* state_
    attempts,   \* num_planning_attempts_
    plan,       \* the goal current_trajectory_ was planned for; 0 when it has no points
    scene,      \* the goal planning_scene_state_ was made for; 0 is NULL
    req,        \* the goal of original_request_
    checked,    \* the request passed doPrePlanningChecks: with the same scene it will again
    headDone,   \* head_monitor_done_
    sent,       \* the goal handle of head_monitor_client_: for which goal, and its phase
    cancels,    \* the goals clients have asked to cancel
    handover    \* history: what a goal that preempted another one has left since resetStateMachine

vars == <<server, pc, state, attempts, plan, scene, req, checked, headDone, sent, cancels, handover>>
machine == <<state, attempts, plan, handover>>
request == <<scene, req, checked>>
monitor == <<headDone, sent>>

Current == server.current
AwaitsMonitor == sent.phase \in {"running", "cancelled"}

Init ==
    /\ server = NewServer(Goals) /\ pc = "idle"
    /\ state = "PLANNING" /\ attempts = 0 /\ plan = 0
    /\ scene = 0 /\ req = 0 /\ checked = FALSE
    /\ headDone = FALSE /\ sent = [goal |-> 0, phase |-> "none"]
    /\ cancels = {} /\ handover = "none"

-----------------------------------------------------------------------------
(* Clients of the action *)

SendGoal(g) ==
    /\ Sendable(server, g)
    /\ server' = Receive(server, g)
    /\ UNCHANGED <<pc, machine, request, monitor, cancels>>

CancelGoal(g) ==
    /\ server.status[g] \in {"pending", "active"} /\ g \notin cancels
    /\ server' = Cancel(server, g)
    /\ cancels' = cancels \cup {g}
    /\ UNCHANGED <<pc, machine, request, monitor>>

-----------------------------------------------------------------------------
(* The execute thread.  resetStateMachine() and the ways execute() ends *)

ResetStateMachine == state' = "PLANNING" /\ attempts' = 0 /\ plan' = 0 /\ handover' = "none"

EndsWith(status) == server' = Settle(server, status) /\ pc' = "returned"

\* The server's executeLoop: it accepts the goal that waits and calls execute(),
\* and it aborts a goal that execute() left active.
Accept ==
    /\ pc = "idle" /\ IsNewGoalAvailable(server)
    /\ server' = AcceptNewGoal(server)
    /\ pc' = "scan"
    /\ UNCHANGED <<machine, request, monitor, cancels>>

Returned ==
    /\ pc = "returned"
    /\ server' = Settle(server, "aborted")
    /\ pc' = "idle"
    /\ UNCHANGED <<machine, request, monitor, cancels>>

\* The preplan scan, whatever comes of it: sendGoalAndWait gives up after 31s.
ScanEnds ==
    /\ pc = "scan"
    /\ pc' = "scene"
    /\ UNCHANGED <<server, machine, request, monitor, cancels>>

\* getAndSetPlanningScene and, when it works, the new original_request_.
SceneSet ==
    /\ scene' = Current /\ req' = Current /\ checked' = FALSE
    /\ UNCHANGED server

SceneFails ==
    /\ EndsWith("aborted")
    /\ scene' = 0
    /\ UNCHANGED <<req, checked>>

\* Mutant: a scene that could not be set does not end the goal.
FirstSceneUnchecked ==
    /\ pc = "scene"
    /\ SceneSet \/ (scene' = 0 /\ UNCHANGED <<server, req, checked>>)
    /\ pc' = "loop"
    /\ UNCHANGED <<machine, monitor, cancels>>

FirstScene ==
    /\ pc = "scene"
    /\ (SceneSet /\ pc' = "loop") \/ SceneFails
    /\ UNCHANGED <<machine, monitor, cancels>>

\* Mutant: the loop runs a cycle without a look at preemption.
ContinueRegardless ==
    /\ pc = "loop"
    /\ pc' = "cycle"
    /\ UNCHANGED <<server, machine, request, monitor, cancels>>

\* The top of the loop.  A preempting goal is accepted at once; its scene follows.
Continue ==
    /\ pc = "loop" /\ ~server.preempt
    /\ pc' = "cycle"
    /\ UNCHANGED <<server, machine, request, monitor, cancels>>

PreemptedByGoal ==
    /\ pc = "loop" /\ server.preempt /\ IsNewGoalAvailable(server)
    /\ server' = AcceptNewGoal(server)
    /\ scene' = 0
    /\ pc' = "rescene" /\ handover' = "bumped"
    /\ UNCHANGED <<state, attempts, plan, req, checked, monitor, cancels>>

NextScene ==
    /\ pc = "rescene"
    /\ \/ SceneSet /\ state' = "PLANNING" /\ pc' = "cycle" /\ UNCHANGED <<attempts, plan, handover>>
       \/ SceneFails /\ handover' = "dropped" /\ UNCHANGED <<state, attempts, plan>>
    /\ UNCHANGED <<monitor, cancels>>

\* Mutant: the goal is settled and the machine left where it was.
PreemptedWithoutReset ==
    /\ pc = "loop" /\ server.preempt /\ ~IsNewGoalAvailable(server)
    /\ sent' = IF state = "MONITOR" /\ AwaitsMonitor THEN [sent EXCEPT !.phase = "cancelled"] ELSE sent
    /\ scene' = 0
    /\ EndsWith("canceled")
    /\ UNCHANGED <<machine, req, checked, headDone, cancels>>

\* Mutant: the machine starts over and the goal keeps its status and the thread.
PreemptedWithoutStatus ==
    /\ pc = "loop" /\ server.preempt /\ ~IsNewGoalAvailable(server)
    /\ ResetStateMachine
    /\ pc' = "returned"
    /\ UNCHANGED <<server, scene, req, checked, monitor, cancels>>

PreemptedByClient ==
    /\ pc = "loop" /\ server.preempt /\ ~IsNewGoalAvailable(server)
    /\ sent' = IF state = "MONITOR" /\ AwaitsMonitor THEN [sent EXCEPT !.phase = "cancelled"] ELSE sent
    /\ scene' = 0
    /\ ResetStateMachine
    /\ EndsWith("canceled")
    /\ UNCHANGED <<req, checked, headDone, cancels>>

-----------------------------------------------------------------------------
(* executeCycle *)

InCycle(s) == pc = "cycle" /\ state = s
LoopsOn == pc' = "loop" /\ UNCHANGED server

\* Mutant: one attempt too many.
AttemptFailsLate(s) ==
    IF attempts > Attempts
    THEN ResetStateMachine /\ EndsWith("aborted")
    ELSE attempts' = attempts + 1 /\ state' = s /\ UNCHANGED <<plan, handover>> /\ LoopsOn

\* num_planning_attempts_++ and the test for one too many; s is the state otherwise.
AttemptFails(s) ==
    IF attempts + 1 > Attempts
    THEN ResetStateMachine /\ EndsWith("aborted")
    ELSE attempts' = attempts + 1 /\ state' = s /\ UNCHANGED <<plan, handover>> /\ LoopsOn

\* doPrePlanningChecks finds the start, the inverse kinematics or the goal at fault.
PrePlanningFails ==
    /\ InCycle("PLANNING") /\ ~checked
    /\ EndsWith("aborted")
    /\ UNCHANGED <<machine, request, monitor, cancels>>

AlreadyThere ==
    /\ InCycle("PLANNING") /\ ~checked
    /\ ResetStateMachine /\ EndsWith("succeeded")
    /\ UNCHANGED <<request, monitor, cancels>>

\* createPlan waits for the planner's service, for as long as there is none and without a
\* look at preemption, and then for the planner.
CreatePlan ==
    /\ InCycle("PLANNING")
    /\ checked' = TRUE
    /\ pc' = "plan"
    /\ UNCHANGED <<server, machine, scene, req, monitor, cancels>>

\* createPlan returns a trajectory that is valid.
PlanFound ==
    /\ pc = "plan"
    /\ plan' = req /\ state' = "START_CONTROL"
    /\ LoopsOn
    /\ UNCHANGED <<attempts, handover, request, monitor, cancels>>

\* createPlan returns nothing, or a trajectory that is not valid.
PlanFails ==
    /\ pc = "plan"
    /\ AttemptFails("PLANNING")
    /\ UNCHANGED <<request, monitor, cancels>>

FilterFails ==
    /\ InCycle("START_CONTROL")
    /\ ResetStateMachine /\ EndsWith("aborted")
    /\ UNCHANGED <<request, monitor, cancels>>

FilteredInvalid ==
    /\ InCycle("START_CONTROL")
    /\ AttemptFails("PLANNING")
    /\ UNCHANGED <<scene, req, checked, monitor, cancels>>

\* The filtered trajectory is valid for original_request_.  sendTrajectory clears
\* head_monitor_done_ first and replaces the client's goal handle last; the old
\* handle's callback may still come in between.
Filtered ==
    /\ InCycle("START_CONTROL")
    /\ headDone' = FALSE
    /\ pc' = "send"
    /\ UNCHANGED <<server, machine, request, sent, cancels>>

\* Mutant: head_monitor_done_ is cleared once the goal is sent, when the answer may
\* have come already.
SendThenClear ==
    /\ pc = "send"
    /\ sent' \in [goal : {Current}, phase : {"running", "none"}]
    /\ headDone' = FALSE
    /\ state' = "MONITOR"
    /\ LoopsOn
    /\ UNCHANGED <<attempts, plan, handover, request, cancels>>

SendTrajectory ==
    /\ pc = "send"
    /\ sent' = [goal |-> Current, phase |-> "running"]
    /\ state' = "MONITOR"
    /\ LoopsOn
    /\ UNCHANGED <<attempts, plan, handover, request, headDone, cancels>>

StillMonitoring ==
    /\ InCycle("MONITOR") /\ ~headDone
    /\ LoopsOn
    /\ UNCHANGED <<machine, request, monitor, cancels>>

\* The state of the robot decides, not what the head monitor reports.
MonitorOver ==
    /\ InCycle("MONITOR") /\ headDone
    /\ ResetStateMachine
    /\ EndsWith("succeeded") \/ EndsWith("aborted")
    /\ UNCHANGED <<request, monitor, cancels>>

\* monitorDoneCallback, on the thread of head_monitor_client_.
MonitorDone ==
    /\ AwaitsMonitor
    /\ sent' = [sent EXCEPT !.phase = "none"]
    /\ headDone' = TRUE
    /\ UNCHANGED <<server, pc, machine, request, cancels>>

-----------------------------------------------------------------------------
(* The whole system *)

Scene == FirstScene \/ NextScene
LoopTop == Continue \/ PreemptedByGoal \/ PreemptedByClient
Planning == PrePlanningFails \/ AlreadyThere \/ CreatePlan
Planned == PlanFound \/ PlanFails
StartControl == FilterFails \/ FilteredInvalid \/ Filtered \/ SendTrajectory
Monitoring == StillMonitoring \/ MonitorOver

Thread == Accept \/ Returned \/ ScanEnds \/ Scene \/ LoopTop \/ Planning \/ StartControl \/ Monitoring

Clients == \E g \in Goals : SendGoal(g) \/ CancelGoal(g)

Next == Clients \/ Thread \/ Planned \/ MonitorDone

Spec == Init /\ [][Next]_vars

\* The execute thread runs, and the services it calls answer or fail, but for the planner's:
\* nothing brings that one up if it is not there.  The head monitor may stay silent, and
\* clients send and cancel as they like.
FairSpec == Spec /\ WF_vars(Thread)

-----------------------------------------------------------------------------
(* Properties *)

Executing == {"scan", "scene", "loop", "rescene", "cycle", "plan", "send"}

TypeOK ==
    /\ server \in ServerType(Goals)
    /\ pc \in Executing \cup {"idle", "returned"}
    /\ state \in {"PLANNING", "START_CONTROL", "MONITOR"}
    /\ attempts \in 0..Attempts
    /\ {plan, scene, req} \subseteq Goals \cup {0} /\ {checked, headDone} \subseteq BOOLEAN
    /\ sent \in [goal : Goals \cup {0}, phase : {"none", "running", "cancelled"}]
    /\ cancels \subseteq Goals /\ handover \in {"none", "bumped", "dropped"}

\* execute() works on an active goal and on nothing else, and every return of it has
\* settled the goal: the abort of the action server's own loop is never needed.
ExecuteOwnsGoal == IsActive(server) <=> pc \in Executing

\* Every cycle plans for the goal that is active, in a scene made for it: neither
\* planning_scene_state_ nor original_request_ is one of an earlier goal, or NULL; and
\* START_CONTROL and MONITOR always have a trajectory: points.back() is safe.
CycleHasItsData ==
    pc \in {"loop", "cycle", "plan", "send"} =>
        /\ scene = Current /\ req = Current
        /\ state # "PLANNING" => plan # 0

\* As long as no goal has preempted another one since the machine was last reset,
\* execute() starts every goal in PLANNING, with no attempt spent and no trajectory of an
\* earlier goal.  A goal that preempts another one inherits its attempts (1237).
FreshMachine ==
    handover = "none" /\ pc \in {"idle", "scan", "scene"} => state = "PLANNING" /\ attempts = 0 /\ plan = 0

\* What MONITOR watches was planned and sent for this goal, unless a goal that preempted
\* another one could not set its scene: execute() then ends without a reset (1214), and
\* the goal that follows starts where the first one was.
MonitorsOwnTrajectory ==
    handover # "dropped" /\ pc \in {"loop", "cycle"} /\ state = "MONITOR" => sent.goal = Current /\ plan = Current

\* MONITOR never waits for an answer that cannot come.
AnswerWillCome == state = "MONITOR" /\ ~headDone => AwaitsMonitor

\* execute() has a goal of its own, and one that can end.
GoalIsServed == ExecuteOwnsGoal /\ AnswerWillCome

\* The state machine and all it points to are the active goal's, although they live in
\* the node from one goal to the next (resetStateMachine, revertPlanningScene): the scene
\* and the request always, the rest when no preempting goal has left it.
MachineIsOwn == FreshMachine /\ MonitorsOwnTrajectory /\ CycleHasItsData

\* Unless createPlan waits for the planner for good, which no cancel interrupts (689): a
\* goal the client cancels ends, whatever the head monitor does; and when the head monitor
\* answers what it is sent, every goal ends.
EveryGoalEnds ==
    \/ <>[](pc = "plan")
    \/ /\ \A g \in Goals : g \in cancels ~> server.status[g] \in Terminal
       /\ WF_vars(MonitorDone) =>
              \A g \in Goals : server.status[g] # "unsent" ~> server.status[g] \in Terminal

=============================================================================
