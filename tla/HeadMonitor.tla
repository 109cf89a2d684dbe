----------------------------- MODULE HeadMonitor -----------------------------
(***************************************************************************)
(* move_arm_head_monitor.cpp: a node that executes an arm trajectory while *)
(* the head looks ahead of it.  One status variable, without a lock, is    *)
(* shared by the callbacks of the monitor action (on the spinner's         *)
(* threads), two one-shot timers, the point cloud callback, the preplan    *)
(* scan (its action server's own thread) and the done callbacks of the     *)
(* arms' action clients (a thread each).  A callback of the monitor action *)
(* holds that server's lock, which settling a goal also takes; stopping or *)
(* replacing a timer waits for its running callback.                       *)
(***************************************************************************)
EXTENDS ActionServer, FiniteSets

CONSTANTS
    Arms,           \* the two arm groups
    Goals,          \* goals of the monitor action, numbered by time stamp
    ArmOf,          \* the arm of every goal's group
    Modes           \* the configurations of node and clients

ASSUME ArmsAssumption == IsFiniteSet(Arms) /\ ArmOf \in [Goals -> Arms]
ASSUME GoalsAssumption == Goals \subseteq Nat \ {0}
ASSUME ModesAssumption ==
    Modes \subseteq [used : SUBSET Arms,      \* those with use_<arm>_: only they have a controller client
                     doScan : BOOLEAN,        \* do_preplan_scan_
                     doMonitoring : BOOLEAN,  \* do_monitoring_
                     overlap : BOOLEAN,       \* whether one client's scan may meet another's unfinished goal
                     concurrent : BOOLEAN]    \* whether the callbacks interleave, as on AsyncSpinner(3)

VARIABLES
    server,         \* head_monitor_action_server_; monitor_goal_ is its current goal
    serving,        \* where the server's goal or preempt callback is
    status,         \* current_execution_status_
    client,         \* current_arm_controller_action_client_: the arm it belongs to
    arms,           \* per arm, its client's handle: for which goal (0: a joint limit
                    \* correction), its phase, and whether a done callback hears of it
    done,           \* per arm, how far controllerDoneCallback is
    startTimer,     \* start_trajectory_timer_
    pauseTimer,     \* paused_callback_timer_
    cloud,          \* where cloudCallback is; past "idle" it holds the bodies lock
    scan,           \* the preplan scan: for which arm, and where it is
    mode            \* the configuration, for good

vars == <<server, serving, status, client, arms, done, startTimer, pauseTimer, cloud, scan, mode>>
timers == <<startTimer, pauseTimer>>

Current == server.current
Looks == mode.doScan /\ mode.doMonitoring
Relevant == {"MONITOR_BEFORE_EXECUTION", "EXECUTING", "PAUSED"}
Unused == "none"
AtRest == [goal |-> 0, phase |-> "none", heard |-> FALSE]

Init ==
    /\ server = NewServer(Goals) /\ serving = "idle"
    /\ status = "IDLE" /\ client = Unused
    /\ arms = [a \in Arms |-> AtRest] /\ done = [a \in Arms |-> "none"]
    /\ startTimer = "off" /\ pauseTimer = "off"
    /\ cloud = "idle" /\ scan = [arm |-> Unused, pc |-> "idle"]
    /\ mode \in Modes

-----------------------------------------------------------------------------
(* Who runs, and what they call *)

PauseRuns == pauseTimer \in {"stopTimer", "stopArm", "abort"}
StartRuns == startTimer = "sending"

\* No callback is under way; the scan runs on a thread of its own, for seconds.
Quiet == /\ serving = "idle" /\ cloud = "idle" /\ ~StartRuns /\ ~PauseRuns
         /\ \A a \in Arms : done[a] = "none"

MayBegin == mode.concurrent \/ Quiet

BodiesUnlocked == cloud = "idle" /\ scan.pc = "idle"

Send(g) == arms' = [arms EXCEPT ![client] = [goal |-> g, phase |-> "running", heard |-> TRUE]]

Cancelled(a) == IF arms[a].phase = "running" THEN [arms EXCEPT ![a].phase = "cancelled"] ELSE arms

\* Mutant: the controller is not told.
StopArmNever == UNCHANGED arms

StopArm == arms' = IF status = "EXECUTING" THEN Cancelled(client) ELSE arms

-----------------------------------------------------------------------------
(* monitorPreemptCallback and monitorGoalCallback, inside the server's own *)

SendGoal(g) ==
    /\ serving = "idle" /\ MayBegin
    /\ mode.overlap \/ scan.pc = "idle"
    /\ Sendable(server, g)
    /\ server' = Receive(server, g)
    /\ serving' = IF IsActive(server) THEN "preempt" ELSE "accept"
    /\ UNCHANGED <<status, client, arms, done, timers, cloud, scan, mode>>

CancelGoal(g) ==
    /\ serving = "idle" /\ MayBegin
    /\ g = Current /\ IsActive(server)
    /\ server' = Cancel(server, g)
    /\ serving' = "preempt"
    /\ UNCHANGED <<status, client, arms, done, timers, cloud, scan, mode>>

AfterPreempt == IF IsNewGoalAvailable(server) THEN "accept" ELSE "idle"

\* "Got preempt not in a relevant mode"
PreemptBegins ==
    /\ serving = "preempt"
    /\ serving' = IF status \in Relevant THEN "stopStart" ELSE AfterPreempt
    /\ UNCHANGED <<server, status, client, arms, done, timers, cloud, scan, mode>>

PreemptStopsStart ==
    /\ serving = "stopStart" /\ ~StartRuns
    /\ startTimer' = "off"
    /\ serving' = "stopPause"
    /\ UNCHANGED <<server, status, client, arms, done, pauseTimer, cloud, scan, mode>>

PreemptStopsPause ==
    /\ serving = "stopPause" /\ ~PauseRuns
    /\ pauseTimer' = "off"
    /\ serving' = "stopArm"
    /\ UNCHANGED <<server, status, client, arms, done, startTimer, cloud, scan, mode>>

\* Mutant: the goal keeps its status.
PreemptsSilently ==
    /\ serving = "stopArm"
    /\ StopArm
    /\ status' = "IDLE"
    /\ serving' = AfterPreempt
    /\ UNCHANGED <<server, client, done, timers, cloud, scan, mode>>

Preempts ==
    /\ serving = "stopArm"
    /\ StopArm
    /\ status' = "IDLE"
    /\ server' = Settle(server, "canceled")
    /\ serving' = AfterPreempt
    /\ UNCHANGED <<client, done, timers, cloud, scan, mode>>

\* A goal for an arm that is not used is aborted at once.  The test for a goal in the
\* middle of another asks for three statuses at once: its stopEverything never runs.
AcceptGoal ==
    /\ serving = "accept"
    /\ LET accepted == AcceptNewGoal(server)
           arm == ArmOf[accepted.current]
       IN IF arm \in mode.used
          THEN /\ server' = accepted /\ client' = arm
               /\ status' = IF Looks THEN "MONITOR_BEFORE_EXECUTION" ELSE "EXECUTING"
               /\ serving' = IF Looks THEN "arm" ELSE "send"
          ELSE /\ server' = Settle(accepted, "aborted")
               /\ serving' = "idle"
               /\ UNCHANGED <<client, status>>
    /\ UNCHANGED <<arms, done, timers, cloud, scan, mode>>

GoalArmsTimer ==
    /\ serving = "arm" /\ ~StartRuns
    /\ startTimer' = "armed"
    /\ serving' = "idle"
    /\ UNCHANGED <<server, status, client, arms, done, pauseTimer, cloud, scan, mode>>

\* Without monitoring the callback calls trajectoryTimerCallback itself.
GoalSends ==
    /\ serving = "send"
    /\ Send(Current)
    /\ serving' = "idle"
    /\ UNCHANGED <<server, status, client, done, timers, cloud, scan, mode>>

-----------------------------------------------------------------------------
(* trajectoryTimerCallback and pauseTimeoutCallback *)

StartTimerFires ==
    /\ startTimer = "armed" /\ MayBegin
    /\ startTimer' = "sending"
    /\ status' = "EXECUTING"
    /\ UNCHANGED <<server, serving, client, arms, done, pauseTimer, cloud, scan, mode>>

StartTimerSends ==
    /\ StartRuns
    /\ Send(Current)
    /\ startTimer' = "off"
    /\ UNCHANGED <<server, serving, status, client, done, pauseTimer, cloud, scan, mode>>

PauseTimerFires ==
    /\ pauseTimer = "armed" /\ MayBegin
    /\ pauseTimer' = "stopTimer"
    /\ UNCHANGED <<server, serving, status, client, arms, done, startTimer, cloud, scan, mode>>

PauseStopsTimer ==
    /\ pauseTimer = "stopTimer" /\ ~StartRuns
    /\ startTimer' = "off"
    /\ pauseTimer' = "stopArm"
    /\ UNCHANGED <<server, serving, status, client, arms, done, cloud, scan, mode>>

\* Mutant: the status of HeadMonitorStatus.msg that no callback knows.
PauseReportsTimeout ==
    /\ pauseTimer = "stopArm"
    /\ StopArm
    /\ status' = "PAUSE_TIMEOUT"
    /\ pauseTimer' = "abort"
    /\ UNCHANGED <<server, serving, client, done, startTimer, cloud, scan, mode>>

PauseStopsArm ==
    /\ pauseTimer = "stopArm"
    /\ StopArm
    /\ status' = "IDLE"
    /\ pauseTimer' = "abort"
    /\ UNCHANGED <<server, serving, client, done, startTimer, cloud, scan, mode>>

PauseAborts ==
    /\ pauseTimer = "abort" /\ serving = "idle"
    /\ server' = Settle(server, "aborted")
    /\ pauseTimer' = "off"
    /\ UNCHANGED <<serving, status, client, arms, done, startTimer, cloud, scan, mode>>

-----------------------------------------------------------------------------
(* cloudCallback.  The status is read again at every branch; a cloud that leaves
   no points to check, or whose verdict asks for no change, only passes. *)

CloudArrives ==
    /\ Looks /\ BodiesUnlocked /\ MayBegin
    /\ status \in Relevant
    /\ cloud' = "checking"
    /\ UNCHANGED <<server, serving, status, client, arms, done, timers, scan, mode>>

CloudPasses ==
    /\ cloud = "checking"
    /\ cloud' = "idle"
    /\ UNCHANGED <<server, serving, status, client, arms, done, timers, scan, mode>>

CloudInvalid ==
    /\ cloud = "checking" /\ status \in {"MONITOR_BEFORE_EXECUTION", "EXECUTING"}
    /\ cloud' = "stopping"
    /\ UNCHANGED <<server, serving, status, client, arms, done, timers, scan, mode>>

\* Mutant: whatever the status, there is only a timer to stop.
CloudStopsTimerOnly ==
    /\ cloud = "stopping"
    /\ cloud' = "stopTimer"
    /\ UNCHANGED <<server, serving, status, client, arms, done, timers, scan, mode>>

CloudStops ==
    /\ cloud = "stopping"
    /\ IF status = "MONITOR_BEFORE_EXECUTION"
       THEN cloud' = "stopTimer" /\ UNCHANGED arms
       ELSE cloud' = "pausing" /\ arms' = Cancelled(client)
    /\ UNCHANGED <<server, serving, status, client, done, timers, scan, mode>>

CloudStopsTimer ==
    /\ cloud = "stopTimer" /\ ~StartRuns
    /\ startTimer' = "off"
    /\ cloud' = "pausing"
    /\ UNCHANGED <<server, serving, status, client, arms, done, pauseTimer, scan, mode>>

CloudPauses ==
    /\ cloud = "pausing"
    /\ status' = "PAUSED"
    /\ cloud' = "timing"
    /\ UNCHANGED <<server, serving, client, arms, done, timers, scan, mode>>

\* Mutant: a pause is not timed.
CloudPausesForEver ==
    /\ cloud = "timing"
    /\ cloud' = "idle"
    /\ UNCHANGED <<server, serving, status, client, arms, done, timers, scan, mode>>

CloudTimesPause ==
    /\ cloud = "timing" /\ ~PauseRuns
    /\ pauseTimer' = "armed"
    /\ cloud' = "idle"
    /\ UNCHANGED <<server, serving, status, client, arms, done, startTimer, scan, mode>>

CloudValid ==
    /\ cloud = "checking" /\ status = "PAUSED"
    /\ cloud' = "unpausing"
    /\ UNCHANGED <<server, serving, status, client, arms, done, timers, scan, mode>>

\* Mutant: the pause goes on being timed while the trajectory is resumed.
CloudUnpausesTimed ==
    /\ cloud = "unpausing"
    /\ status' = "MONITOR_BEFORE_EXECUTION"
    /\ cloud' = "resuming"
    /\ UNCHANGED <<server, serving, client, arms, done, timers, scan, mode>>

CloudUnpauses ==
    /\ cloud = "unpausing" /\ ~PauseRuns
    /\ pauseTimer' = "off"
    /\ status' = "MONITOR_BEFORE_EXECUTION"
    /\ cloud' = "resuming"
    /\ UNCHANGED <<server, serving, client, arms, done, startTimer, scan, mode>>

CloudResumes ==
    /\ cloud = "resuming" /\ ~StartRuns
    /\ startTimer' = "armed"
    /\ cloud' = "idle"
    /\ UNCHANGED <<server, serving, status, client, arms, done, pauseTimer, scan, mode>>

-----------------------------------------------------------------------------
(* controllerDoneCallback: the controller of arm a has finished or was cancelled *)

DoneArrives(a) ==
    /\ arms[a].phase # "none" /\ done[a] = "none" /\ MayBegin
    /\ arms' = [arms EXCEPT ![a] = AtRest]
    /\ done' = [done EXCEPT ![a] = IF arms[a].heard /\ status = "EXECUTING" THEN "seen" ELSE "none"]
    /\ UNCHANGED <<server, serving, status, client, timers, cloud, scan, mode>>

DoneIdles(a) ==
    /\ done[a] = "seen"
    /\ status' = "IDLE"
    /\ done' = [done EXCEPT ![a] = "idle"]
    /\ UNCHANGED <<server, serving, client, arms, timers, cloud, scan, mode>>

\* Mutant: the goal is not told.
DoneSettlesNothing(a) ==
    /\ done[a] = "idle" /\ serving = "idle"
    /\ done' = [done EXCEPT ![a] = "none"]
    /\ UNCHANGED <<server, serving, status, client, arms, timers, cloud, scan, mode>>

DoneSettles(a) ==
    /\ done[a] = "idle" /\ serving = "idle"
    /\ server' = Settle(server, "succeeded")
    /\ done' = [done EXCEPT ![a] = "none"]
    /\ UNCHANGED <<serving, status, client, arms, timers, cloud, scan, mode>>

-----------------------------------------------------------------------------
(* preplanHeadScanCallback *)

ScanBegins(a) ==
    /\ BodiesUnlocked
    /\ mode.overlap \/ (Quiet /\ ~IsActive(server))
    /\ scan' = [arm |-> a, pc |-> "limits"]
    /\ UNCHANGED <<server, serving, status, client, arms, done, timers, cloud, mode>>

\* moveInsideSafetyLimits takes the current client for a correction, and waits.
ScanCorrects ==
    /\ scan.pc = "limits" /\ scan.arm \in mode.used
    /\ client' = scan.arm
    /\ arms' = [arms EXCEPT ![scan.arm] = [AtRest EXCEPT !.phase = "running"]]
    /\ scan' = [scan EXCEPT !.pc = "correcting"]
    /\ UNCHANGED <<server, serving, status, done, timers, cloud, mode>>

\* It is over, or it is given up.
ScanCorrected ==
    /\ scan.pc = "correcting"
    /\ arms' = Cancelled(scan.arm)
    /\ scan' = [scan EXCEPT !.pc = "corrected"]
    /\ UNCHANGED <<server, serving, status, client, done, timers, cloud, mode>>

ScanLooks ==
    /\ scan.pc \in {"limits", "corrected"}
    /\ IF mode.doScan
       THEN status' = "PREPLAN_SCAN" /\ scan' = [scan EXCEPT !.pc = "looking"]
       ELSE scan' = [arm |-> Unused, pc |-> "idle"] /\ UNCHANGED status
    /\ UNCHANGED <<server, serving, client, arms, done, timers, cloud, mode>>

ScanEnds ==
    /\ scan.pc = "looking"
    /\ status' = "IDLE"
    /\ scan' = [arm |-> Unused, pc |-> "idle"]
    /\ UNCHANGED <<server, serving, client, arms, done, timers, cloud, mode>>

-----------------------------------------------------------------------------
Clients == \E g \in Goals : SendGoal(g) \/ CancelGoal(g)
Serving == \/ PreemptBegins \/ PreemptStopsStart \/ PreemptStopsPause \/ Preempts
           \/ AcceptGoal \/ GoalArmsTimer \/ GoalSends
StartTimer == StartTimerFires \/ StartTimerSends
PauseTimer == PauseTimerFires \/ PauseStopsTimer \/ PauseStopsArm \/ PauseAborts
CloudChecks == CloudPasses \/ CloudInvalid \/ CloudStops \/ CloudStopsTimer \/ CloudPauses
               \/ CloudTimesPause \/ CloudValid \/ CloudUnpauses \/ CloudResumes
Done(a) == DoneArrives(a) \/ DoneIdles(a) \/ DoneSettles(a)
Scanning == ScanCorrects \/ ScanCorrected \/ ScanLooks \/ ScanEnds

Next == \/ Clients \/ Serving \/ StartTimer \/ PauseTimer \/ CloudArrives \/ CloudChecks
        \/ \E a \in Arms : Done(a) \/ ScanBegins(a)
        \/ Scanning

Spec == Init /\ [][Next]_vars

\* Callbacks that began go on and scans end.  The callback queue is first in, first
\* out: a timer that is due and a controller's answer get their turn between clouds.
\* Goals, cancellations, clouds and scans come as they like.
FairSpec == /\ Spec
            /\ WF_vars(Serving) /\ WF_vars(CloudChecks) /\ WF_vars(Scanning)
            /\ SF_vars(StartTimer) /\ SF_vars(PauseTimer)
            /\ \A a \in Arms : SF_vars(Done(a))

-----------------------------------------------------------------------------
(* Properties *)

TypeOK ==
    /\ server \in ServerType(Goals)
    /\ serving \in {"idle", "preempt", "stopStart", "stopPause", "stopArm", "accept", "arm", "send"}
    /\ status \in Relevant \cup {"IDLE", "PREPLAN_SCAN"}
    /\ client \in mode.used \cup {Unused} /\ mode \in Modes
    /\ arms \in [Arms -> [goal : Goals \cup {0}, phase : {"none", "running", "cancelled"}, heard : BOOLEAN]]
    /\ done \in [Arms -> {"none", "seen", "idle"}]
    /\ startTimer \in {"off", "armed", "sending"}
    /\ pauseTimer \in {"off", "armed", "stopTimer", "stopArm", "abort"}
    /\ cloud \in {"idle", "checking", "stopping", "stopTimer", "pausing", "timing", "unpausing", "resuming"}
    /\ scan \in [arm : Arms \cup {Unused}, pc : {"idle", "limits", "correcting", "corrected", "looking"}]

\* Callbacks take turns, and no scan comes in the middle of a goal.
InTurn == ~mode.concurrent /\ ~mode.overlap
OneArmInTurn == InTurn /\ Cardinality(mode.used) = 1

\* "Trajectory judged invalid. Pausing": no arm moves along a paused trajectory.
PausedIsStill == status = "PAUSED" => \A a \in Arms : ~(arms[a].phase = "running" /\ arms[a].heard)

\* None does when callbacks take turns and one arm is in use.
PausedIsStillInTurn == OneArmInTurn => PausedIsStill

\* Between callbacks the status says what will answer the active goal: a timer, the
\* controller of its arm or the pause's end.  Without an active goal nothing is armed.
StatusTellsWhatComes ==
    InTurn /\ Quiet /\ scan.pc = "idle" =>
        IF IsActive(server)
        THEN \/ status = "MONITOR_BEFORE_EXECUTION" /\ startTimer = "armed" /\ pauseTimer = "off"
             \/ status = "EXECUTING" /\ arms[client].goal = Current /\ arms[client].phase = "running" /\ pauseTimer = "off"
             \/ status = "PAUSED" /\ pauseTimer = "armed" /\ startTimer = "off"
        ELSE status = "IDLE" /\ startTimer = "off" /\ pauseTimer = "off"

\* Then too, the arm moves along a trajectory only for the active goal: an answer
\* that comes late never ends another goal's execution.
MovesForActiveGoal ==
    OneArmInTurn /\ Quiet =>
        \A a \in Arms : arms[a].phase = "running" /\ arms[a].heard =>
            server.status[arms[a].goal] = "active" /\ a = ArmOf[arms[a].goal]

\* Status, timers and arms agree: what the head monitor tells is what the arm does.
ArmObeysStatus == PausedIsStillInTurn /\ StatusTellsWhatComes /\ MovesForActiveGoal

\* A goal the client cancels ends.
CancelEnds == serving = "preempt" ~> ~IsActive(server)

\* A goal that is not paused and resumed for ever ends.
EndsUnlessPaused ==
    (<>[](status # "PAUSED") \/ <>[](status = "PAUSED")) =>
        \A g \in Goals : server.status[g] # "unsent" ~> server.status[g] \in Terminal

\* The goals' ends (preemptCallback, the pause's timeout, the controller's answer).
GoalsEnd == CancelEnds /\ EndsUnlessPaused

=============================================================================
