----------------------- MODULE MoveArmWarehouseProofs -----------------------
(***************************************************************************)
(* Proofs about two programs of move_arm_warehouse.  MoveArm, for any      *)
(* goals and any number of attempts: execute() has a goal that can end,    *)
(* and the state machine is that goal's, unless one that preempted another *)
(* has left it.  EditorScene, for any objects, links, poses, trajectories  *)
(* and sessions: what the editor shows is what the environment server      *)
(* answered, kinematic states are owned once, and no pointer that is NULL  *)
(* is followed.                                                            *)
(***************************************************************************)
EXTENDS MoveArm, EditorScene, FiniteSetTheorems, FunctionTheorems, SequenceTheorems,
        WellFoundedInduction, TLAPS

-----------------------------------------------------------------------------
(* The action server: what its calls do to its record *)

\* A server without goals is a server.
LEMMA NewServerType == NewServer(Goals) \in ServerType(Goals)
BY DEF NewServer, ServerType, Statuses

\* goalCallback makes the goal wait and leaves the current one and its status alone.
LEMMA ReceiveFacts ==
    ASSUME NEW srv \in ServerType(Goals), NEW g \in Goals
    PROVE  /\ Receive(srv, g) \in ServerType(Goals)
           /\ Receive(srv, g).next = g /\ Receive(srv, g).current = srv.current
           /\ \A h \in Goals : Receive(srv, g).status[h] =
                  IF h = g THEN "pending" ELSE IF h = srv.next THEN "canceled" ELSE srv.status[h]
<1>1. DOMAIN srv.status = Goals BY DEF ServerType
<1>2. IsActive(srv) \in BOOLEAN BY DEF IsActive
<1> QED BY <1>1, <1>2 DEF Receive, ServerType, Statuses, Terminal

\* preemptCallback raises a flag and changes no goal.
LEMMA CancelFacts ==
    ASSUME NEW srv \in ServerType(Goals), NEW g
    PROVE  /\ Cancel(srv, g) \in ServerType(Goals)
           /\ Cancel(srv, g).status = srv.status /\ Cancel(srv, g).current = srv.current
           /\ Cancel(srv, g).next = srv.next
BY DEF Cancel, ServerType

\* acceptNewGoal makes the goal that waits the active one.
LEMMA AcceptNewGoalFacts ==
    ASSUME NEW srv \in ServerType(Goals)
    PROVE  /\ AcceptNewGoal(srv) \in ServerType(Goals)
           /\ AcceptNewGoal(srv).current = srv.next /\ AcceptNewGoal(srv).next = 0
           /\ srv.next \in Goals /\ srv.next # 0 => IsActive(AcceptNewGoal(srv))
           /\ \A h \in Goals : h # srv.next /\ h # srv.current =>
                  AcceptNewGoal(srv).status[h] = srv.status[h]
<1>1. DOMAIN srv.status = Goals BY DEF ServerType
<1> DEFINE acc == AcceptNewGoal(srv)
<1>2. /\ acc \in ServerType(Goals) /\ acc.current = srv.next /\ acc.next = 0
      /\ \A h \in Goals : acc.status[h] = IF h = srv.next THEN "active"
                             ELSE IF h = srv.current /\ IsActive(srv) THEN "canceled" ELSE srv.status[h]
  BY <1>1 DEF AcceptNewGoal, ServerType, Statuses, Terminal
<1> HIDE DEF acc
<1>3. srv.next \in Goals /\ srv.next # 0 => IsActive(acc) BY <1>2 DEF IsActive
<1> QED BY <1>2, <1>3 DEF acc

\* setSucceeded, setAborted and setPreempted change the current goal's status at most.
LEMMA SettleFacts ==
    ASSUME NEW srv \in ServerType(Goals), NEW s \in Statuses
    PROVE  /\ Settle(srv, s) \in ServerType(Goals)
           /\ Settle(srv, s).current = srv.current /\ Settle(srv, s).next = srv.next
           /\ Settle(srv, s).preempt = srv.preempt
           /\ \A h \in Goals : h # srv.current => Settle(srv, s).status[h] = srv.status[h]
           /\ s # "active" => ~IsActive(Settle(srv, s))
BY DEF Settle, IsActive, ServerType

\* The goal that waits is pending, so it is not the one that is active.
Pending(srv) == srv.next # 0 => srv.status[srv.next] = "pending"

\* A goal that arrives leaves the active one active, one that settles leaves the waiting
\* one, and the waiting one is active as soon as it is accepted.
LEMMA ActiveAndPending ==
    ASSUME NEW srv \in ServerType(Goals), Pending(srv)
    PROVE  /\ \A g \in Goals : Sendable(srv, g) =>
                  Pending(Receive(srv, g)) /\ (IsActive(Receive(srv, g)) <=> IsActive(srv))
           /\ \A g \in Goals : Pending(Cancel(srv, g)) /\ (IsActive(Cancel(srv, g)) <=> IsActive(srv))
           /\ \A s \in Terminal : Pending(Settle(srv, s)) /\ ~IsActive(Settle(srv, s))
           /\ Pending(AcceptNewGoal(srv)) /\ (srv.next # 0 => IsActive(AcceptNewGoal(srv)))
<1> USE DEF Pending
<1>1. ASSUME NEW g \in Goals, Sendable(srv, g)
      PROVE  Pending(Receive(srv, g)) /\ (IsActive(Receive(srv, g)) <=> IsActive(srv))
  <2>1. srv.current \in Goals \cup {0} /\ (IsActive(srv) => srv.current # g /\ srv.current # srv.next)
    BY <1>1 DEF Sendable, IsActive, ServerType
  <2> QED BY <2>1, ReceiveFacts DEF IsActive
<1>2. ASSUME NEW g \in Goals PROVE Pending(Cancel(srv, g)) /\ (IsActive(Cancel(srv, g)) <=> IsActive(srv))
  BY CancelFacts DEF IsActive
<1>3. ASSUME NEW s \in Terminal PROVE Pending(Settle(srv, s)) /\ ~IsActive(Settle(srv, s))
  BY DEF Settle, IsActive, ServerType, Terminal
<1>4. Pending(AcceptNewGoal(srv)) /\ (srv.next # 0 => IsActive(AcceptNewGoal(srv)))
  BY AcceptNewGoalFacts DEF ServerType
<1> QED BY <1>1, <1>2, <1>3, <1>4

-----------------------------------------------------------------------------
(* Types *)

\* Resetting the machine, settling the goal and spending an attempt keep the types.
LEMMA ThreadTypes ==
    ASSUME TypeOK
    PROVE  /\ Current \in Goals \cup {0}
           /\ \A s \in Terminal : Settle(server, s) \in ServerType(Goals)
           /\ ResetStateMachine => state' = "PLANNING" /\ attempts' \in 0..Attempts /\ plan' \in Goals \cup {0} /\ handover' = "none"
           /\ AttemptFails("PLANNING") =>
                  /\ state' = "PLANNING" /\ attempts' \in 0..Attempts /\ plan' \in Goals \cup {0}
                  /\ handover' \in {"none", handover} /\ server' \in ServerType(Goals) /\ pc' \in {"loop", "returned"}
<1>1. \A s \in Terminal : Settle(server, s) \in ServerType(Goals)
  BY SettleFacts DEF TypeOK, Terminal, Statuses
<1>2. Current \in Goals \cup {0} BY DEF TypeOK, Current, ServerType
<1>3. ResetStateMachine => state' = "PLANNING" /\ attempts' \in 0..Attempts /\ plan' \in Goals \cup {0} /\ handover' = "none"
  BY AttemptsAssumption DEF ResetStateMachine
<1> QED
  BY <1>1, <1>2, <1>3, AttemptsAssumption DEF AttemptFails, EndsWith, LoopsOn, Terminal, TypeOK

\* No step of a client, the execute thread or the head monitor leaves a variable's type.
LEMMA TypeStep ==
    ASSUME TypeOK, [Next]_vars
    PROVE  TypeOK'
<1> USE DEF TypeOK, machine, request, monitor
<1>1. /\ Current \in Goals \cup {0}
      /\ \A s \in {"succeeded", "aborted", "canceled"} : Settle(server, s) \in ServerType(Goals)
  BY ThreadTypes DEF Terminal
<1>2. AcceptNewGoal(server) \in ServerType(Goals) BY AcceptNewGoalFacts
<1>3. ASSUME NEW g \in Goals, SendGoal(g) \/ CancelGoal(g) PROVE TypeOK'
  <2>1. Receive(server, g) \in ServerType(Goals) /\ Cancel(server, g) \in ServerType(Goals)
    BY ReceiveFacts, CancelFacts
  <2> QED BY <1>3, <2>1 DEF SendGoal, CancelGoal, Executing
<1>4. ASSUME Accept \/ Returned \/ ScanEnds PROVE TypeOK'
  BY <1>1, <1>2, <1>4 DEF Accept, Returned, ScanEnds, Executing
<1>5. ASSUME Scene PROVE TypeOK'
  BY <1>1, <1>5 DEF Scene, FirstScene, NextScene, SceneSet, SceneFails, EndsWith, Executing
<1>6. ASSUME LoopTop PROVE TypeOK'
  BY <1>1, <1>2, <1>6, ThreadTypes
  DEF LoopTop, Continue, PreemptedByGoal, PreemptedByClient, EndsWith, Executing
<1>7. ASSUME Planning \/ Planned PROVE TypeOK'
  BY <1>1, <1>7, ThreadTypes
  DEF Planning, Planned, PrePlanningFails, AlreadyThere, CreatePlan, PlanFound, PlanFails, EndsWith, LoopsOn, Executing
<1>8. ASSUME StartControl PROVE TypeOK'
  <2>1. ASSUME SendTrajectory PROVE TypeOK' BY <1>1, <2>1 DEF SendTrajectory, LoopsOn, Executing
  <2>2. ASSUME FilterFails \/ FilteredInvalid PROVE TypeOK'
    BY <1>1, <2>2, ThreadTypes DEF FilterFails, FilteredInvalid, EndsWith, Executing
  <2>3. ASSUME Filtered PROVE TypeOK' BY <2>3 DEF Filtered, Executing
  <2> QED BY <1>8, <2>1, <2>2, <2>3 DEF StartControl
<1>9. ASSUME Monitoring PROVE TypeOK'
  BY <1>1, <1>9, ThreadTypes DEF Monitoring, StillMonitoring, MonitorOver, EndsWith, LoopsOn, Executing
<1>10. ASSUME MonitorDone PROVE TypeOK' BY <1>10 DEF MonitorDone, Executing
<1>11. ASSUME UNCHANGED vars PROVE TypeOK' BY <1>11 DEF vars, Executing
<1> QED BY <1>3, <1>4, <1>5, <1>6, <1>7, <1>8, <1>9, <1>10, <1>11 DEF Next, Clients, Thread

\* The variables keep their types.
THEOREM TypeCorrect == Spec => []TypeOK
<1>1. ASSUME Init PROVE TypeOK
  <2>1. server \in ServerType(Goals) BY <1>1, NewServerType DEF Init
  <2>2. attempts \in 0..Attempts BY <1>1, AttemptsAssumption DEF Init
  <2>3. pc = "idle" /\ state = "PLANNING" BY <1>1 DEF Init
  <2>4. plan = 0 /\ scene = 0 /\ req = 0 /\ checked = FALSE /\ headDone = FALSE BY <1>1 DEF Init
  <2>5. sent = [goal |-> 0, phase |-> "none"] /\ cancels = {} /\ handover = "none" BY <1>1 DEF Init
  <2> QED BY <2>1, <2>2, <2>3, <2>4, <2>5 DEF TypeOK
<1>2. TypeOK /\ [Next]_vars => TypeOK' BY TypeStep
<1> QED BY <1>1, <1>2, PTL DEF Spec

-----------------------------------------------------------------------------
(* execute() and its goal *)

\* The part of the invariant about the goal execute() serves.
Served == Pending(server) /\ GoalIsServed

\* What a goal that arrives, is cancelled, settles or is accepted does to the server.
LEMMA ServerSteps ==
    ASSUME TypeOK, Pending(server)
    PROVE  /\ \A g \in Goals : Sendable(server, g) /\ server' = Receive(server, g) =>
                  Pending(server') /\ (IsActive(server') <=> IsActive(server))
           /\ \A g \in Goals : server' = Cancel(server, g) =>
                  Pending(server') /\ (IsActive(server') <=> IsActive(server))
           /\ \A s \in Terminal : server' = Settle(server, s) => Pending(server') /\ ~IsActive(server')
           /\ server.next # 0 /\ server' = AcceptNewGoal(server) => Pending(server') /\ IsActive(server')
BY ActiveAndPending DEF TypeOK

\* execute() returns exactly when it settles its goal, and MONITOR is left or answered.
LEMMA ServedStep ==
    ASSUME TypeOK, Served, [Next]_vars
    PROVE  Served'
<1> USE DEF Served, GoalIsServed, ExecuteOwnsGoal, AnswerWillCome, AwaitsMonitor, machine, request, monitor
<1>1. \A s \in {"succeeded", "aborted", "canceled"} :
          server' = Settle(server, s) => Pending(server') /\ ~IsActive(server')
  BY ServerSteps DEF Terminal
<1>2. server' = server => Pending(server') /\ (IsActive(server') <=> IsActive(server))
  BY DEF Pending
<1>3. ASSUME NEW g \in Goals, SendGoal(g) \/ CancelGoal(g) PROVE Served'
  BY <1>3, ServerSteps DEF SendGoal, CancelGoal
<1>4. ASSUME Accept \/ Returned \/ ScanEnds PROVE Served'
  BY <1>1, <1>2, <1>4, ServerSteps DEF Accept, Returned, ScanEnds, IsNewGoalAvailable, Executing
<1>5. ASSUME Scene PROVE Served'
  BY <1>1, <1>2, <1>5 DEF Scene, FirstScene, NextScene, SceneSet, SceneFails, EndsWith, Executing
<1>6. ASSUME LoopTop PROVE Served'
  BY <1>1, <1>2, <1>6, ServerSteps
  DEF LoopTop, Continue, PreemptedByGoal, PreemptedByClient, IsNewGoalAvailable, ResetStateMachine, EndsWith, Executing
<1>7. ASSUME Planning \/ Planned PROVE Served'
  BY <1>1, <1>2, <1>7
  DEF Planning, Planned, PrePlanningFails, AlreadyThere, CreatePlan, PlanFound, PlanFails, AttemptFails, InCycle, ResetStateMachine,
      EndsWith, LoopsOn, Executing
<1>8. ASSUME StartControl PROVE Served'
  BY <1>1, <1>2, <1>8
  DEF StartControl, FilterFails, FilteredInvalid, Filtered, SendTrajectory, AttemptFails, InCycle, ResetStateMachine,
      EndsWith, LoopsOn, Executing
<1>9. ASSUME Monitoring PROVE Served'
  BY <1>1, <1>2, <1>9
  DEF Monitoring, StillMonitoring, MonitorOver, InCycle, ResetStateMachine, EndsWith, LoopsOn, Executing
<1>10. ASSUME MonitorDone PROVE Served' BY <1>2, <1>10 DEF MonitorDone, Executing
<1>11. ASSUME UNCHANGED vars PROVE Served' BY <1>2, <1>11 DEF vars, Executing
<1> QED BY <1>3, <1>4, <1>5, <1>6, <1>7, <1>8, <1>9, <1>10, <1>11 DEF Next, Clients, Thread

\* execute() works on an active goal and settles it whenever it returns, and MONITOR
\* waits for an answer only as long as the head monitor owes one.
THEOREM ServesItsGoal == Spec => []GoalIsServed
<1>1. Init => Served
  BY DEF Init, Served, Pending, GoalIsServed, ExecuteOwnsGoal, AnswerWillCome, NewServer, IsActive, Executing
<1>2. TypeOK /\ Served /\ [Next]_vars => Served' BY ServedStep
<1>3. Served => GoalIsServed BY DEF Served
<1> QED BY <1>1, <1>2, <1>3, TypeCorrect, PTL DEF Spec

-----------------------------------------------------------------------------
(* The machine and its goal *)

\* A machine that has only started.
Fresh == state = "PLANNING" /\ attempts = 0 /\ plan = 0

\* What MachineIsOwn needs: START_CONTROL and MONITOR have a trajectory wherever the thread
\* is, and a cycle its scene; if no goal has preempted another one, what is returned is
\* reset and what has not passed the checks has not been planned; if none was dropped for
\* its scene, execute() starts in PLANNING and carries out what it planned.
Owned ==
    /\ state # "PLANNING" => plan # 0
    /\ pc = "send" => state = "START_CONTROL"
    /\ pc = "plan" => state = "PLANNING" /\ checked
    /\ pc \in {"loop", "cycle", "plan", "send"} => scene = Current /\ req = Current
    /\ handover = "none" =>
          /\ pc # "rescene"
          /\ pc \in {"idle", "scan", "scene", "returned"} => Fresh
          /\ pc \in {"loop", "cycle", "send"} /\ ~checked => Fresh
    /\ handover # "dropped" =>
          /\ pc \in {"idle", "scan", "scene", "returned"} => state = "PLANNING"
          /\ pc \in {"loop", "cycle", "send"} /\ ~checked => state = "PLANNING"
          /\ pc \in {"loop", "cycle", "send"} /\ state # "PLANNING" => plan = Current
          /\ pc \in {"loop", "cycle"} /\ state = "MONITOR" => sent.goal = Current

\* Every step keeps the machine and its data the current goal's.
LEMMA OwnedStep ==
    ASSUME TypeOK, Served, Owned, [Next]_vars
    PROVE  Owned'
<1> USE DEF Owned, Fresh, Current, machine, request, monitor
<1>1. \A s \in {"succeeded", "aborted", "canceled"} : server' = Settle(server, s) =>
          server.current' = server.current /\ server.next' = server.next
  BY SettleFacts DEF TypeOK, Statuses, Terminal
<1>2. server' = AcceptNewGoal(server) => server.next' = 0
  BY AcceptNewGoalFacts DEF TypeOK
<1>3. pc \in Executing => Current # 0
  BY DEF Served, GoalIsServed, ExecuteOwnsGoal, IsActive
<1>4. ASSUME NEW g \in Goals, SendGoal(g) PROVE Owned'
  <2>1. Receive(server, g).current = server.current BY ReceiveFacts DEF TypeOK
  <2> QED BY <1>4, <2>1 DEF SendGoal
<1>5. ASSUME NEW g \in Goals, CancelGoal(g) PROVE Owned'
  BY <1>5, CancelFacts DEF CancelGoal, TypeOK
<1>6. ASSUME Accept \/ Returned \/ ScanEnds PROVE Owned'
  BY <1>1, <1>2, <1>6 DEF Accept, Returned, ScanEnds
<1>7. ASSUME Scene PROVE Owned'
  BY <1>1, <1>7 DEF Scene, FirstScene, NextScene, SceneSet, SceneFails, EndsWith
<1>8. ASSUME LoopTop PROVE Owned'
  BY <1>1, <1>2, <1>8
  DEF LoopTop, Continue, PreemptedByGoal, PreemptedByClient, IsNewGoalAvailable, ResetStateMachine, EndsWith
<1>9. ASSUME Planning \/ Planned PROVE Owned'
  BY <1>1, <1>3, <1>9
  DEF Planning, Planned, PrePlanningFails, AlreadyThere, CreatePlan, PlanFound, PlanFails, AttemptFails, InCycle, ResetStateMachine,
      EndsWith, LoopsOn, Executing
<1>10. ASSUME StartControl PROVE Owned'
  <2>1. ASSUME SendTrajectory PROVE Owned' BY <2>1 DEF SendTrajectory, LoopsOn
  <2>2. ASSUME FilterFails PROVE Owned' BY <1>1, <2>2 DEF FilterFails, ResetStateMachine, EndsWith
  <2>3. ASSUME FilteredInvalid PROVE Owned'
    BY <1>1, <2>3 DEF FilteredInvalid, AttemptFails, InCycle, ResetStateMachine, EndsWith, LoopsOn
  <2>4. ASSUME Filtered PROVE Owned' BY <2>4 DEF Filtered, InCycle
  <2> QED BY <1>10, <2>1, <2>2, <2>3, <2>4 DEF StartControl
<1>11. ASSUME Monitoring PROVE Owned'
  BY <1>1, <1>11 DEF Monitoring, StillMonitoring, MonitorOver, InCycle, ResetStateMachine, EndsWith, LoopsOn
<1>12. ASSUME MonitorDone PROVE Owned' BY <1>12 DEF MonitorDone
<1>13. ASSUME UNCHANGED vars PROVE Owned' BY <1>13 DEF vars
<1> QED BY <1>4, <1>5, <1>6, <1>7, <1>8, <1>9, <1>10, <1>11, <1>12, <1>13 DEF Next, Clients, Thread

\* The scene and the request are the active goal's, although the node keeps them from one
\* goal to the next; so is the state machine if no goal has preempted another one since its
\* last reset, and what MONITOR watches unless a preempting goal failed to set its scene.
THEOREM KeepsItsMachine == Spec => []MachineIsOwn
<1>1. Init => Served /\ Owned
  BY DEF Init, Served, Pending, GoalIsServed, ExecuteOwnsGoal, AnswerWillCome, NewServer, IsActive, Executing,
         Owned, Fresh
<1>2. TypeOK /\ Served /\ [Next]_vars => Served' BY ServedStep
<1>3. TypeOK /\ Served /\ Owned /\ [Next]_vars => Owned' BY OwnedStep
<1>4. Owned => MachineIsOwn
  BY DEF Owned, Fresh, MachineIsOwn, FreshMachine, MonitorsOwnTrajectory, CycleHasItsData
<1> QED BY <1>1, <1>2, <1>3, <1>4, TypeCorrect, PTL DEF Spec

-----------------------------------------------------------------------------
(* Types *)

Entries == [coll : BOOLEAN, att : BOOLEAN, attach : BOOLEAN, detach : BOOLEAN,
            touch : SUBSET DOMAIN LinksOf]
Marks == [sel : {"none", "select", "attached"}, control : BOOLEAN]
Scenes == [coll : SUBSET Objects, att : MapsOf(Objects, SUBSET DOMAIN LinksOf),
           acm : MapsOf(Objects, SUBSET Links), robot : Poses, sent : BOOLEAN]
Requests == [state : [Ends -> Nat], shown : [Ends -> Poses \cup {NoRobot}],
             planned : [Ends -> Poses], good : [Ends -> BOOLEAN]]
Last(n) == IF n > 0 THEN n - 1 ELSE 0
Trajectories ==
    {t \in [size : Nat, timed : BOOLEAN, state : Nat, playing : BOOLEAN, visible : BOOLEAN,
            point : Nat, elapsed : Nat] : t.point <= Last(t.size)}
States == SUBSET (Nat \ {NoState})
Editors ==
    [objects : MapsOf(Objects, Entries), markers : [Objects -> Marks], scene : Scenes,
     robot : Poses \cup {NoRobot}, values : Poses, newest : Nat,
     requests : MapsOf({1}, Requests), trajs : MapsOf(Trajs, Trajectories),
     live : States, registry : States]

LEMMA MapsIn ==
    ASSUME NEW D, NEW S, NEW f
    PROVE  f \in MapsOf(D, S) <=> DOMAIN f \subseteq D /\ f \in [DOMAIN f -> S]
BY DEF MapsOf

LEMMA EmptyMap == \A D, S : Empty \in MapsOf(D, S)
<1> SUFFICES ASSUME NEW D, NEW S PROVE Empty \in MapsOf(D, S) OBVIOUS
<1>1. DOMAIN Empty = {} BY DEF Empty
<1>2. Empty = [x \in {} |-> 0] BY DEF Empty
<1> QED BY <1>1, <1>2, MapsIn

LEMMA MapWith ==
    ASSUME NEW D, NEW S, NEW f \in MapsOf(D, S), NEW y \in D, NEW v \in S
    PROVE  /\ With(f, y, v) \in MapsOf(D, S)
           /\ DOMAIN With(f, y, v) = DOMAIN f \cup {y}
           /\ With(f, y, v)[y] = v
           /\ \A x \in DOMAIN f : x # y => With(f, y, v)[x] = f[x]
<1>1. DOMAIN f \subseteq D /\ \A x \in DOMAIN f : f[x] \in S BY MapsIn
<1>2. DOMAIN With(f, y, v) \subseteq D BY <1>1 DEF With
<1>3. With(f, y, v) \in [DOMAIN With(f, y, v) -> S] BY <1>1 DEF With
<1>4. With(f, y, v) \in MapsOf(D, S) BY <1>2, <1>3, MapsIn
<1> QED BY <1>4 DEF With

LEMMA MapWithout ==
    ASSUME NEW D, NEW S, NEW f \in MapsOf(D, S), NEW R
    PROVE  /\ Without(f, R) \in MapsOf(D, S)
           /\ DOMAIN Without(f, R) = DOMAIN f \ R
           /\ \A x \in DOMAIN f \ R : Without(f, R)[x] = f[x]
<1>1. DOMAIN f \subseteq D /\ \A x \in DOMAIN f : f[x] \in S BY MapsIn
<1>2. DOMAIN Without(f, R) \subseteq D BY <1>1 DEF Without
<1>3. Without(f, R) \in [DOMAIN Without(f, R) -> S] BY <1>1 DEF Without
<1>4. Without(f, R) \in MapsOf(D, S) BY <1>2, <1>3, MapsIn
<1> QED BY <1>4 DEF Without

LEMMA EditorFields ==
    ASSUME NEW e \in Editors
    PROVE  /\ e.objects \in MapsOf(Objects, Entries) /\ e.markers \in [Objects -> Marks]
           /\ e.scene \in Scenes /\ e.robot \in Poses \cup {NoRobot} /\ e.values \in Poses
           /\ e.newest \in Nat /\ e.requests \in MapsOf({1}, Requests)
           /\ e.trajs \in MapsOf(Trajs, Trajectories) /\ e.live \in States /\ e.registry \in States
           /\ DOMAIN e.objects \subseteq Objects
           /\ \A o \in DOMAIN e.objects : e.objects[o] \in Entries
           /\ DOMAIN e.requests \subseteq {1}
           /\ \A r \in DOMAIN e.requests : e.requests[r] \in Requests
           /\ DOMAIN e.trajs \subseteq Trajs
           /\ \A t \in DOMAIN e.trajs : e.trajs[t] \in Trajectories
           /\ e.scene.coll \in SUBSET Objects
           /\ e.scene.att \in MapsOf(Objects, SUBSET DOMAIN LinksOf)
           /\ e.scene.acm \in MapsOf(Objects, SUBSET Links)
           /\ e.scene.robot \in Poses /\ e.scene.sent \in BOOLEAN
           /\ DOMAIN e.scene.att \subseteq Objects /\ DOMAIN e.scene.acm \subseteq Objects
           /\ \A o \in DOMAIN e.scene.acm : e.scene.acm[o] \in SUBSET Links
<1>1. /\ e.objects \in MapsOf(Objects, Entries) /\ e.markers \in [Objects -> Marks]
      /\ e.scene \in Scenes /\ e.robot \in Poses \cup {NoRobot} /\ e.values \in Poses
      /\ e.newest \in Nat /\ e.requests \in MapsOf({1}, Requests)
      /\ e.trajs \in MapsOf(Trajs, Trajectories) /\ e.live \in States /\ e.registry \in States
  BY DEF Editors
<1>2. /\ e.scene.coll \in SUBSET Objects
      /\ e.scene.att \in MapsOf(Objects, SUBSET DOMAIN LinksOf)
      /\ e.scene.acm \in MapsOf(Objects, SUBSET Links)
      /\ e.scene.robot \in Poses /\ e.scene.sent \in BOOLEAN
  BY <1>1 DEF Scenes
<1>3. /\ DOMAIN e.objects \subseteq Objects
      /\ \A o \in DOMAIN e.objects : e.objects[o] \in Entries
  BY <1>1, MapsIn
<1>4. /\ DOMAIN e.requests \subseteq {1}
      /\ \A r \in DOMAIN e.requests : e.requests[r] \in Requests
  BY <1>1, MapsIn
<1>5. /\ DOMAIN e.trajs \subseteq Trajs
      /\ \A t \in DOMAIN e.trajs : e.trajs[t] \in Trajectories
  BY <1>1, MapsIn
<1>6. /\ DOMAIN e.scene.att \subseteq Objects /\ DOMAIN e.scene.acm \subseteq Objects
      /\ \A o \in DOMAIN e.scene.acm : e.scene.acm[o] \in SUBSET Links
  BY <1>2, MapsIn
<1> QED BY <1>1, <1>2, <1>3, <1>4, <1>5, <1>6

-----------------------------------------------------------------------------
(* The objects and their markers *)

\* The editor's arm: the robot, the request and its trajectories, and their states.
SameArm(d, e) ==
    /\ d.robot = e.robot /\ d.values = e.values /\ d.requests = e.requests
    /\ d.trajs = e.trajs /\ d.live = e.live /\ d.registry = e.registry

\* The editor's objects as they are listed, marked and held by the scene.
SameObjects(d, e) ==
    /\ d.objects = e.objects /\ d.markers = e.markers /\ d.newest = e.newest
    /\ d.scene.coll = e.scene.coll /\ d.scene.att = e.scene.att
    /\ d.scene.acm = e.scene.acm /\ d.scene.sent = e.scene.sent

Free == [Blank EXCEPT !.coll = TRUE]

LEMMA EntryTypes ==
    /\ Blank \in Entries /\ Free \in Entries /\ NoMarkers \in Marks
    /\ ~Blank.coll /\ ~Blank.att /\ ~Blank.attach /\ ~Blank.detach /\ Blank.touch = {}
    /\ Free.coll /\ ~Free.att /\ ~Free.attach /\ ~Free.detach /\ Free.touch = {}
    /\ NoMarkers.sel = "none" /\ ~NoMarkers.control
BY DEF Blank, Free, Entries, NoMarkers, Marks

LEMMA EntryIsEntry ==
    ASSUME NEW e \in Editors, NEW o
    PROVE  Entry(e, o) \in Entries
BY EditorFields, EntryTypes DEF Entry

LEMMA PutFacts ==
    ASSUME NEW e \in Editors, NEW o \in Objects, NEW x \in Entries
    PROVE  LET d == Put(e, o, x) IN
           /\ d \in Editors /\ SameArm(d, e) /\ d.markers = e.markers
           /\ d.scene = e.scene /\ d.newest = e.newest
           /\ DOMAIN d.objects = DOMAIN e.objects \cup {o} /\ d.objects[o] = x
           /\ \A p \in DOMAIN e.objects : p # o => d.objects[p] = e.objects[p]
<1>1. With(e.objects, o, x) \in MapsOf(Objects, Entries) BY EditorFields, MapWith
<1>2. /\ DOMAIN With(e.objects, o, x) = DOMAIN e.objects \cup {o}
      /\ With(e.objects, o, x)[o] = x
      /\ \A p \in DOMAIN e.objects : p # o => With(e.objects, o, x)[p] = e.objects[p]
  BY DEF With
<1> DEFINE d == [e EXCEPT !.objects = With(e.objects, o, x)]
<1>3. Put(e, o, x) = d BY DEF Put
<1>4. d \in Editors BY <1>1 DEF Editors
<1>5. /\ SameArm(d, e) /\ d.markers = e.markers /\ d.scene = e.scene /\ d.newest = e.newest
      /\ d.objects = With(e.objects, o, x)
  BY DEF Editors, SameArm
<1> QED BY <1>2, <1>3, <1>4, <1>5

LEMMA MarkFacts ==
    ASSUME NEW e \in Editors, NEW o \in Objects, NEW m \in Marks
    PROVE  LET d == Mark(e, o, m) IN
           /\ d \in Editors /\ SameArm(d, e) /\ d.objects = e.objects
           /\ d.scene = e.scene /\ d.newest = e.newest
           /\ d.markers = IF Named(e, o) THEN [e.markers EXCEPT ![o] = m] ELSE e.markers
<1>1. e.markers \in [Objects -> Marks] BY EditorFields
<1>2. [e.markers EXCEPT ![o] = m] \in [Objects -> Marks] BY <1>1
<1> DEFINE d == [e EXCEPT !.markers = [e.markers EXCEPT ![o] = m]]
<1>3. Mark(e, o, m) = IF Named(e, o) THEN d ELSE e BY DEF Mark
<1>4. d \in Editors BY <1>2 DEF Editors
<1>5. /\ SameArm(d, e) /\ d.objects = e.objects /\ d.scene = e.scene /\ d.newest = e.newest
      /\ d.markers = [e.markers EXCEPT ![o] = m]
  BY DEF Editors, SameArm
<1>6. SameArm(e, e) BY DEF SameArm
<1> QED BY <1>3, <1>4, <1>5, <1>6

LEMMA SelectableFacts ==
    ASSUME NEW e \in Editors, NEW o \in Objects, NEW insert \in BOOLEAN
    PROVE  LET d == Selectable(e, o, insert) IN
           /\ d \in Editors /\ SameArm(d, e) /\ d.scene = e.scene /\ d.newest = e.newest
           /\ DOMAIN d.objects = DOMAIN e.objects \cup {o} /\ d.objects[o] = Free
           /\ \A p \in DOMAIN e.objects : p # o => d.objects[p] = e.objects[p]
           /\ d.markers = IF insert THEN [e.markers EXCEPT ![o].sel = "select"] ELSE e.markers
<1> DEFINE listed == Put(e, o, Free)
           m == [e.markers[o] EXCEPT !.sel = "select"]
           d == [listed EXCEPT !.markers = [listed.markers EXCEPT ![o] = m]]
<1>1. /\ listed \in Editors /\ SameArm(listed, e) /\ listed.markers = e.markers
      /\ listed.scene = e.scene /\ listed.newest = e.newest
      /\ DOMAIN listed.objects = DOMAIN e.objects \cup {o} /\ listed.objects[o] = Free
      /\ \A p \in DOMAIN e.objects : p # o => listed.objects[p] = e.objects[p]
  BY EntryTypes, PutFacts
<1>2. Selectable(e, o, insert) = IF insert THEN d ELSE listed
  BY <1>1 DEF Selectable, Free
<1> HIDE DEF listed
<1>3. e.markers \in [Objects -> Marks] BY EditorFields
<1>4. m \in Marks BY <1>3 DEF Marks
<1>5. [listed.markers EXCEPT ![o] = m] \in [Objects -> Marks] BY <1>1, <1>3, <1>4
<1>6. d \in Editors BY <1>1, <1>5 DEF Editors
<1>7. /\ SameArm(d, listed) /\ d.objects = listed.objects /\ d.scene = listed.scene
      /\ d.newest = listed.newest /\ d.markers = [listed.markers EXCEPT ![o] = m]
  BY <1>1 DEF Editors, SameArm
<1>8. SameArm(d, e) BY <1>1, <1>7 DEF SameArm
<1> QED BY <1>1, <1>2, <1>6, <1>7, <1>8

LEMMA SelectableAllFacts ==
    ASSUME NEW e \in Editors, NEW S \in SUBSET Objects
    PROVE  LET d == SelectableAll(e, S) IN
           /\ d \in Editors /\ SameArm(d, e) /\ d.scene = e.scene /\ d.newest = e.newest
           /\ DOMAIN d.objects = DOMAIN e.objects \cup S
           /\ \A o \in S : d.objects[o] = Free
           /\ \A o \in DOMAIN e.objects \ S : d.objects[o] = e.objects[o]
           /\ \A o \in S : d.markers[o] = [e.markers[o] EXCEPT !.sel = "select"]
           /\ \A o \in Objects \ S : d.markers[o] = e.markers[o]
<1> DEFINE objects == [o \in DOMAIN e.objects \cup S |-> IF o \in S THEN Free ELSE e.objects[o]]
           markers == [o \in Objects |-> IF o \in S THEN [e.markers[o] EXCEPT !.sel = "select"]
                                         ELSE e.markers[o]]
           d == [e EXCEPT !.objects = objects, !.markers = markers]
<1>1. SelectableAll(e, S) = d BY DEF SelectableAll, Free
<1>2. e.markers \in [Objects -> Marks] BY EditorFields
<1>3. \A o \in Objects : [e.markers[o] EXCEPT !.sel = "select"] \in Marks BY <1>2 DEF Marks
<1>4. markers \in [Objects -> Marks] BY <1>2, <1>3
<1>5. objects \in MapsOf(Objects, Entries)
  <2>1. DOMAIN objects \subseteq Objects BY EditorFields
  <2>2. objects \in [DOMAIN objects -> Entries] BY EditorFields, EntryTypes
  <2> HIDE DEF objects
  <2> QED BY <2>1, <2>2, MapsIn
<1>6. /\ DOMAIN objects = DOMAIN e.objects \cup S
      /\ \A o \in S : objects[o] = Free
      /\ \A o \in DOMAIN e.objects \ S : objects[o] = e.objects[o]
  OBVIOUS
<1>7. /\ \A o \in S : markers[o] = [e.markers[o] EXCEPT !.sel = "select"]
      /\ \A o \in Objects \ S : markers[o] = e.markers[o]
  OBVIOUS
<1> HIDE DEF objects, markers
<1>8. d \in Editors BY <1>4, <1>5 DEF Editors
<1>9. /\ SameArm(d, e) /\ d.scene = e.scene /\ d.newest = e.newest
      /\ d.objects = objects /\ d.markers = markers
  BY DEF Editors, SameArm
<1> QED BY <1>1, <1>6, <1>7, <1>8, <1>9

LEMMA DeletedFacts ==
    ASSUME NEW e \in Editors, NEW o \in Objects
    PROVE  LET d == Deleted(e, o) IN
           /\ d \in Editors /\ SameArm(d, e) /\ d.scene = e.scene /\ d.newest = e.newest
           /\ DOMAIN d.objects = DOMAIN e.objects \cup {o}
           /\ d.objects[o] = [Entry(e, o) EXCEPT !.coll = FALSE, !.att = FALSE]
           /\ \A p \in DOMAIN e.objects : p # o => d.objects[p] = e.objects[p]
           /\ d.markers = IF Named(e, o) THEN [e.markers EXCEPT ![o] = NoMarkers] ELSE e.markers
<1> DEFINE x == [Entry(e, o) EXCEPT !.coll = FALSE, !.att = FALSE]
           marked == Mark(e, o, NoMarkers)
<1>1. x \in Entries BY EntryIsEntry DEF Entries
<1>2. /\ marked \in Editors /\ SameArm(marked, e) /\ marked.objects = e.objects
      /\ marked.scene = e.scene /\ marked.newest = e.newest
      /\ marked.markers = IF Named(e, o) THEN [e.markers EXCEPT ![o] = NoMarkers] ELSE e.markers
  BY EntryTypes, MarkFacts
<1>3. Deleted(e, o) = Put(marked, o, x) BY DEF Deleted
<1> HIDE DEF x, marked
<1> DEFINE d == Put(marked, o, x)
<1>4. /\ d \in Editors /\ SameArm(d, marked) /\ d.markers = marked.markers
      /\ d.scene = marked.scene /\ d.newest = marked.newest
      /\ DOMAIN d.objects = DOMAIN marked.objects \cup {o} /\ d.objects[o] = x
      /\ \A p \in DOMAIN marked.objects : p # o => d.objects[p] = marked.objects[p]
  BY <1>1, <1>2, PutFacts
<1> HIDE DEF d
<1>5. SameArm(d, e) BY <1>2, <1>4 DEF SameArm
<1> QED BY <1>2, <1>3, <1>4, <1>5 DEF d, x

\* Markers are erased and inserted by the name in the entry, which is put back.
LEMMA RemarkedFacts ==
    ASSUME NEW e \in Editors, NEW o \in Objects, NEW m \in Marks, NEW x \in Entries
    PROVE  LET d == Put(Mark(e, o, m), o, x) IN
           /\ d \in Editors /\ SameArm(d, e) /\ d.scene = e.scene /\ d.newest = e.newest
           /\ DOMAIN d.objects = DOMAIN e.objects \cup {o} /\ d.objects[o] = x
           /\ \A p \in DOMAIN e.objects : p # o => d.objects[p] = e.objects[p]
           /\ d.markers = IF Named(e, o) THEN [e.markers EXCEPT ![o] = m] ELSE e.markers
<1> DEFINE marked == Mark(e, o, m)
<1>1. /\ marked \in Editors /\ SameArm(marked, e) /\ marked.objects = e.objects
      /\ marked.scene = e.scene /\ marked.newest = e.newest
      /\ marked.markers = IF Named(e, o) THEN [e.markers EXCEPT ![o] = m] ELSE e.markers
  BY MarkFacts
<1> HIDE DEF marked
<1> DEFINE d == Put(marked, o, x)
<1>2. /\ d \in Editors /\ SameArm(d, marked) /\ d.markers = marked.markers
      /\ d.scene = marked.scene /\ d.newest = marked.newest
      /\ DOMAIN d.objects = DOMAIN marked.objects \cup {o} /\ d.objects[o] = x
      /\ \A p \in DOMAIN marked.objects : p # o => d.objects[p] = marked.objects[p]
  BY <1>1, PutFacts
<1> HIDE DEF d
<1>3. SameArm(d, e) BY <1>1, <1>2 DEF SameArm
<1> QED BY <1>1, <1>2, <1>3 DEF d, marked

Joined == [sel |-> "attached", control |-> FALSE]

LEMMA ChangedToAttachedFacts ==
    ASSUME NEW e \in Editors, NEW o \in Objects
    PROVE  LET d == ChangedToAttached(e, o) IN
           /\ d \in Editors /\ SameArm(d, e) /\ d.scene = e.scene /\ d.newest = e.newest
           /\ DOMAIN d.objects = DOMAIN e.objects \cup {o} /\ d.objects[o] = Entry(e, o)
           /\ \A p \in DOMAIN e.objects : p # o => d.objects[p] = e.objects[p]
           /\ d.markers = IF Named(e, o) THEN [e.markers EXCEPT ![o] = Joined] ELSE e.markers
<1>1. Joined \in Marks BY DEF Joined, Marks
<1>2. Entry(e, o) \in Entries BY EntryIsEntry
<1>3. ChangedToAttached(e, o) = Put(Mark(e, o, Joined), o, Entry(e, o)) BY DEF ChangedToAttached, Joined
<1> HIDE DEF Joined
<1> QED BY <1>1, <1>2, <1>3, RemarkedFacts

LEMMA LinksAreNames == \A l \in Links : l \in DOMAIN LinksOf
BY LinksAssumption

LEMMA AttachingFacts ==
    ASSUME NEW e \in Editors, NEW o \in DOMAIN e.objects, NEW link \in Links,
           NEW touch \in SUBSET DOMAIN LinksOf
    PROVE  LET d == Attaching(e, o, link, touch) IN
           /\ d \in Editors /\ SameArm(d, e) /\ d.markers = e.markers
           /\ d.scene = e.scene /\ d.newest = e.newest
           /\ DOMAIN d.objects = DOMAIN e.objects
           /\ d.objects[o].coll = e.objects[o].coll /\ d.objects[o].att /\ d.objects[o].attach
           /\ d.objects[o].detach = e.objects[o].detach
           /\ d.objects[o].touch = touch \cup {link}
           /\ \A p \in DOMAIN e.objects : p # o => d.objects[p] = e.objects[p]
<1> DEFINE x == [e.objects[o] EXCEPT !.att = TRUE, !.attach = TRUE, !.touch = touch \cup {link}]
           d == [e EXCEPT !.objects = [e.objects EXCEPT ![o] = x]]
<1>1. e.objects \in MapsOf(Objects, Entries) /\ e.objects[o] \in Entries BY EditorFields
<1>2. x \in Entries BY <1>1, LinksAreNames DEF Entries
<1>3. Attaching(e, o, link, touch) = d BY <1>1 DEF Attaching, Editors, Entries
<1>10. /\ x.coll = e.objects[o].coll /\ x.att /\ x.attach /\ x.detach = e.objects[o].detach
       /\ x.touch = touch \cup {link}
  BY <1>1 DEF Entries
<1> HIDE DEF x
<1>4. [e.objects EXCEPT ![o] = x] \in MapsOf(Objects, Entries) BY <1>1, <1>2, MapsIn
<1>5. d \in Editors BY <1>4 DEF Editors
<1>6. /\ SameArm(d, e) /\ d.markers = e.markers /\ d.scene = e.scene /\ d.newest = e.newest
      /\ d.objects = [e.objects EXCEPT ![o] = x]
  BY DEF Editors, SameArm
<1>7. DOMAIN d.objects = DOMAIN e.objects BY <1>6
<1>8. d.objects[o] = x BY <1>1, <1>6, MapsIn
<1>9. \A p \in DOMAIN e.objects : p # o => d.objects[p] = e.objects[p] BY <1>1, <1>6, MapsIn
<1> HIDE DEF d
<1> QED BY <1>3, <1>5, <1>6, <1>7, <1>8, <1>9, <1>10

LEMMA ExpandedIsLinks == \A S \in SUBSET DOMAIN LinksOf : Expanded(S) \in SUBSET Links
BY LinksAssumption DEF Expanded

LEMMA ClearedFacts ==
    ASSUME NEW f \in MapsOf(Objects, Entries)
    PROVE  /\ Cleared(f) \in MapsOf(Objects, Entries) /\ DOMAIN Cleared(f) = DOMAIN f
           /\ \A o \in DOMAIN f : Cleared(f)[o] =
                  IF f[o].attach THEN [f[o] EXCEPT !.attach = FALSE, !.touch = Expanded(f[o].touch)]
                  ELSE IF f[o].detach THEN [f[o] EXCEPT !.detach = FALSE, !.att = FALSE, !.coll = TRUE]
                  ELSE f[o]
<1>1. DOMAIN f \subseteq Objects /\ \A o \in DOMAIN f : f[o] \in Entries BY MapsIn
<1>2. DOMAIN Cleared(f) = DOMAIN f BY DEF Cleared
<1>3. \A o \in DOMAIN f : Cleared(f)[o] =
          IF f[o].attach THEN [f[o] EXCEPT !.attach = FALSE, !.touch = Expanded(f[o].touch)]
          ELSE IF f[o].detach THEN [f[o] EXCEPT !.detach = FALSE, !.att = FALSE, !.coll = TRUE]
          ELSE f[o]
  BY <1>1 DEF Cleared, Entries
<1>4. ASSUME NEW o \in DOMAIN f PROVE Cleared(f)[o] \in Entries
  <2>1. f[o] \in Entries BY <1>1
  <2>2. Expanded(f[o].touch) \in SUBSET DOMAIN LinksOf
    BY <2>1, ExpandedIsLinks, LinksAreNames DEF Entries
  <2>3. [f[o] EXCEPT !.attach = FALSE, !.touch = Expanded(f[o].touch)] \in Entries
    BY <2>1, <2>2 DEF Entries
  <2>4. [f[o] EXCEPT !.detach = FALSE, !.att = FALSE, !.coll = TRUE] \in Entries
    BY <2>1 DEF Entries
  <2> QED BY <1>3, <2>1, <2>3, <2>4
<1>5. Cleared(f) = [o \in DOMAIN f |-> Cleared(f)[o]] BY DEF Cleared
<1>6. Cleared(f) \in [DOMAIN Cleared(f) -> Entries] BY <1>2, <1>4, <1>5
<1> QED BY <1>1, <1>2, <1>3, <1>6, MapsIn

LEMMA AllowedFacts ==
    ASSUME NEW f \in MapsOf(Objects, Entries), NEW acm \in MapsOf(Objects, SUBSET Links)
    PROVE  LET g == Allowed(f, acm) IN
           /\ g \in MapsOf(Objects, SUBSET Links)
           /\ DOMAIN g = (DOMAIN acm \cup {x \in DOMAIN f : f[x].attach \/ ~f[x].att}) \ Removed(f)
           /\ \A o \in DOMAIN g : g[o] =
                  IF o \in DOMAIN f /\ f[o].attach THEN Expanded(f[o].touch)
                  ELSE IF o \notin DOMAIN acm \/ (o \in DOMAIN f /\ f[o].detach) THEN {}
                  ELSE acm[o]
<1> DEFINE g == Allowed(f, acm)
<1>1. /\ DOMAIN f \subseteq Objects /\ \A o \in DOMAIN f : f[o] \in Entries
      /\ DOMAIN acm \subseteq Objects /\ \A o \in DOMAIN acm : acm[o] \in SUBSET Links
  BY MapsIn
<1>2. DOMAIN g = (DOMAIN acm \cup {x \in DOMAIN f : f[x].attach \/ ~f[x].att}) \ Removed(f)
  BY DEF Allowed
<1>3. \A o \in DOMAIN g : g[o] =
          IF o \in DOMAIN f /\ f[o].attach THEN Expanded(f[o].touch)
          ELSE IF o \notin DOMAIN acm \/ (o \in DOMAIN f /\ f[o].detach) THEN {}
          ELSE acm[o]
  BY DEF Allowed
<1>4. g = [o \in DOMAIN g |-> g[o]] BY DEF Allowed
<1> HIDE DEF g
<1>5. ASSUME NEW o \in DOMAIN g PROVE g[o] \in SUBSET Links
  <2>1. CASE o \in DOMAIN f /\ f[o].attach
    <3>1. f[o].touch \in SUBSET DOMAIN LinksOf BY <1>1, <2>1 DEF Entries
    <3> QED BY <1>3, <2>1, <3>1, ExpandedIsLinks
  <2>2. CASE ~(o \in DOMAIN f /\ f[o].attach) BY <1>1, <1>3, <2>2
  <2> QED BY <2>1, <2>2
<1>6. g \in [DOMAIN g -> SUBSET Links] BY <1>4, <1>5
<1>7. DOMAIN g \subseteq Objects BY <1>1, <1>2
<1>8. g \in MapsOf(Objects, SUBSET Links) BY <1>6, <1>7, MapsIn
<1> QED BY <1>2, <1>3, <1>8 DEF g

-----------------------------------------------------------------------------
(* Numbers *)

LEMMA InductionOverNat ==
    ASSUME NEW G, 0 \in G, \A n \in Nat : n \in G => n + 1 \in G
    PROVE  Nat \subseteq G
<1> SUFFICES ASSUME Nat \ G # {} PROVE FALSE OBVIOUS
<1> DEFINE R == {p \in Nat \X Nat : p[1] < p[2]}
<1>1. IsWellFoundedOn(R, Nat) BY NatLessThanWellFounded DEF OpToRel
<1>2. PICK n \in Nat \ G : \A m \in Nat \ G : <<m, n>> \notin R
  <2> HIDE DEF R
  <2>1. Nat \ G \subseteq Nat OBVIOUS
  <2> QED BY <1>1, <2>1, WFMin
<1>3. n # 0 /\ n - 1 \in Nat /\ n - 1 < n BY <1>2
<1>4. n - 1 \in G BY <1>2, <1>3
<1>5. (n - 1) + 1 \in G BY <1>3, <1>4
<1> QED BY <1>3, <1>5

LEMMA MinOfNat ==
    ASSUME NEW T \in SUBSET Nat, T # {}
    PROVE  Min(T) \in T
<1> DEFINE R == {p \in Nat \X Nat : p[1] < p[2]}
<1>1. IsWellFoundedOn(R, Nat) BY NatLessThanWellFounded DEF OpToRel
<1>2. PICK n \in T : \A m \in T : <<m, n>> \notin R
  <2> HIDE DEF R
  <2> QED BY <1>1, WFMin
<1>3. \A m \in T : <<m, n>> \in Nat \X Nat /\ ~(m < n) BY <1>2
<1>4. \A m \in T : n <= m
  <2>1. \A m \in Nat : n \in Nat /\ ~(m < n) => n <= m OBVIOUS
  <2> QED BY <1>3, <2>1
<1>5. \E x \in T : \A y \in T : x <= y BY Zenon, <1>4
<1> QED BY <1>5 DEF Min

\* One of finitely many numbers is the largest.
LEMMA FiniteHasMax ==
    ASSUME NEW T \in SUBSET Int, IsFiniteSet(T), T # {}
    PROVE  Max(T) \in T /\ \A x \in T : x <= Max(T)
<1>1. PICK n \in Nat : ExistsSurjection(1..n, T) BY FS_NatSurjection
<1>2. PICK f \in Surjection(1..n, T) : TRUE BY <1>1 DEF ExistsSurjection
<1>3. f \in [1..n -> T] /\ \A x \in T : \E i \in 1..n : f[i] = x BY <1>2 DEF Surjection
<1> DEFINE Top(m) == \E i \in 1..n : \A j \in 1..n : j <= m => f[j] <= f[i]
           G == {m \in Nat : Top(m)}
<1>4. \A i \in 1..n : f[i] \in Int BY <1>3
<1>5. 0 \in G
  <2>1. PICK x \in T : TRUE OBVIOUS
  <2>2. PICK i \in 1..n : f[i] = x BY <1>3
  <2>3. Top(0) BY <2>2
  <2> QED BY <2>3
<1>6. ASSUME NEW m \in Nat, m \in G PROVE m + 1 \in G
  <2>1. PICK i \in 1..n : \A j \in 1..n : j <= m => f[j] <= f[i] BY <1>6
  <2>2. CASE m + 1 \notin 1..n \/ f[m + 1] <= f[i]
    <3>1. \A j \in 1..n : j <= m + 1 => f[j] <= f[i] BY <2>1, <2>2
    <3>2. Top(m + 1) BY <3>1
    <3> QED BY <3>2
  <2>3. CASE m + 1 \in 1..n /\ ~(f[m + 1] <= f[i])
    <3>1. ASSUME NEW j \in 1..n, j <= m + 1 PROVE f[j] <= f[m + 1]
      <4>1. f[j] \in Int /\ f[i] \in Int /\ f[m + 1] \in Int BY <1>4, <2>3
      <4>2. CASE j = m + 1 BY <4>1, <4>2
      <4>3. CASE j <= m BY <2>1, <2>3, <4>1, <4>3
      <4> QED BY <3>1, <4>2, <4>3
    <3>2. Top(m + 1) BY <2>3, <3>1
    <3> QED BY <3>2
  <2> QED BY <2>2, <2>3
<1>7. n \in G
  <2> HIDE DEF G
  <2> QED BY <1>5, <1>6, InductionOverNat
<1>8. PICK i \in 1..n : \A j \in 1..n : f[j] <= f[i] BY <1>7
<1>9. \A x \in T : f[i] >= x BY <1>3, <1>4, <1>8
<1>10. \E x \in T : \A y \in T : x >= y
  <2>1. f[i] \in T BY <1>3
  <2> QED BY <1>9, <2>1
<1> QED BY <1>10 DEF Max

LEMMA FreshFacts ==
    ASSUME NEW live \in States, IsFiniteSet(live)
    PROVE  FreshState(live) \in Nat \ {NoState} /\ FreshState(live) \notin live
<1> DEFINE S == live \cup {NoState}
           top == Max(S)
<1>1. S \in SUBSET Int /\ S # {} /\ S \subseteq Nat BY DEF States, NoState
<1>2. IsFiniteSet(S) BY FS_AddElement
<1>3. top \in S /\ \A x \in S : x <= top BY <1>1, <1>2, FiniteHasMax
<1>4. FreshState(live) = 1 + top BY DEF FreshState
<1> HIDE DEF top
<1>5. top \in Nat BY <1>1, <1>3
<1>6. \A x \in live : x \in Nat /\ x <= top BY <1>1, <1>3
<1> QED BY <1>4, <1>5, <1>6 DEF NoState

LEMMA MaxOfTwo == \A n \in Int : Max({0, n}) = IF n > 0 THEN n ELSE 0
<1> SUFFICES ASSUME NEW n \in Int PROVE Max({0, n}) = IF n > 0 THEN n ELSE 0 OBVIOUS
<1>1. {0, n} \in SUBSET Int /\ {0, n} # {} OBVIOUS
<1>2. IsFiniteSet({0, n})
  <2>1. IsFiniteSet({0}) BY FS_Singleton
  <2>2. IsFiniteSet({0} \cup {n}) BY <2>1, FS_AddElement
  <2>3. {0} \cup {n} = {0, n} OBVIOUS
  <2> QED BY <2>2, <2>3
<1> DEFINE top == Max({0, n})
<1>3. top \in {0, n} /\ \A x \in {0, n} : x <= top BY <1>1, <1>2, FiniteHasMax
<1> HIDE DEF top
<1>4. top = IF n > 0 THEN n ELSE 0 BY <1>3
<1> QED BY <1>4 DEF top

LEMMA LastPoint == \A n \in Nat : Max({0, n - 1}) = Last(n)
BY MaxOfTwo DEF Last

\* A trajectory's largest point that is due is one of its points.
LEMMA MaxOfBounded ==
    ASSUME NEW m \in Int, NEW n \in Int, NEW T \in SUBSET (m..n), T # {}
    PROVE  Max(T) \in T /\ Max(T) \in m..n /\ \A x \in T : x <= Max(T)
<1>1. IsFiniteSet(m..n) BY FS_Interval
<1>2. IsFiniteSet(T) BY <1>1, FS_Subset
<1>3. T \in SUBSET Int OBVIOUS
<1>4. Max(T) \in T /\ \A x \in T : x <= Max(T) BY <1>2, <1>3, FiniteHasMax
<1> QED BY <1>4

-----------------------------------------------------------------------------
(* Kinematic states *)

\* The editor's objects, the scene and the robot, which states are no part of.
SameScene(d, e) ==
    /\ d.objects = e.objects /\ d.markers = e.markers /\ d.newest = e.newest
    /\ d.scene = e.scene /\ d.robot = e.robot /\ d.values = e.values

LEMMA SameScenes ==
    ASSUME NEW d, NEW e, SameScene(d, e)
    PROVE  SameObjects(d, e)
BY DEF SameScene, SameObjects

\* Nothing holds a state.
Null(e) ==
    /\ \A r \in DOMAIN e.requests, end \in Ends : e.requests[r].state[end] = NoState
    /\ \A t \in DOMAIN e.trajs : e.trajs[t].state = NoState

\* States that are held or registered live, and are held once, by ends that have a pose.
EndsOwned(e) ==
    /\ \A r \in DOMAIN e.requests, end \in Ends :
           e.requests[r].state[end] \in e.live \cup {NoState}
    /\ \A r \in DOMAIN e.requests :
           e.requests[r].state["start"] = e.requests[r].state["goal"] =>
               e.requests[r].state["start"] = NoState
    /\ \A r \in DOMAIN e.requests, end \in Ends :
           e.requests[r].state[end] # NoState => e.requests[r].shown[end] \in Poses
TrajsOwned(e) ==
    /\ \A t \in DOMAIN e.trajs : e.trajs[t].state \in e.live \cup {NoState}
    /\ \A t, u \in DOMAIN e.trajs :
           e.trajs[t].state = e.trajs[u].state => t = u \/ e.trajs[t].state = NoState
    /\ \A r \in DOMAIN e.requests, end \in Ends, t \in DOMAIN e.trajs :
           e.requests[r].state[end] = e.trajs[t].state => e.trajs[t].state = NoState
StatesOwned(e) ==
    /\ IsFiniteSet(e.live) /\ e.registry \subseteq e.live
    /\ EndsOwned(e) /\ TrajsOwned(e)

Shown(e) ==
    \A r \in DOMAIN e.requests, end \in Ends :
        e.requests[r].good[end] /\ e.requests[r].state[end] # NoState =>
            e.requests[r].shown[end] = e.requests[r].planned[end]

LEMMA RequestFields ==
    ASSUME NEW r \in Requests
    PROVE  /\ r.state \in [Ends -> Nat] /\ r.shown \in [Ends -> Poses \cup {NoRobot}]
           /\ r.planned \in [Ends -> Poses] /\ r.good \in [Ends -> BOOLEAN]
           /\ \A end \in Ends : /\ r.state[end] \in Nat /\ r.shown[end] \in Poses \cup {NoRobot}
                                /\ r.planned[end] \in Poses /\ r.good[end] \in BOOLEAN
BY DEF Requests

LEMMA TrajectoryFields ==
    ASSUME NEW t \in Trajectories
    PROVE  /\ t \in [size : Nat, timed : BOOLEAN, state : Nat, playing : BOOLEAN,
                     visible : BOOLEAN, point : Nat, elapsed : Nat]
           /\ t.size \in Nat /\ t.timed \in BOOLEAN /\ t.state \in Nat /\ t.playing \in BOOLEAN
           /\ t.visible \in BOOLEAN /\ t.point \in Nat /\ t.elapsed \in Nat
           /\ t.point <= Last(t.size)
BY DEF Trajectories

\* A trajectory that is changed but for its size and its kind is one if its point is.
LEMMA ResetFacts ==
    ASSUME NEW t \in Trajectories
    PROVE  /\ Reset(t) \in Trajectories /\ Reset(t).state = NoState /\ Reset(t).size = t.size
           /\ ~Reset(t).playing
<1>1. t \in [size : Nat, timed : BOOLEAN, state : Nat, playing : BOOLEAN,
             visible : BOOLEAN, point : Nat, elapsed : Nat]
  BY TrajectoryFields
<1>2. Reset(t) \in [size : Nat, timed : BOOLEAN, state : Nat, playing : BOOLEAN,
                    visible : BOOLEAN, point : Nat, elapsed : Nat]
  BY <1>1 DEF Reset, NoState
<1>3. Reset(t).point = 0 /\ Reset(t).size = t.size /\ Reset(t).state = NoState /\ ~Reset(t).playing
  BY <1>1 DEF Reset
<1>4. 0 <= Last(t.size) BY <1>1 DEF Last
<1> QED BY <1>2, <1>3, <1>4 DEF Trajectories

Restless(r) == [r EXCEPT !.state = [end \in Ends |-> NoState], !.shown = [end \in Ends |-> NoRobot]]

LEMMA RestlessFacts ==
    ASSUME NEW r \in Requests
    PROVE  /\ Restless(r) \in Requests /\ \A end \in Ends : Restless(r).state[end] = NoState
           /\ Restless(r).planned = r.planned /\ Restless(r).good = r.good
BY DEF Requests, Restless, NoState

LEMMA StatesDeletedFacts ==
    ASSUME NEW e \in Editors
    PROVE  LET d == StatesDeleted(e) IN
           /\ d \in Editors /\ SameScene(d, e) /\ Null(d)
           /\ DOMAIN d.requests = DOMAIN e.requests
           /\ \A r \in DOMAIN e.requests : d.requests[r] = Restless(e.requests[r])
           /\ DOMAIN d.trajs = DOMAIN e.trajs
           /\ d.live \subseteq e.live /\ d.registry = {}
<1> DEFINE trajs == [t \in DOMAIN e.trajs |-> Reset(e.trajs[t])]
           requests == [r \in DOMAIN e.requests |-> Restless(e.requests[r])]
           live == e.live \ (Held(e) \cup e.registry)
           d == [e EXCEPT !.trajs = trajs, !.requests = requests, !.live = live, !.registry = {}]
<1>1. StatesDeleted(e) = d BY DEF StatesDeleted, Restless, Editors
<1>2. requests \in MapsOf({1}, Requests)
  <2>1. requests \in [DOMAIN requests -> Requests] BY EditorFields, RestlessFacts
  <2>2. DOMAIN requests \subseteq {1} BY EditorFields
  <2> HIDE DEF requests
  <2> QED BY <2>1, <2>2, MapsIn
<1>3. trajs \in MapsOf(Trajs, Trajectories)
  <2>1. trajs \in [DOMAIN trajs -> Trajectories] BY EditorFields, ResetFacts
  <2>2. DOMAIN trajs \subseteq Trajs BY EditorFields
  <2> HIDE DEF trajs
  <2> QED BY <2>1, <2>2, MapsIn
<1>4. live \in States /\ {} \in States /\ live \subseteq e.live BY EditorFields DEF States
<1>5. /\ DOMAIN requests = DOMAIN e.requests /\ DOMAIN trajs = DOMAIN e.trajs
      /\ \A r \in DOMAIN e.requests : requests[r] = Restless(e.requests[r])
      /\ \A r \in DOMAIN requests, end \in Ends : requests[r].state[end] = NoState
      /\ \A t \in DOMAIN trajs : trajs[t].state = NoState
  BY EditorFields, RestlessFacts, ResetFacts
<1> HIDE DEF requests, trajs, live
<1>6. d \in Editors BY <1>2, <1>3, <1>4 DEF Editors
<1>7. /\ SameScene(d, e) /\ d.requests = requests /\ d.trajs = trajs /\ d.live = live
      /\ d.registry = {}
  BY DEF Editors, SameScene
<1>8. Null(d) BY <1>5, <1>7 DEF Null
<1> QED BY <1>1, <1>4, <1>5, <1>6, <1>7, <1>8

LEMMA NullIsOwned ==
    ASSUME NEW e, Null(e), IsFiniteSet(e.live), e.registry \subseteq e.live
    PROVE  StatesOwned(e) /\ Shown(e)
BY DEF Null, StatesOwned, EndsOwned, TrajsOwned, Shown, Ends

\* The state of one end is made.
LEMMA WithStateFacts ==
    ASSUME NEW e \in Editors, IsFiniteSet(e.live), NEW r \in DOMAIN e.requests, NEW end \in Ends,
           NEW p \in Poses
    PROVE  LET d == WithState(e, r, end, p)
               id == FreshState(e.live) IN
           /\ d \in Editors /\ SameScene(d, e) /\ d.trajs = e.trajs
           /\ DOMAIN d.requests = DOMAIN e.requests
           /\ d.requests[r].state = [e.requests[r].state EXCEPT ![end] = id]
           /\ d.requests[r].shown = [e.requests[r].shown EXCEPT ![end] = p]
           /\ d.requests[r].planned = e.requests[r].planned
           /\ d.live = e.live \cup {id} /\ d.registry = e.registry \cup {id}
           /\ IsFiniteSet(d.live)
<1> DEFINE id == FreshState(e.live)
           x == [e.requests[r] EXCEPT !.state = [e.requests[r].state EXCEPT ![end] = id],
                                      !.shown = [e.requests[r].shown EXCEPT ![end] = p]]
           requests == [e.requests EXCEPT ![r] = x]
           d == [e EXCEPT !.requests = requests, !.live = e.live \cup {id},
                          !.registry = e.registry \cup {id}]
<1>1. e.requests[r] \in Requests /\ e.requests \in MapsOf({1}, Requests) BY EditorFields
<1>2. WithState(e, r, end, p) = d BY <1>1, MapsIn DEF WithState, Editors, Requests
<1>3. id \in Nat \ {NoState} BY EditorFields, FreshFacts
<1> HIDE DEF id
<1>4. x \in Requests BY <1>1, <1>3 DEF Requests
<1>5. /\ x.state = [e.requests[r].state EXCEPT ![end] = id]
      /\ x.shown = [e.requests[r].shown EXCEPT ![end] = p]
      /\ x.planned = e.requests[r].planned
  BY <1>1 DEF Requests
<1> HIDE DEF x
<1>6. requests \in MapsOf({1}, Requests) BY <1>1, <1>4, MapsIn
<1>7. DOMAIN requests = DOMAIN e.requests /\ requests[r] = x BY <1>1, MapsIn
<1> HIDE DEF requests
<1>8. e.live \cup {id} \in States /\ e.registry \cup {id} \in States
  BY <1>3, EditorFields DEF States
<1>9. d \in Editors BY <1>6, <1>8 DEF Editors
<1>10. /\ SameScene(d, e) /\ d.trajs = e.trajs /\ d.requests = requests
       /\ d.live = e.live \cup {id} /\ d.registry = e.registry \cup {id}
  BY DEF Editors, SameScene
<1>11. IsFiniteSet(e.live \cup {id}) BY FS_AddElement
<1> QED BY <1>2, <1>5, <1>7, <1>9, <1>10, <1>11 DEF id

LEMMA NoRequest ==
    ASSUME NEW e \in Editors
    PROVE  e.requests = Empty <=> DOMAIN e.requests = {}
<1>1. Empty = [x \in {} |-> 0] BY DEF Empty
<1>2. e.requests \in [DOMAIN e.requests -> Requests] BY EditorFields, MapsIn
<1> QED BY <1>1, <1>2

\* Both ends' states are made of what would be planned, if there is a request.
LEMMA RestatedFacts ==
    ASSUME NEW e \in Editors, IsFiniteSet(e.live), e.registry \subseteq e.live, TrajsOwned(e),
           \A r \in DOMAIN e.requests, end \in Ends : e.requests[r].state[end] = NoState
    PROVE  LET d == Restated(e) IN
           /\ d \in Editors /\ SameScene(d, e) /\ d.trajs = e.trajs /\ StatesOwned(d) /\ Shown(d)
           /\ \A r \in DOMAIN d.requests, end \in Ends : d.requests[r].state[end] # NoState
<1>1. CASE e.requests = Empty
  <2>1. Restated(e) = e BY <1>1 DEF Restated
  <2>2. DOMAIN e.requests = {} BY <1>1, NoRequest
  <2>3. StatesOwned(e) /\ Shown(e) BY <2>2 DEF StatesOwned, EndsOwned, Shown
  <2> QED BY <2>1, <2>2, <2>3 DEF SameScene
<1>2. CASE e.requests # Empty
  <2>1. DOMAIN e.requests = {1} BY <1>2, NoRequest, EditorFields
  <2>2. e.requests[1] \in Requests BY <2>1, EditorFields
  <2> DEFINE id == FreshState(e.live)
             f == WithState(e, 1, "start", e.requests[1].planned["start"])
             jd == FreshState(f.live)
             d == WithState(f, 1, "goal", e.requests[1].planned["goal"])
  <2>3. /\ "start" \in Ends /\ "goal" \in Ends /\ e.requests[1].planned["start"] \in Poses
        /\ e.requests[1].planned["goal"] \in Poses
    BY <2>2 DEF Requests, Ends
  <2>4. Restated(e) = d BY <1>2 DEF Restated
  <2>5. id \in Nat \ {NoState} /\ id \notin e.live BY EditorFields, FreshFacts
  <2>6. /\ f \in Editors /\ SameScene(f, e) /\ f.trajs = e.trajs
        /\ DOMAIN f.requests = {1}
        /\ f.requests[1].state = [e.requests[1].state EXCEPT !["start"] = id]
        /\ f.requests[1].shown = [e.requests[1].shown EXCEPT !["start"] = e.requests[1].planned["start"]]
        /\ f.requests[1].planned = e.requests[1].planned
        /\ f.live = e.live \cup {id} /\ f.registry = e.registry \cup {id}
        /\ IsFiniteSet(f.live)
    <3>1. 1 \in DOMAIN e.requests BY <2>1
    <3> HIDE DEF d
    <3> QED BY <2>1, <2>3, <3>1, WithStateFacts
  <2> HIDE DEF id, f
  <2>7. jd \in Nat \ {NoState} /\ jd \notin f.live BY <2>6, EditorFields, FreshFacts
  <2>8. /\ d \in Editors /\ SameScene(d, f) /\ d.trajs = f.trajs
        /\ DOMAIN d.requests = {1}
        /\ d.requests[1].state = [f.requests[1].state EXCEPT !["goal"] = jd]
        /\ d.requests[1].shown = [f.requests[1].shown EXCEPT !["goal"] = e.requests[1].planned["goal"]]
        /\ d.requests[1].planned = f.requests[1].planned
        /\ d.live = f.live \cup {jd} /\ d.registry = f.registry \cup {jd}
        /\ IsFiniteSet(d.live)
    <3>1. /\ f \in Editors /\ IsFiniteSet(f.live) /\ 1 \in DOMAIN f.requests
          /\ DOMAIN f.requests = {1}
      BY <2>6
    <3> DEFINE p == e.requests[1].planned["goal"]
    <3>2. p \in Poses /\ "goal" \in Ends BY <2>3
    <3>3. d = WithState(f, 1, "goal", p) OBVIOUS
    <3> HIDE DEF p, d
    <3>4. /\ WithState(f, 1, "goal", p) \in Editors
          /\ SameScene(WithState(f, 1, "goal", p), f)
          /\ WithState(f, 1, "goal", p).trajs = f.trajs
          /\ DOMAIN WithState(f, 1, "goal", p).requests = DOMAIN f.requests
          /\ WithState(f, 1, "goal", p).requests[1].state = [f.requests[1].state EXCEPT !["goal"] = jd]
          /\ WithState(f, 1, "goal", p).requests[1].shown = [f.requests[1].shown EXCEPT !["goal"] = p]
          /\ WithState(f, 1, "goal", p).requests[1].planned = f.requests[1].planned
          /\ WithState(f, 1, "goal", p).live = f.live \cup {jd}
          /\ WithState(f, 1, "goal", p).registry = f.registry \cup {jd}
          /\ IsFiniteSet(WithState(f, 1, "goal", p).live)
      BY <3>1, <3>2, WithStateFacts
    <3> QED BY <3>1, <3>3, <3>4 DEF p
  <2> HIDE DEF d, jd
  <2>9. /\ e.requests[1].state \in [Ends -> Nat]
        /\ e.requests[1].shown \in [Ends -> Poses \cup {NoRobot}]
    BY <2>2 DEF Requests
  <2>10. /\ d.requests[1].state["start"] = id /\ d.requests[1].state["goal"] = jd
         /\ d.requests[1].shown["start"] = e.requests[1].planned["start"]
         /\ d.requests[1].shown["goal"] = e.requests[1].planned["goal"]
    BY <2>3, <2>6, <2>8, <2>9
  <2>11. \A end \in Ends : d.requests[1].state[end] \in {id, jd} BY <2>10 DEF Ends
  <2>12. id # jd /\ id \in d.live /\ jd \in d.live /\ e.live \subseteq d.live
    BY <2>5, <2>6, <2>7, <2>8
  <2>13. EndsOwned(d)
    <3>1. \A end \in Ends : d.requests[1].shown[end] \in Poses BY <2>3, <2>10 DEF Ends
    <3> QED BY <2>5, <2>7, <2>8, <2>10, <2>11, <2>12, <3>1 DEF EndsOwned
  <2>14. TrajsOwned(d)
    <3>1. \A t \in DOMAIN e.trajs : e.trajs[t].state \in e.live \cup {NoState} BY DEF TrajsOwned
    <3>2. d.trajs = e.trajs BY <2>6, <2>8
    <3>3. id \notin e.live \cup {NoState} /\ jd \notin e.live \cup {NoState} BY <2>5, <2>6, <2>7
    <3>4. \A r \in DOMAIN d.requests, end \in Ends : d.requests[r].state[end] \in {id, jd}
      BY <2>8, <2>11
    <3> QED BY <2>12, <3>1, <3>2, <3>3, <3>4 DEF TrajsOwned
  <2>15. StatesOwned(d) BY <2>6, <2>8, <2>13, <2>14 DEF StatesOwned
  <2>16. Shown(d) BY <2>6, <2>8, <2>10 DEF Shown, Ends
  <2>17. \A r \in DOMAIN d.requests, end \in Ends : d.requests[r].state[end] # NoState
    BY <2>5, <2>7, <2>8, <2>11
  <2>18. SameScene(d, e) BY <2>6, <2>8 DEF SameScene
  <2> QED BY <2>4, <2>6, <2>8, <2>15, <2>16, <2>17, <2>18
<1> QED BY <1>1, <1>2

\* A request that is made has both its states, and is shown as it is.
LEMMA RequestedFacts ==
    ASSUME NEW e \in Editors, StatesOwned(e), NEW start \in Poses, NEW goal \in Poses
    PROVE  LET d == Requested(e, start, goal) IN
           /\ d \in Editors /\ SameScene(d, e) /\ d.trajs = e.trajs /\ StatesOwned(d) /\ Shown(d)
           /\ \A r \in DOMAIN d.requests, end \in Ends : d.requests[r].state[end] # NoState
<1> DEFINE r == [state |-> [end \in Ends |-> NoState], shown |-> [end \in Ends |-> NoRobot],
                 planned |-> [end \in Ends |-> IF end = "start" THEN start ELSE goal],
                 good |-> [end \in Ends |-> TRUE]]
           requests == [n \in {1} |-> r]
           made == [e EXCEPT !.requests = requests]
<1>1. Requested(e, start, goal) = Restated(made) BY DEF Requested
<1>2. r \in Requests /\ \A end \in Ends : r.state[end] = NoState BY DEF Requests, NoState
<1> HIDE DEF r
<1>3. requests \in MapsOf({1}, Requests)
  <2>1. DOMAIN requests \subseteq {1} /\ requests \in [DOMAIN requests -> Requests] BY <1>2
  <2> HIDE DEF requests
  <2> QED BY <2>1, MapsIn
<1>4. \A n \in DOMAIN requests, end \in Ends : requests[n].state[end] = NoState BY <1>2
<1> HIDE DEF requests
<1>5. made \in Editors BY <1>3 DEF Editors
<1>6. /\ SameScene(made, e) /\ made.trajs = e.trajs /\ made.live = e.live
      /\ made.registry = e.registry /\ made.requests = requests
  BY DEF Editors, SameScene
<1> HIDE DEF made
<1>7. \A n \in DOMAIN made.requests, end \in Ends : made.requests[n].state[end] = NoState
  BY <1>4, <1>6
<1>8. TrajsOwned(made) BY <1>6, <1>7 DEF StatesOwned, TrajsOwned
<1>9. IsFiniteSet(made.live) /\ made.registry \subseteq made.live BY <1>6 DEF StatesOwned
<1> DEFINE d == Restated(made)
<1>10. /\ d \in Editors /\ SameScene(d, made) /\ d.trajs = made.trajs /\ StatesOwned(d) /\ Shown(d)
       /\ \A n \in DOMAIN d.requests, end \in Ends : d.requests[n].state[end] # NoState
  BY <1>5, <1>7, <1>8, <1>9, RestatedFacts
<1> HIDE DEF d
<1>11. SameScene(d, e) BY <1>6, <1>10 DEF SameScene
<1> QED BY <1>1, <1>6, <1>10, <1>11 DEF d

LEMMA NewTrajectoryFacts ==
    ASSUME NEW n \in Nat, NEW timed \in BOOLEAN
    PROVE  /\ NewTrajectory(n, timed) \in Trajectories
           /\ NewTrajectory(n, timed).state = NoState /\ NewTrajectory(n, timed).size = n
BY DEF NewTrajectory, Trajectories, NoState, Last

\* The trajectory's state is deleted, and one of its own is made unless it has no points.
LEMMA PlayedFacts ==
    ASSUME NEW e \in Editors, StatesOwned(e), NEW t \in DOMAIN e.trajs
    PROVE  LET d == Played(e, t) IN
           /\ d \in Editors /\ SameScene(d, e) /\ d.requests = e.requests /\ StatesOwned(d)
<1> DEFINE x == e.trajs[t]
           live == e.live \ {x.state}
           registry == e.registry \ {x.state}
           id == FreshState(live)
           empty == [Reset(x) EXCEPT !.playing = TRUE, !.visible = TRUE]
           full == [Reset(x) EXCEPT !.state = id, !.playing = TRUE, !.visible = TRUE, !.elapsed = 0]
           y == IF x.size = 0 THEN empty ELSE full
           new == IF x.size = 0 THEN {} ELSE {id}
           trajs == [e.trajs EXCEPT ![t] = y]
           d == [e EXCEPT !.trajs = trajs, !.live = live \cup new, !.registry = registry \cup new]
<1>1. /\ e.trajs \in MapsOf(Trajs, Trajectories) /\ x \in Trajectories
      /\ e.live \in States /\ e.registry \in States
  BY EditorFields
<1>2. /\ Reset(x) \in Trajectories /\ Reset(x).state = NoState /\ Reset(x).size = x.size
      /\ x.size \in Nat /\ x.state \in Nat
  BY <1>1, ResetFacts, TrajectoryFields
<1>3. Played(e, t) = d
  <2> DEFINE freed == [e EXCEPT !.live = live, !.registry = registry]
  <2>1. freed = Unheld(e, {x.state}) BY DEF Unheld, Editors
  <2>2. /\ freed \in Editors /\ freed.live = live /\ freed.registry = registry
        /\ freed.trajs = e.trajs
    BY <1>1 DEF Editors, States
  <2>3. FreshState(freed.live) = id BY <2>2
  <2>4. CASE x.size = 0
    <3>1. Played(e, t) = [freed EXCEPT !.trajs = [freed.trajs EXCEPT ![t] = empty]]
      BY <1>2, <2>1, <2>2, <2>4 DEF Played, Editors
    <3>2. live \cup new = live /\ registry \cup new = registry /\ y = empty BY <2>4
    <3> HIDE DEF live, registry, empty, new, y
    <3> QED BY <2>2, <3>1, <3>2 DEF Editors
  <2>5. CASE x.size # 0
    <3>1. Played(e, t) = [freed EXCEPT !.live = live \cup {id}, !.registry = registry \cup {id},
                                       !.trajs = [freed.trajs EXCEPT ![t] = full]]
      BY <1>2, <2>1, <2>2, <2>3, <2>5 DEF Played, Editors
    <3>2. new = {id} /\ y = full BY <2>5
    <3> HIDE DEF live, registry, full, new, y, id
    <3> QED BY <2>2, <3>1, <3>2 DEF Editors
  <2> QED BY <2>4, <2>5
<1>4. live \in States /\ registry \in States /\ IsFiniteSet(live)
  BY <1>1, FS_Subset DEF States, StatesOwned
<1>5. id \in Nat \ {NoState} /\ id \notin live BY <1>4, FreshFacts
<1> HIDE DEF id
<1>6. y \in Trajectories /\ y.state = IF x.size = 0 THEN NoState ELSE id
  BY <1>2, <1>5 DEF Trajectories
<1> HIDE DEF y
<1>7. trajs \in MapsOf(Trajs, Trajectories) BY <1>1, <1>6, MapsIn
<1>8. /\ DOMAIN trajs = DOMAIN e.trajs /\ trajs[t] = y
      /\ \A u \in DOMAIN e.trajs : u # t => trajs[u] = e.trajs[u]
  BY <1>1, MapsIn
<1> HIDE DEF trajs
<1>9. live \cup new \in States /\ registry \cup new \in States BY <1>4, <1>5 DEF States
<1>10. d \in Editors BY <1>7, <1>9 DEF Editors
<1>11. /\ SameScene(d, e) /\ d.requests = e.requests /\ d.trajs = trajs
       /\ d.live = live \cup new /\ d.registry = registry \cup new
  BY DEF Editors, SameScene
<1> HIDE DEF d
<1>12. IsFiniteSet(d.live)
  <2>1. IsFiniteSet(live \cup {id}) BY <1>4, FS_AddElement
  <2>2. live \cup {} = live OBVIOUS
  <2> QED BY <1>4, <1>11, <2>1, <2>2
<1>13. d.registry \subseteq d.live BY <1>11 DEF StatesOwned
<1>14. y.state \in new \cup {NoState} /\ y.state \notin live BY <1>4, <1>5, <1>6 DEF States
<1>15. \A u \in DOMAIN e.trajs : u # t => d.trajs[u].state \in live \cup {NoState}
  BY <1>8, <1>11 DEF StatesOwned, TrajsOwned
<1>16. \A r \in DOMAIN e.requests, end \in Ends :
          e.requests[r].state[end] \in live \cup {NoState}
  BY DEF StatesOwned, TrajsOwned, EndsOwned
<1>17. EndsOwned(d) BY <1>11, <1>16 DEF StatesOwned, EndsOwned
<1>18. \A u \in DOMAIN d.trajs : d.trajs[u].state \in d.live \cup {NoState}
  BY <1>8, <1>11, <1>14, <1>15
<1>19. \A u, v \in DOMAIN d.trajs :
          d.trajs[u].state = d.trajs[v].state => u = v \/ d.trajs[u].state = NoState
  <2> SUFFICES ASSUME NEW u \in DOMAIN e.trajs, NEW v \in DOMAIN e.trajs,
                      d.trajs[u].state = d.trajs[v].state, u # v
               PROVE  d.trajs[u].state = NoState
    BY <1>8, <1>11
  <2>1. CASE u = t BY <1>8, <1>11, <1>14, <1>15, <2>1
  <2>2. CASE v = t BY <1>8, <1>11, <1>14, <1>15, <2>2
  <2>3. CASE u # t /\ v # t BY <1>8, <1>11, <2>3 DEF StatesOwned, TrajsOwned
  <2> QED BY <2>1, <2>2, <2>3
<1>20. \A r \in DOMAIN d.requests, end \in Ends, u \in DOMAIN d.trajs :
          d.requests[r].state[end] = d.trajs[u].state => d.trajs[u].state = NoState
  <2> SUFFICES ASSUME NEW r \in DOMAIN e.requests, NEW end \in Ends, NEW u \in DOMAIN e.trajs,
                      e.requests[r].state[end] = d.trajs[u].state
               PROVE  d.trajs[u].state = NoState
    BY <1>8, <1>11
  <2>1. CASE u = t BY <1>8, <1>11, <1>14, <1>16, <2>1
  <2>2. CASE u # t BY <1>8, <1>11, <2>2 DEF StatesOwned, TrajsOwned
  <2> QED BY <2>1, <2>2
<1>21. StatesOwned(d) BY <1>12, <1>13, <1>17, <1>18, <1>19, <1>20 DEF StatesOwned, TrajsOwned
<1> QED BY <1>3, <1>10, <1>11, <1>21 DEF d

\* However its point goes on, it is one of the trajectory's.
LEMMA AdvancedFacts ==
    ASSUME NEW t \in Trajectories
    PROVE  Advanced(t) \in Trajectories /\ Advanced(t).state = t.state
<1> DEFINE Shape == [size : Nat, timed : BOOLEAN, state : Nat, playing : BOOLEAN,
                     visible : BOOLEAN, point : Nat, elapsed : Nat]
           now == [t EXCEPT !.elapsed = Min({t.elapsed + 1, t.size})]
<1>1. /\ t \in Shape /\ t.size \in Nat /\ t.point \in Nat /\ t.elapsed \in Nat
      /\ t.point <= Last(t.size)
  BY TrajectoryFields
<1>2. Min({t.elapsed + 1, t.size}) \in Nat
  <2>1. {t.elapsed + 1, t.size} \in SUBSET Nat BY <1>1
  <2>2. {t.elapsed + 1, t.size} # {} OBVIOUS
  <2> QED BY <2>1, <2>2, MinOfNat
<1>3. /\ now \in Shape /\ now.state = t.state /\ now.size = t.size /\ now.point = t.point
      /\ now.elapsed \in Nat
  BY <1>1, <1>2
<1>4. now \in Trajectories BY <1>1, <1>3 DEF Trajectories
<1>5. CASE ~t.playing BY <1>5 DEF Advanced
<1>6. CASE t.playing /\ (t.state = NoState \/ t.size = 0)
  <2>1. Advanced(t) = now BY <1>1, <1>6 DEF Advanced
  <2> QED BY <1>3, <1>4, <2>1
<1>7. CASE t.playing /\ t.state # NoState /\ t.size # 0
  <2>1. Advanced(t) = IF t.timed THEN Timed(now) ELSE Stepped(now)
    BY <1>1, <1>3, <1>7 DEF Advanced
  <2> HIDE DEF now
  <2>3. Last(t.size) = t.size - 1 /\ t.size - 1 \in Nat BY <1>1, <1>7 DEF Last
  <2>2. ASSUME NEW next \in Nat, next <= t.size - 1
        PROVE  [now EXCEPT !.point = next] \in Trajectories /\ [now EXCEPT !.point = next].state = t.state
    <3> DEFINE x == [now EXCEPT !.point = next]
    <3>1. x \in Shape /\ x.point = next /\ x.size = t.size /\ x.state = t.state BY <1>3
    <3> QED BY <2>2, <2>3, <3>1 DEF Trajectories
  <2>6. /\ [now EXCEPT !.point = t.size - 1, !.playing = FALSE] \in Trajectories
        /\ [now EXCEPT !.point = t.size - 1, !.playing = FALSE].state = t.state
    <3> DEFINE x == [now EXCEPT !.point = t.size - 1, !.playing = FALSE]
    <3>1. x \in Shape /\ x.point = t.size - 1 /\ x.size = t.size /\ x.state = t.state BY <1>3, <2>3
    <3>2. t.size - 1 <= t.size - 1 BY <2>3
    <3> QED BY <2>3, <3>1, <3>2 DEF Trajectories
  <2>4. CASE t.timed
    <3> DEFINE due == {i \in now.point .. now.size - 1 : i <= now.elapsed}
               next == IF due = {} THEN now.point ELSE Max(due)
    <3>1. next \in Nat
      <4>1. CASE due = {} BY <1>1, <1>3, <4>1
      <4>2. CASE due # {}
        <5>1. due \in SUBSET (now.point .. now.size - 1) /\ now.point \in Int /\ now.size - 1 \in Int
          BY <1>1, <1>3
        <5>2. Max(due) \in now.point .. now.size - 1 BY <4>2, <5>1, MaxOfBounded
        <5> QED BY <1>1, <1>3, <4>2, <5>2
      <4> QED BY <4>1, <4>2
    <3>2. Timed(now) = IF next >= now.size - 1 THEN [now EXCEPT !.point = now.size - 1, !.playing = FALSE]
                       ELSE [now EXCEPT !.point = next]
      BY DEF Timed
    <3> HIDE DEF next
    <3>3. CASE next >= t.size - 1
      <4>1. Timed(now) = [now EXCEPT !.point = t.size - 1, !.playing = FALSE] BY <1>3, <3>2, <3>3
      <4> QED BY <2>1, <2>4, <2>6, <4>1
    <3>4. CASE ~(next >= t.size - 1)
      <4>1. Timed(now) = [now EXCEPT !.point = next] BY <1>3, <3>2, <3>4
      <4>2. next <= t.size - 1 BY <2>3, <3>1, <3>4
      <4> QED BY <2>1, <2>2, <2>4, <3>1, <4>1, <4>2
    <3> QED BY <3>3, <3>4
  <2>5. CASE ~t.timed
    <3> DEFINE next == now.point + 2
    <3>1. next \in Nat BY <1>1, <1>3
    <3>2. Stepped(now) = IF next >= now.size - 1 THEN [now EXCEPT !.point = now.size - 1, !.playing = FALSE]
                         ELSE [now EXCEPT !.point = next]
      BY DEF Stepped
    <3> HIDE DEF next
    <3>3. CASE next >= t.size - 1
      <4>1. Stepped(now) = [now EXCEPT !.point = t.size - 1, !.playing = FALSE] BY <1>3, <3>2, <3>3
      <4> QED BY <2>1, <2>5, <2>6, <4>1
    <3>4. CASE ~(next >= t.size - 1)
      <4>1. Stepped(now) = [now EXCEPT !.point = next] BY <1>3, <3>2, <3>4
      <4>2. next <= t.size - 1 BY <2>3, <3>1, <3>4
      <4> QED BY <2>1, <2>2, <2>5, <3>1, <4>1, <4>2
    <3> QED BY <3>3, <3>4
  <2> QED BY <2>4, <2>5
<1> QED BY <1>5, <1>6, <1>7

-----------------------------------------------------------------------------
(* The send, and the answer to it *)

LEMMA SendFacts ==
    ASSUME NEW e \in Editors, IsFiniteSet(e.live), NEW by, NEW name, NEW rest,
           Send(e, by, name, rest)
    PROVE  /\ ed' \in Editors /\ Null(ed') /\ StatesOwned(ed') /\ Shown(ed') /\ ed'.robot = NoRobot
           /\ ed'.objects = Cleared(e.objects) /\ ed'.markers = e.markers /\ ~ed'.scene.sent
           /\ call' = [by |-> by, awaits |-> TRUE, todo |-> rest, name |-> name,
                       acm |-> Allowed(e.objects, e.scene.acm)]
           /\ UNCHANGED crashed
<1> DEFINE d == StatesDeleted(e)
           view == [d.scene EXCEPT !.sent = FALSE]
           f == [d EXCEPT !.objects = Cleared(e.objects), !.robot = NoRobot, !.scene = view]
<1>1. /\ d \in Editors /\ SameScene(d, e) /\ Null(d) /\ d.live \subseteq e.live /\ d.registry = {}
  BY StatesDeletedFacts
<1> HIDE DEF d
<1>2. d.objects = e.objects /\ d.markers = e.markers /\ d.scene = e.scene BY <1>1 DEF SameScene
<1>3. ed' = f BY <1>2 DEF Send, d
<1>4. Cleared(e.objects) \in MapsOf(Objects, Entries) BY EditorFields, ClearedFacts
<1>5. d.scene \in Scenes BY <1>1, EditorFields
<1>6. view \in Scenes /\ ~view.sent BY <1>5 DEF Scenes
<1> HIDE DEF view
<1>7. f \in Editors BY <1>1, <1>4, <1>6 DEF Editors
<1>8. /\ f.objects = Cleared(e.objects) /\ f.robot = NoRobot /\ f.scene = view
      /\ f.markers = d.markers /\ f.requests = d.requests /\ f.trajs = d.trajs
      /\ f.live = d.live /\ f.registry = d.registry
  BY <1>1 DEF Editors
<1> HIDE DEF f
<1>9. Null(f) BY <1>1, <1>8 DEF Null
<1>10. IsFiniteSet(f.live) /\ f.registry \subseteq f.live BY <1>1, <1>8, FS_Subset
<1>11. StatesOwned(f) /\ Shown(f) BY <1>9, <1>10, NullIsOwned
<1>12. /\ call' = [by |-> by, awaits |-> TRUE, todo |-> rest, name |-> name,
                   acm |-> Allowed(e.objects, e.scene.acm)]
       /\ UNCHANGED crashed
  BY DEF Send
<1> QED BY <1>2, <1>3, <1>6, <1>7, <1>8, <1>9, <1>11, <1>12

LEMMA AnswerFacts ==
    ASSUME ed \in Editors, call.acm \in MapsOf(Objects, SUBSET Links), mode.own \subseteq Objects,
           NEW p \in Poses
    PROVE  LET d == Answer(p) IN
           /\ d \in Editors /\ d.markers = ed.markers /\ d.newest = ed.newest
           /\ d.requests = ed.requests /\ d.trajs = ed.trajs /\ d.live = ed.live
           /\ d.registry = ed.registry /\ d.robot = p
           /\ DOMAIN d.objects = AttachedIn(ed.objects) \cup FreeIn(ed.objects)
           /\ \A o \in DOMAIN d.objects : d.objects[o] = ed.objects[o]
           /\ d.scene.coll = FreeIn(ed.objects) \cup (mode.own \ AttachedIn(ed.objects))
           /\ d.scene.att = [o \in AttachedIn(ed.objects) |-> ed.objects[o].touch]
           /\ d.scene.acm = call.acm /\ d.scene.sent
<1> DEFINE remaining == AttachedIn(ed.objects) \cup FreeIn(ed.objects)
           objects == Without(ed.objects, DOMAIN ed.objects \ remaining)
           view == [coll |-> FreeIn(ed.objects) \cup (mode.own \ AttachedIn(ed.objects)),
                     att |-> [o \in AttachedIn(ed.objects) |-> ed.objects[o].touch],
                     acm |-> call.acm, robot |-> p, sent |-> TRUE]
           d == [ed EXCEPT !.objects = objects, !.scene = view, !.robot = p, !.values = p]
<1>1. Answer(p) = d BY DEF Answer, Editors
<1>2. /\ ed.objects \in MapsOf(Objects, Entries) /\ DOMAIN ed.objects \subseteq Objects
      /\ \A o \in DOMAIN ed.objects : ed.objects[o] \in Entries
  BY EditorFields
<1>3. /\ AttachedIn(ed.objects) \subseteq DOMAIN ed.objects
      /\ FreeIn(ed.objects) \subseteq DOMAIN ed.objects
  BY DEF AttachedIn, FreeIn
<1>4. objects \in MapsOf(Objects, Entries) BY <1>2, MapWithout
<1>5. DOMAIN objects = remaining /\ \A o \in remaining : objects[o] = ed.objects[o]
  BY <1>3 DEF Without
<1>6. view \in Scenes
  <2> DEFINE att == [o \in AttachedIn(ed.objects) |-> ed.objects[o].touch]
  <2>1. DOMAIN att \subseteq Objects BY <1>2, <1>3
  <2>2. att \in [DOMAIN att -> SUBSET DOMAIN LinksOf] BY <1>2, <1>3 DEF Entries
  <2> HIDE DEF att
  <2>3. att \in MapsOf(Objects, SUBSET DOMAIN LinksOf) BY <2>1, <2>2, MapsIn
  <2> QED BY <1>2, <1>3, <2>3 DEF Scenes, att
<1>7. /\ view.coll = FreeIn(ed.objects) \cup (mode.own \ AttachedIn(ed.objects))
      /\ view.att = [o \in AttachedIn(ed.objects) |-> ed.objects[o].touch]
      /\ view.acm = call.acm /\ view.sent
  OBVIOUS
<1> HIDE DEF objects, view
<1>8. d \in Editors BY <1>4, <1>6 DEF Editors
<1>9. /\ d.markers = ed.markers /\ d.newest = ed.newest
      /\ d.requests = ed.requests /\ d.trajs = ed.trajs /\ d.live = ed.live
      /\ d.registry = ed.registry /\ d.robot = p /\ d.objects = objects /\ d.scene = view
  BY DEF Editors
<1> QED BY <1>1, <1>5, <1>7, <1>8, <1>9

-----------------------------------------------------------------------------
(* What the editor has yet to do *)

Pendings ==     \* the object that was attached is yet to be shown so
    {<<"attached">>, <<"attached", "second", "shown">>,
     <<"attached", "second", "requests", "shown">>}
Forgets == {<<"forget">>}       \* the object that was deleted is yet to be forgotten
Todos ==
    Pendings \cup Forgets \cup
    {<<>>, <<"second", "shown">>, <<"requests", "shown">>, <<"second", "requests", "shown">>,
     <<"shown">>}

LEMMA TodoSteps ==
    ASSUME NEW todo \in Todos, todo # <<>>
    PROVE  /\ Tail(todo) \in Todos
           /\ Tail(todo) \notin Pendings /\ Tail(todo) \notin Forgets
           /\ Head(todo) = "forget" => todo \in Forgets
           /\ Head(todo) = "attached" => todo \in Pendings
           /\ Head(todo) \in {"second", "requests", "shown"} => todo \notin Pendings \cup Forgets
           /\ Head(todo) = "requests" => Tail(todo) = <<"shown">>
<1>1. CASE todo = <<"attached">> BY <1>1 DEF Todos, Pendings, Forgets
<1>2. CASE todo = <<"attached", "second", "shown">> BY <1>2 DEF Todos, Pendings, Forgets
<1>3. CASE todo = <<"attached", "second", "requests", "shown">>
  BY <1>3 DEF Todos, Pendings, Forgets
<1>4. CASE todo = <<"forget">> BY <1>4 DEF Todos, Pendings, Forgets
<1>5. CASE todo = <<"second", "shown">> BY <1>5 DEF Todos, Pendings, Forgets
<1>6. CASE todo = <<"requests", "shown">> BY <1>6 DEF Todos, Pendings, Forgets
<1>7. CASE todo = <<"second", "requests", "shown">> BY <1>7 DEF Todos, Pendings, Forgets
<1>8. CASE todo = <<"shown">> BY <1>8 DEF Todos, Pendings, Forgets
<1> QED BY <1>1, <1>2, <1>3, <1>4, <1>5, <1>6, <1>7, <1>8 DEF Todos, Pendings, Forgets

LEMMA TodoKinds ==
    /\ <<>> \in Todos /\ <<>> \notin Pendings /\ <<>> \notin Forgets
    /\ <<"forget">> \in Todos /\ <<"forget">> \notin Pendings /\ <<"forget">> \in Forgets
    /\ <<"attached">> \in Todos /\ <<"attached">> \in Pendings /\ <<"attached">> \notin Forgets
    /\ <<"shown">> \in Todos /\ <<"shown">> \notin Pendings /\ <<"shown">> \notin Forgets
    /\ <<"requests", "shown">> \in Todos
    /\ <<"requests", "shown">> \notin Pendings /\ <<"requests", "shown">> \notin Forgets
BY DEF Todos, Pendings, Forgets

\* Concatenations of two sequences, one after the other.
LEMMA Joins ==
    ASSUME NEW S, NEW s \in Seq(S), NEW t \in Seq(S), NEW u \in Seq(S), Len(u) = Len(s) + Len(t),
           \A i \in 1..Len(s) : u[i] = s[i],
           \A i \in 1..Len(t) : u[Len(s) + i] = t[i]
    PROVE  s \o t = u
<1>1. /\ s \o t \in Seq(S) /\ Len(s \o t) = Len(s) + Len(t)
      /\ \A i \in 1 .. Len(s) + Len(t) : (s \o t)[i] = IF i <= Len(s) THEN s[i] ELSE t[i - Len(s)]
  BY ConcatProperties
<1>2. ASSUME NEW i \in 1..Len(u) PROVE (s \o t)[i] = u[i]
  <2>1. Len(s) \in Nat /\ Len(t) \in Nat OBVIOUS
  <2>2. CASE i <= Len(s) BY <1>1, <2>1, <2>2
  <2>3. CASE i > Len(s)
    <3>1. i - Len(s) \in 1..Len(t) /\ Len(s) + (i - Len(s)) = i BY <2>1, <2>3
    <3>2. u[Len(s) + (i - Len(s))] = t[i - Len(s)] BY <3>1
    <3>3. u[i] = t[i - Len(s)] BY <3>1, <3>2
    <3>4. (s \o t)[i] = t[i - Len(s)] BY <1>1, <2>1, <2>3
    <3> QED BY <3>3, <3>4
  <2> QED BY <2>1, <2>2, <2>3
<1> QED BY <1>1, <1>2, SeqEqual

LEMMA LoadsJoin ==
    ASSUME NEW rest \in {<<"shown">>, <<"requests", "shown">>}
    PROVE  LET todo == <<"attached", "second">> \o rest IN todo \in Todos /\ todo \in Pendings /\ todo \notin Forgets
<1> DEFINE S == {"attached", "second", "requests", "shown"}
           s == <<"attached", "second">>
<1>1. CASE rest = <<"shown">>
  <2> DEFINE t == <<"shown">>
             u == <<"attached", "second", "shown">>
  <2>1. s \in Seq(S) /\ t \in Seq(S) /\ u \in Seq(S) OBVIOUS
  <2>2. Len(u) = Len(s) + Len(t) /\ Len(s) = 2 /\ Len(t) = 1 OBVIOUS
  <2>3. \A i \in 1..Len(s) : u[i] = s[i] OBVIOUS
  <2>4. \A i \in 1..Len(t) : u[Len(s) + i] = t[i]
    <3>1. \A i \in 1..1 : u[2 + i] = t[i] OBVIOUS
    <3> QED BY <2>2, <3>1
  <2>5. u \in Todos /\ u \in Pendings /\ u \notin Forgets BY DEF Todos, Pendings, Forgets
  <2> HIDE DEF S, s, t, u
  <2>6. s \o t = u BY <2>1, <2>2, <2>3, <2>4, Joins
  <2> QED BY <1>1, <2>5, <2>6 DEF s, t
<1>2. CASE rest = <<"requests", "shown">>
  <2> DEFINE t == <<"requests", "shown">>
             u == <<"attached", "second", "requests", "shown">>
  <2>1. s \in Seq(S) /\ t \in Seq(S) /\ u \in Seq(S) OBVIOUS
  <2>2. Len(u) = Len(s) + Len(t) /\ Len(s) = 2 /\ Len(t) = 2 OBVIOUS
  <2>3. \A i \in 1..Len(s) : u[i] = s[i] OBVIOUS
  <2>4. \A i \in 1..Len(t) : u[Len(s) + i] = t[i]
    <3>1. \A i \in 1..2 : u[2 + i] = t[i] OBVIOUS
    <3> QED BY <2>2, <3>1
  <2>5. u \in Todos /\ u \in Pendings /\ u \notin Forgets BY DEF Todos, Pendings, Forgets
  <2> HIDE DEF S, s, t, u
  <2>6. s \o t = u BY <2>1, <2>2, <2>3, <2>4, Joins
  <2> QED BY <1>2, <2>5, <2>6 DEF s, t
<1> QED BY <1>1, <1>2

-----------------------------------------------------------------------------
(* The inductive invariant *)

Names == Objects \cup {NoObject}
CallFields == {"by", "awaits", "todo", "acm", "name"}

\* The types, and whose name is remembered.
TInv ==
    /\ mode \in Modes /\ left \in 0 .. mode.steps /\ crashed \in BOOLEAN /\ dialog \in Names
    /\ ed \in Editors
    /\ DOMAIN call = CallFields
    /\ call.awaits \in BOOLEAN /\ call.todo \in Todos /\ call.acm \in MapsOf(Objects, SUBSET Links)
    /\ call.todo \in Pendings \cup Forgets => call.name \in Objects

\* Who awaits an answer has no robot and no states; who does not has both, unless an
\* answer was lost.
NInv ==
    /\ call.awaits => ed.robot = NoRobot /\ Null(ed)
    /\ ~mode.fails /\ ~call.awaits =>
           /\ ed.robot # NoRobot
           /\ \A r \in DOMAIN ed.requests, end \in Ends : ed.requests[r].state[end] # NoState

Visible(m) == m.sel # "none" \/ m.control

\* A marker that is seen is of an object that is listed, by its name.
Marked(e) ==
    \A o \in Objects \ mode.own :
        Visible(e.markers[o]) => o \in DOMAIN e.objects /\ (e.objects[o].coll \/ e.objects[o].att)

Calm(e) == \A o \in DOMAIN e.objects : ~e.objects[o].attach /\ ~e.objects[o].detach

\* An object that is yet to be shown as attached is; one that is yet to be forgotten is
\* listed only if the server has it by itself.
CallInv ==
    /\ call.todo \in Pendings =>
           call.name \in DOMAIN ed.objects /\ ed.objects[call.name].att
    /\ call.todo \in Forgets /\ call.name \notin mode.own => ~Visible(ed.markers[call.name])
    /\ call.todo \in Forgets /\ call.name \in DOMAIN ed.objects =>
           /\ ~ed.objects[call.name].att
           /\ ed.objects[call.name].coll => call.name \in mode.own

\* The object of the dialog has a name, if it is still there.
DialogInv ==
    ~mode.fails /\ mode.own = {} /\ ~call.awaits /\ dialog # NoObject /\ dialog \in DOMAIN ed.objects =>
        ed.objects[dialog].coll \/ ed.objects[dialog].att

LInv == ed.scene.sent => ListedIsThere

\* The allowed collisions of the scene, or of the request that is to be answered.
Acm == IF call.awaits THEN call.acm ELSE ed.scene.acm

AttachedMayTouch ==
    \A o \in DOMAIN ed.objects :
        ed.objects[o].att => o \in DOMAIN Acm /\ Acm[o] = ed.objects[o].touch
OthersTouchNothing ==
    \A o \in DOMAIN Acm : ~(o \in DOMAIN ed.objects /\ ed.objects[o].att) => Acm[o] = {}
FreeAreAsked ==
    call.awaits => \A o \in DOMAIN ed.objects \ mode.own :
                       ed.objects[o].coll /\ ~ed.objects[o].att => o \in DOMAIN Acm
Takes(m) == m.control \/ m.sel = "select"
TakenAreFree ==
    \A o \in DOMAIN ed.objects :
        ed.objects[o].att /\ Takes(ed.markers[o]) => call.todo \in Pendings /\ o = call.name

AInv ==
    Regular => /\ AttachedMayTouch /\ OthersTouchNothing /\ FreeAreAsked /\ TakenAreFree
               /\ ed.scene.sent => AllowedIsTouch

OInv == Marked(ed) /\ Calm(ed) /\ CallInv /\ DialogInv /\ LInv /\ AInv
RInv == StatesOwned(ed) /\ (~mode.unlucky => Shown(ed)) /\ NInv
CInv == crashed => mode.fails \/ mode.crosses \/ mode.own # {}
IInv == TInv /\ RInv /\ OInv /\ CInv

LEMMA ModeFacts ==
    ASSUME mode \in Modes
    PROVE  /\ mode.own \subseteq Objects /\ mode.steps \in Nat
           /\ mode.objects \in BOOLEAN /\ mode.careful \in BOOLEAN /\ mode.allowed \in BOOLEAN
           /\ mode.fails \in BOOLEAN /\ mode.crosses \in BOOLEAN /\ mode.unlucky \in BOOLEAN
           /\ mode.stored \in StoredScenes /\ mode.sizes \subseteq Nat
BY ModesAssumption

LEMMA StoredFacts ==
    ASSUME mode \in Modes
    PROVE  /\ mode.stored.coll \in SUBSET Objects
           /\ mode.stored.att \in MapsOf(Objects, SUBSET Links)
           /\ mode.stored.acm \in MapsOf(Objects, SUBSET Links)
           /\ mode.stored.robot \in Poses /\ mode.stored.start \in Poses
           /\ mode.stored.goal \in Poses
           /\ mode.stored.sizes \in Seq(Nat) /\ DOMAIN mode.stored.sizes \subseteq Trajs
           /\ DOMAIN mode.stored.att \subseteq Objects
           /\ \A o \in DOMAIN mode.stored.att : mode.stored.att[o] \in SUBSET Links
<1>1. mode.stored \in StoredScenes BY ModeFacts
<1>2. /\ mode.stored.coll \in SUBSET Objects
      /\ mode.stored.att \in MapsOf(Objects, SUBSET Links)
      /\ mode.stored.acm \in MapsOf(Objects, SUBSET Links)
      /\ mode.stored.robot \in Poses /\ mode.stored.start \in Poses
      /\ mode.stored.goal \in Poses
      /\ mode.stored.sizes \in {s \in Seq(Nat) : DOMAIN s \subseteq Trajs}
  BY <1>1 DEF StoredScenes
<1>3. mode.stored.sizes \in Seq(Nat) /\ DOMAIN mode.stored.sizes \subseteq Trajs BY <1>2
<1>4. /\ DOMAIN mode.stored.att \subseteq Objects
      /\ \A o \in DOMAIN mode.stored.att : mode.stored.att[o] \in SUBSET Links
  BY <1>2, MapsIn
<1> QED BY <1>2, <1>3, <1>4

-----------------------------------------------------------------------------
(* A send keeps the invariant *)

\* What a send needs of the editor: the objects that are attached may touch what they are
\* allowed to, and what is to be done after the send can be.
Listable(e) ==
    /\ \A o \in DOMAIN e.objects : ~(e.objects[o].attach /\ e.objects[o].detach)
    /\ Regular =>
         /\ \A o \in DOMAIN e.objects : e.objects[o].attach => e.objects[o].att
         /\ \A o \in DOMAIN e.objects : e.objects[o].att /\ ~e.objects[o].attach =>
                o \in DOMAIN e.scene.acm /\ e.scene.acm[o] = e.objects[o].touch
         /\ \A o \in DOMAIN e.scene.acm :
                ~(o \in DOMAIN e.objects /\ e.objects[o].att) => e.scene.acm[o] = {}
         /\ \A o \in DOMAIN e.objects \ mode.own :
                e.objects[o].detach => e.objects[o].coll \/ e.objects[o].att
Remembers(e, name, rest) ==
    /\ rest \in Pendings \cup Forgets => name \in Objects
    /\ rest \in Pendings =>
           name \in DOMAIN e.objects /\ e.objects[name].att /\ e.objects[name].attach
    /\ rest \in Forgets =>
           /\ name \notin mode.own => ~Visible(e.markers[name])
           /\ name \in DOMAIN e.objects =>
                  /\ ~e.objects[name].att /\ ~e.objects[name].coll
                  /\ ~e.objects[name].attach /\ ~e.objects[name].detach
    /\ Regular =>
           \A o \in DOMAIN e.objects :
               e.objects[o].att /\ ~e.objects[o].detach /\ Takes(e.markers[o]) =>
                   rest \in Pendings /\ o = name

LEMMA SendKeeps ==
    ASSUME IInv, NEW e \in Editors, IsFiniteSet(e.live), NEW by, NEW name, NEW rest \in Todos,
           Send(e, by, name, rest), Marked(e), Listable(e), Remembers(e, name, rest),
           mode' = mode, left' \in 0 .. mode.steps, dialog' \in Names
    PROVE  IInv'
<1> DEFINE f == e.objects
           acm == e.scene.acm
<1>0. mode \in Modes /\ mode.own \subseteq Objects BY ModeFacts DEF IInv, TInv
<1>1. /\ ed' \in Editors /\ Null(ed') /\ StatesOwned(ed') /\ Shown(ed') /\ ed'.robot = NoRobot
      /\ ed'.objects = Cleared(f) /\ ed'.markers = e.markers /\ ~ed'.scene.sent
      /\ call' = [by |-> by, awaits |-> TRUE, todo |-> rest, name |-> name,
                  acm |-> Allowed(f, acm)]
      /\ UNCHANGED crashed
  BY SendFacts
<1>2. /\ f \in MapsOf(Objects, Entries) /\ DOMAIN f \subseteq Objects
      /\ \A o \in DOMAIN f : f[o] \in Entries
      /\ acm \in MapsOf(Objects, SUBSET Links)
      /\ e.markers \in [Objects -> Marks]
  BY EditorFields
<1>3. /\ DOMAIN Cleared(f) = DOMAIN f
      /\ \A o \in DOMAIN f : Cleared(f)[o] =
             IF f[o].attach THEN [f[o] EXCEPT !.attach = FALSE, !.touch = Expanded(f[o].touch)]
             ELSE IF f[o].detach THEN [f[o] EXCEPT !.detach = FALSE, !.att = FALSE, !.coll = TRUE]
             ELSE f[o]
  BY <1>2, ClearedFacts
<1> DEFINE g == Allowed(f, acm)
<1>4. /\ g \in MapsOf(Objects, SUBSET Links)
      /\ DOMAIN g = (DOMAIN acm \cup {x \in DOMAIN f : f[x].attach \/ ~f[x].att}) \ Removed(f)
      /\ \A o \in DOMAIN g : g[o] =
             IF o \in DOMAIN f /\ f[o].attach THEN Expanded(f[o].touch)
             ELSE IF o \notin DOMAIN acm \/ (o \in DOMAIN f /\ f[o].detach) THEN {}
             ELSE acm[o]
  BY <1>2, AllowedFacts
<1>5. /\ ed'.objects = Cleared(f) /\ ed'.markers = e.markers
      /\ call'.awaits /\ call'.todo = rest /\ call'.name = name /\ call'.acm = g
      /\ DOMAIN call' = CallFields
  BY <1>1 DEF CallFields
<1> HIDE DEF g
\* What becomes of an entry.
<1>6. ASSUME NEW o \in DOMAIN f
      PROVE  LET x == Cleared(f)[o] IN
             /\ ~x.attach \/ f[o].detach
             /\ f[o].attach => x.att = f[o].att /\ x.coll = f[o].coll
                               /\ x.touch = Expanded(f[o].touch) /\ x.detach = f[o].detach /\ ~x.attach
             /\ ~f[o].attach /\ f[o].detach => ~x.att /\ x.coll /\ ~x.detach /\ ~x.attach
             /\ ~f[o].attach /\ ~f[o].detach => x = f[o]
  BY <1>2, <1>3 DEF Entries
<1>7. TInv'
  BY <1>0, <1>1, <1>4, <1>5 DEF IInv, TInv, Remembers
<1>8. RInv' BY <1>1, <1>5 DEF RInv, NInv
<1>9. CInv' BY <1>1 DEF IInv, CInv
<1>10. Marked(ed)' BY <1>3, <1>5, <1>6 DEF Marked, Visible
<1>11. Calm(ed)' BY <1>3, <1>5, <1>6 DEF Calm, Listable
<1>12. CallInv' BY <1>3, <1>5, <1>6 DEF CallInv, Remembers
<1>13. DialogInv' /\ LInv' BY <1>1, <1>5 DEF DialogInv, LInv
<1>14. AInv'
  <2> SUFFICES ASSUME Regular PROVE AInv' BY DEF AInv, Regular
  <2>1. Acm' = g BY <1>5 DEF Acm
  <2>2. /\ \A o \in DOMAIN f : f[o].attach => f[o].att
        /\ \A o \in DOMAIN f : f[o].att /\ ~f[o].attach => o \in DOMAIN acm /\ acm[o] = f[o].touch
        /\ \A o \in DOMAIN acm : ~(o \in DOMAIN f /\ f[o].att) => acm[o] = {}
        /\ \A o \in DOMAIN f \ mode.own : f[o].detach => f[o].coll \/ f[o].att
        /\ \A o \in DOMAIN f : ~(f[o].attach /\ f[o].detach)
        /\ \A o \in DOMAIN f : f[o].att /\ ~f[o].detach /\ Takes(e.markers[o]) =>
               rest \in Pendings /\ o = name
    BY DEF Listable, Remembers
  <2>3. Removed(f) = {o \in DOMAIN f : ~f[o].att /\ ~f[o].coll} BY DEF Removed
  <2>4. AttachedMayTouch'
    <3> SUFFICES ASSUME NEW o \in DOMAIN f, Cleared(f)[o].att
                 PROVE  o \in DOMAIN g /\ g[o] = Cleared(f)[o].touch
      BY <1>3, <1>5, <2>1 DEF AttachedMayTouch
    <3>1. f[o].att /\ o \notin Removed(f) /\ (f[o].attach \/ ~f[o].detach) BY <1>6, <2>2, <2>3
    <3>2. CASE f[o].attach BY <1>4, <1>6, <3>1, <3>2
    <3>3. CASE ~f[o].attach BY <1>4, <1>6, <2>2, <3>1, <3>3
    <3> QED BY <3>2, <3>3
  <2>5. OthersTouchNothing'
    <3> SUFFICES ASSUME NEW o \in DOMAIN g, ~(o \in DOMAIN f /\ Cleared(f)[o].att)
                 PROVE  g[o] = {}
      BY <1>3, <1>5, <2>1 DEF OthersTouchNothing
    <3>1. ~(o \in DOMAIN f /\ f[o].attach) BY <1>6, <2>2
    <3>2. o \in DOMAIN f /\ f[o].att => f[o].detach BY <1>6, <3>1
    <3> QED BY <1>4, <2>2, <3>1, <3>2
  <2>6. FreeAreAsked'
    <3> SUFFICES ASSUME NEW o \in DOMAIN f \ mode.own, Cleared(f)[o].coll, ~Cleared(f)[o].att
                 PROVE  o \in DOMAIN g
      BY <1>3, <1>5, <2>1 DEF FreeAreAsked
    <3>1. ~f[o].attach BY <1>6, <2>2
    <3>2. f[o].coll \/ f[o].att BY <1>6, <2>2, <3>1
    <3>3. o \notin Removed(f) BY <2>3, <3>2
    <3>4. CASE f[o].att BY <1>4, <2>2, <3>1, <3>3, <3>4
    <3>5. CASE ~f[o].att BY <1>4, <3>3, <3>5
    <3> QED BY <3>4, <3>5
  <2>7. TakenAreFree'
    <3> SUFFICES ASSUME NEW o \in DOMAIN f, Cleared(f)[o].att, Takes(e.markers[o])
                 PROVE  rest \in Pendings /\ o = name
      BY <1>3, <1>5 DEF TakenAreFree
    <3>1. f[o].att /\ (f[o].attach \/ ~f[o].detach) BY <1>6, <2>2
    <3>2. ~f[o].detach BY <2>2, <3>1
    <3> QED BY <2>2, <3>1, <3>2
  <2>8. ~ed'.scene.sent BY <1>1
  <2> QED BY <2>4, <2>5, <2>6, <2>7, <2>8 DEF AInv
<1> QED BY <1>7, <1>8, <1>9, <1>10, <1>11, <1>12, <1>13, <1>14 DEF IInv, OInv

\* Between two steps, what is listed can be sent as it is.
LEMMA SameIsReady ==
    ASSUME IInv, ~call.awaits, call.todo \notin Pendings, NEW e \in Editors, SameObjects(e, ed)
    PROVE  /\ Marked(e) /\ Listable(e)
           /\ \A name, rest : rest \notin Pendings \cup Forgets => Remembers(e, name, rest)
<1>1. e.objects = ed.objects /\ e.markers = ed.markers /\ e.scene.acm = ed.scene.acm
  BY DEF SameObjects
<1>2. Marked(e) BY <1>1 DEF IInv, OInv, Marked
<1>3. Calm(ed) BY DEF IInv, OInv
<1>4. Acm = ed.scene.acm BY DEF Acm
<1>5. Regular => AttachedMayTouch /\ OthersTouchNothing /\ TakenAreFree BY DEF IInv, OInv, AInv
<1>6. Listable(e)
  BY <1>1, <1>3, <1>4, <1>5 DEF Listable, Calm, AttachedMayTouch, OthersTouchNothing
<1>7. ASSUME NEW name, NEW rest, rest \notin Pendings \cup Forgets PROVE Remembers(e, name, rest)
  BY <1>1, <1>5, <1>7 DEF Remembers, TakenAreFree
<1> QED BY <1>2, <1>6, <1>7

LEMMA SameSendKeeps ==
    ASSUME IInv, ~call.awaits, call.todo \notin Pendings, NEW e \in Editors, SameObjects(e, ed),
           IsFiniteSet(e.live), NEW by, NEW name, NEW rest \in Todos \ (Pendings \cup Forgets),
           Send(e, by, name, rest), mode' = mode, left' \in 0 .. mode.steps, dialog' \in Names
    PROVE  IInv'
<1>1. Marked(e) /\ Listable(e) /\ Remembers(e, name, rest)
  <2>1. Marked(e) /\ Listable(e) BY SameIsReady
  <2>2. \A n, r : r \notin Pendings \cup Forgets => Remembers(e, n, r) BY SameIsReady
  <2> QED BY <2>1, <2>2
<1>2. rest \in Todos OBVIOUS
<1> QED BY <1>1, <1>2, SendKeeps

\* A step of the arm's changes nothing of the objects.
LEMMA ObjectsStay ==
    ASSUME OInv, SameObjects(ed', ed), UNCHANGED <<call, mode>>, dialog' \in {dialog, NoObject}
    PROVE  OInv'
<1>1. /\ ed'.objects = ed.objects /\ ed'.markers = ed.markers
      /\ ed'.scene.coll = ed.scene.coll /\ ed'.scene.att = ed.scene.att
      /\ ed'.scene.acm = ed.scene.acm /\ ed'.scene.sent = ed.scene.sent
  BY DEF SameObjects
<1>2. Marked(ed)' /\ Calm(ed)' BY <1>1 DEF OInv, Marked, Calm
<1>3. CallInv' /\ DialogInv' BY <1>1 DEF OInv, CallInv, DialogInv
<1>4. LInv'
  BY <1>1 DEF OInv, LInv, ListedIsThere, FreeIn, AttachedIn
<1>5. Acm' = Acm BY <1>1 DEF Acm
<1>6. Regular' = Regular BY DEF Regular
<1>7. AInv'
  <2> SUFFICES ASSUME Regular PROVE AInv' BY <1>6 DEF AInv
  <2>1. AttachedMayTouch' /\ OthersTouchNothing' /\ FreeAreAsked' /\ TakenAreFree'
    BY <1>1, <1>5 DEF OInv, AInv, AttachedMayTouch, OthersTouchNothing, FreeAreAsked, TakenAreFree
  <2>2. ed'.scene.sent => AllowedIsTouch' BY <1>1 DEF OInv, AInv, AllowedIsTouch
  <2> QED BY <2>1, <2>2 DEF AInv
<1> QED BY <1>2, <1>3, <1>4, <1>7 DEF OInv

LEMMA ArmStepKeeps ==
    ASSUME IInv, ed' \in Editors, SameObjects(ed', ed), StatesOwned(ed'), ~mode.unlucky => Shown(ed'),
           NInv', UNCHANGED <<call, dialog, crashed, mode>>, left' \in 0 .. mode.steps
    PROVE  IInv'
<1>1. OInv' BY ObjectsStay DEF IInv
<1>2. TInv' BY DEF IInv, TInv
<1>3. RInv' BY DEF RInv
<1>4. CInv' BY DEF IInv, CInv
<1> QED BY <1>1, <1>2, <1>3, <1>4 DEF IInv

\* What the editor is and does when it follows a pointer that is NULL.
LEMMA CrashKeeps ==
    ASSUME IInv, crashed' \in BOOLEAN, crashed' => mode.fails \/ mode.crosses \/ mode.own # {},
           UNCHANGED <<ed, call, mode>>, dialog' \in {dialog, NoObject}, left' \in 0 .. mode.steps
    PROVE  IInv'
<1>1. SameObjects(ed', ed) BY DEF SameObjects
<1>2. OInv' BY <1>1, ObjectsStay DEF IInv
<1>3. TInv' BY DEF IInv, TInv, Names
<1>4. RInv'
  <2>1. StatesOwned(ed)' /\ (~mode.unlucky => Shown(ed))'
    BY DEF IInv, RInv, StatesOwned, EndsOwned, TrajsOwned, Shown
  <2>2. NInv' BY DEF IInv, RInv, NInv, Null
  <2> QED BY <2>1, <2>2 DEF RInv
<1>5. CInv' BY DEF CInv
<1> QED BY <1>2, <1>3, <1>4, <1>5 DEF IInv

LEMMA Counted ==
    ASSUME TInv, User
    PROVE  left' \in 0 .. mode.steps /\ mode' = mode
BY ModeFacts DEF TInv, User

LEMMA IdleFacts ==
    ASSUME IInv, Idle
    PROVE  /\ ~call.awaits /\ call.todo = <<>> /\ call.todo \notin Pendings
           /\ ed \in Editors /\ IsFiniteSet(ed.live)
           /\ ~mode.fails => ed.robot # NoRobot
           /\ ~mode.fails => \A r \in DOMAIN ed.requests, end \in Ends :
                                 ed.requests[r].state[end] # NoState
BY TodoKinds DEF IInv, TInv, RInv, NInv, StatesOwned, Idle

\* While another thread awaits an answer there is nothing to follow.
LEMMA ReachesFacts ==
    ASSUME IInv, NEW by, Reaches(by)
    PROVE  \/ Idle
           \/ /\ mode.crosses /\ ed.robot = NoRobot
              /\ \A r \in DOMAIN ed.requests, end \in Ends : ed.requests[r].state[end] = NoState
              /\ \A t \in DOMAIN ed.trajs : ed.trajs[t].state = NoState
BY DEF IInv, RInv, NInv, Null, Reaches, Awaiting

LEMMA RefreshKeeps == IInv /\ Refresh => IInv'
<1> SUFFICES ASSUME IInv, Refresh PROVE IInv' OBVIOUS
<1>1. /\ ~call.awaits /\ call.todo \notin Pendings /\ ed \in Editors /\ IsFiniteSet(ed.live)
  BY IdleFacts DEF Refresh
<1>2. left' \in 0 .. mode.steps /\ mode' = mode BY Counted DEF IInv, Refresh
<1>3. SameObjects(ed, ed) BY DEF SameObjects
<1>4. <<>> \in Todos \ (Pendings \cup Forgets) BY TodoKinds
<1>5. Send(ed, "qt", NoObject, <<>>) /\ dialog' \in Names BY DEF Refresh, IInv, TInv
<1> QED BY <1>1, <1>2, <1>3, <1>4, <1>5, SameSendKeeps

LEMMA PosedFacts ==
    ASSUME NEW e \in Editors, NEW p \in Poses
    PROVE  LET d == [e EXCEPT !.scene.robot = p] IN
           /\ d \in Editors /\ SameObjects(d, e) /\ d.live = e.live
<1> DEFINE view == [e.scene EXCEPT !.robot = p]
           d == [e EXCEPT !.scene = view]
<1>1. e.scene \in Scenes BY EditorFields
<1>2. /\ view \in Scenes /\ view.coll = e.scene.coll /\ view.att = e.scene.att
      /\ view.acm = e.scene.acm /\ view.sent = e.scene.sent
  BY <1>1 DEF Scenes
<1>3. [e EXCEPT !.scene.robot = p] = d BY <1>1 DEF Editors, Scenes
<1> HIDE DEF view
<1>4. d \in Editors BY <1>2 DEF Editors
<1>5. /\ d.scene = view /\ d.objects = e.objects /\ d.markers = e.markers
      /\ d.newest = e.newest /\ d.live = e.live
  BY DEF Editors
<1> QED BY <1>2, <1>3, <1>4, <1>5 DEF SameObjects

LEMMA SlideJointKeeps == IInv /\ SlideJoint => IInv'
<1> SUFFICES ASSUME IInv, SlideJoint PROVE IInv' OBVIOUS
<1>1. left' \in 0 .. mode.steps /\ mode' = mode BY Counted DEF IInv, SlideJoint
<1>2. Reaches("qt") BY DEF SlideJoint
<1>3. CASE ed.robot = NoRobot
  <2>1. Crash BY <1>3 DEF SlideJoint
  <2>2. mode.fails \/ mode.crosses
    <3>1. CASE Idle BY <1>3, <3>1, IdleFacts
    <3>2. CASE ~Idle BY <1>2, <3>2, ReachesFacts
    <3> QED BY <3>1, <3>2
  <2> QED BY <1>1, <2>1, <2>2, CrashKeeps DEF Crash
<1>4. CASE ed.robot # NoRobot
  <2>1. Idle BY <1>2, <1>4, ReachesFacts
  <2>2. PICK p \in Poses : Send([ed EXCEPT !.scene.robot = p], "qt", NoObject, <<>>)
    BY <1>4 DEF SlideJoint
  <2> DEFINE e == [ed EXCEPT !.scene.robot = p]
  <2>3. ~call.awaits /\ call.todo \notin Pendings /\ ed \in Editors /\ IsFiniteSet(ed.live)
    BY <2>1, IdleFacts
  <2>4. e \in Editors /\ SameObjects(e, ed) /\ IsFiniteSet(e.live) BY <2>3, PosedFacts
  <2>5. Send(e, "qt", NoObject, <<>>) BY <2>2
  <2>6. dialog' \in Names BY <1>4 DEF SlideJoint, IInv, TInv
  <2>7. <<>> \in Todos \ (Pendings \cup Forgets) BY TodoKinds
  <2> HIDE DEF e
  <2> QED BY <1>1, <2>3, <2>4, <2>5, <2>6, <2>7, SameSendKeeps
<1> QED BY <1>3, <1>4

LEMMA MapToRobotKeeps == IInv /\ MapToRobot => IInv'
<1> SUFFICES ASSUME IInv, MapToRobot PROVE IInv' OBVIOUS
<1>1. left' \in 0 .. mode.steps /\ mode' = mode BY Counted DEF IInv, MapToRobot
<1>2. Reaches("spin") BY DEF MapToRobot
<1>3. PICK r \in DOMAIN ed.requests, end \in Ends :
          IF ed.requests[r].state[end] = NoState THEN Crash
          ELSE /\ Send([ed EXCEPT !.scene.robot = ed.requests[r].shown[end]], "spin", NoObject, <<>>)
               /\ UNCHANGED dialog
  BY DEF MapToRobot
<1>4. CASE ed.requests[r].state[end] = NoState
  <2>1. Crash BY <1>3, <1>4
  <2>2. mode.fails \/ mode.crosses
    <3>1. CASE Idle BY <1>4, <3>1, IdleFacts
    <3>2. CASE ~Idle BY <1>2, <3>2, ReachesFacts
    <3> QED BY <3>1, <3>2
  <2> QED BY <1>1, <2>1, <2>2, CrashKeeps DEF Crash
<1>5. CASE ed.requests[r].state[end] # NoState
  <2>1. Idle BY <1>2, <1>5, ReachesFacts
  <2> DEFINE p == ed.requests[r].shown[end]
             e == [ed EXCEPT !.scene.robot = p]
  <2>2. p \in Poses BY <1>5 DEF IInv, RInv, StatesOwned, EndsOwned
  <2>3. ~call.awaits /\ call.todo \notin Pendings /\ ed \in Editors /\ IsFiniteSet(ed.live)
    BY <2>1, IdleFacts
  <2>4. Send(e, "spin", NoObject, <<>>) /\ dialog' \in Names BY <1>3, <1>5 DEF IInv, TInv
  <2> HIDE DEF p
  <2>5. e \in Editors /\ SameObjects(e, ed) /\ IsFiniteSet(e.live) BY <2>2, <2>3, PosedFacts
  <2>6. <<>> \in Todos \ (Pendings \cup Forgets) BY TodoKinds
  <2> HIDE DEF e
  <2> QED BY <1>1, <2>3, <2>4, <2>5, <2>6, SameSendKeeps
<1> QED BY <1>4, <1>5

LEMMA CreateRequestKeeps == IInv /\ CreateRequest => IInv'
<1> SUFFICES ASSUME IInv, CreateRequest PROVE IInv' OBVIOUS
<1>1. left' \in 0 .. mode.steps /\ mode' = mode BY Counted DEF IInv, CreateRequest
<1>2. Reaches("qt") BY DEF CreateRequest
<1>3. CASE ed.robot = NoRobot
  <2>1. Crash BY <1>3 DEF CreateRequest
  <2>2. mode.fails \/ mode.crosses
    <3>1. CASE Idle BY <1>3, <3>1, IdleFacts
    <3>2. CASE ~Idle BY <1>2, <3>2, ReachesFacts
    <3> QED BY <3>1, <3>2
  <2> QED BY <1>1, <2>1, <2>2, CrashKeeps DEF Crash
<1>4. CASE ed.robot # NoRobot
  <2>1. Idle BY <1>2, <1>4, ReachesFacts
  <2>2. ~call.awaits /\ call.todo \notin Pendings /\ ed \in Editors /\ IsFiniteSet(ed.live)
    BY <2>1, IdleFacts
  <2> DEFINE e == Requested(ed, ed.robot, ed.robot)
  <2>3. StatesOwned(ed) /\ ed.robot \in Poses BY <1>4, <2>2, EditorFields DEF IInv, RInv
  <2>4. e \in Editors /\ SameScene(e, ed) /\ StatesOwned(e) BY <2>2, <2>3, RequestedFacts
  <2>5. Send(e, "qt", NoObject, <<>>) /\ dialog' \in Names
    BY <1>4 DEF CreateRequest, IInv, TInv
  <2>6. <<>> \in Todos \ (Pendings \cup Forgets) BY TodoKinds
  <2> HIDE DEF e
  <2>7. SameObjects(e, ed) /\ IsFiniteSet(e.live) BY <2>4, SameScenes DEF StatesOwned
  <2> QED BY <1>1, <2>2, <2>4, <2>5, <2>6, <2>7, SameSendKeeps
<1> QED BY <1>3, <1>4

LEMMA TrajectoriesMade ==
    ASSUME NEW n \in Seq(Nat), DOMAIN n \subseteq Trajs
    PROVE  [t \in DOMAIN n |-> NewTrajectory(n[t], FALSE)] \in MapsOf(Trajs, Trajectories)
<1> DEFINE f == [t \in DOMAIN n |-> NewTrajectory(n[t], FALSE)]
<1>1. \A t \in DOMAIN n : n[t] \in Nat OBVIOUS
<1>2. f \in [DOMAIN f -> Trajectories] BY <1>1, NewTrajectoryFacts
<1>3. DOMAIN f \subseteq Trajs OBVIOUS
<1> HIDE DEF f
<1>4. f \in MapsOf(Trajs, Trajectories) BY <1>2, <1>3, MapsIn
<1> QED BY <1>4 DEF f

LEMMA LoadRequestsKeeps == IInv /\ LoadRequests => IInv'
<1> SUFFICES ASSUME IInv, LoadRequests PROVE IInv' OBVIOUS
<1>1. /\ mode' = mode /\ left' \in 0 .. mode.steps /\ dialog' = dialog /\ dialog' \in Names
      /\ ~call.awaits /\ call.todo # <<>> /\ Head(call.todo) = "requests"
  BY DEF LoadRequests, Step, IInv, TInv
<1>2. /\ call.todo \in Todos /\ ed \in Editors /\ StatesOwned(ed) /\ mode \in Modes
  BY DEF IInv, TInv, RInv
<1>3. call.todo \notin Pendings /\ Tail(call.todo) = <<"shown">> BY <1>1, <1>2, TodoSteps
<1>4. <<"shown">> \in Todos \ (Pendings \cup Forgets) BY TodoKinds
<1> DEFINE start == mode.stored.start
           goal == mode.stored.goal
           posed == [ed EXCEPT !.robot = start]
           loaded == Requested(posed, start, goal)
           trajs == [t \in DOMAIN mode.stored.sizes |-> NewTrajectory(mode.stored.sizes[t], FALSE)]
           e == [loaded EXCEPT !.trajs = trajs]
<1>5. CASE mode.stored.sizes = <<>>
  <2>1. Send(ed, "qt", NoObject, <<"shown">>) BY <1>3, <1>5 DEF LoadRequests
  <2>2. SameObjects(ed, ed) /\ IsFiniteSet(ed.live) BY <1>2 DEF SameObjects, StatesOwned
  <2> QED BY <1>1, <1>2, <1>3, <1>4, <2>1, <2>2, SameSendKeeps
<1>6. CASE mode.stored.sizes # <<>> /\ ed.robot = NoRobot
  <2>1. crashed' = TRUE /\ UNCHANGED <<ed, call>> BY <1>6 DEF LoadRequests
  <2>2. mode.fails BY <1>1, <1>6 DEF IInv, RInv, NInv
  <2> QED BY <1>1, <2>1, <2>2, CrashKeeps
<1>7. CASE mode.stored.sizes # <<>> /\ ed.robot # NoRobot
  <2>1. Send(e, "qt", NoObject, <<"shown">>) BY <1>3, <1>7 DEF LoadRequests
  <2>2. start \in Poses /\ goal \in Poses /\ trajs \in MapsOf(Trajs, Trajectories)
    BY <1>2, StoredFacts, TrajectoriesMade
  <2> HIDE DEF start, goal, trajs
  <2>3. posed \in Editors BY <1>2, <2>2 DEF Editors
  <2>4. /\ posed.objects = ed.objects /\ posed.markers = ed.markers /\ posed.newest = ed.newest
        /\ posed.scene = ed.scene /\ posed.requests = ed.requests /\ posed.trajs = ed.trajs
        /\ posed.live = ed.live /\ posed.registry = ed.registry
    BY <1>2 DEF Editors
  <2> HIDE DEF posed
  <2>5. StatesOwned(posed) BY <1>2, <2>4 DEF StatesOwned, EndsOwned, TrajsOwned
  <2>6. loaded \in Editors /\ SameScene(loaded, posed) /\ StatesOwned(loaded)
    BY <2>2, <2>3, <2>5, RequestedFacts
  <2> HIDE DEF loaded
  <2>7. e \in Editors BY <2>2, <2>6 DEF Editors
  <2>8. /\ e.objects = loaded.objects /\ e.markers = loaded.markers /\ e.newest = loaded.newest
        /\ e.scene = loaded.scene /\ e.live = loaded.live
    BY <2>6 DEF Editors
  <2> HIDE DEF e
  <2>9. SameObjects(e, ed) /\ IsFiniteSet(e.live)
    BY <2>4, <2>6, <2>8 DEF SameScene, SameObjects, StatesOwned
  <2> QED BY <1>1, <1>3, <1>4, <2>1, <2>7, <2>9, SameSendKeeps
<1> QED BY <1>5, <1>6, <1>7

-----------------------------------------------------------------------------
(* Each operation on the objects keeps the invariant *)

\* What every operation that sends what it has changed of the objects can count on.
LEMMA ObjectsIdle ==
    ASSUME IInv, Idle
    PROVE  /\ mode \in Modes /\ ed \in Editors /\ StatesOwned(ed) /\ IsFiniteSet(ed.live)
           /\ ~call.awaits /\ call.todo = <<>> /\ call.todo \notin Pendings \cup Forgets
           /\ Marked(ed) /\ Calm(ed) /\ LInv
           /\ ed.objects \in MapsOf(Objects, Entries) /\ DOMAIN ed.objects \subseteq Objects
           /\ \A o \in DOMAIN ed.objects : ed.objects[o] \in Entries
           /\ ed.markers \in [Objects -> Marks]
           /\ ed.scene.acm \in MapsOf(Objects, SUBSET Links)
           /\ Regular =>
                /\ \A o \in DOMAIN ed.objects : ed.objects[o].att =>
                       o \in DOMAIN ed.scene.acm /\ ed.scene.acm[o] = ed.objects[o].touch
                /\ \A o \in DOMAIN ed.scene.acm :
                       ~(o \in DOMAIN ed.objects /\ ed.objects[o].att) => ed.scene.acm[o] = {}
                /\ \A o \in DOMAIN ed.objects : ed.objects[o].att => ~Takes(ed.markers[o])
<1>1. /\ mode \in Modes /\ ed \in Editors /\ StatesOwned(ed) /\ IsFiniteSet(ed.live)
      /\ ~call.awaits /\ call.todo = <<>> /\ call.todo \notin Pendings \cup Forgets
      /\ Marked(ed) /\ Calm(ed) /\ LInv
  BY TodoKinds DEF IInv, TInv, RInv, OInv, StatesOwned, Idle
<1>2. /\ ed.objects \in MapsOf(Objects, Entries) /\ DOMAIN ed.objects \subseteq Objects
      /\ \A o \in DOMAIN ed.objects : ed.objects[o] \in Entries
      /\ ed.markers \in [Objects -> Marks]
      /\ ed.scene.acm \in MapsOf(Objects, SUBSET Links)
  BY <1>1, EditorFields
<1>3. Acm = ed.scene.acm BY <1>1 DEF Acm
<1>4. Regular => AttachedMayTouch /\ OthersTouchNothing /\ TakenAreFree BY DEF IInv, OInv, AInv
<1>5. Regular =>
          /\ \A o \in DOMAIN ed.objects : ed.objects[o].att =>
                 o \in DOMAIN ed.scene.acm /\ ed.scene.acm[o] = ed.objects[o].touch
          /\ \A o \in DOMAIN ed.scene.acm :
                 ~(o \in DOMAIN ed.objects /\ ed.objects[o].att) => ed.scene.acm[o] = {}
          /\ \A o \in DOMAIN ed.objects : ed.objects[o].att => ~Takes(ed.markers[o])
  BY <1>1, <1>3, <1>4 DEF AttachedMayTouch, OthersTouchNothing, TakenAreFree
<1> QED BY <1>1, <1>2, <1>5

LEMMA CreateKeeps == IInv /\ Create => IInv'
<1> SUFFICES ASSUME IInv, Create PROVE IInv' OBVIOUS
<1>1. left' \in 0 .. mode.steps /\ mode' = mode /\ dialog' \in Names
  BY Counted DEF IInv, Create, TInv
<1>2. Idle BY DEF Create
<1>3. PICK o \in Objects :
          /\ mode.careful => o \notin DOMAIN ed.objects \cup ed.scene.coll \cup mode.own
          /\ ~mode.careful => o = ed.newest + 1
          /\ Send([Selectable(ed, o, TRUE) EXCEPT !.newest = IF mode.careful THEN @ ELSE o], "qt", o, <<>>)
  BY DEF Create
<1> DEFINE d == Selectable(ed, o, TRUE)
           newest == IF mode.careful THEN d.newest ELSE o
           e == [d EXCEPT !.newest = newest]
<1>4. /\ d \in Editors /\ SameArm(d, ed) /\ d.scene = ed.scene /\ d.newest = ed.newest
      /\ DOMAIN d.objects = DOMAIN ed.objects \cup {o} /\ d.objects[o] = Free
      /\ \A p \in DOMAIN ed.objects : p # o => d.objects[p] = ed.objects[p]
      /\ d.markers = [ed.markers EXCEPT ![o].sel = "select"]
  <2> HIDE DEF d
  <2>1. ed \in Editors /\ TRUE \in BOOLEAN BY <1>2, ObjectsIdle
  <2> QED BY <2>1, SelectableFacts DEF d
<1>5. Send(e, "qt", o, <<>>) BY <1>3
<1> HIDE DEF d
<1>6. newest \in Nat BY <1>4, EditorFields, ObjectsAssumption
<1> HIDE DEF newest
<1>7. e \in Editors BY <1>4, <1>6 DEF Editors
<1>8. /\ e.objects = d.objects /\ e.markers = d.markers /\ e.scene = d.scene /\ e.live = d.live
  BY <1>4 DEF Editors
<1> HIDE DEF e
<1>9. IsFiniteSet(e.live) BY <1>2, <1>4, <1>8, ObjectsIdle DEF SameArm
<1>10. \A p \in Objects \ {o} : e.markers[p] = ed.markers[p] BY <1>2, <1>4, <1>8, ObjectsIdle
<1>11. Marked(e)
  <2>1. Marked(ed) BY <1>2, ObjectsIdle
  <2>2. e.objects[o].coll BY <1>4, <1>8, EntryTypes
  <2> QED BY <1>4, <1>8, <1>10, <2>1, <2>2 DEF Marked
<1>12. Listable(e)
  <2>1. /\ Calm(ed)
        /\ Regular =>
             /\ \A p \in DOMAIN ed.objects : ed.objects[p].att =>
                    p \in DOMAIN ed.scene.acm /\ ed.scene.acm[p] = ed.objects[p].touch
             /\ \A p \in DOMAIN ed.scene.acm :
                    ~(p \in DOMAIN ed.objects /\ ed.objects[p].att) => ed.scene.acm[p] = {}
    BY <1>2, ObjectsIdle
  <2>2. Regular => o \notin DOMAIN ed.objects BY <1>3 DEF Regular
  <2> QED BY <1>4, <1>8, <2>1, <2>2, EntryTypes DEF Listable, Calm
<1>13. Remembers(e, o, <<>>)
  <2>1. Regular => \A p \in DOMAIN ed.objects : ed.objects[p].att => ~Takes(ed.markers[p])
    BY <1>2, ObjectsIdle
  <2>2. DOMAIN ed.objects \subseteq Objects BY <1>2, ObjectsIdle
  <2> QED BY <1>4, <1>8, <1>10, <2>1, <2>2, EntryTypes, TodoKinds DEF Remembers
<1>14. <<>> \in Todos BY TodoKinds
<1> QED BY <1>1, <1>5, <1>7, <1>9, <1>11, <1>12, <1>13, <1>14, SendKeeps

LEMMA DeleteKeeps == IInv /\ Delete => IInv'
<1> SUFFICES ASSUME IInv, Delete PROVE IInv' OBVIOUS
<1>1. left' \in 0 .. mode.steps /\ mode' = mode /\ dialog' \in Names
  BY Counted DEF IInv, Delete, TInv
<1>2. Idle BY DEF Delete
<1>3. PICK o \in Objects :
          /\ ed.markers[o].control \/ ed.markers[o].sel = "select"
          /\ Send(Deleted(ed, o), "spin", o, <<"forget">>)
  BY DEF Delete
<1> DEFINE e == Deleted(ed, o)
<1>4. /\ e \in Editors /\ SameArm(e, ed) /\ e.scene = ed.scene /\ e.newest = ed.newest
      /\ DOMAIN e.objects = DOMAIN ed.objects \cup {o}
      /\ e.objects[o] = [Entry(ed, o) EXCEPT !.coll = FALSE, !.att = FALSE]
      /\ \A p \in DOMAIN ed.objects : p # o => e.objects[p] = ed.objects[p]
      /\ e.markers = IF Named(ed, o) THEN [ed.markers EXCEPT ![o] = NoMarkers] ELSE ed.markers
  BY <1>2, ObjectsIdle, DeletedFacts
<1>5. Send(e, "spin", o, <<"forget">>) BY <1>3
<1> HIDE DEF e
<1>6. IsFiniteSet(e.live) BY <1>2, <1>4, ObjectsIdle DEF SameArm
<1>7. /\ ed.markers \in [Objects -> Marks] /\ Marked(ed) /\ Calm(ed)
      /\ DOMAIN ed.objects \subseteq Objects
  BY <1>2, ObjectsIdle
<1>8. \A p \in Objects \ {o} : e.markers[p] = ed.markers[p] BY <1>4, <1>7
<1>9. /\ ~e.objects[o].coll /\ ~e.objects[o].att /\ ~e.objects[o].attach /\ ~e.objects[o].detach
  <2>1. Entry(ed, o) \in Entries BY <1>2, ObjectsIdle, EntryIsEntry
  <2>2. ~Entry(ed, o).attach /\ ~Entry(ed, o).detach BY <1>7, EntryTypes DEF Calm, Entry
  <2> QED BY <1>4, <2>1, <2>2 DEF Entries
<1>10. o \notin mode.own => ~Visible(e.markers[o])
  <2> SUFFICES ASSUME o \notin mode.own PROVE ~Visible(e.markers[o]) OBVIOUS
  <2>1. CASE Visible(ed.markers[o])
    <3>1. Named(ed, o) BY <1>7, <2>1 DEF Marked, Named, Entry
    <3>2. e.markers[o] = NoMarkers BY <1>4, <1>7, <3>1
    <3> QED BY <3>2, EntryTypes DEF Visible
  <2>2. CASE ~Visible(ed.markers[o])
    <3>1. e.markers[o] \in {ed.markers[o], NoMarkers} BY <1>4, <1>7
    <3> QED BY <2>2, <3>1, EntryTypes DEF Visible
  <2> QED BY <2>1, <2>2
<1>11. Marked(e) BY <1>4, <1>7, <1>8, <1>10 DEF Marked
<1>12. Listable(e)
  <2>1. Regular =>
          /\ \A p \in DOMAIN ed.objects : ed.objects[p].att =>
                 p \in DOMAIN ed.scene.acm /\ ed.scene.acm[p] = ed.objects[p].touch
          /\ \A p \in DOMAIN ed.scene.acm :
                 ~(p \in DOMAIN ed.objects /\ ed.objects[p].att) => ed.scene.acm[p] = {}
          /\ \A p \in DOMAIN ed.objects : ed.objects[p].att => ~Takes(ed.markers[p])
    BY <1>2, ObjectsIdle
  <2>2. Regular => ~(o \in DOMAIN ed.objects /\ ed.objects[o].att) BY <1>3, <2>1 DEF Takes
  <2> QED BY <1>4, <1>7, <1>9, <2>1, <2>2 DEF Listable, Calm
<1>13. Remembers(e, o, <<"forget">>)
  <2>1. Regular => \A p \in DOMAIN ed.objects : ed.objects[p].att => ~Takes(ed.markers[p])
    BY <1>2, ObjectsIdle
  <2>2. Regular => \A p \in DOMAIN e.objects : e.objects[p].att => ~Takes(e.markers[p])
    BY <1>4, <1>7, <1>8, <1>9, <2>1
  <2> QED BY <1>9, <1>10, <2>2, TodoKinds DEF Remembers
<1>14. <<"forget">> \in Todos BY TodoKinds
<1> QED BY <1>1, <1>4, <1>5, <1>6, <1>11, <1>12, <1>13, <1>14, SendKeeps

LEMMA DropKeeps == IInv /\ Drop => IInv'
<1> SUFFICES ASSUME IInv, Drop PROVE IInv' OBVIOUS
<1>1. left' \in 0 .. mode.steps /\ mode' = mode /\ dialog' \in Names
  BY Counted DEF IInv, Drop, TInv
<1>2. Idle BY DEF Drop
<1>3. PICK o \in DOMAIN ed.objects :
          /\ ed.markers[o].control
          /\ \/ Send(ed, "spin", o, <<>>)
             \/ Send(Selectable(ed, o, FALSE), "spin", o, <<>>)
  BY DEF Drop
<1>4. /\ o \in Objects /\ ed \in Editors /\ IsFiniteSet(ed.live) /\ Marked(ed) /\ Calm(ed)
      /\ ~call.awaits /\ call.todo \notin Pendings
  BY <1>2, ObjectsIdle
<1>5. <<>> \in Todos /\ <<>> \in Todos \ (Pendings \cup Forgets) BY TodoKinds
<1>6. CASE Send(ed, "spin", o, <<>>)
  <2>1. SameObjects(ed, ed) BY DEF SameObjects
  <2> QED BY <1>1, <1>4, <1>5, <1>6, <2>1, SameSendKeeps
<1>7. CASE Send(Selectable(ed, o, FALSE), "spin", o, <<>>)
  <2> DEFINE e == Selectable(ed, o, FALSE)
  <2>1. /\ e \in Editors /\ SameArm(e, ed) /\ e.scene = ed.scene
        /\ DOMAIN e.objects = DOMAIN ed.objects \cup {o} /\ e.objects[o] = Free
        /\ \A p \in DOMAIN ed.objects : p # o => e.objects[p] = ed.objects[p]
        /\ e.markers = ed.markers
    <3>1. FALSE \in BOOLEAN OBVIOUS
    <3> HIDE DEF e
    <3> QED BY <1>4, <3>1, SelectableFacts DEF e
  <2>2. Send(e, "spin", o, <<>>) BY <1>7
  <2> HIDE DEF e
  <2>3. IsFiniteSet(e.live) BY <1>4, <2>1 DEF SameArm
  <2>4. Marked(e) BY <1>4, <2>1, EntryTypes DEF Marked
  <2>5. Regular =>
          /\ \A p \in DOMAIN ed.objects : ed.objects[p].att =>
                 p \in DOMAIN ed.scene.acm /\ ed.scene.acm[p] = ed.objects[p].touch
          /\ \A p \in DOMAIN ed.scene.acm :
                 ~(p \in DOMAIN ed.objects /\ ed.objects[p].att) => ed.scene.acm[p] = {}
          /\ \A p \in DOMAIN ed.objects : ed.objects[p].att => ~Takes(ed.markers[p])
    BY <1>2, ObjectsIdle
  <2>6. Regular => ~ed.objects[o].att BY <1>3, <2>5 DEF Takes
  <2>7. Listable(e) BY <1>4, <2>1, <2>5, <2>6, EntryTypes DEF Listable, Calm
  <2>8. Remembers(e, o, <<>>) BY <2>1, <2>5, EntryTypes, TodoKinds DEF Remembers
  <2> QED BY <1>1, <1>5, <2>1, <2>2, <2>3, <2>4, <2>7, <2>8, SendKeeps
<1> QED BY <1>3, <1>6, <1>7

LEMMA NoneAwaits == IInv /\ ~call.awaits => call.awaits = FALSE /\ DOMAIN call = CallFields
BY DEF IInv, TInv

\* What a step that sends nothing keeps: entries stay, new ones are blank, and no object
\* that is attached is shown as one to take.
LEMMA EditKeeps ==
    ASSUME IInv, ~call.awaits, ed' \in Editors, SameArm(ed', ed), ed'.scene = ed.scene,
           DOMAIN ed.objects \subseteq DOMAIN ed'.objects,
           \A o \in DOMAIN ed'.objects :
               ed'.objects[o] = IF o \in DOMAIN ed.objects THEN ed.objects[o] ELSE Blank,
           Marked(ed'),
           Regular => \A o \in DOMAIN ed'.objects :
                          ed'.objects[o].att => ~Takes(ed'.markers[o]),
           call'.awaits = FALSE, call'.todo \in Todos \ (Pendings \cup Forgets), call'.acm = call.acm,
           DOMAIN call' = CallFields,
           DialogInv', dialog' \in Names, UNCHANGED <<crashed, mode>>, left' \in 0 .. mode.steps
    PROVE  IInv'
<1>1. TInv' BY DEF IInv, TInv
<1>2. RInv'
  <2>1. /\ ed'.robot = ed.robot /\ ed'.requests = ed.requests /\ ed'.trajs = ed.trajs
        /\ ed'.live = ed.live /\ ed'.registry = ed.registry
    BY DEF SameArm
  <2>2. StatesOwned(ed)' /\ (~mode.unlucky => Shown(ed))'
    BY <2>1 DEF IInv, RInv, StatesOwned, EndsOwned, TrajsOwned, Shown
  <2>3. NInv' BY <2>1 DEF IInv, RInv, NInv
  <2> QED BY <2>2, <2>3 DEF RInv
<1>3. CInv' BY DEF IInv, CInv
<1>4. Calm(ed)' /\ Marked(ed)' BY EntryTypes DEF IInv, OInv, Calm, Marked
<1>5. CallInv' BY DEF CallInv
<1>6. AttachedIn(ed'.objects) = AttachedIn(ed.objects) BY EntryTypes DEF AttachedIn
<1>7. FreeIn(ed'.objects) = FreeIn(ed.objects) BY <1>6, EntryTypes DEF FreeIn
<1>8. LInv'
  <2>1. ed'.scene.sent => ListedIsThere BY DEF IInv, OInv, LInv
  <2> QED BY <1>6, <1>7, <2>1 DEF LInv, ListedIsThere
<1>9. AInv'
  <2> SUFFICES ASSUME Regular PROVE AInv' BY DEF AInv, Regular
  <2>1. AttachedMayTouch /\ OthersTouchNothing /\ (ed.scene.sent => AllowedIsTouch)
    BY DEF IInv, OInv, AInv
  <2>2. Acm' = ed.scene.acm /\ Acm = ed.scene.acm BY DEF Acm
  <2>3. AttachedMayTouch' BY <2>1, <2>2, EntryTypes DEF AttachedMayTouch
  <2>4. OthersTouchNothing' BY <2>1, <2>2, EntryTypes DEF OthersTouchNothing
  <2>5. FreeAreAsked' BY DEF FreeAreAsked
  <2>6. TakenAreFree' BY DEF TakenAreFree
  <2>7. (ed.scene.sent => AllowedIsTouch)' BY <2>1 DEF AllowedIsTouch
  <2> QED BY <2>3, <2>4, <2>5, <2>6, <2>7 DEF AInv
<1> QED BY <1>1, <1>2, <1>3, <1>4, <1>5, <1>8, <1>9 DEF IInv, OInv

\* A marker that an object's menu or button changes is of the object's name.
LEMMA RemarkKeeps ==
    ASSUME IInv, Idle, NEW o \in Objects, NEW m \in Marks, Visible(ed.markers[o]),
           ed' = Put(Mark(ed, o, m), o, Entry(ed, o)), Takes(ed.markers[o]),
           UNCHANGED <<call, dialog, crashed, mode>>, left' \in 0 .. mode.steps
    PROVE  IInv'
<1> DEFINE e == Put(Mark(ed, o, m), o, Entry(ed, o))
<1>1. /\ ed \in Editors /\ Marked(ed) /\ ed.markers \in [Objects -> Marks] /\ ~call.awaits
      /\ DOMAIN ed.objects \subseteq Objects
      /\ call.todo \in Todos \ (Pendings \cup Forgets) /\ dialog \in Names
      /\ Regular => \A p \in DOMAIN ed.objects : ed.objects[p].att => ~Takes(ed.markers[p])
  BY ObjectsIdle DEF IInv, TInv
<1>2. Entry(ed, o) \in Entries BY <1>1, EntryIsEntry
<1>3. /\ e \in Editors /\ SameArm(e, ed) /\ e.scene = ed.scene /\ e.newest = ed.newest
      /\ DOMAIN e.objects = DOMAIN ed.objects \cup {o} /\ e.objects[o] = Entry(ed, o)
      /\ \A p \in DOMAIN ed.objects : p # o => e.objects[p] = ed.objects[p]
      /\ e.markers = IF Named(ed, o) THEN [ed.markers EXCEPT ![o] = m] ELSE ed.markers
  <2> HIDE DEF e
  <2> QED BY <1>1, <1>2, RemarkedFacts DEF e
<1>4. ed' = e OBVIOUS
<1> HIDE DEF e
<1>5. \A p \in DOMAIN ed'.objects :
          ed'.objects[p] = IF p \in DOMAIN ed.objects THEN ed.objects[p] ELSE Blank
  BY <1>3, <1>4 DEF Entry
<1>6. \A p \in Objects \ {o} : ed'.markers[p] = ed.markers[p] BY <1>1, <1>3, <1>4
<1>7. o \notin mode.own => o \in DOMAIN ed.objects /\ (ed.objects[o].coll \/ ed.objects[o].att)
  BY <1>1 DEF Marked
<1>8. Marked(ed') BY <1>1, <1>3, <1>4, <1>5, <1>6, <1>7 DEF Marked
<1>9. Regular => \A p \in DOMAIN ed'.objects : ed'.objects[p].att => ~Takes(ed'.markers[p])
  BY <1>1, <1>3, <1>4, <1>5, <1>6, EntryTypes
<1>10. DialogInv'
  <2>1. DialogInv BY DEF IInv, OInv
  <2>2. mode.own = {} => o \in DOMAIN ed.objects BY <1>7
  <2> QED BY <1>1, <1>3, <1>4, <1>5, <2>1, <2>2 DEF DialogInv
<1> QED BY <1>1, <1>3, <1>4, <1>5, <1>8, <1>9, <1>10, NoneAwaits, EditKeeps

LEMMA SelectKeeps == IInv /\ Select => IInv'
<1> SUFFICES ASSUME IInv, Select PROVE IInv' OBVIOUS
<1>1. left' \in 0 .. mode.steps /\ mode' = mode BY Counted DEF IInv, Select
<1> DEFINE m == [sel |-> "none", control |-> TRUE]
<1>2. PICK o \in Objects :
          /\ ed.markers[o].sel = "select"
          /\ Edits(Put(Mark(ed, o, m), o, Entry(ed, o)))
  BY DEF Select
<1>3. m \in Marks BY DEF Marks
<1>4. Idle BY DEF Select
<1>5. Visible(ed.markers[o]) /\ Takes(ed.markers[o]) BY <1>2 DEF Visible, Takes
<1> HIDE DEF m
<1>6. ed' = Put(Mark(ed, o, m), o, Entry(ed, o)) /\ UNCHANGED <<call, dialog, crashed>>
  BY <1>2 DEF Edits
<1> QED BY <1>1, <1>3, <1>4, <1>5, <1>6, RemarkKeeps

LEMMA DeselectKeeps == IInv /\ Deselect => IInv'
<1> SUFFICES ASSUME IInv, Deselect PROVE IInv' OBVIOUS
<1>1. left' \in 0 .. mode.steps /\ mode' = mode BY Counted DEF IInv, Deselect
<1> DEFINE m == [sel |-> "select", control |-> FALSE]
<1>2. PICK o \in Objects :
          /\ ed.markers[o].control
          /\ Edits(Put(Mark(ed, o, m), o, Entry(ed, o)))
  BY DEF Deselect
<1>3. m \in Marks BY DEF Marks
<1>4. Idle BY DEF Deselect
<1>5. Visible(ed.markers[o]) /\ Takes(ed.markers[o]) BY <1>2 DEF Visible, Takes
<1> HIDE DEF m
<1>6. ed' = Put(Mark(ed, o, m), o, Entry(ed, o)) /\ UNCHANGED <<call, dialog, crashed>>
  BY <1>2 DEF Edits
<1> QED BY <1>1, <1>3, <1>4, <1>5, <1>6, RemarkKeeps

LEMMA OpenAttachDialogKeeps == IInv /\ OpenAttachDialog => IInv'
<1> SUFFICES ASSUME IInv, OpenAttachDialog PROVE IInv' OBVIOUS
<1>1. left' \in 0 .. mode.steps /\ mode' = mode BY Counted DEF IInv, OpenAttachDialog
<1>2. PICK o \in Objects : ed.markers[o].control /\ dialog' = o BY DEF OpenAttachDialog
<1>3. /\ Marked(ed) /\ ed \in Editors /\ ~call.awaits
      /\ call.todo \in Todos \ (Pendings \cup Forgets)
      /\ Regular => \A p \in DOMAIN ed.objects : ed.objects[p].att => ~Takes(ed.markers[p])
  BY ObjectsIdle DEF OpenAttachDialog, IInv, TInv
<1>4. ed' = ed /\ call' = call /\ crashed' = crashed BY DEF OpenAttachDialog
<1>5. mode.own = {} => o \in DOMAIN ed.objects /\ (ed.objects[o].coll \/ ed.objects[o].att)
  BY <1>2, <1>3 DEF Marked, Visible
<1>6. DialogInv' BY <1>1, <1>2, <1>4, <1>5 DEF DialogInv
<1>7. SameArm(ed', ed) BY <1>4 DEF SameArm
<1>8. dialog' \in Names BY <1>2 DEF Names
<1>9. Marked(ed') BY <1>1, <1>3, <1>4 DEF Marked
<1> QED BY <1>1, <1>3, <1>4, <1>6, <1>7, <1>8, <1>9, NoneAwaits, EditKeeps

LEMMA CancelAttachKeeps == IInv /\ CancelAttach => IInv'
<1> SUFFICES ASSUME IInv, CancelAttach PROVE IInv' OBVIOUS
<1>1. left' \in 0 .. mode.steps /\ mode' = mode BY Counted DEF IInv, CancelAttach
<1>2. ed' = ed /\ call' = call /\ crashed' = crashed /\ dialog' = NoObject BY DEF CancelAttach
<1>3. crashed' \in BOOLEAN /\ (crashed' => mode.fails \/ mode.crosses \/ mode.own # {})
  BY <1>2 DEF IInv, TInv, CInv
<1> QED BY <1>1, <1>2, <1>3, CrashKeeps

LEMMA AttachKeeps == IInv /\ Attach => IInv'
<1> SUFFICES ASSUME IInv, Attach PROVE IInv' OBVIOUS
<1>1. left' \in 0 .. mode.steps /\ mode' = mode BY Counted DEF IInv, Attach
<1>2. /\ dialog' = NoObject /\ dialog' \in Names /\ dialog \in Objects /\ Idle
  BY DEF Attach, IInv, TInv, Names
<1>3. /\ ed \in Editors /\ IsFiniteSet(ed.live) /\ Marked(ed) /\ Calm(ed) /\ call.awaits = FALSE
      /\ ~call.awaits /\ DOMAIN ed.objects \subseteq Objects
      /\ ed.markers \in [Objects -> Marks] /\ call.todo \in Todos \ (Pendings \cup Forgets)
      /\ \A p \in DOMAIN ed.objects : ed.objects[p] \in Entries
  BY <1>2, ObjectsIdle, NoneAwaits DEF IInv, TInv
<1>4. Regular =>
          /\ \A p \in DOMAIN ed.objects : ed.objects[p].att =>
                 p \in DOMAIN ed.scene.acm /\ ed.scene.acm[p] = ed.objects[p].touch
          /\ \A p \in DOMAIN ed.scene.acm :
                 ~(p \in DOMAIN ed.objects /\ ed.objects[p].att) => ed.scene.acm[p] = {}
          /\ \A p \in DOMAIN ed.objects : ed.objects[p].att => ~Takes(ed.markers[p])
  BY <1>2, ObjectsIdle
<1>5. CASE /\ dialog \notin DOMAIN ed.objects
           /\ ed' = ChangedToAttached(ed, dialog) /\ UNCHANGED <<call, crashed>>
  <2>1. /\ ed' \in Editors /\ SameArm(ed', ed) /\ ed'.scene = ed.scene
        /\ DOMAIN ed'.objects = DOMAIN ed.objects \cup {dialog}
        /\ ed'.objects[dialog] = Entry(ed, dialog)
        /\ \A p \in DOMAIN ed.objects : p # dialog => ed'.objects[p] = ed.objects[p]
        /\ ed'.markers = IF Named(ed, dialog) THEN [ed.markers EXCEPT ![dialog] = Joined]
                         ELSE ed.markers
    BY <1>2, <1>3, <1>5, ChangedToAttachedFacts
  <2>2. Entry(ed, dialog) = Blank /\ ~Named(ed, dialog) BY <1>5, EntryTypes DEF Entry, Named
  <2>3. \A p \in DOMAIN ed'.objects :
            ed'.objects[p] = IF p \in DOMAIN ed.objects THEN ed.objects[p] ELSE Blank
    BY <1>5, <2>1, <2>2
  <2>4. ed'.markers = ed.markers BY <2>1, <2>2
  <2>5. Marked(ed') BY <1>1, <1>3, <2>1, <2>3, <2>4 DEF Marked
  <2>6. Regular => \A p \in DOMAIN ed'.objects : ed'.objects[p].att => ~Takes(ed'.markers[p])
    BY <1>4, <2>1, <2>3, <2>4, EntryTypes
  <2>7. DialogInv' BY <1>2 DEF DialogInv
  <2> QED BY <1>1, <1>2, <1>3, <1>5, <2>1, <2>3, <2>5, <2>6, <2>7, NoneAwaits, EditKeeps
<1>6. CASE /\ dialog \in DOMAIN ed.objects
           /\ ed.robot = NoRobot \/ ~Named(ed, dialog)
           /\ crashed' = TRUE /\ UNCHANGED <<ed, call>>
  <2>1. mode.fails \/ mode.own # {}
    BY <1>2, <1>3, <1>6 DEF IInv, RInv, NInv, OInv, DialogInv, Named, Entry, Attach
  <2> QED BY <1>1, <1>2, <1>6, <2>1, CrashKeeps
<1>7. ASSUME ed.robot # NoRobot, Named(ed, dialog), NEW link \in Links,
             NEW touch \in SUBSET (DOMAIN LinksOf \ Links),
             Send(Attaching(ed, dialog, link, touch), "qt", dialog, <<"attached">>)
      PROVE  IInv'
  <2>1. dialog \in DOMAIN ed.objects BY <1>7, EntryTypes DEF Named, Entry
  <2> DEFINE e == Attaching(ed, dialog, link, touch)
             x == ed.objects[dialog]
             y == e.objects[dialog]
  <2>2. touch \in SUBSET DOMAIN LinksOf OBVIOUS
  <2>3. /\ e \in Editors /\ SameArm(e, ed) /\ e.markers = ed.markers
        /\ e.scene = ed.scene /\ DOMAIN e.objects = DOMAIN ed.objects
        /\ \A p \in DOMAIN ed.objects : p # dialog => e.objects[p] = ed.objects[p]
        /\ y.coll = x.coll /\ y.att /\ y.attach /\ y.detach = x.detach
    BY <1>3, <2>1, <2>2, AttachingFacts
  <2>4. Send(e, "qt", dialog, <<"attached">>) BY <1>7
  <2> HIDE DEF e
  <2>5. ~x.detach BY <1>3, <2>1 DEF Calm
  <2>6. IsFiniteSet(e.live) BY <1>3, <2>3 DEF SameArm
  <2>7. Marked(e) BY <1>3, <2>3, <2>5 DEF Marked
  <2>8. Listable(e) BY <1>3, <1>4, <2>1, <2>3, <2>5 DEF Listable, Calm
  <2>9. Remembers(e, dialog, <<"attached">>)
    BY <1>2, <1>3, <1>4, <2>1, <2>3, <2>5, TodoKinds DEF Remembers
  <2>10. <<"attached">> \in Todos BY TodoKinds
  <2> QED BY <1>1, <1>2, <2>3, <2>4, <2>6, <2>7, <2>8, <2>9, <2>10, SendKeeps
<1> QED BY <1>5, <1>6, <1>7 DEF Attach

LEMMA DetachKeeps == IInv /\ Detach => IInv'
<1> SUFFICES ASSUME IInv, Detach PROVE IInv' OBVIOUS
<1>1. left' \in 0 .. mode.steps /\ mode' = mode /\ dialog' \in Names
  BY Counted DEF IInv, Detach, TInv
<1>2. Idle BY DEF Detach
<1> DEFINE m == [sel |-> "none", control |-> TRUE]
<1>3. PICK o \in DOMAIN ed.objects :
          /\ ed.markers[o].sel = "attached"
          /\ Send(Put(Mark(ed, o, m), o, [Entry(ed, o) EXCEPT !.detach = TRUE]), "spin", o, <<>>)
  BY DEF Detach
<1>4. /\ o \in Objects /\ ed \in Editors /\ IsFiniteSet(ed.live) /\ Marked(ed) /\ Calm(ed)
      /\ DOMAIN ed.objects \subseteq Objects /\ ed.markers \in [Objects -> Marks]
  BY <1>2, ObjectsIdle
<1>5. Regular =>
          /\ \A p \in DOMAIN ed.objects : ed.objects[p].att =>
                 p \in DOMAIN ed.scene.acm /\ ed.scene.acm[p] = ed.objects[p].touch
          /\ \A p \in DOMAIN ed.scene.acm :
                 ~(p \in DOMAIN ed.objects /\ ed.objects[p].att) => ed.scene.acm[p] = {}
          /\ \A p \in DOMAIN ed.objects : ed.objects[p].att => ~Takes(ed.markers[p])
  BY <1>2, ObjectsIdle
<1>6. m \in Marks BY DEF Marks
<1> HIDE DEF m
<1> DEFINE x == ed.objects[o]
           y == [Entry(ed, o) EXCEPT !.detach = TRUE]
           e == Put(Mark(ed, o, m), o, y)
<1>7. /\ y \in Entries /\ y.coll = x.coll /\ y.att = x.att /\ y.attach = x.attach
      /\ y.touch = x.touch /\ y.detach
  <2>1. Entry(ed, o) = x /\ x \in Entries BY <1>3, <1>4, EditorFields DEF Entry
  <2> HIDE DEF x
  <2> QED BY <2>1 DEF Entries
<1>8. Send(e, "spin", o, <<>>) BY <1>3
<1> HIDE DEF y
<1>9. /\ e \in Editors /\ SameArm(e, ed) /\ e.scene = ed.scene
      /\ DOMAIN e.objects = DOMAIN ed.objects \cup {o} /\ e.objects[o] = y
      /\ \A p \in DOMAIN ed.objects : p # o => e.objects[p] = ed.objects[p]
      /\ e.markers = IF Named(ed, o) THEN [ed.markers EXCEPT ![o] = m] ELSE ed.markers
  <2> HIDE DEF e
  <2> QED BY <1>4, <1>6, <1>7, RemarkedFacts DEF e
<1> HIDE DEF e
<1>10. IsFiniteSet(e.live) BY <1>4, <1>9 DEF SameArm
<1>11. \A p \in Objects \ {o} : e.markers[p] = ed.markers[p] BY <1>4, <1>9
<1>12. o \notin mode.own => x.coll \/ x.att BY <1>3, <1>4 DEF Marked, Visible
<1>13. Marked(e) BY <1>3, <1>4, <1>7, <1>9, <1>11, <1>12 DEF Marked
<1>14. Listable(e) BY <1>3, <1>4, <1>5, <1>7, <1>9, <1>12 DEF Listable, Calm
<1>15. Remembers(e, o, <<>>) BY <1>4, <1>5, <1>7, <1>9, <1>11, TodoKinds DEF Remembers
<1>16. <<>> \in Todos BY TodoKinds
<1> QED BY <1>1, <1>8, <1>9, <1>10, <1>13, <1>14, <1>15, <1>16, SendKeeps

\* The allowed collisions are changed, and sent.
LEMMA AllowedKeeps ==
    ASSUME IInv, Idle, mode.allowed, NEW acm \in MapsOf(Objects, SUBSET Links), NEW name,
           Send([ed EXCEPT !.scene = [ed.scene EXCEPT !.acm = acm]], "qt", name, <<>>),
           mode' = mode, left' \in 0 .. mode.steps, dialog' \in Names
    PROVE  IInv'
<1>1. ed \in Editors /\ ed.scene \in Scenes /\ IsFiniteSet(ed.live) /\ Marked(ed) /\ Calm(ed)
  BY ObjectsIdle, EditorFields
<1> DEFINE view == [ed.scene EXCEPT !.acm = acm]
           e == [ed EXCEPT !.scene = view]
<1>2. view \in Scenes BY <1>1 DEF Scenes
<1>3. Send(e, "qt", name, <<>>) OBVIOUS
<1> HIDE DEF view
<1>4. e \in Editors BY <1>1, <1>2 DEF Editors
<1>5. e.objects = ed.objects /\ e.markers = ed.markers /\ e.live = ed.live BY <1>1 DEF Editors
<1> HIDE DEF e
<1>6. Marked(e) BY <1>1, <1>5 DEF Marked
<1>7. ~Regular BY DEF Regular
<1>8. Listable(e) BY <1>1, <1>5, <1>7 DEF Listable, Calm
<1>9. Remembers(e, name, <<>>) BY <1>7, TodoKinds DEF Remembers
<1>10. <<>> \in Todos BY TodoKinds
<1> QED BY <1>1, <1>3, <1>4, <1>5, <1>6, <1>8, <1>9, <1>10, SendKeeps

LEMMA EditAllowedKeeps == IInv /\ EditAllowed => IInv'
<1> SUFFICES ASSUME IInv, EditAllowed PROVE IInv' OBVIOUS
<1>1. left' \in 0 .. mode.steps /\ mode' = mode /\ dialog' \in Names
  BY Counted DEF IInv, EditAllowed, TInv
<1>2. Idle /\ mode.allowed BY DEF EditAllowed
<1>3. /\ ed \in Editors /\ ed.scene \in Scenes /\ ed.scene.acm \in MapsOf(Objects, SUBSET Links)
  BY <1>2, ObjectsIdle, EditorFields
<1>4. ASSUME NEW o \in DOMAIN ed.scene.acm, NEW changed \in SUBSET Links,
             Send([ed EXCEPT !.scene.acm[o] = changed], "qt", o, <<>>)
      PROVE  IInv'
  <2> DEFINE acm == [ed.scene.acm EXCEPT ![o] = changed]
  <2>1. acm \in MapsOf(Objects, SUBSET Links) BY <1>3, MapsIn
  <2>2. [ed EXCEPT !.scene.acm[o] = changed] = [ed EXCEPT !.scene = [ed.scene EXCEPT !.acm = acm]]
    BY <1>3 DEF Editors, Scenes
  <2> HIDE DEF acm
  <2> QED BY <1>1, <1>2, <1>4, <2>1, <2>2, AllowedKeeps
<1>5. ASSUME Send([ed EXCEPT !.scene.acm = Empty], "qt", NoObject, <<>>)
      PROVE  IInv'
  <2>1. Empty \in MapsOf(Objects, SUBSET Links) BY EmptyMap
  <2>2. [ed EXCEPT !.scene.acm = Empty] = [ed EXCEPT !.scene = [ed.scene EXCEPT !.acm = Empty]]
    BY <1>3 DEF Editors, Scenes
  <2> QED BY <1>1, <1>2, <1>5, <2>1, <2>2, AllowedKeeps
<1>6. CASE \E o \in DOMAIN ed.scene.acm, l \in Links :
              \E changed \in {ed.scene.acm[o] \cup {l}, ed.scene.acm[o] \ {l}} \ {ed.scene.acm[o]} :
                  Send([ed EXCEPT !.scene.acm[o] = changed], "qt", o, <<>>)
  <2>1. PICK o \in DOMAIN ed.scene.acm, l \in Links :
            \E changed \in {ed.scene.acm[o] \cup {l}, ed.scene.acm[o] \ {l}} \ {ed.scene.acm[o]} :
                Send([ed EXCEPT !.scene.acm[o] = changed], "qt", o, <<>>)
    BY <1>6
  <2>2. PICK changed \in {ed.scene.acm[o] \cup {l}, ed.scene.acm[o] \ {l}} :
            Send([ed EXCEPT !.scene.acm[o] = changed], "qt", o, <<>>)
    BY <2>1
  <2>3. ed.scene.acm[o] \in SUBSET Links BY <1>3, MapsIn
  <2>4. changed \in SUBSET Links BY <2>2, <2>3
  <2> QED BY <1>4, <2>2, <2>4
<1> QED BY <1>5, <1>6 DEF EditAllowed

-----------------------------------------------------------------------------
(* What follows a send keeps the invariant *)

LEMMA StepFacts ==
    ASSUME IInv, NEW s, Step(s)
    PROVE  /\ ~crashed /\ ~call.awaits /\ call.awaits = FALSE /\ call.todo # <<>>
           /\ Head(call.todo) = s /\ call.todo \in Todos
           /\ UNCHANGED <<dialog, left, mode>> /\ left' \in 0 .. mode.steps /\ dialog' \in Names
           /\ ed \in Editors /\ mode \in Modes
           /\ Tail(call.todo) \in Todos \ (Pendings \cup Forgets)
<1>1. /\ ~crashed /\ ~call.awaits /\ call.awaits = FALSE /\ call.todo # <<>>
      /\ Head(call.todo) = s /\ call.todo \in Todos
      /\ UNCHANGED <<dialog, left, mode>> /\ left' \in 0 .. mode.steps /\ dialog' \in Names
      /\ ed \in Editors /\ mode \in Modes
  BY NoneAwaits DEF Step, IInv, TInv
<1>2. Tail(call.todo) \in Todos \ (Pendings \cup Forgets) BY <1>1, TodoSteps
<1> QED BY <1>1, <1>2

LEMMA DoneFacts ==
    ASSUME IInv, Done
    PROVE  /\ call'.awaits = call.awaits /\ call'.todo = Tail(call.todo)
           /\ call'.acm = call.acm /\ call'.name = call.name /\ DOMAIN call' = CallFields
<1>1. DOMAIN call = CallFields BY DEF IInv, TInv
<1>2. call' = [call EXCEPT !.todo = Tail(call.todo)] BY DEF Done
<1> QED BY <1>1, <1>2 DEF CallFields

LEMMA ShowAttachedKeeps == IInv /\ ShowAttached => IInv'
<1> SUFFICES ASSUME IInv, ShowAttached PROVE IInv' OBVIOUS
<1>1. Step("attached") /\ Done /\ ed' = ChangedToAttached(ed, call.name) /\ UNCHANGED crashed
  BY DEF ShowAttached
<1>2. /\ ~call.awaits /\ call.awaits = FALSE /\ call.todo # <<>> /\ Head(call.todo) = "attached"
      /\ call.todo \in Todos /\ UNCHANGED <<dialog, left, mode>> /\ left' \in 0 .. mode.steps
      /\ dialog' \in Names /\ ed \in Editors
      /\ Tail(call.todo) \in Todos \ (Pendings \cup Forgets)
  BY <1>1, StepFacts
<1>3. /\ call'.awaits = FALSE /\ call'.todo = Tail(call.todo) /\ call'.acm = call.acm
      /\ DOMAIN call' = CallFields
  BY <1>1, <1>2, DoneFacts
<1> DEFINE o == call.name
<1>4. /\ call.todo \in Pendings /\ o \in Objects /\ o \in DOMAIN ed.objects /\ ed.objects[o].att
      /\ Marked(ed) /\ ed.markers \in [Objects -> Marks] /\ DOMAIN ed.objects \subseteq Objects
  <2>1. call.todo \in Pendings BY <1>2, TodoSteps
  <2>2. ed.markers \in [Objects -> Marks] /\ DOMAIN ed.objects \subseteq Objects
    BY <1>2, EditorFields
  <2> QED BY <2>1, <2>2 DEF IInv, TInv, OInv, CallInv
<1> HIDE DEF o
<1>5. ed' = ChangedToAttached(ed, o) BY <1>1 DEF o
<1>6. /\ ed' \in Editors /\ SameArm(ed', ed) /\ ed'.scene = ed.scene
      /\ DOMAIN ed'.objects = DOMAIN ed.objects \cup {o}
      /\ ed'.objects[o] = Entry(ed, o)
      /\ \A p \in DOMAIN ed.objects : p # o => ed'.objects[p] = ed.objects[p]
      /\ ed'.markers = IF Named(ed, o) THEN [ed.markers EXCEPT ![o] = Joined] ELSE ed.markers
  BY <1>2, <1>4, <1>5, ChangedToAttachedFacts
<1>7. Named(ed, o) /\ Entry(ed, o) = ed.objects[o] BY <1>4 DEF Named, Entry
<1>8. /\ DOMAIN ed'.objects = DOMAIN ed.objects
      /\ \A p \in DOMAIN ed'.objects : ed'.objects[p] = ed.objects[p]
  BY <1>4, <1>6, <1>7
<1>9. ed'.markers[o] = Joined /\ \A p \in Objects \ {o} : ed'.markers[p] = ed.markers[p]
  BY <1>4, <1>6, <1>7
<1>10. Marked(ed') BY <1>2, <1>4, <1>8, <1>9 DEF Marked
<1>11. Regular => \A p \in DOMAIN ed'.objects : ed'.objects[p].att => ~Takes(ed'.markers[p])
  <2> SUFFICES ASSUME Regular, NEW p \in DOMAIN ed.objects, ed.objects[p].att
               PROVE  ~Takes(ed'.markers[p])
    BY <1>8
  <2>1. CASE p = o BY <1>9, <2>1 DEF Takes, Joined
  <2>2. CASE p # o
    <3>1. TakenAreFree BY DEF IInv, OInv, AInv
    <3> QED BY <1>4, <1>9, <2>2, <3>1 DEF TakenAreFree, o
  <2> QED BY <2>1, <2>2
<1>12. DialogInv' BY <1>2, <1>8 DEF IInv, OInv, DialogInv
<1> QED BY <1>1, <1>2, <1>3, <1>6, <1>8, <1>10, <1>11, <1>12, EditKeeps

LEMMA ForgetKeeps == IInv /\ Forget => IInv'
<1> SUFFICES ASSUME IInv, Forget PROVE IInv' OBVIOUS
<1> DEFINE o == call.name
           objects == Without(ed.objects, {o})
<1>1. Step("forget") /\ Done /\ ed' = [ed EXCEPT !.objects = objects] /\ UNCHANGED crashed
  BY DEF Forget
<1>2. /\ ~call.awaits /\ call.awaits = FALSE /\ call.todo # <<>> /\ Head(call.todo) = "forget"
      /\ call.todo \in Todos /\ UNCHANGED <<dialog, left, mode>> /\ left' \in 0 .. mode.steps
      /\ dialog' \in Names /\ ed \in Editors
      /\ Tail(call.todo) \in Todos \ (Pendings \cup Forgets)
  BY <1>1, StepFacts
<1>3. /\ call'.awaits = FALSE /\ call'.todo = Tail(call.todo) /\ call'.acm = call.acm
      /\ DOMAIN call' = CallFields
  BY <1>1, <1>2, DoneFacts
<1>4. call.todo \in Forgets BY <1>2, TodoSteps
<1>5. /\ o \notin mode.own => ~Visible(ed.markers[o])
      /\ o \in DOMAIN ed.objects =>
             ~ed.objects[o].att /\ (ed.objects[o].coll => o \in mode.own)
  BY <1>4 DEF IInv, OInv, CallInv
<1>6. /\ objects \in MapsOf(Objects, Entries) /\ DOMAIN objects = DOMAIN ed.objects \ {o}
      /\ \A p \in DOMAIN ed.objects \ {o} : objects[p] = ed.objects[p]
  <2>1. ed.objects \in MapsOf(Objects, Entries) BY <1>2, EditorFields
  <2> DEFINE f == ed.objects
             R == {o}
  <2>2. objects = Without(f, R) /\ f \in MapsOf(Objects, Entries) BY <2>1
  <2> HIDE DEF o, objects, f, R
  <2>3. /\ Without(f, R) \in MapsOf(Objects, Entries) /\ DOMAIN Without(f, R) = DOMAIN f \ R
        /\ \A p \in DOMAIN f \ R : Without(f, R)[p] = f[p]
    BY <2>2, MapWithout
  <2> QED BY <2>2, <2>3 DEF f, R
<1> HIDE DEF o, objects
<1>7. /\ ed' \in Editors /\ SameArm(ed', ed) /\ ed'.scene = ed.scene /\ ed'.markers = ed.markers
      /\ ed'.objects = objects
  BY <1>1, <1>2, <1>6 DEF Editors, SameArm
<1>8. TInv' BY <1>1, <1>2, <1>3, <1>7 DEF IInv, TInv
<1>9. RInv'
  <2>1. /\ ed'.robot = ed.robot /\ ed'.requests = ed.requests /\ ed'.trajs = ed.trajs
        /\ ed'.live = ed.live /\ ed'.registry = ed.registry
    BY <1>7 DEF SameArm
  <2>2. StatesOwned(ed)' /\ (~mode.unlucky => Shown(ed))'
    BY <1>2, <2>1 DEF IInv, RInv, StatesOwned, EndsOwned, TrajsOwned, Shown
  <2>3. NInv' BY <1>2, <1>3, <2>1 DEF IInv, RInv, NInv
  <2> QED BY <2>2, <2>3 DEF RInv
<1>10. CInv' BY <1>1, <1>2 DEF IInv, CInv
<1>11. Marked(ed)' BY <1>2, <1>5, <1>6, <1>7 DEF IInv, OInv, Marked
<1>12. Calm(ed)' BY <1>6, <1>7 DEF IInv, OInv, Calm
<1>13. CallInv' BY <1>2, <1>3 DEF CallInv
<1>14. DialogInv' BY <1>2, <1>6, <1>7 DEF IInv, OInv, DialogInv
<1>15. AttachedIn(ed'.objects) = AttachedIn(ed.objects) BY <1>5, <1>6, <1>7 DEF AttachedIn
<1>16. /\ FreeIn(ed'.objects) \subseteq FreeIn(ed.objects)
       /\ FreeIn(ed.objects) \subseteq FreeIn(ed'.objects) \cup mode.own
  BY <1>5, <1>6, <1>7, <1>15 DEF FreeIn
<1>17. LInv'
  <2>1. ed'.scene.sent => ListedIsThere BY <1>7 DEF IInv, OInv, LInv
  <2> QED BY <1>2, <1>7, <1>15, <1>16, <2>1 DEF LInv, ListedIsThere
<1>18. AInv'
  <2> SUFFICES ASSUME Regular PROVE AInv' BY <1>2 DEF AInv, Regular
  <2>1. AttachedMayTouch /\ OthersTouchNothing /\ TakenAreFree /\ (ed.scene.sent => AllowedIsTouch)
    BY DEF IInv, OInv, AInv
  <2>2. Acm' = ed.scene.acm /\ Acm = ed.scene.acm BY <1>2, <1>3, <1>7 DEF Acm
  <2>3. AttachedMayTouch' BY <1>6, <1>7, <2>1, <2>2 DEF AttachedMayTouch
  <2>4. OthersTouchNothing' BY <1>5, <1>6, <1>7, <2>1, <2>2 DEF OthersTouchNothing
  <2>5. FreeAreAsked' BY <1>3 DEF FreeAreAsked
  <2>6. TakenAreFree'
    <3>1. call.todo \notin Pendings BY <1>4 DEF Pendings, Forgets
    <3> QED BY <1>6, <1>7, <2>1, <3>1 DEF TakenAreFree
  <2>7. (ed.scene.sent => AllowedIsTouch)' BY <1>2, <1>7, <2>1 DEF AllowedIsTouch
  <2> QED BY <2>3, <2>4, <2>5, <2>6, <2>7 DEF AInv
<1> QED BY <1>8, <1>9, <1>10, <1>11, <1>12, <1>13, <1>14, <1>17, <1>18 DEF IInv, OInv

\* A step that follows a send, once the objects are as they should be.
LEMMA LaterKeeps ==
    ASSUME IInv, NEW s \in {"second", "shown"}, Step(s), Done, ed' \in Editors,
           SameObjects(ed', ed), ed'.scene = ed.scene, ed'.requests = ed.requests,
           ed'.trajs = ed.trajs, ed'.live = ed.live, ed'.registry = ed.registry,
           ~mode.fails => ed'.robot # NoRobot,
           crashed' \in BOOLEAN, crashed' => mode.fails \/ mode.crosses \/ mode.own # {}
    PROVE  IInv'
<1>1. /\ ~call.awaits /\ call.awaits = FALSE /\ call.todo # <<>> /\ Head(call.todo) = s
      /\ call.todo \in Todos /\ UNCHANGED <<dialog, left, mode>> /\ left' \in 0 .. mode.steps
      /\ dialog' \in Names /\ ed \in Editors
      /\ Tail(call.todo) \in Todos \ (Pendings \cup Forgets)
  BY StepFacts
<1>2. /\ call'.awaits = FALSE /\ call'.todo = Tail(call.todo) /\ call'.acm = call.acm
      /\ DOMAIN call' = CallFields
  BY <1>1, DoneFacts
<1>3. call.todo \notin Pendings \cup Forgets BY <1>1, TodoSteps
<1>4. ed'.objects = ed.objects /\ ed'.markers = ed.markers BY DEF SameObjects
<1>5. TInv' BY <1>1, <1>2 DEF IInv, TInv
<1>6. RInv'
  <2>1. StatesOwned(ed)' /\ (~mode.unlucky => Shown(ed))'
    BY <1>1 DEF IInv, RInv, StatesOwned, EndsOwned, TrajsOwned, Shown
  <2>2. NInv' BY <1>1, <1>2 DEF IInv, RInv, NInv
  <2> QED BY <2>1, <2>2 DEF RInv
<1>7. CInv' BY <1>1 DEF CInv
<1>8. Marked(ed)' /\ Calm(ed)' BY <1>1, <1>4 DEF IInv, OInv, Marked, Calm
<1>9. CallInv' /\ DialogInv' BY <1>1, <1>2, <1>4 DEF IInv, OInv, CallInv, DialogInv
<1>10. LInv' BY <1>1, <1>4 DEF IInv, OInv, LInv, ListedIsThere
<1>11. AInv'
  <2> SUFFICES ASSUME Regular PROVE AInv' BY <1>1 DEF AInv, Regular
  <2>1. AttachedMayTouch /\ OthersTouchNothing /\ TakenAreFree /\ (ed.scene.sent => AllowedIsTouch)
    BY DEF IInv, OInv, AInv
  <2>2. Acm' = ed.scene.acm /\ Acm = ed.scene.acm BY <1>1, <1>2 DEF Acm
  <2>3. AttachedMayTouch' /\ OthersTouchNothing'
    BY <1>4, <2>1, <2>2 DEF AttachedMayTouch, OthersTouchNothing
  <2>4. FreeAreAsked' BY <1>2 DEF FreeAreAsked
  <2>5. TakenAreFree' BY <1>3, <1>4, <2>1 DEF TakenAreFree
  <2>6. (ed.scene.sent => AllowedIsTouch)' BY <1>1, <2>1 DEF AllowedIsTouch
  <2> QED BY <2>3, <2>4, <2>5, <2>6 DEF AInv
<1> QED BY <1>5, <1>6, <1>7, <1>8, <1>9, <1>10, <1>11 DEF IInv, OInv

LEMMA LookForSecondKeeps == IInv /\ LookForSecond => IInv'
<1> SUFFICES ASSUME IInv, LookForSecond PROVE IInv' OBVIOUS
<1>1. Step("second") /\ Done /\ ed' = ed BY DEF LookForSecond
<1>2. crashed' \in BOOLEAN /\ (crashed' => ed.robot = NoRobot) BY DEF LookForSecond
<1>3. ~call.awaits /\ ed \in Editors BY <1>1, StepFacts
<1>4. ~mode.fails => ed.robot # NoRobot BY <1>3 DEF IInv, RInv, NInv
<1>5. SameObjects(ed', ed) BY <1>1 DEF SameObjects
<1> QED BY <1>1, <1>2, <1>3, <1>4, <1>5, LaterKeeps

LEMMA ShowLoadedKeeps == IInv /\ ShowLoaded => IInv'
<1> SUFFICES ASSUME IInv, ShowLoaded PROVE IInv' OBVIOUS
<1> DEFINE robot == IF ed.robot = NoRobot THEN ed.robot ELSE ed.scene.robot
<1>1. Step("shown") /\ Done /\ ed' = [ed EXCEPT !.robot = robot] BY DEF ShowLoaded
<1>2. crashed' \in BOOLEAN /\ (crashed' => ed.robot = NoRobot) BY DEF ShowLoaded
<1>3. ~call.awaits /\ ed \in Editors BY <1>1, StepFacts
<1>4. ~mode.fails => ed.robot # NoRobot BY <1>3 DEF IInv, RInv, NInv
<1>5. robot \in Poses \cup {NoRobot} /\ (~mode.fails => robot # NoRobot)
  BY <1>3, <1>4, EditorFields, NoRobotAssumption
<1> HIDE DEF robot
<1>6. /\ ed' \in Editors /\ ed'.robot = robot /\ ed'.scene = ed.scene
      /\ ed'.requests = ed.requests /\ ed'.trajs = ed.trajs /\ ed'.live = ed.live
      /\ ed'.registry = ed.registry /\ ed'.objects = ed.objects /\ ed'.markers = ed.markers
      /\ ed'.newest = ed.newest
  BY <1>1, <1>3, <1>5 DEF Editors
<1>7. SameObjects(ed', ed) BY <1>6 DEF SameObjects
<1> QED BY <1>1, <1>2, <1>4, <1>5, <1>6, <1>7, LaterKeeps

-----------------------------------------------------------------------------
(* The answer keeps the invariant *)

LEMMA ReturnFacts ==
    ASSUME IInv, Awaiting, Returns
    PROVE  /\ call'.awaits = FALSE /\ call'.todo = call.todo /\ call'.acm = call.acm
           /\ call'.name = call.name /\ DOMAIN call' = CallFields /\ call.awaits
           /\ ed \in Editors /\ mode \in Modes /\ mode.own \subseteq Objects
           /\ ed.robot = NoRobot /\ Null(ed) /\ StatesOwned(ed) /\ Marked(ed) /\ Calm(ed)
           /\ call.acm \in MapsOf(Objects, SUBSET Links)
<1>1. DOMAIN call = CallFields /\ call.awaits BY DEF IInv, TInv, Awaiting
<1>2. call' = [call EXCEPT !.awaits = FALSE] BY DEF Returns
<1>3. /\ call'.awaits = FALSE /\ call'.todo = call.todo /\ call'.acm = call.acm
      /\ call'.name = call.name /\ DOMAIN call' = CallFields
  BY <1>1, <1>2 DEF CallFields
<1>4. /\ ed \in Editors /\ mode \in Modes /\ ed.robot = NoRobot /\ Null(ed) /\ StatesOwned(ed)
      /\ Marked(ed) /\ Calm(ed) /\ call.acm \in MapsOf(Objects, SUBSET Links)
  BY <1>1 DEF IInv, TInv, RInv, NInv, OInv
<1> QED BY <1>1, <1>3, <1>4, ModeFacts

\* The objects that remain are listed as they were, and others of the server's own may
\* have come.
LEMMA RemainKeeps ==
    ASSUME IInv, Awaiting, Returns, NEW S \in SUBSET mode.own, UNCHANGED mode,
           DOMAIN ed'.objects = AttachedIn(ed.objects) \cup FreeIn(ed.objects) \cup S,
           \A o \in DOMAIN ed'.objects : ed'.objects[o] = IF o \in S THEN Free ELSE ed.objects[o],
           S \cap (AttachedIn(ed.objects) \cup FreeIn(ed.objects)) = {},
           \A o \in Objects \ S : ed'.markers[o] = ed.markers[o]
    PROVE  /\ Marked(ed') /\ Calm(ed') /\ CallInv'
           /\ AttachedIn(ed'.objects) = AttachedIn(ed.objects)
           /\ FreeIn(ed'.objects) = FreeIn(ed.objects) \cup S
           /\ \A o \in DOMAIN ed'.objects : ed'.objects[o].coll \/ ed'.objects[o].att
<1> DEFINE f == ed.objects
           g == ed'.objects
<1>1. /\ DOMAIN f \subseteq Objects /\ mode.own \subseteq Objects /\ Marked(ed) /\ Calm(ed)
      /\ call'.todo = call.todo /\ call'.name = call.name
  BY ReturnFacts, EditorFields
<1>2. /\ AttachedIn(f) = {o \in DOMAIN f : f[o].att}
      /\ FreeIn(f) = {o \in DOMAIN f : f[o].coll} \ AttachedIn(f)
  BY DEF AttachedIn, FreeIn
<1>3. \A o \in DOMAIN g : \/ o \in S /\ g[o] = Free
                          \/ o \notin S /\ o \in DOMAIN f /\ g[o] = f[o] /\ (f[o].att \/ f[o].coll)
  BY <1>2
<1>4. \A o \in DOMAIN f : f[o].att \/ f[o].coll => o \in DOMAIN g /\ o \notin S /\ g[o] = f[o]
  BY <1>2
<1> HIDE DEF f, g
<1>5. Marked(ed')
  <2> SUFFICES ASSUME NEW o \in Objects \ mode.own, Visible(ed'.markers[o])
               PROVE  o \in DOMAIN g /\ (g[o].coll \/ g[o].att)
    BY DEF Marked, g
  <2>1. Visible(ed.markers[o]) OBVIOUS
  <2>2. o \in DOMAIN f /\ (f[o].coll \/ f[o].att) BY <1>1, <2>1 DEF Marked, f
  <2> QED BY <1>4, <2>2
<1>6. Calm(ed') BY <1>1, <1>3, EntryTypes DEF Calm, f, g
<1>7. CallInv'
  <2>1. CallInv BY DEF IInv, OInv
  <2>2. call.todo \in Pendings => call.name \in DOMAIN g /\ g[call.name].att
    BY <1>4, <2>1 DEF CallInv, f
  <2>3. call.todo \in Forgets /\ call.name \notin mode.own => ~Visible(ed'.markers[call.name])
    <3>1. call.todo \in Forgets => call.name \in Objects BY DEF IInv, TInv
    <3> QED BY <2>1, <3>1 DEF CallInv
  <2>4. call.todo \in Forgets /\ call.name \in DOMAIN g =>
            ~g[call.name].att /\ (g[call.name].coll => call.name \in mode.own)
    BY <1>3, <2>1, EntryTypes DEF CallInv, f
  <2> QED BY <1>1, <2>2, <2>3, <2>4 DEF CallInv, g
<1>8. AttachedIn(g) = AttachedIn(f) BY <1>3, <1>4, EntryTypes DEF AttachedIn
<1>9. FreeIn(g) = FreeIn(f) \cup S
  <2>1. \A o \in S : o \in DOMAIN g /\ g[o] = Free BY DEF g
  <2>2. \A o \in FreeIn(g) : o \in FreeIn(f) \cup S BY <1>2, <1>3, <1>8 DEF FreeIn
  <2>3. \A o \in FreeIn(f) : o \in FreeIn(g) BY <1>2, <1>4, <1>8 DEF FreeIn
  <2>4. \A o \in S : o \in FreeIn(g) BY <2>1, <1>3, <1>8, EntryTypes DEF FreeIn, AttachedIn
  <2> QED BY <2>2, <2>3, <2>4
<1>10. \A o \in DOMAIN g : g[o].coll \/ g[o].att BY <1>3, EntryTypes
<1> QED BY <1>5, <1>6, <1>7, <1>8, <1>9, <1>10 DEF f, g

LEMMA AnsweredKeeps == IInv /\ Answered => IInv'
<1> SUFFICES ASSUME IInv, Answered PROVE IInv' OBVIOUS
<1>1. Awaiting /\ Returns /\ UNCHANGED <<dialog, crashed, left, mode>> BY DEF Answered
<1>2. /\ call'.awaits = FALSE /\ call'.todo = call.todo /\ call'.acm = call.acm
      /\ call'.name = call.name /\ DOMAIN call' = CallFields /\ call.awaits
      /\ ed \in Editors /\ mode \in Modes /\ mode.own \subseteq Objects
      /\ ed.robot = NoRobot /\ Null(ed) /\ StatesOwned(ed) /\ Marked(ed) /\ Calm(ed)
      /\ call.acm \in MapsOf(Objects, SUBSET Links)
  BY <1>1, ReturnFacts
<1>3. PICK p \in Poses : ed' = Restated(WithUnknown(Answer(p)))
  <2>1. ed.scene.robot \in Poses BY <1>2, EditorFields
  <2> QED BY <2>1 DEF Answered
<1> DEFINE att == AttachedIn(ed.objects)
           free == FreeIn(ed.objects)
           d == Answer(p)
           S == d.scene.coll \ DOMAIN d.objects
           w == SelectableAll(d, S)
           r == Restated(w)
<1>4. ed' = r BY <1>3 DEF WithUnknown
<1>5. /\ d \in Editors /\ d.markers = ed.markers /\ d.newest = ed.newest
      /\ d.requests = ed.requests /\ d.trajs = ed.trajs /\ d.live = ed.live
      /\ d.registry = ed.registry /\ d.robot = p
      /\ DOMAIN d.objects = att \cup free
      /\ \A o \in DOMAIN d.objects : d.objects[o] = ed.objects[o]
      /\ d.scene.coll = free \cup (mode.own \ att)
      /\ d.scene.att = [o \in att |-> ed.objects[o].touch]
      /\ d.scene.acm = call.acm /\ d.scene.sent
  BY <1>2, AnswerFacts
<1> HIDE DEF d
<1>6. S \subseteq mode.own /\ S \in SUBSET Objects /\ S \cap (att \cup free) = {}
  BY <1>2, <1>5
<1> HIDE DEF S
<1>7. /\ w \in Editors /\ SameArm(w, d) /\ w.scene = d.scene /\ w.newest = d.newest
      /\ DOMAIN w.objects = DOMAIN d.objects \cup S
      /\ \A o \in S : w.objects[o] = Free
      /\ \A o \in DOMAIN d.objects \ S : w.objects[o] = d.objects[o]
      /\ \A o \in Objects \ S : w.markers[o] = d.markers[o]
  BY <1>5, <1>6, SelectableAllFacts
<1> HIDE DEF w
<1>8. /\ w.requests = ed.requests /\ w.trajs = ed.trajs /\ w.live = ed.live
      /\ w.registry = ed.registry /\ w.robot = p
  BY <1>5, <1>7 DEF SameArm
<1>9. /\ r \in Editors /\ SameScene(r, w) /\ r.trajs = w.trajs /\ StatesOwned(r) /\ Shown(r)
      /\ \A n \in DOMAIN r.requests, end \in Ends : r.requests[n].state[end] # NoState
  <2>1. /\ IsFiniteSet(w.live) /\ w.registry \subseteq w.live /\ TrajsOwned(w)
        /\ \A n \in DOMAIN w.requests, end \in Ends : w.requests[n].state[end] = NoState
    BY <1>2, <1>8 DEF StatesOwned, TrajsOwned, Null
  <2> QED BY <1>7, <2>1, RestatedFacts
<1> HIDE DEF r
<1>10. /\ ed'.objects = w.objects /\ ed'.markers = w.markers /\ ed'.scene = d.scene
       /\ ed'.robot = p
  BY <1>4, <1>7, <1>8, <1>9 DEF SameScene
<1>11. /\ Marked(ed') /\ Calm(ed') /\ CallInv'
       /\ AttachedIn(ed'.objects) = att
       /\ FreeIn(ed'.objects) = free \cup S
       /\ \A o \in DOMAIN ed'.objects : ed'.objects[o].coll \/ ed'.objects[o].att
  <2>1. DOMAIN ed'.objects = att \cup free \cup S BY <1>5, <1>7, <1>10
  <2>2. \A o \in DOMAIN ed'.objects :
            ed'.objects[o] = IF o \in S THEN Free ELSE ed.objects[o]
    BY <1>5, <1>7, <1>10
  <2>3. \A o \in Objects \ S : ed'.markers[o] = ed.markers[o] BY <1>5, <1>7, <1>10
  <2>4. S \in SUBSET mode.own BY <1>6
  <2> QED BY <1>1, <1>6, <2>1, <2>2, <2>3, <2>4, RemainKeeps
<1>12. TInv' BY <1>1, <1>2, <1>4, <1>9 DEF IInv, TInv
<1>13. RInv'
  <2>1. NInv' BY <1>2, <1>4, <1>9, <1>10, NoRobotAssumption DEF NInv
  <2>2. StatesOwned(ed)' /\ Shown(ed)' BY <1>4, <1>9
  <2> QED BY <2>1, <2>2 DEF RInv
<1>14. CInv' BY <1>1 DEF IInv, CInv
<1>15. DialogInv' BY <1>11 DEF DialogInv
<1>16. LInv'
  <2>1. /\ ed'.scene.coll = free \cup (mode.own \ att) /\ DOMAIN ed'.scene.att = att
    BY <1>5, <1>10
  <2>2. S \subseteq ed'.scene.coll BY <1>10 DEF S
  <2> QED BY <1>1, <1>11, <2>1, <2>2 DEF LInv, ListedIsThere
<1>17. AInv'
  <2> SUFFICES ASSUME Regular PROVE AInv' BY <1>1 DEF AInv, Regular
  <2>1. AttachedMayTouch /\ OthersTouchNothing /\ FreeAreAsked /\ TakenAreFree
    BY DEF IInv, OInv, AInv
  <2>2. Acm' = call.acm /\ Acm = call.acm BY <1>2, <1>5, <1>10 DEF Acm
  <2>3. \A o \in DOMAIN ed'.objects : ed'.objects[o].att =>
            o \in DOMAIN ed.objects /\ ed.objects[o].att /\ ed'.objects[o] = ed.objects[o]
    <3>1. \A o \in DOMAIN ed'.objects : ed'.objects[o].att => o \in att
      BY <1>11 DEF AttachedIn
    <3>2. \A o \in att : o \in DOMAIN ed.objects /\ ed.objects[o].att /\ o \notin S
      BY <1>6 DEF AttachedIn
    <3>3. \A o \in att : ed'.objects[o] = ed.objects[o] BY <1>5, <1>7, <1>10, <3>2
    <3> QED BY <3>1, <3>2, <3>3
  <2>4. \A o \in DOMAIN ed.objects : ed.objects[o].att =>
            o \in DOMAIN ed'.objects /\ ed'.objects[o].att
    BY <1>11 DEF AttachedIn
  <2>5. AttachedMayTouch' BY <2>1, <2>2, <2>3 DEF AttachedMayTouch
  <2>6. OthersTouchNothing' BY <2>1, <2>2, <2>4 DEF OthersTouchNothing
  <2>7. FreeAreAsked' BY <1>2 DEF FreeAreAsked
  <2>8. TakenAreFree'
    <3>1. \A o \in DOMAIN ed.objects : ed.objects[o].att => ed'.markers[o] = ed.markers[o]
      BY <1>2, <1>5, <1>6, <1>7, <1>10, EditorFields DEF AttachedIn
    <3> QED BY <1>2, <2>1, <2>3, <3>1 DEF TakenAreFree
  <2>9. AllowedIsTouch'
    <3>1. /\ ed'.scene.coll = free \cup (mode.own \ att)
          /\ ed'.scene.att = [o \in att |-> ed.objects[o].touch] /\ ed'.scene.acm = call.acm
      BY <1>5, <1>10
    <3>2. DOMAIN ed'.scene.att = att /\ \A o \in att : ed'.scene.att[o] = ed.objects[o].touch
      BY <3>1
    <3>3. ASSUME NEW o \in att PROVE o \in DOMAIN call.acm /\ call.acm[o] = ed.objects[o].touch
      BY <2>1, <2>2 DEF AttachedMayTouch, AttachedIn
    <3>4. ASSUME NEW o \in (free \cup (mode.own \ att)) \ mode.own, o \notin att
          PROVE  o \in DOMAIN call.acm /\ call.acm[o] = {}
      <4>1. o \in DOMAIN ed.objects \ mode.own /\ ed.objects[o].coll /\ ~ed.objects[o].att
        BY <3>4 DEF FreeIn, AttachedIn
      <4>2. o \in DOMAIN call.acm BY <1>2, <2>1, <2>2, <4>1 DEF FreeAreAsked
      <4> QED BY <2>1, <2>2, <4>1, <4>2 DEF OthersTouchNothing
    <3> QED BY <1>1, <3>1, <3>2, <3>3, <3>4 DEF AllowedIsTouch
  <2> QED BY <2>5, <2>6, <2>7, <2>8, <2>9 DEF AInv
<1>18. Marked(ed)' /\ Calm(ed)' BY <1>1, <1>11 DEF Marked, Calm
<1> QED BY <1>11, <1>12, <1>13, <1>14, <1>15, <1>16, <1>17, <1>18 DEF IInv, OInv

LEMMA UnansweredKeeps == IInv /\ Unanswered => IInv'
<1> SUFFICES ASSUME IInv, Unanswered PROVE IInv' OBVIOUS
<1>1. /\ Awaiting /\ Returns /\ UNCHANGED <<dialog, crashed, left, mode>> /\ mode.fails
  BY DEF Unanswered
<1>2. /\ call'.awaits = FALSE /\ call'.todo = call.todo /\ call'.acm = call.acm
      /\ call'.name = call.name /\ DOMAIN call' = CallFields /\ call.awaits
      /\ ed \in Editors /\ mode \in Modes /\ mode.own \subseteq Objects
      /\ ed.robot = NoRobot /\ Null(ed) /\ StatesOwned(ed) /\ Marked(ed) /\ Calm(ed)
      /\ call.acm \in MapsOf(Objects, SUBSET Links)
  BY <1>1, ReturnFacts
<1>3. NInv' /\ DialogInv' /\ AInv' /\ CInv'
  BY <1>1, <1>2 DEF NInv, DialogInv, AInv, Regular, CInv
<1>4. CASE ed' = ed
  <2>1. TInv' BY <1>1, <1>2, <1>4 DEF IInv, TInv
  <2>2. RInv' BY <1>1, <1>2, <1>3, <1>4, NullIsOwned DEF RInv, IInv
  <2>3. Marked(ed)' /\ Calm(ed)' BY <1>1, <1>2, <1>4 DEF Marked, Calm
  <2>4. CallInv' BY <1>1, <1>2, <1>4 DEF IInv, OInv, CallInv
  <2>5. LInv' BY <1>1, <1>4 DEF IInv, OInv, LInv, ListedIsThere
  <2> QED BY <1>3, <2>1, <2>2, <2>3, <2>4, <2>5 DEF IInv, OInv
<1>5. CASE ed' = [Answer(ed.scene.robot) EXCEPT !.robot = NoRobot, !.values = ed.values, !.scene.sent = FALSE]
  <2> DEFINE p == ed.scene.robot
             d == Answer(p)
             view == [d.scene EXCEPT !.sent = FALSE]
             e == [d EXCEPT !.robot = NoRobot, !.values = ed.values, !.scene = view]
  <2>1. p \in Poses /\ ed.values \in Poses BY <1>2, EditorFields
  <2> HIDE DEF p
  <2>2. /\ d \in Editors /\ d.markers = ed.markers /\ d.newest = ed.newest
        /\ d.requests = ed.requests /\ d.trajs = ed.trajs /\ d.live = ed.live
        /\ d.registry = ed.registry
        /\ DOMAIN d.objects = AttachedIn(ed.objects) \cup FreeIn(ed.objects)
        /\ \A o \in DOMAIN d.objects : d.objects[o] = ed.objects[o]
    BY <1>2, <2>1, AnswerFacts
  <2>3. ed' = e BY <1>5, <2>2 DEF p, Editors
  <2> HIDE DEF d
  <2>4. view \in Scenes /\ ~view.sent BY <2>2, EditorFields DEF Scenes
  <2> HIDE DEF view
  <2>5. e \in Editors BY <2>1, <2>2, <2>4 DEF Editors
  <2>6. /\ e.objects = d.objects /\ e.markers = d.markers /\ e.requests = d.requests
        /\ e.trajs = d.trajs /\ e.live = d.live /\ e.registry = d.registry /\ e.scene = view
    BY <2>2 DEF Editors
  <2> HIDE DEF e
  <2>7. TInv' BY <1>1, <1>2, <2>3, <2>5 DEF IInv, TInv
  <2>8. Null(ed') /\ IsFiniteSet(ed'.live) /\ ed'.registry \subseteq ed'.live
    BY <1>2, <2>2, <2>3, <2>6 DEF Null, StatesOwned
  <2>9. StatesOwned(ed') /\ Shown(ed') BY <2>8, NullIsOwned
  <2>10. RInv' BY <1>3, <2>9 DEF RInv
  <2>11. Marked(ed') /\ Calm(ed') /\ CallInv'
    <3> DEFINE S == {}
    <3>1. S \in SUBSET mode.own /\ S \cap (AttachedIn(ed.objects) \cup FreeIn(ed.objects)) = {}
      OBVIOUS
    <3>2. DOMAIN ed'.objects = AttachedIn(ed.objects) \cup FreeIn(ed.objects) \cup S
      BY <2>2, <2>3, <2>6
    <3>3. \A o \in DOMAIN ed'.objects :
              ed'.objects[o] = IF o \in S THEN Free ELSE ed.objects[o]
      BY <2>2, <2>3, <2>6
    <3>4. \A o \in Objects \ S : ed'.markers[o] = ed.markers[o] BY <2>2, <2>3, <2>6
    <3> HIDE DEF S
    <3> QED BY <1>1, <3>1, <3>2, <3>3, <3>4, RemainKeeps
  <2>12. LInv' BY <2>3, <2>4, <2>6 DEF LInv
  <2>13. Marked(ed)' /\ Calm(ed)' BY <1>1, <2>11 DEF Marked, Calm
  <2> QED BY <1>3, <2>7, <2>10, <2>11, <2>12, <2>13 DEF IInv, OInv
<1> QED BY <1>4, <1>5 DEF Unanswered

-----------------------------------------------------------------------------
(* A scene that replaces another one keeps the invariant *)

\* Nothing of the old scene is seen, but for objects of the server's own.
LEMMA EmptiedFacts ==
    ASSUME NEW e \in Editors, NEW view \in Scenes, mode.own \subseteq Objects, Marked(e)
    PROVE  LET d == Emptied(e, view) IN
           /\ d \in Editors /\ d.objects = Empty /\ d.requests = Empty /\ d.trajs = Empty
           /\ d.scene = view /\ d.robot = e.robot /\ d.live \subseteq e.live
           /\ d.registry = {} /\ \A o \in Objects \ mode.own : ~Visible(d.markers[o])
<1> DEFINE f == StatesDeleted(e)
           markers == [o \in Objects |-> IF Named(e, o) THEN NoMarkers ELSE e.markers[o]]
           d == [f EXCEPT !.requests = Empty, !.trajs = Empty, !.objects = Empty,
                          !.markers = markers, !.scene = view]
<1>1. f \in Editors /\ SameScene(f, e) /\ f.live \subseteq e.live /\ f.registry = {}
  BY StatesDeletedFacts
<1>2. Emptied(e, view) = d BY DEF Emptied
<1>3. markers \in [Objects -> Marks] BY EditorFields, EntryTypes
<1>4. \A o \in Objects \ mode.own : ~Visible(markers[o])
  <2> SUFFICES ASSUME NEW o \in Objects \ mode.own PROVE ~Visible(markers[o]) OBVIOUS
  <2>1. CASE Named(e, o) BY <2>1, EntryTypes DEF Visible
  <2>2. CASE ~Named(e, o) BY <2>2 DEF Marked, Named, Entry
  <2> QED BY <2>1, <2>2
<1> HIDE DEF f, markers
<1>5. /\ Empty \in MapsOf({1}, Requests) /\ Empty \in MapsOf(Trajs, Trajectories)
      /\ Empty \in MapsOf(Objects, Entries)
  BY EmptyMap
<1>6. d \in Editors BY <1>1, <1>3, <1>5 DEF Editors
<1>7. /\ d.objects = Empty /\ d.requests = Empty /\ d.trajs = Empty /\ d.scene = view
      /\ d.robot = f.robot /\ d.live = f.live /\ d.registry = f.registry /\ d.markers = markers
  BY <1>1 DEF Editors
<1> HIDE DEF d
<1>8. d.robot = e.robot BY <1>1, <1>7 DEF SameScene
<1> QED BY <1>1, <1>2, <1>4, <1>6, <1>7, <1>8

LEMMA NothingIsEmpty == DOMAIN Empty = {}
BY DEF Empty

LEMMA BlankSceneFacts ==
    ASSUME NEW p \in Poses
    PROVE  /\ BlankScene(p) \in Scenes /\ BlankScene(p).coll = {} /\ BlankScene(p).att = Empty
           /\ BlankScene(p).acm = Empty /\ BlankScene(p).robot = p /\ ~BlankScene(p).sent
<1>1. Empty \in MapsOf(Objects, SUBSET DOMAIN LinksOf) /\ Empty \in MapsOf(Objects, SUBSET Links)
  BY EmptyMap
<1> QED BY <1>1 DEF BlankScene, Scenes

LEMMA NewSceneKeeps == IInv /\ NewScene => IInv'
<1> SUFFICES ASSUME IInv, NewScene PROVE IInv' OBVIOUS
<1>1. left' \in 0 .. mode.steps /\ mode' = mode /\ dialog' \in Names
  BY Counted DEF IInv, NewScene, TInv
<1>2. Idle BY DEF NewScene
<1>3. /\ ed \in Editors /\ IsFiniteSet(ed.live) /\ Marked(ed) /\ mode.own \subseteq Objects
  BY <1>2, ObjectsIdle, ModeFacts
<1> DEFINE p == IF ed.robot = NoRobot THEN Home ELSE ed.values
           posed == [ed EXCEPT !.robot = p]
           view == BlankScene(p)
           e == Emptied(posed, view)
<1>4. Send(e, "qt", NoObject, <<>>) BY DEF NewScene
<1>5. p \in Poses BY <1>3, EditorFields, BoundsAssumption
<1> HIDE DEF p
<1>6. /\ view \in Scenes /\ view.acm = Empty BY <1>5, BlankSceneFacts
<1> HIDE DEF view
<1>7. /\ posed \in Editors /\ posed.objects = ed.objects /\ posed.markers = ed.markers
      /\ posed.live = ed.live
  BY <1>3, <1>5 DEF Editors
<1> HIDE DEF posed
<1>8. Marked(posed) BY <1>3, <1>7 DEF Marked
<1>9. /\ e \in Editors /\ e.objects = Empty /\ e.scene = view /\ e.live \subseteq posed.live
      /\ \A o \in Objects \ mode.own : ~Visible(e.markers[o])
  BY <1>3, <1>6, <1>7, <1>8, EmptiedFacts
<1> HIDE DEF e
<1>10. IsFiniteSet(e.live) BY <1>3, <1>7, <1>9, FS_Subset
<1>11. Marked(e) BY <1>9 DEF Marked
<1>12. Listable(e) /\ Remembers(e, NoObject, <<>>)
  BY <1>6, <1>9, NothingIsEmpty, TodoKinds DEF Listable, Remembers
<1>13. <<>> \in Todos BY TodoKinds
<1> QED BY <1>1, <1>4, <1>9, <1>10, <1>11, <1>12, <1>13, SendKeeps

LEMMA ReadWarehouseKeeps == IInv /\ ReadWarehouse => IInv'
<1> SUFFICES ASSUME IInv, ReadWarehouse PROVE IInv' OBVIOUS
<1>1. left' \in 0 .. mode.steps /\ mode' = mode BY Counted DEF IInv, ReadWarehouse
<1>2. Idle /\ ~Regular BY DEF ReadWarehouse, Regular
<1>3. /\ mode \in Modes /\ ed \in Editors /\ StatesOwned(ed) /\ Marked(ed) /\ Calm(ed)
      /\ ~call.awaits /\ call.todo = <<>>
  BY <1>2, ObjectsIdle
<1> DEFINE stored == BlankScene(mode.stored.robot)
           acm == mode.stored.acm
<1>4. PICK view \in {BlankScene(Home), [stored EXCEPT !.acm = acm]} :
          Edits([ed EXCEPT !.requests = Empty, !.trajs = Empty, !.scene = view, !.newest = 0])
  BY DEF ReadWarehouse
<1>5. view \in Scenes /\ ~view.sent
  <2>1. mode.stored.robot \in Poses /\ acm \in MapsOf(Objects, SUBSET Links) /\ Home \in Poses
    BY <1>3, StoredFacts, BoundsAssumption
  <2>2. BlankScene(Home) \in Scenes /\ ~BlankScene(Home).sent BY <2>1, BlankSceneFacts
  <2>3. stored \in Scenes /\ ~stored.sent BY <2>1, BlankSceneFacts
  <2> HIDE DEF stored, acm
  <2>4. [stored EXCEPT !.acm = acm] \in Scenes /\ ~[stored EXCEPT !.acm = acm].sent
    BY <2>1, <2>3 DEF Scenes
  <2> QED BY <2>2, <2>4
<1>6. UNCHANGED <<call, dialog, crashed>> BY <1>4 DEF Edits
<1> DEFINE e == [ed EXCEPT !.requests = Empty, !.trajs = Empty, !.scene = view, !.newest = 0]
<1>7. ed' = e BY <1>4 DEF Edits
<1>8. Empty \in MapsOf({1}, Requests) /\ Empty \in MapsOf(Trajs, Trajectories) BY EmptyMap
<1>9. e \in Editors BY <1>3, <1>5, <1>8 DEF Editors
<1>10. /\ e.requests = Empty /\ e.trajs = Empty /\ e.scene = view /\ e.objects = ed.objects
       /\ e.markers = ed.markers /\ e.live = ed.live /\ e.registry = ed.registry
       /\ e.robot = ed.robot
  BY <1>3 DEF Editors
<1> HIDE DEF e
<1>11. TInv' BY <1>1, <1>6, <1>7, <1>9 DEF IInv, TInv
<1>12. RInv'
  <2>1. Null(e) BY <1>10, NothingIsEmpty DEF Null
  <2>2. StatesOwned(e) /\ Shown(e) BY <1>3, <1>10, <2>1, NullIsOwned DEF StatesOwned
  <2>3. NInv' BY <1>1, <1>3, <1>6, <1>7, <1>10, NothingIsEmpty DEF IInv, RInv, NInv
  <2> QED BY <1>7, <2>2, <2>3 DEF RInv
<1>13. CInv' BY <1>1, <1>6 DEF IInv, CInv
<1>14. Marked(ed)' /\ Calm(ed)' BY <1>1, <1>3, <1>7, <1>10 DEF Marked, Calm
<1>15. CallInv' /\ DialogInv'
  BY <1>1, <1>6, <1>7, <1>10 DEF IInv, OInv, CallInv, DialogInv
<1>16. LInv' BY <1>5, <1>7, <1>10 DEF LInv
<1>17. AInv' BY <1>1, <1>2 DEF AInv, Regular
<1> QED BY <1>11, <1>12, <1>13, <1>14, <1>15, <1>16, <1>17 DEF IInv, OInv

\* The scene that is loaded, up to the first of its attached objects.
LEMMA LoadedFacts ==
    ASSUME IInv, Idle, NEW emptied, NEW view,
           view = [BlankScene(mode.stored.robot) EXCEPT !.coll = mode.stored.coll,
                                                         !.att = mode.stored.att,
                                                         !.acm = mode.stored.acm],
           emptied = Emptied(ed, view)
    PROVE  LET d == SelectableAll(emptied, mode.stored.coll) IN
           /\ d \in Editors /\ d.requests = Empty /\ d.trajs = Empty /\ d.robot = ed.robot
           /\ IsFiniteSet(d.live) /\ d.registry = {} /\ ~d.scene.sent
           /\ d.scene.acm = mode.stored.acm
           /\ DOMAIN d.objects = mode.stored.coll
           /\ \A o \in DOMAIN d.objects : d.objects[o] = Free
           /\ \A o \in (Objects \ mode.own) \ DOMAIN d.objects : ~Visible(d.markers[o])
<1>1. /\ mode \in Modes /\ ed \in Editors /\ IsFiniteSet(ed.live) /\ Marked(ed)
      /\ mode.own \subseteq Objects
  BY ObjectsIdle, ModeFacts
<1> DEFINE stored == mode.stored
<1>2. /\ stored.coll \in SUBSET Objects /\ stored.acm \in MapsOf(Objects, SUBSET Links)
      /\ stored.robot \in Poses /\ stored.att \in MapsOf(Objects, SUBSET DOMAIN LinksOf)
  <2>1. /\ stored.coll \in SUBSET Objects /\ stored.acm \in MapsOf(Objects, SUBSET Links)
        /\ stored.robot \in Poses /\ stored.att \in MapsOf(Objects, SUBSET Links)
        /\ DOMAIN stored.att \subseteq Objects
        /\ \A o \in DOMAIN stored.att : stored.att[o] \in SUBSET Links
    BY <1>1, StoredFacts
  <2>2. stored.att \in [DOMAIN stored.att -> SUBSET Links] BY <2>1, MapsIn
  <2>3. stored.att \in [DOMAIN stored.att -> SUBSET DOMAIN LinksOf] BY <2>2, LinksAreNames
  <2>4. stored.att \in MapsOf(Objects, SUBSET DOMAIN LinksOf) BY <2>1, <2>3, MapsIn
  <2> QED BY <2>1, <2>4
<1> HIDE DEF stored
<1>3. view \in Scenes /\ ~view.sent /\ view.acm = stored.acm
  <2> DEFINE blank == BlankScene(stored.robot)
  <2>1. blank \in Scenes /\ ~blank.sent BY <1>2, BlankSceneFacts
  <2>2. view = [blank EXCEPT !.coll = stored.coll, !.att = stored.att, !.acm = stored.acm]
    BY DEF stored
  <2> HIDE DEF blank
  <2> QED BY <1>2, <2>1, <2>2 DEF Scenes
<1>4. /\ emptied \in Editors /\ emptied.objects = Empty /\ emptied.requests = Empty
      /\ emptied.trajs = Empty /\ emptied.scene = view /\ emptied.robot = ed.robot
      /\ emptied.live \subseteq ed.live /\ emptied.registry = {}
      /\ \A o \in Objects \ mode.own : ~Visible(emptied.markers[o])
  BY <1>1, <1>3, EmptiedFacts
<1> DEFINE d == SelectableAll(emptied, stored.coll)
<1>5. /\ d \in Editors /\ SameArm(d, emptied) /\ d.scene = emptied.scene
      /\ DOMAIN d.objects = DOMAIN emptied.objects \cup stored.coll
      /\ \A o \in stored.coll : d.objects[o] = Free
      /\ \A o \in Objects \ stored.coll : d.markers[o] = emptied.markers[o]
  BY <1>2, <1>4, SelectableAllFacts
<1> HIDE DEF d
<1>6. DOMAIN d.objects = stored.coll BY <1>4, <1>5, NothingIsEmpty
<1>7. /\ d.requests = Empty /\ d.trajs = Empty /\ d.robot = ed.robot /\ d.registry = {}
      /\ IsFiniteSet(d.live)
  BY <1>1, <1>4, <1>5, FS_Subset DEF SameArm
<1>8. \A o \in (Objects \ mode.own) \ DOMAIN d.objects : ~Visible(d.markers[o])
  BY <1>4, <1>5, <1>6
<1> QED BY <1>3, <1>4, <1>5, <1>6, <1>7, <1>8 DEF d, stored

LEMMA LoadSceneKeeps == IInv /\ LoadScene => IInv'
<1> SUFFICES ASSUME IInv, LoadScene PROVE IInv' OBVIOUS
<1>1. left' \in 0 .. mode.steps /\ mode' = mode /\ dialog' = dialog /\ dialog' \in Names
  BY Counted DEF IInv, LoadScene, TInv
<1>2. Idle BY DEF LoadScene
<1> DEFINE stored == mode.stored
           view == [BlankScene(mode.stored.robot) EXCEPT !.coll = mode.stored.coll,
                                                          !.att = mode.stored.att,
                                                          !.acm = mode.stored.acm]
           emptied == Emptied(ed, view)
           listed == SelectableAll(emptied, mode.stored.coll)
<1>3. PICK rest \in {<<"shown">>, <<"requests", "shown">>} :
          IF DOMAIN mode.stored.att = {}
          THEN /\ ed' = listed /\ UNCHANGED crashed
               /\ call' = [NoCall EXCEPT !.by = "qt", !.todo = rest]
          ELSE IF ed.robot = NoRobot
          THEN crashed' = TRUE /\ UNCHANGED <<ed, call>>
          ELSE \E o \in DOMAIN mode.stored.att, link \in Links :
                   /\ link \in mode.stored.att[o]
                   /\ Send(Attaching(Selectable(listed, o, FALSE), o, link, mode.stored.att[o]),
                           "qt", o, <<"attached", "second">> \o rest)
  BY DEF LoadScene
<1>4. /\ listed \in Editors /\ listed.requests = Empty /\ listed.trajs = Empty
      /\ listed.robot = ed.robot /\ IsFiniteSet(listed.live) /\ listed.registry = {}
      /\ ~listed.scene.sent /\ listed.scene.acm = stored.acm
      /\ DOMAIN listed.objects = stored.coll
      /\ \A o \in DOMAIN listed.objects : listed.objects[o] = Free
      /\ \A o \in (Objects \ mode.own) \ DOMAIN listed.objects : ~Visible(listed.markers[o])
  <2> HIDE DEF view, emptied
  <2>1. emptied = Emptied(ed, view) BY DEF emptied
  <2>2. view = [BlankScene(mode.stored.robot) EXCEPT !.coll = mode.stored.coll,
                                                      !.att = mode.stored.att,
                                                      !.acm = mode.stored.acm]
    BY DEF view
  <2> QED BY <1>2, <2>1, <2>2, LoadedFacts
<1> HIDE DEF listed, emptied, view
<1>5. /\ mode \in Modes /\ mode.own \subseteq Objects /\ ed \in Editors
      /\ (~mode.fails => ed.robot # NoRobot) /\ ~call.awaits
      /\ stored.coll \in SUBSET Objects /\ DOMAIN stored.att \subseteq Objects
      /\ \A o \in DOMAIN stored.att : stored.att[o] \in SUBSET Links
      /\ stored.acm \in MapsOf(Objects, SUBSET Links)
  BY <1>2, ObjectsIdle, IdleFacts, ModeFacts, StoredFacts
\* What was saved tells who may touch what is attached.
<1>6. Regular => \A o \in DOMAIN stored.acm : o \notin DOMAIN stored.att => stored.acm[o] = {}
  <2>1. \/ mode.allowed
        \/ \A o \in DOMAIN mode.stored.acm : mode.stored.acm[o] =
               IF o \in DOMAIN mode.stored.att THEN Expanded(mode.stored.att[o]) ELSE {}
    BY <1>5, ModesAssumption
  <2> QED BY <2>1 DEF Regular
<1>7. CASE DOMAIN stored.att = {}
  <2>1. /\ ed' = listed /\ UNCHANGED crashed
        /\ call' = [NoCall EXCEPT !.by = "qt", !.todo = rest]
    BY <1>3, <1>7
  <2>2. /\ DOMAIN call' = CallFields /\ call'.awaits = FALSE /\ call'.todo = rest
        /\ call'.acm = Empty
    BY <2>1 DEF NoCall, CallFields
  <2>3. rest \in Todos \ (Pendings \cup Forgets) BY <1>3, TodoKinds
  <2>4. TInv'
    <3>1. Empty \in MapsOf(Objects, SUBSET Links) BY EmptyMap
    <3> QED BY <1>1, <1>4, <2>1, <2>2, <2>3, <3>1 DEF IInv, TInv
  <2>5. RInv'
    <3>1. Null(listed) BY <1>4, NothingIsEmpty DEF Null
    <3>2. StatesOwned(listed) /\ Shown(listed)
      <4>1. listed.registry \subseteq listed.live BY <1>4
      <4> QED BY <1>4, <3>1, <4>1, NullIsOwned
    <3>3. NInv' BY <1>1, <1>4, <1>5, <2>1, <2>2, NothingIsEmpty DEF NInv
    <3> QED BY <2>1, <3>2, <3>3 DEF RInv
  <2>6. CInv' BY <1>1, <2>1 DEF IInv, CInv
  <2>7. Marked(ed)' BY <1>1, <1>4, <2>1, EntryTypes DEF Marked
  <2>8. Calm(ed)' BY <1>4, <2>1, EntryTypes DEF Calm
  <2>9. CallInv' BY <2>2, <2>3 DEF CallInv
  <2>10. DialogInv' BY <1>4, <2>1, EntryTypes DEF DialogInv
  <2>11. LInv' BY <1>4, <2>1 DEF LInv
  <2>12. AInv'
    <3> SUFFICES ASSUME Regular PROVE AInv' BY <1>1 DEF AInv, Regular
    <3>1. Acm' = stored.acm BY <1>4, <2>1, <2>2 DEF Acm
    <3>2. \A o \in DOMAIN ed'.objects : ~ed'.objects[o].att BY <1>4, <2>1, EntryTypes
    <3>3. AttachedMayTouch' BY <3>2 DEF AttachedMayTouch
    <3>4. OthersTouchNothing' BY <1>6, <1>7, <3>1 DEF OthersTouchNothing
    <3>5. FreeAreAsked' BY <2>2 DEF FreeAreAsked
    <3>6. TakenAreFree' BY <3>2 DEF TakenAreFree
    <3>7. ~ed'.scene.sent BY <1>4, <2>1
    <3> QED BY <3>3, <3>4, <3>5, <3>6, <3>7 DEF AInv
  <2> QED BY <2>4, <2>5, <2>6, <2>7, <2>8, <2>9, <2>10, <2>11, <2>12 DEF IInv, OInv
<1>8. CASE DOMAIN stored.att # {} /\ ed.robot = NoRobot
  <2>1. crashed' = TRUE /\ UNCHANGED <<ed, call>> BY <1>3, <1>8
  <2> QED BY <1>1, <1>5, <1>8, <2>1, CrashKeeps
<1>9. CASE DOMAIN stored.att # {} /\ ed.robot # NoRobot
  <2>1. PICK o \in DOMAIN stored.att, link \in Links :
            Send(Attaching(Selectable(listed, o, FALSE), o, link, stored.att[o]),
                 "qt", o, <<"attached", "second">> \o rest)
    BY <1>3, <1>9
  <2> DEFINE touch == stored.att[o]
             todo == <<"attached", "second">> \o rest
             d == Selectable(listed, o, FALSE)
             e == Attaching(d, o, link, touch)
  <2>2. o \in Objects /\ touch \in SUBSET DOMAIN LinksOf
    BY <1>5, LinksAreNames
  <2>3. todo \in Todos /\ todo \in Pendings /\ todo \notin Forgets BY <1>3, LoadsJoin
  <2>4. Send(e, "qt", o, todo) BY <2>1
  <2> HIDE DEF touch, todo
  <2>5. /\ d \in Editors /\ SameArm(d, listed) /\ d.scene = listed.scene
        /\ DOMAIN d.objects = DOMAIN listed.objects \cup {o} /\ d.objects[o] = Free
        /\ \A p \in DOMAIN listed.objects : p # o => d.objects[p] = listed.objects[p]
        /\ d.markers = listed.markers
    <3>1. FALSE \in BOOLEAN OBVIOUS
    <3> HIDE DEF d
    <3> QED BY <1>4, <2>2, <3>1, SelectableFacts DEF d
  <2> HIDE DEF d
  <2>6. /\ e \in Editors /\ SameArm(e, d) /\ e.markers = d.markers
        /\ e.scene = d.scene /\ DOMAIN e.objects = DOMAIN d.objects
        /\ e.objects[o].att /\ e.objects[o].attach /\ e.objects[o].detach = d.objects[o].detach
        /\ \A p \in DOMAIN d.objects : p # o => e.objects[p] = d.objects[p]
    <3>1. o \in DOMAIN d.objects BY <2>5
    <3> QED BY <2>2, <2>5, <3>1, AttachingFacts
  <2> HIDE DEF e
  <2>7. /\ DOMAIN e.objects = DOMAIN listed.objects \cup {o} /\ ~e.objects[o].detach
        /\ \A p \in DOMAIN e.objects : p # o => e.objects[p] = Free
        /\ e.markers = listed.markers /\ e.scene = listed.scene
    BY <1>4, <2>5, <2>6, EntryTypes
  <2>8. IsFiniteSet(e.live) BY <1>4, <2>5, <2>6 DEF SameArm
  <2>9. Marked(e)
    <3> SUFFICES ASSUME NEW p \in Objects \ mode.own, Visible(e.markers[p])
                 PROVE  p \in DOMAIN e.objects /\ (e.objects[p].coll \/ e.objects[p].att)
      BY DEF Marked
    <3>1. p \in DOMAIN e.objects BY <1>4, <2>7
    <3>2. CASE p = o BY <2>6, <3>1, <3>2
    <3>3. CASE p # o BY <2>7, <3>1, <3>3, EntryTypes
    <3> QED BY <3>2, <3>3
  <2>10. \A p \in DOMAIN e.objects : p # o => ~e.objects[p].att /\ ~e.objects[p].attach /\ ~e.objects[p].detach
    BY <2>7, EntryTypes
  <2>11. Regular => \A p \in DOMAIN e.scene.acm :
                        ~(p \in DOMAIN e.objects /\ e.objects[p].att) => e.scene.acm[p] = {}
    <3> SUFFICES ASSUME Regular, NEW p \in DOMAIN stored.acm,
                        ~(p \in DOMAIN e.objects /\ e.objects[p].att)
                 PROVE  stored.acm[p] = {}
      BY <1>4, <2>7
    <3>1. p # o BY <2>6, <2>7
    <3>2. p \notin DOMAIN stored.att BY <2>1, <3>1 DEF Regular
    <3> QED BY <1>6, <3>2
  <2>12. Listable(e) BY <2>6, <2>7, <2>10, <2>11 DEF Listable
  <2>13. Remembers(e, o, todo) BY <2>2, <2>3, <2>6, <2>7, <2>10 DEF Remembers
  <2> QED BY <1>1, <2>3, <2>4, <2>6, <2>8, <2>9, <2>12, <2>13, SendKeeps
<1> QED BY <1>7, <1>8, <1>9

-----------------------------------------------------------------------------
(* The arm's operations keep the invariant *)

\* A pointer that is NULL is followed where an answer was lost or a thread awaits one.
LEMMA NullCrashKeeps ==
    ASSUME IInv, NEW by, Reaches(by), User, Crash,
           \/ ed.robot = NoRobot
           \/ \E r \in DOMAIN ed.requests, end \in Ends : ed.requests[r].state[end] = NoState
    PROVE  IInv'
<1>1. left' \in 0 .. mode.steps /\ mode' = mode BY Counted DEF IInv
<1>2. mode.fails \/ mode.crosses
  <2>1. CASE Idle BY <2>1, IdleFacts
  <2>2. CASE ~Idle BY <2>2, ReachesFacts
  <2> QED BY <2>1, <2>2
<1> QED BY <1>1, <1>2, CrashKeeps DEF Crash

\* What an operation on the request or its trajectories edits.
LEMMA ArmEditKeeps ==
    ASSUME IInv, Idle, User, NEW e \in Editors, SameScene(e, ed), StatesOwned(e), Edits(e),
           ~mode.unlucky => Shown(e),
           ~mode.fails => \A r \in DOMAIN e.requests, end \in Ends :
                              e.requests[r].state[end] # NoState
    PROVE  IInv'
<1>1. left' \in 0 .. mode.steps /\ mode' = mode BY Counted DEF IInv
<1>2. /\ ed' = e /\ UNCHANGED <<call, dialog, crashed>> BY DEF Edits
<1>3. SameObjects(ed', ed) BY <1>2, SameScenes
<1>4. ~call.awaits /\ (~mode.fails => ed.robot # NoRobot) BY IdleFacts
<1>5. NInv' BY <1>1, <1>2, <1>4 DEF NInv, SameScene
<1> QED BY <1>1, <1>2, <1>3, <1>5, ArmStepKeeps

\* The editor e with the request x instead.
Instead(e, r, x) == [e EXCEPT !.requests = [e.requests EXCEPT ![r] = x]]

LEMMA RequestIsKept ==
    ASSUME NEW e \in Editors, StatesOwned(e), NEW r \in DOMAIN e.requests, NEW x \in Requests,
           x.state = e.requests[r].state,
           \A end \in Ends : x.state[end] # NoState => x.shown[end] \in Poses
    PROVE  /\ Instead(e, r, x) \in Editors /\ SameScene(Instead(e, r, x), e)
           /\ StatesOwned(Instead(e, r, x))
           /\ DOMAIN Instead(e, r, x).requests = {r} /\ Instead(e, r, x).requests[r] = x
<1>1. /\ e.requests \in MapsOf({1}, Requests) /\ DOMAIN e.requests = {r} BY EditorFields
<1> DEFINE requests == [e.requests EXCEPT ![r] = x]
           d == [e EXCEPT !.requests = requests]
<1>8. Instead(e, r, x) = d BY DEF Instead
<1>2. requests \in MapsOf({1}, Requests) BY <1>1, MapsIn
<1>3. DOMAIN requests = {r} /\ requests[r] = x BY <1>1, MapsIn
<1> HIDE DEF requests
<1>4. d \in Editors BY <1>2 DEF Editors
<1>5. /\ SameScene(d, e) /\ d.requests = requests /\ d.trajs = e.trajs /\ d.live = e.live
      /\ d.registry = e.registry
  BY DEF Editors, SameScene
<1> HIDE DEF d
<1>6. EndsOwned(d) BY <1>1, <1>3, <1>5 DEF StatesOwned, EndsOwned
<1>7. TrajsOwned(d) BY <1>1, <1>3, <1>5 DEF StatesOwned, TrajsOwned
<1> QED BY <1>3, <1>4, <1>5, <1>6, <1>7, <1>8 DEF StatesOwned

\* The request q with its end at p, planned with as planned and good as good says.
Posed(q, end, p, planned, good) ==
    [q EXCEPT !.shown = [q.shown EXCEPT ![end] = p], !.planned = planned, !.good = good]

LEMMA PosedRequest ==
    ASSUME NEW q \in Requests, NEW end \in Ends, NEW p \in Poses, NEW planned \in [Ends -> Poses],
           NEW good \in [Ends -> BOOLEAN]
    PROVE  LET x == Posed(q, end, p, planned, good) IN
           /\ x \in Requests /\ x.state = q.state /\ x.shown[end] = p
           /\ \A o \in Ends \ {end} : x.shown[o] = q.shown[o]
           /\ x.planned = planned /\ x.good = good
<1> DEFINE shown == [q.shown EXCEPT ![end] = p]
<1>1. q.shown \in [Ends -> Poses \cup {NoRobot}] BY RequestFields
<1>2. /\ shown \in [Ends -> Poses \cup {NoRobot}] /\ shown[end] = p
      /\ \A o \in Ends \ {end} : shown[o] = q.shown[o]
  BY <1>1
<1> DEFINE x == [q EXCEPT !.shown = shown, !.planned = planned, !.good = good]
<1>3. Posed(q, end, p, planned, good) = x BY DEF Posed
<1> HIDE DEF shown
<1>4. /\ x \in Requests /\ x.state = q.state /\ x.shown = shown /\ x.planned = planned
      /\ x.good = good
  BY <1>2 DEF Requests
<1> QED BY <1>2, <1>3, <1>4

\* An end that has a state is set to a pose.  It is planned with, or is not good.
LEMMA PosedKeeps ==
    ASSUME IInv, Idle, User, NEW r \in DOMAIN ed.requests, NEW end \in Ends, NEW p \in Poses,
           ed.requests[r].state[end] # NoState,
           NEW planned \in [Ends -> Poses], NEW good \in [Ends -> BOOLEAN],
           \A o \in Ends \ {end} : /\ planned[o] = ed.requests[r].planned[o]
                                   /\ good[o] = ed.requests[r].good[o],
           good[end] /\ ~mode.unlucky => planned[end] = p,
           Edits(Instead(ed, r, Posed(ed.requests[r], end, p, planned, good)))
    PROVE  IInv'
<1> DEFINE q == ed.requests[r]
           x == Posed(q, end, p, planned, good)
           e == Instead(ed, r, x)
<1>1. ed \in Editors /\ StatesOwned(ed) /\ (~mode.unlucky => Shown(ed))
  BY ObjectsIdle DEF IInv, RInv
<1>2. q \in Requests BY <1>1, EditorFields
<1>3. /\ x \in Requests /\ x.state = q.state /\ x.shown[end] = p
      /\ \A o \in Ends \ {end} : x.shown[o] = q.shown[o]
      /\ x.planned = planned /\ x.good = good
  <2> HIDE DEF q
  <2> QED BY <1>2, PosedRequest
<1>4. Edits(e) OBVIOUS
<1> HIDE DEF x
<1>5. \A o \in Ends : x.state[o] # NoState => x.shown[o] \in Poses
  BY <1>1, <1>3 DEF StatesOwned, EndsOwned
<1>6. /\ e \in Editors /\ SameScene(e, ed) /\ StatesOwned(e)
      /\ DOMAIN e.requests = {r} /\ e.requests[r] = x
  BY <1>1, <1>3, <1>5, RequestIsKept
<1> HIDE DEF e
<1>8. ~mode.unlucky => Shown(e)
  <2> SUFFICES ASSUME ~mode.unlucky, NEW o \in Ends, x.good[o], x.state[o] # NoState
               PROVE  x.shown[o] = x.planned[o]
    BY <1>6 DEF Shown
  <2>1. CASE o = end BY <1>3, <2>1
  <2>2. CASE o # end BY <1>1, <1>3, <2>2 DEF Shown
  <2> QED BY <2>1, <2>2
<1>9. ~mode.fails => \A n \in DOMAIN e.requests, o \in Ends : e.requests[n].state[o] # NoState
  BY <1>3, <1>6, IdleFacts
<1> QED BY <1>4, <1>6, <1>8, <1>9, ArmEditKeeps

LEMMA DragEndKeeps == IInv /\ DragEnd => IInv'
<1> SUFFICES ASSUME IInv, DragEnd PROVE IInv' OBVIOUS
<1>1. Reaches("spin") /\ User BY DEF DragEnd
<1>2. PICK r \in DOMAIN ed.requests, end \in Ends, p \in Poses :
          IF ed.requests[r].state[end] = NoState THEN Crash
          ELSE LET moved == [ed EXCEPT !.requests[r].shown[end] = p] IN
               \/ Edits([moved EXCEPT !.requests[r].planned[end] = p,
                                      !.requests[r].good[end] = TRUE])
               \/ Edits([moved EXCEPT !.requests[r].good[end] = FALSE])
  BY DEF DragEnd
<1>3. CASE ed.requests[r].state[end] = NoState
  BY <1>1, <1>2, <1>3, NullCrashKeeps
<1>4. CASE ed.requests[r].state[end] # NoState
  <2>1. Idle BY <1>1, <1>4, ReachesFacts
  <2>2. ed \in Editors BY <2>1, ObjectsIdle
  <2> DEFINE q == ed.requests[r]
  <2>3. /\ q \in Requests /\ q.planned \in [Ends -> Poses] /\ q.good \in [Ends -> BOOLEAN]
        /\ ed.requests \in [DOMAIN ed.requests -> Requests]
    BY <2>2, EditorFields, RequestFields, MapsIn
  <2> DEFINE planned == [q.planned EXCEPT ![end] = p]
             good == [q.good EXCEPT ![end] = TRUE]
             bad == [q.good EXCEPT ![end] = FALSE]
  <2>4. /\ planned \in [Ends -> Poses] /\ planned[end] = p
        /\ \A o \in Ends \ {end} : planned[o] = q.planned[o]
        /\ good \in [Ends -> BOOLEAN] /\ bad \in [Ends -> BOOLEAN] /\ ~bad[end]
        /\ \A o \in Ends \ {end} : good[o] = q.good[o] /\ bad[o] = q.good[o]
    BY <2>3
  <2> DEFINE moved == [ed EXCEPT !.requests[r].shown[end] = p]
             solved == [moved EXCEPT !.requests[r].planned[end] = p,
                                     !.requests[r].good[end] = TRUE]
             unsolved == [moved EXCEPT !.requests[r].good[end] = FALSE]
  <2>5. solved = Instead(ed, r, Posed(q, end, p, planned, good))
    BY <2>2, <2>3 DEF Instead, Posed, Editors, Requests
  <2>6. unsolved = Instead(ed, r, Posed(q, end, p, q.planned, bad))
    BY <2>2, <2>3 DEF Instead, Posed, Editors, Requests
  <2>7. Edits(solved) \/ Edits(unsolved) BY <1>2, <1>4
  <2> HIDE DEF planned, good, bad, moved, solved, unsolved
  <2> DEFINE same == q.planned
  <2>10. /\ same \in [Ends -> Poses] /\ unsolved = Instead(ed, r, Posed(q, end, p, same, bad))
         /\ \A o \in Ends \ {end} : same[o] = q.planned[o] /\ bad[o] = q.good[o]
         /\ bad[end] /\ ~mode.unlucky => same[end] = p
    BY <2>3, <2>4, <2>6
  <2> HIDE DEF same
  <2>8. CASE Edits(solved)
    BY <1>1, <1>4, <2>1, <2>3, <2>4, <2>5, <2>8, PosedKeeps
  <2>9. CASE Edits(unsolved)
    <3>1. Edits(Instead(ed, r, Posed(ed.requests[r], end, p, same, bad))) BY <2>9, <2>10
    <3>2. \A o \in Ends \ {end} : /\ same[o] = ed.requests[r].planned[o]
                                   /\ bad[o] = ed.requests[r].good[o]
      BY <2>10
    <3>3. same \in [Ends -> Poses] /\ bad \in [Ends -> BOOLEAN] BY <2>4, <2>10
    <3>4. bad[end] /\ ~mode.unlucky => same[end] = p BY <2>10
    <3> QED BY <1>1, <1>4, <2>1, <3>1, <3>2, <3>3, <3>4, PosedKeeps
  <2> QED BY <2>7, <2>8, <2>9
<1> QED BY <1>3, <1>4

\* An end is set to a pose and planned with it, as good as it was.
LEMMA PlannedKeeps ==
    ASSUME IInv, Idle, User, NEW r \in DOMAIN ed.requests, NEW end \in Ends, NEW p \in Poses,
           ed.requests[r].state[end] # NoState,
           Edits([ed EXCEPT !.requests[r].shown[end] = p, !.requests[r].planned[end] = p])
    PROVE  IInv'
<1> DEFINE q == ed.requests[r]
           planned == [q.planned EXCEPT ![end] = p]
           good == q.good
           e == [ed EXCEPT !.requests[r].shown[end] = p, !.requests[r].planned[end] = p]
<1>1. ed \in Editors BY ObjectsIdle
<1>2. /\ q \in Requests /\ q.planned \in [Ends -> Poses] /\ q.good \in [Ends -> BOOLEAN]
      /\ ed.requests \in [DOMAIN ed.requests -> Requests]
  BY <1>1, EditorFields, RequestFields, MapsIn
<1>3. e = Instead(ed, r, Posed(q, end, p, planned, good))
  BY <1>1, <1>2 DEF Instead, Posed, Editors, Requests
<1>4. /\ planned \in [Ends -> Poses] /\ planned[end] = p /\ good \in [Ends -> BOOLEAN]
      /\ \A o \in Ends \ {end} : planned[o] = q.planned[o] /\ good[o] = q.good[o]
  BY <1>2
<1>5. Edits(e) OBVIOUS
<1> HIDE DEF planned, good, e
<1>6. Edits(Instead(ed, r, Posed(ed.requests[r], end, p, planned, good))) BY <1>3, <1>5
<1>7. \A o \in Ends \ {end} : /\ planned[o] = ed.requests[r].planned[o]
                              /\ good[o] = ed.requests[r].good[o]
  BY <1>4
<1> QED BY <1>4, <1>6, <1>7, PosedKeeps

LEMMA MapFromRobotKeeps == IInv /\ MapFromRobot => IInv'
<1> SUFFICES ASSUME IInv, MapFromRobot PROVE IInv' OBVIOUS
<1>1. Reaches("spin") /\ User BY DEF MapFromRobot
<1>2. PICK r \in DOMAIN ed.requests, end \in Ends :
          IF NoState = ed.requests[r].state[end] \/ ed.robot = NoRobot THEN Crash
          ELSE Edits([ed EXCEPT !.requests[r].shown[end] = ed.robot,
                                !.requests[r].planned[end] = ed.robot])
  BY DEF MapFromRobot
<1>3. CASE NoState = ed.requests[r].state[end] \/ ed.robot = NoRobot
  <2>1. Crash BY <1>2, <1>3
  <2> QED BY <1>1, <1>3, <2>1, NullCrashKeeps
<1>4. CASE NoState # ed.requests[r].state[end] /\ ed.robot # NoRobot
  <2>1. Idle BY <1>1, <1>4, ReachesFacts
  <2>2. ed.robot \in Poses BY <1>4, <2>1, ObjectsIdle, EditorFields
  <2>3. Edits([ed EXCEPT !.requests[r].shown[end] = ed.robot,
                         !.requests[r].planned[end] = ed.robot])
    BY <1>2, <1>4
  <2> DEFINE p == ed.robot
  <2>4. /\ p \in Poses
        /\ Edits([ed EXCEPT !.requests[r].shown[end] = p, !.requests[r].planned[end] = p])
    BY <2>2, <2>3
  <2> HIDE DEF p
  <2> QED BY <1>1, <1>4, <2>1, <2>4, PlannedKeeps
<1> QED BY <1>3, <1>4

LEMMA DragJointKeeps == IInv /\ DragJoint => IInv'
<1> SUFFICES ASSUME IInv, DragJoint PROVE IInv' OBVIOUS
<1>1. Idle /\ User BY DEF DragJoint
<1>2. PICK r \in DOMAIN ed.requests, end \in Ends, p \in Poses :
          /\ ed.requests[r].state[end] # NoState
          /\ Edits([ed EXCEPT !.requests[r].shown[end] = p, !.requests[r].planned[end] = p])
  BY DEF DragJoint
<1> QED BY <1>1, <1>2, PlannedKeeps

LEMMA PerturbKeeps == IInv /\ Perturb => IInv'
<1> SUFFICES ASSUME IInv, Perturb PROVE IInv' OBVIOUS
<1>1. Idle /\ User /\ Reaches("spin") BY DEF Perturb, Reaches
<1>2. PICK r \in DOMAIN ed.requests, end \in Ends, p \in Poses :
          IF ed.requests[r].state[end] = NoState THEN Crash
          ELSE LET moved == [ed EXCEPT !.requests[r].shown[end] = p] IN
               \/ Edits([moved EXCEPT !.requests[r].planned[end] = p,
                                      !.requests[r].good[end] = TRUE])
               \/ mode.unlucky /\ Edits(moved)
  BY DEF Perturb
<1>3. CASE ed.requests[r].state[end] = NoState
  BY <1>1, <1>2, <1>3, NullCrashKeeps
<1>4. CASE ed.requests[r].state[end] # NoState
  <2>2. ed \in Editors BY <1>1, ObjectsIdle
  <2> DEFINE q == ed.requests[r]
  <2>3. /\ q \in Requests /\ q.planned \in [Ends -> Poses] /\ q.good \in [Ends -> BOOLEAN]
        /\ ed.requests \in [DOMAIN ed.requests -> Requests]
    BY <2>2, EditorFields, RequestFields, MapsIn
  <2> DEFINE planned == [q.planned EXCEPT ![end] = p]
             good == [q.good EXCEPT ![end] = TRUE]
             same == q.planned
             stays == q.good
             moved == [ed EXCEPT !.requests[r].shown[end] = p]
             solved == [moved EXCEPT !.requests[r].planned[end] = p,
                                     !.requests[r].good[end] = TRUE]
  <2>4. /\ planned \in [Ends -> Poses] /\ planned[end] = p /\ good \in [Ends -> BOOLEAN]
        /\ \A o \in Ends \ {end} : planned[o] = q.planned[o] /\ good[o] = q.good[o]
        /\ same \in [Ends -> Poses] /\ stays \in [Ends -> BOOLEAN]
        /\ \A o \in Ends \ {end} : same[o] = q.planned[o] /\ stays[o] = q.good[o]
    BY <2>3
  <2>5. solved = Instead(ed, r, Posed(q, end, p, planned, good))
    BY <2>2, <2>3 DEF Instead, Posed, Editors, Requests
  <2>6. moved = Instead(ed, r, Posed(q, end, p, same, stays))
    BY <2>2, <2>3 DEF Instead, Posed, Editors, Requests
  <2>7. Edits(solved) \/ (mode.unlucky /\ Edits(moved)) BY <1>2, <1>4
  <2> HIDE DEF planned, good, same, stays, moved, solved
  <2>8. CASE Edits(solved)
    <3>1. Edits(Instead(ed, r, Posed(ed.requests[r], end, p, planned, good))) BY <2>5, <2>8
    <3>2. \A o \in Ends \ {end} : /\ planned[o] = ed.requests[r].planned[o]
                                  /\ good[o] = ed.requests[r].good[o]
      BY <2>4
    <3> QED BY <1>1, <1>4, <2>4, <3>1, <3>2, PosedKeeps
  <2>9. CASE mode.unlucky /\ Edits(moved)
    <3>1. Edits(Instead(ed, r, Posed(ed.requests[r], end, p, same, stays))) BY <2>6, <2>9
    <3>2. \A o \in Ends \ {end} : /\ same[o] = ed.requests[r].planned[o]
                                  /\ stays[o] = ed.requests[r].good[o]
      BY <2>4
    <3> QED BY <1>1, <1>4, <2>4, <2>9, <3>1, <3>2, PosedKeeps
  <2> QED BY <2>7, <2>8, <2>9
<1> QED BY <1>3, <1>4

LEMMA JointStatesKeeps == IInv /\ JointStates => IInv'
<1> SUFFICES ASSUME IInv, JointStates PROVE IInv' OBVIOUS
<1>1. Idle /\ UNCHANGED <<call, dialog, crashed, left, mode>> BY DEF JointStates
<1>2. PICK p \in Poses : ed' = [ed EXCEPT !.robot = p, !.values = p] BY DEF JointStates
<1>3. ed \in Editors /\ ~call.awaits BY <1>1, ObjectsIdle
<1>4. /\ ed' \in Editors /\ ed'.robot = p /\ ed'.scene = ed.scene
      /\ ed'.requests = ed.requests /\ ed'.trajs = ed.trajs /\ ed'.live = ed.live
      /\ ed'.registry = ed.registry /\ ed'.objects = ed.objects /\ ed'.markers = ed.markers
      /\ ed'.newest = ed.newest
  BY <1>2, <1>3 DEF Editors
<1>5. SameObjects(ed', ed) BY <1>4 DEF SameObjects
<1>6. StatesOwned(ed') /\ (~mode.unlucky => Shown(ed'))
  BY <1>4 DEF IInv, RInv, StatesOwned, EndsOwned, TrajsOwned, Shown
<1>7. NInv' BY <1>1, <1>3, <1>4, NoRobotAssumption DEF IInv, RInv, NInv
<1>8. left' \in 0 .. mode.steps BY <1>1 DEF IInv, TInv
<1> QED BY <1>1, <1>4, <1>5, <1>6, <1>7, <1>8, ArmStepKeeps

\* The request stays as it is while its trajectories are played, made or deleted.
LEMMA TrajectoryKeeps ==
    ASSUME IInv, Idle, User, NEW e \in Editors, SameScene(e, ed), StatesOwned(e),
           e.requests = ed.requests, Edits(e)
    PROVE  IInv'
<1>1. ~mode.unlucky => Shown(e) BY DEF IInv, RInv, Shown
<1>2. ~mode.fails => \A r \in DOMAIN e.requests, end \in Ends :
                         e.requests[r].state[end] # NoState
  BY IdleFacts
<1> QED BY <1>1, <1>2, ArmEditKeeps

LEMMA PlayKeeps == IInv /\ Play => IInv'
<1> SUFFICES ASSUME IInv, Play PROVE IInv' OBVIOUS
<1>1. Idle /\ User /\ Reaches("spin") BY DEF Play, Reaches
<1>2. PICK t \in DOMAIN ed.trajs :
          IF ed.robot = NoRobot /\ ed.trajs[t].size > 0 THEN Crash ELSE Edits(Played(ed, t))
  BY DEF Play
<1>3. CASE ed.robot = NoRobot /\ ed.trajs[t].size > 0
  <2>1. Crash BY <1>2, <1>3
  <2> QED BY <1>1, <1>3, <2>1, NullCrashKeeps
<1>4. CASE ~(ed.robot = NoRobot /\ ed.trajs[t].size > 0)
  <2> DEFINE e == Played(ed, t)
  <2>1. Edits(e) BY <1>2, <1>4
  <2>2. ed \in Editors /\ StatesOwned(ed) BY <1>1, ObjectsIdle
  <2>3. e \in Editors /\ SameScene(e, ed) /\ e.requests = ed.requests /\ StatesOwned(e)
    BY <2>2, PlayedFacts
  <2> HIDE DEF e
  <2> QED BY <1>1, <2>1, <2>3, TrajectoryKeeps
<1> QED BY <1>3, <1>4

LEMMA PlanOrFilterKeeps == IInv /\ PlanOrFilter => IInv'
<1> SUFFICES ASSUME IInv, PlanOrFilter PROVE IInv' OBVIOUS
<1>1. Idle /\ User /\ Reaches("spin") BY DEF PlanOrFilter, Reaches
<1>2. PICK t \in Trajs \ DOMAIN ed.trajs, n \in mode.sizes, timed \in BOOLEAN :
          IF ed.robot = NoRobot /\ (timed \/ n > 0) THEN Crash
          ELSE Edits(Played([ed EXCEPT !.trajs = With(@, t, NewTrajectory(n, timed))], t))
  BY DEF PlanOrFilter
<1>3. CASE ed.robot = NoRobot /\ (timed \/ n > 0)
  <2>1. Crash BY <1>2, <1>3
  <2> QED BY <1>1, <1>3, <2>1, NullCrashKeeps
<1>4. CASE ~(ed.robot = NoRobot /\ (timed \/ n > 0))
  <2>1. /\ ed \in Editors /\ StatesOwned(ed) /\ mode \in Modes /\ n \in Nat
        /\ ed.trajs \in MapsOf(Trajs, Trajectories)
    BY <1>1, ObjectsIdle, ModeFacts, EditorFields
  <2> DEFINE x == NewTrajectory(n, timed)
             trajs == With(ed.trajs, t, x)
             made == [ed EXCEPT !.trajs = trajs]
             e == Played(made, t)
  <2>2. x \in Trajectories /\ x.state = NoState BY <2>1, NewTrajectoryFacts
  <2>3. Edits(e) BY <1>2, <1>4
  <2> HIDE DEF x
  <2>4. /\ trajs \in MapsOf(Trajs, Trajectories) /\ DOMAIN trajs = DOMAIN ed.trajs \cup {t}
        /\ trajs[t] = x /\ \A u \in DOMAIN ed.trajs : u # t => trajs[u] = ed.trajs[u]
    <3> DEFINE f == ed.trajs
               g == With(f, t, x)
    <3>1. f \in MapsOf(Trajs, Trajectories) BY <2>1
    <3> HIDE DEF f
    <3>2. /\ g \in MapsOf(Trajs, Trajectories) /\ DOMAIN g = DOMAIN f \cup {t}
          /\ g[t] = x /\ \A u \in DOMAIN f : u # t => g[u] = f[u]
      BY <2>2, <3>1, MapWith
    <3> HIDE DEF g
    <3> QED BY <3>2 DEF f, g
  <2> HIDE DEF trajs, e
  <2>5. made \in Editors BY <2>1, <2>4 DEF Editors
  <2>6. /\ SameScene(made, ed) /\ made.trajs = trajs /\ made.requests = ed.requests
        /\ made.live = ed.live /\ made.registry = ed.registry
    BY <2>1 DEF Editors, SameScene
  <2> HIDE DEF made
  <2>7. StatesOwned(made)
    <3>1. EndsOwned(made) BY <2>1, <2>6 DEF StatesOwned, EndsOwned
    <3>2. TrajsOwned(made)
      <4>1. \A u \in DOMAIN trajs : u # t => u \in DOMAIN ed.trajs /\ trajs[u] = ed.trajs[u]
        BY <2>4
      <4>2. trajs[t].state = NoState BY <2>2, <2>4
      <4> QED BY <2>1, <2>6, <4>1, <4>2 DEF StatesOwned, TrajsOwned
    <3> QED BY <2>1, <2>6, <3>1, <3>2 DEF StatesOwned
  <2>8. e \in Editors /\ SameScene(e, made) /\ e.requests = made.requests /\ StatesOwned(e)
    <3>1. t \in DOMAIN made.trajs BY <2>4, <2>6
    <3> QED BY <2>5, <2>7, <3>1, PlayedFacts DEF e
  <2>9. SameScene(e, ed) BY <2>6, <2>8 DEF SameScene
  <2> QED BY <1>1, <2>3, <2>6, <2>8, <2>9, TrajectoryKeeps
<1> QED BY <1>3, <1>4

LEMMA DeleteTrajectoryKeeps == IInv /\ DeleteTrajectory => IInv'
<1> SUFFICES ASSUME IInv, DeleteTrajectory PROVE IInv' OBVIOUS
<1>1. Idle /\ User BY DEF DeleteTrajectory
<1>2. PICK t \in DOMAIN ed.trajs :
          Edits([Unheld(ed, {ed.trajs[t].state}) EXCEPT !.trajs = Without(@, {t})])
  BY DEF DeleteTrajectory
<1>3. /\ ed \in Editors /\ StatesOwned(ed) /\ ed.trajs \in MapsOf(Trajs, Trajectories)
      /\ ed.live \in States /\ ed.registry \in States
  BY <1>1, ObjectsIdle, EditorFields
<1> DEFINE R == {t}
           id == ed.trajs[t].state
           live == ed.live \ {id}
           registry == ed.registry \ {id}
           trajs == Without(ed.trajs, R)
           e == [ed EXCEPT !.live = live, !.registry = registry, !.trajs = trajs]
<1>4. Edits(e)
  <2>1. [Unheld(ed, {ed.trajs[t].state}) EXCEPT !.trajs = Without(@, {t})] = e
    BY <1>3 DEF Unheld, Editors
  <2> HIDE DEF e
  <2> QED BY <1>2, <2>1
<1> HIDE DEF R
<1>5. /\ trajs \in MapsOf(Trajs, Trajectories) /\ DOMAIN trajs = DOMAIN ed.trajs \ R
      /\ \A u \in DOMAIN ed.trajs \ R : trajs[u] = ed.trajs[u]
  <2> DEFINE f == ed.trajs
             g == Without(f, R)
  <2>1. f \in MapsOf(Trajs, Trajectories) BY <1>3
  <2> HIDE DEF f
  <2>2. DOMAIN g = DOMAIN f \ R /\ \A u \in DOMAIN f \ R : g[u] = f[u] BY DEF Without
  <2>3. DOMAIN f \subseteq Trajs /\ \A u \in DOMAIN f : f[u] \in Trajectories
    BY <2>1, MapsIn
  <2>4. g \in [DOMAIN g -> Trajectories] BY <2>3 DEF Without
  <2> HIDE DEF g
  <2>5. g \in MapsOf(Trajs, Trajectories) BY <2>2, <2>3, <2>4, MapsIn
  <2> QED BY <2>2, <2>5 DEF f, g
<1>6. /\ live \in States /\ registry \in States /\ IsFiniteSet(live) /\ registry \subseteq live
  BY <1>3, FS_Subset DEF States, StatesOwned
<1> HIDE DEF trajs
<1>7. e \in Editors
  <2> HIDE DEF live, registry
  <2> QED BY <1>3, <1>5, <1>6 DEF Editors
<1>8. /\ SameScene(e, ed) /\ e.requests = ed.requests /\ e.trajs = trajs /\ e.live = live
      /\ e.registry = registry
  <2> HIDE DEF live, registry
  <2> QED BY <1>3 DEF Editors, SameScene
<1> HIDE DEF e
<1>9. EndsOwned(e)
  <2>1. \A r \in DOMAIN ed.requests, end \in Ends :
            ed.requests[r].state[end] \in live \cup {NoState}
    BY <1>3 DEF StatesOwned, TrajsOwned, EndsOwned
  <2> QED BY <1>3, <1>8, <2>1 DEF StatesOwned, EndsOwned
<1>10. TrajsOwned(e)
  <2>1. \A u \in DOMAIN trajs : /\ u \in DOMAIN ed.trajs /\ u # t /\ trajs[u] = ed.trajs[u]
    BY <1>5 DEF R
  <2>2. \A u \in DOMAIN trajs : trajs[u].state \in live \cup {NoState}
    BY <1>3, <2>1 DEF StatesOwned, TrajsOwned
  <2> QED BY <1>3, <1>8, <2>1, <2>2 DEF StatesOwned, TrajsOwned
<1>11. StatesOwned(e) BY <1>6, <1>8, <1>9, <1>10 DEF StatesOwned
<1> QED BY <1>1, <1>4, <1>7, <1>8, <1>11, TrajectoryKeeps

LEMMA DeleteRequestKeeps == IInv /\ DeleteRequest => IInv'
<1> SUFFICES ASSUME IInv, DeleteRequest PROVE IInv' OBVIOUS
<1>1. Idle /\ User BY DEF DeleteRequest
<1>2. /\ ed \in Editors /\ StatesOwned(ed) /\ ed.live \in States /\ ed.registry \in States
  BY <1>1, ObjectsIdle, EditorFields
<1> DEFINE live == ed.live \ Held(ed)
           registry == ed.registry \ Held(ed)
           e == [ed EXCEPT !.live = live, !.registry = registry, !.requests = Empty,
                           !.trajs = Empty]
<1>3. Edits(e)
  <2>1. [Unheld(ed, Held(ed)) EXCEPT !.requests = Empty, !.trajs = Empty] = e
    BY <1>2 DEF Unheld, Editors
  <2> HIDE DEF e
  <2> QED BY <2>1 DEF DeleteRequest
<1>4. live \in States /\ registry \in States /\ IsFiniteSet(live) /\ registry \subseteq live
  BY <1>2, FS_Subset DEF States, StatesOwned
<1> HIDE DEF live, registry
<1>5. Empty \in MapsOf({1}, Requests) /\ Empty \in MapsOf(Trajs, Trajectories) BY EmptyMap
<1>6. e \in Editors BY <1>2, <1>4, <1>5 DEF Editors
<1>7. /\ SameScene(e, ed) /\ e.requests = Empty /\ e.trajs = Empty /\ e.live = live
      /\ e.registry = registry
  BY <1>2 DEF Editors, SameScene
<1> HIDE DEF e
<1>8. Null(e) BY <1>7, NothingIsEmpty DEF Null
<1>9. StatesOwned(e) /\ Shown(e) BY <1>4, <1>7, <1>8, NullIsOwned
<1>10. \A r \in DOMAIN e.requests, end \in Ends : e.requests[r].state[end] # NoState
  BY <1>7, NothingIsEmpty
<1> QED BY <1>1, <1>3, <1>6, <1>7, <1>9, <1>10, ArmEditKeeps

LEMMA EditPointKeeps == IInv /\ EditPoint => IInv'
<1> SUFFICES ASSUME IInv, EditPoint PROVE IInv' OBVIOUS
<1>1. Reaches("qt") /\ User BY DEF EditPoint
<1>5. PICK t \in DOMAIN ed.trajs : \E point \in 0 .. Max({0, ed.trajs[t].size - 1}) :
          LET id == FreshState(ed.live)
              edited == [ed EXCEPT !.trajs[t].point = point, !.trajs[t].visible = TRUE] IN
          IF ed.trajs[t].state # NoState THEN Edits(edited)
          ELSE IF ed.robot = NoRobot THEN Crash
          ELSE Edits([edited EXCEPT !.trajs[t].state = id, !.live = @ \cup {id}])
  BY DEF EditPoint
<1>2. PICK point \in 0 .. Max({0, ed.trajs[t].size - 1}) :
          LET id == FreshState(ed.live)
              edited == [ed EXCEPT !.trajs[t].point = point, !.trajs[t].visible = TRUE] IN
          IF ed.trajs[t].state # NoState THEN Edits(edited)
          ELSE IF ed.robot = NoRobot THEN Crash
          ELSE Edits([edited EXCEPT !.trajs[t].state = id, !.live = @ \cup {id}])
  BY <1>5
<1>3. CASE ed.trajs[t].state = NoState /\ ed.robot = NoRobot
  <2>1. Crash BY <1>2, <1>3
  <2> QED BY <1>1, <1>3, <2>1, NullCrashKeeps
<1>4. CASE ed.trajs[t].state # NoState \/ ed.robot # NoRobot
  <2>1. Idle BY <1>1, <1>4, ReachesFacts
  <2>2. /\ ed \in Editors /\ StatesOwned(ed) /\ ed.trajs \in [DOMAIN ed.trajs -> Trajectories]
        /\ ed.trajs \in MapsOf(Trajs, Trajectories) /\ ed.live \in States /\ IsFiniteSet(ed.live)
        /\ DOMAIN ed.trajs \subseteq Trajs
    BY <2>1, ObjectsIdle, EditorFields, MapsIn
  <2> DEFINE x == ed.trajs[t]
             id == FreshState(ed.live)
             held == IF x.state # NoState THEN x.state ELSE id
             live == IF x.state # NoState THEN ed.live ELSE ed.live \cup {id}
             y == [x EXCEPT !.point = point, !.visible = TRUE, !.state = held]
             trajs == [ed.trajs EXCEPT ![t] = y]
             e == [ed EXCEPT !.trajs = trajs, !.live = live]
  <2>3. x \in Trajectories /\ x.size \in Nat /\ x.state \in Nat BY <2>2, TrajectoryFields
  <2>4. Edits(e)
    <3>1. CASE x.state # NoState
      <4>1. Edits([ed EXCEPT !.trajs[t].point = point, !.trajs[t].visible = TRUE])
        BY <1>2, <3>1
      <4>2. [ed EXCEPT !.trajs[t].point = point, !.trajs[t].visible = TRUE] = e
        BY <2>2, <3>1 DEF Editors, Trajectories
      <4> HIDE DEF e
      <4> QED BY <4>1, <4>2
    <3>2. CASE x.state = NoState
      <4> DEFINE edited == [ed EXCEPT !.trajs[t].point = point, !.trajs[t].visible = TRUE]
                 made == [edited EXCEPT !.trajs[t].state = id, !.live = @ \cup {id}]
      <4>1. Edits(made) BY <1>2, <1>4, <3>2
      <4>2. made = e
        <5> HIDE DEF id
        <5> QED BY <2>2, <3>2 DEF Editors, Trajectories
      <4> HIDE DEF e, made
      <4> QED BY <4>1, <4>2
    <3> QED BY <3>1, <3>2
  <2>5. id \in Nat \ {NoState} /\ id \notin ed.live BY <2>2, FreshFacts
  <2> HIDE DEF id
  <2>6. held \in Nat /\ held # NoState /\ live \in States /\ IsFiniteSet(live)
        /\ ed.live \subseteq live
    BY <2>2, <2>3, <2>5, FS_AddElement DEF States
  <2>7. /\ held \in live /\ \A u \in DOMAIN ed.trajs : u # t => ed.trajs[u].state # held
        /\ \A r \in DOMAIN ed.requests, end \in Ends : ed.requests[r].state[end] # held
    <3>1. CASE x.state # NoState BY <2>2, <3>1 DEF StatesOwned, TrajsOwned
    <3>2. CASE x.state = NoState BY <2>2, <2>5, <3>2 DEF StatesOwned, TrajsOwned, EndsOwned
    <3> QED BY <3>1, <3>2
  <2> HIDE DEF held, live
  <2>8. point \in Nat /\ point <= Last(x.size)
    <3>1. point \in 0 .. Last(x.size) BY <2>3, LastPoint
    <3>2. Last(x.size) \in Nat BY <2>3 DEF Last
    <3> QED BY <3>1, <3>2
  <2>9. y \in Trajectories /\ y.state = held BY <2>3, <2>6, <2>8 DEF Trajectories
  <2> HIDE DEF y
  <2>10. trajs \in MapsOf(Trajs, Trajectories) BY <2>2, <2>9, MapsIn
  <2>11. /\ DOMAIN trajs = DOMAIN ed.trajs /\ trajs[t] = y
         /\ \A u \in DOMAIN ed.trajs : u # t => trajs[u] = ed.trajs[u]
    BY <2>2
  <2> HIDE DEF trajs
  <2>12. e \in Editors BY <2>2, <2>6, <2>10 DEF Editors
  <2>13. /\ SameScene(e, ed) /\ e.requests = ed.requests /\ e.trajs = trajs /\ e.live = live
         /\ e.registry = ed.registry
    BY <2>2 DEF Editors, SameScene
  <2> HIDE DEF e
  <2>14. StatesOwned(e)
    <3>1. EndsOwned(e) BY <2>2, <2>6, <2>13 DEF StatesOwned, EndsOwned
    <3>2. \A u \in DOMAIN trajs : trajs[u].state = IF u = t THEN held ELSE ed.trajs[u].state
      BY <2>9, <2>11
    <3>3. TrajsOwned(e) BY <2>2, <2>6, <2>7, <2>11, <2>13, <3>2 DEF StatesOwned, TrajsOwned
    <3> QED BY <2>2, <2>6, <2>13, <3>1, <3>3 DEF StatesOwned
  <2> QED BY <1>1, <2>1, <2>4, <2>12, <2>13, <2>14, TrajectoryKeeps
<1> QED BY <1>3, <1>4

LEMMA SendMarkersKeeps == IInv /\ SendMarkers => IInv'
<1> SUFFICES ASSUME IInv, SendMarkers PROVE IInv' OBVIOUS
<1> DEFINE trajs == [t \in DOMAIN ed.trajs |-> Advanced(ed.trajs[t])]
<1>1. /\ Idle /\ UNCHANGED <<call, dialog, crashed, left, mode>>
      /\ ed' = [ed EXCEPT !.trajs = trajs]
  BY DEF SendMarkers
<1>2. /\ ed \in Editors /\ StatesOwned(ed) /\ ~call.awaits /\ DOMAIN ed.trajs \subseteq Trajs
      /\ \A t \in DOMAIN ed.trajs : ed.trajs[t] \in Trajectories
  BY <1>1, ObjectsIdle, EditorFields
<1>3. trajs \in MapsOf(Trajs, Trajectories)
  <2>1. trajs \in [DOMAIN trajs -> Trajectories] /\ DOMAIN trajs \subseteq Trajs
    BY <1>2, AdvancedFacts
  <2> HIDE DEF trajs
  <2> QED BY <2>1, MapsIn
<1>4. DOMAIN trajs = DOMAIN ed.trajs /\ \A t \in DOMAIN trajs : trajs[t].state = ed.trajs[t].state
  BY <1>2, AdvancedFacts
<1> HIDE DEF trajs
<1>5. /\ ed' \in Editors /\ ed'.trajs = trajs /\ ed'.requests = ed.requests /\ ed'.live = ed.live
      /\ ed'.registry = ed.registry /\ SameScene(ed', ed) /\ ed'.robot = ed.robot
  BY <1>1, <1>2, <1>3 DEF Editors, SameScene
<1>6. SameObjects(ed', ed) BY <1>5, SameScenes
<1>7. StatesOwned(ed') BY <1>2, <1>4, <1>5 DEF StatesOwned, EndsOwned, TrajsOwned
<1>8. ~mode.unlucky => Shown(ed') BY <1>5 DEF IInv, RInv, Shown
<1>9. NInv' BY <1>1, <1>2, <1>5 DEF IInv, RInv, NInv
<1>10. left' \in 0 .. mode.steps BY <1>1 DEF IInv, TInv
<1> QED BY <1>1, <1>5, <1>6, <1>7, <1>8, <1>9, <1>10, ArmStepKeeps

-----------------------------------------------------------------------------
(* The invariant is inductive *)

LEMMA InitKeeps == SceneInit => IInv
<1> SUFFICES ASSUME SceneInit PROVE IInv OBVIOUS
<1> DEFINE markers == [o \in Objects |-> NoMarkers]
           view == BlankScene(Home)
<1>1. /\ mode \in Modes /\ call = NoCall /\ dialog = NoObject /\ crashed = FALSE
      /\ left = mode.steps
      /\ ed = [objects |-> Empty, markers |-> markers, scene |-> view, robot |-> Home,
               values |-> Home, newest |-> 0, requests |-> Empty, trajs |-> Empty,
               live |-> {}, registry |-> {}]
  BY DEF SceneInit
<1>2. markers \in [Objects -> Marks] /\ \A o \in Objects : ~Visible(markers[o])
  BY EntryTypes DEF Visible
<1>3. /\ view \in Scenes /\ ~view.sent /\ view.acm = Empty
  BY BoundsAssumption, BlankSceneFacts
<1> HIDE DEF markers, view
<1>4. /\ ed.objects = Empty /\ ed.markers = markers /\ ed.scene = view /\ ed.robot = Home
      /\ ed.requests = Empty /\ ed.trajs = Empty /\ ed.live = {} /\ ed.registry = {}
  BY <1>1
<1>5. /\ Empty \in MapsOf(Objects, Entries) /\ Empty \in MapsOf({1}, Requests)
      /\ Empty \in MapsOf(Trajs, Trajectories) /\ Empty \in MapsOf(Objects, SUBSET Links)
  BY EmptyMap
<1>6. ed \in Editors
  <2>1. Home \in Poses /\ {} \in States BY BoundsAssumption DEF States
  <2> QED BY <1>1, <1>2, <1>3, <1>5, <2>1 DEF Editors
<1>7. /\ DOMAIN call = CallFields /\ call.awaits = FALSE /\ call.todo = <<>>
      /\ call.acm = Empty /\ call.name = NoObject
  BY <1>1 DEF NoCall, CallFields
<1>8. TInv
  <2>1. left \in 0 .. mode.steps BY <1>1, ModeFacts
  <2>2. call.todo \in Todos /\ call.todo \notin Pendings \cup Forgets BY <1>7, TodoKinds
  <2>3. dialog \in Names BY <1>1 DEF Names
  <2> HIDE DEF NoCall
  <2> QED BY <1>1, <1>5, <1>6, <1>7, <2>1, <2>2, <2>3 DEF TInv
<1>9. Null(ed) BY <1>4, NothingIsEmpty DEF Null
<1>10. RInv
  <2>1. IsFiniteSet(ed.live) /\ ed.registry \subseteq ed.live BY <1>4, FS_EmptySet
  <2>2. EndsOwned(ed) /\ TrajsOwned(ed) /\ Shown(ed)
    BY <1>4, NothingIsEmpty DEF EndsOwned, TrajsOwned, Shown
  <2>3. NInv BY <1>4, <1>7, NothingIsEmpty, BoundsAssumption, NoRobotAssumption DEF NInv
  <2> QED BY <2>1, <2>2, <2>3 DEF RInv, StatesOwned
<1>11. OInv
  <2>1. Marked(ed) /\ Calm(ed) BY <1>2, <1>4, NothingIsEmpty DEF Marked, Calm
  <2>2. CallInv BY <1>7, TodoKinds DEF CallInv
  <2>3. DialogInv BY <1>1 DEF DialogInv
  <2>4. LInv BY <1>3, <1>4 DEF LInv
  <2>5. AInv
    BY <1>3, <1>4, <1>7, NothingIsEmpty
    DEF AInv, AttachedMayTouch, OthersTouchNothing, FreeAreAsked, TakenAreFree, Acm
  <2> QED BY <2>1, <2>2, <2>3, <2>4, <2>5 DEF OInv
<1>12. CInv BY <1>1 DEF CInv
<1> QED BY <1>8, <1>10, <1>11, <1>12 DEF IInv

LEMMA StutterKeeps == IInv /\ UNCHANGED sceneVars => IInv'
<1> SUFFICES ASSUME IInv, UNCHANGED sceneVars PROVE IInv' OBVIOUS
<1>1. /\ UNCHANGED <<ed, call, mode>> /\ dialog' \in {dialog, NoObject}
      /\ left' \in 0 .. mode.steps /\ crashed' \in BOOLEAN
      /\ crashed' => mode.fails \/ mode.crosses \/ mode.own # {}
  BY DEF sceneVars, IInv, TInv, CInv
<1> QED BY <1>1, CrashKeeps

LEMMA NextKeeps == IInv /\ [SceneNext]_sceneVars => IInv'
<1> SUFFICES ASSUME IInv, [SceneNext]_sceneVars PROVE IInv' OBVIOUS
<1>1. CASE Answered \/ Unanswered BY <1>1, AnsweredKeeps, UnansweredKeeps
<1>2. CASE Forget \/ ShowAttached \/ LookForSecond \/ LoadRequests \/ ShowLoaded
  BY <1>2, ForgetKeeps, ShowAttachedKeeps, LookForSecondKeeps, LoadRequestsKeeps,
     ShowLoadedKeeps
<1>3. CASE Create \/ Select \/ Deselect \/ Delete \/ Drop
  BY <1>3, CreateKeeps, SelectKeeps, DeselectKeeps, DeleteKeeps, DropKeeps
<1>4. CASE OpenAttachDialog \/ Attach \/ CancelAttach \/ Detach \/ EditAllowed
  BY <1>4, OpenAttachDialogKeeps, AttachKeeps, CancelAttachKeeps, DetachKeeps,
     EditAllowedKeeps
<1>5. CASE Refresh \/ SlideJoint \/ JointStates \/ NewScene \/ LoadScene \/ ReadWarehouse
  BY <1>5, RefreshKeeps, SlideJointKeeps, JointStatesKeeps, NewSceneKeeps, LoadSceneKeeps,
     ReadWarehouseKeeps
<1>6. CASE CreateRequest \/ DeleteRequest \/ DragEnd \/ MapToRobot \/ MapFromRobot
  BY <1>6, CreateRequestKeeps, DeleteRequestKeeps, DragEndKeeps, MapToRobotKeeps,
     MapFromRobotKeeps
<1>7. CASE DragJoint \/ Perturb \/ Play \/ PlanOrFilter \/ DeleteTrajectory \/ EditPoint
  BY <1>7, DragJointKeeps, PerturbKeeps, PlayKeeps, PlanOrFilterKeeps, DeleteTrajectoryKeeps,
     EditPointKeeps
<1>8. CASE SendMarkers BY <1>8, SendMarkersKeeps
<1>9. CASE UNCHANGED sceneVars BY <1>9, StutterKeeps
<1> QED BY <1>1, <1>2, <1>3, <1>4, <1>5, <1>6, <1>7, <1>8, <1>9 DEF SceneNext

-----------------------------------------------------------------------------
(* What follows from the invariant *)

LEMMA TypesHold == IInv => SceneTypeOK
<1> SUFFICES ASSUME IInv PROVE SceneTypeOK OBVIOUS
<1>1. /\ mode \in Modes /\ left \in 0 .. mode.steps /\ crashed \in BOOLEAN
      /\ dialog \in Objects \cup {NoObject} /\ ed \in Editors
  BY DEF IInv, TInv, Names
<1>2. /\ DOMAIN ed.objects \subseteq Objects
      /\ \A o \in DOMAIN ed.objects : ed.objects[o] \in Entries
      /\ ed.markers \in [Objects -> Marks]
      /\ ed.robot \in Poses \cup {NoRobot} /\ ed.scene.robot \in Poses
      /\ DOMAIN ed.requests \subseteq {1} /\ DOMAIN ed.trajs \subseteq Trajs
      /\ \A r \in DOMAIN ed.requests : ed.requests[r] \in Requests
      /\ ed.registry \in States /\ ed.live \in States
      /\ \A t \in DOMAIN ed.trajs : ed.trajs[t] \in Trajectories
  BY <1>1, EditorFields
<1>3. ASSUME NEW t \in DOMAIN ed.trajs
      PROVE  ed.trajs[t].point \in 0 .. Max({0, ed.trajs[t].size - 1})
  <2> DEFINE x == ed.trajs[t]
  <2>1. x \in Trajectories BY <1>2
  <2>2. x.size \in Nat /\ x.point \in Nat /\ x.point <= Last(x.size)
    BY <2>1, TrajectoryFields
  <2>3. Max({0, x.size - 1}) = Last(x.size) BY <2>2, LastPoint
  <2>4. Last(x.size) \in Nat BY <2>2 DEF Last
  <2> QED BY <2>2, <2>3, <2>4
<1>4. ed.registry \subseteq Nat \ {NoState} /\ ed.live \subseteq Nat \ {NoState}
  BY <1>2 DEF States
<1> QED BY <1>1, <1>2, <1>3, <1>4 DEF SceneTypeOK, Entries, Marks, Requests

LEMMA ListedHolds == IInv => SceneIsListed
BY DEF IInv, OInv, LInv, AInv, SceneIsListed

\* What is held by no two is as many as hold it.
LEMMA AsMany ==
    ASSUME NEW S, NEW T, IsFiniteSet(T), NEW f \in [S -> T],
           \A a, b \in S : f[a] = f[b] => a = b,
           \A b \in T : \E a \in S : f[a] = b
    PROVE  Cardinality(T) = Cardinality(S)
<1>1. f \in Bijection(S, T) BY Fun_IsBij
<1>2. ExistsBijection(S, T) BY <1>1 DEF ExistsBijection
<1>3. ExistsBijection(T, S) BY <1>2, Fun_ExistsBijSymmetric
<1> QED BY <1>3, FS_Bijection

LEMMA OwnedHolds == IInv => OwnedOnce
<1> SUFFICES ASSUME IInv PROVE OwnedOnce OBVIOUS
<1>1. /\ IsFiniteSet(ed.live) /\ ed.registry \subseteq ed.live /\ EndsOwned(ed)
      /\ TrajsOwned(ed) /\ DOMAIN ed.requests \subseteq {1}
  BY EditorFields DEF IInv, RInv, StatesOwned, TInv
<1>2. HeldByEnds(ed) \subseteq ed.live /\ HeldByTrajs(ed) \subseteq ed.live
  BY <1>1 DEF HeldByEnds, HeldByTrajs, EndsOwned, TrajsOwned
<1>3. IsFiniteSet(HeldByEnds(ed)) /\ IsFiniteSet(HeldByTrajs(ed)) BY <1>1, <1>2, FS_Subset
<1>4. HeldByEnds(ed) \cap HeldByTrajs(ed) = {}
  BY <1>1 DEF HeldByEnds, HeldByTrajs, TrajsOwned
<1>5. Cardinality(HeldByTrajs(ed)) =
          Cardinality({t \in DOMAIN ed.trajs : ed.trajs[t].state # NoState})
  <2> DEFINE S == {t \in DOMAIN ed.trajs : ed.trajs[t].state # NoState}
             T == HeldByTrajs(ed)
             f == [t \in S |-> ed.trajs[t].state]
  <2>1. f \in [S -> T] BY DEF HeldByTrajs
  <2>2. \A a, b \in S : f[a] = f[b] => a = b BY <1>1 DEF TrajsOwned
  <2>3. \A b \in T : \E a \in S : f[a] = b BY DEF HeldByTrajs
  <2> HIDE DEF S, T, f
  <2>4. IsFiniteSet(T) BY <1>3 DEF T
  <2>5. Cardinality(T) = Cardinality(S) BY <2>1, <2>2, <2>3, <2>4, AsMany
  <2> QED BY <2>5 DEF S, T
<1>6. Cardinality(HeldByEnds(ed)) =
          Cardinality({h \in (DOMAIN ed.requests) \X Ends :
                           ed.requests[h[1]].state[h[2]] # NoState})
  <2> DEFINE S == {h \in (DOMAIN ed.requests) \X Ends :
                       ed.requests[h[1]].state[h[2]] # NoState}
             T == HeldByEnds(ed)
             f == [h \in S |-> ed.requests[h[1]].state[h[2]]]
  <2>1. f \in [S -> T]
    <3>1. \A h \in S : h[1] \in DOMAIN ed.requests /\ h[2] \in Ends OBVIOUS
    <3>2. \A h \in S : ed.requests[h[1]].state[h[2]] \in T BY <3>1 DEF HeldByEnds
    <3> HIDE DEF S, T
    <3> QED BY <3>2
  <2>2. ASSUME NEW a \in S, NEW b \in S, f[a] = f[b] PROVE a = b
    <3>1. /\ a = <<a[1], a[2]>> /\ b = <<b[1], b[2]>>
          /\ a[1] \in DOMAIN ed.requests /\ b[1] \in DOMAIN ed.requests
          /\ a[2] \in Ends /\ b[2] \in Ends
          /\ ed.requests[a[1]].state[a[2]] # NoState
      OBVIOUS
    <3>2. ed.requests[a[1]].state[a[2]] = ed.requests[b[1]].state[b[2]] BY <2>2
    <3>3. a[1] = 1 /\ b[1] = 1 BY <1>1, <3>1
    <3>4. ed.requests[1].state["start"] = ed.requests[1].state["goal"] =>
              ed.requests[1].state["start"] = NoState
      BY <1>1, <3>1, <3>3 DEF EndsOwned
    <3>5. a[2] = b[2] BY <3>1, <3>2, <3>3, <3>4 DEF Ends
    <3> QED BY <3>1, <3>3, <3>5
  <2>3. ASSUME NEW b \in T PROVE \E a \in S : f[a] = b
    <3>1. PICK r \in DOMAIN ed.requests, end \in Ends : ed.requests[r].state[end] = b
      BY DEF HeldByEnds
    <3>2. b # NoState BY DEF HeldByEnds
    <3>3. <<r, end>> \in S BY <3>1, <3>2
    <3>4. f[<<r, end>>] = b BY <3>1, <3>3
    <3> QED BY <3>3, <3>4
  <2> HIDE DEF S, T, f
  <2>4. IsFiniteSet(T) BY <1>3 DEF T
  <2>5. Cardinality(T) = Cardinality(S) BY <2>1, <2>2, <2>3, <2>4, AsMany
  <2> QED BY <2>5 DEF S, T
<1> QED BY <1>1, <1>2, <1>4, <1>5, <1>6 DEF OwnedOnce, Held

LEMMA SoundnessHolds == IInv => StatesAreSound
<1> SUFFICES ASSUME IInv PROVE StatesAreSound OBVIOUS
<1>1. crashed => mode.fails \/ mode.crosses \/ mode.own # {} BY DEF IInv, CInv
<1>2. ~mode.unlucky => ShownIsPlanned BY DEF IInv, RInv, Shown, ShownIsPlanned
<1> QED BY <1>1, <1>2, OwnedHolds DEF StatesAreSound

LEMMA IInvHolds == SceneSpec => []IInv
<1>1. SceneInit => IInv BY InitKeeps
<1>2. IInv /\ [SceneNext]_sceneVars => IInv' BY NextKeeps
<1> QED BY <1>1, <1>2, PTL DEF SceneSpec

\* The maps of the editor hold what they are declared to, and the point of a trajectory
\* that updateCurrentState reads is one of its own.
THEOREM SceneTypeCorrect == SceneSpec => []SceneTypeOK
<1>1. IInv => SceneTypeOK BY TypesHold
<1> QED BY <1>1, IInvHolds, PTL

\* sendPlanningScene: once the environment server has answered, the scene holds the
\* objects that the editor lists, attached or free, and the links that may touch them.
THEOREM ListedIsInScene == SceneSpec => []SceneIsListed
<1>1. IInv => SceneIsListed BY ListedHolds
<1> QED BY <1>1, IInvHolds, PTL

\* deleteKinematicStates and what makes states anew: each state is owned once and none
\* is deleted twice, no NULL pointer is followed by a session that loses no answer, and
\* an end in its own colour is the one that is planned with.
THEOREM SoundStates == SceneSpec => []StatesAreSound
<1>1. IInv => StatesAreSound BY SoundnessHolds
<1> QED BY <1>1, IInvHolds, PTL

=============================================================================
