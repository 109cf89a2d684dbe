-------------------- MODULE CollisionFreeControllerProofs --------------------
(***************************************************************************)
(* Proofs about CollisionFreeController for any goals and clients: the arm *)
(* moves under watch and for the active goal, unless another goal's answer *)
(* was taken for this one's.                                               *)
(***************************************************************************)
EXTENDS CollisionFreeController, TLAPS

-----------------------------------------------------------------------------
(* The action server: what its calls do to its record *)

\* A server without goals is a server.
LEMMA NewServerType == NewServer(Goals) \in ServerType(Goals)
BY DEF NewServer, ServerType, Statuses

\* goalCallback makes the goal wait and leaves the current one and its status alone.
LEMMA ReceiveFacts ==
    ASSUME NEW srv \in ServerType(Goals), NEW g \in Goals
    PROVE  /\ Receive(srv, g) \in ServerType(Goals)
           /\ Receive(srv, g).next = g /\ Receive(srv, g).current = srv.current
           /\ \A h \in Goals : Receive(srv, g).status[h] =
                  IF h = g THEN "pending" ELSE IF h = srv.next THEN "canceled" ELSE srv.status[h]
<1>1. DOMAIN srv.status = Goals BY DEF ServerType
<1>2. IsActive(srv) \in BOOLEAN BY DEF IsActive
<1> QED BY <1>1, <1>2 DEF Receive, ServerType, Statuses, Terminal

\* preemptCallback raises a flag and changes no goal.
LEMMA CancelFacts ==
    ASSUME NEW srv \in ServerType(Goals), NEW g
    PROVE  /\ Cancel(srv, g) \in ServerType(Goals)
           /\ Cancel(srv, g).status = srv.status /\ Cancel(srv, g).current = srv.current
           /\ Cancel(srv, g).next = srv.next
BY DEF Cancel, ServerType

\* acceptNewGoal makes the goal that waits the active one.
LEMMA AcceptNewGoalFacts ==
    ASSUME NEW srv \in ServerType(Goals)
    PROVE  /\ AcceptNewGoal(srv) \in ServerType(Goals)
           /\ AcceptNewGoal(srv).current = srv.next /\ AcceptNewGoal(srv).next = 0
           /\ srv.next \in Goals /\ srv.next # 0 => IsActive(AcceptNewGoal(srv))
           /\ srv.next \in Goals /\ srv.next # 0 => AcceptNewGoal(srv).status[srv.next] = "active"
           /\ \A h \in Goals : srv.status[h] # "unsent" => AcceptNewGoal(srv).status[h] # "unsent"
<1>1. DOMAIN srv.status = Goals BY DEF ServerType
<1> DEFINE acc == AcceptNewGoal(srv)
<1>2. /\ acc \in ServerType(Goals) /\ acc.current = srv.next /\ acc.next = 0
      /\ \A h \in Goals : acc.status[h] = IF h = srv.next THEN "active"
                             ELSE IF h = srv.current /\ IsActive(srv) THEN "canceled" ELSE srv.status[h]
  BY <1>1 DEF AcceptNewGoal, ServerType, Statuses, Terminal
<1> HIDE DEF acc
<1>3. srv.next \in Goals /\ srv.next # 0 => IsActive(acc) BY <1>2 DEF IsActive
<1> QED BY <1>2, <1>3 DEF acc

\* setSucceeded, setAborted and setPreempted change the current goal's status at most.
LEMMA SettleFacts ==
    ASSUME NEW srv \in ServerType(Goals), NEW s \in Statuses
    PROVE  /\ Settle(srv, s) \in ServerType(Goals)
           /\ Settle(srv, s).current = srv.current /\ Settle(srv, s).next = srv.next
           /\ Settle(srv, s).preempt = srv.preempt
           /\ \A h \in Goals : h # srv.current => Settle(srv, s).status[h] = srv.status[h]
           /\ \A h \in Goals : srv.status[h] # "unsent" /\ s # "unsent" =>
                  Settle(srv, s).status[h] # "unsent"
BY DEF Settle, IsActive, ServerType

-----------------------------------------------------------------------------
(* Types *)

\* No step of either thread, of a client or of the environment leaves a variable's type.
LEMMA TypeStep ==
    ASSUME TypeOK, [Next]_vars
    PROVE  TypeOK'
<1> USE DEF TypeOK, ambient
<1>1. {"active", "aborted", "succeeded"} \subseteq Statuses BY DEF Statuses, Terminal
<1>2. Cancelled \in HandleType({"none", "running", "cancelled"}) BY DEF Cancelled, HandleType
<1>3. NoGoal \in HandleType({"none"}) BY DEF NoGoal, HandleType
<1>4. Settle(server, "aborted") \in ServerType(Goals) /\ Settle(server, "succeeded") \in ServerType(Goals)
  BY <1>1, SettleFacts
<1>5. Current \in Goals \cup {0} BY DEF Current, ServerType
<1>6. ASSUME NEW g \in Goals, ExecuteTrajectory(g) PROVE TypeOK'
  <2> DEFINE accepted == AcceptNewGoal(Receive(server, g))
  <2>1. accepted \in ServerType(Goals) BY ReceiveFacts, AcceptNewGoalFacts
  <2>2. Settle(accepted, "aborted") \in ServerType(Goals) BY <1>1, <2>1, SettleFacts
  <2>3. /\ server' = IF sceneSet THEN accepted ELSE Settle(accepted, "aborted")
        /\ pc' = IF sceneSet THEN "filter" ELSE pc
        /\ arm' = IF state # "IDLE" THEN Cancelled ELSE arm
        /\ UNCHANGED <<state, remaining, done, sceneSet, late>>
    BY <1>6 DEF ExecuteTrajectory
  <2> HIDE DEF accepted
  <2> QED BY <1>2, <2>1, <2>2, <2>3
<1>7. ASSUME NEW g \in Goals, CancelGoal(g) PROVE TypeOK'
  <2>1. Cancel(server, g) \in ServerType(Goals) BY CancelFacts
  <2> QED BY <1>7, <2>1 DEF CancelGoal
<1>8. ASSUME Main PROVE TypeOK'
  BY <1>4, <1>5, <1>8 DEF Main, FilterRejects, FilterAccepts, StartMonitoring, HandleType
<1>9. ASSUME JointState PROVE TypeOK'
  BY <1>2, <1>4, <1>9 DEF JointState, SceneIsGone, Collides, Completes, Abort
<1>10. ASSUME DoneArrives PROVE TypeOK'
  BY <1>3, <1>10 DEF DoneArrives, HandleType
<1>11. ASSUME DoneIdles PROVE TypeOK' BY <1>5, <1>11 DEF DoneIdles, Answered, HandleType
<1>12. ASSUME DoneSettles PROVE TypeOK' BY <1>3, <1>4, <1>5, <1>12 DEF DoneSettles, Answered, HandleType
<1>13. ASSUME SceneChanges PROVE TypeOK' BY <1>13 DEF SceneChanges
<1>14. ASSUME UNCHANGED vars PROVE TypeOK' BY <1>14 DEF vars
<1> QED BY <1>6, <1>7, <1>8, <1>9, <1>10, <1>11, <1>12, <1>13, <1>14 DEF Next, Done

\* The variables keep their types.
THEOREM TypeCorrect == Spec => []TypeOK
<1>1. ASSUME Init PROVE TypeOK
  <2>1. server \in ServerType(Goals) BY <1>1, NewServerType DEF Init
  <2> QED BY <1>1, <2>1 DEF Init, TypeOK, NoGoal, HandleType
<1>2. TypeOK /\ [Next]_vars => TypeOK' BY TypeStep
<1> QED BY <1>1, <1>2, PTL DEF Spec

-----------------------------------------------------------------------------
(* The arm and the goal *)

\* What both handles are of was sent once, and the answer under way is not the arm's;
\* executeTrajectory has an active goal that neither handle is of.
HandlesAreSent ==
    /\ arm.goal # 0 => server.status[arm.goal] # "unsent" /\ done.goal # arm.goal
    /\ done.goal # 0 => server.status[done.goal] # "unsent"
    /\ arm.phase = "running" => arm.goal # 0
    /\ pc = "filter" => Current \in Goals /\ Current \notin {arm.goal, done.goal}
    /\ pc \in {"filter", "sent"} => IsActive(server)

\* Unless another goal's answer was taken for this one's: an arm that moves does so for the
\* current goal, which is active, under watch as soon as the main thread is idle;
\* executeTrajectory finds no such arm once it looks at its goal.
ArmIsOwned ==
    arm.phase = "running" /\ arm.goal \notin late =>
        /\ arm.goal = Current /\ IsActive(server) /\ remaining \in {0, Current}
        /\ pc # "filter"
        /\ pc = "idle" => state = "MONITOR"

ArmInv == HandlesAreSent /\ ArmIsOwned

\* The handles stay apart and sent, whoever steps.
LEMMA HandlesStep ==
    ASSUME TypeOK, HandlesAreSent, [Next]_vars
    PROVE  HandlesAreSent'
<1>1. Cancelled.goal = arm.goal /\ (Cancelled.phase = "running" => arm.phase = "running")
  BY DEF TypeOK, HandleType, Cancelled
<1>2. arm.goal \in Goals \cup {0} /\ done.goal \in Goals \cup {0} /\ Current \in Goals \cup {0}
  BY DEF TypeOK, HandleType, Current, ServerType
<1>3. ASSUME NEW g \in Goals, ExecuteTrajectory(g) PROVE HandlesAreSent'
  <2> DEFINE received == Receive(server, g)
             accepted == AcceptNewGoal(received)
  <2>1. /\ server.status[g] = "unsent" /\ pc = "idle" /\ arm'.goal = arm.goal /\ done' = done
        /\ arm'.phase = "running" => arm.phase = "running"
        /\ \/ server' = accepted /\ pc' = "filter"
           \/ server' = Settle(accepted, "aborted") /\ pc' = "idle"
    BY <1>1, <1>3 DEF ExecuteTrajectory, MaySend, Sendable
  <2>2. /\ received \in ServerType(Goals) /\ received.next = g
        /\ \A h \in Goals : server.status[h] # "unsent" => received.status[h] # "unsent"
    <3>1. /\ received \in ServerType(Goals) /\ received.next = g
          /\ \A h \in Goals : received.status[h] = IF h = g THEN "pending"
                                  ELSE IF h = server.next THEN "canceled" ELSE server.status[h]
      BY ReceiveFacts DEF TypeOK
    <3> HIDE DEF received
    <3> QED BY <3>1
  <2>3. g # 0 BY GoalsAssumption
  <2>4. /\ accepted \in ServerType(Goals) /\ accepted.current = g /\ IsActive(accepted)
        /\ \A h \in Goals : server.status[h] # "unsent" => accepted.status[h] # "unsent"
    <3> HIDE DEF received
    <3> QED BY <2>2, <2>3, AcceptNewGoalFacts
  <2>5. \A h \in Goals : server.status[h] # "unsent" => server'.status[h] # "unsent"
    <3> HIDE DEF accepted
    <3>1. "aborted" \in Statuses BY DEF Statuses, Terminal
    <3> QED BY <2>1, <2>4, <3>1, SettleFacts
  <2>6. arm.goal # g /\ done.goal # g BY <1>2, <2>1, <2>3 DEF HandlesAreSent
  <2>7. pc' = "filter" => Current' = g /\ IsActive(server)' BY <2>1, <2>4 DEF Current, IsActive
  <2> HIDE DEF accepted
  <2> QED BY <1>2, <2>1, <2>5, <2>6, <2>7 DEF HandlesAreSent
<1>4. ASSUME NEW g \in Goals, CancelGoal(g) PROVE HandlesAreSent'
  <2>1. server' = Cancel(server, g) /\ UNCHANGED <<pc, arm, done>>
    BY <1>4 DEF CancelGoal
  <2>2. server'.status = server.status /\ server'.current = server.current
    BY <2>1, CancelFacts DEF TypeOK
  <2> QED BY <2>1, <2>2 DEF HandlesAreSent, IsActive, Current
<1>5. ASSUME NEW s \in {"aborted", "succeeded"}, server' = Settle(server, s), pc' = "idle",
             arm'.goal = arm.goal \/ arm' = NoGoal, arm'.phase = "running" => arm.phase = "running",
             done' = done \/ done' = NoGoal
      PROVE HandlesAreSent'
  <2>1. s \in Statuses /\ s # "unsent" BY DEF Statuses, Terminal
  <2>2. \A h \in Goals : server.status[h] # "unsent" => server'.status[h] # "unsent"
    BY <1>5, <2>1, SettleFacts DEF TypeOK
  <2>3. NoGoal.goal = 0 /\ NoGoal.phase = "none" BY DEF NoGoal
  <2> QED BY <1>2, <1>5, <2>2, <2>3 DEF HandlesAreSent
<1>6. ASSUME FilterRejects PROVE HandlesAreSent'
  BY <1>5, <1>6 DEF FilterRejects
<1>7. ASSUME FilterAccepts PROVE HandlesAreSent'
  BY <1>7 DEF FilterAccepts, HandlesAreSent, IsActive, Current
<1>8. ASSUME StartMonitoring PROVE HandlesAreSent'
  BY <1>8 DEF StartMonitoring, HandlesAreSent, IsActive, Current
<1>9. ASSUME JointState PROVE HandlesAreSent'
  <2>1. CASE Completes BY <2>1 DEF Completes, HandlesAreSent, IsActive, Current
  <2>2. CASE InMonitor /\ Abort BY <1>1, <1>5, <2>2 DEF InMonitor, Abort
  <2> QED BY <1>9, <2>1, <2>2 DEF JointState, SceneIsGone, Collides
<1>10. ASSUME DoneArrives PROVE HandlesAreSent'
  BY <1>2, <1>10 DEF DoneArrives, HandlesAreSent, NoGoal, IsActive, Current
<1>11. ASSUME DoneIdles PROVE HandlesAreSent'
  <2>1. done'.goal = done.goal BY <1>11 DEF DoneIdles, TypeOK, HandleType
  <2> QED BY <1>11, <2>1 DEF DoneIdles, HandlesAreSent, IsActive, Current
<1>12. ASSUME DoneSettles PROVE HandlesAreSent'
  BY <1>5, <1>12 DEF DoneSettles
<1>13. ASSUME SceneChanges PROVE HandlesAreSent'
  BY <1>13 DEF SceneChanges, HandlesAreSent, IsActive, Current
<1>14. ASSUME UNCHANGED vars PROVE HandlesAreSent'
  BY <1>14 DEF vars, HandlesAreSent, IsActive, Current
<1> QED BY <1>3, <1>4, <1>6, <1>7, <1>8, <1>9, <1>10, <1>11, <1>12, <1>13, <1>14 DEF Next, Main, Done

\* Only another goal's answer takes the watch or the active goal from an arm that moves.
LEMMA ArmStep ==
    ASSUME TypeOK, ArmInv, [Next]_vars
    PROVE  ArmIsOwned'
<1> SUFFICES ASSUME arm'.phase = "running", arm'.goal \notin late' PROVE ArmIsOwned'
  BY DEF ArmIsOwned
<1>1. Cancelled.phase # "running"
  BY DEF TypeOK, HandleType, Cancelled
<1>2. ASSUME NEW g \in Goals, ExecuteTrajectory(g) PROVE ArmIsOwned'
  <2>1. pc = "idle" /\ UNCHANGED <<state, late>> /\ arm' = IF state # "IDLE" THEN Cancelled ELSE arm
    BY <1>2 DEF ExecuteTrajectory, MaySend, ambient
  <2>2. state = "IDLE" /\ arm' = arm BY <1>1, <2>1
  <2> QED BY <2>1, <2>2 DEF ArmInv, ArmIsOwned
<1>3. ASSUME NEW g \in Goals, CancelGoal(g) PROVE ArmIsOwned'
  <2>1. server' = Cancel(server, g) /\ UNCHANGED <<pc, state, remaining, arm, late>>
    BY <1>3 DEF CancelGoal, ambient
  <2>2. server'.status = server.status /\ server'.current = server.current
    BY <2>1, CancelFacts DEF TypeOK
  <2> QED BY <2>1, <2>2 DEF ArmInv, ArmIsOwned, IsActive, Current
<1>4. ASSUME FilterRejects PROVE ArmIsOwned'
  BY <1>4 DEF FilterRejects, ArmInv, ArmIsOwned, ambient
<1>5. ASSUME FilterAccepts PROVE ArmIsOwned'
  BY <1>5 DEF FilterAccepts, ArmInv, HandlesAreSent, ArmIsOwned, IsActive, Current
<1>6. ASSUME StartMonitoring PROVE ArmIsOwned'
  BY <1>6 DEF StartMonitoring, ArmInv, ArmIsOwned, IsActive, Current, ambient
<1>7. ASSUME JointState PROVE ArmIsOwned'
  <2>1. CASE Completes BY <2>1 DEF Completes, InMonitor, ArmInv, ArmIsOwned, IsActive, Current, ambient
  <2>2. CASE Abort BY <1>1, <2>2 DEF Abort
  <2> QED BY <1>7, <2>1, <2>2 DEF JointState, SceneIsGone, Collides
<1>8. ASSUME DoneArrives PROVE ArmIsOwned'
  BY <1>8 DEF DoneArrives, NoGoal
<1>9. ASSUME Done PROVE ArmIsOwned'
  <2>1. arm' = arm /\ Answered BY <1>9 DEF Done, DoneIdles, DoneSettles
  <2>2. arm.goal \notin late BY <2>1 DEF Answered
  <2>3. arm.goal = Current /\ done.goal # Current BY <2>1, <2>2 DEF ArmInv, HandlesAreSent, ArmIsOwned
  <2> QED BY <2>1, <2>3 DEF Answered
<1>10. ASSUME SceneChanges PROVE ArmIsOwned'
  BY <1>10 DEF SceneChanges, ArmInv, ArmIsOwned, IsActive, Current
<1>11. ASSUME UNCHANGED vars PROVE ArmIsOwned'
  BY <1>11 DEF vars, ArmInv, ArmIsOwned, IsActive, Current
<1> QED BY <1>2, <1>3, <1>4, <1>5, <1>6, <1>7, <1>8, <1>9, <1>10, <1>11 DEF Next, Main

\* Whatever clients do: the arm moves only for the active goal, and watched whenever
\* executeTrajectory is not under way, unless the answer for another goal was taken for this one's.
THEOREM MovesOnlyWatched == Spec => []MovesWatched
<1>1. Init => ArmInv BY DEF Init, ArmInv, HandlesAreSent, ArmIsOwned, NoGoal
<1>2. TypeOK /\ ArmInv /\ [Next]_vars => ArmInv' BY HandlesStep, ArmStep DEF ArmInv
<1>3. ArmInv => MovesWatched
  BY DEF ArmInv, ArmIsOwned, MovesWatched, MovingIsWatched, MovesForActiveGoal, IsActive, Current
<1> QED BY <1>1, <1>2, <1>3, TypeCorrect, PTL DEF Spec

=============================================================================
