-------------------------- MODULE HeadMonitorProofs --------------------------
(***************************************************************************)
(* Proofs about HeadMonitor for any arms, goals and configurations: when   *)
(* callbacks take turns, status, timers and arms agree.                    *)
(***************************************************************************)
EXTENDS HeadMonitor, FiniteSetTheorems, TLAPS

-----------------------------------------------------------------------------
(* The action server: what its calls do to its record *)

\* A server without goals is a server.
LEMMA NewServerType == NewServer(Goals) \in ServerType(Goals)
BY DEF NewServer, ServerType, Statuses

\* goalCallback makes the goal wait and leaves the current one and its status alone.
LEMMA ReceiveFacts ==
    ASSUME NEW srv \in ServerType(Goals), NEW g \in Goals
    PROVE  /\ Receive(srv, g) \in ServerType(Goals)
           /\ Receive(srv, g).next = g /\ Receive(srv, g).current = srv.current
           /\ \A h \in Goals : Receive(srv, g).status[h] =
                  IF h = g THEN "pending" ELSE IF h = srv.next THEN "canceled" ELSE srv.status[h]
<1>1. DOMAIN srv.status = Goals BY DEF ServerType
<1>2. IsActive(srv) \in BOOLEAN BY DEF IsActive
<1> QED BY <1>1, <1>2 DEF Receive, ServerType, Statuses, Terminal

\* preemptCallback raises a flag and changes no goal.
LEMMA CancelFacts ==
    ASSUME NEW srv \in ServerType(Goals), NEW g
    PROVE  /\ Cancel(srv, g) \in ServerType(Goals)
           /\ Cancel(srv, g).status = srv.status /\ Cancel(srv, g).current = srv.current
           /\ Cancel(srv, g).next = srv.next
BY DEF Cancel, ServerType

\* acceptNewGoal makes the goal that waits the active one.
LEMMA AcceptNewGoalFacts ==
    ASSUME NEW srv \in ServerType(Goals)
    PROVE  /\ AcceptNewGoal(srv) \in ServerType(Goals)
           /\ AcceptNewGoal(srv).current = srv.next /\ AcceptNewGoal(srv).next = 0
           /\ srv.next \in Goals /\ srv.next # 0 => IsActive(AcceptNewGoal(srv))
           /\ \A h \in Goals : h # srv.next /\ h # srv.current =>
                  AcceptNewGoal(srv).status[h] = srv.status[h]
<1>1. DOMAIN srv.status = Goals BY DEF ServerType
<1> DEFINE acc == AcceptNewGoal(srv)
<1>2. /\ acc \in ServerType(Goals) /\ acc.current = srv.next /\ acc.next = 0
      /\ \A h \in Goals : acc.status[h] = IF h = srv.next THEN "active"
                             ELSE IF h = srv.current /\ IsActive(srv) THEN "canceled" ELSE srv.status[h]
  BY <1>1 DEF AcceptNewGoal, ServerType, Statuses, Terminal
<1> HIDE DEF acc
<1>3. srv.next \in Goals /\ srv.next # 0 => IsActive(acc) BY <1>2 DEF IsActive
<1> QED BY <1>2, <1>3 DEF acc

\* setSucceeded, setAborted and setPreempted change the current goal's status at most.
LEMMA SettleFacts ==
    ASSUME NEW srv \in ServerType(Goals), NEW s \in Statuses
    PROVE  /\ Settle(srv, s) \in ServerType(Goals)
           /\ Settle(srv, s).current = srv.current /\ Settle(srv, s).next = srv.next
           /\ Settle(srv, s).preempt = srv.preempt
           /\ \A h \in Goals : h # srv.current => Settle(srv, s).status[h] = srv.status[h]
           /\ s # "active" => ~IsActive(Settle(srv, s))
BY DEF Settle, IsActive, ServerType

\* The goal that waits is pending, so it is not the one that is active.
Pending(srv) == srv.next # 0 => srv.status[srv.next] = "pending"

\* A goal that arrives leaves the active one active, one that settles leaves the waiting
\* one, and the waiting one is active as soon as it is accepted.
LEMMA ActiveAndPending ==
    ASSUME NEW srv \in ServerType(Goals), Pending(srv)
    PROVE  /\ \A g \in Goals : Sendable(srv, g) =>
                  Pending(Receive(srv, g)) /\ (IsActive(Receive(srv, g)) <=> IsActive(srv))
           /\ \A g \in Goals : Pending(Cancel(srv, g)) /\ (IsActive(Cancel(srv, g)) <=> IsActive(srv))
           /\ \A s \in Terminal : Pending(Settle(srv, s)) /\ ~IsActive(Settle(srv, s))
           /\ Pending(AcceptNewGoal(srv)) /\ (srv.next # 0 => IsActive(AcceptNewGoal(srv)))
<1> USE DEF Pending
<1>1. ASSUME NEW g \in Goals, Sendable(srv, g)
      PROVE  Pending(Receive(srv, g)) /\ (IsActive(Receive(srv, g)) <=> IsActive(srv))
  <2>1. srv.current \in Goals \cup {0} /\ (IsActive(srv) => srv.current # g /\ srv.current # srv.next)
    BY <1>1 DEF Sendable, IsActive, ServerType
  <2> QED BY <2>1, ReceiveFacts DEF IsActive
<1>2. ASSUME NEW g \in Goals PROVE Pending(Cancel(srv, g)) /\ (IsActive(Cancel(srv, g)) <=> IsActive(srv))
  BY CancelFacts DEF IsActive
<1>3. ASSUME NEW s \in Terminal PROVE Pending(Settle(srv, s)) /\ ~IsActive(Settle(srv, s))
  BY DEF Settle, IsActive, ServerType, Terminal
<1>4. Pending(AcceptNewGoal(srv)) /\ (srv.next # 0 => IsActive(AcceptNewGoal(srv)))
  BY AcceptNewGoalFacts DEF ServerType
<1> QED BY <1>1, <1>2, <1>3, <1>4

-----------------------------------------------------------------------------
(* Types *)

\* What an arm's action client knows of its goal.
HandleType == [goal : Goals \cup {0}, phase : {"none", "running", "cancelled"}, heard : BOOLEAN]

\* No callback, timer, cloud, scan or client leaves a variable's type.
LEMMA TypeStep ==
    ASSUME TypeOK, [Next]_vars
    PROVE  TypeOK'
<1> USE DEF TypeOK, timers, Relevant, Unused, HandleType
<1>1. /\ Settle(server, "aborted") \in ServerType(Goals) /\ Settle(server, "succeeded") \in ServerType(Goals)
      /\ Settle(server, "canceled") \in ServerType(Goals)
  BY SettleFacts DEF Statuses, Terminal
<1>2. mode.used \subseteq Arms BY ModesAssumption
<1>3. Current \in Goals \cup {0} BY DEF Current, ServerType
<1>4. AtRest \in HandleType
  BY DEF AtRest, HandleType
<1>5. \A a : Cancelled(a) \in [Arms -> HandleType]
  BY DEF Cancelled, HandleType
<1>6. ASSUME NEW g \in Goals, SendGoal(g) \/ CancelGoal(g) PROVE TypeOK'
  <2>1. Receive(server, g) \in ServerType(Goals) /\ Cancel(server, g) \in ServerType(Goals)
    BY ReceiveFacts, CancelFacts
  <2> QED BY <1>6, <2>1 DEF SendGoal, CancelGoal
<1>7. ASSUME AcceptGoal PROVE TypeOK'
  <2> DEFINE accepted == AcceptNewGoal(server)
  <2>1. accepted \in ServerType(Goals) BY AcceptNewGoalFacts
  <2>2. Settle(accepted, "aborted") \in ServerType(Goals) BY <2>1, SettleFacts DEF Statuses, Terminal
  <2> HIDE DEF accepted
  <2>3. server' \in {accepted, Settle(accepted, "aborted")} BY <1>7 DEF AcceptGoal, accepted
  <2>4. client' \in mode.used \cup {Unused} /\ serving' \in {"arm", "send", "idle"} BY <1>7 DEF AcceptGoal
  <2>5. status' \in Relevant \cup {"IDLE", "PREPLAN_SCAN"} BY <1>7 DEF AcceptGoal
  <2> QED BY <1>7, <2>1, <2>2, <2>3, <2>4, <2>5 DEF AcceptGoal
<1>8. ASSUME PreemptBegins \/ PreemptStopsStart \/ PreemptStopsPause PROVE TypeOK'
  BY <1>8 DEF PreemptBegins, PreemptStopsStart, PreemptStopsPause, AfterPreempt
<1>9. ASSUME Preempts \/ GoalArmsTimer PROVE TypeOK'
  BY <1>1, <1>5, <1>9 DEF Preempts, GoalArmsTimer, AfterPreempt, StopArm
<1>10. ASSUME GoalSends \/ StartTimer PROVE TypeOK'
  <2>1. [goal |-> Current, phase |-> "running", heard |-> TRUE] \in HandleType BY <1>3 DEF HandleType
  <2>2. Send(Current) => arms' \in [Arms -> HandleType] BY <2>1 DEF Send, HandleType
  <2> QED BY <1>10, <2>2 DEF GoalSends, StartTimer, StartTimerFires, StartTimerSends, HandleType
<1>12. ASSUME PauseTimer PROVE TypeOK'
  BY <1>1, <1>5, <1>12 DEF PauseTimer, PauseTimerFires, PauseStopsTimer, PauseStopsArm, PauseAborts, StopArm
<1>13. ASSUME CloudArrives \/ CloudPasses \/ CloudInvalid \/ CloudStopsTimer \/ CloudPauses PROVE TypeOK'
  BY <1>13 DEF CloudArrives, CloudPasses, CloudInvalid, CloudStopsTimer, CloudPauses
<1>14. ASSUME CloudStops \/ CloudTimesPause \/ CloudValid \/ CloudUnpauses \/ CloudResumes PROVE TypeOK'
  BY <1>5, <1>14 DEF CloudStops, CloudTimesPause, CloudValid, CloudUnpauses, CloudResumes
<1>15. ASSUME NEW a \in Arms, Done(a) PROVE TypeOK'
  BY <1>1, <1>4, <1>15 DEF Done, DoneArrives, DoneIdles, DoneSettles
<1>16. ASSUME NEW a \in Arms, ScanBegins(a) PROVE TypeOK' BY <1>16 DEF ScanBegins
<1>17. ASSUME ScanCorrects PROVE TypeOK' BY <1>2, <1>17 DEF ScanCorrects, AtRest
<1>18. ASSUME ScanCorrected \/ ScanLooks \/ ScanEnds PROVE TypeOK'
  BY <1>5, <1>18 DEF ScanCorrected, ScanLooks, ScanEnds
<1>19. ASSUME UNCHANGED vars PROVE TypeOK' BY <1>19 DEF vars
<1> QED
  BY <1>6, <1>7, <1>8, <1>9, <1>10, <1>12, <1>13, <1>14, <1>15, <1>16, <1>17, <1>18, <1>19
  DEF Next, Clients, Serving, CloudChecks, Scanning

\* The variables keep their types.
THEOREM TypeCorrect == Spec => []TypeOK
<1>1. ASSUME Init PROVE TypeOK
  <2>1. server \in ServerType(Goals) BY <1>1, NewServerType DEF Init
  <2>2. AtRest \in HandleType
    BY DEF AtRest, HandleType
  <2>3. arms \in [Arms -> HandleType]
    BY <1>1, <2>2 DEF Init
  <2> QED BY <1>1, <2>1, <2>3 DEF Init, TypeOK, Relevant, Unused, HandleType
<1>2. TypeOK /\ [Next]_vars => TypeOK' BY TypeStep
<1> QED BY <1>1, <1>2, PTL DEF Spec

-----------------------------------------------------------------------------
(* The inductive invariant *)

Active == IsActive(server)
NoneDone == \A a \in Arms : done[a] = "none"
TimersOff == startTimer = "off" /\ pauseTimer = "off"

\* What will answer the active goal between callbacks.
Tells ==
    \/ status = "MONITOR_BEFORE_EXECUTION" /\ startTimer = "armed" /\ pauseTimer = "off"
    \/ status = "EXECUTING" /\ arms[client].goal = Current /\ arms[client].phase = "running" /\ TimersOff
    \/ status = "PAUSED" /\ pauseTimer = "armed" /\ startTimer = "off"

\* Where the monitor action's callback is in the middle of an active goal.
InService ==
    /\ cloud = "idle" /\ NoneDone /\ ~StartRuns /\ ~PauseRuns
    /\ \/ serving \in {"preempt", "stopStart"} /\ status \in Relevant
       \/ serving = "stopPause" /\ startTimer = "off"
       \/ serving = "stopArm" /\ TimersOff
       \/ serving = "arm" /\ status = "MONITOR_BEFORE_EXECUTION" /\ TimersOff
       \/ serving = "send" /\ status = "EXECUTING" /\ TimersOff

\* Where cloudCallback is, past its check.
InCloud ==
    /\ serving = "idle" /\ NoneDone
    /\ \/ cloud = "stopping" /\ Tells /\ status # "PAUSED"
       \/ cloud = "stopTimer" /\ startTimer = "armed" /\ pauseTimer = "off"
       \/ cloud = "pausing" /\ TimersOff
       \/ cloud = "timing" /\ status = "PAUSED" /\ TimersOff
       \/ cloud = "unpausing" /\ status = "PAUSED" /\ pauseTimer = "armed" /\ startTimer = "off"
       \/ cloud = "resuming" /\ status = "MONITOR_BEFORE_EXECUTION" /\ TimersOff

\* Which timer's callback runs.
InTimer ==
    /\ serving = "idle" /\ cloud = "idle" /\ NoneDone
    /\ \/ StartRuns /\ status = "EXECUTING" /\ pauseTimer = "off"
       \/ pauseTimer \in {"stopTimer", "stopArm"} /\ status = "PAUSED" /\ startTimer = "off"
       \/ pauseTimer = "abort" /\ status = "IDLE" /\ startTimer = "off"

\* Which arm's done callback runs.
InDone ==
    /\ serving = "idle" /\ cloud = "idle" /\ TimersOff
    /\ \E a \in Arms :
          /\ \A b \in Arms \ {a} : done[b] = "none"
          /\ \/ done[a] = "seen" /\ status = "EXECUTING"
             \/ done[a] = "idle" /\ status = "IDLE"

\* At most one callback is under way, and an active goal is its or will be answered.
Staged ==
    IF Active
    THEN /\ scan.pc = "idle" /\ client \in mode.used /\ client = ArmOf[Current]
         /\ \/ serving = "idle" /\ cloud \in {"idle", "checking"} /\ NoneDone /\ Tells
            \/ InService \/ InCloud \/ InTimer \/ InDone
    ELSE /\ serving \in {"idle", "accept"} /\ cloud = "idle" /\ NoneDone /\ TimersOff
         /\ scan.pc # "idle" => serving = "idle"
         /\ status = IF scan.pc = "looking" THEN "PREPLAN_SCAN" ELSE "IDLE"

\* A goal waits only for the callback that accepts it.
Waits ==
    /\ server.next # 0 => serving \in {"preempt", "stopStart", "stopPause", "stopArm", "accept"}
    /\ serving = "accept" => server.next # 0
    /\ Pending(server)

\* Only arms in use are sent anything; a trajectory is heard of, a correction is not.
Handles ==
    \A a \in Arms : /\ arms[a].phase # "none" => a \in mode.used
                    /\ arms[a].heard <=> arms[a].goal # 0

Moves(a) == arms[a].phase = "running" /\ arms[a].heard

\* Of a node with one arm: that arm moves for the active goal while the status says so.
MovesInTurn ==
    \A a \in Arms : Moves(a) =>
        /\ Active /\ arms[a].goal = Current /\ status = "EXECUTING"
        /\ NoneDone /\ cloud \in {"idle", "checking", "stopping"}

-----------------------------------------------------------------------------
(* Taking turns *)

\* What the server's callbacks and the settling of a goal do to the server.
LEMMA ServerInTurn ==
    ASSUME TypeOK, Waits
    PROVE  /\ server' = server => (Active' <=> Active) /\ Current' = Current /\ Pending(server')
           /\ \A s \in {"succeeded", "aborted", "canceled"} : server' = Settle(server, s) =>
                  ~Active' /\ server'.next = server.next /\ Pending(server')
           /\ \A g \in Goals : SendGoal(g) =>
                  (Active' <=> Active) /\ Current' = Current /\ server'.next # 0 /\ Pending(server')
           /\ \A g \in Goals : CancelGoal(g) =>
                  (Active' <=> Active) /\ Current' = Current /\ server'.next = server.next /\ Pending(server')
           /\ AcceptGoal => (Active' <=> ArmOf[server.next] \in mode.used) /\ Current' = server.next
                            /\ server'.next = 0 /\ Pending(server')
<1> USE DEF Active, Current, Waits, TypeOK
<1>1. server' = server => (Active' <=> Active) /\ Current' = Current /\ Pending(server')
  OBVIOUS
<1>2. ASSUME NEW s \in {"succeeded", "aborted", "canceled"}, server' = Settle(server, s)
      PROVE  ~Active' /\ server'.next = server.next /\ Pending(server')
  BY <1>2, ActiveAndPending, SettleFacts DEF Terminal, Statuses
<1>3. ASSUME NEW g \in Goals, SendGoal(g)
      PROVE  (Active' <=> Active) /\ Current' = Current /\ server'.next # 0 /\ Pending(server')
  BY <1>3, ActiveAndPending, ReceiveFacts, GoalsAssumption DEF SendGoal
<1>4. ASSUME NEW g \in Goals, CancelGoal(g)
      PROVE  (Active' <=> Active) /\ Current' = Current /\ server'.next = server.next /\ Pending(server')
  BY <1>4, ActiveAndPending, CancelFacts DEF CancelGoal
<1>5. ASSUME AcceptGoal
      PROVE  /\ Active' <=> ArmOf[server.next] \in mode.used
             /\ Current' = server.next /\ server'.next = 0 /\ Pending(server')
  <2> DEFINE acc == AcceptNewGoal(server)
  <2>1. acc \in ServerType(Goals) /\ acc.current = server.next /\ acc.next = 0 /\ IsActive(acc) /\ Pending(acc)
    BY <1>5, AcceptNewGoalFacts, ActiveAndPending DEF AcceptGoal, ServerType
  <2>2. /\ Settle(acc, "aborted").current = server.next /\ Settle(acc, "aborted").next = 0
        /\ ~IsActive(Settle(acc, "aborted")) /\ Pending(Settle(acc, "aborted"))
    <3>1. "aborted" \in Terminal /\ "aborted" \in Statuses BY DEF Statuses, Terminal
    <3> QED BY <2>1, <3>1, SettleFacts, ActiveAndPending
  <2>3. server' = IF ArmOf[acc.current] \in mode.used THEN acc ELSE Settle(acc, "aborted")
    BY <1>5 DEF AcceptGoal
  <2> HIDE DEF acc
  <2> QED BY <2>1, <2>2, <2>3
<1> QED BY <1>1, <1>2, <1>3, <1>4, <1>5

\* An active goal has a number.
LEMMA ActiveIsGoal == TypeOK /\ Active => Current \in Goals /\ Current # 0
BY DEF TypeOK, Active, IsActive, Current, ServerType

\* The configuration stays what it is.
LEMMA ModeStays == [Next]_vars => mode' = mode
BY DEF Next, Clients, SendGoal, CancelGoal, Serving, PreemptBegins, PreemptStopsStart, PreemptStopsPause, Preempts,
       AcceptGoal, GoalArmsTimer, GoalSends, StartTimer, StartTimerFires, StartTimerSends, PauseTimer, PauseTimerFires,
       PauseStopsTimer, PauseStopsArm, PauseAborts, CloudArrives, CloudChecks, CloudPasses, CloudInvalid, CloudStops,
       CloudStopsTimer, CloudPauses, CloudTimesPause, CloudValid, CloudUnpauses, CloudResumes, Done, DoneArrives,
       DoneIdles, DoneSettles, ScanBegins, Scanning, ScanCorrects, ScanCorrected, ScanLooks, ScanEnds, vars

\* What is sent goes to an arm in use and is heard of if it is a goal.
LEMMA HandlesStep ==
    ASSUME TypeOK, Staged, Handles, [Next]_vars, InTurn
    PROVE  Handles'
<1> USE DEF Handles, TypeOK
<1>1. mode' = mode BY ModeStays
<1>2. arms' = arms => Handles' BY <1>1
<1>3. \A a : arms' = Cancelled(a) => Handles' BY <1>1 DEF Cancelled
<1>4. Active /\ Send(Current) => Handles' BY <1>1, ActiveIsGoal DEF Send, Staged
<1>5. ASSUME Clients \/ Serving PROVE Handles'
  BY <1>2, <1>3, <1>4, <1>5
  DEF Clients, SendGoal, CancelGoal, Serving, PreemptBegins, PreemptStopsStart, PreemptStopsPause, Preempts, StopArm,
      AcceptGoal, GoalArmsTimer, GoalSends, Staged
<1>6. ASSUME StartTimer \/ PauseTimer PROVE Handles'
  BY <1>2, <1>3, <1>4, <1>6
  DEF StartTimer, StartTimerFires, StartTimerSends, PauseTimer, PauseTimerFires, PauseStopsTimer, PauseStopsArm,
      PauseAborts, StopArm, Staged, TimersOff, StartRuns
<1>7. ASSUME CloudArrives \/ CloudChecks PROVE Handles'
  BY <1>2, <1>3, <1>7
  DEF CloudArrives, CloudChecks, CloudPasses, CloudInvalid, CloudStops, CloudStopsTimer, CloudPauses, CloudTimesPause,
      CloudValid, CloudUnpauses, CloudResumes
<1>8. ASSUME NEW a \in Arms, Done(a) \/ ScanBegins(a) PROVE Handles'
  BY <1>1, <1>2, <1>8 DEF Done, DoneArrives, DoneIdles, DoneSettles, ScanBegins, AtRest
<1>9. ASSUME Scanning PROVE Handles'
  BY <1>1, <1>2, <1>3, <1>9 DEF Scanning, ScanCorrects, ScanCorrected, ScanLooks, ScanEnds, AtRest
<1>10. ASSUME UNCHANGED vars PROVE Handles' BY <1>2, <1>10 DEF vars
<1> QED BY <1>5, <1>6, <1>7, <1>8, <1>9, <1>10 DEF Next

\* At most one callback runs, and it leaves the next one what it expects.
LEMMA StagedStep ==
    ASSUME TypeOK, Staged, Waits, Handles, [Next]_vars, InTurn
    PROVE  Staged' /\ Waits'
<1> USE DEF Staged, InService, InCloud, InTimer, InDone, Tells, NoneDone, TimersOff, StartRuns, PauseRuns,
            Waits, TypeOK, timers, Relevant
<1>1. mode' = mode BY ModeStays
<1>2. server' = server => (Active' <=> Active) /\ Current' = Current /\ Pending(server')
  BY ServerInTurn
<1>3. \A s \in {"succeeded", "aborted", "canceled"} : server' = Settle(server, s) =>
          ~Active' /\ server'.next = server.next /\ Pending(server')
  BY ServerInTurn
<1>4. ~mode.concurrent /\ ~mode.overlap BY DEF InTurn
<1>5. ASSUME NEW g \in Goals, SendGoal(g) PROVE Staged' /\ Waits'
  <2>1. (Active' <=> Active) /\ Current' = Current /\ server'.next # 0 /\ Pending(server')
    BY <1>5, ServerInTurn
  <2>2. IsActive(server) <=> Active BY DEF Active
  <2> QED BY <1>1, <1>4, <1>5, <2>1, <2>2 DEF SendGoal, MayBegin, Quiet
<1>6. ASSUME NEW g \in Goals, CancelGoal(g) PROVE Staged' /\ Waits'
  <2>1. (Active' <=> Active) /\ Current' = Current /\ server'.next = server.next /\ Pending(server')
    BY <1>6, ServerInTurn
  <2>2. IsActive(server) <=> Active BY DEF Active
  <2> QED BY <1>1, <1>4, <1>6, <2>1, <2>2 DEF CancelGoal, MayBegin, Quiet
<1>7. ASSUME PreemptBegins \/ PreemptStopsStart \/ PreemptStopsPause PROVE Staged' /\ Waits'
  BY <1>1, <1>2, <1>7 DEF PreemptBegins, PreemptStopsStart, PreemptStopsPause
<1>8. ASSUME Preempts PROVE Staged' /\ Waits'
  BY <1>1, <1>3, <1>8 DEF Preempts, AfterPreempt, IsNewGoalAvailable
<1>9. ASSUME AcceptGoal PROVE Staged' /\ Waits'
  <2>1. /\ Active' <=> ArmOf[server.next] \in mode.used
        /\ Current' = server.next /\ server'.next = 0 /\ Pending(server')
    BY <1>9, ServerInTurn
  <2>2. AcceptNewGoal(server).current = server.next BY AcceptNewGoalFacts
  <2> QED BY <1>1, <1>9, <2>1, <2>2 DEF AcceptGoal
<1>10. ASSUME GoalArmsTimer PROVE Staged' /\ Waits' BY <1>1, <1>2, <1>10 DEF GoalArmsTimer
<1>11. ASSUME Active, Send(Current)
       PROVE  arms'[client].goal = Current /\ arms'[client].phase = "running"
  BY <1>11, ModesAssumption DEF Send
<1>12. ASSUME GoalSends PROVE Staged' /\ Waits' BY <1>1, <1>2, <1>11, <1>12 DEF GoalSends
<1>13. ASSUME StartTimer PROVE Staged' /\ Waits'
  BY <1>1, <1>2, <1>4, <1>11, <1>13 DEF StartTimer, StartTimerFires, StartTimerSends, MayBegin, Quiet
<1>14. ASSUME PauseTimer PROVE Staged' /\ Waits'
  BY <1>1, <1>2, <1>3, <1>4, <1>14
  DEF PauseTimer, PauseTimerFires, PauseStopsTimer, PauseStopsArm, PauseAborts, MayBegin, Quiet
<1>15. ASSUME CloudArrives \/ CloudPasses \/ CloudInvalid PROVE Staged' /\ Waits'
  BY <1>1, <1>2, <1>4, <1>15 DEF CloudArrives, CloudPasses, CloudInvalid, MayBegin, Quiet
<1>16. ASSUME CloudStops \/ CloudStopsTimer \/ CloudPauses \/ CloudTimesPause PROVE Staged' /\ Waits'
  BY <1>1, <1>2, <1>16 DEF CloudStops, CloudStopsTimer, CloudPauses, CloudTimesPause
<1>17. ASSUME CloudValid \/ CloudUnpauses \/ CloudResumes PROVE Staged' /\ Waits'
  BY <1>1, <1>2, <1>17 DEF CloudValid, CloudUnpauses, CloudResumes
<1>18. ASSUME NEW a \in Arms, DoneArrives(a) PROVE Staged' /\ Waits'
  BY <1>1, <1>2, <1>4, <1>18, ActiveIsGoal DEF DoneArrives, MayBegin, Quiet, AtRest, Handles
<1>19. ASSUME NEW a \in Arms, DoneIdles(a) PROVE Staged' /\ Waits' BY <1>1, <1>2, <1>19 DEF DoneIdles
<1>20. ASSUME NEW a \in Arms, DoneSettles(a) PROVE Staged' /\ Waits' BY <1>1, <1>3, <1>20 DEF DoneSettles
<1>21. ASSUME NEW a \in Arms, ScanBegins(a) PROVE Staged' /\ Waits'
  BY <1>1, <1>2, <1>4, <1>21 DEF ScanBegins, BodiesUnlocked, Quiet, Active
<1>22. ASSUME Scanning PROVE Staged' /\ Waits'
  BY <1>1, <1>2, <1>22 DEF Scanning, ScanCorrects, ScanCorrected, ScanLooks, ScanEnds
<1>23. ASSUME UNCHANGED vars PROVE Staged' /\ Waits' BY <1>1, <1>2, <1>23 DEF vars
<1> QED
  BY <1>5, <1>6, <1>7, <1>8, <1>9, <1>10, <1>12, <1>13, <1>14, <1>15, <1>16, <1>17, <1>18, <1>19, <1>20, <1>21,
     <1>22, <1>23
  DEF Next, Clients, Serving, CloudChecks, Done

\* With one arm, what moves is stopped or heard of before the status says otherwise.
LEMMA MovesStep ==
    ASSUME TypeOK, Staged, Waits, Handles, MovesInTurn, [Next]_vars, OneArmInTurn
    PROVE  MovesInTurn'
<1> USE DEF MovesInTurn, Moves, Staged, TimersOff, StartRuns, PauseRuns, TypeOK, timers
<1>1. mode' = mode /\ InTurn /\ ~mode.concurrent /\ ~mode.overlap BY ModeStays DEF OneArmInTurn, InTurn
<1>2. \A a, b \in mode.used : a = b
  <2>1. mode.used \subseteq Arms /\ IsFiniteSet(Arms) BY ModesAssumption, ArmsAssumption
  <2>2. IsFiniteSet(mode.used) BY <2>1, FS_Subset
  <2> QED BY <2>2, FS_Singleton DEF OneArmInTurn
<1>3. \A a \in Arms : Moves(a) => a = client BY <1>2 DEF Handles
<1>4. server' = server => (Active' <=> Active) /\ Current' = Current BY ServerInTurn
<1>5. ASSUME NEW g \in Goals, SendGoal(g) \/ CancelGoal(g) PROVE MovesInTurn'
  <2>1. (Active' <=> Active) /\ Current' = Current BY <1>5, ServerInTurn
  <2> QED BY <1>5, <2>1 DEF SendGoal, CancelGoal, NoneDone
<1>6. Cancelled(client) = arms' => \A a \in Arms : ~Moves(a)'
  BY <1>3 DEF Cancelled
<1>7. arms' = arms /\ (\A a \in Arms : ~Moves(a)) => MovesInTurn'
  OBVIOUS
<1>8. (\A a \in Arms : ~Moves(a)') => MovesInTurn'
  OBVIOUS
<1>9. status # "EXECUTING" \/ ~Active => \A a \in Arms : ~Moves(a)
  OBVIOUS
<1>10. ASSUME StopArm PROVE \A a \in Arms : ~Moves(a)'
  BY <1>6, <1>9, <1>10 DEF StopArm
<1>11. ASSUME PreemptBegins \/ PreemptStopsStart \/ PreemptStopsPause \/ GoalArmsTimer PROVE MovesInTurn'
  BY <1>4, <1>11 DEF PreemptBegins, PreemptStopsStart, PreemptStopsPause, GoalArmsTimer, NoneDone
<1>12. ASSUME Preempts \/ PauseStopsArm PROVE MovesInTurn'
  BY <1>8, <1>10, <1>12 DEF Preempts, PauseStopsArm
<1>13. ASSUME AcceptGoal PROVE MovesInTurn'
  BY <1>7, <1>9, <1>13 DEF AcceptGoal, InService, InCloud, InTimer, InDone
<1>14. ASSUME GoalSends \/ StartTimerSends PROVE MovesInTurn'
  <2>1. Active /\ status = "EXECUTING" /\ cloud = "idle" /\ NoneDone
    BY <1>14 DEF GoalSends, StartTimerSends, InService, InCloud, InTimer, InDone, Tells
  <2>2. \A a \in Arms : Moves(a)' => arms'[a].goal = Current
    BY <1>3, <1>14, <2>1 DEF GoalSends, StartTimerSends, Send, Handles
  <2> QED BY <1>4, <1>14, <2>1, <2>2 DEF GoalSends, StartTimerSends, NoneDone
<1>15. ASSUME StartTimerFires \/ PauseTimerFires \/ PauseStopsTimer PROVE MovesInTurn'
  BY <1>4, <1>15 DEF StartTimerFires, PauseTimerFires, PauseStopsTimer, NoneDone
<1>16. ASSUME PauseAborts PROVE MovesInTurn'
  BY <1>7, <1>9, <1>16 DEF PauseAborts, InService, InCloud, InTimer, InDone, Tells
<1>17. ASSUME CloudArrives \/ CloudPasses \/ CloudInvalid \/ CloudStopsTimer PROVE MovesInTurn'
  BY <1>4, <1>17 DEF CloudArrives, CloudPasses, CloudInvalid, CloudStopsTimer, NoneDone
<1>18. ASSUME CloudStops PROVE MovesInTurn'
  BY <1>4, <1>6, <1>7, <1>8, <1>9, <1>18 DEF CloudStops, NoneDone
<1>19. ASSUME CloudPauses \/ CloudTimesPause \/ CloudUnpauses \/ CloudResumes PROVE MovesInTurn'
  BY <1>7, <1>19 DEF CloudPauses, CloudTimesPause, CloudUnpauses, CloudResumes
<1>20. ASSUME CloudValid PROVE MovesInTurn' BY <1>7, <1>9, <1>20 DEF CloudValid
<1>21. ASSUME NEW a \in Arms, DoneArrives(a) PROVE MovesInTurn'
  <2>1. a = client \/ \A b \in Arms : ~Moves(b)
    BY <1>2, <1>3, <1>21 DEF DoneArrives, Handles
  <2> QED BY <1>3, <1>8, <1>21, <2>1 DEF DoneArrives, AtRest
<1>22. ASSUME NEW a \in Arms, DoneIdles(a) \/ DoneSettles(a) PROVE MovesInTurn'
  BY <1>7, <1>22 DEF DoneIdles, DoneSettles, NoneDone
<1>23. ASSUME NEW a \in Arms, ScanBegins(a) PROVE MovesInTurn'
  BY <1>4, <1>23 DEF ScanBegins, NoneDone
<1>24. ASSUME Scanning PROVE MovesInTurn'
  <2>1. \A a \in Arms : ~Moves(a)
    BY <1>9, <1>24 DEF Scanning, ScanCorrects, ScanCorrected, ScanLooks, ScanEnds
  <2> QED
    BY <1>8, <1>24, <2>1 DEF Scanning, ScanCorrects, ScanCorrected, ScanLooks, ScanEnds, AtRest, Cancelled
<1>25. ASSUME UNCHANGED vars PROVE MovesInTurn' BY <1>4, <1>25 DEF vars, NoneDone
<1> QED
  BY <1>5, <1>11, <1>12, <1>13, <1>14, <1>15, <1>16, <1>17, <1>18, <1>19, <1>20, <1>21, <1>22, <1>23, <1>24, <1>25
  DEF Next, Clients, Serving, StartTimer, PauseTimer, CloudChecks, Done

-----------------------------------------------------------------------------
(* The theorem *)

\* The inductive invariant.
IInv == /\ InTurn => Staged /\ Waits /\ Handles
        /\ OneArmInTurn => MovesInTurn

\* When callbacks take turns, an active goal is always about to be answered by the timer, the
\* controller or the pause its status names; with one arm, that arm moves along a trajectory
\* for the active goal only, and never while the status is PAUSED.
THEOREM StatusIsObeyed == Spec => []ArmObeysStatus
<1>1. ASSUME Init PROVE IInv
  <2>1. ~Active /\ server.next = 0 BY <1>1 DEF Init, NewServer, Active, IsActive
  <2> QED
    BY <1>1, <2>1 DEF Init, IInv, Staged, Waits, Handles, MovesInTurn, Moves, NoneDone, TimersOff, Pending, AtRest
<1>2. ASSUME TypeOK, IInv, [Next]_vars PROVE IInv'
  <2>1. mode' = mode BY <1>2, ModeStays
  <2>2. (InTurn' <=> InTurn) /\ (OneArmInTurn' <=> OneArmInTurn) /\ (OneArmInTurn => InTurn)
    BY <2>1 DEF InTurn, OneArmInTurn
  <2>3. InTurn => Staged' /\ Waits' /\ Handles' BY <1>2, StagedStep, HandlesStep DEF IInv
  <2>4. OneArmInTurn => MovesInTurn' BY <1>2, <2>2, MovesStep DEF IInv
  <2> QED BY <2>2, <2>3, <2>4 DEF IInv
<1>3. ASSUME TypeOK, IInv PROVE ArmObeysStatus
  <2>1. ASSUME OneArmInTurn PROVE PausedIsStill
    BY <1>3, <2>1 DEF IInv, MovesInTurn, Moves, PausedIsStill
  <2>2. StatusTellsWhatComes
    <3> SUFFICES ASSUME InTurn, Quiet, scan.pc = "idle" PROVE StatusTellsWhatComes
      BY DEF StatusTellsWhatComes
    <3>1. Staged BY <1>3 DEF IInv
    <3> QED
      BY <3>1 DEF StatusTellsWhatComes, Staged, Quiet, InService, InCloud, InTimer, InDone, Tells, TimersOff, Active,
                  StartRuns, PauseRuns
  <2>3. MovesForActiveGoal
    <3> SUFFICES ASSUME OneArmInTurn, NEW a \in Arms, Moves(a)
                 PROVE  server.status[arms[a].goal] = "active" /\ a = ArmOf[arms[a].goal]
      BY DEF MovesForActiveGoal, Moves
    <3>1. Active /\ arms[a].goal = Current BY <1>3 DEF IInv, MovesInTurn
    <3>2. Staged /\ Handles BY <1>3 DEF IInv, OneArmInTurn
    <3>3. a \in mode.used /\ client \in mode.used /\ client = ArmOf[Current]
      BY <3>1, <3>2 DEF Handles, Moves, Staged, TypeOK
    <3>4. mode.used \subseteq Arms /\ IsFiniteSet(Arms) BY <1>3, ModesAssumption, ArmsAssumption DEF TypeOK
    <3>5. IsFiniteSet(mode.used) BY <3>4, FS_Subset
    <3>6. a = client BY <3>3, <3>5, FS_Singleton DEF OneArmInTurn
    <3> QED BY <3>1, <3>3, <3>6 DEF Active, IsActive, Current
  <2> QED BY <2>1, <2>2, <2>3 DEF ArmObeysStatus, PausedIsStillInTurn
<1> QED BY <1>1, <1>2, <1>3, TypeCorrect, PTL DEF Spec

=============================================================================
