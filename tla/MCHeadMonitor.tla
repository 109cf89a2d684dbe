---------------------------- MODULE MCHeadMonitor ----------------------------
(***************************************************************************)
(* Instances of HeadMonitor: goals that alternate between the arms, and a  *)
(* robot with both arms or with the right one only, that looks or not.     *)
(***************************************************************************)
EXTENDS HeadMonitor

BothArms == {"right", "left"}

ThreeGoals == 1..3
RightFirst == [g \in Goals |-> IF g % 2 = 1 THEN "right" ELSE "left"]

OneArm == [used |-> {"right"}, doScan |-> TRUE, doMonitoring |-> TRUE,
           overlap |-> FALSE, concurrent |-> FALSE]
TwoArms == [OneArm EXCEPT !.used = BothArms]
Trusting == [TwoArms EXCEPT !.doMonitoring = FALSE]
Blind == [TwoArms EXCEPT !.doMonitoring = FALSE, !.concurrent = TRUE]
Unscanned == [Blind EXCEPT !.doScan = FALSE]

InTurnOrBlind == {OneArm, TwoArms, Trusting, Blind, Unscanned}

=============================================================================
