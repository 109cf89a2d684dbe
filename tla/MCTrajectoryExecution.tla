----------------------- MODULE MCTrajectoryExecution -----------------------
(***************************************************************************)
(* Small instances of TrajectoryExecution.  As in the package's test the   *)
(* gripper's combo name sorts before the arm's.                            *)
(***************************************************************************)
EXTENDS TrajectoryExecution

Gripper == 1
Arm == 2

Ask(h, r, flags) == [handler |-> h, recorder |-> r, overshoot |-> "overshoot" \in flags,
                     failureOk |-> "failureOk" \in flags, closeTest |-> "closeTest" \in flags]

ArmMove == Ask(Arm, "joints", {"overshoot", "closeTest"})
ArmNudge == Ask(Arm, "joints", {"closeTest"})
Grasp == Ask(Gripper, "joints", {"failureOk"})

\* arm, gripper, arm: the order of the package's test
PickBatches == {<<ArmMove, Grasp, ArmNudge>>}
\* the same handler twice, the gripper asked to watch the overshoot
RepeatBatches == {<<ArmMove, ArmNudge>>, <<Grasp, ArmMove>>, <<Ask(Gripper, "joints", {"overshoot"})>>}
\* unknown handlers and recorders, two recorders for one arm
FaultyBatches == {<<Ask(3, "joints", {})>>, <<ArmMove, Ask(3, "joints", {})>>,
                  <<ArmMove, Ask(Gripper, "unknown", {})>>, <<ArmMove, Ask(Arm, "wheels", {})>>}
AllBatches == PickBatches \cup RepeatBatches \cup FaultyBatches

TwoRecorders == {"joints", "wheels"}

=============================================================================
