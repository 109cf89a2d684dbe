----------------------------- MODULE MCMoveArm -----------------------------
(***************************************************************************)
(* Goals for the runs of MoveArm: two are enough for a goal and the one    *)
(* that bumps it, three for what is left behind when that one fails.       *)
(***************************************************************************)
EXTENDS MoveArm

TwoGoals == 1..2
ThreeGoals == 1..3

=============================================================================
