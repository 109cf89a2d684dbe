---------------------- MODULE MCCollisionFreeController ----------------------
(***************************************************************************)
(* Goals for the run of CollisionFreeController: a goal, its successor and *)
(* a third, so that a late answer can meet either.                         *)
(***************************************************************************)
EXTENDS CollisionFreeController

ThreeGoals == 1..3

=============================================================================
