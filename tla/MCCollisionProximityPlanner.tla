---------------------- MODULE MCCollisionProximityPlanner ----------------------
(***************************************************************************)
(* A hand slides from an upper arm at 0 towards a base at 8; spheres of    *)
(* radius 1.  An obstacle in its way, seen or known, and objects in the    *)
(* hand: a cup that may touch the hand, one that may touch the upper arm   *)
(* too and has a lid, one that may touch nothing.                          *)
(***************************************************************************)
EXTENDS CollisionProximityPlanner

MCOffset == [upper |-> 0, hand |-> 1, base |-> 8]
MCReach == [upper |-> 0, hand |-> 1, base |-> 0]
MCGroupLinks == <<"upper", "hand">>
MCBodies == {"upper", "hand", "base"}
MCOperations == <<[object1 |-> "arm", object2 |-> "arm", enable |-> FALSE],
                  [object1 |-> "upper", object2 |-> "hand", enable |-> TRUE]>>
UpperExcluded == Append(MCOperations, [object1 |-> "upper", object2 |-> "upper", enable |-> FALSE])
Body(n, o, t) == [link |-> "hand", name |-> n, offset |-> o, touch |-> t]
Cup(t) == Body("cup", 1, t)
SceneOf(o, m, a) == [objects |-> o, map |-> m, joint |-> 0, attached |-> a, set |-> TRUE]
MCScenes == {SceneOf({}, {4}, <<Cup({"hand"})>>),
             SceneOf({}, {}, <<Cup({"hand", "upper"}), Body("lid", 2, {"hand"})>>),
             SceneOf({4}, {}, <<Cup({})>>)}
MCTrajectories == {<<0, 1, 2, 3, 4>>, <<1, 2, 3>>, <<1, 3, 5>>, <<5, 4, 3, 2, 1, 0>>,
                   <<3, 2, 3, 4>>, <<0, 1, 0>>, <<1, 0, 1, 2>>}

=============================================================================
