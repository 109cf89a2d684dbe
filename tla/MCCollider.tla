------------------------------ MODULE MCCollider ------------------------------
(***************************************************************************)
(* Two rays of two cells, one of them slanted.  A camera source, a laser   *)
(* source, a second entry of the camera's name.  An obstacle behind        *)
(* another, a lone one, and an arm with an object in front of it.          *)
(***************************************************************************)
EXTENDS Collider

MinusOne == -1
NoneOrFirst == {{}, {1}}
AllInCone == {1, 2}
OneSlanted == <<0, 1>>
CameraAndLaser == <<[name |-> "camera", valid |-> TRUE, raw |-> TRUE, dynamic |-> TRUE],
                    [name |-> "camera", valid |-> TRUE, raw |-> TRUE, dynamic |-> FALSE],
                    [name |-> "laser", valid |-> TRUE, raw |-> FALSE, dynamic |-> TRUE]>>
SomeScenes == {[world |-> {<<1, 2>>, <<2, 1>>}, arm |-> {}, held |-> {}],
               [world |-> {<<1, 2>>}, arm |-> {}, held |-> {<<1, 1>>}],
               [world |-> {}, arm |-> {<<1, 1>>}, held |-> {<<2, 1>>}]}

=============================================================================
