--------------------------- MODULE MCDistanceField ---------------------------
(* Three layers of a small room, and clouds of up to three points, of      *)
(* which the third cuts off the front of another; one cloud has a point    *)
(* outside of the room.                                                    *)
EXTENDS DistanceField

Room == <<4, 4, 3>>
Seen == {<<0, 0, 2>>, <<3, 3, 2>>, <<1, 2, 1>>}
Clouds == SUBSET Seen \cup {{<<-1, 0, 0>>, <<0, 0, 0>>}}

=============================================================================
