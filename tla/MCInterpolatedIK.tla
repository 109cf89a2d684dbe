--------------------------- MODULE MCInterpolatedIK ---------------------------
(***************************************************************************)
(* Two joints and a line of length 6 that is cut into 2, 3 or 4 steps.  A  *)
(* world with an obstacle at the goal, one where the arm may flip over,    *)
(* one with a pose out of reach.                                           *)
(***************************************************************************)
EXTENDS InterpolatedIK

At(reach, free) == [reach |-> reach, free |-> free]
SomeWorlds ==
    LET a == <<1, 1>> b == <<2, 1>> c == <<3, 2>> d == <<1, 3>> none == At({}, {}) IN
    {[p \in 0..6 |-> IF p = 6 THEN At({b, c}, {}) ELSE At({a, b}, {a, b})],
     [p \in 0..6 |-> IF p < 3 THEN At({a}, {a}) ELSE At({b, d}, {d})],
     [p \in 0..6 |-> IF p = 2 THEN none ELSE IF p = 0 THEN At({c}, {}) ELSE At({b, c}, {c})]}

Set(n, spacing, aware, resolution, abort, fromEnd) ==
    [num_steps |-> n, pos_spacing |-> spacing, collision_aware |-> aware,
     collision_check_resolution |-> resolution, steps_before_abort |-> abort,
     start_from_end |-> fromEnd]
SomeParameters ==
    {Set(0, 3, TRUE, 2, -1, TRUE), Set(3, 0, TRUE, 0, 0, TRUE), Set(4, 0, TRUE, 2, 1, FALSE),
     Set(1, 0, FALSE, 1, -1, FALSE), Set(4, 0, TRUE, 1, -1, FALSE), Set(0, 0, TRUE, 1, 0, FALSE),
     Set(0, 0, FALSE, 1, -1, TRUE)}

=============================================================================
