--------------------------- MODULE MCChompOptimizer ---------------------------
(***************************************************************************)
(* Two free points on a line, or a circle, with two obstacles on it.       *)
(* A path past one, one into the other, one that stays in it, one that is *)
(* shorter the other way round; and paths for the filter.                  *)
(***************************************************************************)
EXTENDS ChompOptimizer

MinusOne == -1
TwoSolids == {1, 5}
ForwardDifference == <<0, -1, 1>>
Ask(kind, continuous, constrained, points) ==
    [kind |-> kind, continuous |-> continuous, constrained |-> constrained, points |-> points]
SomeRequests == {Ask("plan", FALSE, FALSE, <<0, 4>>), Ask("plan", FALSE, FALSE, <<0, 5>>),
                 Ask("plan", FALSE, FALSE, <<1, 1>>), Ask("plan", TRUE, FALSE, <<0, 5>>),
                 Ask("plan", FALSE, TRUE, <<0, 4>>), Ask("filter", FALSE, TRUE, <<0, 1, 4>>),
                 Ask("filter", FALSE, FALSE, <<0, 2, 4>>), Ask("filter", TRUE, FALSE, <<0, 5>>)}

=============================================================================
