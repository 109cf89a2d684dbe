----------------------------- MODULE Selection -----------------------------
(***************************************************************************)
(* What a loop does that goes through a list and keeps some of it: the     *)
(* group's links, the objects they hold, a voxel's neighbours in the grid. *)
(***************************************************************************)
EXTENDS Integers, Sequences

\* The elements of a sequence that are wanted, in their order.
Selected(s, wanted) ==
    LET upTo[k \in 0..Len(s)] ==
          IF k = 0 THEN << >>
          ELSE IF s[k] \in wanted THEN Append(upTo[k - 1], s[k]) ELSE upTo[k - 1]
    IN  upTo[Len(s)]

=============================================================================
