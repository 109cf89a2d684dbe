--------------------------- MODULE TrajectorySafety ---------------------------
(***************************************************************************)
(* CollisionProximitySpace::isTrajectorySafe, for a trajectory whose       *)
(* meshes collide: it may leave a collision at its start and enter one at  *)
(* its end.  A point of the trajectory is what the space says of the state *)
(* there: the distance of each sphere, and whether a link is in collision. *)
(***************************************************************************)
EXTENDS Integers, Sequences, SequencesExt

CONSTANT Tolerance      \* tolerance_

ASSUME ToleranceAssumption == Tolerance \in Int

Phases == {"None", "StartCollision", "Middle", "EndCollision"}
Unsafe == {"StartUnsafe", "EndUnsafe"}
Safe == {"MeshToMeshSafe", "InCollisionSafe"}

\* in_collision of a point.
InCollision(point) ==
    point.collision \/ \E k \in DOMAIN point.distances : point.distances[k] < Tolerance

\* The phase a point is in, after a phase.
NextPhase(phase, first, colliding) ==
    CASE phase = "None" /\ colliding /\ first -> "StartCollision"
      [] phase = "None" /\ colliding /\ ~first -> "EndCollision"
      [] phase = "None" /\ ~colliding /\ ~first -> "Middle"
      [] phase = "StartCollision" /\ ~colliding -> "Middle"
      [] phase = "Middle" /\ colliding -> "EndCollision"
      [] OTHER -> phase

\* Of the spheres in collision: farther in, in the first phase, or farther out,
\* in the last one, than when the sphere was last in collision.
WrongWay(phase, last, distances) ==
    \E k \in DOMAIN distances :
        /\ distances[k] <= Tolerance
        /\ \/ phase = "StartCollision" /\ distances[k] < last[k]
           \/ phase = "EndCollision" /\ distances[k] > last[k]

\* A mutation: a trajectory may leave the collision it ends in.
VisitForgiving(s, point) ==
    LET first == s.last = << >>
        phase == NextPhase(s.phase, first, InCollision(point))
        last == IF first THEN point.distances ELSE s.last
    IN  IF s.verdict = "InCollisionSafe" /\ WrongWay(phase, last, point.distances)
        THEN [s EXCEPT !.verdict = IF phase = "StartCollision" THEN "StartUnsafe" ELSE "EndUnsafe"]
        ELSE [s EXCEPT !.phase = phase,
                       !.last = [k \in DOMAIN last |-> IF point.distances[k] <= Tolerance
                                                       THEN point.distances[k] ELSE last[k]]]

\* One round of the loop over the points.
Visit(s, point) ==
    LET first == s.last = << >>
        colliding == InCollision(point)
        phase == NextPhase(s.phase, first, colliding)
        last == IF first THEN point.distances ELSE s.last
    IN  CASE s.verdict # "InCollisionSafe" -> s
          [] s.phase = "EndCollision" /\ ~colliding -> [s EXCEPT !.verdict = "EndUnsafe"]
          [] WrongWay(phase, last, point.distances) ->
                [s EXCEPT !.verdict = IF phase = "StartCollision" THEN "StartUnsafe" ELSE "EndUnsafe"]
          [] OTHER -> [s EXCEPT !.phase = phase,
                                !.last = [k \in DOMAIN last |-> IF point.distances[k] <= Tolerance
                                                                THEN point.distances[k] ELSE last[k]]]

\* What isTrajectorySafe answers.
isTrajectorySafe(meshValid, points) ==
    IF meshValid THEN "MeshToMeshSafe"
    ELSE FoldLeft(Visit, [phase |-> "None", last |-> << >>, verdict |-> "InCollisionSafe"],
                  points).verdict

=============================================================================
