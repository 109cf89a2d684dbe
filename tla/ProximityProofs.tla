---------------------------- MODULE ProximityProofs ----------------------------
(***************************************************************************)
(* Proofs about the two planners that ask isTrajectorySafe, and about the  *)
(* distance field that tells how close an obstacle is.                     *)
(* ChompOptimizer, for any differentiation rule, obstacles, limits and     *)
(* requests: the ends of a trajectory stay where the request says, the     *)
(* loop ends soon after a check found a safe trajectory, and the answer is *)
(* the cheapest trajectory and what was said of it is true.                *)
(* CollisionProximityPlanner, for any robot, group, default collision      *)
(* operations, scenes and trajectories: what is called free or safe is,    *)
(* and a path out of a collision starts at the start and goes in small     *)
(* steps.                                                                  *)
(* DistanceField, for any grid, largest distance, point clouds and         *)
(* clients: a distance is the one to the point the voxel names, and no     *)
(* obstacle is lost but one that was taken away before.                    *)
(***************************************************************************)
EXTENDS ChompOptimizer, CollisionProximityPlanner, DistanceField, FiniteSetTheorems,
        WellFoundedInduction, TLAPS

-----------------------------------------------------------------------------
(* Induction: what a fold over a finite set gives *)

LEMMA InductionOverNat ==
    ASSUME NEW G, 0 \in G, \A n \in Nat : n \in G => n + 1 \in G
    PROVE  Nat \subseteq G
<1> SUFFICES ASSUME Nat \ G # {} PROVE FALSE OBVIOUS
<1> DEFINE R == {p \in Nat \X Nat : p[1] < p[2]}
<1>1. IsWellFoundedOn(R, Nat) BY NatLessThanWellFounded DEF OpToRel
<1>2. PICK n \in Nat \ G : \A m \in Nat \ G : <<m, n>> \notin R
  <2> HIDE DEF R
  <2>1. Nat \ G \subseteq Nat OBVIOUS
  <2> QED BY <1>1, <2>1, WFMin
<1>3. n # 0 /\ n - 1 \in Nat /\ n - 1 < n BY <1>2
<1>4. n - 1 \in G BY <1>2, <1>3
<1>5. (n - 1) + 1 \in G BY <1>3, <1>4
<1> QED BY <1>3, <1>5

LEMMA LeastOfNat ==
    ASSUME NEW T \in SUBSET Nat, T # {}
    PROVE  \E x \in T : \A y \in T : x <= y
<1> DEFINE R == {p \in Nat \X Nat : p[1] < p[2]}
<1>1. IsWellFoundedOn(R, Nat) BY NatLessThanWellFounded DEF OpToRel
<1>2. PICK n \in T : \A m \in T : <<m, n>> \notin R
  <2> HIDE DEF R
  <2> QED BY <1>1, WFMin
<1>3. \A m \in T : <<m, n>> \in Nat \X Nat /\ ~(m < n) BY <1>2
<1>4. \A m \in T : n <= m
  <2>1. \A m \in Nat : n \in Nat /\ ~(m < n) => n <= m OBVIOUS
  <2> QED BY <1>3, <2>1
<1> QED BY Zenon, <1>4

\* c[s] is the element of s that a fold takes next.
Chooses(c, S) == \A s \in SUBSET S : s # {} => c[s] \in s

\* What is true of the empty set, and of a set when it is of the set without one chosen
\* element, is true of a finite set.
LEMMA InductionByElement ==
    ASSUME NEW S, IsFiniteSet(S), NEW c, Chooses(c, S), NEW G, {} \in G,
           \A s \in SUBSET S : s # {} /\ s \ {c[s]} \in G => s \in G
    PROVE  S \in G
<1> DEFINE Good == {n \in Nat : \A s \in SUBSET S : Cardinality(s) = n => s \in G}
<1>1. \A s \in SUBSET S : IsFiniteSet(s) /\ Cardinality(s) \in Nat BY FS_Subset, FS_CardinalityType
<1>2. 0 \in Good BY <1>1, FS_EmptySet
<1>3. ASSUME NEW n \in Nat, n \in Good PROVE n + 1 \in Good
  <2>1. ASSUME NEW s \in SUBSET S, Cardinality(s) = n + 1 PROVE s \in G
    <3>1. s # {} BY <1>1, <2>1, FS_EmptySet
    <3>2. c[s] \in s BY <3>1 DEF Chooses
    <3>3. Cardinality(s \ {c[s]}) = n /\ s \ {c[s]} \in SUBSET S
      <4>1. IsFiniteSet(s) BY <1>1
      <4>2. Cardinality(s \ {c[s]}) = Cardinality(s) - 1 BY <3>2, <4>1, FS_RemoveElement
      <4> QED BY <2>1, <4>2
    <3>4. s \ {c[s]} \in G BY <1>3, <3>3
    <3> QED BY <3>1, <3>4
  <2> QED BY <2>1
<1>4. Nat \subseteq Good
  <2> HIDE DEF Good
  <2> QED BY <1>2, <1>3, InductionOverNat
<1> QED BY <1>1, <1>4

\* f[s] is what the fold of s gives, F of an element and of the fold of the others.
IsFold(f, S, c, base, F) ==
    \A s \in SUBSET S : f[s] = IF s = {} THEN base ELSE F[<<c[s], f[s \ {c[s]}]>>]

\* A fold over a finite set has a value: its recursive function exists.
LEMMA FoldExists ==
    ASSUME NEW S, IsFiniteSet(S), NEW c, Chooses(c, S), NEW V, NEW base \in V,
           NEW F \in [S \X V -> V]
    PROVE  \E f \in [SUBSET S -> V] : IsFold(f, S, c, base, F)
<1> DEFINE Small(n) == {s \in SUBSET S : Cardinality(s) <= n}
           Folds(f, n) == \A s \in Small(n) : f[s] = IF s = {} THEN base ELSE F[<<c[s], f[s \ {c[s]}]>>]
           Good == {n \in Nat : \E f \in [Small(n) -> V] : Folds(f, n)}
<1>1. \A s \in SUBSET S : IsFiniteSet(s) /\ Cardinality(s) \in Nat BY FS_Subset, FS_CardinalityType
<1>2. \A s \in SUBSET S : s # {} => c[s] \in s BY DEF Chooses
<1>3. \A s \in SUBSET S : s # {} => Cardinality(s \ {c[s]}) = Cardinality(s) - 1
  BY <1>1, <1>2, FS_RemoveElement
<1>4. 0 \in Good
  <2>1. Small(0) = {{}} BY <1>1, FS_EmptySet
  <2>2. [s \in Small(0) |-> base] \in [Small(0) -> V] OBVIOUS
  <2> QED BY <2>1, <2>2
<1>5. ASSUME NEW n \in Nat, n \in Good PROVE n + 1 \in Good
  <2>1. PICK f \in [Small(n) -> V] : Folds(f, n) BY <1>5
  <2> DEFINE h == [s \in Small(n + 1) |-> IF s = {} THEN base ELSE F[<<c[s], f[s \ {c[s]}]>>]]
  <2>2. \A s \in Small(n + 1) : s # {} => s \ {c[s]} \in Small(n) BY <1>1, <1>2, <1>3
  <2>3. h \in [Small(n + 1) -> V] BY <1>2, <2>2
  <2>4. \A s \in Small(n) : h[s] = f[s] /\ s \in Small(n + 1) BY <1>1, <2>1
  <2>5. Folds(h, n + 1) BY <2>2, <2>4
  <2> HIDE DEF h, Small, Folds
  <2>6. \E g \in [Small(n + 1) -> V] : Folds(g, n + 1) BY <2>3, <2>5
  <2>7. n + 1 \in Nat OBVIOUS
  <2> QED BY <2>6, <2>7
<1>6. Nat \subseteq Good
  <2> HIDE DEF Good
  <2> QED BY <1>4, <1>5, InductionOverNat
<1>7. Small(Cardinality(S)) = SUBSET S BY <1>1, FS_Subset
<1>8. Cardinality(S) \in Good BY <1>1, <1>6
<1> HIDE DEF Small
<1> QED BY <1>7, <1>8 DEF IsFold

\* The last of some points.
LEMMA LastPointIsOne ==
    ASSUME NEW n \in Nat, NEW s \in SUBSET (1..n), s # {}
    PROVE  Max(s) \in s
<1> DEFINE T == {n - x : x \in s}
<1>1. T \in SUBSET Nat /\ T # {}
  <2>1. \A x \in s : n - x \in Nat OBVIOUS
  <2>2. PICK x : x \in s OBVIOUS
  <2>3. n - x \in T BY <2>2
  <2> QED BY <2>1, <2>3
<1>2. PICK y \in T : \A z \in T : y <= z
  <2> HIDE DEF T
  <2> QED BY <1>1, LeastOfNat
<1>3. PICK x \in s : y = n - x BY <1>2
<1>4. \A z \in s : x >= z
  <2>1. \A z \in s : n - z \in T /\ z \in Int OBVIOUS
  <2> QED BY <1>2, <1>3, <2>1
<1> QED BY <1>3, <1>4 DEF Max

\* f[k] is what F makes of base and the numbers up to k.
IsIteration(f, n, base, F) == \A k \in 0..n : f[k] = IF k = 0 THEN base ELSE F[<<k, f[k - 1]>>]

\* What is done for each of some numbers in turn has a result: the function of what it is after each.
LEMMA IterationExists ==
    ASSUME NEW n \in Nat, NEW V, NEW base \in V, NEW F \in [(1..n) \X V -> V]
    PROVE  \E f \in [0..n -> V] : IsIteration(f, n, base, F)
<1> DEFINE Runs(f, m) == \A k \in 0..m : f[k] = IF k = 0 THEN base ELSE F[<<k, f[k - 1]>>]
           Good == {m \in Nat : m <= n => \E f \in [0..m -> V] : Runs(f, m)}
<1>1. 0 \in Good
  <2>1. [k \in 0..0 |-> base] \in [0..0 -> V] /\ Runs([k \in 0..0 |-> base], 0) OBVIOUS
  <2> QED BY <2>1
<1>2. ASSUME NEW m \in Nat, m \in Good PROVE m + 1 \in Good
  <2> SUFFICES ASSUME m + 1 <= n PROVE \E f \in [0..m + 1 -> V] : Runs(f, m + 1) OBVIOUS
  <2>1. PICK f \in [0..m -> V] : Runs(f, m) BY <1>2
  <2> DEFINE h == [k \in 0..m + 1 |-> IF k = 0 THEN base ELSE F[<<k, f[k - 1]>>]]
  <2>2. h \in [0..m + 1 -> V] OBVIOUS
  <2>3. \A k \in 0..m : h[k] = f[k] BY <2>1
  <2>4. \A k \in 1..m + 1 : k - 1 \in 0..m OBVIOUS
  <2>5. \A k \in 0..m + 1 : h[k] = IF k = 0 THEN base ELSE F[<<k, h[k - 1]>>]
    <3>1. \A k \in 0..m + 1 : k # 0 => k \in 1..m + 1 OBVIOUS
    <3>2. \A k \in 1..m + 1 : h[k - 1] = f[k - 1] BY <2>3, <2>4
    <3>3. \A k \in 0..m + 1 : h[k] = IF k = 0 THEN base ELSE F[<<k, f[k - 1]>>] OBVIOUS
    <3> HIDE DEF h
    <3> QED BY <3>1, <3>2, <3>3
  <2> HIDE DEF h
  <2> QED BY <2>2, <2>5
<1>3. Nat \subseteq Good
  <2> HIDE DEF Good
  <2> QED BY <1>1, <1>2, InductionOverNat
<1> QED BY <1>3 DEF IsIteration

-----------------------------------------------------------------------------
(* isTrajectorySafe *)

\* What it has after a point: the distances of D.
PointsOver(D) == [distances : [D -> Int], collision : BOOLEAN]
Memories(D) == [phase : Phases, last : {<< >>} \cup [D -> Int],
                verdict : {"InCollisionSafe"} \cup Unsafe]
NoMemory == [phase |-> "None", last |-> << >>, verdict |-> "InCollisionSafe"]

LEMMA VisitRemembers ==
    ASSUME NEW D, NEW v \in Memories(D), NEW p \in PointsOver(D)
    PROVE  Visit(v, p) \in Memories(D)
<1> DEFINE V == Memories(D)
           phase == NextPhase(v.phase, v.last = << >>, InCollision(p))
           last == IF v.last = << >> THEN p.distances ELSE v.last
           farther == [k \in DOMAIN last |-> IF p.distances[k] <= Tolerance THEN p.distances[k] ELSE last[k]]
<1>1. p.distances \in [D -> Int] BY DEF PointsOver
<1>2. last \in [D -> Int] BY <1>1 DEF Memories
<1>3. phase \in Phases
  <2>1. v.phase \in Phases BY DEF Memories
  <2> QED BY <2>1 DEF NextPhase, Phases
<1>4. farther \in [D -> Int] BY <1>1, <1>2
<1>5. \/ Visit(v, p) = v
      \/ \E u \in Unsafe : Visit(v, p) = [v EXCEPT !.verdict = u]
      \/ Visit(v, p) = [v EXCEPT !.phase = phase, !.last = farther]
  BY DEF Visit, Unsafe
<1> HIDE DEF phase, farther
<1>6. \A u \in Unsafe : [v EXCEPT !.verdict = u] \in V BY DEF Memories
<1>7. [v EXCEPT !.phase = phase, !.last = farther] \in V BY <1>3, <1>4 DEF Memories
<1> HIDE DEF V
<1>8. v \in V BY DEF V
<1>9. Visit(v, p) \in V BY <1>5, <1>6, <1>7, <1>8
<1> QED BY <1>9 DEF V

LEMMA LastOfInterval1 ==
    ASSUME NEW k \in Nat \ {0}
    PROVE  Max(1..k) = k /\ (1..k) \ {k} = 1..k - 1
<1>1. Max(1..k) \in 1..k /\ \A x \in 1..k : x <= Max(1..k)
  <2>1. k \in 1..k /\ \A x \in 1..k : x <= k OBVIOUS
  <2> QED BY <2>1 DEF Max
<1>2. Max(1..k) = k
  <2>1. k \in 1..k OBVIOUS
  <2> QED BY <1>1, <2>1
<1>3. \A x : x \in (1..k) \ {k} <=> x \in 1..k - 1 OBVIOUS
<1> QED BY <1>2, <1>3

\* A trajectory that is not clear of the meshes is visited point by point.
LEMMA SafetyByVisits ==
    ASSUME NEW D, NEW n \in Nat, NEW ps \in [1..n -> PointsOver(D)]
    PROVE  \E f \in [0..n -> Memories(D)] :
              /\ f[0] = NoMemory /\ \A k \in 1..n : f[k] = Visit(f[k - 1], ps[k])
              /\ isTrajectorySafe(FALSE, ps) = f[n].verdict
<1> DEFINE S == 1..n
           V == Memories(D)
           c == [s \in SUBSET S |-> Max(s)]
           F == [p \in S \X V |-> Visit(p[2], ps[p[1]])]
           iter == CHOOSE f : f = [s \in SUBSET S |->
                       IF s = {} THEN NoMemory ELSE Visit(f[s \ {Max(s)}], ps[Max(s)])]
<1>1. isTrajectorySafe(FALSE, ps) = iter[S].verdict
  BY DEF isTrajectorySafe, FoldLeft, MapThenFoldSet, NoMemory
<1> HIDE DEF iter
<1>2. NoMemory \in V BY DEF NoMemory, Memories, Phases
<1>3. ASSUME NEW v \in V, NEW i \in S PROVE Visit(v, ps[i]) \in V BY VisitRemembers
<1>4. F \in [S \X V -> V] BY <1>3
<1>5. Chooses(c, S) BY LastPointIsOne DEF Chooses
<1>6. IsFiniteSet(S) BY FS_Interval
<1> HIDE DEF F, c, V
<1>7. PICK f \in [SUBSET S -> V] : IsFold(f, S, c, NoMemory, F)
  <2> HIDE DEF S
  <2> QED BY <1>2, <1>4, <1>5, <1>6, FoldExists
<1>8. ASSUME NEW s \in SUBSET S, s # {}
      PROVE  F[<<c[s], f[s \ {c[s]}]>>] = Visit(f[s \ {c[s]}], ps[c[s]])
  <2>1. c[s] \in S /\ f[s \ {c[s]}] \in V BY <1>5, <1>8 DEF Chooses
  <2> QED BY <2>1 DEF F
<1>9. f = [s \in SUBSET S |-> IF s = {} THEN NoMemory ELSE Visit(f[s \ {Max(s)}], ps[Max(s)])]
  BY <1>7, <1>8 DEF c, IsFold
<1>10. iter = [s \in SUBSET S |-> IF s = {} THEN NoMemory ELSE Visit(iter[s \ {Max(s)}], ps[Max(s)])]
  BY <1>9 DEF iter
<1> DEFINE g == [k \in 0..n |-> iter[1..k]]
<1>11. iter[1..0] = NoMemory
  <2>1. 1..0 = {} /\ {} \in SUBSET S OBVIOUS
  <2> QED BY <1>10, <2>1
<1>12. \A k \in 1..n : iter[1..k] = Visit(iter[1..k - 1], ps[k])
  <2> SUFFICES ASSUME NEW k \in 1..n PROVE iter[1..k] = Visit(iter[1..k - 1], ps[k]) OBVIOUS
  <2>1. 1..k \in SUBSET S /\ 1..k # {} /\ k \in Nat \ {0} OBVIOUS
  <2>2. Max(1..k) = k /\ (1..k) \ {k} = 1..k - 1 BY <2>1, LastOfInterval1
  <2>3. iter[1..k] = Visit(iter[(1..k) \ {Max(1..k)}], ps[Max(1..k)]) BY <1>10, <2>1
  <2> QED BY <2>2, <2>3
<1>13. g[0] = NoMemory /\ \A k \in 1..n : g[k] = Visit(g[k - 1], ps[k])
  <2>1. 0 \in 0..n /\ \A k \in 1..n : k \in 0..n /\ k - 1 \in 0..n OBVIOUS
  <2> QED BY <1>11, <1>12, <2>1
<1> DEFINE G == {k \in Nat : k <= n => g[k] \in V}
<1>14. 0 \in G BY <1>2, <1>13
<1>15. ASSUME NEW k \in Nat, k \in G PROVE k + 1 \in G
  <2> SUFFICES ASSUME k + 1 <= n PROVE g[k + 1] \in V OBVIOUS
  <2>1. k + 1 \in 1..n /\ (k + 1) - 1 = k /\ g[k] \in V BY <1>15
  <2> HIDE DEF g
  <2>2. g[k + 1] = Visit(g[k], ps[k + 1]) BY <1>13, <2>1
  <2> QED BY <1>3, <2>1, <2>2
<1>16. Nat \subseteq G
  <2> HIDE DEF G
  <2> QED BY <1>14, <1>15, InductionOverNat
<1>17. g \in [0..n -> V]
  <2>1. ASSUME NEW k \in 0..n PROVE g[k] \in V
    <3>1. k \in Nat /\ k <= n OBVIOUS
    <3>2. k \in G
      <4> HIDE DEF G
      <4> QED BY <1>16, <3>1
    <3> QED BY <3>1, <3>2
  <2> QED BY <2>1
<1>18. g[n] = iter[S] OBVIOUS
<1> HIDE DEF g
<1> QED BY <1>1, <1>13, <1>17, <1>18 DEF V

\* A point that the trajectory is still safe after.
LEMMA VisitIsSafe ==
    ASSUME NEW D, D # {}, NEW v \in Memories(D), NEW p \in PointsOver(D),
           v.verdict = "InCollisionSafe", Visit(v, p).verdict = "InCollisionSafe"
    PROVE  /\ Visit(v, p).last # << >>
           /\ Visit(v, p).phase = NextPhase(v.phase, v.last = << >>, InCollision(p))
           /\ ~(v.phase = "EndCollision" /\ ~InCollision(p))
<1> DEFINE phase == NextPhase(v.phase, v.last = << >>, InCollision(p))
           last == IF v.last = << >> THEN p.distances ELSE v.last
           farther == [k \in DOMAIN last |-> IF p.distances[k] <= Tolerance THEN p.distances[k] ELSE last[k]]
<1>1. p.distances \in [D -> Int] BY DEF PointsOver
<1>2. last \in [D -> Int] BY <1>1 DEF Memories
<1>3. \A u \in Unsafe : [v EXCEPT !.verdict = u].verdict = u BY DEF Memories
<1>4. ~(v.phase = "EndCollision" /\ ~InCollision(p)) /\ ~WrongWay(phase, last, p.distances)
  BY <1>3 DEF Visit, Unsafe
<1>5. Visit(v, p) = [v EXCEPT !.phase = phase, !.last = farther] BY <1>4 DEF Visit
<1>6. DOMAIN farther # {} BY <1>2
<1> HIDE DEF phase, farther
<1>7. Visit(v, p).phase = phase /\ Visit(v, p).last = farther BY <1>5 DEF Memories
<1> QED BY <1>4, <1>6, <1>7 DEF phase

\* What it calls safe does not go from free space through a collision and out of it again.
LEMMA SafeStaysIn ==
    ASSUME NEW D, D # {}, NEW n \in Nat, NEW ps \in [1..n -> PointsOver(D)],
           NEW i \in 1..n, NEW j \in 1..n, NEW k \in 1..n, i < j, j < k,
           ~InCollision(ps[i]), InCollision(ps[j]), ~InCollision(ps[k])
    PROVE  isTrajectorySafe(FALSE, ps) # "InCollisionSafe"
<1> SUFFICES ASSUME isTrajectorySafe(FALSE, ps) = "InCollisionSafe" PROVE FALSE OBVIOUS
<1>1. PICK f \in [0..n -> Memories(D)] :
          /\ f[0] = NoMemory /\ \A m \in 1..n : f[m] = Visit(f[m - 1], ps[m])
          /\ isTrajectorySafe(FALSE, ps) = f[n].verdict
  BY SafetyByVisits
<1> DEFINE G == {m \in Nat : m <= n => f[n - m].verdict = "InCollisionSafe"}
<1>2. 0 \in G
  <2>1. n - 0 = n OBVIOUS
  <2> QED BY <1>1, <2>1
<1>3. ASSUME NEW m \in Nat, m \in G PROVE m + 1 \in G
  <2> SUFFICES ASSUME m + 1 <= n PROVE f[n - (m + 1)].verdict = "InCollisionSafe" OBVIOUS
  <2>1. n - m \in 1..n /\ n - (m + 1) \in 0..n /\ (n - m) - 1 = n - (m + 1) OBVIOUS
  <2>2. f[n - m].verdict = "InCollisionSafe" BY <1>3
  <2>3. f[n - m] = Visit(f[n - (m + 1)], ps[n - m]) BY <1>1, <2>1
  <2> QED BY <2>2, <2>3 DEF Visit
<1>4. Nat \subseteq G
  <2> HIDE DEF G
  <2> QED BY <1>2, <1>3, InductionOverNat
<1>5. ASSUME NEW m \in 0..n PROVE f[m].verdict = "InCollisionSafe"
  <2>1. n - m \in Nat /\ n - m <= n /\ n - (n - m) = m OBVIOUS
  <2> QED BY <1>4, <2>1
<1>6. ASSUME NEW m \in 1..n
      PROVE  /\ f[m].last # << >>
             /\ f[m].phase = NextPhase(f[m - 1].phase, f[m - 1].last = << >>, InCollision(ps[m]))
             /\ ~(f[m - 1].phase = "EndCollision" /\ ~InCollision(ps[m]))
             /\ f[m - 1].phase \in Phases
  <2>1. m - 1 \in 0..n /\ m \in 0..n OBVIOUS
  <2>2. f[m - 1] \in Memories(D) /\ ps[m] \in PointsOver(D) BY <1>1, <2>1
  <2>3. f[m] = Visit(f[m - 1], ps[m]) BY <1>1
  <2>4. f[m - 1].verdict = "InCollisionSafe" /\ f[m].verdict = "InCollisionSafe" BY <1>5, <2>1
  <2>5. f[m - 1].phase \in Phases BY <2>2 DEF Memories
  <2> QED BY <2>2, <2>3, <2>4, <2>5, VisitIsSafe
<1>7. f[i].phase \in {"None", "Middle"} BY <1>6 DEF NextPhase, Phases
<1> DEFINE H == {m \in Nat : i + m <= n => f[i + m].phase \in {"None", "Middle", "EndCollision"}}
<1>8. 0 \in H BY <1>7
<1>9. ASSUME NEW m \in Nat, m \in H PROVE m + 1 \in H
  <2> SUFFICES ASSUME i + (m + 1) <= n
               PROVE  f[i + (m + 1)].phase \in {"None", "Middle", "EndCollision"} OBVIOUS
  <2>1. i + m \in 1..n /\ i + (m + 1) \in 1..n /\ (i + (m + 1)) - 1 = i + m OBVIOUS
  <2>2. f[i + m].phase \in {"None", "Middle", "EndCollision"} /\ f[i + m].last # << >>
    BY <1>6, <1>9, <2>1
  <2>3. f[i + (m + 1)].phase = NextPhase(f[i + m].phase, f[i + m].last = << >>, InCollision(ps[i + (m + 1)]))
    BY <1>6, <2>1
  <2> QED BY <2>2, <2>3 DEF NextPhase
<1>10. Nat \subseteq H
  <2> HIDE DEF H
  <2> QED BY <1>8, <1>9, InductionOverNat
<1>11. f[j].phase = "EndCollision"
  <2>1. (j - 1) - i \in Nat /\ i + ((j - 1) - i) = j - 1 /\ j - 1 \in 1..n OBVIOUS
  <2>2. f[j - 1].phase \in {"None", "Middle", "EndCollision"}
    <3>1. (j - 1) - i \in H BY <1>10, <2>1
    <3>2. i + ((j - 1) - i) <= n BY <2>1
    <3> QED BY <2>1, <3>1, <3>2
  <2>3. f[j - 1].last # << >> BY <1>6, <2>1
  <2>4. f[j].phase = NextPhase(f[j - 1].phase, f[j - 1].last = << >>, InCollision(ps[j])) BY <1>6
  <2> QED BY <2>2, <2>3, <2>4 DEF NextPhase
<1> DEFINE E == {m \in Nat : j + m <= n => f[j + m].phase = "EndCollision"}
<1>12. 0 \in E BY <1>11
<1>13. ASSUME NEW m \in Nat, m \in E PROVE m + 1 \in E
  <2> SUFFICES ASSUME j + (m + 1) <= n PROVE f[j + (m + 1)].phase = "EndCollision" OBVIOUS
  <2>1. j + (m + 1) \in 1..n /\ (j + (m + 1)) - 1 = j + m OBVIOUS
  <2>2. f[j + m].phase = "EndCollision" BY <1>13
  <2> QED BY <1>6, <2>1, <2>2 DEF NextPhase
<1>14. Nat \subseteq E
  <2> HIDE DEF E
  <2> QED BY <1>12, <1>13, InductionOverNat
<1>15. f[k - 1].phase = "EndCollision"
  <2>1. (k - 1) - j \in Nat /\ j + ((k - 1) - j) = k - 1 /\ k - 1 <= n OBVIOUS
  <2> QED BY <1>14, <2>1
<1> QED BY <1>6, <1>15

-----------------------------------------------------------------------------
(* ChompOptimizer: sums *)

\* The sum of integers is one.
LEMMA SumIsInt ==
    ASSUME NEW S, IsFiniteSet(S), NEW w \in [S -> Int]
    PROVE  SumFunction(w) \in Int
<1> DEFINE c == [s \in SUBSET S |-> CHOOSE x \in s : TRUE]
           F == [p \in S \X Int |-> w[p[1]] + p[2]]
<1>1. Chooses(c, S) BY DEF Chooses
<1>2. F \in [S \X Int -> Int] /\ 0 \in Int OBVIOUS
<1> HIDE DEF F, c
<1>3. PICK f \in [SUBSET S -> Int] : IsFold(f, S, c, 0, F) BY <1>1, <1>2, FoldExists
<1>4. ASSUME NEW s \in SUBSET S, s # {} PROVE F[<<c[s], f[s \ {c[s]}]>>] = w[c[s]] + f[s \ {c[s]}]
  <2>1. c[s] \in S /\ f[s \ {c[s]}] \in Int BY <1>1, <1>4 DEF Chooses
  <2> QED BY <2>1 DEF F
<1>5. f = [s \in SUBSET S |->
                IF s = {} THEN 0 ELSE w[CHOOSE x \in s : TRUE] + f[s \ {CHOOSE x \in s : TRUE}]]
  BY <1>3, <1>4 DEF c, IsFold
<1> DEFINE iter == CHOOSE f_1 : f_1 = [s \in SUBSET S |->
                IF s = {} THEN 0 ELSE w[CHOOSE x \in s : TRUE] + f_1[s \ {CHOOSE x \in s : TRUE}]]
<1>6. iter = [s \in SUBSET S |->
                IF s = {} THEN 0 ELSE w[CHOOSE x \in s : TRUE] + iter[s \ {CHOOSE x \in s : TRUE}]]
  BY <1>5
<1>7. SumFunction(w) = iter[S]
  BY DEF SumFunction, SumFunctionOnSet, FoldFunctionOnSet, MapThenFoldSet
<1> HIDE DEF iter
<1>8. \A s \in SUBSET S : iter[s] = IF s = {} THEN 0 ELSE w[c[s]] + iter[s \ {c[s]}]
  BY <1>6 DEF c
<1> DEFINE G == {s \in SUBSET S : iter[s] \in Int}
<1>9. ASSUME NEW s \in SUBSET S, s # {}, s \ {c[s]} \in G PROVE s \in G
  <2>1. w[c[s]] \in Int BY <1>1, <1>9 DEF Chooses
  <2>2. iter[s] = w[c[s]] + iter[s \ {c[s]}] BY <1>8, <1>9
  <2> QED BY <1>9, <2>1, <2>2
<1>10. {} \in G
  <2>1. iter[{}] = 0 BY <1>8
  <2> QED BY <2>1
<1>11. S \in G
  <2> HIDE DEF G
  <2> QED BY <1>1, <1>9, <1>10, InductionByElement
<1> QED BY <1>7, <1>11

-----------------------------------------------------------------------------
(* Trajectories and their groups *)

\* A function from 0 with at least one free point.
IsTrajectory(t) == LastOf(t) \in Nat \ 0..1 /\ t = [i \in 0..LastOf(t) |-> t[i]]

\* g is a group trajectory whose ends are those of t.
Frames(g, t) == /\ g = [i \in 0..GroupLast(t) |-> g[i]]
                /\ \A i \in 0..GroupLast(t) : i \notin Pad..(GroupLast(t) - Pad) => g[i] = t[FullIndex(t, i)]

LEMMA LastOfInterval ==
    ASSUME NEW n \in Nat, NEW t, DOMAIN t = 0..n
    PROVE  LastOf(t) = n
<1>1. Cardinality(0..n) = n + 1 BY FS_Interval
<1> QED BY <1>1 DEF LastOf

LEMMA PadIsPositive == Pad \in Nat \ {0}
<1>1. Rule \in Seq(Int) /\ Len(Rule) > 2 BY Zenon, RuleAssumption
<1>2. Len(Rule) \in Nat BY <1>1
<1>3. \A n \in Nat : n > 2 => n - 1 \in Nat \ {0} OBVIOUS
<1> QED BY <1>1, <1>2, <1>3 DEF Pad

LEMMA GroupLasts ==
    ASSUME NEW t, IsTrajectory(t)
    PROVE  GroupLast(t) \in Nat /\ GroupLast(t) >= 2 * Pad
BY PadIsPositive DEF IsTrajectory, GroupLast

\* The group of a trajectory has its ends.
LEMMA GroupFrames ==
    ASSUME NEW t, IsTrajectory(t)
    PROVE  Frames(GroupOf(t), t)
BY GroupLasts DEF Frames, GroupOf

LEMMA FreeOfFrame ==
    ASSUME NEW t, IsTrajectory(t), NEW g, Frames(g, t)
    PROVE  DOMAIN g = 0..GroupLast(t) /\ FreeVars(g) = Pad..(GroupLast(t) - Pad)
<1>1. DOMAIN g = 0..GroupLast(t) BY DEF Frames
<1>2. LastOf(g) = GroupLast(t) BY <1>1, GroupLasts, LastOfInterval
<1> QED BY <1>1, <1>2 DEF FreeVars

\* To copy the free points of a group that has the trajectory's ends back, and to repeat
\* the ends again, gives the group: both ways of counting points agree.
LEMMA UpdatedHasGroup ==
    ASSUME NEW t, IsTrajectory(t), NEW g, Frames(g, t)
    PROVE  LET new == Updated(t, g) IN
           /\ IsTrajectory(new) /\ LastOf(new) = LastOf(t)
           /\ new[0] = t[0] /\ new[LastOf(new)] = t[LastOf(t)]
           /\ GroupOf(new) = g
           /\ \A h : Frames(h, t) => Frames(h, new)
<1> DEFINE new == Updated(t, g)
           last == LastOf(t)
<1>1. last \in Nat \ 0..1 /\ DOMAIN t = 0..last BY DEF IsTrajectory
<1>2. new = [i \in 0..last |-> IF i \in 1..last - 1 THEN g[Pad + i - 1] ELSE t[i]]
  BY <1>1 DEF Updated, FreePoints, EndIndex
<1> HIDE DEF new
<1>3. LastOf(new) = last BY <1>1, <1>2, LastOfInterval
<1>4. IsTrajectory(new) BY <1>1, <1>2, <1>3 DEF IsTrajectory
<1>5. new[0] = t[0] /\ new[LastOf(new)] = t[last] BY <1>1, <1>2, <1>3
<1>6. GroupLast(new) = GroupLast(t) /\ \A i : FullIndex(new, i) = FullIndex(t, i)
  BY <1>3 DEF GroupLast, FullIndex
<1>7. GroupLast(t) \in Nat /\ GroupLast(t) = last + 2 * (Pad - 1) BY GroupLasts DEF GroupLast
<1>8. ASSUME NEW i \in 0..GroupLast(t), i \notin Pad..(GroupLast(t) - Pad)
      PROVE  new[FullIndex(t, i)] = t[FullIndex(t, i)]
  <2>1. FullIndex(t, i) \in {0, last} BY <1>1, <1>7, <1>8, PadIsPositive DEF FullIndex
  <2> QED BY <1>3, <1>5, <2>1
<1>9. ASSUME NEW i \in Pad..(GroupLast(t) - Pad) PROVE new[FullIndex(t, i)] = g[i]
  <2>1. FullIndex(t, i) = i - (Pad - 1) /\ i - (Pad - 1) \in 1..last - 1
    BY <1>1, <1>7, <1>9, PadIsPositive DEF FullIndex
  <2>2. Pad + (i - (Pad - 1)) - 1 = i BY <1>7, <1>9, PadIsPositive
  <2> QED BY <1>1, <1>2, <2>1, <2>2
<1>10. \A i \in 0..GroupLast(t) : new[FullIndex(t, i)] = g[i]
  BY <1>8, <1>9 DEF Frames
<1>11. GroupOf(new) = g BY <1>6, <1>10 DEF GroupOf, Frames
<1>12. \A h : Frames(h, t) => Frames(h, new) BY <1>6, <1>8 DEF Frames
<1> QED BY <1>3, <1>4, <1>5, <1>11, <1>12 DEF new

-----------------------------------------------------------------------------
(* What moves *)

LEMMA BlockFrames ==
    ASSUME NEW t, IsTrajectory(t), NEW g, Frames(g, t), NEW b, DOMAIN b = FreeVars(g)
    PROVE  Frames(WithBlock(g, b), t)
BY FreeOfFrame DEF Frames, WithBlock

\* Neither a step, nor the joint's limits, nor a perturbation moves an end.
LEMMA MovesFrame ==
    ASSUME NEW t, IsTrajectory(t), NEW g, Frames(g, t)
    PROVE  /\ \A h \in Moved(g) : Frames(h, t)
           /\ \A h \in handleJointLimits(g) : Frames(h, t)
           /\ \A h \in Perturbed(g) : Frames(h, t)
<1>1. \A h \in AnyBlock(g) : Frames(h, t) BY BlockFrames DEF AnyBlock
<1>2. Frames(Lost(g), t) BY BlockFrames DEF Lost
<1>3. \A h \in Steps(g) : Frames(h, t) BY BlockFrames DEF Steps
<1>4. \A h \in Moved(g) : h = g \/ h = Lost(g) \/ h \in Steps(g) BY DEF Moved
<1> QED BY <1>1, <1>2, <1>3, <1>4 DEF handleJointLimits, Perturbed

-----------------------------------------------------------------------------
(* Where a request's trajectory starts *)

\* A trajectory from t[0] to its last point.
LEMMA MinJerkKeepsEnds ==
    ASSUME NEW t, IsTrajectory(t)
    PROVE  LET new == fillInMinJerk(t) IN
           IsTrajectory(new) /\ LastOf(new) = LastOf(t) /\ new[0] = t[0] /\ new[LastOf(t)] = t[LastOf(t)]
<1> DEFINE new == fillInMinJerk(t)
           last == LastOf(t)
<1>1. last \in Nat \ 0..1 /\ DOMAIN t = 0..last BY DEF IsTrajectory
<1>2. new = [i \in 0..last |-> IF i \in 1..last - 1 THEN MinJerk(t[0], t[last], last, i) ELSE t[i]]
  BY <1>1 DEF fillInMinJerk, FreePoints, EndIndex
<1> HIDE DEF new
<1>3. LastOf(new) = last BY <1>1, <1>2, LastOfInterval
<1> QED BY <1>1, <1>2, <1>3 DEF new, IsTrajectory

LEMMA IntervalIsTrajectory ==
    ASSUME NEW n \in Nat \ 0..1, NEW t, t = [i \in 0..n |-> t[i]]
    PROVE  IsTrajectory(t) /\ LastOf(t) = n
<1>1. LastOf(t) = n BY LastOfInterval
<1> QED BY <1>1 DEF IsTrajectory

LEMMA PlanStarts ==
    ASSUME NEW r \in Requests, r.kind = "plan"
    PROVE  /\ IsTrajectory(PlanStart(r)) /\ PlanStart(r)[0] = r.points[1]
           /\ PlanStart(r)[LastOf(PlanStart(r))] = GoalOf(r)
<1> DEFINE n == PlanPoints - 1
           to == ShortestWay(r.continuous, r.points[1], r.points[2])
           t == [i \in 0..n |-> IF i = n THEN to ELSE r.points[1]]
<1>1. n \in Nat \ 0..1 BY PointsAssumption
<1> HIDE DEF to
<1>2. t[0] = r.points[1] /\ t[n] = to /\ t = [i \in 0..n |-> t[i]] BY <1>1
<1>3. PlanStart(r) = fillInMinJerk(t) BY DEF PlanStart, to
<1>4. GoalOf(r) = to BY DEF GoalOf, to
<1> HIDE DEF t, n
<1>5. IsTrajectory(t) /\ LastOf(t) = n BY <1>1, <1>2, IntervalIsTrajectory
<1> QED BY <1>2, <1>3, <1>4, <1>5, MinJerkKeepsEnds

\* The spline goes from the first point to the last.
LEMMA SampledEnds ==
    ASSUME NEW r \in Requests
    PROVE  LET s == Sampled(r.points) n == SplinePoints(Len(r.points)) IN
           /\ n \in Nat \ 0..2 /\ DOMAIN s = 1..n /\ Len(s) = n
           /\ s[1] = r.points[1] /\ s[n] = r.points[Len(r.points)]
<1> DEFINE s == Sampled(r.points)
           n == SplinePoints(Len(r.points))
           m == Len(r.points)
<1>1. m \in Nat BY RequestsAssumption
<1>2. n \in Nat \ 0..2
  <2>1. MinSplinePoints \in Nat \ 0..2 /\ MaxSplinePoints \in Nat \ 0..2 BY PointsAssumption
  <2> HIDE DEF m
  <2>2. SplinePoints(m) \in Nat \ 0..2 BY <1>1, <2>1 DEF SplinePoints
  <2> QED BY <2>2 DEF m
<1> HIDE DEF n, m
<1>3. s = [i \in 1..n |-> r.points[1 + ((i - 1) * (m - 1)) \div (n - 1)]]
  BY DEF Sampled, n, m
<1>4. (0 * (m - 1)) \div (n - 1) = 0 BY <1>1, <1>2
<1>5. ((n - 1) * (m - 1)) \div (n - 1) = m - 1
  <2>1. \A a \in Nat \ {0}, b \in Int : (a * b) \div a = b OBVIOUS
  <2>2. n - 1 \in Nat \ {0} /\ m - 1 \in Int BY <1>1, <1>2
  <2> QED BY <2>1, <2>2
<1>6. DOMAIN s = 1..n /\ Len(s) = n BY <1>2, <1>3
<1>7. s[1] = r.points[1]
  <2>1. 1 \in 1..n /\ 1 - 1 = 0 BY <1>2
  <2> QED BY <1>3, <1>4, <2>1
<1>8. s[n] = r.points[m]
  <2>1. n \in 1..n /\ 1 + (m - 1) = m BY <1>1, <1>2
  <2> QED BY <1>3, <1>5, <2>1
<1> QED BY <1>2, <1>6, <1>7, <1>8 DEF n, m

LEMMA FilterStarts ==
    ASSUME NEW r \in Requests, r.kind = "filter"
    PROVE  /\ IsTrajectory(FilterStart(r)) /\ FilterStart(r)[0] = r.points[1]
           /\ FilterStart(r)[LastOf(FilterStart(r))] = GoalOf(r)
<1> DEFINE s == Sampled(r.points)
           n == Len(s)
           to == ShortestWay(r.continuous, s[1], s[n])
           t == [i \in 0..n |-> IF i = n THEN to ELSE s[1]]
           u == fillInMinJerk(t)
           v == [i \in DOMAIN u |-> IF i \in DOMAIN s THEN s[i] ELSE u[i]]
<1>1. /\ n \in Nat \ 0..2 /\ DOMAIN s = 1..n
      /\ s[1] = r.points[1] /\ s[n] = r.points[Len(r.points)]
  BY SampledEnds
<1>2. FilterStart(r) = v BY DEF FilterStart, overwriteTrajectory
<1> HIDE DEF s, n, to
<1>3. n \in Nat \ 0..1 /\ t[0] = s[1] /\ t = [i \in 0..n |-> t[i]] BY <1>1
<1> HIDE DEF t
<1>4. IsTrajectory(t) /\ LastOf(t) = n BY <1>3, IntervalIsTrajectory
<1>5. IsTrajectory(u) /\ LastOf(u) = n /\ u[0] = s[1] BY <1>3, <1>4, MinJerkKeepsEnds
<1> HIDE DEF u
<1>6. DOMAIN u = 0..n BY <1>5 DEF IsTrajectory
<1>7. DOMAIN v = 0..n /\ LastOf(v) = n BY <1>1, <1>6, LastOfInterval
<1>8. v[0] = s[1] /\ v[n] = s[n] BY <1>1, <1>5, <1>6
<1>9. IsTrajectory(v) BY <1>1, <1>6, <1>7 DEF IsTrajectory
<1>10. GoalOf(r) = r.points[Len(r.points)] BY DEF GoalOf
<1> HIDE DEF v
<1> QED BY <1>1, <1>2, <1>7, <1>8, <1>9, <1>10

-----------------------------------------------------------------------------
(* The ends stay *)

\* What EndsStay needs to be inductive: trajectories are functions from 0, and the best one,
\* which may be older than the group trajectory, has its ends.
Framed ==
    pc \notin {"idle", "crashed"} =>
        /\ IsTrajectory(full) /\ full[0] = request.points[1] /\ full[LastOf(full)] = GoalOf(request)
        /\ group = GroupOf(full) /\ Frames(best.traj, full)

\* To take a group trajectory that has the ends, and to copy it back, keeps it so.
LEMMA TakeKeepsFramed ==
    ASSUME Framed, pc \notin {"idle", "crashed"}, UNCHANGED request,
           Frames(group', full), full' = Updated(full, group'),
           best'.traj \in {best.traj, group}
    PROVE  Framed'
<1>1. Frames(group, full) BY GroupFrames DEF Framed
<1>2. Frames(best'.traj, full) BY <1>1 DEF Framed
<1>3. /\ IsTrajectory(full') /\ full'[0] = full[0] /\ full'[LastOf(full')] = full[LastOf(full)]
      /\ GroupOf(full') = group' /\ Frames(best'.traj, full')
  BY <1>2, UpdatedHasGroup DEF Framed
<1>4. GoalOf(request)' = GoalOf(request) BY DEF GoalOf, ShortestWay
<1> QED BY <1>3, <1>4 DEF Framed

\* The optimizer starts with the request's ends.
LEMMA StartIsFramed ==
    ASSUME NEW r \in Requests, NEW t, StartOptimizer(r, t),
           IsTrajectory(t), t[0] = r.points[1], t[LastOf(t)] = GoalOf(r)
    PROVE  Framed'
<1>1. /\ full' = t /\ group' = GroupOf(t) /\ best'.traj = group' /\ request' = r BY DEF StartOptimizer
<1>2. GoalOf(request)' = GoalOf(r) BY <1>1 DEF GoalOf, ShortestWay
<1>3. Frames(best.traj, full)' BY <1>1, GroupFrames
<1> QED BY <1>1, <1>2, <1>3 DEF Framed

\* No step of the node moves an end.
LEMMA FramedStep ==
    ASSUME Framed, [Next]_vars
    PROVE  Framed'
<1>1. ASSUME NEW r \in Requests, Plan(r) PROVE Framed'
  BY <1>1, PlanStarts, StartIsFramed DEF Plan
<1>2. ASSUME NEW r \in Requests, Filter(r) PROVE Framed'
  BY <1>2, FilterStarts, StartIsFramed DEF Filter
<1>3. ASSUME NEW r \in Requests, RefusePlan(r) \/ PassThrough(r) PROVE Framed'
  BY <1>3 DEF RefusePlan, PassThrough, Framed
<1>4. pc \notin {"idle", "crashed"} => Frames(group, full) BY GroupFrames DEF Framed
<1>5. ASSUME Evaluate PROVE Framed'
  <2>1. PICK moved \in Moved(group) : group' \in handleJointLimits(moved) BY <1>5 DEF Evaluate
  <2>2. pc = "evaluate" /\ full' = Updated(full, group') /\ request' = request BY <1>5 DEF Evaluate
  <2>3. Frames(moved, full) BY <1>4, <2>1, <2>2, MovesFrame DEF Framed
  <2>4. Frames(group', full) BY <2>1, <2>2, <2>3, MovesFrame DEF Framed
  <2>5. best'.traj \in {best.traj, group} BY <1>5 DEF Evaluate
  <2> QED BY <2>2, <2>4, <2>5, TakeKeepsFramed
<1>6. ASSUME Escape PROVE Framed'
  <2>1. /\ pc = "minimum" /\ group' \in Perturbed(group) /\ full' = Updated(full, group')
        /\ request' = request /\ best' = best
    BY <1>6 DEF Escape
  <2>2. Frames(group', full) BY <1>4, <2>1, MovesFrame DEF Framed
  <2> QED BY <2>1, <2>2, TakeKeepsFramed
<1>7. ASSUME Remain PROVE Framed'
  <2>1. pc = "minimum" /\ group' = group /\ full' = Updated(full, group) /\ request' = request /\ best' = best
    BY <1>7 DEF Remain
  <2> QED BY <1>4, <2>1, TakeKeepsFramed
<1>8. ASSUME Return PROVE Framed'
  <2>1. /\ pc \notin {"idle", "crashed"} /\ group' = best.traj /\ full' = Updated(full, group')
        /\ request' = request /\ best' = best
    BY <1>8 DEF Return, loop
  <2>2. Frames(group', full) BY <2>1 DEF Framed
  <2> QED BY <2>1, <2>2, TakeKeepsFramed
<1>9. ASSUME Check \/ NotTrapped \/ BreakOut PROVE Framed'
  <2>1. UNCHANGED <<request, full, group, best>> /\ pc \notin {"idle", "crashed"}
    BY <1>9 DEF Check, NotTrapped, BreakOut
  <2> QED BY <2>1 DEF Framed, GoalOf, ShortestWay
<1>10. ASSUME Answer \/ NextFilterFails PROVE Framed'
  BY <1>10 DEF Answer, NextFilterFails, Framed
<1>11. ASSUME UNCHANGED vars PROVE Framed'
  BY <1>11 DEF vars, loop, Framed, GoalOf, ShortestWay
<1> QED BY <1>1, <1>2, <1>3, <1>5, <1>6, <1>7, <1>8, <1>9, <1>10, <1>11 DEF Next

\* Whatever the optimizer does to a trajectory, it starts and ends where the request says,
\* and group and full trajectory count their points alike.
THEOREM EndsAreKept == Spec => []EndsStay
<1>1. Init => Framed BY DEF Init, Framed
<1>2. Framed /\ [Next]_vars => Framed' BY FramedStep
<1>3. Framed => EndsStay BY DEF Framed, EndsStay
<1> QED BY <1>1, <1>2, <1>3, PTL DEF Spec

-----------------------------------------------------------------------------
(* The loop ends soon after a promise *)

\* A check that promises sets the number of iterations that may follow, which is read from
\* then on; before that it may have been anything.
Counted ==
    /\ freeIterations \in Nat
    /\ promised # "none" =>
          /\ pc \notin {"idle", "crashed"}
          /\ shouldBreakOut /\ soon \in {0, MaxIterationsAfterCollisionFree}
          /\ pc = "evaluate" => freeIterations <= MaxIterationsAfterCollisionFree

LEMMA CountedStep ==
    ASSUME Counted, [Next]_vars
    PROVE  Counted'
<1> USE DEF Counted, loop, history
<1>1. ASSUME NEW r \in Requests, RefusePlan(r) \/ PassThrough(r) \/ Plan(r) \/ Filter(r)
      PROVE  Counted'
  BY <1>1 DEF RefusePlan, PassThrough, Plan, Filter, StartOptimizer
<1>2. ASSUME Evaluate \/ Escape \/ Remain \/ NotTrapped \/ Return PROVE Counted'
  BY <1>2 DEF Evaluate, Escape, Remain, NotTrapped, Return
<1>3. ASSUME Check PROVE Counted'
  <2>1. pc' # "evaluate" /\ pc' \notin {"idle", "crashed"} /\ freeIterations' = freeIterations
    BY <1>3 DEF Check
  <2>2. \/ promised' = promised /\ (shouldBreakOut => shouldBreakOut') /\ soon' = soon
        \/ shouldBreakOut' /\ soon' \in {0, MaxIterationsAfterCollisionFree}
    BY Zenon, <1>3 DEF Check
  <2> QED BY <2>1, <2>2
<1>4. ASSUME BreakOut PROVE Counted'
  BY <1>4, SizesAssumption DEF BreakOut
<1>5. ASSUME Answer \/ NextFilterFails PROVE Counted' BY <1>5 DEF Answer, NextFilterFails, Forget
<1>6. ASSUME UNCHANGED vars PROVE Counted' BY <1>6 DEF vars
<1> QED BY <1>1, <1>2, <1>3, <1>4, <1>5, <1>6 DEF Next

\* Once a check has found a trajectory that is safe enough, no more than the iterations it
\* allows are started, whatever they were counted from.
THEOREM BreakOutIsSoon == Spec => []BreaksOutSoon
<1>1. Init => Counted BY DEF Init, Counted
<1>2. Counted /\ [Next]_vars => Counted' BY CountedStep
<1>3. Counted => BreaksOutSoon BY DEF Counted, BreaksOutSoon
<1> QED BY <1>1, <1>2, <1>3, PTL DEF Spec

-----------------------------------------------------------------------------
(* Values have their types *)

Pointed(t) == \A i \in DOMAIN t : t[i] \in Positions \cup {NaN}

\* What TypeOK needs to be inductive: what a request starts from, and how the counters of
\* the iterations keep up with each other when one is counted twice.
Reset == /\ iteration = 0 /\ freeIterations = 0 /\ ~shouldBreakOut /\ costs = << >>
         /\ least = NaN /\ promised = "none"
Counters ==
    /\ pc = "idle" => Reset
    /\ pc = "check" => iteration < MaxIterations
    /\ pc \in {"minimum", "breakout", "return"} => iteration <= MaxIterations + 1
    /\ ~shouldBreakOut => freeIterations = 0
    /\ shouldBreakOut /\ pc \in {"evaluate", "check", "minimum", "breakout"} =>
          freeIterations < iteration
    /\ pc \in {"minimum", "breakout"} => freeIterations < MaxIterations
    /\ pc = "breakout" => Len(costs) < CostWindow
IsWindow(s) == \E n \in Nat : s = [i \in 1..n |-> s[i]]
Typed == TypeOK /\ Counters /\ IsWindow(costs)

LEMMA BlockIsPointed ==
    ASSUME NEW g, Pointed(g), NEW b, \A i \in DOMAIN b : b[i] \in Positions \cup {NaN}
    PROVE  Pointed(WithBlock(g, b))
BY DEF Pointed, WithBlock

\* Nothing moves a point out of the positions, but to what is not a number.
LEMMA MovesArePointed ==
    ASSUME NEW g, Pointed(g)
    PROVE  /\ \A h \in Moved(g) : Pointed(h)
           /\ \A h \in handleJointLimits(g) : Pointed(h)
           /\ \A h \in Perturbed(g) : Pointed(h)
<1>1. \A h \in AnyBlock(g) : Pointed(h) BY BlockIsPointed DEF AnyBlock
<1>2. Pointed(Lost(g)) BY BlockIsPointed DEF Lost
<1>3. \A h \in Steps(g) : Pointed(h)
  <2>1. ASSUME NEW h \in Steps(g) PROVE Pointed(h)
    <3>1. PICK d \in [FreeVars(g) -> -JointUpdateLimit..JointUpdateLimit] :
            h = WithBlock(g, [i \in FreeVars(g) |-> g[i] + d[i]])
      BY DEF Steps
    <3>2. \A i \in FreeVars(g) : h[i] \in Positions BY DEF Steps
    <3>3. DOMAIN h = DOMAIN g /\ \A i \in DOMAIN g : i \notin FreeVars(g) => h[i] = g[i]
      BY <3>1 DEF WithBlock
    <3> QED BY <3>2, <3>3 DEF Pointed
  <2> QED BY <2>1
<1>4. \A h \in Moved(g) : h = g \/ h = Lost(g) \/ h \in Steps(g) BY DEF Moved
<1> QED BY <1>1, <1>2, <1>3, <1>4 DEF handleJointLimits, Perturbed

LEMMA UpdatedIsPointed ==
    ASSUME NEW t, IsTrajectory(t), Pointed(t), NEW g, Frames(g, t), Pointed(g)
    PROVE  Pointed(Updated(t, g))
<1>1. DOMAIN g = 0..GroupLast(t) /\ DOMAIN t = 0..LastOf(t) BY DEF Frames, IsTrajectory
<1>2. \A i \in FreePoints(t) : Pad + i - 1 \in DOMAIN g
  BY <1>1, PadIsPositive DEF FreePoints, EndIndex, GroupLast, IsTrajectory
<1> QED BY <1>2 DEF Updated, Pointed

LEMMA GroupIsPointed ==
    ASSUME NEW t, IsTrajectory(t), Pointed(t)
    PROVE  Pointed(GroupOf(t))
<1>1. DOMAIN t = 0..LastOf(t) /\ LastOf(t) \in Nat BY DEF IsTrajectory
<1>2. \A i \in 0..GroupLast(t) : FullIndex(t, i) \in DOMAIN t
  BY <1>1, PadIsPositive DEF FullIndex, GroupLast
<1> QED BY <1>2 DEF GroupOf, Pointed

\* A minimum jerk stays between its ends.
LEMMA MinJerkIsBetween ==
    ASSUME NEW a \in Positions, NEW b \in Positions, NEW n \in Nat \ {0}, NEW i \in 0..n
    PROVE  MinJerk(a, b, n, i) \in Positions
<1>1. a \in Int /\ b \in Int /\ Lo \in Int /\ Hi \in Int BY NumbersAssumption DEF Positions
<1> DEFINE d == b - a
           z == (d * i) \div n
<1>2. d \in Int /\ d * i \in Int BY <1>1
<1>3. CASE d >= 0
  <2>1. 0 <= d * i /\ d * i <= d * n BY <1>2, <1>3
  <2>2. \A x \in Int : 0 <= x /\ x <= d * n => 0 <= x \div n /\ x \div n <= d BY <1>2, <1>3
  <2>3. z \in Int /\ 0 <= z /\ z <= d BY <1>2, <2>1, <2>2
  <2> QED BY <1>1, <2>3 DEF MinJerk, Positions
<1>4. CASE d < 0
  <2>1. d * i <= 0 /\ d * n <= d * i BY <1>2, <1>4
  <2>2. \A x \in Int : x <= 0 /\ d * n <= x => x \div n <= 0 /\ d <= x \div n BY <1>2, <1>4
  <2>3. z \in Int /\ z <= 0 /\ d <= z BY <1>2, <2>1, <2>2
  <2> QED BY <1>1, <2>3 DEF MinJerk, Positions
<1> QED BY <1>2, <1>3, <1>4

LEMMA MinJerkIsPointed ==
    ASSUME NEW t, IsTrajectory(t), t[0] \in Positions, t[LastOf(t)] \in Positions
    PROVE  \A i \in DOMAIN fillInMinJerk(t) : fillInMinJerk(t)[i] \in Positions
<1> DEFINE last == LastOf(t)
<1>1. last \in Nat \ 0..1 /\ DOMAIN t = 0..last BY DEF IsTrajectory
<1>2. fillInMinJerk(t) = [i \in 0..last |->
                            IF i \in 1..last - 1 THEN MinJerk(t[0], t[last], last, i) ELSE t[i]]
  BY <1>1 DEF fillInMinJerk, FreePoints, EndIndex
<1>3. \A i \in 0..last : MinJerk(t[0], t[last], last, i) \in Positions BY <1>1, MinJerkIsBetween
<1>4. \A i \in 0..last : i \in 1..last - 1 \/ i = 0 \/ i = last BY <1>1
<1> HIDE DEF last
<1> QED BY <1>2, <1>3, <1>4 DEF last

LEMMA SampleIsPoint ==
    ASSUME NEW m \in Nat \ {0}, NEW k \in Nat \ 0..2, NEW i \in 1..k
    PROVE  1 + ((i - 1) * (m - 1)) \div (k - 1) \in 1..m
<1>1. \A a, b \in Nat, c \in Nat \ {0} : a <= c => a * b \in Nat /\ a * b <= b * c OBVIOUS
<1>2. \A x, b \in Nat, c \in Nat \ {0} : x <= b * c => x \div c \in 0..b OBVIOUS
<1> DEFINE a == i - 1
           b == m - 1
           c == k - 1
<1>3. a \in Nat /\ b \in Nat /\ c \in Nat \ {0} /\ a <= c OBVIOUS
<1> HIDE DEF a, b, c
<1>4. (a * b) \div c \in 0..b
  <2>1. a * b \in Nat /\ a * b <= b * c BY <1>1, <1>3
  <2> QED BY <1>2, <1>3, <2>1
<1>5. \A y \in 0..b : 1 + y \in 1..b + 1 BY <1>3
<1>6. b + 1 = m BY DEF b
<1>7. 1 + (a * b) \div c \in 1..b + 1 BY <1>4, <1>5
<1> QED BY <1>6, <1>7 DEF a, b, c

\* What a plan and a filter start from is in the positions; the way round that was chosen
\* for the goal of a filter is overwritten.
LEMMA StartsArePointed ==
    ASSUME NEW r \in Requests
    PROVE  /\ r.kind = "plan" => \A i \in DOMAIN PlanStart(r) : PlanStart(r)[i] \in Positions
           /\ r.kind = "filter" => \A i \in DOMAIN FilterStart(r) : FilterStart(r)[i] \in Positions
<1>1. r.points \in Seq(Positions) /\ r.points # << >> /\ GoalOf(r) \in Positions
  BY RequestsAssumption, GoalsAssumption
<1>2. Len(r.points) \in Nat \ {0} /\ \A i \in 1..Len(r.points) : r.points[i] \in Positions
  BY <1>1
<1>3. ASSUME r.kind = "plan"
      PROVE  \A i \in DOMAIN PlanStart(r) : PlanStart(r)[i] \in Positions
  <2> DEFINE n == PlanPoints - 1
             to == ShortestWay(r.continuous, r.points[1], r.points[2])
             t == [i \in 0..n |-> IF i = n THEN to ELSE r.points[1]]
  <2>1. n \in Nat \ 0..1 BY PointsAssumption
  <2>2. to \in Positions BY <1>1, <1>3 DEF GoalOf
  <2> HIDE DEF to
  <2>3. t[0] \in Positions /\ t[n] \in Positions /\ t = [i \in 0..n |-> t[i]]
    BY <1>2, <2>1, <2>2
  <2>4. PlanStart(r) = fillInMinJerk(t) BY DEF PlanStart, to
  <2> HIDE DEF t, n
  <2>5. IsTrajectory(t) /\ LastOf(t) = n BY <2>1, <2>3, IntervalIsTrajectory
  <2> QED BY <2>3, <2>4, <2>5, MinJerkIsPointed
<1>4. ASSUME r.kind = "filter"
      PROVE  \A i \in DOMAIN FilterStart(r) : FilterStart(r)[i] \in Positions
  <2> DEFINE s == Sampled(r.points)
             n == Len(s)
             to == ShortestWay(r.continuous, s[1], s[n])
             t == [i \in 0..n |-> IF i = n THEN to ELSE s[1]]
             u == fillInMinJerk(t)
             v == [i \in DOMAIN u |-> IF i \in DOMAIN s THEN s[i] ELSE u[i]]
  <2>1. n \in Nat \ 0..2 /\ DOMAIN s = 1..n BY SampledEnds
  <2>2. \A i \in 1..n : s[i] \in Positions
    <3> DEFINE m == Len(r.points)
               k == SplinePoints(Len(r.points))
    <3>1. k \in Nat \ 0..2 /\ n = k BY SampledEnds
    <3>2. s = [i \in 1..k |-> r.points[1 + ((i - 1) * (m - 1)) \div (k - 1)]] BY DEF Sampled
    <3> HIDE DEF k, s, n
    <3>3. m \in Nat \ {0} /\ \A i \in 1..m : r.points[i] \in Positions BY <1>2
    <3> HIDE DEF m
    <3>4. \A i \in 1..k : 1 + ((i - 1) * (m - 1)) \div (k - 1) \in 1..m BY <3>1, <3>3, SampleIsPoint
    <3> QED BY <3>1, <3>2, <3>3, <3>4
  <2>3. FilterStart(r) = v BY DEF FilterStart, overwriteTrajectory
  <2> HIDE DEF s, n, to
  <2>4. n \in Nat \ 0..1 /\ t[0] = s[1] /\ t = [i \in 0..n |-> t[i]] BY <2>1
  <2> HIDE DEF t
  <2>5. IsTrajectory(t) /\ LastOf(t) = n BY <2>4, IntervalIsTrajectory
  <2>6. IsTrajectory(u) /\ LastOf(u) = n /\ u[0] = s[1] BY <2>4, <2>5, MinJerkKeepsEnds
  <2> HIDE DEF u
  <2>7. DOMAIN u = 0..n BY <2>6 DEF IsTrajectory
  <2>8. \A i \in 0..n : i \in 1..n \/ i = 0 BY <2>1
  <2> QED BY <2>1, <2>2, <2>3, <2>6, <2>7, <2>8
<1> QED BY <1>3, <1>4

\* The costs of the window, whatever they are, are counted by its length.
LEMMA WindowGrows ==
    ASSUME NEW s, IsWindow(s), NEW e
    PROVE  Len(s) \in Nat /\ Len(Append(s, e)) = Len(s) + 1 /\ IsWindow(Append(s, e))
<1>0. PICK n \in Nat : s = [i \in 1..n |-> s[i]] BY DEF IsWindow
<1> DEFINE S == {s[i] : i \in 1..n} \cup {e}
<1>1. s \in Seq(S)
  <2>1. s \in [1..n -> S] BY <1>0
  <2> HIDE DEF S
  <2> QED BY <2>1
<1> HIDE DEF S
<1>2. e \in S BY DEF S
<1>3. Len(s) \in Nat /\ Len(Append(s, e)) = Len(s) + 1 BY <1>1, <1>2
<1>4. Append(s, e) \in Seq(S) BY <1>1, <1>2
<1>5. Append(s, e) \in [1..Len(s) + 1 -> S]
  <2>1. \A z \in Seq(S) : z \in [1..Len(z) -> S] OBVIOUS
  <2> QED BY Zenon, <1>3, <1>4, <2>1
<1>6. Append(s, e) = [i \in 1..Len(s) + 1 |-> Append(s, e)[i]] BY Zenon, <1>5
<1>7. Len(s) + 1 \in Nat BY <1>3
<1> QED BY Zenon, <1>3, <1>6, <1>7 DEF IsWindow

LEMMA EmptyIsWindow == IsWindow(<< >>) /\ Len(<< >>) = 0 /\ Pointed(<< >>)
<1>1. << >> = [i \in 1..0 |-> << >>[i]] OBVIOUS
<1> QED BY <1>1 DEF IsWindow, Pointed

LEMMA StartIsTyped ==
    ASSUME Typed, pc = "idle", NEW r \in Requests, NEW t, StartOptimizer(r, t),
           IsTrajectory(t), \A i \in DOMAIN t : t[i] \in Positions, filterMode' \in BOOLEAN
    PROVE  Typed'
<1>1. Pointed(t) BY DEF Pointed
<1>2. Pointed(GroupOf(t)) BY <1>1, GroupIsPointed
<1>3. /\ pc' = "evaluate" /\ request' = r /\ answer' = "none" /\ full' = t /\ group' = GroupOf(t)
      /\ best'.traj = GroupOf(t) /\ soon' \in {0, 1, MaxIterations}
      /\ UNCHANGED <<iteration, costs, free, freeIterations, shouldBreakOut, cCost, least, promised>>
  BY DEF StartOptimizer, history
<1>4. Reset BY DEF Typed, Counters
<1>5. Len(<< >>) = 0 /\ CostWindow > 0 BY SizesAssumption
<1>6. TypeOK' BY <1>1, <1>2, <1>3, <1>4, <1>5 DEF Typed, TypeOK, Pointed, Reset
<1>7. Counters' BY <1>3, <1>4 DEF Counters, Reset
<1> QED BY <1>3, <1>6, <1>7 DEF Typed

\* Every step keeps the types and the counters; the trajectory's frame says which points a
\* group has to give.
LEMMA TypedStep ==
    ASSUME Typed, Framed, [Next]_vars
    PROVE  Typed'
<1> USE DEF history
<1>0. /\ MaxIterations \in Nat \ {0} /\ CostWindow \in Nat \ {0}
      /\ MaxIterationsAfterCollisionFree \in Nat
  BY SizesAssumption
<1>1. Pointed(full) /\ Pointed(group) /\ Pointed(best.traj) BY DEF Typed, TypeOK, Pointed
<1>2. iteration \in Nat /\ freeIterations \in Nat BY <1>0 DEF Typed, TypeOK
<1>3. IsWindow(costs) BY DEF Typed
<1>4. Len(costs) \in Nat BY <1>3, WindowGrows
<1>5. ASSUME NEW r \in Requests, RefusePlan(r) \/ PassThrough(r) PROVE Typed'
  <2>1. UNCHANGED <<pc, request, full, group, loop, filterMode, history>> /\
        answer' \in {"INVALID_GOAL_POSITION_CONSTRAINTS", "filtered", "empty"}
    BY <1>5 DEF RefusePlan, PassThrough
  <2> QED BY <2>1 DEF loop, Typed, TypeOK, Counters, Reset
<1>6. ASSUME NEW r \in Requests, Plan(r) PROVE Typed'
  <2>1. /\ pc = "idle" /\ r.kind = "plan" /\ StartOptimizer(r, PlanStart(r)) /\ filterMode' = filterMode
    BY <1>6 DEF Plan
  <2>2. filterMode' \in BOOLEAN BY <2>1 DEF Typed, TypeOK
  <2> QED BY <2>1, <2>2, PlanStarts, StartsArePointed, StartIsTyped
<1>7. ASSUME NEW r \in Requests, Filter(r) PROVE Typed'
  <2>1. /\ pc = "idle" /\ r.kind = "filter" /\ StartOptimizer(r, FilterStart(r)) /\ filterMode' = TRUE
    BY <1>7 DEF Filter
  <2> QED BY <2>1, FilterStarts, StartsArePointed, StartIsTyped
<1>8. ASSUME Evaluate PROVE Typed'
  <2>1. PICK moved \in Moved(group) : group' \in handleJointLimits(moved) BY <1>8 DEF Evaluate
  <2>2. /\ pc = "evaluate" /\ iteration < MaxIterations /\ pc' = "check"
        /\ full' = Updated(full, group') /\ best'.traj \in {best.traj, group}
        /\ free' = StaysClear(group, IF iteration = 0 THEN DOMAIN group ELSE FreeVars(group))
        /\ costs' = IF AddRandomness THEN Append(costs, cCost') ELSE costs
        /\ UNCHANGED <<request, iteration, soon, freeIterations, shouldBreakOut, filterMode, answer, promised>>
    BY <1>8 DEF Evaluate
  <2>3. Frames(group, full) /\ IsTrajectory(full) BY <2>2, GroupFrames DEF Framed
  <2>4. Frames(group', full) BY <2>1, <2>3, MovesFrame
  <2>5. Pointed(group') BY <1>1, <2>1, MovesArePointed
  <2>6. Pointed(full') BY <1>1, <2>2, <2>3, <2>4, <2>5, UpdatedIsPointed
  <2>7. Pointed(best'.traj) BY <1>1, <2>2
  <2>8. free' \in BOOLEAN BY <2>2 DEF StaysClear
  <2>9. Len(costs') <= CostWindow /\ IsWindow(costs')
    <3>1. Len(costs) < CostWindow BY <2>2 DEF Typed, TypeOK
    <3>2. CASE AddRandomness
      <4>1. costs' = Append(costs, cCost') BY <2>2, <3>2
      <4>2. Len(costs') = Len(costs) + 1 /\ IsWindow(costs') BY <1>3, <4>1, WindowGrows
      <4> QED BY <1>0, <1>4, <3>1, <4>2
    <3>3. CASE ~AddRandomness BY <1>0, <1>3, <1>4, <2>2, <3>1, <3>3
    <3> QED BY <3>2, <3>3
  <2>10. TypeOK' BY <2>2, <2>5, <2>6, <2>7, <2>8, <2>9 DEF Typed, TypeOK, Pointed
  <2>11. Counters' BY <2>2 DEF Typed, Counters
  <2> QED BY <2>9, <2>10, <2>11 DEF Typed
<1>9. ASSUME Check PROVE Typed'
  <2>1. /\ pc = "check" /\ pc' \in {"minimum", "return"}
        /\ UNCHANGED <<request, full, group, best, costs, freeIterations, cCost, filterMode, answer, least>>
    BY <1>9 DEF Check
  <2>2. PICK extra \in 0..2 :
          /\ iteration' = iteration + extra
          /\ shouldBreakOut' = (shouldBreakOut \/ extra # 0)
    <3> DEFINE safe == iteration % CheckInterval = 0 /\ checkCurrentIterValidity \in Safe
               cheap == ~filterMode /\ Less(cCost, CollisionThreshold)
               extra == (IF safe THEN 1 ELSE 0) + (IF cheap THEN 1 ELSE 0)
    <3>1. iteration' = iteration + extra /\ shouldBreakOut' = (shouldBreakOut \/ safe \/ cheap)
      BY <1>9 DEF Check
    <3> HIDE DEF safe, cheap
    <3>2. extra \in 0..2 /\ (extra # 0 <=> safe \/ cheap) OBVIOUS
    <3> HIDE DEF extra
    <3> QED BY <3>1, <3>2
  <2>3. /\ soon' \in {0, MaxIterationsAfterCollisionFree, soon} /\ free' \in BOOLEAN
        /\ promised' \in Safe \cup {promised}
    BY Zenon, <1>9 DEF Check, Typed, TypeOK
  <2>4. shouldBreakOut' \in BOOLEAN BY <2>2
  <2>5. iteration < MaxIterations BY <2>1 DEF Typed, Counters
  <2>6. TypeOK' BY <1>0, <1>2, <2>1, <2>2, <2>3, <2>4, <2>5 DEF Typed, TypeOK
  <2>7. Counters' BY <1>0, <1>2, <2>1, <2>2, <2>5 DEF Typed, Counters, TypeOK
  <2> QED BY <1>3, <2>1, <2>6, <2>7 DEF Typed
<1>10. ASSUME Escape \/ Remain PROVE Typed'
  <2>1. /\ pc = "minimum" /\ pc' = "breakout" /\ costs' = << >>
        /\ group' \in Perturbed(group) \cup {group} /\ full' = Updated(full, group')
        /\ free' \in BOOLEAN
        /\ UNCHANGED <<request, best, iteration, soon, freeIterations, shouldBreakOut, cCost,
                       filterMode, answer, least, promised>>
    BY <1>10 DEF Escape, Remain, StaysClear
  <2>2. Frames(group, full) /\ IsTrajectory(full) BY <2>1, GroupFrames DEF Framed
  <2>3. Frames(group', full) BY <2>1, <2>2, MovesFrame
  <2>4. Pointed(group') BY <1>1, <2>1, MovesArePointed
  <2>5. Pointed(full') BY <1>1, <2>1, <2>2, <2>3, <2>4, UpdatedIsPointed
  <2>6. Len(costs') < CostWindow /\ IsWindow(costs') BY <1>0, <2>1, EmptyIsWindow
  <2>7. TypeOK' BY <1>0, <1>1, <2>1, <2>4, <2>5, <2>6 DEF Typed, TypeOK, Pointed
  <2>8. Counters' BY <2>1, <2>6 DEF Typed, Counters
  <2> QED BY <2>6, <2>7, <2>8 DEF Typed
<1>11. ASSUME NotTrapped PROVE Typed'
  <2>1. /\ pc = "minimum" /\ pc' = "breakout"
        /\ costs' = IF Len(costs) = CostWindow THEN << >> ELSE costs
        /\ UNCHANGED <<request, full, group, best, iteration, free, soon, freeIterations,
                       shouldBreakOut, cCost, filterMode, answer, least, promised>>
    BY <1>11 DEF NotTrapped
  <2>2. Len(costs') < CostWindow /\ IsWindow(costs')
    <3>1. CASE Len(costs) = CostWindow BY <1>0, <2>1, <3>1, EmptyIsWindow
    <3>2. CASE Len(costs) # CostWindow BY <1>0, <1>3, <1>4, <2>1, <3>2 DEF Typed, TypeOK
    <3> QED BY <3>1, <3>2
  <2>3. TypeOK' BY <1>0, <2>1, <2>2 DEF Typed, TypeOK
  <2>4. Counters' BY <2>1, <2>2 DEF Typed, Counters
  <2> QED BY <2>2, <2>3, <2>4 DEF Typed
<1>12. ASSUME BreakOut PROVE Typed'
  <2>1. /\ pc = "breakout"
        /\ \/ pc' = "return" /\ UNCHANGED iteration /\ shouldBreakOut
           \/ pc' = "evaluate" /\ iteration' = iteration + 1
        /\ freeIterations' = IF shouldBreakOut THEN freeIterations + 1 ELSE freeIterations
        /\ UNCHANGED <<request, full, group, best, costs, free, soon, shouldBreakOut, cCost,
                       filterMode, answer, least, promised>>
    BY <1>12 DEF BreakOut
  <2>2. Len(costs') < CostWindow BY <2>1 DEF Typed, Counters
  <2>3. TypeOK' BY <1>0, <1>2, <2>1, <2>2 DEF Typed, TypeOK, Counters
  <2>4. Counters' BY <1>0, <1>2, <2>1, <2>2 DEF Typed, Counters
  <2> QED BY <1>3, <2>1, <2>3, <2>4 DEF Typed
<1>13. ASSUME Return PROVE Typed'
  <2>1. /\ pc \in {"return", "evaluate"} /\ pc' = "answer"
        /\ group' = best.traj /\ full' = Updated(full, group')
        /\ UNCHANGED <<request, loop, filterMode, answer, least, promised>>
    BY <1>13 DEF Return
  <2>2. IsTrajectory(full) /\ Frames(group', full) BY <2>1 DEF Framed
  <2>3. Pointed(full') BY <1>1, <2>1, <2>2, UpdatedIsPointed
  <2>4. TypeOK' BY <1>1, <2>1, <2>3 DEF loop, Typed, TypeOK, Pointed
  <2>5. Counters' BY <2>1 DEF loop, Typed, Counters
  <2> QED BY <1>3, <2>1, <2>4, <2>5 DEF Typed, loop
<1>14. ASSUME Answer \/ NextFilterFails PROVE Typed'
  <2>1. pc' \in {"idle", "crashed"} /\ answer' \in {"none", "SUCCESS", "filtered"} /\ Forget
    BY <1>14 DEF Answer, NextFilterFails
  <2>2. /\ request' = NoRequest /\ full' = << >> /\ group' = << >> /\ best'.traj = << >>
        /\ iteration' = 0 /\ costs' = << >> /\ free' = FALSE /\ soon' = 0 /\ freeIterations' = 0
        /\ shouldBreakOut' = FALSE /\ least' = NaN /\ promised' = "none" /\ filterMode' = filterMode
    BY <2>1 DEF Forget, NoBest
  <2>3. Len(costs') < CostWindow /\ IsWindow(costs') BY <1>0, <2>2, EmptyIsWindow
  <2>4. TypeOK'
    <3>1. \A t \in {full', group', best'.traj} : \A i \in DOMAIN t : t[i] \in Positions \cup {NaN}
      BY Zenon, <2>2, EmptyIsWindow DEF Pointed
    <3>2. 0 \in 0..MaxIterations + 2 /\ 0 \in 0..MaxIterations /\ Len(costs') <= CostWindow
      BY <1>0, <1>4, <2>2, <2>3, EmptyIsWindow
    <3> QED BY <2>1, <2>2, <2>3, <3>1, <3>2 DEF Typed, TypeOK
  <2>5. Counters' BY <2>1, <2>2, <2>3 DEF Counters, Reset
  <2> QED BY <2>3, <2>4, <2>5 DEF Typed
<1>15. ASSUME UNCHANGED vars PROVE Typed'
  BY <1>15 DEF vars, loop, Typed, TypeOK, Counters, Reset
<1> QED BY <1>5, <1>6, <1>7, <1>8, <1>9, <1>10, <1>11, <1>12, <1>13, <1>14, <1>15 DEF Next

LEMMA InitIsTyped == Init => Typed
<1> SUFFICES ASSUME Init PROVE Typed OBVIOUS
<1>1. MaxIterations \in Nat \ {0} /\ CostWindow \in Nat \ {0} BY SizesAssumption
<1>2. IsWindow(costs) /\ Len(costs) = 0 BY EmptyIsWindow DEF Init
<1>3. best.traj = << >> BY DEF Init, NoBest
<1>4. \A t \in {full, group, best.traj} : \A i \in DOMAIN t : t[i] \in Positions \cup {NaN}
  BY Zenon, <1>3, EmptyIsWindow DEF Pointed, Init
<1>5. 0 \in 0..MaxIterations + 2 /\ 0 \in 0..MaxIterations /\ 0 < CostWindow /\ 0 <= CostWindow
  BY <1>1
<1>6. /\ pc = "idle" /\ request = NoRequest /\ answer = "none" /\ iteration = 0 /\ soon = 0
      /\ freeIterations = 0 /\ promised = "none"
      /\ free = FALSE /\ shouldBreakOut = FALSE /\ filterMode = FALSE
  BY DEF Init
<1>7. TypeOK BY <1>2, <1>4, <1>5, <1>6 DEF TypeOK
<1> QED BY <1>1, <1>2, <1>7 DEF Init, Typed, Counters, Reset

\* Whatever is asked and however the loop runs, the positions stay in bounds but for what a
\* division by zero spoils, and the window of costs and the counters keep within theirs.
THEOREM TypeCorrect == Spec => []TypeOK
<1>1. Init => Framed /\ Typed BY InitIsTyped DEF Init, Framed
<1>2. Framed /\ Typed /\ [Next]_vars => Framed' /\ Typed' BY FramedStep, TypedStep
<1>3. Framed /\ Typed => TypeOK BY DEF Typed
<1> QED BY <1>1, <1>2, <1>3, PTL DEF Spec

-----------------------------------------------------------------------------
(* What is returned is the cheapest, and a number *)

\* Where the joint is decides how far the obstacles are: a natural number.
LEMMA DistanceIsNat ==
    ASSUME NEW p \in Int
    PROVE  Distance(p) \in Nat
<1>1. Turn \in Nat \ {0} /\ Solid \subseteq Int /\ Solid # {} BY SizesAssumption, NumbersAssumption
<1>2. \A z \in Int : Apart(p, z) \in Nat
  <2>1. \A d \in Int : d % Turn \in 0..Turn - 1 BY <1>1
  <2> SUFFICES ASSUME NEW z \in Int PROVE Apart(p, z) \in Nat OBVIOUS
  <2>2. (p - z) % Turn \in 0..Turn - 1 BY <2>1
  <2> DEFINE d == (p - z) % Turn
  <2>3. (IF 2 * d > Turn THEN Turn - d ELSE d) \in Nat
    <3> HIDE DEF d
    <3>1. d \in 0..Turn - 1 BY <2>2 DEF d
    <3> QED BY <1>1, <3>1
  <2>4. (IF p > z THEN p - z ELSE z - p) \in Nat OBVIOUS
  <2> QED BY <2>3, <2>4 DEF Apart
<1> DEFINE T == {Apart(p, z) : z \in Solid}
<1>3. T \in SUBSET Nat /\ T # {} BY <1>1, <1>2
<1> HIDE DEF T
<1>4. \E x \in T : \A y \in T : x <= y BY <1>3, LeastOfNat
<1>5. Min(T) \in T BY <1>4 DEF Min
<1> QED BY <1>3, <1>5 DEF Distance, T

LEMMA PotentialIsInt ==
    ASSUME NEW d \in Int
    PROVE  getPotential(d) \in Int
<1>1. Radius \in Int /\ Clearance \in Int BY NumbersAssumption
<1>2. \A e, c \in Int : c * (e - c) * (e - c) \in Int /\ c - 2 * e \in Int OBVIOUS
<1>3. d - Radius \in Int BY <1>1
<1> QED BY <1>1, <1>2, <1>3 DEF getPotential

\* A group trajectory that is a number everywhere has a cost that is one: a point's velocity
\* reads no further than the ends that were added for it.
LEMMA CostIsInt ==
    ASSUME NEW t, IsTrajectory(t), NEW g, Frames(g, t), Pointed(g), ~IsNaN(g)
    PROVE  getTrajectoryCost(g) \in Int
<1> DEFINE last == GroupLast(t)
           V == Pad..(last - Pad)
<1>1. last \in Nat /\ DOMAIN g = 0..last /\ FreeVars(g) = V BY GroupLasts, FreeOfFrame
<1>2. Pad \in Nat \ {0} /\ Pad = Len(Rule) - 1 BY PadIsPositive DEF Pad
<1> HIDE DEF last
<1>3. \A i \in 0..last : g[i] \in Int
  BY <1>1, NumbersAssumption DEF Pointed, IsNaN, Positions
<1>4. ASSUME NEW i \in V PROVE Velocity(g, i) \in Int
  <2> DEFINE half == Len(Rule) \div 2
             w == [k \in DOMAIN Rule |-> Rule[k] * g[i + k - 1 - half]]
  <2>1. Rule \in Seq(Int) /\ Len(Rule) % 2 = 1 BY RuleAssumption
  <2>2. DOMAIN Rule = 1..Len(Rule) /\ Len(Rule) \in Nat /\ \A k \in 1..Len(Rule) : Rule[k] \in Int
    BY <2>1
  <2>3. half \in Nat /\ half <= Pad /\ Len(Rule) - 1 - half <= Pad BY <1>2, <2>1, <2>2
  <2> HIDE DEF half
  <2>4. \A k \in 1..Len(Rule) : i + k - 1 - half \in 0..last BY <1>1, <1>2, <2>2, <2>3
  <2>5. w \in [1..Len(Rule) -> Int] BY <1>3, <2>2, <2>4
  <2>6. IsFiniteSet(1..Len(Rule)) BY <2>2, FS_Interval
  <2> HIDE DEF w
  <2>7. SumFunction(w) \in Int BY <2>5, <2>6, SumIsInt
  <2> QED BY <2>7 DEF Velocity, w, half
<1>5. ASSUME NEW i \in V PROVE StateCost(g, i) \in Int
  <2>1. g[i] \in Int BY <1>1, <1>2, <1>3
  <2>2. getPotential(Distance(g[i])) \in Int BY <2>1, DistanceIsNat, PotentialIsInt
  <2>3. Magnitude(Velocity(g, i)) \in Int BY <1>4 DEF Magnitude
  <2>4. \A a, b \in Int : a * b \in Int OBVIOUS
  <2> QED BY <2>2, <2>3, <2>4 DEF StateCost
<1>6. IsFiniteSet(V) BY <1>1, <1>2, FS_Interval
<1> HIDE DEF V
<1>7. getCollisionCost(g) \in Int
  <2>1. [i \in V |-> StateCost(g, i)] \in [V -> Int] BY <1>5
  <2> QED BY <1>1, <1>6, <2>1, SumIsInt DEF getCollisionCost
<1>8. getSmoothnessCost(g) \in Int
  <2>1. \A a \in Int : a * a \in Int OBVIOUS
  <2>2. [i \in V |-> Velocity(g, i) * Velocity(g, i)] \in [V -> Int] BY <1>4, <2>1
  <2>3. SumFunction([i \in V |-> Velocity(g, i) * Velocity(g, i)]) \in Int BY <1>6, <2>2, SumIsInt
  <2> QED BY <1>1, <2>3, NumbersAssumption DEF getSmoothnessCost
<1> QED BY <1>7, <1>8 DEF getTrajectoryCost

\* What a trajectory costs, and whether its meshes are clear, depends on the request alone.
LEMMA CostsStay ==
    ASSUME UNCHANGED request
    PROVE  /\ \A g : CostOf(g)' = CostOf(g)
           /\ \A t : MeshValid(t)' <=> MeshValid(t)
<1>1. \A p, z : Apart(p, z)' = Apart(p, z) BY DEF Apart
<1>2. \A p : Distance(p)' = Distance(p)
  <2>1. \A p : {Apart(p, z)' : z \in Solid} = {Apart(p, z) : z \in Solid} BY <1>1
  <2> QED BY <2>1 DEF Distance
<1>3. \A g, i : StateCost(g, i)' = StateCost(g, i) BY <1>2 DEF StateCost
<1>4. \A g : getCollisionCost(g)' = getCollisionCost(g)
  <2>1. \A g : [i \in FreeVars(g) |-> StateCost(g, i)'] = [i \in FreeVars(g) |-> StateCost(g, i)]
    BY <1>3
  <2> QED BY <2>1 DEF getCollisionCost
<1>5. \A g : CostOf(g)' = CostOf(g) BY <1>4 DEF CostOf, getTrajectoryCost
<1>6. \A t : MeshValid(t)' <=> MeshValid(t) BY <1>2 DEF MeshValid
<1> QED BY <1>5, <1>6

\* What BestIsReturned needs to be inductive: from the first evaluation on, the best
\* trajectory is a number, costs what was noted, and that is the least.
BestIsLeast ==
    pc \notin {"idle", "crashed"} =>
        IF pc = "evaluate" /\ iteration = 0 THEN ~IsNaN(group) /\ least = NaN
        ELSE /\ ~IsNaN(best.traj) /\ best.cost = CostOf(best.traj) /\ best.cost # NaN
             /\ best.cost = least
             /\ pc = "answer" => group = best.traj

LEMMA BestIsLeastStep ==
    ASSUME Typed, Framed, BestIsLeast, [Next]_vars
    PROVE  BestIsLeast'
<1>0. MaxIterations \in Nat \ {0} /\ iteration \in Nat BY SizesAssumption DEF Typed, TypeOK
<1>1. ASSUME NEW r \in Requests, RefusePlan(r) \/ PassThrough(r) PROVE BestIsLeast'
  BY <1>1 DEF RefusePlan, PassThrough, BestIsLeast
<1>2. ASSUME NEW r \in Requests, Plan(r) \/ Filter(r) PROVE BestIsLeast'
  <2>1. PICK t : /\ StartOptimizer(r, t) /\ pc = "idle" /\ IsTrajectory(t)
                 /\ \A i \in DOMAIN t : t[i] \in Positions
    BY <1>2, PlanStarts, FilterStarts, StartsArePointed DEF Plan, Filter
  <2>2. pc' = "evaluate" /\ iteration' = 0 /\ group' = GroupOf(t) /\ least' = NaN
    BY <2>1 DEF StartOptimizer, Typed, Counters, Reset, history
  <2>3. NaN \notin Positions BY NumbersAssumption DEF Positions
  <2>4. \A i \in 0..GroupLast(t) : FullIndex(t, i) \in DOMAIN t
    <3>1. DOMAIN t = 0..LastOf(t) /\ LastOf(t) \in Nat BY <2>1 DEF IsTrajectory
    <3> QED BY <3>1, PadIsPositive DEF FullIndex, GroupLast
  <2>5. ~IsNaN(GroupOf(t)) BY <2>1, <2>3, <2>4 DEF IsNaN, GroupOf
  <2> QED BY <2>2, <2>5 DEF BestIsLeast
<1>3. ASSUME Evaluate PROVE BestIsLeast'
  <2>1. /\ pc = "evaluate" /\ pc' = "check" /\ request' = request
        /\ best' = IF iteration = 0 \/ Less(CostOf(group), best.cost)
                   THEN [traj |-> group, cost |-> CostOf(group)] ELSE best
        /\ least' = IF least = NaN \/ Less(CostOf(group), least) THEN CostOf(group) ELSE least
    BY <1>3 DEF Evaluate
  <2>2. CASE iteration = 0 \/ Less(CostOf(group), best.cost)
    <3>1. best'.traj = group /\ best'.cost = CostOf(group) BY <2>1, <2>2
    <3>2. ~IsNaN(group) BY <2>1, <2>2 DEF BestIsLeast, Less, CostOf
    <3>3. CostOf(group) # NaN
      <4>1. IsTrajectory(full) /\ Frames(group, full) BY <2>1, GroupFrames DEF Framed
      <4>2. getTrajectoryCost(group) \in Int BY <3>2, <4>1, CostIsInt DEF Typed, TypeOK, Pointed
      <4> QED BY <3>2, <4>2, NumbersAssumption DEF CostOf
    <3>4. least' = CostOf(group)
      <4>1. CASE iteration = 0 BY <2>1, <4>1 DEF BestIsLeast
      <4>2. CASE iteration # 0 BY <2>1, <2>2, <4>2 DEF BestIsLeast
      <4> QED BY <4>1, <4>2
    <3> QED BY <2>1, <3>1, <3>2, <3>3, <3>4, CostsStay DEF BestIsLeast
  <2>3. CASE ~(iteration = 0 \/ Less(CostOf(group), best.cost))
    <3>1. best' = best /\ least' = least BY <2>1, <2>3 DEF BestIsLeast
    <3> QED BY <2>1, <2>3, <3>1, CostsStay DEF BestIsLeast
  <2> QED BY <2>2, <2>3
<1>4. ASSUME Check \/ Escape \/ Remain \/ NotTrapped \/ BreakOut PROVE BestIsLeast'
  <2>1. /\ pc \notin {"idle", "crashed", "answer", "evaluate"}
        /\ pc' \notin {"idle", "crashed", "answer"}
        /\ UNCHANGED <<request, best, least>>
        /\ pc' = "evaluate" => iteration' = iteration + 1
    BY <1>4 DEF Check, Escape, Remain, NotTrapped, BreakOut, history, loop
  <2>2. pc' = "evaluate" => iteration' # 0 BY <1>0, <2>1
  <2> QED BY <2>1, <2>2, CostsStay DEF BestIsLeast
<1>5. ASSUME Return PROVE BestIsLeast'
  <2>1. /\ pc \notin {"idle", "crashed"} /\ ~(pc = "evaluate" /\ iteration = 0)
        /\ pc' = "answer" /\ group' = best.traj /\ UNCHANGED <<request, best, least>>
    BY <1>0, <1>5 DEF Return, loop, history
  <2> QED BY <2>1, CostsStay DEF BestIsLeast
<1>6. ASSUME Answer \/ NextFilterFails PROVE BestIsLeast'
  BY <1>6 DEF Answer, NextFilterFails, BestIsLeast
<1>7. ASSUME UNCHANGED vars PROVE BestIsLeast'
  BY <1>7, CostsStay DEF vars, loop, history, BestIsLeast
<1> QED BY <1>1, <1>2, <1>3, <1>4, <1>5, <1>6, <1>7 DEF Next

-----------------------------------------------------------------------------
(* A promise is kept *)

\* isTrajectorySafe speaks of meshes only when they are clear: going through the points
\* ends with another verdict.
LEMMA MeshVerdict ==
    ASSUME NEW valid \in BOOLEAN, NEW n \in Nat, NEW ps \in [1..n -> PointsOver(1..1)],
           isTrajectorySafe(valid, ps) = "MeshToMeshSafe"
    PROVE  valid
<1> SUFFICES ASSUME ~valid PROVE FALSE OBVIOUS
<1>1. isTrajectorySafe(FALSE, ps) = "MeshToMeshSafe" BY DEF isTrajectorySafe
<1> DEFINE D == 1..1
<1>2. ps \in [1..n -> PointsOver(D)] OBVIOUS
<1> HIDE DEF D
<1>3. PICK f \in [0..n -> Memories(D)] :
          /\ f[0] = NoMemory /\ \A m \in 1..n : f[m] = Visit(f[m - 1], ps[m])
          /\ isTrajectorySafe(FALSE, ps) = f[n].verdict
  BY <1>2, SafetyByVisits
<1>4. f[n].verdict \in {"InCollisionSafe"} \cup Unsafe BY <1>3 DEF Memories
<1> QED BY <1>1, <1>3, <1>4 DEF Unsafe

\* The verdict that the meshes are clear is about the trajectory it is asked of.
LEMMA VerdictIsTrue ==
    ASSUME NEW t, IsTrajectory(t), NEW g, Frames(g, t), Pointed(g), Verdict(g) = "MeshToMeshSafe"
    PROVE  MeshValid(g)
<1>1. ~IsNaN(g) /\ isTrajectorySafe(MeshValid(g), PointsOf(g)) = "MeshToMeshSafe" BY DEF Verdict
<1>2. GroupLast(t) \in Nat /\ DOMAIN g = 0..GroupLast(t) BY GroupLasts DEF Frames
<1>3. LastOf(g) = GroupLast(t) BY <1>2, LastOfInterval
<1>4. \A i \in 0..GroupLast(t) : g[i] \in Int
  BY <1>1, <1>2, NumbersAssumption DEF Pointed, IsNaN, Positions
<1> DEFINE n == GroupLast(t) + 1
<1>5. n \in Nat /\ \A i \in 1..n : Distance(g[i - 1]) \in Int
  <2>1. \A i \in 1..n : i - 1 \in 0..GroupLast(t) BY <1>2
  <2> QED BY <1>2, <1>4, <2>1, DistanceIsNat
<1> HIDE DEF n
<1>6. PointsOf(g) \in [1..n -> PointsOver(1..1)]
  <2>1. PointsOf(g) = [i \in 1..n |-> [distances |-> <<Distance(g[i - 1])>>,
                                       collision |-> Distance(g[i - 1]) = 0]]
    BY <1>3 DEF PointsOf, n
  <2>2. \A d \in Int : <<d>> \in [1..1 -> Int] OBVIOUS
  <2> QED BY <1>5, <2>1, <2>2 DEF PointsOver
<1>7. MeshValid(g) \in BOOLEAN BY DEF MeshValid
<1> QED BY <1>1, <1>5, <1>6, <1>7, MeshVerdict

\* What PromiseIsKept needs to be inductive: once it is said that the meshes are clear, the
\* loop is left at the end of this iteration, before another trajectory can be the best.
PromiseHolds ==
    promised = "MeshToMeshSafe" =>
        /\ pc \in {"minimum", "breakout", "return", "answer"}
        /\ soon = 0 /\ shouldBreakOut /\ MeshValid(best.traj)
        /\ pc = "answer" => group = best.traj

LEMMA PromiseHoldsStep ==
    ASSUME Typed, Framed, PromiseHolds, [Next]_vars
    PROVE  PromiseHolds'
<1>1. ASSUME NEW r \in Requests, RefusePlan(r) \/ PassThrough(r) \/ Plan(r) \/ Filter(r)
      PROVE  PromiseHolds'
  <2>1. pc = "idle" /\ promised' = promised
    BY <1>1 DEF RefusePlan, PassThrough, Plan, Filter, StartOptimizer, history
  <2> QED BY <2>1 DEF PromiseHolds
<1>2. ASSUME Evaluate PROVE PromiseHolds'
  BY <1>2 DEF Evaluate, PromiseHolds
<1>3. ASSUME Check PROVE PromiseHolds'
  <2>1. /\ pc = "check" /\ pc' \in {"minimum", "return"} /\ UNCHANGED <<request, best>>
    BY <1>3 DEF Check
  <2>2. promised # "MeshToMeshSafe" BY <2>1 DEF PromiseHolds
  <2>3. \/ promised' = promised
        \/ /\ promised' = checkCurrentIterValidity /\ shouldBreakOut'
           /\ checkCurrentIterValidity = "MeshToMeshSafe" => soon' = 0
    BY Zenon, <1>3 DEF Check
  <2>4. CASE promised' = checkCurrentIterValidity /\ checkCurrentIterValidity = "MeshToMeshSafe"
    <3>1. IsTrajectory(full) /\ Frames(best.traj, full) BY <2>1 DEF Framed
    <3>2. Pointed(best.traj) BY DEF Typed, TypeOK, Pointed
    <3>3. MeshValid(best.traj) BY <2>4, <3>1, <3>2, VerdictIsTrue DEF checkCurrentIterValidity
    <3>4. MeshValid(best.traj)' BY <2>1, <3>3, CostsStay
    <3> QED BY <2>1, <2>2, <2>3, <2>4, <3>4 DEF PromiseHolds
  <2> QED BY <2>2, <2>3, <2>4 DEF PromiseHolds
<1>4. ASSUME Escape \/ Remain \/ NotTrapped PROVE PromiseHolds'
  <2>1. /\ pc = "minimum" /\ pc' = "breakout"
        /\ UNCHANGED <<request, best, soon, shouldBreakOut, promised>>
    BY <1>4 DEF Escape, Remain, NotTrapped, history
  <2> QED BY <2>1, CostsStay DEF PromiseHolds
<1>5. ASSUME BreakOut PROVE PromiseHolds'
  <2>1. /\ pc = "breakout" /\ shouldBreakOut /\ soon = 0 => pc' = "return"
        /\ UNCHANGED <<request, best, soon, shouldBreakOut, promised>>
    BY <1>5 DEF BreakOut, history
  <2> QED BY <1>5, <2>1, CostsStay DEF PromiseHolds, BreakOut
<1>6. ASSUME Return PROVE PromiseHolds'
  <2>1. /\ pc' = "answer" /\ group' = best.traj
        /\ UNCHANGED <<request, best, soon, shouldBreakOut, promised>>
    BY <1>6 DEF Return, loop, history
  <2> QED BY <2>1, CostsStay DEF PromiseHolds
<1>7. ASSUME Answer \/ NextFilterFails PROVE PromiseHolds'
  BY <1>7 DEF Answer, NextFilterFails, Forget, PromiseHolds
<1>8. ASSUME UNCHANGED vars PROVE PromiseHolds'
  BY <1>8, CostsStay DEF vars, loop, history, PromiseHolds
<1> QED BY <1>1, <1>2, <1>3, <1>4, <1>5, <1>6, <1>7, <1>8 DEF Next

\* A point of the full trajectory is one of its group's.
LEMMA PointIsOfGroup ==
    ASSUME NEW t, IsTrajectory(t), NEW i \in DOMAIN t
    PROVE  \E k \in DOMAIN GroupOf(t) : GroupOf(t)[k] = t[i]
<1>1. DOMAIN t = 0..LastOf(t) /\ LastOf(t) \in Nat BY DEF IsTrajectory
<1>2. i + (Pad - 1) \in 0..GroupLast(t) /\ FullIndex(t, i + (Pad - 1)) = i
  BY <1>1, PadIsPositive DEF GroupLast, FullIndex
<1> QED BY <1>2 DEF GroupOf

\* What is returned is the cheapest of the trajectories that were evaluated and no spoilt
\* one, and when it is said that its meshes are clear, they are.
THEOREM AnswerIsTheBest == Spec => []AnswerIsBest
<1>1. Init => Framed /\ Typed /\ BestIsLeast /\ PromiseHolds
  BY InitIsTyped DEF Init, Framed, BestIsLeast, PromiseHolds
<1>2. Framed /\ Typed /\ BestIsLeast /\ PromiseHolds /\ [Next]_vars
        => Framed' /\ Typed' /\ BestIsLeast' /\ PromiseHolds'
  BY FramedStep, TypedStep, BestIsLeastStep, PromiseHoldsStep
<1>3. Framed /\ BestIsLeast /\ PromiseHolds => AnswerIsBest
  <2> SUFFICES ASSUME Framed, BestIsLeast, PromiseHolds, pc = "answer"
               PROVE  /\ ~IsNaN(full) /\ CostOf(GroupOf(full)) = least
                      /\ promised = "MeshToMeshSafe" => MeshValid(full)
    BY DEF AnswerIsBest, BestIsReturned, PromiseIsKept
  <2>1. IsTrajectory(full) /\ GroupOf(full) = best.traj BY DEF Framed, BestIsLeast
  <2>2. \A i \in DOMAIN full : \E k \in DOMAIN best.traj : best.traj[k] = full[i]
    BY <2>1, PointIsOfGroup
  <2>3. ~IsNaN(full) /\ CostOf(GroupOf(full)) = least BY <2>1, <2>2 DEF BestIsLeast, IsNaN
  <2>4. promised = "MeshToMeshSafe" => MeshValid(full) BY <2>2 DEF PromiseHolds, MeshValid
  <2> QED BY <2>3, <2>4
<1> QED BY <1>1, <1>2, <1>3, PTL DEF Spec

-----------------------------------------------------------------------------
(* CollisionProximityPlanner: what the space is asked *)

\* Those that are wanted are selected, and none twice that is there once.
LEMMA SelectedAreWanted ==
    ASSUME NEW X, NEW s \in Seq(X), NEW wanted
    PROVE  /\ Selected(s, wanted) \in Seq(X)
           /\ Range(Selected(s, wanted)) = Range(s) \cap wanted
           /\ IsInjective(s) => IsInjective(Selected(s, wanted))
<1> DEFINE n == Len(s)
           F == [p \in (1..n) \X Seq(X) |-> IF s[p[1]] \in wanted THEN Append(p[2], s[p[1]]) ELSE p[2]]
           V == Seq(X)
           upTo == CHOOSE f : f = [k \in 0..n |->
                       IF k = 0 THEN << >>
                       ELSE IF s[k] \in wanted THEN Append(f[k - 1], s[k]) ELSE f[k - 1]]
<1>1. Selected(s, wanted) = upTo[n] BY DEF Selected
<1>2. F \in [(1..n) \X V -> V] OBVIOUS
<1>3. n \in Nat /\ << >> \in V OBVIOUS
<1>4. \A k \in 1..n, t \in Seq(X) : F[<<k, t>>] = IF s[k] \in wanted THEN Append(t, s[k]) ELSE t OBVIOUS
<1> HIDE DEF F, upTo
<1>5. PICK f \in [0..n -> V] : \A k \in 0..n : f[k] = IF k = 0 THEN << >> ELSE F[<<k, f[k - 1]>>]
  <2> DEFINE base == << >>
  <2>1. base \in V BY <1>3
  <2> HIDE DEF n, V, base
  <2>2. \E f \in [0..n -> V] : IsIteration(f, n, base, F)
    BY Zenon, <1>2, <1>3, <2>1, IterationExists
  <2> QED BY <2>2 DEF base, IsIteration
<1>6. \A k \in 0..n : k # 0 => k \in 1..n /\ k - 1 \in 0..n OBVIOUS
<1>7. f = [k \in 0..n |-> IF k = 0 THEN << >>
                          ELSE IF s[k] \in wanted THEN Append(f[k - 1], s[k]) ELSE f[k - 1]]
  BY <1>4, <1>5, <1>6
<1>8. upTo = [k \in 0..n |-> IF k = 0 THEN << >>
                             ELSE IF s[k] \in wanted THEN Append(upTo[k - 1], s[k]) ELSE upTo[k - 1]]
  BY <1>7 DEF upTo
<1> DEFINE Chosen(t, k) == /\ t \in Seq(X)
                           /\ \A i \in 1..Len(t) : \E j \in 1..k : t[i] = s[j] /\ s[j] \in wanted
                           /\ \A j \in 1..k : s[j] \in wanted => \E i \in 1..Len(t) : t[i] = s[j]
                           /\ IsInjective(s) => \A i, j \in 1..Len(t) : t[i] = t[j] => i = j
           Good == {k \in Nat : k <= n => Chosen(upTo[k], k)}
<1>9. 0 \in Good BY <1>8
<1>10. ASSUME NEW k \in Nat, k \in Good PROVE k + 1 \in Good
  <2> SUFFICES ASSUME k + 1 <= n PROVE Chosen(upTo[k + 1], k + 1) OBVIOUS
  <2> DEFINE t == upTo[k]
  <2>1. Chosen(t, k) BY <1>10
  <2>2. upTo[k + 1] = IF s[k + 1] \in wanted THEN Append(t, s[k + 1]) ELSE t
    <3>1. k + 1 \in 0..n /\ k + 1 # 0 /\ (k + 1) - 1 = k BY <1>3
    <3> QED BY <1>8, <3>1
  <2>3. k + 1 \in 1..n /\ s[k + 1] \in X BY <1>3
  <2> HIDE DEF t
  <2>4. CASE s[k + 1] \notin wanted
    <3>1. \A j \in 1..k + 1 : j \in 1..k \/ j = k + 1 OBVIOUS
    <3>2. \A j \in 1..k : j \in 1..k + 1 OBVIOUS
    <3> QED BY <2>1, <2>2, <2>4, <3>1, <3>2
  <2>5. CASE s[k + 1] \in wanted
    <3> DEFINE u == Append(t, s[k + 1])
    <3>1. /\ u \in Seq(X) /\ Len(u) = Len(t) + 1 /\ u[Len(t) + 1] = s[k + 1]
          /\ \A i \in 1..Len(t) : u[i] = t[i]
      BY <2>1, <2>3
    <3>2. Len(t) \in Nat BY <2>1
    <3> HIDE DEF u
    <3>3. \A i \in 1..Len(u) : i \in 1..Len(t) \/ i = Len(t) + 1 BY <3>1, <3>2
    <3>4. \A j \in 1..k + 1 : j \in 1..k \/ j = k + 1 OBVIOUS
    <3>5. \A j \in 1..k : j \in 1..k + 1 OBVIOUS
    <3>6. \A i \in 1..Len(u) : \E j \in 1..k + 1 : u[i] = s[j] /\ s[j] \in wanted
      <4>1. k + 1 \in 1..k + 1 OBVIOUS
      <4>2. \A i \in 1..Len(t) : \E j \in 1..k + 1 : u[i] = s[j] /\ s[j] \in wanted BY <2>1, <3>1, <3>5
      <4>3. \E j \in 1..k + 1 : u[Len(t) + 1] = s[j] /\ s[j] \in wanted BY <2>5, <3>1, <4>1
      <4> QED BY <3>3, <4>2, <4>3
    <3>7. \A j \in 1..k + 1 : s[j] \in wanted => \E i \in 1..Len(u) : u[i] = s[j]
      <4>1. Len(t) + 1 \in 1..Len(u) /\ \A i \in 1..Len(t) : i \in 1..Len(u) BY <3>1, <3>2
      <4> QED BY <2>1, <3>1, <3>4, <4>1
    <3>8. ASSUME IsInjective(s), NEW i \in 1..Len(u), NEW j \in 1..Len(u), u[i] = u[j] PROVE i = j
      <4>1. \A m \in 1..Len(t) : t[m] # s[k + 1]
        <5>1. \A j1 \in 1..k : s[j1] # s[k + 1]
          <6>1. DOMAIN s = 1..n OBVIOUS
          <6>2. \A j1 \in 1..k : j1 \in 1..n /\ j1 # k + 1 BY <1>3, <2>3
          <6> QED BY <2>3, <3>8, <6>1, <6>2 DEF IsInjective
        <5> QED BY <2>1, <5>1
      <4> QED BY <2>1, <3>1, <3>3, <3>8, <4>1
    <3>9. Chosen(u, k + 1) BY <3>1, <3>6, <3>7, <3>8
    <3>10. upTo[k + 1] = u BY <2>2, <2>5 DEF u
    <3> HIDE DEF Chosen
    <3> QED BY <3>9, <3>10
  <2> QED BY <2>4, <2>5
<1>11. Nat \subseteq Good
  <2> HIDE DEF Good
  <2> QED BY <1>9, <1>10, InductionOverNat
<1>12. Chosen(upTo[n], n) BY <1>3, <1>11
<1> DEFINE t == upTo[n]
<1>13. DOMAIN s = 1..n /\ DOMAIN t = 1..Len(t) BY <1>12
<1> HIDE DEF t
<1>14. Range(t) = Range(s) \cap wanted
  <2>1. \A x : x \in Range(t) => x \in Range(s) \cap wanted BY <1>12, <1>13 DEF Range, t
  <2>2. \A x : x \in Range(s) \cap wanted => x \in Range(t)
    <3> SUFFICES ASSUME NEW j \in 1..n, s[j] \in wanted PROVE s[j] \in Range(t) BY <1>13 DEF Range
    <3>1. PICK i \in 1..Len(t) : t[i] = s[j] BY <1>12 DEF t
    <3> QED BY <1>13, <3>1 DEF Range
  <2> QED BY <2>1, <2>2
<1>15. IsInjective(s) => IsInjective(t) BY <1>12, <1>13 DEF IsInjective, t
<1> QED BY <1>1, <1>12, <1>14, <1>15 DEF t

-----------------------------------------------------------------------------
(* Distances *)

LEMMA GapIsNat ==
    ASSUME NEW x \in Int, NEW y \in Int
    PROVE  Gap(x, y) \in Nat
BY DEF Gap

\* The least of some integers that are not below a bound.
LEMMA LeastIsOne ==
    ASSUME NEW bound \in Int, NEW s \in SUBSET Int, s # {}, \A x \in s : bound <= x
    PROVE  Min(s) \in s /\ \A x \in s : Min(s) <= x
<1> DEFINE T == {x - bound : x \in s}
<1>1. T \in SUBSET Nat /\ T # {}
  <2>1. \A x \in s : x - bound \in Nat OBVIOUS
  <2>2. PICK x : x \in s OBVIOUS
  <2>3. x - bound \in T BY <2>2
  <2> QED BY <2>1, <2>3
<1>2. PICK y \in T : \A z \in T : y <= z
  <2> HIDE DEF T
  <2> QED BY <1>1, LeastOfNat
<1>3. PICK x \in s : y = x - bound BY <1>2
<1>4. \A z \in s : x <= z
  <2>1. \A z \in s : z - bound \in T /\ z \in Int OBVIOUS
  <2>2. \A z \in s : y <= z - bound
    <3> HIDE DEF T
    <3> QED BY <1>2, <2>1
  <2> QED BY <1>3, <2>1, <2>2
<1> QED BY <1>3, <1>4 DEF Min

LEMMA FieldDistanceIsLeast ==
    ASSUME NEW field \in SUBSET Int, NEW p \in Int, NEW max \in Nat
    PROVE  LET d == FieldDistance(field, p, max) IN
           /\ d \in Nat /\ d <= max /\ \A o \in field : d <= Gap(p, o)
           /\ d = max \/ \E o \in field : d = Gap(p, o)
<1> DEFINE s == {Gap(p, o) : o \in field} \cup {max}
<1>1. s \in SUBSET Int /\ s # {} /\ \A x \in s : x \in Nat /\ 0 <= x
  <2>1. \A x \in s : x \in Nat BY GapIsNat
  <2>2. max \in s OBVIOUS
  <2> HIDE DEF s
  <2> QED BY <2>1, <2>2
<1>2. FieldDistance(field, p, max) = Min(s) BY DEF FieldDistance
<1>3. \A o \in field : Gap(p, o) \in s OBVIOUS
<1>4. max \in s /\ \A x \in s : x = max \/ \E o \in field : x = Gap(p, o) OBVIOUS
<1> HIDE DEF s
<1>5. Min(s) \in s /\ \A x \in s : Min(s) <= x BY <1>1, LeastIsOne
<1> QED BY <1>1, <1>2, <1>3, <1>4, <1>5

\* A field sees what a sphere touches, and nothing else.
LEMMA TouchesWhatIsNear ==
    ASSUME NEW field \in SUBSET Int, NEW p \in Int, NEW max \in {MaxEnvironmentDistance, MaxSelfDistance}
    PROVE  Touches(field, p, max) <=> \E o \in field : Gap(p, o) - SphereRadius < Tolerance + 1
<1>1. /\ max \in Nat /\ SphereRadius \in Nat /\ Tolerance \in Int /\ SphereRadius + Tolerance < max
  BY DistancesAssumption, ToleranceAssumption
<1> DEFINE d == FieldDistance(field, p, max)
<1>2. /\ d \in Nat /\ d <= max /\ \A o \in field : d <= Gap(p, o) /\ Gap(p, o) \in Nat
      /\ d = max \/ \E o \in field : d = Gap(p, o)
  BY <1>1, FieldDistanceIsLeast, GapIsNat
<1>3. Touches(field, p, max) <=> d < max /\ d - SphereRadius <= Tolerance BY DEF Touches, Proximity
<1> HIDE DEF d
<1>4. CASE Touches(field, p, max) BY <1>1, <1>2, <1>3, <1>4
<1>5. ASSUME NEW o \in field, Gap(p, o) - SphereRadius < Tolerance + 1 PROVE Touches(field, p, max)
  BY <1>1, <1>2, <1>3, <1>5
<1> QED BY <1>4, <1>5

\* A distance below the tolerance is one of an obstacle within it.
LEMMA ProximityIsTrue ==
    ASSUME NEW field \in SUBSET Int, NEW p \in Int, NEW max \in {MaxEnvironmentDistance, MaxSelfDistance}
    PROVE  LET d == Proximity(field, p, max) IN
           /\ d \in Int
           /\ (\E o \in field : Gap(p, o) - SphereRadius < Tolerance) => d < Tolerance /\ d < max
           /\ d < Tolerance => \E o \in field : Gap(p, o) - SphereRadius < Tolerance
<1>1. /\ max \in Nat /\ SphereRadius \in Nat /\ Tolerance \in Int /\ SphereRadius + Tolerance < max
  BY DistancesAssumption, ToleranceAssumption
<1> DEFINE d == FieldDistance(field, p, max)
           e == Proximity(field, p, max)
<1>2. /\ d \in Nat /\ d <= max /\ \A o \in field : d <= Gap(p, o) /\ Gap(p, o) \in Nat
      /\ d = max \/ \E o \in field : d = Gap(p, o)
  BY <1>1, FieldDistanceIsLeast, GapIsNat
<1>3. e = IF d < max THEN d - SphereRadius ELSE d BY DEF Proximity
<1> HIDE DEF d, e
<1>4. ASSUME NEW o \in field, Gap(p, o) - SphereRadius < Tolerance PROVE e < Tolerance /\ e < max
  BY <1>1, <1>2, <1>3, <1>4
<1>5. ASSUME e < Tolerance PROVE \E o \in field : Gap(p, o) - SphereRadius < Tolerance
  <2>1. d < max BY <1>1, <1>2, <1>3, <1>5
  <2>2. d - SphereRadius < Tolerance BY <1>3, <1>5, <2>1
  <2>3. \E o \in field : d = Gap(p, o) BY <1>2, <2>1
  <2> QED BY <2>2, <2>3
<1>6. e \in Int BY <1>1, <1>2, <1>3
<1> QED BY <1>4, <1>5, <1>6 DEF e

-----------------------------------------------------------------------------
(* Places *)

BodyRecords == [link : Links, name : STRING, offset : Int, touch : SUBSET Links]
SceneTyped(s) ==
    /\ s.objects \subseteq Int /\ s.map \subseteq Int /\ s.joint \in JointValues
    /\ s.attached \in Seq(BodyRecords)

LEMMA ScenesAreTyped ==
    ASSUME NEW s \in Scenes \cup {NoScene}
    PROVE  SceneTyped(s)
<1>1. CASE s \in Scenes BY <1>1, ScenesAssumption DEF SceneTyped, BodyRecords
<1>2. CASE s = NoScene BY <1>2, JointAssumption DEF NoScene, SceneTyped
<1> QED BY <1>1, <1>2

LEMMA LinksAreInt ==
    ASSUME NEW l \in Links, NEW at \in Int
    PROVE  LinkAt(l, at) \in Int
<1>1. Offset[l] \in Int /\ Reach[l] \in Int BY LinksAssumption
<1> QED BY <1>1 DEF LinkAt

LEMMA BodiesAreInt ==
    ASSUME NEW b \in BodyRecords, NEW at \in Int
    PROVE  BodyAt(b, at) \in Int
<1>1. b.link \in Links /\ b.offset \in Int BY DEF BodyRecords
<1> QED BY <1>1, LinksAreInt DEF BodyAt

\* An object's place is that of a body with its name and link.
LEMMA ObjectIsPlaced ==
    ASSUME NEW s, SceneTyped(s), NEW at, NEW id \in ObjectIds(s)
    PROVE  \E k \in DOMAIN s.attached : /\ makeAttachedObjectId(s.attached[k]) = id
                                        /\ AttachedAt(s, at)[id] = BodyAt(s.attached[k], at)
<1> DEFINE k == CHOOSE k \in DOMAIN s.attached : makeAttachedObjectId(s.attached[k]) = id
<1>1. k \in DOMAIN s.attached /\ makeAttachedObjectId(s.attached[k]) = id BY DEF ObjectIds
<1>2. AttachedAt(s, at)[id] = BodyAt(s.attached[k], at) BY DEF AttachedAt
<1> HIDE DEF k
<1> QED BY <1>1, <1>2

LEMMA AttachedAreInt ==
    ASSUME NEW s, SceneTyped(s), NEW at \in Int
    PROVE  AttachedAt(s, at) \in [ObjectIds(s) -> Int]
<1>1. ASSUME NEW id \in ObjectIds(s) PROVE AttachedAt(s, at)[id] \in Int
  <2>1. PICK k \in DOMAIN s.attached : AttachedAt(s, at)[id] = BodyAt(s.attached[k], at)
    BY ObjectIsPlaced
  <2>2. s.attached[k] \in BodyRecords BY DEF SceneTyped
  <2> QED BY <2>1, <2>2, BodiesAreInt
<1>2. DOMAIN AttachedAt(s, at) = ObjectIds(s) /\ AttachedAt(s, at) = [id \in ObjectIds(s) |-> AttachedAt(s, at)[id]]
  BY DEF AttachedAt
<1> QED BY <1>1, <1>2

\* What is not of the group does not move.
LEMMA RestStays ==
    ASSUME SceneTyped(scene), NEW at \in Int
    PROVE  RestPoints(at) = RestPoints(0)
<1> DEFINE rest == Bodies \ Range(GroupLinks)
<1>1. ASSUME NEW l \in rest PROVE LinkAt(l, at) = LinkAt(l, 0)
  <2>1. Reach[l] = 0 /\ Offset[l] \in Int BY LinksAssumption
  <2>2. 0 * at = 0 /\ 0 * 0 = 0 OBVIOUS
  <2> QED BY <2>1, <2>2 DEF LinkAt
<1>2. ASSUME NEW k \in DOMAIN scene.attached, scene.attached[k].link \in rest
      PROVE  BodyAt(scene.attached[k], at) = BodyAt(scene.attached[k], 0)
  BY <1>1, <1>2 DEF BodyAt
<1> QED BY <1>1, <1>2 DEF RestPoints

LEMMA RestIsInt ==
    ASSUME SceneTyped(scene), NEW at \in Int
    PROVE  RestPoints(at) \subseteq Int
<1>1. \A l \in Bodies : LinkAt(l, at) \in Int BY LinksAssumption, LinksAreInt
<1>2. \A k \in DOMAIN scene.attached : BodyAt(scene.attached[k], at) \in Int
  <2>1. \A k \in DOMAIN scene.attached : scene.attached[k] \in BodyRecords BY DEF SceneTyped
  <2> QED BY <2>1, BodiesAreInt
<1> QED BY <1>1, <1>2 DEF RestPoints

-----------------------------------------------------------------------------
(* The group *)

LEMMA GroupNamesAre ==
    /\ GroupNames \in Seq(Links) /\ IsInjective(GroupNames)
    /\ Range(GroupNames) \subseteq Bodies /\ Range(GroupNames) \subseteq Links
<1>1. GroupLinks \in Seq(Links) /\ IsInjective(GroupLinks) /\ Bodies \subseteq Links BY LinksAssumption
<1> QED BY <1>1, SelectedAreWanted DEF GroupNames

LEMMA GroupHeldAre ==
    ASSUME SceneTyped(scene)
    PROVE  /\ GroupHeld \in Seq(BodyRecords)
           /\ Range(GroupHeld) = {b \in Range(scene.attached) : b.link \in Range(GroupNames)}
<1>1. scene.attached \in Seq(BodyRecords) BY DEF SceneTyped
<1> DEFINE wanted == {b \in Range(scene.attached) : b.link \in Range(GroupNames)}
<1>2. Range(scene.attached) \cap wanted = wanted OBVIOUS
<1> HIDE DEF wanted
<1>3. Selected(scene.attached, wanted) \in Seq(BodyRecords)
      /\ Range(Selected(scene.attached, wanted)) = Range(scene.attached) \cap wanted
  BY <1>1, SelectedAreWanted
<1> QED BY <1>2, <1>3 DEF GroupHeld, wanted

\* The space is set up for the group, and knows its scene and what its objects may touch.
SetUp ==
    steady =>
        /\ scene \in Scenes /\ IsSet /\ current_group = Group
        /\ names = GroupNames /\ held = GroupHeld
        /\ pairs = PairsOf(names, HeldIds(held))
        /\ selfField.points = RestPoints(0) \ selfField.missing
        /\ Len(gradients) = Len(names) + Len(held)

SceneKnown ==
    /\ IsSet => envField.points = Obstacles(scene) \ envField.missing
    /\ touch \subseteq (Links \X STRING) \X {LinkId(l) : l \in Links}
    /\ \A k \in DOMAIN scene.attached : \A l \in scene.attached[k].touch :
          <<makeAttachedObjectId(scene.attached[k]), LinkId(l)>> \in touch

Ready == PlannerTypeOK /\ SetUp /\ SceneKnown /\ Understood

\* What the group holds, each on a link of its own: what is on its link is it.
LEMMA HeldIsAlone ==
    ASSUME Ready, NEW k \in DOMAIN held
    PROVE  /\ held[k] \in BodyRecords
           /\ makeAttachedObjectId(held[k]) \in ObjectIds(scene)
           /\ \E m \in DOMAIN scene.attached : scene.attached[m] = held[k]
           /\ \A m \in DOMAIN scene.attached :
                 scene.attached[m].link = held[k].link => scene.attached[m] = held[k]
           /\ \A j \in DOMAIN held : held[j].link = held[k].link => j = k
<1>1. SceneTyped(scene) BY ScenesAreTyped DEF Ready, PlannerTypeOK
<1>2. /\ held = GroupHeld /\ held \in Seq(BodyRecords)
      /\ Range(held) = {b \in Range(scene.attached) : b.link \in Range(GroupNames)}
  BY <1>1, GroupHeldAre DEF Ready, SetUp, Understood
<1>3. \A j \in DOMAIN held : held[j].link = held[k].link => j = k
  <2>1. IsInjective([j \in DOMAIN held |-> held[j].link]) BY <1>2 DEF Ready, Understood
  <2> QED BY <2>1 DEF IsInjective
<1>4. held[k] \in Range(scene.attached) /\ held[k].link \in Range(GroupNames)
  <2>1. held[k] \in Range(held) BY DEF Range
  <2> QED BY <1>2, <2>1
<1>5. PICK m \in DOMAIN scene.attached : scene.attached[m] = held[k] BY <1>4 DEF Range
<1>6. ASSUME NEW i \in DOMAIN scene.attached, scene.attached[i].link = held[k].link
      PROVE  scene.attached[i] = held[k]
  <2>1. scene.attached[i] \in Range(scene.attached) BY DEF Range
  <2>2. scene.attached[i] \in Range(held) BY <1>2, <1>4, <1>6, <2>1
  <2>3. PICK j \in DOMAIN held : held[j] = scene.attached[i] BY <2>2 DEF Range
  <2> QED BY <1>3, <1>6, <2>3
<1>7. held[k] \in BodyRecords BY <1>2
<1>8. makeAttachedObjectId(held[k]) \in ObjectIds(scene) BY <1>5 DEF ObjectIds
<1> QED BY <1>3, <1>5, <1>6, <1>7, <1>8

\* The group's links come first, its objects after them.
LEMMA IdsAre ==
    ASSUME Ready
    PROVE  /\ names \in Seq(Links) /\ held \in Seq(BodyRecords) /\ Count \in Nat
           /\ DOMAIN Ids = 1..Count
           /\ \A i \in 1..Count :
                 /\ i <= Len(names) => i \in DOMAIN names /\ Ids[i] = LinkId(names[i])
                 /\ ~(i <= Len(names)) => /\ i - Len(names) \in DOMAIN held
                                          /\ Ids[i] = HeldIds(held)[i - Len(names)]
                                          /\ Ids[i] = makeAttachedObjectId(held[i - Len(names)])
           /\ Ids = [i \in DOMAIN names |-> LinkId(names[i])] \o HeldIds(held)
<1>1. SceneTyped(scene) BY ScenesAreTyped DEF Ready, PlannerTypeOK
<1>2. names = GroupNames /\ held = GroupHeld BY DEF Ready, SetUp, Understood
<1>3. names \in Seq(Links) /\ held \in Seq(BodyRecords) BY <1>1, <1>2, GroupNamesAre, GroupHeldAre
<1> DEFINE X == {LinkId(l) : l \in Links} \cup {makeAttachedObjectId(b) : b \in BodyRecords}
           s == [i \in DOMAIN names |-> LinkId(names[i])]
           t == HeldIds(held)
<1>4. s \in Seq(X) /\ Len(s) = Len(names) /\ \A i \in DOMAIN names : s[i] = LinkId(names[i])
  <2>1. DOMAIN names = 1..Len(names) /\ Len(names) \in Nat BY <1>3
  <2>2. \A i \in 1..Len(names) : LinkId(names[i]) \in X BY <1>3
  <2> HIDE DEF X
  <2> QED BY <2>1, <2>2
<1>5. t \in Seq(X) /\ Len(t) = Len(held) /\ \A i \in DOMAIN held : t[i] = makeAttachedObjectId(held[i])
  <2>1. DOMAIN held = 1..Len(held) /\ Len(held) \in Nat BY <1>3
  <2>2. \A i \in 1..Len(held) : makeAttachedObjectId(held[i]) \in X BY <1>3
  <2> HIDE DEF X
  <2> QED BY <2>1, <2>2 DEF HeldIds
<1>6. Ids = s \o t BY <1>2 DEF Ids
<1> HIDE DEF X, s, t
<1>7. /\ s \o t \in Seq(X) /\ Len(s \o t) = Len(s) + Len(t)
      /\ \A i \in 1..Len(s) : (s \o t)[i] = s[i]
      /\ \A i \in 1..Len(t) : (s \o t)[Len(s) + i] = t[i]
  BY <1>4, <1>5
<1>8. Count = Len(names) + Len(held) /\ Len(names) \in Nat /\ Len(held) \in Nat
      /\ DOMAIN names = 1..Len(names) /\ DOMAIN held = 1..Len(held)
  BY <1>3 DEF Count
<1>9. DOMAIN Ids = 1..Count BY <1>4, <1>5, <1>6, <1>7, <1>8
<1>10. ASSUME NEW i \in 1..Count, i <= Len(names)
       PROVE  i \in DOMAIN names /\ Ids[i] = LinkId(names[i])
  <2>1. i \in 1..Len(names) /\ i \in DOMAIN names /\ i \in 1..Len(s) BY <1>4, <1>8, <1>10
  <2>2. Ids[i] = s[i] BY <1>6, <1>7, <2>1
  <2> QED BY <1>4, <2>1, <2>2
<1>11. ASSUME NEW i \in 1..Count, ~(i <= Len(names))
       PROVE  /\ i - Len(names) \in DOMAIN held /\ Ids[i] = t[i - Len(names)]
              /\ Ids[i] = makeAttachedObjectId(held[i - Len(names)])
  <2>1. i - Len(names) \in 1..Len(held) /\ Len(names) + (i - Len(names)) = i BY <1>8, <1>11
  <2> QED BY <1>4, <1>5, <1>6, <1>7, <1>8, <2>1
<1>12. \A i \in 1..Count :
          /\ i <= Len(names) => i \in DOMAIN names /\ Ids[i] = LinkId(names[i])
          /\ ~(i <= Len(names)) => /\ i - Len(names) \in DOMAIN held
                                   /\ Ids[i] = HeldIds(held)[i - Len(names)]
                                   /\ Ids[i] = makeAttachedObjectId(held[i - Len(names)])
  <2> SUFFICES ASSUME NEW i \in 1..Count
               PROVE  /\ i <= Len(names) => i \in DOMAIN names /\ Ids[i] = LinkId(names[i])
                      /\ ~(i <= Len(names)) =>
                            /\ i - Len(names) \in DOMAIN held
                            /\ Ids[i] = t[i - Len(names)]
                            /\ Ids[i] = makeAttachedObjectId(held[i - Len(names)])
    BY DEF t
  <2>1. CASE i <= Len(names) BY <1>10, <2>1
  <2>2. CASE ~(i <= Len(names)) BY <1>11, <2>2
  <2> QED BY <2>1, <2>2
<1>13. Ids = [i \in DOMAIN names |-> LinkId(names[i])] \o HeldIds(held) BY <1>6 DEF s, t
<1>14. Count \in Nat BY <1>8
<1> QED BY <1>3, <1>9, <1>12, <1>13, <1>14

LEMMA IdsAreTuples ==
    /\ \A l : Len(LinkId(l)) = 1 /\ LinkId(l)[1] = l
    /\ \A b : Len(makeAttachedObjectId(b)) = 2 /\ makeAttachedObjectId(b)[1] = b.link
BY DEF LinkId, makeAttachedObjectId

\* No two parts of the group have the same name.
LEMMA IdsAreApart ==
    ASSUME Ready, NEW i \in 1..Count, NEW j \in 1..Count, i # j
    PROVE  Ids[i] # Ids[j]
<1>1. names = GroupNames BY DEF Ready, SetUp, Understood
<1>2. \A m, n \in DOMAIN names : names[m] = names[n] => m = n
  BY <1>1, GroupNamesAre DEF IsInjective
<1>3. names \in Seq(Links) /\ held \in Seq(BodyRecords) /\ Count \in Nat BY IdsAre
<1> DEFINE n == Len(names)
<1>4. n \in Nat /\ DOMAIN names = 1..n BY <1>3
<1>5. CASE i <= n /\ j <= n
  <2>1. /\ i \in DOMAIN names /\ Ids[i] = LinkId(names[i])
        /\ j \in DOMAIN names /\ Ids[j] = LinkId(names[j])
    BY <1>5, IdsAre
  <2>2. names[i] # names[j] BY <1>2, <2>1
  <2> QED BY <2>1, <2>2, IdsAreTuples
<1>6. CASE ~(i <= n) /\ ~(j <= n)
  <2>1. /\ i - n \in DOMAIN held /\ Ids[i] = makeAttachedObjectId(held[i - n])
        /\ j - n \in DOMAIN held /\ Ids[j] = makeAttachedObjectId(held[j - n])
    BY <1>6, IdsAre
  <2>2. i - n # j - n BY <1>3, <1>4
  <2>3. held[i - n].link # held[j - n].link BY <2>1, <2>2, HeldIsAlone
  <2> QED BY <2>1, <2>3, IdsAreTuples
<1>7. ASSUME NEW a \in 1..Count, NEW b \in 1..Count, a <= n, ~(b <= n) PROVE Ids[a] # Ids[b]
  <2>1. Ids[a] = LinkId(names[a]) /\ Ids[b] = makeAttachedObjectId(held[b - n]) BY <1>7, IdsAre
  <2>2. Len(Ids[a]) = 1 /\ Len(Ids[b]) = 2 BY <2>1, IdsAreTuples
  <2> QED BY <2>2
<1>8. CASE (i <= n /\ ~(j <= n)) \/ (~(i <= n) /\ j <= n) BY <1>7, <1>8
<1> QED BY <1>5, <1>6, <1>8

\* A sphere that is posed is where its body is.
LEMMA SphereIsThere ==
    ASSUME Ready, NEW at \in Int, NEW i \in 1..Count
    PROVE  /\ SphereAt(PosedSpheres(at), PosedAttached(at), i) = PlaceOf(Ids[i], at)
           /\ PlaceOf(Ids[i], at) \in Int
<1>1. SceneTyped(scene) BY ScenesAreTyped DEF Ready, PlannerTypeOK
<1>2. current_group # "" BY GroupAssumption DEF Ready, SetUp, Understood
<1>3. CASE i <= Len(names)
  <2>1. i \in DOMAIN names /\ Ids[i] = LinkId(names[i]) BY <1>3, IdsAre
  <2>2. names[i] \in Range(names) BY <2>1 DEF Range
  <2>3. names[i] \in Bodies /\ names[i] \in Links
    BY <2>2, GroupNamesAre DEF Ready, SetUp, Understood
  <2>4. PosedSpheres(at)[names[i]] = LinkAt(names[i], at) BY <1>2, <2>2, <2>3 DEF PosedSpheres
  <2>5. PlaceOf(Ids[i], at) = LinkAt(names[i], at) BY <2>1, IdsAreTuples DEF PlaceOf
  <2>6. LinkAt(names[i], at) \in Int BY <2>3, LinksAreInt
  <2> QED BY <1>3, <2>4, <2>5, <2>6 DEF SphereAt
<1>4. CASE ~(i <= Len(names))
  <2> DEFINE k == i - Len(names)
             b == held[k]
             id == makeAttachedObjectId(b)
  <2>1. k \in DOMAIN held /\ Ids[i] = id /\ HeldIds(held)[k] = id BY <1>4, IdsAre
  <2> HIDE DEF k
  <2>2. /\ b \in BodyRecords /\ id \in ObjectIds(scene)
        /\ \E m \in DOMAIN scene.attached : scene.attached[m] = b
        /\ \A m \in DOMAIN scene.attached : scene.attached[m].link = b.link => scene.attached[m] = b
    BY <2>1, HeldIsAlone
  <2>3. id[1] = b.link /\ Len(id) = 2 BY IdsAreTuples
  <2>4. LastOfLink(b.link) = b
    <3> DEFINE s == {m \in DOMAIN scene.attached : scene.attached[m].link = b.link}
    <3>1. DOMAIN scene.attached = 1..Len(scene.attached) /\ Len(scene.attached) \in Nat
      BY <1>1 DEF SceneTyped
    <3>2. s \in SUBSET (1..Len(scene.attached)) /\ s # {} BY <2>2, <3>1
    <3>3. Max(s) \in s
      <4> HIDE DEF s
      <4> QED BY <3>1, <3>2, LastPointIsOne
    <3>4. LastOfLink(b.link) = scene.attached[Max(s)] BY DEF LastOfLink
    <3> QED BY <2>2, <3>3, <3>4
  <2>5. AttachedAt(scene, at)[id] = BodyAt(b, at)
    <3>1. PICK m \in DOMAIN scene.attached :
              /\ makeAttachedObjectId(scene.attached[m]) = id
              /\ AttachedAt(scene, at)[id] = BodyAt(scene.attached[m], at)
      BY <1>1, <2>2, ObjectIsPlaced
    <3>2. scene.attached[m].link = b.link BY <2>3, <3>1, IdsAreTuples
    <3> QED BY <2>2, <3>1, <3>2
  <2>6. PosedAttached(at)[id] = BodyAt(b, at)
    <3>1. DOMAIN attached = ObjectIds(scene) BY DEF Ready, PlannerTypeOK
    <3>2. id \in Range(HeldIds(held))
      <4>1. DOMAIN HeldIds(held) = DOMAIN held BY DEF HeldIds
      <4> QED BY <2>1, <4>1 DEF Range
    <3> HIDE DEF id
    <3> QED BY <1>2, <2>2, <2>3, <2>4, <3>1, <3>2 DEF PosedAttached
  <2>7. PlaceOf(Ids[i], at) = BodyAt(b, at) BY <2>1, <2>3, <2>5 DEF PlaceOf
  <2>8. SphereAt(PosedSpheres(at), PosedAttached(at), i) = PosedAttached(at)[id]
    BY <1>4, <2>1 DEF SphereAt, k
  <2>9. BodyAt(b, at) \in Int BY <2>2, BodiesAreInt
  <2> QED BY <2>6, <2>7, <2>8, <2>9
<1> QED BY <1>3, <1>4

\* The pairs that are checked are those that may not meet.
LEMMA CheckedMayNotMeet ==
    ASSUME Ready, NEW i \in 1..Count, NEW j \in 1..Count, i # j
    PROVE  pairs[i][j] <=> ~MayMeet(Ids[i], Ids[j])
<1> DEFINE n == Len(names)
           a == Ids[i]
           b == Ids[j]
<1>1. /\ names \in Seq(Links) /\ held \in Seq(BodyRecords) /\ DOMAIN Ids = 1..Count
      /\ Ids = [m \in DOMAIN names |-> LinkId(names[m])] \o HeldIds(held)
  BY IdsAre
<1>2. pairs = [m \in 1..Count |-> [k \in 1..Count |->
                 IF m <= n /\ k <= n THEN {names[m], names[k]} \notin DisabledPairs
                 ELSE ~MayTouch(Ids[m], Ids[k]) /\ ~MayTouch(Ids[k], Ids[m])]]
  <2>1. pairs = PairsOf(names, HeldIds(held)) BY DEF Ready, SetUp, Understood
  <2> HIDE DEF n
  <2>2. PairsOf(names, HeldIds(held)) =
            [m \in DOMAIN Ids |-> [k \in DOMAIN Ids |->
               IF m <= n /\ k <= n THEN {names[m], names[k]} \notin DisabledPairs
               ELSE ~MayTouch(Ids[m], Ids[k]) /\ ~MayTouch(Ids[k], Ids[m])]]
    BY Zenon, <1>1 DEF PairsOf, n
  <2> QED BY <1>1, <2>1, <2>2
<1>3. pairs[i][j] <=> IF i <= n /\ j <= n THEN {names[i], names[j]} \notin DisabledPairs
                      ELSE ~MayTouch(a, b) /\ ~MayTouch(b, a)
  BY <1>2
<1> HIDE DEF n
<1>4. SceneTyped(scene) BY ScenesAreTyped DEF Ready, PlannerTypeOK
<1>5. CASE i <= n /\ j <= n
  <2>1. a = LinkId(names[i]) /\ b = LinkId(names[j]) BY <1>5, IdsAre DEF n
  <2>2. /\ Len(a) = 1 /\ a[1] = names[i] /\ Len(b) = 1 /\ b[1] = names[j]
    BY <2>1, IdsAreTuples
  <2>3. ASSUME NEW k \in DOMAIN scene.attached, NEW l \in Links
        PROVE  {a, b} # {makeAttachedObjectId(scene.attached[k]), LinkId(l)}
    <3>1. Len(makeAttachedObjectId(scene.attached[k])) = 2 BY IdsAreTuples
    <3> QED BY <2>2, <3>1
  <2> HIDE DEF a, b
  <2>4. MayMeet(a, b) <=> {names[i], names[j]} \in DisabledPairs BY <2>2, <2>3 DEF MayMeet
  <2> QED BY <1>3, <1>5, <2>4 DEF a, b
<1>6. CASE ~(i <= n /\ j <= n)
  <2>1. Len(a) # 1 \/ Len(b) # 1
    <3>1. CASE ~(i <= n)
      <4>1. a = makeAttachedObjectId(held[i - n]) BY <3>1, IdsAre DEF n
      <4>2. Len(a) = 2 BY <4>1, IdsAreTuples
      <4> QED BY <4>2
    <3>2. CASE ~(j <= n)
      <4>1. b = makeAttachedObjectId(held[j - n]) BY <3>2, IdsAre DEF n
      <4>2. Len(b) = 2 BY <4>1, IdsAreTuples
      <4> QED BY <4>2
    <3> QED BY <1>6, <3>1, <3>2
  <2>2. a \in ObjectIds(scene) \/ Len(a) = 1
    <3>1. CASE i <= n BY <3>1, IdsAre, IdsAreTuples DEF n
    <3>2. CASE ~(i <= n)
      <4>1. i - n \in DOMAIN held /\ a = makeAttachedObjectId(held[i - n]) BY <3>2, IdsAre DEF n
      <4> QED BY <4>1, HeldIsAlone
    <3> QED BY <3>1, <3>2
  <2>3. b \in ObjectIds(scene) \/ Len(b) = 1
    <3>1. CASE j <= n BY <3>1, IdsAre, IdsAreTuples DEF n
    <3>2. CASE ~(j <= n)
      <4>1. j - n \in DOMAIN held /\ b = makeAttachedObjectId(held[j - n]) BY <3>2, IdsAre DEF n
      <4> QED BY <4>1, HeldIsAlone
    <3> QED BY <3>1, <3>2
  <2> HIDE DEF a, b
  <2>4. ASSUME NEW x, NEW y, MayTouch(x, y) PROVE Len(x) = 2 /\ Len(y) = 1
    <3>1. <<x, y>> \in (Links \X STRING) \X {LinkId(l) : l \in Links}
      BY <2>4 DEF Ready, SceneKnown, MayTouch
    <3>2. x \in Links \X STRING /\ \E l \in Links : y = LinkId(l) BY <3>1
    <3> QED BY <3>2, IdsAreTuples
  <2>5. ASSUME MayTouch(a, b) \/ MayTouch(b, a) PROVE MayMeet(a, b)
    <3>1. \A pair \in touch : pair[1] \in ObjectIds(scene) => MayMeet(pair[1], pair[2])
      BY DEF Ready, Understood
    <3>2. CASE MayTouch(a, b)
      <4>1. a \in ObjectIds(scene) BY <2>2, <2>4, <3>2
      <4>2. <<a, b>> \in touch /\ <<a, b>>[1] = a /\ <<a, b>>[2] = b BY <3>2 DEF MayTouch
      <4> QED BY <3>1, <4>1, <4>2
    <3>3. CASE MayTouch(b, a)
      <4>1. b \in ObjectIds(scene) BY <2>3, <2>4, <3>3
      <4>2. <<b, a>> \in touch /\ <<b, a>>[1] = b /\ <<b, a>>[2] = a BY <3>3 DEF MayTouch
      <4>3. MayMeet(b, a) BY <3>1, <4>1, <4>2
      <4>4. {a, b} = {b, a} OBVIOUS
      <4> QED BY <2>1, <4>3, <4>4 DEF MayMeet
    <3> QED BY <2>5, <3>2, <3>3
  <2>6. ASSUME MayMeet(a, b) PROVE MayTouch(a, b) \/ MayTouch(b, a)
    <3>1. PICK k \in DOMAIN scene.attached, l \in Links :
              /\ l \in scene.attached[k].touch
              /\ {a, b} = {makeAttachedObjectId(scene.attached[k]), LinkId(l)}
      BY <2>1, <2>6 DEF MayMeet
    <3>2. <<makeAttachedObjectId(scene.attached[k]), LinkId(l)>> \in touch
      BY <3>1 DEF Ready, SceneKnown
    <3>3. \/ a = makeAttachedObjectId(scene.attached[k]) /\ b = LinkId(l)
          \/ b = makeAttachedObjectId(scene.attached[k]) /\ a = LinkId(l)
      <4>1. makeAttachedObjectId(scene.attached[k]) # LinkId(l)
        <5>1. Len(makeAttachedObjectId(scene.attached[k])) = 2 /\ Len(LinkId(l)) = 1 BY IdsAreTuples
        <5> QED BY <5>1
      <4> QED BY <3>1, <4>1
    <3> QED BY <3>2, <3>3 DEF MayTouch
  <2> QED BY <1>3, <1>6, <2>5, <2>6 DEF a, b
<1> QED BY <1>5, <1>6

-----------------------------------------------------------------------------
(* What the space says of a state is so *)

\* What is in the way of the group.
FieldsAreInt == envField.points \subseteq Int /\ selfField.points \subseteq Int

LEMMA FieldsAre ==
    ASSUME Ready, NEW at \in Int
    PROVE  /\ envField.points = Obstacles(scene) \ envField.missing
           /\ selfField.points = RestPoints(at) \ selfField.missing
           /\ FieldsAreInt
           /\ MaxEnvironmentDistance \in {MaxEnvironmentDistance, MaxSelfDistance}
           /\ MaxSelfDistance \in {MaxEnvironmentDistance, MaxSelfDistance}
<1>1. SceneTyped(scene) BY ScenesAreTyped DEF Ready, PlannerTypeOK
<1>2. RestPoints(at) = RestPoints(0) BY <1>1, RestStays
<1>3. FieldsAreInt BY DEF Ready, FieldsAreInt, PlannerTypeOK, FieldType
<1> QED BY <1>2, <1>3 DEF Ready, SetUp, SceneKnown, Understood

LEMMA SelfIsOfOthers ==
    ASSUME Ready, NEW i \in 1..Count
    PROVE  ChecksSelf(i) <=> Ids[i] \notin {LinkId(l) : l \in SelfExcludes}
<1>1. CASE i <= Len(names)
  <2>1. Ids[i] = LinkId(names[i]) BY <1>1, IdsAre
  <2>2. Ids[i] \in {LinkId(l) : l \in SelfExcludes} <=> names[i] \in SelfExcludes
    BY <2>1, IdsAreTuples
  <2>3. ChecksSelf(i) <=> names[i] \notin SelfExcludes BY <1>1, IdsAre DEF ChecksSelf
  <2> QED BY <2>2, <2>3
<1>2. CASE ~(i <= Len(names))
  <2>1. Ids[i] = makeAttachedObjectId(held[i - Len(names)]) BY <1>2, IdsAre
  <2>2. Len(Ids[i]) = 2 /\ \A l : Len(LinkId(l)) = 1 BY <2>1, IdsAreTuples
  <2>3. Ids[i] \notin {LinkId(l) : l \in SelfExcludes} BY <2>2
  <2>4. ChecksSelf(i) BY <1>2, IdsAre DEF ChecksSelf
  <2> QED BY <2>3, <2>4
<1> QED BY <1>1, <1>2

\* Where the spheres are, once they are posed for at.
SphereOf(i, at) == SphereAt(PosedSpheres(at), PosedAttached(at), i)

\* What is near the group, told of its spheres.
LEMMA NearBySpheres ==
    ASSUME Ready, NEW at \in Int, NEW m \in Int
    PROVE  /\ NearWorld(at, m) <=>
                 \E i \in 1..Count : \E o \in envField.points : Gap(SphereOf(i, at), o) - SphereRadius < m
           /\ NearRobot(at, m) <=>
                 \E i \in 1..Count : /\ ChecksSelf(i)
                                     /\ \E o \in selfField.points : Gap(SphereOf(i, at), o) - SphereRadius < m
           /\ NearItself(at, m) <=>
                 \E i \in 1..Count : \E j \in Checked(i) :
                    Gap(SphereOf(i, at), SphereOf(j, at)) - 2 * SphereRadius < m
<1>1. Range(Ids) = {Ids[i] : i \in 1..Count} BY IdsAre DEF Range
<1>2. \A i \in 1..Count : SphereOf(i, at) = PlaceOf(Ids[i], at) BY SphereIsThere DEF SphereOf
<1>3. /\ envField.points = Obstacles(scene) \ envField.missing
      /\ selfField.points = RestPoints(at) \ selfField.missing
  BY FieldsAre
<1>4. NearWorld(at, m) <=>
          \E i \in 1..Count : \E o \in envField.points : Gap(SphereOf(i, at), o) - SphereRadius < m
  BY <1>1, <1>2, <1>3 DEF NearWorld
<1>5. NearRobot(at, m) <=>
          \E i \in 1..Count : /\ ChecksSelf(i)
                              /\ \E o \in selfField.points : Gap(SphereOf(i, at), o) - SphereRadius < m
  <2>1. NearRobot(at, m) <=>
          \E id \in Range(Ids) : /\ id \notin {LinkId(l) : l \in SelfExcludes}
                                 /\ \E o \in selfField.points : Gap(PlaceOf(id, at), o) - SphereRadius < m
    BY <1>3 DEF NearRobot
  <2> QED BY <1>1, <1>2, <2>1, SelfIsOfOthers
<1>6. NearItself(at, m) <=>
          \E i \in 1..Count : \E j \in Checked(i) :
             Gap(SphereOf(i, at), SphereOf(j, at)) - 2 * SphereRadius < m
  <2>1. ASSUME NEW i \in 1..Count, NEW j \in Checked(i),
               Gap(SphereOf(i, at), SphereOf(j, at)) - 2 * SphereRadius < m
        PROVE  NearItself(at, m)
    <3>1. j \in 1..Count /\ i # j /\ pairs[i][j] BY <2>1 DEF Checked
    <3>2. Ids[i] # Ids[j] /\ ~MayMeet(Ids[i], Ids[j]) BY <3>1, IdsAreApart, CheckedMayNotMeet
    <3>3. Ids[i] \in Range(Ids) /\ Ids[j] \in Range(Ids) BY <1>1, <3>1
    <3>4. Gap(PlaceOf(Ids[i], at), PlaceOf(Ids[j], at)) - 2 * SphereRadius < m BY <1>2, <2>1, <3>1
    <3> QED BY <3>2, <3>3, <3>4 DEF NearItself
  <2>2. ASSUME NearItself(at, m)
        PROVE  \E i \in 1..Count : \E j \in Checked(i) :
                  Gap(SphereOf(i, at), SphereOf(j, at)) - 2 * SphereRadius < m
    <3>1. PICK a \in Range(Ids), b \in Range(Ids) :
              /\ a # b /\ ~MayMeet(a, b)
              /\ Gap(PlaceOf(a, at), PlaceOf(b, at)) - 2 * SphereRadius < m
      BY <2>2 DEF NearItself
    <3>2. PICK i \in 1..Count : a = Ids[i] BY <1>1
    <3>3. PICK j \in 1..Count : b = Ids[j] BY <1>1
    <3>4. i # j BY <3>1, <3>2, <3>3
    <3>5. pairs[i][j] BY <3>1, <3>2, <3>3, <3>4, CheckedMayNotMeet
    <3>6. j \in Checked(i) BY <3>4, <3>5 DEF Checked
    <3> QED BY <1>2, <3>1, <3>2, <3>3, <3>6
  <2> QED BY <2>1, <2>2
<1> QED BY <1>4, <1>5, <1>6

LEMMA SpheresAreInt ==
    ASSUME Ready, NEW at \in Int, NEW i \in 1..Count
    PROVE  SphereOf(i, at) \in Int
BY SphereIsThere DEF SphereOf

\* getStateGradients finds a collision where something is within the tolerance.
LEMMA CollidesWhatIsNear ==
    ASSUME Ready, NEW at \in Int
    PROVE  GradientsCollide(PosedSpheres(at), PosedAttached(at)) <=> ~Clear(at)
<1>1. Tolerance \in Int /\ Tolerance + 1 \in Int /\ SphereRadius \in Nat BY ToleranceAssumption, DistancesAssumption
<1>2. FieldsAreInt /\ MaxEnvironmentDistance \in {MaxEnvironmentDistance, MaxSelfDistance}
      /\ MaxSelfDistance \in {MaxEnvironmentDistance, MaxSelfDistance}
  BY FieldsAre
<1>3. ASSUME NEW i \in 1..Count
      PROVE  /\ Touches(envField.points, SphereOf(i, at), MaxEnvironmentDistance)
                <=> \E o \in envField.points : Gap(SphereOf(i, at), o) - SphereRadius < Tolerance + 1
             /\ Touches(selfField.points, SphereOf(i, at), MaxSelfDistance)
                <=> \E o \in selfField.points : Gap(SphereOf(i, at), o) - SphereRadius < Tolerance + 1
  BY <1>2, SpheresAreInt, TouchesWhatIsNear DEF FieldsAreInt
<1>4. ASSUME NEW i \in 1..Count, NEW j \in Checked(i)
      PROVE  Between(PosedSpheres(at), PosedAttached(at), i, j) <= Tolerance
             <=> Gap(SphereOf(i, at), SphereOf(j, at)) - 2 * SphereRadius < Tolerance + 1
  <2>1. j \in 1..Count BY DEF Checked
  <2>2. SphereOf(i, at) \in Int /\ SphereOf(j, at) \in Int BY <2>1, SpheresAreInt
  <2>3. Gap(SphereOf(i, at), SphereOf(j, at)) \in Nat BY <2>2, GapIsNat
  <2>4. Between(PosedSpheres(at), PosedAttached(at), i, j)
          = Gap(SphereOf(i, at), SphereOf(j, at)) - 2 * SphereRadius
    BY DEF Between, SphereOf
  <2> QED BY <1>1, <2>3, <2>4
<1>5. GradientsCollide(PosedSpheres(at), PosedAttached(at)) <=>
          \/ \E i \in 1..Count : Touches(envField.points, SphereOf(i, at), MaxEnvironmentDistance)
          \/ \E i \in 1..Count : ChecksSelf(i) /\ Touches(selfField.points, SphereOf(i, at), MaxSelfDistance)
          \/ \E i \in 1..Count : \E j \in Checked(i) :
                Between(PosedSpheres(at), PosedAttached(at), i, j) <= Tolerance
  BY DEF GradientsCollide, SphereOf
<1> DEFINE world == NearWorld(at, Tolerance + 1)
           robot == NearRobot(at, Tolerance + 1)
           itself == NearItself(at, Tolerance + 1)
<1>6. /\ world <=>
           \E i \in 1..Count : \E o \in envField.points : Gap(SphereOf(i, at), o) - SphereRadius < Tolerance + 1
      /\ robot <=>
           \E i \in 1..Count : /\ ChecksSelf(i)
                               /\ \E o \in selfField.points : Gap(SphereOf(i, at), o) - SphereRadius < Tolerance + 1
      /\ itself <=>
           \E i \in 1..Count : \E j \in Checked(i) :
              Gap(SphereOf(i, at), SphereOf(j, at)) - 2 * SphereRadius < Tolerance + 1
  BY <1>1, NearBySpheres
<1>7. ~Clear(at) <=> world \/ robot \/ itself BY DEF Clear, Near
<1> HIDE DEF world, robot, itself
<1> QED BY Zenon, <1>3, <1>4, <1>5, <1>6, <1>7

\* Within the group, the least of some distances.
LEMMA IntraIsLeast ==
    ASSUME Ready, NEW at \in Int, NEW i \in 1..Count
    PROVE  LET d == Intra(PosedSpheres(at), PosedAttached(at), i) IN
           /\ d \in Int
           /\ d = Far \/ \E j \in Checked(i) : d = Gap(SphereOf(i, at), SphereOf(j, at)) - 2 * SphereRadius
<1> DEFINE between == {Between(PosedSpheres(at), PosedAttached(at), i, j) : j \in Checked(i)}
           s == between \cup {Far}
<1>1. Far \in Nat /\ SphereRadius \in Nat BY DistancesAssumption
<1>2. ASSUME NEW j \in Checked(i)
      PROVE  /\ Between(PosedSpheres(at), PosedAttached(at), i, j)
                  = Gap(SphereOf(i, at), SphereOf(j, at)) - 2 * SphereRadius
             /\ Gap(SphereOf(i, at), SphereOf(j, at)) \in Nat
  <2>1. j \in 1..Count BY DEF Checked
  <2> QED BY <2>1, SpheresAreInt, GapIsNat DEF Between, SphereOf
<1>3. ASSUME NEW x \in s PROVE x \in Int /\ 0 - 2 * SphereRadius <= x
  <2>1. CASE x = Far BY <1>1, <2>1
  <2>2. ASSUME NEW j \in Checked(i), x = Between(PosedSpheres(at), PosedAttached(at), i, j)
        PROVE  x \in Int /\ 0 - 2 * SphereRadius <= x
    BY <1>1, <1>2, <2>2
  <2> QED BY <2>1, <2>2
<1>4. Far \in s /\ 0 - 2 * SphereRadius \in Int BY <1>1
<1>5. i <= Count
  <2>1. Count \in Nat BY IdsAre
  <2> QED BY <2>1
<1>6. Intra(PosedSpheres(at), PosedAttached(at), i) = Min(s) BY <1>5 DEF Intra
<1>7. Min(s) \in s
  <2> HIDE DEF s
  <2>1. s \in SUBSET Int /\ s # {} BY <1>3, <1>4
  <2> QED BY <1>3, <1>4, <2>1, LeastIsOne
<1>8. \A x \in s : x = Far \/ \E j \in Checked(i) : x = Gap(SphereOf(i, at), SphereOf(j, at)) - 2 * SphereRadius
  BY <1>2
<1> HIDE DEF s
<1> QED BY <1>3, <1>6, <1>7, <1>8

\* The distance that is reported: below the tolerance if one of the fields' is, and only if one is.
LEMMA ClosestIsTrue ==
    ASSUME NEW env \in Int, NEW self \in Int, NEW intra \in Int
    PROVE  /\ Closest(env, self, intra) \in Int
           /\ env < Tolerance /\ env < MaxEnvironmentDistance => Closest(env, self, intra) < Tolerance
           /\ self < Tolerance /\ self < MaxSelfDistance => Closest(env, self, intra) < Tolerance
           /\ env >= Tolerance /\ self >= Tolerance /\ intra >= Tolerance
                => Closest(env, self, intra) >= Tolerance
<1>1. /\ MaxEnvironmentDistance \in Nat /\ MaxSelfDistance \in Nat /\ Far \in Nat
      /\ UndefinedDistance \in Int /\ Tolerance \in Int /\ Tolerance <= UndefinedDistance
      /\ SphereRadius \in Nat
      /\ SphereRadius + Tolerance < MaxEnvironmentDistance /\ MaxEnvironmentDistance < Far
  BY DistancesAssumption, ToleranceAssumption
<1> DEFINE e == env >= MaxEnvironmentDistance
           f == self >= MaxSelfDistance \/ intra < self
           g == self >= MaxSelfDistance
<1>2. Closest(env, self, intra) =
          CASE e /\ f -> IF intra = Far THEN UndefinedDistance ELSE intra
            [] e /\ ~f -> self
            [] ~e /\ g -> IF intra < env THEN intra ELSE env
            [] ~e /\ ~g -> IF self < env THEN self ELSE env
  BY DEF Closest
<1>3. CASE e /\ f BY <1>1, <1>2, <1>3
<1>4. CASE e /\ ~f BY <1>1, <1>2, <1>4
<1>5. CASE ~e /\ g BY <1>1, <1>2, <1>5
<1>6. CASE ~e /\ ~g BY <1>1, <1>2, <1>6
<1> QED BY <1>3, <1>4, <1>5, <1>6

\* What is reported of a state: no distance below the tolerance where the state is free,
\* and one where the world or the rest of the robot is nearer.
LEMMA ReportedIsTrue ==
    ASSUME Ready, NEW at \in Int
    PROVE  LET distances == Reported(PosedSpheres(at), PosedAttached(at)) IN
           /\ distances \in [1..Count -> Int]
           /\ Free(at) => \A i \in 1..Count : ~(distances[i] < Tolerance)
           /\ NearWorld(at, Tolerance) \/ NearRobot(at, Tolerance)
                => \E i \in 1..Count : distances[i] < Tolerance
<1> DEFINE links == PosedSpheres(at)
           objects == PosedAttached(at)
           distances == Reported(links, objects)
<1>1. /\ MaxEnvironmentDistance \in Nat /\ MaxSelfDistance \in Nat /\ Far \in Nat
      /\ Tolerance \in Int /\ SphereRadius \in Nat
      /\ SphereRadius + Tolerance < MaxEnvironmentDistance /\ MaxEnvironmentDistance < Far
      /\ MaxSelfDistance < Far
  BY DistancesAssumption, ToleranceAssumption
<1>2. FieldsAreInt /\ MaxEnvironmentDistance \in {MaxEnvironmentDistance, MaxSelfDistance}
      /\ MaxSelfDistance \in {MaxEnvironmentDistance, MaxSelfDistance}
  BY FieldsAre
<1>3. DOMAIN gradients = 1..Count
  <2>1. Len(gradients) = Count /\ gradients \in Seq(Int)
    BY DEF Ready, SetUp, Understood, Count, PlannerTypeOK
  <2> QED BY <2>1
<1>4. Count \in Nat BY IdsAre
<1>5. ASSUME NEW i \in 1..Count
      PROVE  /\ Env(links, objects, i) \in Int
             /\ (\E o \in envField.points : Gap(SphereOf(i, at), o) - SphereRadius < Tolerance)
                  => Env(links, objects, i) < Tolerance /\ Env(links, objects, i) < MaxEnvironmentDistance
             /\ Env(links, objects, i) < Tolerance
                  => \E o \in envField.points : Gap(SphereOf(i, at), o) - SphereRadius < Tolerance
  <2>1. i <= Count BY <1>4
  <2>2. Env(links, objects, i) = Proximity(envField.points, SphereOf(i, at), MaxEnvironmentDistance)
    BY <2>1 DEF Env, SphereOf
  <2> QED BY <1>2, <2>2, SpheresAreInt, ProximityIsTrue DEF FieldsAreInt
<1>6. ASSUME NEW i \in 1..Count
      PROVE  /\ Self(links, objects, i) \in Int
             /\ ChecksSelf(i) /\ (\E o \in selfField.points : Gap(SphereOf(i, at), o) - SphereRadius < Tolerance)
                  => Self(links, objects, i) < Tolerance /\ Self(links, objects, i) < MaxSelfDistance
             /\ Self(links, objects, i) < Tolerance
                  => /\ ChecksSelf(i)
                     /\ \E o \in selfField.points : Gap(SphereOf(i, at), o) - SphereRadius < Tolerance
  <2>1. CASE ChecksSelf(i)
    <3>1. Self(links, objects, i) = Proximity(selfField.points, SphereOf(i, at), MaxSelfDistance)
      BY <2>1 DEF Self, SphereOf
    <3> QED BY <1>2, <2>1, <3>1, SpheresAreInt, ProximityIsTrue DEF FieldsAreInt
  <2>2. CASE ~ChecksSelf(i)
    <3>1. Self(links, objects, i) = Far BY <2>2 DEF Self
    <3> QED BY <1>1, <2>2, <3>1
  <2> QED BY <2>1, <2>2
<1>7. ASSUME NEW i \in 1..Count
      PROVE  /\ Intra(links, objects, i) \in Int
             /\ Intra(links, objects, i) < Tolerance => NearItself(at, Tolerance)
  <2> DEFINE d == Intra(links, objects, i)
  <2>1. /\ d \in Int
        /\ d = Far \/ \E j \in Checked(i) : d = Gap(SphereOf(i, at), SphereOf(j, at)) - 2 * SphereRadius
    BY IntraIsLeast
  <2> HIDE DEF d
  <2>2. ASSUME d < Tolerance PROVE NearItself(at, Tolerance)
    <3>1. d # Far BY <1>1, <2>1, <2>2
    <3>2. \E j \in Checked(i) : Gap(SphereOf(i, at), SphereOf(j, at)) - 2 * SphereRadius < Tolerance
      BY <2>1, <2>2, <3>1
    <3> QED BY <1>1, <3>2, NearBySpheres
  <2> QED BY <2>1, <2>2 DEF d
<1>8. ASSUME NEW i \in 1..Count
      PROVE  distances[i] = Closest(Env(links, objects, i), Self(links, objects, i), Intra(links, objects, i))
  BY <1>3 DEF Reported
<1>9. ASSUME NEW i \in 1..Count PROVE distances[i] \in Int
  <2> HIDE DEF distances, links, objects
  <2>1. Closest(Env(links, objects, i), Self(links, objects, i), Intra(links, objects, i)) \in Int
    BY <1>5, <1>6, <1>7, ClosestIsTrue
  <2> QED BY <1>8, <2>1
<1>10. distances \in [1..Count -> Int]
  <2>1. DOMAIN distances = 1..Count /\ distances = [i \in DOMAIN gradients |-> distances[i]]
    BY <1>3 DEF Reported
  <2> HIDE DEF distances
  <2> QED BY <1>3, <1>9, <2>1
<1>11. ASSUME Free(at), NEW i \in 1..Count PROVE ~(distances[i] < Tolerance)
  <2>1. ~NearWorld(at, Tolerance) /\ ~NearRobot(at, Tolerance) /\ ~NearItself(at, Tolerance)
    BY <1>11 DEF Free, Near
  <2>2. ~(Env(links, objects, i) < Tolerance) BY <1>1, <1>5, <2>1, NearBySpheres
  <2>3. ~(Self(links, objects, i) < Tolerance) BY <1>1, <1>6, <2>1, NearBySpheres
  <2>4. ~(Intra(links, objects, i) < Tolerance) BY <1>7, <2>1
  <2> HIDE DEF distances, links, objects
  <2>5. Closest(Env(links, objects, i), Self(links, objects, i), Intra(links, objects, i)) >= Tolerance
    BY <1>1, <1>5, <1>6, <1>7, <2>2, <2>3, <2>4, ClosestIsTrue
  <2> QED BY <1>1, <1>8, <1>9, <2>5
<1>12. ASSUME NearWorld(at, Tolerance) PROVE \E i \in 1..Count : distances[i] < Tolerance
  <2>1. PICK i \in 1..Count : \E o \in envField.points : Gap(SphereOf(i, at), o) - SphereRadius < Tolerance
    BY <1>1, <1>12, NearBySpheres
  <2>2. Env(links, objects, i) < Tolerance /\ Env(links, objects, i) < MaxEnvironmentDistance
    BY <1>5, <2>1
  <2> HIDE DEF distances, links, objects
  <2>3. Closest(Env(links, objects, i), Self(links, objects, i), Intra(links, objects, i)) < Tolerance
    BY <1>5, <1>6, <1>7, <2>2, ClosestIsTrue
  <2> QED BY <1>8, <2>3
<1>13. ASSUME NearRobot(at, Tolerance) PROVE \E i \in 1..Count : distances[i] < Tolerance
  <2>1. PICK i \in 1..Count : /\ ChecksSelf(i)
                              /\ \E o \in selfField.points : Gap(SphereOf(i, at), o) - SphereRadius < Tolerance
    BY <1>1, <1>13, NearBySpheres
  <2>2. Self(links, objects, i) < Tolerance /\ Self(links, objects, i) < MaxSelfDistance
    BY <1>6, <2>1
  <2> HIDE DEF distances, links, objects
  <2>3. Closest(Env(links, objects, i), Self(links, objects, i), Intra(links, objects, i)) < Tolerance
    BY <1>5, <1>6, <1>7, <2>2, ClosestIsTrue
  <2> QED BY <1>8, <2>3
<1> QED BY <1>10, <1>11, <1>12, <1>13

\* The points that isTrajectorySafe is asked about.
LEMMA SafetyPointsAre ==
    ASSUME Ready, NEW t \in Seq(JointValues)
    PROVE  /\ SafetyPoints(t) \in [1..Len(t) -> PointsOver(1..Count)]
           /\ \A m \in 1..Len(t) :
                 /\ Free(t[m]) => ~InCollision(SafetyPoints(t)[m])
                 /\ NearWorld(t[m], Tolerance) \/ NearRobot(t[m], Tolerance)
                      => InCollision(SafetyPoints(t)[m]) /\ 1..Count # {}
<1> DEFINE distances(m) == Reported(PosedSpheres(t[m]), PosedAttached(t[m]))
           ps == SafetyPoints(t)
<1>1. ps = [m \in 1..Len(t) |-> [distances |-> distances(m), collision |-> FALSE]] BY DEF SafetyPoints
<1>2. ASSUME NEW m \in 1..Len(t)
      PROVE  /\ distances(m) \in [1..Count -> Int]
             /\ Free(t[m]) => \A i \in 1..Count : ~(distances(m)[i] < Tolerance)
             /\ NearWorld(t[m], Tolerance) \/ NearRobot(t[m], Tolerance)
                   => \E i \in 1..Count : distances(m)[i] < Tolerance
  <2>1. t[m] \in Int
    <3>1. t[m] \in JointValues OBVIOUS
    <3> QED BY <3>1, JointAssumption
  <2> QED BY <2>1, ReportedIsTrue
<1> HIDE DEF distances, ps
<1>3. ps \in [1..Len(t) -> PointsOver(1..Count)] BY <1>1, <1>2 DEF PointsOver
<1>4. ASSUME NEW m \in 1..Len(t)
      PROVE  /\ Free(t[m]) => ~InCollision(ps[m])
             /\ NearWorld(t[m], Tolerance) \/ NearRobot(t[m], Tolerance)
                   => InCollision(ps[m]) /\ 1..Count # {}
  <2>1. ps[m].distances = distances(m) /\ ps[m].collision = FALSE /\ DOMAIN distances(m) = 1..Count
    BY <1>1, <1>2
  <2>2. InCollision(ps[m]) <=> \E i \in 1..Count : distances(m)[i] < Tolerance
    BY <2>1 DEF InCollision
  <2> QED BY <1>2, <2>2
<1> QED BY <1>3, <1>4 DEF ps

LEMMA ReadyNeverThrough ==
    ASSUME Ready
    PROVE  NeverThrough
<1> SUFFICES ASSUME NEW t \in Trajectories, SafetyOf(t) = "InCollisionSafe",
                    NEW i \in DOMAIN t, NEW j \in DOMAIN t, NEW k \in DOMAIN t, i < j, j < k,
                    Free(t[i]), Free(t[k]), NearWorld(t[j], Tolerance) \/ NearRobot(t[j], Tolerance)
             PROVE  FALSE
  BY DEF NeverThrough
<1>1. t \in Seq(JointValues) BY TrajectoriesAssumption
<1>2. DOMAIN t = 1..Len(t) /\ Len(t) \in Nat BY <1>1
<1> DEFINE ps == SafetyPoints(t)
           D == 1..Count
<1>3. /\ ps \in [1..Len(t) -> PointsOver(D)] /\ D # {}
      /\ ~InCollision(ps[i]) /\ InCollision(ps[j]) /\ ~InCollision(ps[k])
  BY <1>1, <1>2, SafetyPointsAre
<1>4. isTrajectorySafe(FALSE, ps) = "InCollisionSafe" BY DEF SafetyOf, isTrajectorySafe
<1> HIDE DEF ps, D
<1> QED BY <1>2, <1>3, <1>4, SafeStaysIn

-----------------------------------------------------------------------------
(* What is true in every state *)

\* A field that is reset and filled has what it is given but for what it misses.
LEMMA RefilledIs ==
    ASSUME NEW f \in FieldType, NEW S \in SUBSET Int
    PROVE  Refilled(f, S) \in FieldType /\ Refilled(f, S).points = S \ Refilled(f, S).missing
BY DEF FieldType, Refilled

\* Nothing that is said of a scene is about anything else than it, and what the fields miss.
LEMMA SceneIsAll ==
    ASSUME scene' = scene, touch' = touch, steady' = steady,
           envField' = envField, selfField' = selfField
    PROVE  /\ Understood' <=> Understood
           /\ \A at : (Clear(at)' <=> Clear(at)) /\ (MeshesCollide(at)' <=> MeshesCollide(at))
           /\ GroupHeld' = GroupHeld /\ ObjectIds(scene)' = ObjectIds(scene)
           /\ RestPoints(0)' = RestPoints(0)
<1>1. GroupHeld' = GroupHeld BY DEF GroupHeld
<1>2. Ids' = Ids BY <1>1 DEF Ids
<1>3. \A at : RestPoints(at)' = RestPoints(at) BY DEF RestPoints
<1>4. \A id, at : PlaceOf(id, at)' = PlaceOf(id, at) BY DEF PlaceOf
<1>5. \A a, b : MayMeet(a, b)' <=> MayMeet(a, b) BY DEF MayMeet
<1>6. \A at, m : NearWorld(at, m)' <=> NearWorld(at, m) BY <1>2, <1>4 DEF NearWorld, Obstacles
<1>7. \A at, m : NearRobot(at, m)' <=> NearRobot(at, m) BY <1>2, <1>3, <1>4 DEF NearRobot
<1>8. \A at, m : NearItself(at, m)' <=> NearItself(at, m) BY <1>2, <1>4, <1>5 DEF NearItself
<1>9. \A at : Clear(at)' <=> Clear(at) BY Zenon, <1>6, <1>7, <1>8 DEF Clear, Near
<1>10. ObjectIds(scene)' = ObjectIds(scene) BY DEF ObjectIds
<1>11. Understood' <=> Understood BY <1>1, <1>5, <1>10 DEF Understood
<1>12. \A at : MeshesCollide(at)' <=> MeshesCollide(at) BY DEF MeshesCollide, Obstacles
<1> QED BY <1>1, <1>3, <1>9, <1>10, <1>11, <1>12

\* PlannerTypeOK of the space and of the call.
SpaceTyped ==
    /\ scene \in Scenes \cup {NoScene} /\ state \in JointValues
    /\ spheres \in [Bodies -> Int] /\ points \in [Bodies -> Int]
    /\ DOMAIN attached = ObjectIds(scene) /\ Range(attached) \subseteq Int
    /\ envField \in FieldType /\ selfField \in FieldType
    /\ current_group \in {"", Group} /\ names \in {<< >>, GroupNames} /\ steady \in BOOLEAN
    /\ held \in {<< >>, GroupHeld}
    /\ gradients \in Seq(Int) /\ Len(names) + Len(held) <= Len(gradients)
CallTyped ==
    /\ in_call \in Calls /\ q \in JointValues /\ in_collision \in BOOLEAN /\ start \in JointValues
    /\ trajectory \in Seq(JointValues) /\ Len(trajectory) <= max_iterations
    /\ response \in [result : BOOLEAN, free : BOOLEAN]

\* What PlannerTypeOK needs to be inductive, of the space.
SpaceSound == SpaceTyped /\ SetUp /\ SceneKnown

LEMMA TypedIsBoth == PlannerTypeOK <=> SpaceTyped /\ CallTyped
BY DEF PlannerTypeOK, SpaceTyped, CallTyped

\* The sequences of the group are sequences of links and of objects of the scene.
LEMMA GroupIsTyped ==
    ASSUME SpaceTyped
    PROVE  /\ SceneTyped(scene)
           /\ names \in Seq(Links) /\ \A i \in DOMAIN names : names[i] \in Bodies
           /\ held \in Seq(BodyRecords) /\ HeldIds(held) \in Seq(ObjectIds(scene))
           /\ Len(HeldIds(held)) = Len(held)
           /\ \A k \in DOMAIN held : \E m \in DOMAIN scene.attached : scene.attached[m] = held[k]
<1>1. SceneTyped(scene) BY ScenesAreTyped DEF SpaceTyped
<1>2. names \in Seq(Links) /\ \A i \in DOMAIN names : names[i] \in Bodies
  <2>1. CASE names = << >> BY <2>1
  <2>2. CASE names = GroupNames
    <3>1. \A i \in DOMAIN names : names[i] \in Range(names) BY DEF Range
    <3> QED BY <2>2, <3>1, GroupNamesAre
  <2> QED BY <2>1, <2>2 DEF SpaceTyped
<1>3. /\ held \in Seq(BodyRecords)
      /\ \A k \in DOMAIN held : \E m \in DOMAIN scene.attached : scene.attached[m] = held[k]
  <2>1. CASE held = << >> BY <2>1
  <2>2. CASE held = GroupHeld
    <3>1. \A k \in DOMAIN held : held[k] \in Range(scene.attached)
      <4>1. \A k \in DOMAIN held : held[k] \in Range(held) BY DEF Range
      <4>2. Range(held) = {b \in Range(scene.attached) : b.link \in Range(GroupNames)}
        BY <1>1, <2>2, GroupHeldAre
      <4> QED BY <4>1, <4>2
    <3>2. held \in Seq(BodyRecords) BY <1>1, <2>2, GroupHeldAre
    <3> QED BY <3>1, <3>2 DEF Range
  <2> QED BY <2>1, <2>2 DEF SpaceTyped
<1>4. HeldIds(held) \in Seq(ObjectIds(scene)) /\ Len(HeldIds(held)) = Len(held)
  <2>1. \A k \in DOMAIN held : makeAttachedObjectId(held[k]) \in ObjectIds(scene)
    BY <1>3 DEF ObjectIds
  <2>2. DOMAIN held = 1..Len(held) /\ Len(held) \in Nat BY <1>3
  <2> QED BY <2>1, <2>2 DEF HeldIds
<1> QED BY <1>1, <1>2, <1>3, <1>4

\* Where a sphere is posed is a place.
LEMMA PosedAreInt ==
    ASSUME SpaceTyped, NEW at \in Int
    PROVE  /\ PosedSpheres(at) \in [Bodies -> Int]
           /\ PosedAttached(at) \in [ObjectIds(scene) -> Int]
<1>1. ASSUME NEW l \in Bodies PROVE LinkAt(l, at) \in Int BY LinksAssumption, LinksAreInt
<1>2. \A l \in Bodies : spheres[l] \in Int BY DEF SpaceTyped
<1>3. PosedSpheres(at) \in [Bodies -> Int] BY <1>1, <1>2 DEF PosedSpheres
<1>4. DOMAIN attached = ObjectIds(scene) /\ \A id \in ObjectIds(scene) : attached[id] \in Int
  BY DEF SpaceTyped, Range
<1>5. ASSUME NEW id \in ObjectIds(scene), id \in Range(HeldIds(held))
      PROVE  BodyAt(LastOfLink(id[1]), at) \in Int
  <2>1. SceneTyped(scene) /\ scene.attached \in Seq(BodyRecords) BY GroupIsTyped DEF SceneTyped
  <2>2. PICK k \in DOMAIN held : id = makeAttachedObjectId(held[k]) BY <1>5 DEF Range, HeldIds
  <2>3. PICK m \in DOMAIN scene.attached : scene.attached[m] = held[k] BY GroupIsTyped
  <2> DEFINE s == {i \in DOMAIN scene.attached : scene.attached[i].link = id[1]}
  <2>4. m \in s BY <2>2, <2>3, IdsAreTuples
  <2>5. DOMAIN scene.attached = 1..Len(scene.attached) /\ Len(scene.attached) \in Nat BY <2>1
  <2>6. s \in SUBSET (1..Len(scene.attached)) BY <2>5
  <2>7. LastOfLink(id[1]) = scene.attached[Max(s)] BY DEF LastOfLink
  <2> HIDE DEF s
  <2>8. Max(s) \in 1..Len(scene.attached) BY <2>4, <2>5, <2>6, LastPointIsOne
  <2>9. scene.attached[Max(s)] \in BodyRecords BY <2>1, <2>8
  <2> QED BY <2>7, <2>9, BodiesAreInt
<1>6. PosedAttached(at) = [id \in ObjectIds(scene) |->
         IF current_group # "" /\ id \in Range(HeldIds(held)) THEN BodyAt(LastOfLink(id[1]), at) ELSE attached[id]]
  BY <1>4 DEF PosedAttached
<1>7. PosedAttached(at) \in [ObjectIds(scene) -> Int] BY <1>4, <1>5, <1>6
<1> QED BY <1>3, <1>7

\* A scene arrives: nothing is held, and nothing is set up for it.
LEMMA SceneArrivesStep ==
    ASSUME SpaceSound, NEW s \in Scenes, NEW r \in BOOLEAN, SetPlanningScene(s, r)
    PROVE  SpaceSound' /\ ~steady'
<1>1. SceneTyped(s) /\ s.joint \in JointValues BY ScenesAreTyped DEF SceneTyped
<1>2. s.joint \in Int BY <1>1, JointAssumption
<1>3. AttachedAt(s, s.joint) \in [ObjectIds(s) -> Int] BY <1>1, <1>2, AttachedAreInt
<1>4. /\ scene' = s /\ state' = s.joint /\ attached' = AttachedAt(s, s.joint)
      /\ touch' = touch \cup UNION {{<<makeAttachedObjectId(s.attached[k]), LinkId(l)>> :
                                       l \in s.attached[k].touch} : k \in DOMAIN s.attached}
      /\ envField' = Refilled(envField, Obstacles(s)) /\ current_group' = IF r THEN "" ELSE current_group
      /\ held' = << >> /\ steady' = FALSE
      /\ spheres' = spheres /\ points' = points /\ selfField' = selfField
      /\ names' = names /\ gradients' = gradients
  BY DEF SetPlanningScene
<1>8. /\ Refilled(envField, Obstacles(s)) \in FieldType
      /\ Refilled(envField, Obstacles(s)).points = Obstacles(s) \ Refilled(envField, Obstacles(s)).missing
  <2>1. Obstacles(s) \subseteq Int BY <1>1 DEF SceneTyped, Obstacles
  <2>2. envField \in FieldType BY DEF SpaceSound, SpaceTyped
  <2> QED BY <2>1, <2>2, RefilledIs
<1>5. SpaceTyped'
  <2>1. DOMAIN attached' = ObjectIds(scene') /\ Range(attached') \subseteq Int BY <1>3, <1>4 DEF Range
  <2>2. Len(names') + Len(held') <= Len(gradients')
    <3>1. Len(names) \in Nat /\ Len(held) \in Nat BY GroupIsTyped DEF SpaceSound
    <3>2. Len(names) + Len(held) <= Len(gradients) BY Zenon DEF SpaceSound, SpaceTyped
    <3>3. Len(gradients) \in Nat
      <4>1. gradients \in Seq(Int) BY Zenon DEF SpaceSound, SpaceTyped
      <4> QED BY <4>1
    <3>4. Len(held') = 0 BY <1>4
    <3>5. Len(names') = Len(names) /\ Len(gradients') = Len(gradients) BY Zenon, <1>4
    <3> QED BY <3>1, <3>2, <3>3, <3>4, <3>5
  <2>3. envField' \in FieldType BY <1>4, <1>8
  <2>4. current_group' \in {"", Group} BY <1>4 DEF SpaceSound, SpaceTyped
  <2> QED BY <1>1, <1>4, <2>1, <2>2, <2>3, <2>4 DEF SpaceSound, SpaceTyped
<1>6. SetUp' BY <1>4 DEF SetUp
<1>7. SceneKnown'
  <2>1. \A k \in DOMAIN s.attached : s.attached[k] \in BodyRecords BY <1>1 DEF SceneTyped
  <2>2. \A k \in DOMAIN s.attached : \A l \in s.attached[k].touch :
           <<makeAttachedObjectId(s.attached[k]), LinkId(l)>> \in (Links \X STRING) \X {LinkId(m) : m \in Links}
    BY <2>1 DEF BodyRecords, makeAttachedObjectId
  <2> DEFINE fresh == UNION {{<<makeAttachedObjectId(s.attached[k]), LinkId(l)>> :
                                l \in s.attached[k].touch} : k \in DOMAIN s.attached}
  <2>a. touch' = touch \cup fresh BY <1>4
  <2>b. \A x \in fresh : \E k \in DOMAIN s.attached : \E l \in s.attached[k].touch :
            x = <<makeAttachedObjectId(s.attached[k]), LinkId(l)>>
    BY Zenon
  <2>c. \A k \in DOMAIN s.attached : \A l \in s.attached[k].touch :
            <<makeAttachedObjectId(s.attached[k]), LinkId(l)>> \in fresh
    <3> DEFINE of(k) == {<<makeAttachedObjectId(s.attached[k]), LinkId(l)>> : l \in s.attached[k].touch}
    <3>1. \A k \in DOMAIN s.attached : \A l \in s.attached[k].touch :
              <<makeAttachedObjectId(s.attached[k]), LinkId(l)>> \in of(k)
      OBVIOUS
    <3>2. \A k \in DOMAIN s.attached : of(k) \subseteq fresh OBVIOUS
    <3> HIDE DEF of, fresh
    <3> QED BY <3>1, <3>2
  <2> HIDE DEF fresh
  <2>3. touch' \subseteq (Links \X STRING) \X {LinkId(l) : l \in Links}
    <3>1. fresh \subseteq (Links \X STRING) \X {LinkId(l) : l \in Links} BY <2>2, <2>b
    <3>2. touch \subseteq (Links \X STRING) \X {LinkId(l) : l \in Links} BY DEF SpaceSound, SceneKnown
    <3> QED BY <2>a, <3>1, <3>2
  <2>4. \A k \in DOMAIN s.attached : \A l \in s.attached[k].touch :
           <<makeAttachedObjectId(s.attached[k]), LinkId(l)>> \in touch'
    BY <2>a, <2>c
  <2>5. envField'.points = Obstacles(s) \ envField'.missing BY <1>4, <1>8
  <2>6. Obstacles(scene)' = Obstacles(s) BY <1>4 DEF Obstacles
  <2> QED BY <1>4, <2>3, <2>4, <2>5, <2>6 DEF SceneKnown
<1> QED BY <1>4, <1>5, <1>6, <1>7 DEF SpaceSound

\* The scene goes, and its objects with it.
LEMMA SceneGoesStep ==
    ASSUME SpaceSound, Revert
    PROVE  SpaceSound' /\ ~steady'
<1>1. /\ scene' = NoScene /\ attached' = << >> /\ current_group' = "" /\ held' = << >> /\ steady' = FALSE
      /\ UNCHANGED <<state, spheres, points, touch, envField, selfField, names, pairs, gradients>>
  BY DEF Revert
<1>2. DOMAIN << >> = {} OBVIOUS
<1>3. NoScene.attached = << >> BY DEF NoScene
<1>4. ObjectIds(NoScene) = {} BY <1>2, <1>3 DEF ObjectIds
<1>5. SpaceTyped'
  <2>1. DOMAIN attached' = ObjectIds(scene') /\ Range(attached') \subseteq Int
    <3>1. DOMAIN attached' = {} BY <1>1, <1>2
    <3> QED BY <1>1, <1>4, <3>1 DEF Range
  <2>2. Len(names') + Len(held') <= Len(gradients')
    <3>1. Len(names) \in Nat /\ Len(held) \in Nat BY GroupIsTyped DEF SpaceSound
    <3>2. Len(names) + Len(held) <= Len(gradients) BY Zenon DEF SpaceSound, SpaceTyped
    <3>3. Len(gradients) \in Nat
      <4>1. gradients \in Seq(Int) BY Zenon DEF SpaceSound, SpaceTyped
      <4> QED BY <4>1
    <3>4. Len(held') = 0 BY <1>1
    <3>5. Len(names') = Len(names) /\ Len(gradients') = Len(gradients) BY Zenon, <1>1
    <3> QED BY <3>1, <3>2, <3>3, <3>4, <3>5
  <2> QED BY <1>1, <2>1, <2>2 DEF SpaceSound, SpaceTyped
<1>6. SetUp' BY <1>1 DEF SetUp
<1>7. SceneKnown'
  <2>1. DOMAIN scene'.attached = {} BY Zenon, <1>1, <1>2, <1>3
  <2> QED BY <1>1, <2>1 DEF SpaceSound, SceneKnown, IsSet
<1> QED BY <1>1, <1>5, <1>6, <1>7 DEF SpaceSound

\* The space is set up: as long a gradient list as it has links and objects.
LEMMA SetupStep ==
    ASSUME SpaceSound, NEW at \in JointValues, SetupForGroupQueries(at)
    PROVE  SpaceSound'
<1>1. /\ ~SetupFails /\ state' = at /\ current_group' = Group
      /\ names' = GroupNames /\ held' = GroupHeld
      /\ gradients' = [i \in 1..Len(names') + Len(held') |->
                         IF i <= Len(names') THEN spheres[names'[i]]
                         ELSE attached[makeAttachedObjectId(held'[i - Len(names')])]]
      /\ pairs' = PairsOf(names', HeldIds(held'))
      /\ spheres' = [l \in Bodies |-> LinkAt(l, at)] /\ points' = spheres'
      /\ attached' = AttachedAt(scene, at) /\ selfField' = Refilled(selfField, RestPoints(at)) /\ steady' = TRUE
      /\ scene' = scene /\ touch' = touch /\ envField' = envField
  BY DEF SetupForGroupQueries
<1>2. at \in Int BY JointAssumption
<1>3. scene \in Scenes BY <1>1 DEF SetupFails, IsSet, SpaceSound, SpaceTyped
<1>4. SceneTyped(scene) BY <1>3, ScenesAreTyped
<1> DEFINE n == Len(GroupNames)
           m == Len(GroupHeld)
<1>5. /\ GroupNames \in Seq(Links) /\ \A i \in 1..n : GroupNames[i] \in Bodies
      /\ GroupHeld \in Seq(BodyRecords)
      /\ \A i \in 1..m : makeAttachedObjectId(GroupHeld[i]) \in ObjectIds(scene)
  <2>1. GroupNames \in Seq(Links) /\ GroupHeld \in Seq(BodyRecords) BY <1>4, GroupNamesAre, GroupHeldAre
  <2>2. DOMAIN GroupNames = 1..n /\ DOMAIN GroupHeld = 1..m BY <2>1
  <2>3. ASSUME NEW i \in 1..n PROVE GroupNames[i] \in Bodies
    <3>1. GroupNames[i] \in Range(GroupNames) BY <2>2 DEF Range
    <3> QED BY <3>1, GroupNamesAre
  <2>4. ASSUME NEW i \in 1..m PROVE makeAttachedObjectId(GroupHeld[i]) \in ObjectIds(scene)
    <3>1. GroupHeld[i] \in Range(GroupHeld) BY <2>2 DEF Range
    <3>2. GroupHeld[i] \in Range(scene.attached) BY <1>4, <3>1, GroupHeldAre
    <3>3. PICK k \in DOMAIN scene.attached : scene.attached[k] = GroupHeld[i] BY <3>2 DEF Range
    <3> QED BY <3>3 DEF ObjectIds
  <2> QED BY <2>1, <2>3, <2>4
<1>6. n \in Nat /\ m \in Nat BY <1>5
<1>7. gradients' \in Seq(Int) /\ Len(gradients') = n + m
  <2>1. ASSUME NEW i \in 1..n + m
        PROVE  (IF i <= n THEN spheres[GroupNames[i]] ELSE attached[makeAttachedObjectId(GroupHeld[i - n])]) \in Int
    <3>1. CASE i <= n
      <4>1. GroupNames[i] \in Bodies BY <1>5, <1>6, <3>1
      <4>2. spheres \in [Bodies -> Int] BY DEF SpaceSound, SpaceTyped
      <4> QED BY <3>1, <4>1, <4>2
    <3>2. CASE ~(i <= n)
      <4>1. i - n \in 1..m BY <1>6, <3>2
      <4>2. makeAttachedObjectId(GroupHeld[i - n]) \in DOMAIN attached
        BY <1>5, <4>1 DEF SpaceSound, SpaceTyped
      <4>3. attached[makeAttachedObjectId(GroupHeld[i - n])] \in Int
        BY <4>2 DEF SpaceSound, SpaceTyped, Range
      <4> QED BY <3>2, <4>3
    <3> QED BY <3>1, <3>2
  <2>2. gradients' = [i \in 1..n + m |-> IF i <= n THEN spheres[GroupNames[i]]
                                         ELSE attached[makeAttachedObjectId(GroupHeld[i - n])]]
    BY <1>1
  <2>3. n + m \in Nat BY <1>6
  <2> HIDE DEF n, m
  <2> QED BY <2>1, <2>2, <2>3
<1>8. spheres' \in [Bodies -> Int]
  <2>1. \A l \in Bodies : LinkAt(l, at) \in Int BY <1>2, LinksAssumption, LinksAreInt
  <2> QED BY <1>1, <2>1
<1>9. /\ GroupHeld' = GroupHeld /\ RestPoints(0)' = RestPoints(0) /\ GroupNames' = GroupNames
      /\ ObjectIds(scene)' = ObjectIds(scene)
  <2>1. GroupHeld' = GroupHeld BY <1>1 DEF GroupHeld
  <2>2. RestPoints(0)' = RestPoints(0) BY <1>1 DEF RestPoints
  <2>3. ObjectIds(scene)' = ObjectIds(scene) BY <1>1
  <2> QED BY <2>1, <2>2, <2>3
<1>10. attached' \in [ObjectIds(scene) -> Int] BY <1>1, <1>2, <1>4, AttachedAreInt
<1>11. selfField' \in FieldType /\ selfField'.points = RestPoints(0) \ selfField'.missing
  <2>1. 0 \in Int OBVIOUS
  <2>2. RestPoints(at) = RestPoints(0) BY <1>2, <1>4, RestStays
  <2>3. RestPoints(0) \subseteq Int BY <1>4, <2>1, RestIsInt
  <2>4. selfField \in FieldType BY DEF SpaceSound, SpaceTyped
  <2>5. selfField' = Refilled(selfField, RestPoints(0)) BY <1>1, <2>2
  <2> QED BY <2>3, <2>4, <2>5, RefilledIs
<1>12. SpaceTyped'
  <2>1. DOMAIN attached' = ObjectIds(scene') /\ Range(attached') \subseteq Int
    BY <1>1, <1>10 DEF Range
  <2>2. Len(names') + Len(held') <= Len(gradients') BY <1>1, <1>6, <1>7
  <2>3. scene' \in Scenes \cup {NoScene} /\ state' \in JointValues /\ steady' \in BOOLEAN
        /\ points' \in [Bodies -> Int] /\ current_group' \in {"", Group}
    BY <1>1, <1>3, <1>8
  <2>4. envField' \in FieldType /\ selfField' \in FieldType
    BY <1>1, <1>11 DEF SpaceSound, SpaceTyped
  <2>5. names' \in {<< >>, GroupNames'} /\ held' \in {<< >>, GroupHeld'} BY <1>1, <1>9
  <2> QED BY <1>7, <1>8, <2>1, <2>2, <2>3, <2>4, <2>5 DEF SpaceTyped
<1>13. SetUp'
  <2>1. pairs' = PairsOf(names, HeldIds(held))'
    <3>1. pairs' = PairsOf(names', HeldIds(held')) BY <1>1
    <3>2. \A a, b : MayTouch(a, b)' <=> MayTouch(a, b) BY <1>1 DEF MayTouch
    <3>3. \A ns, ids : PairsOf(ns, ids)' = PairsOf(ns, ids) BY <3>2 DEF PairsOf
    <3>4. PairsOf(names, HeldIds(held))' = PairsOf(names', HeldIds(held')) BY <1>1 DEF PairsOf, HeldIds, MayTouch
    <3> QED BY <3>1, <3>4
  <2>2. Len(gradients') = Len(names') + Len(held') BY <1>1, <1>7
  <2>3. IsSet' BY <1>1 DEF SetupFails, IsSet
  <2> QED BY <1>1, <1>3, <1>9, <1>11, <2>1, <2>2, <2>3 DEF SetUp
<1>14. SceneKnown' BY <1>1 DEF SpaceSound, SceneKnown, IsSet, Obstacles
<1> QED BY <1>12, <1>13, <1>14 DEF SpaceSound

\* The group is posed: its gradients are moved, no more and no fewer.
LEMMA GroupStateStep ==
    ASSUME SpaceSound, NEW at \in JointValues, SetCurrentGroupState(at)
    PROVE  /\ SpaceSound' /\ scene' = scene /\ touch' = touch /\ steady' = steady
           /\ envField' = envField /\ selfField' = selfField
           /\ spheres' = PosedSpheres(at) /\ attached' = PosedAttached(at)
<1>1. /\ state' = at /\ spheres' = PosedSpheres(at) /\ attached' = PosedAttached(at)
      /\ gradients' = IF current_group = "" THEN gradients ELSE UpdatedGradients(spheres', attached')
      /\ UNCHANGED <<scene, points, touch, envField, selfField, current_group, names, held, pairs, steady>>
  BY DEF SetCurrentGroupState
<1>2. at \in Int BY JointAssumption
<1>3. SpaceTyped BY DEF SpaceSound
<1>4. spheres' \in [Bodies -> Int] /\ attached' \in [ObjectIds(scene) -> Int] BY <1>1, <1>2, <1>3, PosedAreInt
<1>5. gradients \in Seq(Int) BY Zenon, <1>3 DEF SpaceTyped
<1>6. gradients' \in Seq(Int) /\ Len(gradients') = Len(gradients)
  <2>1. CASE gradients' = gradients BY <1>5, <2>1
  <2>2. CASE /\ Len(names) + Len(held) = Len(gradients)
             /\ gradients' = [i \in DOMAIN gradients |->
                   IF i <= Len(names) THEN spheres'[names[i]]
                   ELSE IF i = Len(names) + 1 THEN attached'[Last(HeldIds(held))] ELSE gradients[i]]
    <3>1. /\ names \in Seq(Links) /\ \A i \in DOMAIN names : names[i] \in Bodies
          /\ held \in Seq(BodyRecords) /\ HeldIds(held) \in Seq(ObjectIds(scene))
          /\ Len(HeldIds(held)) = Len(held)
      BY <1>3, GroupIsTyped
    <3>2. Len(names) \in Nat /\ Len(held) \in Nat /\ DOMAIN names = 1..Len(names)
          /\ DOMAIN gradients = 1..Len(gradients) /\ Len(gradients) \in Nat
      BY <1>5, <3>1
    <3>3. ASSUME NEW i \in DOMAIN gradients
          PROVE  (IF i <= Len(names) THEN spheres'[names[i]]
                  ELSE IF i = Len(names) + 1 THEN attached'[Last(HeldIds(held))] ELSE gradients[i]) \in Int
      <4>1. CASE i <= Len(names)
        <5>1. names[i] \in Bodies BY <3>1, <3>2, <4>1
        <5> QED BY <1>4, <4>1, <5>1
      <4>2. CASE ~(i <= Len(names)) /\ i = Len(names) + 1
        <5>1. Len(held) \in 1..Len(held) BY <2>2, <3>2, <4>2
        <5>2. Last(HeldIds(held)) \in ObjectIds(scene) BY <3>1, <5>1 DEF Last
        <5> QED BY <1>4, <4>2, <5>2
      <4>3. CASE ~(i <= Len(names)) /\ i # Len(names) + 1
        <5>1. gradients[i] \in Int BY <1>5
        <5> QED BY <4>3, <5>1
      <4> QED BY <4>1, <4>2, <4>3
    <3> QED BY <2>2, <3>2, <3>3
  <2> QED BY <1>1, <2>1, <2>2 DEF UpdatedGradients
<1>7. /\ GroupHeld' = GroupHeld /\ RestPoints(0)' = RestPoints(0) /\ GroupNames' = GroupNames
      /\ ObjectIds(scene)' = ObjectIds(scene)
  BY <1>1, SceneIsAll
<1>8. SpaceTyped'
  <2>1. DOMAIN attached' = ObjectIds(scene') /\ Range(attached') \subseteq Int BY <1>1, <1>4 DEF Range
  <2>2. Len(names') + Len(held') <= Len(gradients') BY <1>1, <1>3, <1>6 DEF SpaceTyped
  <2>3. state' \in JointValues BY <1>1
  <2> QED BY <1>1, <1>3, <1>4, <1>6, <1>7, <2>1, <2>2, <2>3 DEF SpaceTyped
<1>9. SetUp'
  <2>1. PairsOf(names, HeldIds(held))' = PairsOf(names, HeldIds(held))
    BY <1>1 DEF PairsOf, HeldIds, MayTouch
  <2>2. IsSet' <=> IsSet BY <1>1 DEF IsSet
  <2>3. SetUp BY DEF SpaceSound
  <2> QED BY <1>1, <1>6, <1>7, <2>1, <2>2, <2>3 DEF SetUp
<1>10. SceneKnown' BY <1>1 DEF SpaceSound, SceneKnown, IsSet, Obstacles
<1> QED BY <1>1, <1>8, <1>9, <1>10 DEF SpaceSound

\* Nothing of the space changes but the state.
LEMMA StateOnlyStep ==
    ASSUME SpaceSound, state' \in JointValues,
           UNCHANGED <<scene, bodies, envField, selfField, current, steady>>
    PROVE  /\ SpaceSound' /\ scene' = scene /\ touch' = touch /\ steady' = steady
           /\ envField' = envField /\ selfField' = selfField
<1>1. UNCHANGED <<scene, spheres, points, attached, touch, envField, selfField,
                  current_group, names, held, pairs, gradients, steady>>
  BY DEF bodies, current
<1>2. /\ GroupHeld' = GroupHeld /\ RestPoints(0)' = RestPoints(0) /\ GroupNames' = GroupNames
      /\ ObjectIds(scene)' = ObjectIds(scene)
  BY <1>1, SceneIsAll
<1>3. SpaceTyped' BY <1>1, <1>2 DEF SpaceSound, SpaceTyped
<1>4. SetUp'
  <2>1. PairsOf(names, HeldIds(held))' = PairsOf(names, HeldIds(held))
    BY <1>1 DEF PairsOf, HeldIds, MayTouch
  <2>2. IsSet' <=> IsSet BY <1>1 DEF IsSet
  <2>3. SetUp BY DEF SpaceSound
  <2> QED BY <1>1, <1>2, <2>1, <2>2, <2>3 DEF SetUp
<1>5. SceneKnown' BY <1>1 DEF SpaceSound, SceneKnown, IsSet, Obstacles
<1> QED BY <1>1, <1>3, <1>4, <1>5 DEF SpaceSound

LEMMA SpaceStaysStep ==
    ASSUME SpaceSound, UNCHANGED space
    PROVE  /\ SpaceSound' /\ scene' = scene /\ touch' = touch /\ steady' = steady
           /\ envField' = envField /\ selfField' = selfField
<1>1. state' = state /\ UNCHANGED <<scene, bodies, envField, selfField, current, steady>> BY DEF space
<1>2. state' \in JointValues BY <1>1 DEF SpaceSound, SpaceTyped
<1> QED BY <1>1, <1>2, StateOnlyStep

\* isTrajectorySafe leaves the state at one of the trajectory's, or at the scene's.
LEMMA SafetyStep ==
    ASSUME SpaceSound, NEW t \in Trajectories, IsTrajectorySafe(t)
    PROVE  SpaceSound'
<1>1. CASE /\ state' = scene.joint
           /\ UNCHANGED <<scene, bodies, envField, selfField, current, steady>>
  <2>1. scene.joint \in JointValues BY ScenesAreTyped DEF SpaceSound, SpaceTyped, SceneTyped
  <2> QED BY <1>1, <2>1, StateOnlyStep
<1>2. CASE SetCurrentGroupState(t[Visited(t)])
  <2>1. t \in Seq(JointValues) /\ t # << >> BY TrajectoriesAssumption
  <2>2. DOMAIN t = 1..Len(t) /\ Len(t) \in Nat /\ Len(t) \in 1..Len(t) BY <2>1
  <2> DEFINE s == {Len(t)} \cup {k \in DOMAIN t :
                      isTrajectorySafe(FALSE, SubSeq(SafetyPoints(t), 1, k)) \in Unsafe}
  <2>3. s \subseteq 1..Len(t) /\ s # {} BY <2>2
  <2>4. Visited(t) = Min(s) BY DEF Visited
  <2> HIDE DEF s
  <2>5. s \in SUBSET Int /\ \A x \in s : 1 <= x BY <2>2, <2>3
  <2>6. Min(s) \in 1..Len(t)
    <3>1. 1 \in Int OBVIOUS
    <3>2. Min(s) \in s BY <2>3, <2>5, <3>1, LeastIsOne
    <3> QED BY <2>3, <3>2
  <2>7. t[Visited(t)] \in JointValues BY <2>1, <2>4, <2>6
  <2> QED BY <1>2, <2>7, GroupStateStep
<1> QED BY <1>1, <1>2 DEF IsTrajectorySafe

-----------------------------------------------------------------------------
(* The walk out of a collision *)

\* What PathLeadsOut and FreeIsFree need to be inductive: the path so far starts at the
\* start, its steps are small, the one to come too, and each of its points was in collision
\* when it was looked at, but for the last one once the loop is over.
WalkedOut ==
    in_call = "refining" =>
        /\ trajectory = << >> => q = start /\ in_collision
        /\ trajectory # << >> => /\ trajectory[1] = start
                                 /\ Gap(trajectory[Len(trajectory)], q) <= max_joint_update
        /\ \A k \in 1..Len(trajectory) - 1 : Gap(trajectory[k], trajectory[k + 1]) <= max_joint_update
        /\ Understood =>
              \A k \in 1..Len(trajectory) :
                 IF k = Len(trajectory) /\ ~in_collision
                 THEN Clear(trajectory[k]) /\ ~MeshesCollide(trajectory[k])
                 ELSE ~Clear(trajectory[k]) \/ MeshesCollide(trajectory[k])

LEMMA GapToItself == ASSUME NEW x \in Int PROVE Gap(x, x) = 0 BY DEF Gap

LEMMA GapIsSymmetric == ASSUME NEW x \in Int, NEW y \in Int PROVE Gap(x, y) = Gap(y, x) BY DEF Gap

PlannerInv == SpaceSound /\ CallTyped /\ WalkedOut

\* One round of the loop.
LEMMA IterateStep ==
    ASSUME PlannerInv, Iterate
    PROVE  PlannerInv'
<1>1. /\ in_call = "refining" /\ Len(trajectory) < max_iterations /\ in_collision
      /\ trajectory' = Append(trajectory, q) /\ SetCurrentGroupState(q)
      /\ in_collision' = Collides(spheres', attached')
      /\ q' \in (IF in_collision' THEN JointUpdated(q) ELSE {q})
      /\ UNCHANGED <<in_call, start, response>>
  BY DEF Iterate
<1>2. SpaceSound /\ CallTyped /\ WalkedOut BY DEF PlannerInv
<1>3. q \in JointValues /\ q \in Int /\ trajectory \in Seq(JointValues)
  BY <1>2, JointAssumption DEF CallTyped
<1>4. /\ SpaceSound' /\ scene' = scene /\ touch' = touch /\ steady' = steady
      /\ envField' = envField /\ selfField' = selfField
      /\ spheres' = PosedSpheres(q) /\ attached' = PosedAttached(q)
  BY <1>1, <1>2, <1>3, GroupStateStep
<1> DEFINE n == Len(trajectory)
<1>5. /\ n \in Nat /\ Len(trajectory') = n + 1 /\ trajectory' \in Seq(JointValues)
      /\ trajectory'[n + 1] = q /\ \A k \in 1..n : trajectory'[k] = trajectory[k]
  BY <1>1, <1>3
<1>6. max_joint_update \in Nat /\ max_iterations \in Nat BY PlannerAssumption
<1>7. in_collision' \in BOOLEAN /\ (in_collision' <=> Collides(PosedSpheres(q), PosedAttached(q)))
  BY <1>1, <1>4 DEF Collides, GradientsCollide, MeshesCollide, Obstacles
<1>8. q' \in JointValues /\ Gap(q, q') <= max_joint_update
  <2>1. CASE in_collision'
    <3>1. q' \in JointValues /\ Gap(q', q) <= max_joint_update BY <1>1, <2>1 DEF JointUpdated
    <3>2. q' \in Int BY <3>1, JointAssumption
    <3> QED BY <1>3, <3>1, <3>2, GapIsSymmetric
  <2>2. CASE ~in_collision'
    <3>1. q' = q BY <1>1, <2>2
    <3> QED BY <1>3, <1>6, <3>1, GapToItself
  <2> QED BY <2>1, <2>2
<1>9. CallTyped'
  <2>1. Len(trajectory') <= max_iterations BY <1>1, <1>5, <1>6
  <2> QED BY <1>1, <1>2, <1>5, <1>7, <1>8, <2>1 DEF CallTyped
<1>10. ASSUME Understood', NEW k \in 1..n + 1
       PROVE  IF k = n + 1 /\ ~in_collision' THEN Clear(trajectory[k])' /\ ~MeshesCollide(trajectory[k])'
              ELSE ~Clear(trajectory[k])' \/ MeshesCollide(trajectory[k])'
  <2>1. /\ Understood
        /\ \A at : (Clear(at)' <=> Clear(at)) /\ (MeshesCollide(at)' <=> MeshesCollide(at))
    BY <1>4, <1>10, SceneIsAll
  <2>2. Ready BY <1>2, <2>1, TypedIsBoth DEF Ready, SpaceSound
  <2>3. in_collision' <=> ~Clear(q) \/ MeshesCollide(q)
    BY <1>3, <1>7, <2>2, CollidesWhatIsNear DEF Collides
  <2>4. CASE k = n + 1
    <3>1. trajectory'[k] = q BY <1>5, <2>4
    <3>2. CASE in_collision' BY <2>1, <2>3, <3>1, <3>2
    <3>3. CASE ~in_collision' BY <2>1, <2>3, <2>4, <3>1, <3>3
    <3> QED BY <3>2, <3>3
  <2>5. CASE k # n + 1
    <3>1. k \in 1..n /\ trajectory'[k] = trajectory[k] BY <1>5, <2>5
    <3>2. ~Clear(trajectory[k]) \/ MeshesCollide(trajectory[k])
      BY <1>1, <1>2, <2>1, <3>1 DEF WalkedOut
    <3> QED BY <2>1, <2>5, <3>1, <3>2
  <2> QED BY <2>4, <2>5
<1>11. trajectory'[1] = start' /\ trajectory' # << >>
  <2>1. CASE trajectory = << >>
    <3>1. q = start /\ n = 0 BY <1>1, <1>2, <2>1 DEF WalkedOut
    <3> QED BY <1>1, <1>5, <3>1
  <2>2. CASE trajectory # << >>
    <3>1. trajectory[1] = start BY <1>1, <1>2, <2>2 DEF WalkedOut
    <3>2. 1 \in 1..n BY <1>3, <2>2
    <3> QED BY <1>1, <1>5, <3>1, <3>2
  <2> QED BY <2>1, <2>2
<1>12. ASSUME NEW k \in 1..n PROVE Gap(trajectory'[k], trajectory'[k + 1]) <= max_joint_update
  <2>1. CASE k = n
    <3>1. trajectory # << >> BY <1>5, <2>1
    <3>2. Gap(trajectory[n], q) <= max_joint_update BY <1>1, <1>2, <3>1 DEF WalkedOut
    <3> QED BY <1>5, <2>1, <3>2
  <2>2. CASE k # n
    <3>1. k \in 1..n - 1 /\ k + 1 \in 1..n BY <1>5, <2>2
    <3>2. Gap(trajectory[k], trajectory[k + 1]) <= max_joint_update BY <1>1, <1>2, <3>1 DEF WalkedOut
    <3> QED BY <1>5, <3>1, <3>2
  <2> QED BY <2>1, <2>2
<1>13. Gap(trajectory'[n + 1], q') <= max_joint_update BY <1>5, <1>8
<1>14. WalkedOut'
  <2>1. Len(trajectory') - 1 = n BY <1>5
  <2> HIDE DEF n
  <2> QED BY <1>5, <1>10, <1>11, <1>12, <1>13, <2>1 DEF WalkedOut
<1> QED BY <1>4, <1>9, <1>14 DEF PlannerInv

LEMMA PlannerInvStep ==
    ASSUME PlannerInv, [PlannerNext]_plannerVars
    PROVE  PlannerInv'
<1>1. SpaceSound /\ CallTyped /\ WalkedOut BY DEF PlannerInv
<1>2. ASSUME SceneArrives PROVE PlannerInv'
  <2>1. PICK s \in Scenes, r \in BOOLEAN : SetPlanningScene(s, r) BY <1>2 DEF SceneArrives
  <2>2. UNCHANGED <<in_call, q, trajectory, in_collision, start, response>> BY <1>2 DEF SceneArrives, call
  <2>3. SpaceSound' /\ ~steady' BY <1>1, <2>1, SceneArrivesStep
  <2>4. ~Understood' BY <2>3 DEF Understood
  <2>5. CallTyped' BY <1>1, <2>2 DEF CallTyped
  <2>6. WalkedOut' BY <1>1, <2>2, <2>4 DEF WalkedOut
  <2> QED BY <2>3, <2>5, <2>6 DEF PlannerInv
<1>3. ASSUME SceneGoes PROVE PlannerInv'
  <2>1. Revert BY <1>3 DEF SceneGoes
  <2>2. UNCHANGED <<in_call, q, trajectory, in_collision, start, response>> BY <1>3 DEF SceneGoes, call
  <2>3. SpaceSound' /\ ~steady' BY <1>1, <2>1, SceneGoesStep
  <2>4. ~Understood' BY <2>3 DEF Understood
  <2>5. CallTyped' BY <1>1, <2>2 DEF CallTyped
  <2>6. WalkedOut' BY <1>1, <2>2, <2>4 DEF WalkedOut
  <2> QED BY <2>3, <2>5, <2>6 DEF PlannerInv
<1>4. ASSUME Refuse PROVE PlannerInv'
  <2>1. /\ in_call = "idle" /\ response' = NoAnswer /\ UNCHANGED space
        /\ UNCHANGED <<in_call, q, trajectory, in_collision, start>>
    BY <1>4 DEF Refuse
  <2>2. SpaceSound' BY <1>1, <2>1, SpaceStaysStep
  <2>3. CallTyped' BY <1>1, <2>1 DEF CallTyped, NoAnswer
  <2>4. WalkedOut' BY <2>1 DEF WalkedOut
  <2> QED BY <2>2, <2>3, <2>4 DEF PlannerInv
<1>5. ASSUME NEW q0 \in JointValues, GetFreePath(q0) PROVE PlannerInv'
  <2>1. /\ SetupForGroupQueries(q0) /\ in_call' = "refining" /\ q' = q0 /\ start' = q0
        /\ trajectory' = << >> /\ in_collision' = TRUE /\ response' = NoAnswer
    BY <1>5 DEF GetFreePath
  <2>2. SpaceSound' BY <1>1, <2>1, SetupStep
  <2>3. CallTyped'
    <3>1. Len(<< >>) = 0 /\ << >> \in Seq(JointValues) /\ 0 <= max_iterations BY PlannerAssumption
    <3> QED BY <2>1, <3>1 DEF CallTyped, NoAnswer, Calls
  <2>4. WalkedOut'
    <3>1. Len(trajectory') = 0 /\ 1..0 = {} /\ 1..0 - 1 = {} BY <2>1
    <3> QED BY <2>1, <3>1 DEF WalkedOut
  <2> QED BY <2>2, <2>3, <2>4 DEF PlannerInv
<1>6. ASSUME Crash PROVE PlannerInv'
  <2>1. in_call' = "crashed" /\ UNCHANGED space
        /\ UNCHANGED <<q, trajectory, in_collision, start, response>>
    BY <1>6 DEF Crash
  <2>2. SpaceSound' BY <1>1, <2>1, SpaceStaysStep
  <2>3. CallTyped' BY <1>1, <2>1 DEF CallTyped, Calls
  <2>4. WalkedOut' BY <2>1 DEF WalkedOut
  <2> QED BY <2>2, <2>3, <2>4 DEF PlannerInv
<1>7. ASSUME ReturnPath PROVE PlannerInv'
  <2>1. /\ response' = [result |-> TRUE, free |-> ~in_collision] /\ in_call' = "idle"
        /\ q' = 0 /\ trajectory' = << >> /\ in_collision' = TRUE /\ start' = 0 /\ UNCHANGED space
    BY <1>7 DEF ReturnPath
  <2>2. SpaceSound' BY <1>1, <2>1, SpaceStaysStep
  <2>3. CallTyped'
    <3>1. Len(<< >>) = 0 /\ << >> \in Seq(JointValues) /\ 0 <= max_iterations BY PlannerAssumption
    <3>2. response' \in [result : BOOLEAN, free : BOOLEAN] BY <2>1
    <3> QED BY <2>1, <3>1, <3>2, JointAssumption DEF CallTyped, Calls
  <2>4. WalkedOut' BY <2>1 DEF WalkedOut
  <2> QED BY <2>2, <2>3, <2>4 DEF PlannerInv
<1>8. ASSUME CheckTrajectory PROVE PlannerInv'
  <2>1. PICK t \in Trajectories : IsTrajectorySafe(t) BY <1>8 DEF CheckTrajectory
  <2>2. in_call = "idle" /\ UNCHANGED <<in_call, q, trajectory, in_collision, start, response>>
    BY <1>8 DEF CheckTrajectory, call
  <2>3. SpaceSound' BY <1>1, <2>1, SafetyStep
  <2>4. CallTyped' BY <1>1, <2>2 DEF CallTyped
  <2>5. WalkedOut' BY <2>2 DEF WalkedOut
  <2> QED BY <2>3, <2>4, <2>5 DEF PlannerInv
<1>9. ASSUME UNCHANGED plannerVars PROVE PlannerInv'
  <2>1. UNCHANGED space /\ UNCHANGED <<in_call, q, trajectory, in_collision, start, response>>
    BY <1>9 DEF plannerVars, call
  <2>2. /\ SpaceSound' /\ scene' = scene /\ touch' = touch /\ steady' = steady
        /\ envField' = envField /\ selfField' = selfField
    BY <1>1, <2>1, SpaceStaysStep
  <2>3. CallTyped' BY <1>1, <2>1 DEF CallTyped
  <2>4. /\ Understood' <=> Understood
        /\ \A at : (Clear(at)' <=> Clear(at)) /\ (MeshesCollide(at)' <=> MeshesCollide(at))
    BY <2>2, SceneIsAll
  <2>5. WalkedOut' BY <1>1, <2>1, <2>4 DEF WalkedOut
  <2> QED BY <2>2, <2>3, <2>5 DEF PlannerInv
<1> QED BY <1>2, <1>3, <1>4, <1>5, <1>6, <1>7, <1>8, <1>9, IterateStep
    DEF PlannerNext, GetFreePathCrashes, IterateCrashes, CheckCrashes

LEMMA PlannerInvStarts ==
    ASSUME PlannerInit
    PROVE  PlannerInv
<1>1. /\ scene = NoScene /\ state = 0 /\ spheres = [l \in Bodies |-> LinkAt(l, 0)] /\ points = spheres
      /\ attached = << >> /\ touch = {} /\ envField = NoField /\ selfField = NoField
      /\ current_group = "" /\ names = << >> /\ held = << >> /\ gradients = << >> /\ steady = FALSE
      /\ in_call = "idle" /\ q = 0 /\ trajectory = << >> /\ in_collision = TRUE
      /\ start = 0 /\ response = NoAnswer
  BY DEF PlannerInit, SpaceInit
<1>2. DOMAIN << >> = {} /\ Len(<< >>) = 0 OBVIOUS
<1>3. NoScene.attached = << >> BY DEF NoScene
<1>4. ObjectIds(NoScene) = {} BY <1>2, <1>3 DEF ObjectIds
<1>5. spheres \in [Bodies -> Int]
  <2>1. \A l \in Bodies : LinkAt(l, 0) \in Int
    <3>1. 0 \in Int OBVIOUS
    <3> QED BY <3>1, LinksAssumption, LinksAreInt
  <2> QED BY <1>1, <2>1
<1>6. SpaceTyped
  <2>1. DOMAIN attached = ObjectIds(scene) /\ Range(attached) \subseteq Int
    <3>1. DOMAIN attached = {} BY <1>1, <1>2
    <3> QED BY <1>1, <1>4, <3>1 DEF Range
  <2>2. Len(names) + Len(held) <= Len(gradients) /\ gradients \in Seq(Int)
    <3>1. Len(names) = 0 /\ Len(held) = 0 /\ Len(gradients) = 0 BY Zenon, <1>1, <1>2
    <3>2. << >> \in Seq(Int) OBVIOUS
    <3>3. gradients \in Seq(Int) BY Zenon, <1>1, <3>2
    <3> QED BY <3>1, <3>3
  <2>3. NoField \in FieldType BY DEF NoField, FieldType
  <2> QED BY <1>1, <1>5, <2>1, <2>2, <2>3, JointAssumption DEF SpaceTyped
<1>7. SetUp /\ WalkedOut BY <1>1 DEF SetUp, WalkedOut
<1>8. SceneKnown
  <2>1. DOMAIN scene.attached = {} BY Zenon, <1>1, <1>2, <1>3
  <2> QED BY <1>1, <2>1 DEF SceneKnown, IsSet
<1>9. CallTyped
  <2>1. << >> \in Seq(JointValues) /\ 0 <= max_iterations BY PlannerAssumption
  <2> QED BY <1>1, <1>2, <2>1, JointAssumption DEF CallTyped, Calls, NoAnswer
<1> QED BY <1>6, <1>7, <1>8, <1>9 DEF PlannerInv, SpaceSound

LEMMA PlannerInvHolds == PlannerSpec => []PlannerInv
<1> QED BY PlannerInvStarts, PlannerInvStep, PTL DEF PlannerSpec

\* What the planner and its space keep has its type, and there is a gradient for each link and
\* each object of the group, whatever scenes come and go.
THEOREM PlannerTypeCorrect == PlannerSpec => []PlannerTypeOK
<1>1. PlannerInv => PlannerTypeOK BY TypedIsBoth DEF PlannerInv, SpaceSound
<1> QED BY <1>1, PlannerInvHolds, PTL

\* What the planner's loop calls free is free by the meshes and clear of what the fields hold,
\* and a trajectory that isTrajectorySafe accepts does not go through that and out again: in the
\* scene of the last setup, whose obstacles and robot the fields hold but for what an earlier
\* scene or set-up had put in.
THEOREM FreeAndSafe == PlannerSpec => []CalledFreeIsFree
<1>1. PlannerInv => CalledFreeIsFree
  <2> SUFFICES ASSUME PlannerInv PROVE FreeIsFree /\ NeverThrough BY DEF CalledFreeIsFree
  <2>1. SpaceSound /\ CallTyped /\ WalkedOut BY DEF PlannerInv
  <2>2. FreeIsFree
    <3> SUFFICES ASSUME in_call = "refining", ~in_collision, Understood
                 PROVE  Clear(Last(trajectory)) /\ ~MeshesCollide(Last(trajectory))
      BY DEF FreeIsFree
    <3>1. trajectory \in Seq(JointValues) BY <2>1 DEF CallTyped
    <3>2. trajectory # << >> BY <2>1 DEF WalkedOut
    <3>3. Len(trajectory) \in 1..Len(trajectory) BY <3>1, <3>2
    <3>4. Clear(trajectory[Len(trajectory)]) /\ ~MeshesCollide(trajectory[Len(trajectory)])
      BY <2>1, <3>3 DEF WalkedOut
    <3> QED BY <3>4 DEF Last
  <2>3. NeverThrough
    <3>1. CASE Understood
      <4>1. Ready BY <2>1, <3>1, TypedIsBoth DEF Ready, SpaceSound
      <4> QED BY <4>1, ReadyNeverThrough
    <3>2. CASE ~Understood BY <3>2 DEF NeverThrough
    <3> QED BY <3>1, <3>2
  <2> QED BY <2>2, <2>3
<1> QED BY <1>1, PlannerInvHolds, PTL

\* The path that is returned starts where the request said, in small steps, and only its
\* last point may be free.
THEOREM PathsLeadOut == PlannerSpec => PathLeadsOut
<1> DEFINE Leads ==
        /\ trajectory # << >> /\ trajectory[1] = start
        /\ \A k \in 1..Len(trajectory) - 1 :
              Gap(trajectory[k], trajectory[k + 1]) <= max_joint_update
        /\ Understood =>
              \A k \in DOMAIN trajectory :
                 Clear(trajectory[k]) => k = Len(trajectory) \/ MeshesCollide(trajectory[k])
<1>1. ASSUME PlannerInv, ReturnPath PROVE Leads
  <2>1. CallTyped /\ WalkedOut BY <1>1 DEF PlannerInv
  <2>2. in_call = "refining" /\ (~in_collision \/ Len(trajectory) = max_iterations)
    BY <1>1 DEF ReturnPath
  <2>3. trajectory \in Seq(JointValues) BY <2>1 DEF CallTyped
  <2>4. trajectory # << >>
    <3>1. CASE ~in_collision BY <2>1, <2>2, <3>1 DEF WalkedOut
    <3>2. CASE Len(trajectory) = max_iterations
      <4>1. Len(trajectory) # 0 BY <3>2, PlannerAssumption
      <4> QED BY <4>1
    <3> QED BY <2>2, <3>1, <3>2
  <2>5. DOMAIN trajectory = 1..Len(trajectory) BY <2>3
  <2>6. ASSUME Understood, NEW k \in DOMAIN trajectory, Clear(trajectory[k])
        PROVE  k = Len(trajectory) \/ MeshesCollide(trajectory[k])
    BY <2>1, <2>2, <2>5, <2>6 DEF WalkedOut
  <2> QED BY <2>1, <2>2, <2>4, <2>6 DEF WalkedOut
<1>2. PlannerInv /\ [PlannerNext]_plannerVars => [ReturnPath => Leads]_plannerVars
  <2> HIDE DEF Leads
  <2> QED BY <1>1
<1> QED BY <1>2, PlannerInvHolds, PTL DEF PlannerSpec, PathLeadsOut

-----------------------------------------------------------------------------
(* The distance field: its voxels and queue hold what they may *)

LEMMA MaxSqIsNat == MaxSq \in Nat /\ 0 < MaxSq /\ 0 \in 0..MaxSq /\ MaxSq \in 0..MaxSq
<1>1. \A m \in Nat \ {0} : m * m \in Nat /\ 0 < m * m
  <2> SUFFICES ASSUME NEW m \in Nat, m # 0 PROVE m * m \in Nat /\ 0 < m * m OBVIOUS
  <2> QED OBVIOUS
<1> QED BY <1>1, MaxDistanceAssumption DEF MaxSq

LEMMA CellsAre ==
    ASSUME NEW c \in Cells
    PROVE  c \in Int \X Int \X Int /\ c[1] \in Int /\ c[2] \in Int /\ c[3] \in Int /\ c = <<c[1], c[2], c[3]>>
BY SizeAssumption DEF Cells

LEMMA SquareIsNat == ASSUME NEW x \in Int PROVE x * x \in Nat /\ (x * x = 0 => x = 0)
<1>1. CASE x >= 0 BY <1>1
<1>2. CASE x < 0
  <2>1. 0 - x \in Nat /\ 0 - x > 0 /\ x * x = (0 - x) * (0 - x) BY <1>2
  <2>2. \A y \in Nat : y > 0 => y * y \in Nat /\ y * y > 0 OBVIOUS
  <2> QED BY <2>1, <2>2
<1> QED BY <1>1, <1>2

\* A squared distance is one, and 0 only of a cell to itself.
LEMMA DistancesAre ==
    ASSUME NEW c \in Cells, NEW d \in Cells
    PROVE  eucDistSq(c, d) \in Nat /\ (eucDistSq(c, d) = 0 <=> c = d)
<1>1. /\ c[1] \in Int /\ c[2] \in Int /\ c[3] \in Int /\ c = <<c[1], c[2], c[3]>>
      /\ d[1] \in Int /\ d[2] \in Int /\ d[3] \in Int /\ d = <<d[1], d[2], d[3]>>
  BY CellsAre
<1> DEFINE x == c[1] - d[1]
           y == c[2] - d[2]
           z == c[3] - d[3]
<1>2. x \in Int /\ y \in Int /\ z \in Int BY <1>1
<1>3. eucDistSq(c, d) = x * x + y * y + z * z BY DEF eucDistSq
<1>4. x = 0 /\ y = 0 /\ z = 0 <=> c = d BY <1>1
<1> HIDE DEF x, y, z
<1>5. x * x \in Nat /\ y * y \in Nat /\ z * z \in Nat BY <1>2, SquareIsNat
<1>6. (x * x = 0 => x = 0) /\ (y * y = 0 => y = 0) /\ (z * z = 0 => z = 0) BY <1>2, SquareIsNat
<1>7. x * x + y * y + z * z = 0 => x * x = 0 /\ y * y = 0 /\ z * z = 0 BY <1>5
<1>8. 0 * 0 = 0 OBVIOUS
<1>9. x * x + y * y + z * z \in Nat BY <1>5
<1>10. x = 0 /\ y = 0 /\ z = 0 => x * x + y * y + z * z = 0 BY <1>8
<1> QED BY <1>3, <1>4, <1>6, <1>7, <1>9, <1>10

LEMMA DistanceIsSymmetric ==
    ASSUME NEW c \in Cells, NEW d \in Cells
    PROVE  eucDistSq(c, d) = eucDistSq(d, c)
<1>1. \A x, y \in Int : (x - y) * (x - y) = (y - x) * (y - x) OBVIOUS
<1>2. /\ c[1] \in Int /\ c[2] \in Int /\ c[3] \in Int
      /\ d[1] \in Int /\ d[2] \in Int /\ d[3] \in Int
  BY CellsAre
<1>3. /\ (c[1] - d[1]) * (c[1] - d[1]) = (d[1] - c[1]) * (d[1] - c[1])
      /\ (c[2] - d[2]) * (c[2] - d[2]) = (d[2] - c[2]) * (d[2] - c[2])
      /\ (c[3] - d[3]) * (c[3] - d[3]) = (d[3] - c[3]) * (d[3] - c[3])
  BY <1>1, <1>2
<1> QED BY Zenon, <1>3 DEF eucDistSq

\* What is selected from a list is what is wanted, each of which is in the list.
LEMMA SelectionIs ==
    ASSUME NEW n \in Nat, NEW s, s = [k \in 1..n |-> s[k]], NEW wanted
    PROVE  /\ Selected(s, wanted) \in Seq(wanted)
           /\ ToSet(Selected(s, wanted)) = {s[k] : k \in 1..n} \cap wanted
<1> DEFINE X == {s[k] : k \in 1..n}
           t == Selected(s, wanted)
<1>1. s \in Seq(X)
  <2>1. s \in [1..n -> X] OBVIOUS
  <2> QED BY <2>1
<1>2. t \in Seq(X) /\ Range(t) = Range(s) \cap wanted BY <1>1, SelectedAreWanted
<1>3. Range(s) = X BY DEF Range
<1>4. DOMAIN t = 1..Len(t) /\ Len(t) \in Nat BY <1>2
<1> HIDE DEF t, X
<1>5. ToSet(t) = Range(t) BY DEF ToSet, Range
<1>6. \A k \in 1..Len(t) : t[k] \in wanted BY <1>2, <1>4 DEF Range
<1>7. t \in Seq(wanted) BY <1>2, <1>4, <1>6
<1> QED BY <1>2, <1>3, <1>5, <1>7 DEF t, X

LEMMA SelectionOfSeq ==
    ASSUME NEW X, NEW s \in Seq(X), NEW wanted
    PROVE  /\ Selected(s, wanted) \in Seq(wanted)
           /\ ToSet(Selected(s, wanted)) = ToSet(s) \cap wanted
<1>1. Len(s) \in Nat /\ s = [k \in 1..Len(s) |-> s[k]] /\ DOMAIN s = 1..Len(s) OBVIOUS
<1>2. ToSet(s) = {s[k] : k \in 1..Len(s)} BY <1>1 DEF ToSet
<1> QED BY <1>1, <1>2, SelectionIs

LEMMA NeighborhoodsAre ==
    ASSUME NEW D \in 0..1, NEW n \in Directions
    PROVE  neighborhoods[D][n] \in Seq(Directions)
<1> DEFINE W == {m \in Directions \ {Still} : D = 1 => Straight(m) /\ ~Against(n, m)}
<1>1. AllDirections \in Seq(Directions) BY DEF AllDirections, Directions
<1>2. neighborhoods[D][n] = Selected(AllDirections, W) BY DEF neighborhoods
<1> HIDE DEF W
<1>3. Selected(AllDirections, W) \in Seq(W) BY <1>1, SelectionOfSeq
<1>4. W \subseteq Directions BY DEF W
<1>5. \A t \in Seq(W) : t \in Seq(Directions) BY <1>4
<1> QED BY <1>2, <1>3, <1>5

\* The cells around a cell are cells, each one step away.
LEMMA AroundAre ==
    ASSUME NEW c, NEW ns \in Seq(Directions)
    PROVE  /\ Around(c, ns) \in Seq(Cells)
           /\ ToSet(Around(c, ns)) \subseteq Cells
           /\ \A e \in ToSet(Around(c, ns)) : \E n \in Directions : Shifted(c, n) = e
<1> DEFINE n == Len(ns)
           s == [k \in DOMAIN ns |-> Shifted(c, ns[k])]
<1>1. n \in Nat /\ DOMAIN ns = 1..n /\ \A k \in 1..n : ns[k] \in Directions OBVIOUS
<1>2. s = [k \in 1..n |-> s[k]] BY <1>1
<1>3. \A k \in 1..n : s[k] = Shifted(c, ns[k]) BY <1>1
<1>4. Around(c, ns) = Selected(s, Cells) BY DEF Around
<1> HIDE DEF s, n
<1>5. /\ Selected(s, Cells) \in Seq(Cells)
      /\ ToSet(Selected(s, Cells)) = {s[k] : k \in 1..n} \cap Cells
  BY <1>1, <1>2, SelectionIs
<1> QED BY <1>1, <1>3, <1>4, <1>5

LEMMA ListedAre ==
    ASSUME NEW S \in SUBSET Cells
    PROVE  Listed(S) \in Seq(Cells)
<1> DEFINE n == Size[1] * Size[2] * Size[3]
           cell(k) == <<k % Size[1], (k \div Size[1]) % Size[2], k \div (Size[1] * Size[2])>>
           s == [k \in 1..n |-> cell(k - 1)]
<1>1. n \in Nat
  <2>1. Size[1] \in Nat /\ Size[2] \in Nat /\ Size[3] \in Nat BY SizeAssumption
  <2>2. \A x, y \in Nat : x * y \in Nat OBVIOUS
  <2>3. Size[1] * Size[2] \in Nat BY <2>1, <2>2
  <2> QED BY <2>1, <2>2, <2>3
<1>2. Listed(S) = Selected(s, S) BY DEF Listed
<1> HIDE DEF n, cell
<1>3. s = [k \in 1..n |-> s[k]] OBVIOUS
<1> HIDE DEF s
<1>4. Selected(s, S) \in Seq(S) BY <1>1, <1>3, SelectionIs
<1>5. \A t \in Seq(S) : t \in Seq(Cells) OBVIOUS
<1> QED BY <1>2, <1>4, <1>5

-----------------------------------------------------------------------------
\* What every voxel is: typed; below the largest distance, as far from its closest point as it
\* says; and with a valid direction only if it has a closest point.
VoxelIsSound(v, c) ==
    /\ v \in VoxelType
    /\ v.dist < MaxSq => v.closest \in Cells /\ v.dist = eucDistSq(c, v.closest)
    /\ v.dir # None => v.closest \in Cells

FieldVoxels ==
    /\ voxels = [c \in Cells |-> voxels[c]]
    /\ \A c \in Cells : VoxelIsSound(voxels[c], c)

\* What else the field keeps.
FieldTyped ==
    /\ object_voxel_locations \subseteq Cells /\ adding \subseteq Cells
    /\ object_voxel_locations = given \cup gone
    /\ bucket_queue \in [0..MaxSq -> Seq(Cells)]
    /\ drained \in 0..MaxSq \cup {None}
    /\ stack \in Seq(Cells)
    /\ doing \in {"idle", "remove", "propogate"}
    /\ made \in 0..MaxCalls /\ before \in Before
    /\ doing = "propogate" => drained \in 0..MaxSq
    /\ doing = "idle" => adding = {}

\* What was given and not taken away since, and is not yet to be added, is there.
GivenIsThere == \A c \in Kept \ adding : voxels[c].dist = 0

FieldInv == FieldVoxels /\ FieldTyped /\ GivenIsThere

LEMMA BlankIsSound == ASSUME NEW c \in Cells PROVE VoxelIsSound(Blank, c)
<1>1. MaxSq \in 0..MaxSq /\ ~(MaxSq < MaxSq) BY MaxSqIsNat
<1> QED BY <1>1 DEF VoxelIsSound, Blank, VoxelType, CellOrNone

LEMMA OwnIsSound ==
    ASSUME NEW c \in Cells
    PROVE  VoxelIsSound(Own(c, 0), c) /\ VoxelIsSound(Own(c, MaxSq), c)
<1>1. MaxSq \in 0..MaxSq /\ 0 \in 0..MaxSq /\ ~(MaxSq < MaxSq) BY MaxSqIsNat
<1>2. eucDistSq(c, c) = 0 BY DistancesAre
<1>3. Still \in Directions BY DEF Still, Directions
<1> QED BY <1>1, <1>2, <1>3 DEF VoxelIsSound, Own, VoxelType, CellOrNone

\* A field with some of its voxels new.
LEMMA FieldWith ==
    ASSUME FieldVoxels, NEW S \in SUBSET Cells, NEW new, \A c \in S : VoxelIsSound(new[c], c),
           voxels' = [c \in Cells |-> IF c \in S THEN new[c] ELSE voxels[c]]
    PROVE  /\ FieldVoxels'
           /\ \A c \in S : voxels'[c] = new[c]
           /\ \A c \in Cells \ S : voxels'[c] = voxels[c]
<1>1. /\ \A c \in S : voxels'[c] = new[c]
      /\ \A c \in Cells \ S : voxels'[c] = voxels[c]
  OBVIOUS
<1>2. \A c \in Cells : VoxelIsSound(voxels'[c], c) BY <1>1 DEF FieldVoxels
<1>3. \A c \in Cells : VoxelIsSound(voxels[c], c)' BY <1>2 DEF VoxelIsSound
<1>4. voxels' = [c \in Cells |-> voxels'[c]] OBVIOUS
<1> QED BY <1>1, <1>3, <1>4 DEF FieldVoxels

LEMMA InvIsBoth == FieldInv => FieldTypeOK /\ DistanceIsMeasured /\ ObstaclesAreThere
<1> SUFFICES ASSUME FieldInv PROVE FieldTypeOK /\ DistanceIsMeasured /\ ObstaclesAreThere OBVIOUS
<1>1. FieldVoxels /\ FieldTyped /\ GivenIsThere BY DEF FieldInv
<1>2. \A c \in Cells : voxels[c] \in VoxelType BY <1>1 DEF FieldVoxels, VoxelIsSound
<1>3. voxels \in [Cells -> VoxelType]
  <2> HIDE DEF VoxelType, Cells
  <2> QED BY <1>1, <1>2 DEF FieldVoxels
<1>4. DistanceIsMeasured BY <1>1 DEF FieldVoxels, VoxelIsSound, DistanceIsMeasured
<1>5. ObstaclesAreThere
  <2>1. doing = "idle" => Kept \ adding = Kept BY <1>1 DEF FieldTyped
  <2> QED BY <1>1, <2>1 DEF GivenIsThere, ObstaclesAreThere
<1> QED BY <1>1, <1>3, <1>4, <1>5 DEF FieldTyped, FieldTypeOK

LEMMA FieldInvStarts == FieldInit => FieldInv
<1> SUFFICES ASSUME FieldInit PROVE FieldInv OBVIOUS
<1>1. FieldVoxels
  <2>1. voxels = [c \in Cells |-> Blank] BY DEF FieldInit
  <2>2. \A c \in Cells : voxels[c] = Blank BY <2>1
  <2>3. voxels = [c \in Cells |-> voxels[c]] BY <2>1
  <2> QED BY <2>2, <2>3, BlankIsSound DEF FieldVoxels
<1>2. bucket_queue \in [0..MaxSq -> Seq(Cells)]
  <2>1. << >> \in Seq(Cells) OBVIOUS
  <2> QED BY <2>1 DEF FieldInit, NoBuckets
<1>3. stack \in Seq(Cells) BY DEF FieldInit
<1>4. FieldTyped
  <2>1. 0 \in 0..MaxCalls BY CallsAssumption
  <2> QED BY <1>2, <1>3, <2>1 DEF FieldInit, FieldTyped
<1>5. GivenIsThere BY DEF FieldInit, GivenIsThere, Kept
<1> QED BY <1>1, <1>4, <1>5 DEF FieldInv

-----------------------------------------------------------------------------
LEMMA CalledCounts ==
    ASSUME FieldInv, Called
    PROVE  made' \in 0..MaxCalls /\ doing = "idle" /\ adding = {}
BY CallsAssumption DEF FieldInv, FieldTyped, Called

\* addNewObstacleVoxels: the obstacles have distance 0, the rest is as in vs.
LEMMA AddNewStep ==
    ASSUME FieldInv, NEW vs, NEW S \in SUBSET Cells, AddNewObstacleVoxels(vs, bucket_queue, S),
           vs = [c \in Cells |-> vs[c]], \A c \in Cells : VoxelIsSound(vs[c], c)
    PROVE  /\ FieldVoxels'
           /\ bucket_queue' \in [0..MaxSq -> Seq(Cells)]
           /\ drained' \in 0..MaxSq /\ doing' = "propogate"
           /\ \A c \in S : voxels'[c].dist = 0
           /\ \A c \in Cells \ S : voxels'[c] = vs[c]
<1>1. voxels' = [c \in Cells |-> IF c \in S THEN Own(c, 0) ELSE vs[c]] BY DEF AddNewObstacleVoxels
<1>2. \A c \in S : voxels'[c] = Own(c, 0) BY <1>1
<1>3. \A c \in Cells \ S : voxels'[c] = vs[c] BY <1>1
<1>4. \A c \in Cells : VoxelIsSound(voxels'[c], c) BY <1>2, <1>3, OwnIsSound
<1>5. voxels' = [c \in Cells |-> voxels'[c]] BY <1>1
<1>6. FieldVoxels'
  <2>1. \A c \in Cells : VoxelIsSound(voxels[c], c)' BY <1>4 DEF VoxelIsSound
  <2> QED BY <1>5, <2>1 DEF FieldVoxels
<1>7. bucket_queue' \in [0..MaxSq -> Seq(Cells)]
  <2>1. Listed(S) \in Seq(Cells) BY ListedAre
  <2>2. bucket_queue \in [0..MaxSq -> Seq(Cells)] BY DEF FieldInv, FieldTyped
  <2>3. bucket_queue' = [bucket_queue EXCEPT ![0] = @ \o Listed(S)] BY DEF AddNewObstacleVoxels
  <2>4. 0 \in 0..MaxSq BY MaxSqIsNat
  <2>5. bucket_queue[0] \o Listed(S) \in Seq(Cells) BY <2>1, <2>2, <2>4
  <2> QED BY <2>2, <2>3, <2>5
<1>8. \A c \in S : voxels'[c].dist = 0
  <2>1. \A c \in S : Own(c, 0).dist = 0 BY DEF Own
  <2> QED BY Zenon, <1>2, <2>1
<1> QED BY <1>3, <1>6, <1>7, <1>8, MaxSqIsNat DEF AddNewObstacleVoxels

LEMMA ResetStep == ASSUME FieldInv, ResetField PROVE FieldInv'
<1>1. FieldVoxels'
  <2>1. voxels' = [c \in Cells |-> Blank] BY DEF ResetField
  <2>2. \A c \in Cells : voxels'[c] = Blank BY <2>1
  <2>3. voxels' = [c \in Cells |-> voxels'[c]] BY <2>1
  <2>4. \A c \in Cells : VoxelIsSound(voxels[c], c)' BY <2>2, BlankIsSound DEF VoxelIsSound
  <2> QED BY <2>3, <2>4 DEF FieldVoxels
<1>2. Called BY DEF ResetField
<1>3. FieldTyped' BY <1>2, CalledCounts DEF FieldInv, FieldTyped, ResetField, Gives
<1>4. GivenIsThere' BY DEF ResetField, GivenIsThere, Kept, Gives
<1> QED BY <1>1, <1>3, <1>4 DEF FieldInv

LEMMA AddPointsStep == ASSUME FieldInv, NEW P, AddPointsToField(P) PROVE FieldInv'
<1> DEFINE S == Valid(P) \ object_voxel_locations
<1>1. S \in SUBSET Cells /\ Valid(P) \subseteq Cells BY DEF Valid
<1>2. Called /\ AddNewObstacleVoxels(voxels, bucket_queue, S) BY DEF AddPointsToField
<1>3. /\ FieldVoxels'
      /\ bucket_queue' \in [0..MaxSq -> Seq(Cells)]
      /\ drained' \in 0..MaxSq /\ doing' = "propogate"
      /\ \A c \in S : voxels'[c].dist = 0
      /\ \A c \in Cells \ S : voxels'[c] = voxels[c]
  <2> HIDE DEF S
  <2> QED BY <1>1, <1>2, AddNewStep DEF FieldInv, FieldVoxels
<1>4. FieldTyped'
  <2>1. made' \in 0..MaxCalls /\ adding = {} BY <1>2, CalledCounts
  <2> QED BY <1>1, <1>3, <2>1 DEF FieldInv, FieldTyped, AddPointsToField, Gives
<1>5. GivenIsThere'
  <2> SUFFICES ASSUME NEW c \in given \cup Valid(P), c \notin gone PROVE voxels'[c].dist = 0
    BY DEF GivenIsThere, AddPointsToField, Kept, Gives
  <2>1. adding = {} BY <1>2, CalledCounts
  <2>3. c \in S \/ c \in Kept BY DEF FieldInv, FieldTyped, Kept
  <2>4. CASE c \in S BY <1>3, <2>4
  <2>5. CASE c \in Kept /\ c \notin S
    <3>1. c \in Cells BY <2>5 DEF FieldInv, FieldTyped, Kept
    <3>2. voxels[c].dist = 0 BY <2>1, <2>5 DEF FieldInv, GivenIsThere
    <3> QED BY <1>3, <2>5, <3>1, <3>2
  <2> QED BY <2>3, <2>4, <2>5
<1> QED BY <1>3, <1>4, <1>5 DEF FieldInv

LEMMA UpdateFromScratchStep == ASSUME FieldInv, NEW P, UpdateFromScratch(P) PROVE FieldInv'
<1> DEFINE S == Valid(P)
           vs == [c \in Cells |-> Blank]
<1>1. S \in SUBSET Cells BY DEF Valid
<1>2. Called /\ AddNewObstacleVoxels(vs, bucket_queue, S) BY DEF UpdateFromScratch
<1>3. vs = [c \in Cells |-> vs[c]] /\ \A c \in Cells : VoxelIsSound(vs[c], c) BY BlankIsSound
<1>4. /\ FieldVoxels'
      /\ bucket_queue' \in [0..MaxSq -> Seq(Cells)]
      /\ drained' \in 0..MaxSq /\ doing' = "propogate"
      /\ \A c \in S : voxels'[c].dist = 0
  <2> HIDE DEF S, vs
  <2> QED BY <1>1, <1>2, <1>3, AddNewStep
<1>5. FieldTyped'
  <2>1. made' \in 0..MaxCalls /\ adding = {} BY <1>2, CalledCounts
  <2> QED BY <1>1, <1>4, <2>1 DEF FieldInv, FieldTyped, UpdateFromScratch
<1>6. GivenIsThere' BY <1>4 DEF GivenIsThere, UpdateFromScratch, Kept
<1> QED BY <1>4, <1>5, <1>6 DEF FieldInv

LEMMA UpdateIterativelyStep == ASSUME FieldInv, NEW P, UpdateIteratively(P) PROVE FieldInv'
<1> DEFINE removed == object_voxel_locations \ Valid(P)
<1>1. removed \in SUBSET Cells /\ Valid(P) \subseteq Cells BY DEF Valid, FieldInv, FieldTyped
<1>2. voxels' = [c \in Cells |-> IF c \in removed THEN Own(c, MaxSq) ELSE voxels[c]]
  BY DEF UpdateIteratively
<1>3. /\ \A c \in removed : voxels'[c] = Own(c, MaxSq)
      /\ \A c \in Cells \ removed : voxels'[c] = voxels[c]
  BY <1>1, <1>2
<1>4. FieldVoxels'
  <2>1. voxels' = [c \in Cells |-> voxels'[c]] BY <1>2
  <2>2. \A c \in Cells : VoxelIsSound(voxels'[c], c) BY <1>1, <1>3, OwnIsSound DEF FieldInv, FieldVoxels
  <2>3. \A c \in Cells : VoxelIsSound(voxels[c], c)' BY <2>2 DEF VoxelIsSound
  <2> QED BY <2>1, <2>3 DEF FieldVoxels
<1>5. FieldTyped'
  <2>1. Called BY DEF UpdateIteratively
  <2>2. made' \in 0..MaxCalls BY <2>1, CalledCounts
  <2>3. stack' \in Seq(Cells)
    <3>1. stack' = Listed(removed) BY DEF UpdateIteratively
    <3> QED BY <1>1, <3>1, ListedAre
  <2> QED BY <1>1, <2>2, <2>3 DEF FieldInv, FieldTyped, UpdateIteratively, Gives
<1>6. GivenIsThere'
  <2> SUFFICES ASSUME NEW c \in Valid(P), c \in object_voxel_locations, c \notin gone
               PROVE  voxels'[c].dist = 0
    BY DEF GivenIsThere, UpdateIteratively, Kept, Gives
  <2>1. Called BY DEF UpdateIteratively
  <2>2. adding = {} BY <2>1, CalledCounts
  <2>3. c \in Kept BY DEF FieldInv, FieldTyped, Kept
  <2>4. voxels[c].dist = 0 BY <2>2, <2>3 DEF FieldInv, GivenIsThere
  <2> QED BY <1>1, <1>3, <2>4
<1> QED BY <1>4, <1>5, <1>6 DEF FieldInv

-----------------------------------------------------------------------------
\* A removal takes distances from voxels whose closest point is none, never from an obstacle.
LEMMA RemoveStep == ASSUME FieldInv, RemoveObstacleVoxels PROVE FieldInv'
<1> DEFINE top == stack[Len(stack)]
           alive(c) == IF voxels[c].closest \in Cells THEN voxels[voxels[c].closest].dist = 0
                       ELSE before
           loses(c) == ~alive(c) /\ voxels[c].dist # MaxSq
           near == Around(top, AllDirections)
           losing == Selected(near, {c \in ToSet(near) : loses(c)})
           kept == Selected(near, {c \in ToSet(near) : alive(c)})
           new == [c \in ToSet(losing) |-> Own(c, MaxSq)]
<1>1. /\ doing = "remove" /\ stack # << >>
      /\ voxels' = [c \in Cells |-> IF c \in ToSet(losing) THEN Own(c, MaxSq) ELSE voxels[c]]
      /\ stack' = SubSeq(stack, 1, Len(stack) - 1) \o losing
      /\ bucket_queue' = [bucket_queue EXCEPT ![0] = @ \o kept]
      /\ UNCHANGED <<object_voxel_locations, drained, adding, doing, given, gone, made, before>>
  BY DEF RemoveObstacleVoxels
<1>2. FieldVoxels /\ FieldTyped /\ GivenIsThere BY DEF FieldInv
<1>3. near \in Seq(Cells) /\ ToSet(near) \subseteq Cells
  <2>1. AllDirections \in Seq(Directions) BY DEF AllDirections, Directions
  <2> QED BY <2>1, AroundAre
<1> HIDE DEF near
<1>4. /\ losing \in Seq(Cells) /\ ToSet(losing) \subseteq Cells
      /\ \A c \in ToSet(losing) : loses(c)
      /\ kept \in Seq(Cells)
  <2> DEFINE L == {c \in ToSet(near) : loses(c)}
             K == {c \in ToSet(near) : alive(c)}
  <2>1. L \subseteq Cells /\ K \subseteq Cells /\ \A c \in L : loses(c) BY <1>3
  <2> HIDE DEF L, K, loses, alive
  <2>2. /\ Selected(near, L) \in Seq(L) /\ ToSet(Selected(near, L)) = ToSet(near) \cap L
        /\ Selected(near, K) \in Seq(K)
    BY <1>3, SelectionOfSeq
  <2>3. \A S \in SUBSET Cells : \A t \in Seq(S) : t \in Seq(Cells) OBVIOUS
  <2>4. Selected(near, L) \in Seq(Cells) /\ Selected(near, K) \in Seq(Cells) BY <2>1, <2>2, <2>3
  <2> QED BY <2>1, <2>2, <2>4 DEF L, K
<1> HIDE DEF losing, kept
<1>5. /\ FieldVoxels'
      /\ \A c \in Cells \ ToSet(losing) : voxels'[c] = voxels[c]
  <2>1. \A c \in ToSet(losing) : VoxelIsSound(new[c], c) BY <1>4, OwnIsSound
  <2>2. voxels' = [c \in Cells |-> IF c \in ToSet(losing) THEN new[c] ELSE voxels[c]] BY <1>1
  <2> HIDE DEF new
  <2> QED BY <1>2, <1>4, <2>1, <2>2, FieldWith
<1>6. FieldTyped'
  <2>1. stack' \in Seq(Cells)
    <3>1. stack \in Seq(Cells) BY <1>2 DEF FieldTyped
    <3>2. SubSeq(stack, 1, Len(stack) - 1) \in Seq(Cells) BY <1>1, <3>1
    <3> QED BY <1>1, <1>4, <3>2
  <2>2. bucket_queue' \in [0..MaxSq -> Seq(Cells)]
    <3>1. bucket_queue \in [0..MaxSq -> Seq(Cells)] BY <1>2 DEF FieldTyped
    <3>2. bucket_queue[0] \o kept \in Seq(Cells) BY <1>4, <3>1, MaxSqIsNat
    <3> QED BY <1>1, <3>1, <3>2
  <2> QED BY <1>1, <1>2, <2>1, <2>2 DEF FieldTyped
<1>7. GivenIsThere'
  <2> SUFFICES ASSUME NEW c \in Kept \ adding PROVE voxels'[c].dist = 0
    BY <1>1 DEF GivenIsThere, Kept
  <2>1. c \in Cells /\ voxels[c].dist = 0 BY <1>2 DEF FieldTyped, GivenIsThere, Kept
  <2>2. voxels[c].closest \in Cells /\ eucDistSq(c, voxels[c].closest) = 0
    BY <1>2, <2>1, MaxSqIsNat DEF FieldVoxels, VoxelIsSound
  <2>3. voxels[c].closest = c BY <2>1, <2>2, DistancesAre
  <2>4. c \notin ToSet(losing)
    <3>1. alive(c) BY <2>1, <2>3
    <3> QED BY <1>4, <3>1
  <2> QED BY <1>5, <2>1, <2>4
<1> QED BY <1>5, <1>6, <1>7 DEF FieldInv

LEMMA OfferedByAre ==
    ASSUME FieldInv, NEW from \in Cells
    PROVE  /\ OfferedBy(from) \in Seq(Cells) /\ ToSet(OfferedBy(from)) \subseteq Cells
           /\ \A c \in ToSet(OfferedBy(from)) :
                 voxels[from].closest \in Cells /\ \E n \in Directions : Shifted(from, n) = c
<1> DEFINE d == voxels[from].dir
           ns == neighborhoods[IF drained = 0 THEN 0 ELSE 1][d]
<1>1. CASE d = None
  <2>1. OfferedBy(from) = << >> BY <1>1 DEF OfferedBy
  <2>2. ToSet(<< >>) = {} BY DEF ToSet
  <2> QED BY <2>1, <2>2
<1>2. CASE d # None
  <2>1. d \in Directions /\ voxels[from].closest \in Cells
    BY <1>2 DEF FieldInv, FieldVoxels, VoxelIsSound, VoxelType
  <2>2. OfferedBy(from) = Around(from, ns) BY <1>2 DEF OfferedBy
  <2> HIDE DEF d
  <2>3. ns \in Seq(Directions)
    <3>1. (IF drained = 0 THEN 0 ELSE 1) \in 0..1 OBVIOUS
    <3> QED BY <2>1, <3>1, NeighborhoodsAre
  <2> HIDE DEF ns
  <2> QED BY <2>1, <2>2, <2>3, AroundAre
<1> QED BY <1>1, <1>2

\* What is offered is an obstacle's distance, and is taken where it is less.
LEMMA PropogateStep == ASSUME FieldInv, Propogate PROVE FieldInv'
<1> DEFINE from == bucket_queue[drained][1]
           offer(c) == eucDistSq(voxels[from].closest, c)
           takes(c) == offer(c) <= MaxSq /\ offer(c) < voxels[c].dist
           way(c) == CHOOSE n \in Directions : Shifted(from, n) = c
           offered(c) == [dist |-> offer(c), closest |-> voxels[from].closest, dir |-> way(c)]
           near == OfferedBy(from)
           taking == Selected(near, {c \in ToSet(near) : takes(c)})
           new == [c \in ToSet(taking) |-> offered(c)]
<1>1. /\ doing = "propogate" /\ bucket_queue[drained] # << >>
      /\ voxels' = [c \in Cells |-> IF c \in ToSet(taking) THEN offered(c) ELSE voxels[c]]
      /\ bucket_queue' = [i \in 0..MaxSq |->
             (IF i = drained THEN Tail(bucket_queue[i]) ELSE bucket_queue[i])
             \o Selected(taking, {c \in ToSet(taking) : offer(c) = i})]
      /\ UNCHANGED <<object_voxel_locations, drained, stack, adding, doing, given, gone, made, before>>
  BY DEF Propogate
<1>2. FieldVoxels /\ FieldTyped /\ GivenIsThere BY DEF FieldInv
<1>3. drained \in 0..MaxSq /\ bucket_queue \in [0..MaxSq -> Seq(Cells)] BY <1>1, <1>2 DEF FieldTyped
<1>4. from \in Cells BY <1>1, <1>3
<1> HIDE DEF from
<1>5. /\ near \in Seq(Cells) /\ ToSet(near) \subseteq Cells
      /\ \A c \in ToSet(near) :
            voxels[from].closest \in Cells /\ \E n \in Directions : Shifted(from, n) = c
  BY <1>4, OfferedByAre
<1> HIDE DEF near
<1>6. /\ taking \in Seq(Cells) /\ ToSet(taking) \subseteq ToSet(near)
      /\ \A c \in ToSet(taking) : takes(c)
  <2> DEFINE T == {c \in ToSet(near) : takes(c)}
  <2>1. T \subseteq Cells /\ \A c \in T : takes(c) BY <1>5
  <2> HIDE DEF T, takes
  <2>2. Selected(near, T) \in Seq(T) /\ ToSet(Selected(near, T)) = ToSet(near) \cap T
    BY <1>5, SelectionOfSeq
  <2>3. \A S \in SUBSET Cells : \A t \in Seq(S) : t \in Seq(Cells) OBVIOUS
  <2>4. Selected(near, T) \in Seq(Cells) BY <2>1, <2>2, <2>3
  <2> QED BY <2>1, <2>2, <2>4 DEF T
<1> HIDE DEF taking
<1>7. ASSUME NEW c \in ToSet(taking) PROVE VoxelIsSound(offered(c), c)
  <2>1. c \in Cells /\ voxels[from].closest \in Cells /\ takes(c) BY <1>5, <1>6
  <2>2. way(c) \in Directions
    <3>1. \E n \in Directions : Shifted(from, n) = c BY <1>5, <1>6
    <3> QED BY Zenon, <3>1
  <2>3. offer(c) \in Nat /\ offer(c) = eucDistSq(c, voxels[from].closest)
    <3>1. offer(c) \in Nat BY <2>1, DistancesAre
    <3>2. offer(c) = eucDistSq(c, voxels[from].closest) BY <2>1, DistanceIsSymmetric
    <3> QED BY <3>1, <3>2
  <2> HIDE DEF way, offer
  <2>4. offer(c) \in 0..MaxSq BY <2>1, <2>3, MaxSqIsNat
  <2> QED BY <2>1, <2>2, <2>3, <2>4 DEF VoxelIsSound, VoxelType, CellOrNone
<1>8. /\ FieldVoxels'
      /\ \A c \in Cells \ ToSet(taking) : voxels'[c] = voxels[c]
  <2>1. \A c \in ToSet(taking) : VoxelIsSound(new[c], c) BY <1>7
  <2>2. voxels' = [c \in Cells |-> IF c \in ToSet(taking) THEN new[c] ELSE voxels[c]] BY <1>1
  <2>3. ToSet(taking) \in SUBSET Cells BY <1>5, <1>6
  <2> HIDE DEF new
  <2> QED BY <1>2, <2>1, <2>2, <2>3, FieldWith
<1>9. FieldTyped'
  <2>1. bucket_queue' \in [0..MaxSq -> Seq(Cells)]
    <3> SUFFICES ASSUME NEW i \in 0..MaxSq PROVE bucket_queue'[i] \in Seq(Cells) BY <1>1
    <3> DEFINE J == {c \in ToSet(taking) : offer(c) = i}
               rest == IF i = drained THEN Tail(bucket_queue[i]) ELSE bucket_queue[i]
    <3>1. J \subseteq Cells BY <1>5, <1>6
    <3>2. bucket_queue'[i] = rest \o Selected(taking, J) BY <1>1
    <3>3. rest \in Seq(Cells) BY <1>1, <1>3
    <3> HIDE DEF J, rest
    <3>4. Selected(taking, J) \in Seq(J) BY <1>6, SelectionOfSeq
    <3>5. \A t \in Seq(J) : t \in Seq(Cells) BY <3>1
    <3>6. Selected(taking, J) \in Seq(Cells) BY <3>4, <3>5
    <3> QED BY <3>2, <3>3, <3>6
  <2> QED BY <1>1, <1>2, <2>1 DEF FieldTyped
<1>10. GivenIsThere'
  <2> SUFFICES ASSUME NEW c \in Kept \ adding PROVE voxels'[c].dist = 0
    BY <1>1 DEF GivenIsThere, Kept
  <2>1. c \in Cells /\ voxels[c].dist = 0 BY <1>2 DEF FieldTyped, GivenIsThere, Kept
  <2>2. c \notin ToSet(taking)
    <3> SUFFICES ASSUME c \in ToSet(taking) PROVE FALSE OBVIOUS
    <3>1. voxels[from].closest \in Cells /\ offer(c) < 0 BY <1>5, <1>6, <2>1
    <3>2. offer(c) \in Nat BY <2>1, <3>1, DistancesAre
    <3> QED BY <3>1, <3>2
  <2> QED BY <1>8, <2>1, <2>2
<1> QED BY <1>8, <1>9, <1>10 DEF FieldInv

LEMMA PropogateEndsStep == ASSUME FieldInv, PropogateEnds PROVE FieldInv'
<1>1. FieldVoxels /\ FieldTyped /\ GivenIsThere BY DEF FieldInv
<1>2. adding' = {} /\ UNCHANGED <<object_voxel_locations, stack, given, gone, made, before>>
  BY DEF PropogateEnds
<1>3. CASE adding = {}
  <2>1. drained' = None /\ doing' = "idle" /\ UNCHANGED <<voxels, bucket_queue>>
    BY <1>3 DEF PropogateEnds
  <2>2. FieldVoxels' BY <1>1, <2>1 DEF FieldVoxels, VoxelIsSound
  <2> QED BY <1>1, <1>2, <1>3, <2>1, <2>2 DEF FieldInv, FieldTyped, GivenIsThere, Kept
<1>4. CASE adding # {}
  <2>1. AddNewObstacleVoxels(voxels, bucket_queue, adding) BY <1>4 DEF PropogateEnds
  <2>2. adding \in SUBSET Cells BY <1>1 DEF FieldTyped
  <2>3. /\ FieldVoxels'
        /\ bucket_queue' \in [0..MaxSq -> Seq(Cells)]
        /\ drained' \in 0..MaxSq /\ doing' = "propogate"
        /\ \A c \in adding : voxels'[c].dist = 0
        /\ \A c \in Cells \ adding : voxels'[c] = voxels[c]
    BY <1>1, <2>1, <2>2, AddNewStep DEF FieldVoxels
  <2>4. FieldTyped' BY <1>1, <1>2, <2>3 DEF FieldTyped
  <2>5. GivenIsThere' BY <1>1, <1>2, <2>3 DEF FieldTyped, GivenIsThere, Kept
  <2> QED BY <2>3, <2>4, <2>5 DEF FieldInv
<1> QED BY <1>3, <1>4

LEMMA FieldStays ==
    ASSUME FieldInv, UNCHANGED <<voxels, object_voxel_locations, bucket_queue, stack, adding, given, gone, made, before>>,
           \/ doing' = "propogate" /\ drained' \in 0..MaxSq
           \/ doing' = doing /\ drained' = drained
    PROVE  FieldInv'
<1>1. FieldVoxels' BY DEF FieldInv, FieldVoxels, VoxelIsSound
<1>2. FieldTyped' BY DEF FieldInv, FieldTyped
<1>3. GivenIsThere' BY DEF FieldInv, GivenIsThere, Kept
<1> QED BY <1>1, <1>2, <1>3 DEF FieldInv

LEMMA FieldInvStep == FieldInv /\ [FieldNext]_fieldVars => FieldInv'
<1> SUFFICES ASSUME FieldInv, [FieldNext]_fieldVars PROVE FieldInv' OBVIOUS
<1>1. CASE ResetField BY <1>1, ResetStep
<1>2. CASE \E P \in PointSets : AddPointsToField(P) BY <1>2, AddPointsStep
<1>3. CASE \E P \in PointSets : UpdateIteratively(P) BY <1>3, UpdateIterativelyStep
<1>4. CASE \E P \in PointSets : UpdateFromScratch(P) BY <1>4, UpdateFromScratchStep
<1>5. CASE RemoveObstacleVoxels BY <1>5, RemoveStep
<1>6. CASE RemovalPropogates
  <2>1. drained' \in 0..MaxSq BY <1>6, MaxSqIsNat DEF RemovalPropogates
  <2> QED BY <1>6, <2>1, FieldStays DEF RemovalPropogates
<1>7. CASE Propogate BY <1>7, PropogateStep
<1>8. CASE NextBucket
  <2>1. drained \in 0..MaxSq BY <1>8 DEF FieldInv, FieldTyped, NextBucket
  <2>2. drained' \in 0..MaxSq BY <1>8, <2>1, MaxSqIsNat DEF NextBucket
  <2> QED BY <1>8, <2>2, FieldStays DEF NextBucket
<1>9. CASE PropogateEnds BY <1>9, PropogateEndsStep
<1>10. CASE UNCHANGED fieldVars BY <1>10, FieldStays DEF fieldVars
<1> QED BY <1>1, <1>2, <1>3, <1>4, <1>5, <1>6, <1>7, <1>8, <1>9, <1>10 DEF FieldNext, Step

LEMMA FieldInvHolds == FieldSpec => []FieldInv
<1> QED BY FieldInvStarts, FieldInvStep, PTL DEF FieldSpec

\* Every voxel, bucket and list of the field keeps its type, and a bucket is there for
\* every distance that is offered.
THEOREM FieldTypeCorrect == FieldSpec => []FieldTypeOK
<1>1. FieldInv => FieldTypeOK BY InvIsBoth
<1> QED BY <1>1, FieldInvHolds, PTL

\* A distance below the largest is always the one to the voxel's closest point, whatever
\* was added, removed or reset.
THEOREM DistancesAreMeasured == FieldSpec => []DistanceIsMeasured
<1>1. FieldInv => DistanceIsMeasured BY InvIsBoth
<1> QED BY <1>1, FieldInvHolds, PTL

\* Whatever the client does, resets included: an obstacle it gave is there when a call returns,
\* unless a reset or an update took that obstacle away before and no update from scratch
\* brought it back.
THEOREM NoObstacleIsLost == FieldSpec => []ObstaclesAreThere
<1>1. FieldInv => ObstaclesAreThere BY InvIsBoth
<1> QED BY <1>1, FieldInvHolds, PTL

=============================================================================
