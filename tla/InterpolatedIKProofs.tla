------------------------- MODULE InterpolatedIKProofs -------------------------
(***************************************************************************)
(* Proofs about InterpolatedIK for any arm, parameters and worlds: what    *)
(* the codes of an answer say of its points is true, and the part of the   *)
(* path that is timed can be driven within the limits.                     *)
(***************************************************************************)
EXTENDS InterpolatedIK, WellFoundedInduction, TLAPS

-----------------------------------------------------------------------------
(* Induction, and the ends of sets of numbers *)

LEMMA InductionOverNat ==
    ASSUME NEW G, 0 \in G, \A n \in Nat : n \in G => n + 1 \in G
    PROVE  Nat \subseteq G
<1> SUFFICES ASSUME Nat \ G # {} PROVE FALSE OBVIOUS
<1> DEFINE R == {p \in Nat \X Nat : p[1] < p[2]}
<1>1. IsWellFoundedOn(R, Nat) BY NatLessThanWellFounded DEF OpToRel
<1>2. PICK n \in Nat \ G : \A m \in Nat \ G : <<m, n>> \notin R
  <2> HIDE DEF R
  <2>1. Nat \ G \subseteq Nat OBVIOUS
  <2> QED BY <1>1, <2>1, WFMin
<1>3. n # 0 /\ n - 1 \in Nat /\ n - 1 < n BY <1>2
<1>4. n - 1 \in G BY <1>2, <1>3
<1>5. (n - 1) + 1 \in G BY <1>3, <1>4
<1> QED BY <1>3, <1>5

LEMMA MinOfNat ==
    ASSUME NEW T \in SUBSET Nat, T # {}
    PROVE  Min(T) \in T /\ \A x \in T : Min(T) <= x
<1> DEFINE R == {p \in Nat \X Nat : p[1] < p[2]}
<1>1. IsWellFoundedOn(R, Nat) BY NatLessThanWellFounded DEF OpToRel
<1>2. PICK n \in T : \A m \in T : <<m, n>> \notin R
  <2> HIDE DEF R
  <2> QED BY <1>1, WFMin
<1>3. \A m \in T : <<m, n>> \in Nat \X Nat /\ ~(m < n) BY <1>2
<1>4. \A m \in T : n <= m
  <2>1. \A m \in Nat : n \in Nat /\ ~(m < n) => n <= m OBVIOUS
  <2> QED BY <1>3, <2>1
<1>5. \E x \in T : \A y \in T : x <= y BY Zenon, <1>4
<1> QED BY <1>5 DEF Min

\* Of numbers below a bound there is a largest.
LEMMA MaxOfBounded ==
    ASSUME NEW T \in SUBSET Int, T # {}, NEW b \in Int, \A x \in T : x <= b
    PROVE  Max(T) \in T /\ \A x \in T : x <= Max(T)
<1> DEFINE below == {b - x : x \in T}
<1>1. below \in SUBSET Nat /\ below # {}
  <2>1. \A x \in T : b - x \in Nat OBVIOUS
  <2> QED BY <2>1
<1>2. PICK x \in T : Min(below) = b - x
  <2>1. Min(below) \in below
    <3> HIDE DEF below
    <3> QED BY <1>1, MinOfNat
  <2> QED BY <2>1
<1>3. ASSUME NEW y \in T PROVE y <= x
  <2>1. b - y \in below OBVIOUS
  <2>2. b - x <= b - y
    <3> HIDE DEF below
    <3> QED BY <1>1, <1>2, <2>1, MinOfNat
  <2> QED BY <2>2
<1>4. \E z \in T : \A y \in T : z >= y BY <1>3
<1> QED BY <1>4 DEF Max

\* The values of finitely many joints have a bound.
LEMMA JointsHaveBound ==
    ASSUME NEW n \in Nat, NEW f \in [1..n -> Int]
    PROVE  \E b \in Int : \A j \in 1..n : f[j] <= b
<1> DEFINE Below(m, b) == \A j \in 1..n : j <= m => f[j] <= b
           G == {m \in Nat : \E b \in Int : Below(m, b)}
<1>1. 0 \in G
  <2>1. Below(0, 0) OBVIOUS
  <2> QED BY <2>1
<1>2. ASSUME NEW m \in Nat, m \in G PROVE m + 1 \in G
  <2>1. PICK b \in Int : Below(m, b) BY <1>2
  <2>2. CASE m + 1 \notin 1..n
    <3>1. Below(m + 1, b) BY <2>1, <2>2
    <3> QED BY <3>1
  <2>3. CASE m + 1 \in 1..n
    <3> DEFINE c == IF f[m + 1] > b THEN f[m + 1] ELSE b
    <3>1. c \in Int /\ f[m + 1] <= c /\ b <= c BY <2>3
    <3> HIDE DEF c
    <3>2. ASSUME NEW j \in 1..n, j <= m + 1 PROVE f[j] <= c
      <4>1. CASE j = m + 1 BY <3>1, <4>1
      <4>2. CASE j # m + 1
        <5>1. f[j] <= b BY <2>1, <3>2, <4>2
        <5>2. f[j] \in Int OBVIOUS
        <5> QED BY <3>1, <5>1, <5>2
      <4> QED BY <4>1, <4>2
    <3>3. Below(m + 1, c) BY <3>2
    <3> QED BY <3>1, <3>3
  <2> QED BY <2>2, <2>3
<1>3. n \in G
  <2> HIDE DEF G
  <2> QED BY <1>1, <1>2, InductionOverNat
<1> QED BY <1>3

-----------------------------------------------------------------------------
(* Times and speeds *)

\* A path through the joint angles.
IsPath(path) == path \in Seq(Angles)

LEMMA PathFacts ==
    ASSUME NEW path, IsPath(path)
    PROVE  /\ Len(path) \in Nat /\ DOMAIN path = 1..Len(path)
           /\ \A i \in 1..Len(path) : path[i] \in Angles /\ DOMAIN path[i] = 1..Joints
           /\ \A i \in 1..Len(path), j \in 1..Joints : path[i][j] \in Int
<1>1. /\ Len(path) \in Nat /\ DOMAIN path = 1..Len(path)
      /\ \A i \in 1..Len(path) : path[i] \in Angles
  BY DEF IsPath
<1> QED BY <1>1 DEF Angles

LEMMA StepIsInt ==
    ASSUME NEW path, IsPath(path), NEW i \in 2..Len(path), NEW j \in 1..Joints
    PROVE  Step(path, i, j) \in Int /\ Size(Step(path, i, j)) \in Nat
<1>1. path[i][j] \in Int /\ path[i - 1][j] \in Int
  <2>1. i \in 1..Len(path) /\ i - 1 \in 1..Len(path) BY PathFacts
  <2> QED BY <2>1, PathFacts
<1> QED BY <1>1 DEF Step, Size

LEMMA SegmentFacts ==
    ASSUME NEW path, IsPath(path), NEW i \in 1..Len(path)
    PROVE  /\ Segment(path, i) \in Nat \ {0}
           /\ i > 1 => \A j \in 1..Joints : Size(Step(path, i, j)) <= Segment(path, i)
<1>1. MinSegment \in Nat \ {0} /\ FirstSegment \in Nat \ {0} BY TimesAssumption
<1>2. CASE i = 1 BY <1>1, <1>2 DEF Segment
<1>3. CASE i # 1
  <2> DEFINE f == [j \in 1..Joints |-> Size(Step(path, i, j))]
             T == {Size(Step(path, i, j)) : j \in DOMAIN path[i]} \cup {MinSegment}
  <2>1. i \in 2..Len(path) BY <1>3, PathFacts
  <2>2. DOMAIN path[i] = 1..Joints BY PathFacts
  <2>3. \A j \in 1..Joints : Size(Step(path, i, j)) \in Nat BY <2>1, StepIsInt
  <2>4. f \in [1..Joints -> Int] BY <2>3
  <2>5. Joints \in Nat BY ArmAssumption
  <2>6. PICK b \in Int : \A j \in 1..Joints : f[j] <= b
    <3> HIDE DEF f
    <3> QED BY <2>4, <2>5, JointsHaveBound
  <2>7. T \in SUBSET Int /\ T # {} BY <1>1, <2>2, <2>3
  <2> DEFINE c == IF b < MinSegment THEN MinSegment ELSE b
  <2>8. c \in Int /\ b <= c /\ MinSegment <= c BY <1>1
  <2>9. \A x \in T : x <= c
    <3> HIDE DEF c
    <3>1. \A j \in 1..Joints : Size(Step(path, i, j)) <= b BY <2>6
    <3>2. \A j \in 1..Joints : Size(Step(path, i, j)) <= c
      BY <2>3, <2>8, <3>1
    <3> QED BY <2>2, <2>8, <3>2
  <2>10. Segment(path, i) = Max(T) BY <1>3 DEF Segment
  <2>11. Max(T) \in T /\ \A x \in T : x <= Max(T)
    <3> HIDE DEF T, c
    <3> QED BY <2>7, <2>8, <2>9, MaxOfBounded
  <2>12. MinSegment \in T /\ \A j \in 1..Joints : Size(Step(path, i, j)) \in T BY <2>2
  <2>13. Max(T) \in Int
    <3> HIDE DEF T
    <3> QED BY <2>7, <2>11
  <2>14. MinSegment <= Max(T) /\ \A j \in 1..Joints : Size(Step(path, i, j)) <= Max(T)
    <3> HIDE DEF T
    <3> QED BY Zenon, <2>11, <2>12
  <2>15. Max(T) \in Nat \ {0}
    <3> HIDE DEF T
    <3> QED BY <1>1, <2>13, <2>14
  <2> HIDE DEF T
  <2> QED BY Zenon, <2>10, <2>14, <2>15
<1> QED BY <1>2, <1>3

LEMMA VelocityIsInt ==
    ASSUME NEW path, IsPath(path), NEW i \in 1..Len(path), NEW j \in 1..Joints
    PROVE  Velocity(path, i, j) \in Int
<1>1. ASSUME NEW m \in 2..Len(path) PROVE Rate(path, m, j) \in Int
  <2>1. Step(path, m, j) \in Int BY StepIsInt
  <2>2. Segment(path, m) \in Nat \ {0}
    <3>1. m \in 1..Len(path) BY PathFacts
    <3> QED BY <3>1, SegmentFacts
  <2>3. \A x \in Int, s \in Nat \ {0} : (2 * x) \div s \in Int OBVIOUS
  <2> QED BY <2>1, <2>2, <2>3 DEF Rate
<1>2. CASE i = 1 \/ i = Len(path) BY <1>2 DEF Velocity
<1>3. CASE i # 1 /\ i # Len(path)
  <2>1. i \in 2..Len(path) /\ i + 1 \in 2..Len(path) BY <1>3, PathFacts
  <2>2. Rate(path, i, j) \in Int /\ Rate(path, i + 1, j) \in Int BY <1>1, <2>1
  <2> QED BY <2>2 DEF Velocity
<1> QED BY <1>2, <1>3

\* A segment lasts at least as long as its joints need for the way and for the change of speed.
LEMMA SlowedSegmentFacts ==
    ASSUME NEW path, IsPath(path), NEW i \in 1..Len(path)
    PROVE  /\ SlowedSegment(path, i) \in Nat \ {0}
           /\ i > 1 => \A j \in 1..Joints :
                 /\ Size(Step(path, i, j)) <= SlowedSegment(path, i)
                 /\ Size(Velocity(path, i, j) - Velocity(path, i - 1, j))
                        <= MaxAcceleration * SlowedSegment(path, i)
<1>1. Segment(path, i) \in Nat \ {0} BY SegmentFacts
<1>2. CASE i = 1 BY <1>1, <1>2 DEF SlowedSegment
<1>3. CASE i # 1
  <2> DEFINE change(j) == Size(Velocity(path, i, j) - Velocity(path, i - 1, j))
             slower(j) == (change(j) + MaxAcceleration - 1) \div MaxAcceleration
             f == [j \in 1..Joints |-> slower(j)]
             T == {Segment(path, i)} \cup SlowerFor(path, i)
  <2>1. i \in 2..Len(path) /\ i - 1 \in 1..Len(path) BY <1>3, PathFacts
  <2>2. MaxAcceleration \in Nat \ {0} BY TimesAssumption
  <2>3. \A j \in 1..Joints : change(j) \in Nat
    <3>1. \A j \in 1..Joints : Velocity(path, i, j) \in Int /\ Velocity(path, i - 1, j) \in Int
      BY <2>1, VelocityIsInt
    <3> QED BY <3>1 DEF Size
  <2>4. \A j \in 1..Joints : slower(j) \in Nat /\ change(j) <= MaxAcceleration * slower(j)
    <3>1. \A a, M \in Nat : M > 0 => (a + M - 1) \div M \in Nat OBVIOUS
    <3>2. \A a, M \in Nat : M > 0 => a <= M * ((a + M - 1) \div M) OBVIOUS
    <3> HIDE DEF change
    <3> TAKE j \in 1..Joints
    <3>3. change(j) \in Nat BY <2>3
    <3> QED BY <2>2, <3>1, <3>2, <3>3
  <2>5. SlowerFor(path, i) = {slower(j) : j \in 1..Joints} BY PathFacts DEF SlowerFor
  <2>6. Joints \in Nat BY ArmAssumption
  <2> HIDE DEF change, slower
  <2>7. f \in [1..Joints -> Int] BY <2>4
  <2>8. PICK b \in Int : \A j \in 1..Joints : f[j] <= b
    <3> HIDE DEF f
    <3> QED BY <2>6, <2>7, JointsHaveBound
  <2>9. T \in SUBSET Int /\ T # {} BY <1>1, <2>4, <2>5
  <2> DEFINE c == IF b < Segment(path, i) THEN Segment(path, i) ELSE b
  <2>10. c \in Int /\ b <= c /\ Segment(path, i) <= c BY <1>1
  <2>11. \A x \in T : x <= c
    <3> HIDE DEF c
    <3>1. \A j \in 1..Joints : slower(j) <= b BY <2>8
    <3>2. \A j \in 1..Joints : slower(j) <= c BY <2>4, <2>10, <3>1
    <3> QED BY <2>5, <2>10, <3>2
  <2>12. SlowedSegment(path, i) = Max(T) BY <1>3 DEF SlowedSegment
  <2>13. Max(T) \in T /\ \A x \in T : x <= Max(T)
    <3> HIDE DEF T, c
    <3> QED BY <2>9, <2>10, <2>11, MaxOfBounded
  <2>14. Segment(path, i) \in T /\ \A j \in 1..Joints : slower(j) \in T BY <2>5
  <2>15. Max(T) \in Int
    <3> HIDE DEF T
    <3> QED BY <2>9, <2>13
  <2> HIDE DEF T
  <2>16. Segment(path, i) <= Max(T) /\ Max(T) \in Nat \ {0} BY <1>1, <2>13, <2>14, <2>15
  <2>17. ASSUME NEW j \in 1..Joints
         PROVE  /\ Size(Step(path, i, j)) <= Max(T)
                /\ change(j) <= MaxAcceleration * Max(T)
    <3>1. Size(Step(path, i, j)) <= Segment(path, i) /\ Size(Step(path, i, j)) \in Nat
      BY <2>1, SegmentFacts, StepIsInt, PathFacts
    <3>2. slower(j) <= Max(T) /\ slower(j) \in Nat BY <2>4, <2>13, <2>14
    <3>3. \A M, x, y \in Nat : x <= y => M * x <= M * y /\ M * x \in Nat /\ M * y \in Nat OBVIOUS
    <3>4. MaxAcceleration * slower(j) <= MaxAcceleration * Max(T) BY <2>2, <2>16, <3>2, <3>3
    <3>5. change(j) <= MaxAcceleration * slower(j) /\ change(j) \in Nat BY <2>3, <2>4
    <3>6. Max(T) \in Nat /\ MaxAcceleration * slower(j) \in Nat /\ MaxAcceleration * Max(T) \in Nat
      BY <2>2, <2>16, <3>2, <3>3
    <3>7. \A x, y, z \in Nat : x <= y /\ y <= z => x <= z OBVIOUS
    <3>8. Segment(path, i) \in Nat BY <1>1
    <3>9. change(j) <= MaxAcceleration * Max(T) BY <3>4, <3>5, <3>6, <3>7
    <3> QED BY <2>16, <3>1, <3>6, <3>7, <3>8, <3>9
  <2> QED BY <2>12, <2>16, <2>17 DEF change
<1> QED BY <1>2, <1>3

\* The recursion has a solution, so a time is its segment's after the time before.
LEMMA TimesAddUp ==
    ASSUME NEW path, IsPath(path)
    PROVE  /\ Times(path) = [i \in 1..Len(path) |-> Times(path)[i]]
           /\ \A i \in 1..Len(path) :
                 Times(path)[i] = SlowedSegment(path, i) + (IF i = 1 THEN 0 ELSE Times(path)[i - 1])
<1> DEFINE n == Len(path)
           IsTime(t, m) == t = [i \in 1..m |-> SlowedSegment(path, i) + (IF i = 1 THEN 0 ELSE t[i - 1])]
           G == {m \in Nat : \E t : IsTime(t, m)}
<1>1. n \in Nat /\ DOMAIN path = 1..n BY PathFacts
<1>2. Times(path) = CHOOSE t : IsTime(t, n) BY <1>1 DEF Times
<1> HIDE DEF n
<1>3. 0 \in G
  <2>1. IsTime(<< >>, 0) OBVIOUS
  <2> QED BY Zenon, <2>1
<1>4. ASSUME NEW m \in Nat, m \in G PROVE m + 1 \in G
  <2>1. PICK t : IsTime(t, m) BY <1>4
  <2> DEFINE u == [i \in 1..m + 1 |-> SlowedSegment(path, i) + (IF i = 1 THEN 0 ELSE t[i - 1])]
  <2>2. \A i \in 1..m : u[i] = t[i]
    <3> TAKE i \in 1..m
    <3>1. i \in 1..m + 1 OBVIOUS
    <3>2. t[i] = SlowedSegment(path, i) + (IF i = 1 THEN 0 ELSE t[i - 1]) BY <2>1
    <3> QED BY <3>1, <3>2
  <2>3. \A i \in 1..m + 1 : i # 1 => u[i - 1] = t[i - 1]
    <3> HIDE DEF u
    <3> QED BY <2>2
  <2>4. u = [i \in 1..m + 1 |-> SlowedSegment(path, i) + (IF i = 1 THEN 0 ELSE u[i - 1])]
    <3> DEFINE v == [i \in 1..m + 1 |-> SlowedSegment(path, i) + (IF i = 1 THEN 0 ELSE u[i - 1])]
    <3>1. DOMAIN u = 1..m + 1 /\ \A i \in 1..m + 1 : u[i] = v[i]
      <4>1. \A i \in 1..m + 1 : v[i] = SlowedSegment(path, i) + (IF i = 1 THEN 0 ELSE u[i - 1]) OBVIOUS
      <4>2. \A i \in 1..m + 1 : u[i] = SlowedSegment(path, i) + (IF i = 1 THEN 0 ELSE t[i - 1]) OBVIOUS
      <4>3. DOMAIN u = 1..m + 1 OBVIOUS
      <4> HIDE DEF u, v
      <4> QED BY <2>3, <4>1, <4>2, <4>3
    <3>2. u = [i \in 1..m + 1 |-> u[i]] OBVIOUS
    <3>3. v = [i \in 1..m + 1 |-> v[i]] OBVIOUS
    <3>4. u = v
      <4> HIDE DEF u, v
      <4> QED BY <3>1, <3>2, <3>3
    <3> QED BY <3>4
  <2>5. IsTime(u, m + 1) BY <2>4
  <2>6. m + 1 \in Nat OBVIOUS
  <2> HIDE DEF u
  <2> QED BY Zenon, <2>5, <2>6
<1>5. n \in G
  <2> HIDE DEF G
  <2> QED BY <1>1, <1>3, <1>4, InductionOverNat
<1>6. IsTime(Times(path), n)
  <2>1. \E t : IsTime(t, n) BY <1>5
  <2> HIDE DEF IsTime
  <2> QED BY <1>2, <2>1
<1> HIDE DEF G
<1> DEFINE t == Times(path)
<1>7. t = [i \in 1..n |-> SlowedSegment(path, i) + (IF i = 1 THEN 0 ELSE t[i - 1])] BY <1>6
<1> HIDE DEF t
<1>8. t = [i \in 1..n |-> t[i]] BY <1>7
<1>9. \A i \in 1..n : t[i] = SlowedSegment(path, i) + (IF i = 1 THEN 0 ELSE t[i - 1]) BY <1>7
<1> QED BY <1>8, <1>9 DEF n, t

LEMMA TimesArePositive ==
    ASSUME NEW path, IsPath(path)
    PROVE  \A i \in 1..Len(path) : Times(path)[i] \in Nat \ {0}
<1> DEFINE n == Len(path)
           t == Times(path)
           G == {m \in Nat : m \in 1..n => t[m] \in Nat \ {0}}
<1>1. \A i \in 1..n : t[i] = SlowedSegment(path, i) + (IF i = 1 THEN 0 ELSE t[i - 1]) BY TimesAddUp
<1>2. \A i \in 1..n : SlowedSegment(path, i) \in Nat \ {0} BY SlowedSegmentFacts
<1>3. n \in Nat BY PathFacts
<1> HIDE DEF n, t
<1>4. 0 \in G OBVIOUS
<1>5. ASSUME NEW m \in Nat, m \in G PROVE m + 1 \in G
  <2> SUFFICES ASSUME m + 1 \in 1..n PROVE t[m + 1] \in Nat \ {0} OBVIOUS
  <2>1. CASE m = 0 BY <1>1, <1>2, <2>1
  <2>2. CASE m # 0
    <3>1. m \in 1..n BY <1>3, <2>2
    <3>2. t[m] \in Nat \ {0} BY <1>5, <3>1
    <3>3. t[m + 1] = SlowedSegment(path, m + 1) + t[m]
      <4>1. (m + 1) - 1 = m /\ m + 1 # 1 BY <2>2
      <4> QED BY <1>1, <4>1
    <3> QED BY <1>2, <3>2, <3>3
  <2> QED BY <2>1, <2>2
<1>6. Nat \subseteq G
  <2> HIDE DEF G
  <2> QED BY <1>4, <1>5, InductionOverNat
<1>7. \A i \in 1..n : t[i] \in Nat \ {0} BY <1>6
<1> QED BY <1>7 DEF n, t

\* A path can be driven as it is timed.
LEMMA TimedIsWithinLimits ==
    ASSUME NEW path, IsPath(path), NEW i \in 1..Len(path) - 1, NEW j \in 1..Joints
    PROVE  LET dt == Times(path)[i + 1] - Times(path)[i] IN
           /\ Size(path[i + 1][j] - path[i][j]) <= dt
           /\ Size(Velocity(path, i + 1, j) - Velocity(path, i, j)) <= MaxAcceleration * dt
<1>1. i \in 1..Len(path) /\ i + 1 \in 1..Len(path) /\ i + 1 > 1 /\ (i + 1) - 1 = i BY PathFacts
<1>2. Times(path)[i + 1] = SlowedSegment(path, i + 1) + Times(path)[i]
  <2>1. Times(path)[i + 1] = SlowedSegment(path, i + 1) + (IF i + 1 = 1 THEN 0 ELSE Times(path)[(i + 1) - 1])
    BY <1>1, TimesAddUp
  <2> QED BY <1>1, <2>1
<1>3. SlowedSegment(path, i + 1) \in Nat /\ Times(path)[i] \in Nat
  BY <1>1, SlowedSegmentFacts, TimesArePositive
<1>4. Times(path)[i + 1] - Times(path)[i] = SlowedSegment(path, i + 1) BY <1>2, <1>3
<1>5. /\ Size(Step(path, i + 1, j)) <= SlowedSegment(path, i + 1)
      /\ Size(Velocity(path, i + 1, j) - Velocity(path, (i + 1) - 1, j))
             <= MaxAcceleration * SlowedSegment(path, i + 1)
  BY <1>1, SlowedSegmentFacts
<1>6. Step(path, i + 1, j) = path[i + 1][j] - path[i][j] BY <1>1 DEF Step
<1> QED BY <1>1, <1>4, <1>5, <1>6

-----------------------------------------------------------------------------
(* The poses and the loop over them *)

LEMMA ZerosAreAngles == Zeros \in Angles
BY DEF Zeros, Angles

\* Two steps at least, unless there is no way to count them.
LEMMA CountIsPlural ==
    ASSUME NEW p \in ParameterType, ~Insane(p)
    PROVE  Sane(p) \in ParameterType /\ Count(Sane(p)) \in Nat \ {0, 1}
           /\ Sane(p).collision_check_resolution \in Nat \ {0}
<1>1. /\ p.num_steps \in Int /\ p.pos_spacing \in Int /\ p.collision_check_resolution \in Int
      /\ p.num_steps = 0 => p.pos_spacing > 0
  BY DEF ParameterType, Insane
<1>2. /\ Sane(p) \in ParameterType /\ Sane(p).pos_spacing = p.pos_spacing
      /\ Sane(p).num_steps = IF p.num_steps # 0 /\ p.num_steps < 2 THEN 2 ELSE p.num_steps
      /\ Sane(p).collision_check_resolution =
            IF p.collision_check_resolution < 1 THEN 1 ELSE p.collision_check_resolution
  <2> DEFINE a == IF p.num_steps # 0 /\ p.num_steps < 2 THEN 2 ELSE p.num_steps
             b == IF p.collision_check_resolution < 1 THEN 1 ELSE p.collision_check_resolution
  <2>1. Sane(p) = [p EXCEPT !.num_steps = a, !.collision_check_resolution = b] BY DEF Sane
  <2>2. a \in Int /\ b \in Int BY <1>1
  <2> HIDE DEF a, b
  <2>3. /\ Sane(p) \in ParameterType /\ Sane(p).pos_spacing = p.pos_spacing
        /\ Sane(p).num_steps = a /\ Sane(p).collision_check_resolution = b
    BY <2>1, <2>2 DEF ParameterType
  <2> QED BY <2>3 DEF a, b
<1>3. \A d, s \in Nat : s > 0 => d \div s \in Nat OBVIOUS
<1>4. Distance \in Nat BY ArmAssumption
<1> QED BY <1>1, <1>2, <1>3, <1>4 DEF Count

LEMMA PosesAreOnTheLine ==
    ASSUME NEW p \in ParameterType, ~Insane(p)
    PROVE  interpolate_cartesian(Sane(p)) \in Seq(0..Distance)
<1> DEFINE n == Count(Sane(p))
<1>1. n \in Nat \ {0, 1} BY CountIsPlural
<1>2. Distance \in Nat BY ArmAssumption
<1> HIDE DEF n
<1>3. \A D, a, m \in Nat : a <= m /\ m > 0 => (D * a) \div m \in 0..D OBVIOUS
<1>4. ASSUME NEW i \in 1..n PROVE (Distance * (i - 1)) \div (n - 1) \in 0..Distance
  <2>1. i - 1 \in Nat /\ n - 1 \in Nat /\ i - 1 <= n - 1 /\ n - 1 > 0 BY <1>1
  <2> QED BY <1>2, <1>3, <2>1
<1>5. interpolate_cartesian(Sane(p)) = [i \in 1..n |-> (Distance * (i - 1)) \div (n - 1)]
  BY DEF interpolate_cartesian, n
<1>6. \A S : \A f \in [1..n -> S] : f \in Seq(S) BY <1>1
<1>7. interpolate_cartesian(Sane(p)) \in [1..n -> 0..Distance] BY <1>4, <1>5
<1> QED BY <1>6, <1>7

LEMMA ReverseFacts ==
    ASSUME NEW S, NEW s \in Seq(S)
    PROVE  /\ Reverse(s) \in Seq(S) /\ Len(Reverse(s)) = Len(s)
           /\ \A i \in 1..Len(s) : Reverse(s)[i] = s[Len(s) - i + 1]
<1>1. Len(s) \in Nat /\ s \in [1..Len(s) -> S] OBVIOUS
<1>2. Reverse(s) = [i \in 1..Len(s) |-> s[(Len(s) - i) + 1]] BY DEF Reverse
<1>3. \A i \in 1..Len(s) : (Len(s) - i) + 1 \in 1..Len(s) BY <1>1
<1>4. Reverse(s) \in [1..Len(s) -> S] BY <1>1, <1>2, <1>3
<1>5. \A n \in Nat : \A f \in [1..n -> S] : f \in Seq(S) /\ Len(f) = n OBVIOUS
<1> QED BY <1>1, <1>2, <1>4, <1>5

\* What the loop relies on.
Searching ==
    /\ parameters \in Parameters /\ world \in Worlds /\ args \in ParameterType
    /\ pc \in {"idle", "checking", "checked"}
    /\ trajectory \in Seq(Angles) /\ error_codes \in Seq(Good..Unchecked) /\ steps \in Seq(0..Distance)
    /\ Len(trajectory) = Len(error_codes) /\ Len(trajectory) <= Len(steps)
    /\ pc = "idle" => trajectory = << >> /\ error_codes = << >> /\ steps = << >>
    /\ pc = "checking" => Len(trajectory) < Len(steps) /\ args.collision_check_resolution \in Nat \ {0}
    /\ pc = "checked" => Len(trajectory) = Len(steps)

LEMMA JoinedFacts ==
    ASSUME NEW S, NEW s \in Seq(S), NEW t \in Seq(S), NEW x \in S,
           NEW joined, joined = Append(s, x) \o t
    PROVE  /\ joined \in Seq(S) /\ Len(joined) = Len(s) + 1 + Len(t)
           /\ \A i \in 1..Len(s) : joined[i] = s[i]
           /\ joined[Len(s) + 1] = x
           /\ \A i \in Len(s) + 2..Len(s) + 1 + Len(t) : joined[i] = t[i - Len(s) - 1]
OBVIOUS

\* What Add does: the step's solution and code, and Unchecked for the rest if it is the last.
LEMMA AddFacts ==
    ASSUME Searching, pc = "checking", NEW solution \in Angles, NEW code \in Good..OutOfReach,
           Add(solution, code)
    PROVE  LET n == Len(trajectory) IN
           /\ Searching' /\ UNCHANGED <<parameters, world, args, steps, answer>>
           /\ Len(error_codes') > n
           /\ \A i \in 1..n : trajectory'[i] = trajectory[i] /\ error_codes'[i] = error_codes[i]
           /\ trajectory'[n + 1] = solution /\ error_codes'[n + 1] = code
           /\ \A i \in n + 2..Len(error_codes') : error_codes'[i] = Unchecked
<1> DEFINE n == Len(trajectory)
           rest == IF Aborts(code) THEN Len(steps) - k ELSE 0
           zeros == [i \in 1..rest |-> Zeros]
           unchecked == [i \in 1..rest |-> Unchecked]
<1>1. /\ trajectory' = Append(trajectory, solution) \o zeros
      /\ error_codes' = Append(error_codes, code) \o unchecked
      /\ pc' = IF Len(trajectory') = Len(steps) THEN "checked" ELSE pc
      /\ UNCHANGED <<parameters, world, args, steps, answer>>
  BY DEF Add
<1>2. n \in Nat /\ Len(steps) \in Nat /\ n < Len(steps) /\ Len(error_codes) = n BY DEF Searching
<1>3. rest \in Nat /\ n + 1 + rest <= Len(steps)
  <2>1. k = n + 1 BY DEF k
  <2>2. rest = Len(steps) - k \/ rest = 0 OBVIOUS
  <2> HIDE DEF n, rest
  <2> QED BY <1>2, <2>1, <2>2
<1>4. Good..OutOfReach \subseteq Good..Unchecked /\ Unchecked \in Good..Unchecked
  BY DEF Good, OutOfReach, Unchecked
<1> HIDE DEF rest
<1>5. zeros \in Seq(Angles) /\ Len(zeros) = rest
  <2>1. zeros \in [1..rest -> Angles] BY ZerosAreAngles
  <2>2. \A f \in [1..rest -> Angles] : f \in Seq(Angles) /\ Len(f) = rest BY <1>3
  <2> QED BY <2>1, <2>2
<1>6. unchecked \in Seq(Good..Unchecked) /\ Len(unchecked) = rest
  <2>1. unchecked \in [1..rest -> Good..Unchecked] BY <1>4
  <2>2. \A S : \A f \in [1..rest -> S] : f \in Seq(S) /\ Len(f) = rest BY <1>3
  <2> QED BY <2>1, <2>2
<1>7. \A i \in 1..rest : unchecked[i] = Unchecked OBVIOUS
<1> HIDE DEF zeros, unchecked
<1>9. /\ trajectory' \in Seq(Angles) /\ Len(trajectory') = n + 1 + rest
      /\ \A i \in 1..n : trajectory'[i] = trajectory[i]
      /\ trajectory'[n + 1] = solution
  <2>1. trajectory \in Seq(Angles) /\ zeros \in Seq(Angles) BY <1>5 DEF Searching
  <2>2. trajectory' = Append(trajectory, solution) \o zeros BY <1>1
  <2> DEFINE m == Len(trajectory)
  <2>3. trajectory' \in Seq(Angles) BY <2>1, <2>2, JoinedFacts
  <2>4. Len(trajectory') = m + 1 + Len(zeros) BY <2>1, <2>2, JoinedFacts
  <2>5. \A i \in 1..m : trajectory'[i] = trajectory[i] BY <2>1, <2>2, JoinedFacts
  <2>6. trajectory'[m + 1] = solution BY <2>1, <2>2, JoinedFacts
  <2> QED BY <1>5, <2>3, <2>4, <2>5, <2>6
<1>10. /\ error_codes' \in Seq(Good..Unchecked) /\ Len(error_codes') = n + 1 + rest
       /\ \A i \in 1..n : error_codes'[i] = error_codes[i]
       /\ error_codes'[n + 1] = code
       /\ \A i \in n + 2..n + 1 + rest : error_codes'[i] = unchecked[i - n - 1]
  <2>1. code \in Good..Unchecked /\ error_codes \in Seq(Good..Unchecked) BY <1>4 DEF Searching
  <2>2. error_codes' = Append(error_codes, code) \o unchecked BY <1>1
  <2>3. unchecked \in Seq(Good..Unchecked) BY <1>6
  <2> DEFINE m == Len(error_codes)
             Codes == Good..Unchecked
  <2>4. Codes = Good..Unchecked OBVIOUS
  <2>5. code \in Codes /\ error_codes \in Seq(Codes) /\ unchecked \in Seq(Codes) BY <2>1, <2>3
  <2> HIDE DEF Codes
  <2>6. error_codes' \in Seq(Codes) BY <2>2, <2>5, JoinedFacts
  <2>7. Len(error_codes') = m + 1 + Len(unchecked) BY <2>2, <2>5, JoinedFacts
  <2>8. \A i \in 1..m : error_codes'[i] = error_codes[i] BY <2>2, <2>5, JoinedFacts
  <2>9. error_codes'[m + 1] = code BY <2>2, <2>5, JoinedFacts
  <2>10. \A i \in m + 2..m + 1 + Len(unchecked) : error_codes'[i] = unchecked[i - m - 1]
    BY <2>2, <2>5, JoinedFacts
  <2> QED BY <1>2, <1>6, <2>4, <2>6, <2>7, <2>8, <2>9, <2>10
<1>11. \A i \in n + 2..n + 1 + rest : error_codes'[i] = Unchecked
  <2>1. \A i \in n + 2..n + 1 + rest : i - n - 1 \in 1..rest BY <1>2, <1>3
  <2> QED BY <1>7, <1>10, <2>1
<1>12. Searching'
  <2>1. /\ parameters' \in Parameters /\ world' \in Worlds /\ args' \in ParameterType
        /\ steps' \in Seq(0..Distance)
        /\ args'.collision_check_resolution \in Nat \ {0}
    BY <1>1 DEF Searching
  <2>2. pc' \in {"checking", "checked"} /\ (pc' = "checked" <=> Len(trajectory') = Len(steps)) BY <1>1
  <2>3. Len(trajectory') <= Len(steps') /\ Len(trajectory') = Len(error_codes') BY <1>1, <1>3, <1>9, <1>10
  <2>4. steps' = steps /\ Len(trajectory') \in Nat BY <1>1, <1>2, <1>3, <1>9
  <2> QED BY <1>2, <1>9, <1>10, <2>1, <2>2, <2>3, <2>4 DEF Searching
<1> QED BY <1>1, <1>2, <1>3, <1>9, <1>10, <1>11, <1>12

-----------------------------------------------------------------------------
(* The answer *)

\* Where the i-th of n was when it was searched.
Searched(n, i) == IF args.start_from_end THEN n - i + 1 ELSE i

LEMMA InOrderFacts ==
    ASSUME NEW S, NEW s \in Seq(S)
    PROVE  /\ InOrder(s) \in Seq(S) /\ Len(InOrder(s)) = Len(s)
           /\ \A i \in 1..Len(s) : InOrder(s)[i] = s[Searched(Len(s), i)]
<1>1. CASE args.start_from_end
  BY <1>1, ReverseFacts DEF InOrder, Searched
<1>2. CASE ~args.start_from_end
  BY <1>2 DEF InOrder, Searched
<1> QED BY <1>1, <1>2

\* The part that is kept when the search is from the end starts behind the last bad code,
\* the first code left aside.
LEMMA StartIndFacts ==
    ASSUME NEW codes, NEW n \in Nat, Len(codes) = n
    PROVE  /\ StartInd(codes) \in 1..n + 1
           /\ ~parameters.start_from_end => StartInd(codes) = 1
           /\ parameters.start_from_end =>
                 /\ \A i \in 2..n : i >= StartInd(codes) => codes[i] = Good
                 /\ StartInd(codes) > 1 => /\ StartInd(codes) - 1 \in 2..n
                                           /\ codes[StartInd(codes) - 1] # Good
<1> DEFINE bad == {m \in 2..n : codes[m] # Good}
           T == {1} \cup {i + 1 : i \in bad}
<1>1. CASE ~parameters.start_from_end BY <1>1 DEF StartInd
<1>2. CASE parameters.start_from_end
  <2>1. StartInd(codes) = Max(T) BY <1>2 DEF StartInd
  <2>2. T \in SUBSET Int /\ T # {} /\ 1 \in T OBVIOUS
  <2>3. \A x \in T : x <= n + 1 /\ (x = 1 \/ (x - 1 \in 2..n /\ codes[x - 1] # Good)) OBVIOUS
  <2>4. \A i \in 2..n : codes[i] # Good => i + 1 \in T OBVIOUS
  <2> HIDE DEF T
  <2>5. Max(T) \in T /\ \A x \in T : x <= Max(T)
    <3>1. n + 1 \in Int OBVIOUS
    <3> QED BY <2>2, <2>3, <3>1, MaxOfBounded
  <2> DEFINE first == Max(T)
  <2>6. first \in Int /\ 1 <= first /\ first <= n + 1 BY <2>2, <2>3, <2>5
  <2>7. first > 1 => first - 1 \in 2..n /\ codes[first - 1] # Good BY <2>3, <2>5
  <2>8. ASSUME NEW i \in 2..n, i >= first PROVE codes[i] = Good
    <3>1. codes[i] # Good => i + 1 <= first BY <2>4, <2>5
    <3> HIDE DEF first
    <3> QED BY <2>6, <2>8, <3>1
  <2> HIDE DEF first
  <2> QED BY <1>2, <2>1, <2>6, <2>7, <2>8 DEF first
<1> QED BY <1>1, <1>2

\* From the start, the part that is kept stops before the first bad code.
LEMMA StopIndFacts ==
    ASSUME NEW codes, NEW n \in Nat, Len(codes) = n, DOMAIN codes = 1..n
    PROVE  /\ StopInd(codes) \in 0..n
           /\ parameters.start_from_end => StopInd(codes) = n
           /\ ~parameters.start_from_end =>
                 /\ \A i \in 1..StopInd(codes) : codes[i] = Good
                 /\ StopInd(codes) < n => codes[StopInd(codes) + 1] # Good
<1> DEFINE bad == {m \in DOMAIN codes : codes[m] # Good}
           T == {n} \cup {i - 1 : i \in bad}
<1>1. CASE parameters.start_from_end BY <1>1 DEF StopInd
<1>2. CASE ~parameters.start_from_end
  <2>1. StopInd(codes) = Min(T) BY <1>2 DEF StopInd
  <2>2. T \in SUBSET Nat /\ T # {} /\ n \in T OBVIOUS
  <2>3. \A x \in T : x = n \/ (x + 1 \in 1..n /\ codes[x + 1] # Good) OBVIOUS
  <2>4. \A i \in 1..n : codes[i] # Good => i - 1 \in T OBVIOUS
  <2> HIDE DEF T
  <2> DEFINE last == Min(T)
  <2>5. last \in T /\ \A x \in T : last <= x BY <2>2, MinOfNat
  <2> HIDE DEF last
  <2>6. last \in Nat /\ last <= n BY <2>2, <2>5
  <2>7. last < n => codes[last + 1] # Good BY <2>3, <2>5, <2>6
  <2>8. ASSUME NEW i \in 1..last PROVE codes[i] = Good
    <3>1. i \in 1..n BY <2>6
    <3>2. codes[i] # Good => last <= i - 1 BY <2>4, <2>5, <3>1
    <3> QED BY <2>6, <3>2
  <2> QED BY <1>2, <2>1, <2>6, <2>7, <2>8 DEF last
<1> QED BY <1>1, <1>2

\* The part that is kept is a path of the answer's points.
LEMMA PartFacts ==
    ASSUME NEW points, IsPath(points), NEW first \in 1..Len(points) + 1, NEW last \in 0..Len(points)
    PROVE  LET part == SubSeq(points, first, last) IN
           /\ IsPath(part) /\ Len(part) = IF first <= last THEN last - first + 1 ELSE 0
           /\ \A i \in first..last : i - first + 1 \in 1..Len(part) /\ part[i - first + 1] = points[i]
<1> DEFINE part == SubSeq(points, first, last)
           n == IF first <= last THEN last - first + 1 ELSE 0
<1>1. Len(points) \in Nat /\ points \in [1..Len(points) -> Angles] BY DEF IsPath
<1>2. part = [i \in 1..n |-> points[first + i - 1]]
  <2>1. CASE first <= last BY <1>1, <2>1 DEF IsPath
  <2>2. CASE ~(first <= last) BY <1>1, <2>2 DEF IsPath
  <2> QED BY <2>1, <2>2
<1>3. n \in Nat /\ \A i \in 1..n : first + i - 1 \in 1..Len(points) BY <1>1
<1>4. \A i \in first..last : i - first + 1 \in 1..n /\ first + (i - first + 1) - 1 = i BY <1>1
<1> HIDE DEF part, n
<1>5. part \in [1..n -> Angles] BY <1>1, <1>2, <1>3
<1>6. \A S : \A f \in [1..n -> S] : f \in Seq(S) /\ Len(f) = n BY <1>3
<1>7. IsPath(part) /\ Len(part) = n BY <1>5, <1>6 DEF IsPath
<1>8. \A i \in first..last : i - first + 1 \in 1..n /\ part[i - first + 1] = points[i] BY <1>2, <1>4
<1> QED BY <1>7, <1>8 DEF part, n

LEMMA VelocitiesFacts ==
    ASSUME NEW path, IsPath(path), NEW i \in 1..Len(path)
    PROVE  /\ Velocities(path)[i] = [j \in 1..Joints |-> Velocity(path, i, j)]
           /\ Velocities(path)[i] \in Angles
           /\ i = 1 \/ i = Len(path) => Velocities(path)[i] = Zeros
<1>1. DOMAIN path = 1..Len(path) /\ DOMAIN path[i] = 1..Joints BY PathFacts
<1>2. Velocities(path)[i] = [j \in 1..Joints |-> Velocity(path, i, j)] BY <1>1 DEF Velocities
<1>3. \A j \in 1..Joints : Velocity(path, i, j) \in Int BY VelocityIsInt
<1>4. i = 1 \/ i = Len(path) => \A j \in 1..Joints : Velocity(path, i, j) = 0 BY DEF Velocity
<1>5. Velocities(path)[i] \in Angles BY <1>2, <1>3 DEF Angles
<1>6. i = 1 \/ i = Len(path) => Velocities(path)[i] = Zeros BY <1>2, <1>4 DEF Zeros
<1> QED BY <1>2, <1>5, <1>6

\* What may be said of an answer: it has the part [first..last] of its points timed.
IsTimed(a, first, last) ==
    LET part == SubSeq(a.points, first, last) IN
    /\ IsPath(a.points) /\ first \in 1..Len(a.points) + 1 /\ last \in 0..Len(a.points)
    /\ \A i \in 1..Len(a.points) :
          /\ a.times[i] = IF i \in first..last THEN Times(part)[i - first + 1] ELSE 0
          /\ a.vels[i] = IF i \in first..last THEN Velocities(part)[i - first + 1] ELSE Zeros
Answered ==
    /\ answer.codes \in Seq(Good..Unchecked) /\ answer.times \in Seq(Nat) /\ answer.vels \in Seq(Angles)
    /\ Len(answer.points) = Len(answer.codes) /\ Len(answer.times) = Len(answer.codes)
    /\ Len(answer.vels) = Len(answer.codes)
    /\ \E first, last \in Int : IsTimed(answer, first, last)

\* The points with a time are those of the part.
LEMMA TimedPart ==
    ASSUME NEW a, NEW first, NEW last, IsTimed(a, first, last)
    PROVE  {i \in 1..Len(a.points) : a.times[i] > 0} = first..last
<1> DEFINE part == SubSeq(a.points, first, last)
           n == Len(a.points)
<1>1. IsPath(a.points) /\ first \in 1..n + 1 /\ last \in 0..n /\ n \in Nat BY PathFacts DEF IsTimed
<1>2. IsPath(part) /\ \A i \in first..last : i - first + 1 \in 1..Len(part) BY <1>1, PartFacts
<1>3. \A i \in 1..n : a.times[i] = IF i \in first..last THEN Times(part)[i - first + 1] ELSE 0
  BY DEF IsTimed
<1> HIDE DEF part, n
<1>4. \A i \in first..last : Times(part)[i - first + 1] \in Nat \ {0} BY <1>2, TimesArePositive
<1>5. \A i \in 1..n : a.times[i] > 0 <=> i \in first..last
  <2> TAKE i \in 1..n
  <2>1. CASE i \in first..last
    <3>1. a.times[i] \in Nat \ {0} BY <1>3, <1>4, <2>1
    <3> QED BY <2>1, <3>1
  <2>2. CASE i \notin first..last
    <3>1. a.times[i] = 0 BY <1>3, <2>2
    <3> QED BY <2>2, <3>1
  <2> QED BY <2>1, <2>2
<1>6. first..last \subseteq 1..n BY <1>1
<1> QED BY <1>5, <1>6 DEF n

LEMMA AnswerIsTimed ==
    ASSUME Searching, Answer
    PROVE  /\ answer'.points = InOrder(trajectory) /\ answer'.codes = InOrder(error_codes)
           /\ DOMAIN answer'.codes = 1..Len(trajectory) /\ Len(answer'.codes) = Len(trajectory)
           /\ answer'.codes \in Seq(Good..Unchecked) /\ IsPath(answer'.points)
           /\ IsTimed(answer', StartInd(answer'.codes), StopInd(answer'.codes))
           /\ Answered'
<1> DEFINE points == InOrder(trajectory)
           codes == InOrder(error_codes)
           first == StartInd(codes)
           last == StopInd(codes)
           part == SubSeq(points, first, last)
           times == Times(part)
           vels == Velocities(part)
           n == Len(trajectory)
           timesOf == [i \in DOMAIN codes |-> IF i \in first..last THEN times[i - first + 1] ELSE 0]
           velsOf == [i \in DOMAIN codes |-> IF i \in first..last THEN vels[i - first + 1] ELSE Zeros]
<1>1. answer' = [points |-> points, codes |-> codes, times |-> timesOf, vels |-> velsOf]
  BY DEF Answer
<1>2. /\ points \in Seq(Angles) /\ codes \in Seq(Good..Unchecked)
      /\ Len(points) = n /\ Len(codes) = n /\ n \in Nat
  <2>1. /\ trajectory \in Seq(Angles) /\ error_codes \in Seq(Good..Unchecked)
        /\ Len(error_codes) = n /\ n \in Nat
    BY DEF Searching
  <2>2. points \in Seq(Angles) /\ Len(points) = n BY <2>1, InOrderFacts
  <2>3. codes \in Seq(Good..Unchecked) /\ Len(codes) = n BY <2>1, InOrderFacts
  <2> QED BY <2>1, <2>2, <2>3
<1> HIDE DEF points, codes, n
<1>3. DOMAIN codes = 1..n BY <1>2
<1>4. first \in 1..n + 1 /\ last \in 0..n BY <1>2, <1>3, StartIndFacts, StopIndFacts
<1> HIDE DEF first, last
<1>5. IsPath(points) BY <1>2 DEF IsPath
<1>6. IsPath(part) /\ \A i \in first..last : i - first + 1 \in 1..Len(part)
  BY <1>2, <1>4, <1>5, PartFacts
<1> HIDE DEF part
<1>7. \A i \in first..last : times[i - first + 1] \in Nat BY <1>6, TimesArePositive
<1>8. \A i \in first..last : vels[i - first + 1] \in Angles BY <1>6, VelocitiesFacts
<1> HIDE DEF times, vels
<1>9. \A S : \A f \in [1..n -> S] : f \in Seq(S) /\ Len(f) = n BY <1>2
<1>10. timesOf \in Seq(Nat) /\ Len(timesOf) = n
  <2>1. timesOf \in [1..n -> Nat] BY <1>3, <1>7
  <2> HIDE DEF timesOf
  <2> QED BY <1>9, <2>1
<1>11. velsOf \in Seq(Angles) /\ Len(velsOf) = n
  <2>1. velsOf \in [1..n -> Angles] BY <1>3, <1>8, ZerosAreAngles
  <2> HIDE DEF velsOf
  <2> QED BY <1>9, <2>1
<1>12. \A i \in 1..n : /\ timesOf[i] = IF i \in first..last THEN times[i - first + 1] ELSE 0
                       /\ velsOf[i] = IF i \in first..last THEN vels[i - first + 1] ELSE Zeros
  BY <1>3
<1> HIDE DEF timesOf, velsOf
<1>13. answer'.points = points /\ answer'.codes = codes /\ answer'.times = timesOf /\ answer'.vels = velsOf
  BY <1>1
<1>14. IsTimed(answer', first, last)
  BY <1>2, <1>4, <1>5, <1>12, <1>13 DEF IsTimed, part, times, vels
<1>15. first \in Int /\ last \in Int BY <1>4
<1>16. Answered' BY <1>2, <1>10, <1>11, <1>13, <1>14, <1>15 DEF Answered
<1> QED BY <1>2, <1>3, <1>5, <1>13, <1>14, <1>16 DEF points, codes, n, first, last

-----------------------------------------------------------------------------
(* Types, and the limits *)

Typed == Searching /\ Answered

LEMMA NoAnswerIsAnswered == (answer = NoAnswer => Answered) /\ (answer' = NoAnswer => Answered')
<1>1. /\ NoAnswer.points = << >> /\ NoAnswer.codes = << >>
      /\ NoAnswer.times = << >> /\ NoAnswer.vels = << >>
  BY DEF NoAnswer
<1>2. \A S : << >> \in Seq(S) OBVIOUS
<1>3. Len(<< >>) = 0 OBVIOUS
<1>4. IsTimed(NoAnswer, 1, 0) BY <1>1, <1>2, <1>3 DEF IsTimed, IsPath
<1>5. \E first, last \in Int : IsTimed(NoAnswer, first, last)
  <2>1. 1 \in Int /\ 0 \in Int OBVIOUS
  <2> QED BY Zenon, <1>4, <2>1
<1>6. /\ NoAnswer.codes \in Seq(Good..Unchecked)
      /\ NoAnswer.times \in Seq(Nat) /\ NoAnswer.vels \in Seq(Angles)
      /\ Len(NoAnswer.points) = Len(NoAnswer.codes) /\ Len(NoAnswer.times) = Len(NoAnswer.codes)
      /\ Len(NoAnswer.vels) = Len(NoAnswer.codes)
  BY <1>1, <1>2
<1> HIDE DEF NoAnswer
<1>7. ASSUME answer = NoAnswer PROVE Answered BY Zenon, <1>5, <1>6, <1>7 DEF Answered
<1>8. ASSUME answer' = NoAnswer PROVE Answered' BY Zenon, <1>5, <1>6, <1>8 DEF Answered
<1> QED BY <1>7, <1>8

\* Angles that reach the step's pose, free or not.
LEMMA PoseFacts ==
    ASSUME Searching, pc = "checking"
    PROVE  Pose.reach \subseteq Angles /\ Pose.free \subseteq Pose.reach
<1>1. k \in 1..Len(steps) BY DEF Searching, k
<1>2. steps[k] \in 0..Distance
  <2>1. \A S : \A s \in Seq(S) : \A i \in 1..Len(s) : s[i] \in S OBVIOUS
  <2>2. steps \in Seq(0..Distance) BY DEF Searching
  <2> HIDE DEF k
  <2> QED BY <1>1, <2>1, <2>2
<1>3. world \in Worlds BY DEF Searching
<1> HIDE DEF k
<1> QED BY <1>2, <1>3, WorldsAssumption DEF Pose

LEMMA CodesAreCodes ==
    /\ Good \in Good..OutOfReach /\ Colliding \in Good..OutOfReach
    /\ Inconsistent \in Good..OutOfReach /\ OutOfReach \in Good..OutOfReach
BY DEF Good, Colliding, Inconsistent, OutOfReach

\* What a step of the loop adds.
LEMMA SearchAdds ==
    ASSUME Searching, NoSolution \/ Solution
    PROVE  pc = "checking" /\ \E solution \in Angles, code \in Good..OutOfReach :
              /\ Add(solution, code)
              /\ code = Good /\ collision_aware_this_step => solution \in Pose.free
              /\ code \in {Good, Colliding} => FollowsOn(solution)
<1>1. CASE NoSolution
  <2>1. OutOfReach \notin {Good, Colliding} BY DEF OutOfReach, Good, Colliding
  <2> QED BY <1>1, <2>1, ZerosAreAngles, CodesAreCodes DEF NoSolution
<1>2. CASE Solution
  <2>1. pc = "checking" BY <1>2 DEF Solution
  <2>2. PICK colliding \in Pose.reach :
           IF ~collision_aware_this_step
           THEN Add(colliding, IF FollowsOn(colliding) THEN Good ELSE Inconsistent)
           ELSE \/ Add(colliding, IF FollowsOn(colliding) THEN Colliding ELSE Inconsistent)
                \/ \E solution \in Pose.free :
                      Add(solution, IF FollowsOn(solution) THEN Good ELSE Inconsistent)
    BY <1>2 DEF Solution
  <2>3. Inconsistent \notin {Good, Colliding} /\ Good # Colliding BY DEF Inconsistent, Good, Colliding
  <2>4. colliding \in Angles BY <2>1, PoseFacts
  <2>5. CASE ~collision_aware_this_step
    <3> DEFINE code == IF FollowsOn(colliding) THEN Good ELSE Inconsistent
    <3>1. code \in Good..OutOfReach /\ Add(colliding, code) BY <2>2, <2>5, CodesAreCodes
    <3>2. code \in {Good, Colliding} => FollowsOn(colliding) BY <2>3
    <3> HIDE DEF code
    <3> QED BY Zenon, <2>1, <2>4, <2>5, <3>1, <3>2
  <2>6. CASE /\ collision_aware_this_step
             /\ Add(colliding, IF FollowsOn(colliding) THEN Colliding ELSE Inconsistent)
    <3> DEFINE code == IF FollowsOn(colliding) THEN Colliding ELSE Inconsistent
    <3>1. code \in Good..OutOfReach /\ Add(colliding, code) BY <2>6, CodesAreCodes
    <3>2. (code \in {Good, Colliding} => FollowsOn(colliding)) /\ code # Good BY <2>3
    <3> HIDE DEF code
    <3> QED BY Zenon, <2>1, <2>4, <3>1, <3>2
  <2>7. ASSUME NEW solution \in Pose.free,
               Add(solution, IF FollowsOn(solution) THEN Good ELSE Inconsistent)
        PROVE  \E s \in Angles, code \in Good..OutOfReach :
                  /\ Add(s, code)
                  /\ code = Good /\ collision_aware_this_step => s \in Pose.free
                  /\ code \in {Good, Colliding} => FollowsOn(s)
    <3> DEFINE code == IF FollowsOn(solution) THEN Good ELSE Inconsistent
    <3>1. code \in Good..OutOfReach /\ Add(solution, code) BY <2>7, CodesAreCodes
    <3>2. code \in {Good, Colliding} => FollowsOn(solution) BY <2>3
    <3>3. solution \in Angles BY <2>1, PoseFacts
    <3> HIDE DEF code
    <3> QED BY Zenon, <2>7, <3>1, <3>2, <3>3
  <2> QED BY <2>1, <2>2, <2>5, <2>6, <2>7
<1> QED BY <1>1, <1>2

LEMMA TypedStep ==
    ASSUME Typed, [Next]_vars
    PROVE  Typed'
<1> USE DEF Typed
<1>1. CASE set_params_callback
  BY <1>1 DEF set_params_callback, Searching, Answered
<1>2. CASE Refuse
  <2>1. Searching' BY <1>2 DEF Refuse, Searching
  <2>2. answer' = NoAnswer BY <1>2 DEF Refuse
  <2>3. Answered' BY <2>2, NoAnswerIsAnswered
  <2> QED BY <2>1, <2>3
<1>3. CASE Call
  <2>1. /\ pc = "idle" /\ world' \in Worlds /\ answer' = NoAnswer
        /\ UNCHANGED <<parameters, trajectory, error_codes>>
    BY <1>3 DEF Call
  <2>2. parameters \in ParameterType BY ParametersAssumption DEF Searching
  <2>3. trajectory = << >> /\ error_codes = << >> BY <2>1 DEF Searching
  <2>4. /\ trajectory' \in Seq(Angles) /\ error_codes' \in Seq(Good..Unchecked)
        /\ Len(trajectory') = 0 /\ Len(error_codes') = 0
    BY <2>1, <2>3
  <2>5. ASSUME Insane(parameters) PROVE Searching'
    <3>1. pc' = "checked" /\ steps' = << >> /\ args' = parameters BY <1>3, <2>5 DEF Call
    <3>2. steps' \in Seq(0..Distance) /\ Len(steps') = 0 BY <3>1
    <3> QED BY <2>1, <2>2, <2>4, <3>1, <3>2 DEF Searching
  <2>6. ASSUME ~Insane(parameters) PROVE Searching'
    <3> DEFINE line == interpolate_cartesian(Sane(parameters))
    <3>1. pc' = "checking" /\ args' = Sane(parameters) /\ steps' \in {line, Reverse(line)}
      BY <1>3, <2>6 DEF Call
    <3>2. line \in Seq(0..Distance) BY <2>2, <2>6, PosesAreOnTheLine
    <3>3. Len(line) = Count(Sane(parameters)) /\ Count(Sane(parameters)) \in Nat \ {0, 1}
      BY <2>2, <2>6, CountIsPlural DEF interpolate_cartesian
    <3>4. /\ args' \in ParameterType /\ args'.collision_check_resolution \in Nat \ {0}
      BY <2>2, <2>6, <3>1, CountIsPlural
    <3> HIDE DEF line
    <3>5. steps' \in Seq(0..Distance) /\ Len(steps') > 0 BY <3>1, <3>2, <3>3, ReverseFacts
    <3> QED BY <2>1, <2>4, <3>1, <3>4, <3>5 DEF Searching
  <2>7. Searching' BY <2>5, <2>6
  <2>8. Answered' BY <2>1, NoAnswerIsAnswered
  <2> QED BY <2>7, <2>8
<1>4. CASE NoSolution \/ Solution
  <2>1. Searching' /\ answer' = answer BY <1>4, SearchAdds, AddFacts
  <2>2. Answered' BY <2>1 DEF Answered
  <2> QED BY <2>1, <2>2
<1>5. CASE Answer
  <2>1. /\ pc' = "idle" /\ steps' = << >> /\ trajectory' = << >> /\ error_codes' = << >>
        /\ UNCHANGED <<parameters, world, args>>
    BY <1>5 DEF Answer
  <2>2. Searching' BY <2>1 DEF Searching
  <2> QED BY <1>5, <2>2, AnswerIsTimed
<1>6. CASE UNCHANGED vars BY <1>6 DEF vars, Searching, Answered
<1> QED BY <1>1, <1>2, <1>3, <1>4, <1>5, <1>6 DEF Next

LEMMA InitIsTyped == Init => Typed
<1> SUFFICES ASSUME Init PROVE Typed OBVIOUS
<1>1. Answered BY NoAnswerIsAnswered DEF Init
<1>2. Searching BY ParametersAssumption DEF Init, Searching
<1> QED BY <1>1, <1>2 DEF Typed

\* The variables keep their types: solutions and codes in step, never more than poses, and
\* an answer with a code, a time and speeds for every point.
THEOREM TypeCorrect == Spec => []TypeOK
<1>1. Typed => TypeOK BY DEF Typed, Searching, Answered, TypeOK
<1> QED BY <1>1, InitIsTyped, TypedStep, PTL DEF Spec

LEMMA AnsweredWithinLimits == Answered => MovesWithinLimits
<1> SUFFICES ASSUME Answered PROVE MovesWithinLimits OBVIOUS
<1> DEFINE timed == {i \in DOMAIN answer.codes : answer.times[i] > 0}
           n == Len(answer.points)
<1>1. PICK first, last \in Int : IsTimed(answer, first, last) BY DEF Answered
<1> DEFINE part == SubSeq(answer.points, first, last)
<1>2. DOMAIN answer.codes = 1..n BY DEF Answered
<1>3. timed = first..last BY <1>1, <1>2, TimedPart
<1>4. IsPath(answer.points) /\ first \in 1..n + 1 /\ last \in 0..n /\ n \in Nat
  BY <1>1, PathFacts DEF IsTimed
<1>5. /\ IsPath(part) /\ Len(part) = IF first <= last THEN last - first + 1 ELSE 0
      /\ \A i \in first..last : i - first + 1 \in 1..Len(part) /\ part[i - first + 1] = answer.points[i]
  BY <1>4, PartFacts
<1>6. \A i \in first..last : /\ answer.times[i] = Times(part)[i - first + 1]
                             /\ answer.vels[i] = Velocities(part)[i - first + 1]
  BY <1>1, <1>4 DEF IsTimed
<1> HIDE DEF timed, part, n
<1>7. ASSUME NEW i \in timed, i - 1 \notin timed \/ i + 1 \notin timed PROVE answer.vels[i] = Zeros
  <2>1. i \in first..last /\ (i = first \/ i = last) BY <1>3, <1>4, <1>7
  <2>2. i - first + 1 = 1 \/ i - first + 1 = Len(part) BY <1>4, <1>5, <2>1
  <2> QED BY <1>5, <1>6, <2>1, <2>2, VelocitiesFacts
<1>8. ASSUME NEW i \in timed, i + 1 \in timed, NEW j \in 1..Joints
      PROVE  LET dt == answer.times[i + 1] - answer.times[i] IN
             /\ Size(answer.points[i + 1][j] - answer.points[i][j]) <= dt
             /\ Size(answer.vels[i + 1][j] - answer.vels[i][j]) <= MaxAcceleration * dt
  <2> DEFINE m == i - first + 1
  <2>1. i \in first..last /\ i + 1 \in first..last /\ (i + 1) - first + 1 = m + 1 BY <1>3, <1>4, <1>8
  <2>2. m \in 1..Len(part) /\ m + 1 \in 1..Len(part) BY <1>5, <2>1
  <2>3. m \in 1..Len(part) - 1 BY <1>5, <2>2, PathFacts
  <2>4. /\ answer.times[i] = Times(part)[m] /\ answer.times[i + 1] = Times(part)[m + 1]
        /\ answer.points[i] = part[m] /\ answer.points[i + 1] = part[m + 1]
        /\ answer.vels[i] = Velocities(part)[m] /\ answer.vels[i + 1] = Velocities(part)[m + 1]
    BY <1>5, <1>6, <2>1
  <2> HIDE DEF m
  <2>5. /\ Velocities(part)[m][j] = Velocity(part, m, j)
        /\ Velocities(part)[m + 1][j] = Velocity(part, m + 1, j)
    <3>1. /\ Velocities(part)[m] = [x \in 1..Joints |-> Velocity(part, m, x)]
          /\ Velocities(part)[m + 1] = [x \in 1..Joints |-> Velocity(part, m + 1, x)]
      BY <1>5, <2>2, VelocitiesFacts
    <3> QED BY <3>1
  <2> QED BY <1>5, <2>3, <2>4, <2>5, TimedIsWithinLimits
<1> QED BY <1>7, <1>8 DEF MovesWithinLimits, timed

\* The timed part of every answer begins and ends at rest and asks for no more than the
\* greatest speed and acceleration, for any path, arm and limits (trajectory_times_and_vels).
THEOREM TimesSuffice == Spec => []MovesWithinLimits
<1>1. Typed => MovesWithinLimits BY AnsweredWithinLimits DEF Typed
<1> QED BY <1>1, InitIsTyped, TypedStep, PTL DEF Spec

-----------------------------------------------------------------------------
(* The codes *)

\* While the search goes on, its codes are true of its solutions.
EndsLooked ==
    args.collision_aware =>
        \A i \in 1..Len(error_codes) :
            (i = 1 \/ i = Len(steps)) /\ error_codes[i] = Good => trajectory[i] \in world[steps[i]].free
Follows ==
    \A i \in 1..Len(error_codes) - 1 :
        /\ error_codes[i + 1] \in {Good, Colliding}
        /\ error_codes[i] \notin {OutOfReach, Unchecked}
        => check_consistent(trajectory[i], trajectory[i + 1])
CodesHold == Typed /\ EndsLooked /\ Follows

LEMMA CodesHoldStep ==
    ASSUME CodesHold, [Next]_vars
    PROVE  CodesHold'
<1>1. Typed' BY TypedStep DEF CodesHold
<1>2. CASE UNCHANGED <<world, args, steps, trajectory, error_codes>>
  BY <1>1, <1>2 DEF CodesHold, EndsLooked, Follows, check_consistent
<1>3. CASE set_params_callback \/ Refuse \/ UNCHANGED vars
  BY <1>2, <1>3 DEF set_params_callback, Refuse, vars
<1>4. CASE Call \/ Answer
  <2>1. error_codes' = << >>
    BY <1>4 DEF Call, Answer, CodesHold, Typed, Searching
  <2>2. Len(error_codes') = 0 BY <2>1
  <2>3. 1..Len(error_codes') = {} /\ 1..Len(error_codes') - 1 = {} BY <2>2
  <2> QED BY <1>1, <2>3 DEF CodesHold, EndsLooked, Follows
<1>5. CASE NoSolution \/ Solution
  <2> DEFINE n == Len(trajectory)
  <2>1. Searching BY DEF CodesHold, Typed
  <2>2. pc = "checking" BY <1>5, <2>1, SearchAdds
  <2>3. PICK solution \in Angles, code \in Good..OutOfReach :
           /\ Add(solution, code)
           /\ code = Good /\ collision_aware_this_step => solution \in Pose.free
           /\ code \in {Good, Colliding} => FollowsOn(solution)
    BY <1>5, <2>1, SearchAdds
  <2>4. /\ UNCHANGED <<parameters, world, args, steps, answer>>
        /\ Len(error_codes') > n
        /\ \A i \in 1..n : trajectory'[i] = trajectory[i] /\ error_codes'[i] = error_codes[i]
        /\ trajectory'[n + 1] = solution /\ error_codes'[n + 1] = code
        /\ \A i \in n + 2..Len(error_codes') : error_codes'[i] = Unchecked
    BY <2>1, <2>2, <2>3, AddFacts
  <2>5. n \in Nat /\ Len(error_codes) = n /\ Len(error_codes') \in Nat /\ k = n + 1
    <3>1. Len(error_codes') \in Nat BY <1>1 DEF Typed, Searching
    <3> QED BY <2>1, <3>1 DEF Searching, k
  <2>6. Unchecked \notin {Good, Colliding} BY DEF Unchecked, Good, Colliding
  <2>7. EndsLooked'
    <3> SUFFICES ASSUME args.collision_aware, NEW i \in 1..Len(error_codes'),
                        i = 1 \/ i = Len(steps), error_codes'[i] = Good
                 PROVE  trajectory'[i] \in world[steps[i]].free
      BY <2>4 DEF EndsLooked
    <3>1. CASE i <= n
      <4>1. i \in 1..n BY <2>5, <3>1
      <4> QED BY <2>4, <2>5, <4>1 DEF CodesHold, EndsLooked
    <3>2. CASE i = n + 1
      <4>1. collision_aware_this_step
        <5>1. CASE i = 1
          <6>1. args.collision_check_resolution \in Nat \ {0} BY <2>1, <2>2 DEF Searching
          <6>2. \A x \in Nat \ {0} : 0 % x = 0 OBVIOUS
          <6>3. k - 1 = 0 BY <2>5, <3>2, <5>1
          <6> QED BY <6>1, <6>2, <6>3 DEF collision_aware_this_step
        <5>2. CASE i = Len(steps) BY <2>5, <3>2, <5>2 DEF collision_aware_this_step
        <5> QED BY <5>1, <5>2
      <4>2. solution \in Pose.free BY <2>3, <2>4, <3>2, <4>1
      <4> QED BY <2>4, <2>5, <3>2, <4>2 DEF Pose
    <3>3. CASE i > n + 1
      <4>1. i \in n + 2..Len(error_codes') BY <2>5, <3>3
      <4> QED BY <2>4, <2>6, <4>1
    <3> QED BY <2>5, <3>1, <3>2, <3>3
  <2>8. Follows'
    <3> SUFFICES ASSUME NEW i \in 1..Len(error_codes') - 1, error_codes'[i + 1] \in {Good, Colliding},
                        error_codes'[i] \notin {OutOfReach, Unchecked}
                 PROVE  check_consistent(trajectory'[i], trajectory'[i + 1])
      BY <2>4 DEF Follows, check_consistent
    <3>1. CASE i + 1 <= n
      <4>1. i \in 1..n - 1 /\ i \in 1..n /\ i + 1 \in 1..n BY <2>5, <3>1
      <4> QED BY <2>4, <2>5, <4>1 DEF CodesHold, Follows
    <3>2. CASE i = n
      <4>1. n \in 1..n /\ n # 0 BY <2>5, <3>2
      <4>2. FollowsOn(solution) BY <2>3, <2>4, <3>2
      <4>3. Last(error_codes) = error_codes'[n] /\ Last(trajectory) = trajectory'[n]
        BY <2>4, <2>5, <4>1 DEF Last
      <4>4. check_consistent(Last(trajectory), solution)
        BY <2>5, <3>2, <4>1, <4>2, <4>3 DEF FollowsOn
      <4> QED BY <2>4, <3>2, <4>3, <4>4
    <3>3. CASE i > n
      <4>1. i + 1 \in n + 2..Len(error_codes') BY <2>5, <3>3
      <4> QED BY <2>4, <2>6, <4>1
    <3> QED BY <2>5, <3>1, <3>2, <3>3
  <2> QED BY <1>1, <2>7, <2>8 DEF CodesHold
<1> QED BY <1>3, <1>4, <1>5 DEF Next

\* The answer's i-th code and point are those of the step that was searched for it.
LEMMA AnswerIsSearched ==
    ASSUME Searching, Answer
    PROVE  LET n == Len(steps) IN
           /\ n \in Nat /\ Len(error_codes) = n /\ Len(trajectory) = n
           /\ DOMAIN answer'.codes = 1..n /\ Len(answer'.codes) = n
           /\ \A i \in 1..n :
                 /\ Searched(n, i) \in 1..n
                 /\ answer'.codes[i] = error_codes[Searched(n, i)]
                 /\ answer'.points[i] = trajectory[Searched(n, i)]
                 /\ InOrder(steps)[i] = steps[Searched(n, i)]
<1> DEFINE n == Len(steps)
<1>1. /\ trajectory \in Seq(Angles) /\ error_codes \in Seq(Good..Unchecked) /\ steps \in Seq(0..Distance)
      /\ n \in Nat /\ Len(error_codes) = n /\ Len(trajectory) = n
  BY DEF Searching, Answer
<1>2. answer'.points = InOrder(trajectory) /\ answer'.codes = InOrder(error_codes)
  BY AnswerIsTimed
<1>3. DOMAIN answer'.codes = 1..n /\ Len(answer'.codes) = n BY <1>1, AnswerIsTimed
<1>4. \A i \in 1..n : InOrder(trajectory)[i] = trajectory[Searched(n, i)] BY <1>1, InOrderFacts
<1>5. \A i \in 1..n : InOrder(error_codes)[i] = error_codes[Searched(n, i)] BY <1>1, InOrderFacts
<1>6. \A i \in 1..n : InOrder(steps)[i] = steps[Searched(n, i)] BY <1>1, InOrderFacts
<1>7. \A i \in 1..n : Searched(n, i) \in 1..n BY <1>1 DEF Searched
<1> QED BY <1>1, <1>2, <1>3, <1>4, <1>5, <1>6, <1>7


LEMMA InitCodesHold == Init => CodesHold
<1> SUFFICES ASSUME Init PROVE CodesHold OBVIOUS
<1>1. Len(error_codes) = 0 BY DEF Init
<1>2. 1..Len(error_codes) = {} /\ 1..Len(error_codes) - 1 = {} BY <1>1
<1> QED BY <1>2, InitIsTyped DEF CodesHold, EndsLooked, Follows

LEMMA AnswerHasFreeEnds ==
    ASSUME CodesHold, Answer, args.collision_aware, NEW i \in {1, Len(steps)} \cap DOMAIN answer'.codes,
           answer'.codes[i] = Good
    PROVE  answer'.points[i] \in world[InOrder(steps)[i]].free
<1> DEFINE n == Len(steps)
           m == Searched(n, i)
<1>1. Searching BY DEF CodesHold, Typed
<1>2. /\ n \in Nat /\ Len(error_codes) = n /\ DOMAIN answer'.codes = 1..n
      /\ \A x \in 1..n : /\ Searched(n, x) \in 1..n
                         /\ answer'.codes[x] = error_codes[Searched(n, x)]
                         /\ answer'.points[x] = trajectory[Searched(n, x)]
                         /\ InOrder(steps)[x] = steps[Searched(n, x)]
  BY <1>1, AnswerIsSearched
<1>3. i \in 1..n /\ (i = 1 \/ i = n) BY <1>2
<1>4. m = 1 \/ m = n BY <1>2, <1>3 DEF Searched
<1>5. /\ m \in 1..n /\ error_codes[m] = Good
      /\ answer'.points[i] = trajectory[m] /\ InOrder(steps)[i] = steps[m]
  BY <1>2, <1>3
<1> HIDE DEF n, m
<1> QED BY <1>2, <1>4, <1>5 DEF CodesHold, EndsLooked, n

LEMMA SizeIsEven == \A a, b \in Int : Size(a - b) = Size(b - a)
BY DEF Size

LEMMA AnswerIsConsistent ==
    ASSUME CodesHold, Answer, NEW i \in 1..Len(answer'.codes) - 1,
           LET later == IF args.start_from_end THEN i ELSE i + 1 IN
           /\ answer'.codes[later] \in {Good, Colliding}
           /\ {answer'.codes[i], answer'.codes[i + 1]} \cap {OutOfReach, Unchecked} = {},
           NEW j \in 1..Joints
    PROVE  Size(answer'.points[i][j] - answer'.points[i + 1][j]) <= consistent_angle
<1> DEFINE n == Len(steps)
<1>1. Searching BY DEF CodesHold, Typed
<1>2. /\ n \in Nat /\ Len(error_codes) = n /\ Len(trajectory) = n /\ Len(answer'.codes) = n
      /\ \A x \in 1..n : /\ Searched(n, x) \in 1..n
                         /\ answer'.codes[x] = error_codes[Searched(n, x)]
                         /\ answer'.points[x] = trajectory[Searched(n, x)]
  BY <1>1, AnswerIsSearched
<1>3. \A x \in 1..n : trajectory[x][j] \in Int
  <2>1. \A s \in Seq(Angles) : \A x \in 1..Len(s) : s[x] \in Angles OBVIOUS
  <2>2. \A x \in 1..n : trajectory[x] \in Angles BY <1>1, <1>2, <2>1 DEF Searching
  <2> QED BY <2>2 DEF Angles
<1>4. \A x \in 1..n - 1 : error_codes[x + 1] \in {Good, Colliding} /\ error_codes[x] \notin {OutOfReach, Unchecked}
                          => Size(trajectory[x][j] - trajectory[x + 1][j]) <= consistent_angle
  BY <1>2 DEF CodesHold, Follows, check_consistent
<1>5. i \in 1..n /\ i + 1 \in 1..n BY <1>2
<1> HIDE DEF n
<1>6. CASE ~args.start_from_end
  <2>1. Searched(n, i) = i /\ Searched(n, i + 1) = i + 1 BY <1>6 DEF Searched
  <2>2. /\ answer'.codes[i] = error_codes[i] /\ answer'.codes[i + 1] = error_codes[i + 1]
        /\ answer'.points[i] = trajectory[i] /\ answer'.points[i + 1] = trajectory[i + 1]
    BY <1>2, <1>5, <2>1
  <2> QED BY <1>2, <1>4, <1>6, <2>2
<1>7. CASE args.start_from_end
  <2> DEFINE x == n - i
  <2>1. Searched(n, i) = x + 1 /\ Searched(n, i + 1) = x /\ x \in 1..n - 1 /\ x \in 1..n /\ x + 1 \in 1..n
    BY <1>2, <1>5, <1>7 DEF Searched
  <2>2. /\ answer'.codes[i] = error_codes[x + 1] /\ answer'.codes[i + 1] = error_codes[x]
        /\ answer'.points[i] = trajectory[x + 1] /\ answer'.points[i + 1] = trajectory[x]
    BY <1>2, <1>5, <2>1
  <2> HIDE DEF x
  <2>3. Size(trajectory[x][j] - trajectory[x + 1][j]) <= consistent_angle BY <1>4, <1>7, <2>1, <2>2
  <2>4. trajectory[x][j] \in Int /\ trajectory[x + 1][j] \in Int BY <1>3, <2>1
  <2> QED BY <2>2, <2>3, <2>4, SizeIsEven
<1> QED BY <1>6, <1>7

LEMMA AnswerTimesItsValidPart ==
    ASSUME Searching, Answer
    PROVE  LET codes == answer'.codes
               good == {i \in DOMAIN codes :
                          \A m \in (IF parameters.start_from_end THEN i..Len(codes) ELSE 1..i) : codes[m] = Good}
               timed == {i \in DOMAIN codes : answer'.times[i] > 0}
           IN  \/ timed = good
               \/ parameters.start_from_end /\ good = 2..Len(codes) /\ timed = 1..Len(codes)
<1> DEFINE codes == answer'.codes
           n == Len(codes)
           good == {i \in DOMAIN codes :
                      \A m \in (IF parameters.start_from_end THEN i..Len(codes) ELSE 1..i) : codes[m] = Good}
           timed == {i \in DOMAIN codes : answer'.times[i] > 0}
           first == StartInd(codes)
           last == StopInd(codes)
<1>1. /\ DOMAIN codes = 1..n /\ n \in Nat /\ Len(answer'.points) = n
      /\ IsTimed(answer', first, last)
  <2>1. DOMAIN codes = 1..Len(trajectory) /\ n = Len(trajectory) /\ IsTimed(answer', first, last)
    BY AnswerIsTimed
  <2>2. answer'.points = InOrder(trajectory) BY AnswerIsTimed
  <2>3. Len(answer'.points) = Len(trajectory) /\ Len(trajectory) \in Nat
    BY <2>2, InOrderFacts DEF Searching
  <2> QED BY <2>1, <2>3
<1>2. timed = first..last BY <1>1, TimedPart
<1>4. codes = << >> => n = 0 OBVIOUS
<1>5. n = 0 => timed = {} /\ good = {} BY <1>1
<1>6. CASE ~parameters.start_from_end
  <2>1. first = 1 BY <1>1, <1>6, StartIndFacts
  <2>2. /\ last \in 0..n /\ \A i \in 1..last : codes[i] = Good
        /\ last < n => codes[last + 1] # Good
    BY <1>1, <1>6, StopIndFacts
  <2> HIDE DEF last, codes, n
  <2>3. good = {i \in 1..n : \A m \in 1..i : codes[m] = Good} BY <1>1, <1>6 DEF n
  <2> HIDE DEF good
  <2>4. ASSUME NEW i \in 1..n PROVE i \in good <=> i \in 1..last
    <3>1. CASE i <= last
      <4>1. \A m \in 1..i : m \in 1..last BY <1>1, <2>2, <3>1
      <4> QED BY <1>1, <2>2, <2>3, <3>1, <4>1
    <3>2. CASE i > last
      <4>1. last + 1 \in 1..i /\ last < n BY <1>1, <2>2, <3>2
      <4>2. codes[last + 1] # Good BY <2>2, <4>1
      <4> QED BY <2>2, <2>3, <3>2, <4>1, <4>2
    <3> QED BY <1>1, <2>2, <3>1, <3>2
  <2>5. good \subseteq 1..n /\ 1..last \subseteq 1..n BY <1>1, <2>2, <2>3
  <2>6. good = 1..last BY <2>4, <2>5
  <2>7. timed = good BY <1>2, <2>1, <2>6
  <2> HIDE DEF timed
  <2> QED BY <1>6, <2>7 DEF good, timed, codes, n
<1>7. CASE parameters.start_from_end
  <2>1. last = n BY <1>1, <1>7, StopIndFacts
  <2>2. /\ first \in 1..n + 1 /\ \A i \in 2..n : i >= first => codes[i] = Good
        /\ first > 1 => first - 1 \in 2..n /\ codes[first - 1] # Good
    BY <1>1, <1>7, StartIndFacts
  <2>3. timed = first..n BY <1>2, <2>1
  <2>4. good = {i \in 1..n : \A m \in i..n : codes[m] = Good} BY <1>1, <1>7
  <2> DEFINE expected == timed = good \/ (good = 2..n /\ timed = 1..n)
  <2> HIDE DEF first, codes, n, good, timed
  <2>5. n = 0 => codes = << >> BY <1>1 DEF n, codes
  <2>6. CASE first > 1
    <3>1. ASSUME NEW i \in 1..n PROVE i \in good <=> i \in first..n
      <4>1. CASE i >= first
        <5>1. \A m \in i..n : m \in 2..n /\ m >= first BY <1>1, <2>2, <2>6, <4>1
        <5> QED BY <1>1, <2>2, <2>4, <4>1, <5>1
      <4>2. CASE i < first
        <5>1. first - 1 \in i..n BY <1>1, <2>2, <2>6, <4>2
        <5>2. codes[first - 1] # Good BY <2>2, <2>6
        <5> QED BY <1>1, <2>2, <2>4, <4>2, <5>1, <5>2
      <4> QED BY <1>1, <2>2, <4>1, <4>2
    <3>2. good \subseteq 1..n /\ first..n \subseteq 1..n BY <1>1, <2>2, <2>4
    <3>3. good = first..n BY <3>1, <3>2
    <3>4. 2 \notin first..n /\ 2 \in 2..n
      BY <1>1, <2>2, <2>6
    <3>5. good # 2..n BY <3>3, <3>4
    <3>6. expected BY <2>3, <3>3, <3>5
    <3> QED BY <1>7, <3>6 DEF good, timed, codes, n
  <2>7. CASE first = 1
    <3>1. \A i \in 2..n : i \in good
      <4>1. \A i \in 2..n : \A m \in i..n : m \in 2..n /\ m >= first BY <1>1, <2>7
      <4> QED BY <1>1, <2>2, <2>4, <4>1
    <3>2. good \subseteq 1..n BY <2>4
    <3>3. CASE n = 0
      <4>1. codes = << >> /\ good = {} /\ timed = {} BY <1>5, <2>5, <3>3
      <4>2. expected BY <4>1
      <4> QED BY <1>7, <4>2 DEF good, timed, codes, n
    <3>4. CASE n # 0 /\ 1 \in good
      <4>1. 1..n \subseteq good
        <5>1. \A i \in 1..n : i = 1 \/ i \in 2..n BY <1>1
        <5> QED BY <3>1, <3>4, <5>1
      <4>2. good = 1..n BY <3>2, <4>1
      <4>3. 1 \notin 2..n OBVIOUS
      <4>4. good # 2..n BY <3>4, <4>3
      <4>5. expected BY <2>3, <2>7, <4>2, <4>4
      <4> QED BY <1>7, <4>5 DEF good, timed, codes, n
    <3>5. CASE n # 0 /\ 1 \notin good
      <4>1. good \subseteq 2..n
        <5>1. \A i \in 1..n : i = 1 \/ i \in 2..n BY <1>1
        <5> QED BY <3>2, <3>5, <5>1
      <4>2. good = 2..n BY <3>1, <4>1
      <4>3. {1} \cup 2..n = 1..n BY <1>1, <3>5
      <4>4. expected BY <1>4, <2>3, <2>7, <3>5, <4>2, <4>3
      <4> QED BY <1>7, <4>4 DEF good, timed, codes, n
    <3> QED BY <3>3, <3>4, <3>5
  <2> QED BY <1>1, <2>2, <2>6, <2>7
<1> QED BY <1>6, <1>7

\* Whatever the arm, the line and the parameters that are set meanwhile: a good end of an
\* answer is free, good neighbours are consistent, and the part that is timed is the valid
\* one as kept from the end that was set last, whichever end was searched first; only the
\* first point of a path kept from its end may be timed without being good, where all the
\* others are (check_cartesian_path and the callback that answers).
THEOREM AnswersAreTrue == Spec => CodesAreTrue
<1>1. ASSUME CodesHold, [Next]_vars
      PROVE  /\ [Answer /\ args.collision_aware =>
                   \A i \in {1, Len(steps)} \cap DOMAIN answer'.codes :
                      answer'.codes[i] = Good =>
                          answer'.points[i] \in world[InOrder(steps)[i]].free]_vars
             /\ [Answer =>
                   \A i \in 1..Len(answer'.codes) - 1 :
                      LET later == IF args.start_from_end THEN i ELSE i + 1 IN
                      /\ answer'.codes[later] \in {Good, Colliding}
                      /\ {answer'.codes[i], answer'.codes[i + 1]} \cap {OutOfReach, Unchecked} = {}
                      => \A j \in 1..Joints :
                            Size(answer'.points[i][j] - answer'.points[i + 1][j]) <= consistent_angle]_vars
             /\ [Answer =>
                   LET codes == answer'.codes
                       fromEnd == parameters.start_from_end
                       good == {i \in DOMAIN codes :
                                  \A m \in (IF fromEnd THEN i..Len(codes) ELSE 1..i) : codes[m] = Good}
                       timed == {i \in DOMAIN codes : answer'.times[i] > 0}
                   IN  \/ timed = good
                       \/ fromEnd /\ good = 2..Len(codes) /\ timed = 1..Len(codes)]_vars
  <2>1. Searching BY <1>1 DEF CodesHold, Typed
  <2> QED BY <1>1, <2>1, AnswerHasFreeEnds, AnswerIsConsistent, AnswerTimesItsValidPart
<1> QED BY <1>1, InitCodesHold, CodesHoldStep, PTL DEF Spec, CodesAreTrue, EndsAreFree, GoodIsConsistent, ValidPartIsTimed

=============================================================================
