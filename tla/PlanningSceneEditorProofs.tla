----------------------- MODULE PlanningSceneEditorProofs -----------------------
(***************************************************************************)
(* Proofs about PlanningSceneEditor for any scenes, requests, arms and     *)
(* sessions: what a save would write is held by the maps, and what is      *)
(* recorded is recorded under a request.                                   *)
(***************************************************************************)
EXTENDS PlanningSceneEditor, FiniteSetTheorems, WellFoundedInduction, TLAPS

-----------------------------------------------------------------------------
(* Identifiers, and the documents that are left *)

LEMMA InductionOverNat ==
    ASSUME NEW G, 0 \in G, \A n \in Nat : n \in G => n + 1 \in G
    PROVE  Nat \subseteq G
<1> SUFFICES ASSUME Nat \ G # {} PROVE FALSE OBVIOUS
<1> DEFINE R == {p \in Nat \X Nat : p[1] < p[2]}
<1>1. IsWellFoundedOn(R, Nat) BY NatLessThanWellFounded DEF OpToRel
<1>2. PICK n \in Nat \ G : \A m \in Nat \ G : <<m, n>> \notin R
  <2> HIDE DEF R
  <2>1. Nat \ G \subseteq Nat OBVIOUS
  <2> QED BY <1>1, <2>1, WFMin
<1>3. n # 0 /\ n - 1 \in Nat /\ n - 1 < n BY <1>2
<1>4. n - 1 \in G BY <1>2, <1>3
<1>5. (n - 1) + 1 \in G BY <1>3, <1>4
<1> QED BY <1>3, <1>5

LEMMA MinOfNat ==
    ASSUME NEW T \in SUBSET Nat, T # {}
    PROVE  Min(T) \in T
<1> DEFINE R == {p \in Nat \X Nat : p[1] < p[2]}
<1>1. IsWellFoundedOn(R, Nat) BY NatLessThanWellFounded DEF OpToRel
<1>2. PICK n \in T : \A m \in T : <<m, n>> \notin R
  <2> HIDE DEF R
  <2> QED BY <1>1, WFMin
<1>3. \A m \in T : <<m, n>> \in Nat \X Nat /\ ~(m < n) BY <1>2
<1>4. \A m \in T : n <= m
  <2>1. \A m \in Nat : n \in Nat /\ ~(m < n) => n <= m OBVIOUS
  <2> QED BY <1>3, <2>1
<1>5. \E x \in T : \A y \in T : x <= y BY Zenon, <1>4
<1> QED BY <1>5 DEF Min

\* One of finitely many numbers is the largest.
LEMMA FiniteHasMax ==
    ASSUME NEW T \in SUBSET Int, IsFiniteSet(T), T # {}
    PROVE  Max(T) \in T /\ \A x \in T : x <= Max(T)
<1>1. PICK n \in Nat : ExistsSurjection(1..n, T) BY FS_NatSurjection
<1>2. PICK f \in Surjection(1..n, T) : TRUE BY <1>1 DEF ExistsSurjection
<1>3. f \in [1..n -> T] /\ \A x \in T : \E i \in 1..n : f[i] = x BY <1>2 DEF Surjection
<1> DEFINE Top(m) == \E i \in 1..n : \A j \in 1..n : j <= m => f[j] <= f[i]
           G == {m \in Nat : Top(m)}
<1>4. \A i \in 1..n : f[i] \in Int BY <1>3
<1>5. 0 \in G
  <2>1. PICK x \in T : TRUE OBVIOUS
  <2>2. PICK i \in 1..n : f[i] = x BY <1>3
  <2>3. Top(0) BY <2>2
  <2> QED BY <2>3
<1>6. ASSUME NEW m \in Nat, m \in G PROVE m + 1 \in G
  <2>1. PICK i \in 1..n : \A j \in 1..n : j <= m => f[j] <= f[i] BY <1>6
  <2>2. CASE m + 1 \notin 1..n \/ f[m + 1] <= f[i]
    <3>1. \A j \in 1..n : j <= m + 1 => f[j] <= f[i] BY <2>1, <2>2
    <3>2. Top(m + 1) BY <3>1
    <3> QED BY <3>2
  <2>3. CASE m + 1 \in 1..n /\ ~(f[m + 1] <= f[i])
    <3>1. ASSUME NEW j \in 1..n, j <= m + 1 PROVE f[j] <= f[m + 1]
      <4>1. f[j] \in Int /\ f[i] \in Int /\ f[m + 1] \in Int BY <1>4, <2>3
      <4>2. CASE j = m + 1 BY <4>1, <4>2
      <4>3. CASE j <= m BY <2>1, <2>3, <4>1, <4>3
      <4> QED BY <3>1, <4>2, <4>3
    <3>2. Top(m + 1) BY <2>3, <3>1
    <3> QED BY <3>2
  <2> QED BY <2>2, <2>3
<1>7. n \in G
  <2> HIDE DEF G
  <2> QED BY <1>5, <1>6, InductionOverNat
<1>8. PICK i \in 1..n : \A j \in 1..n : f[j] <= f[i] BY <1>7
<1>9. \A x \in T : f[i] >= x BY <1>3, <1>4, <1>8
<1>10. \E x \in T : \A y \in T : x >= y
  <2>1. f[i] \in T BY <1>3
  <2> QED BY <1>9, <2>1
<1> QED BY <1>10 DEF Max

Numbers == {T \in SUBSET Nat : IsFiniteSet(T)}

\* The next identifier is larger than those in use.
LEMMA NextIdIsNew ==
    ASSUME NEW T \in Numbers
    PROVE  NextId(T) \in Nat /\ NextId(T) \notin T
<1>1. T \cup {-1} \in SUBSET Int /\ T \cup {-1} # {} BY DEF Numbers
<1>2. IsFiniteSet(T \cup {-1}) BY FS_AddElement DEF Numbers
<1> DEFINE top == Max(T \cup {-1})
<1>3. top \in T \cup {-1} /\ \A x \in T \cup {-1} : x <= top BY <1>1, <1>2, FiniteHasMax
<1>4. NextId(T) = top + 1 BY DEF NextId, Largest
<1> HIDE DEF top
<1>5. top \in Int /\ top >= -1 BY <1>1, <1>3
<1>6. \A x \in T : x < top + 1 /\ x \in Int BY <1>1, <1>3, <1>5
<1> QED BY <1>4, <1>5, <1>6

Matches(d, host, s) == d.scene = s /\ d.host = host
Differ(w) == \A i, j \in DOMAIN w : w[i].scene = w[j].scene => i = j

\* The documents that are left when those before the i-th have been looked at.
LEMMA RemovedIsRecursive ==
    ASSUME NEW w, NEW n \in Nat, Len(w) = n, NEW host, NEW s
    PROVE  \E left : /\ Removed(w, host, s) = left[n] /\ left[0] = Empty
                     /\ \A i \in 1..n : left[i] = IF Matches(w[i], host, s) THEN left[i - 1]
                                                  ELSE Append(left[i - 1], w[i])
<1> DEFINE Value(f, i) == IF i = 0 THEN Empty
                          ELSE IF Matches(w[i], host, s) THEN f[i - 1] ELSE Append(f[i - 1], w[i])
           IsLeft(f, m) == f = [i \in 0..m |-> Value(f, i)]
           G == {m \in Nat : \E f : IsLeft(f, m)}
<1>1. Removed(w, host, s) = (CHOOSE f : IsLeft(f, n))[n] BY DEF Removed, Matches
<1>2. 0 \in G
  <2>1. IsLeft([i \in 0..0 |-> Empty], 0) OBVIOUS
  <2> QED BY Zenon, <2>1
<1>3. ASSUME NEW m \in Nat, m \in G PROVE m + 1 \in G
  <2>1. PICK f : IsLeft(f, m) BY <1>3
  <2> DEFINE g == [i \in 0..m + 1 |-> Value(f, i)]
             h == [i \in 0..m + 1 |-> Value(g, i)]
  <2>2. \A i \in 0..m : g[i] = f[i]
    <3> TAKE i \in 0..m
    <3>1. i \in 0..m + 1 OBVIOUS
    <3>2. f[i] = Value(f, i) BY <2>1
    <3>3. g[i] = Value(f, i) BY <3>1
    <3> QED BY <3>2, <3>3
  <2>3. \A i \in 0..m + 1 : i # 0 => g[i - 1] = f[i - 1]
    <3> HIDE DEF g
    <3> QED BY <2>2
  <2>4. \A i \in 0..m + 1 : g[i] = Value(f, i) /\ h[i] = Value(g, i) OBVIOUS
  <2>5. /\ DOMAIN g = 0..m + 1 /\ DOMAIN h = 0..m + 1
        /\ g = [i \in DOMAIN g |-> g[i]] /\ h = [i \in DOMAIN h |-> h[i]]
    OBVIOUS
  <2> HIDE DEF g, h
  <2>6. \A i \in 0..m + 1 : g[i] = h[i] BY <2>3, <2>4
  <2>7. g = h BY <2>5, <2>6
  <2>8. IsLeft(g, m + 1) BY <2>7 DEF h
  <2>9. m + 1 \in Nat OBVIOUS
  <2> QED BY Zenon, <2>8, <2>9
<1>4. n \in G
  <2> HIDE DEF G
  <2> QED BY <1>2, <1>3, InductionOverNat
<1> DEFINE left == CHOOSE f : IsLeft(f, n)
<1>5. IsLeft(left, n)
  <2>1. \E f : IsLeft(f, n) BY <1>4
  <2> HIDE DEF IsLeft
  <2> QED BY <2>1
<1>6. Removed(w, host, s) = left[n] BY <1>1
<1> HIDE DEF left, G
<1>7. \A i \in 0..n : left[i] = Value(left, i) BY <1>5
<1>8. left[0] = Empty BY <1>7
<1>9. \A i \in 1..n : left[i] = IF Matches(w[i], host, s) THEN left[i - 1] ELSE Append(left[i - 1], w[i])
  BY <1>7
<1> QED BY <1>6, <1>8, <1>9

\* What is left are other documents, no two of a scene if there were none.
LEMMA RemovedFacts ==
    ASSUME NEW S, NEW w \in Seq(S), NEW host, NEW s
    PROVE  /\ Removed(w, host, s) \in Seq(S)
           /\ \A p \in DOMAIN Removed(w, host, s) : \E q \in DOMAIN w :
                 Removed(w, host, s)[p] = w[q] /\ ~Matches(w[q], host, s)
           /\ Differ(w) => Differ(Removed(w, host, s))
<1> DEFINE n == Len(w)
<1>1. n \in Nat /\ DOMAIN w = 1..n /\ \A i \in 1..n : w[i] \in S OBVIOUS
<1> HIDE DEF n
<1>0. Len(w) = n BY DEF n
<1>2. PICK left : /\ Removed(w, host, s) = left[n] /\ left[0] = Empty
                  /\ \A i \in 1..n : left[i] = IF Matches(w[i], host, s) THEN left[i - 1]
                                               ELSE Append(left[i - 1], w[i])
  BY <1>0, <1>1, RemovedIsRecursive
<1> DEFINE Fine(x, m) == /\ x \in Seq(S)
                         /\ \A p \in DOMAIN x : \E q \in 1..n :
                               q <= m /\ x[p] = w[q] /\ ~Matches(w[q], host, s)
                         /\ Differ(w) => Differ(x)
           G == {m \in Nat : m <= n => Fine(left[m], m)}
<1>3. 0 \in G
  <2>1. Empty \in Seq(S) /\ DOMAIN Empty = {} BY DEF Empty
  <2>2. Fine(left[0], 0) BY <1>2, <2>1 DEF Differ
  <2> QED BY <2>2
<1>4. ASSUME NEW m \in Nat, m \in G PROVE m + 1 \in G
  <2> SUFFICES ASSUME m + 1 <= n PROVE Fine(left[m + 1], m + 1)
    <3> HIDE DEF Fine
    <3> QED OBVIOUS
  <2> DEFINE x == left[m]
             d == w[m + 1]
             y == left[m + 1]
  <2>1. Fine(x, m) BY <1>1, <1>4
  <2>2. m + 1 \in 1..n /\ (m + 1) - 1 = m /\ d \in S BY <1>1
  <2>3. y = IF Matches(d, host, s) THEN x ELSE Append(x, d) BY <1>2, <2>2
  <2> HIDE DEF x, d, y
  <2>4. CASE Matches(d, host, s)
    <3>1. \A q \in 1..n : q <= m => q <= m + 1 BY <1>1
    <3>2. y = x BY <2>3, <2>4
    <3>3. Fine(y, m + 1) BY <2>1, <3>1, <3>2
    <3> QED BY <3>3 DEF y
  <2>5. CASE ~Matches(d, host, s)
    <3> DEFINE l == Len(x)
    <3>1. /\ y \in Seq(S) /\ l \in Nat /\ DOMAIN x = 1..l /\ DOMAIN y = 1..l + 1
          /\ \A p \in 1..l : y[p] = x[p]
          /\ y[l + 1] = d
      <4>1. x \in Seq(S) /\ y = Append(x, d) BY <2>1, <2>3, <2>5
      <4> QED BY <2>2, <4>1
    <3> HIDE DEF l
    <3>2. ASSUME NEW p \in DOMAIN y
          PROVE  \E q \in 1..n : q <= m + 1 /\ y[p] = w[q] /\ ~Matches(w[q], host, s)
      <4>1. CASE p = l + 1 BY <2>2, <2>5, <3>1, <4>1 DEF d
      <4>2. CASE p # l + 1
        <5>1. p \in DOMAIN x /\ y[p] = x[p] BY <3>1, <3>2, <4>2
        <5>2. PICK q \in 1..n : q <= m /\ x[p] = w[q] /\ ~Matches(w[q], host, s) BY <2>1, <5>1
        <5> QED BY <1>1, <5>1, <5>2
      <4> QED BY <4>1, <4>2
    <3>3. ASSUME Differ(w), NEW i \in DOMAIN y, NEW j \in DOMAIN y, y[i].scene = y[j].scene PROVE i = j
      <4>1. ASSUME NEW p \in 1..l PROVE x[p].scene # d.scene
        <5>1. PICK q \in 1..n : q <= m /\ x[p] = w[q] BY <2>1, <3>1
        <5>2. q # m + 1 BY <1>1, <5>1
        <5> QED BY <1>1, <2>2, <3>3, <5>1, <5>2 DEF Differ, d
      <4>2. CASE i = l + 1 /\ j = l + 1 BY <4>2
      <4>3. CASE i = l + 1 /\ j # l + 1
        <5>1. j \in 1..l BY <3>1, <4>3
        <5> QED BY <3>1, <3>3, <4>1, <4>3, <5>1
      <4>4. CASE i # l + 1 /\ j = l + 1
        <5>1. i \in 1..l BY <3>1, <4>4
        <5> QED BY <3>1, <3>3, <4>1, <4>4, <5>1
      <4>5. CASE i # l + 1 /\ j # l + 1
        <5>1. i \in 1..l /\ j \in 1..l BY <3>1, <4>5
        <5> QED BY <2>1, <3>1, <3>3, <5>1 DEF Differ
      <4> QED BY <4>2, <4>3, <4>4, <4>5
    <3>4. Fine(y, m + 1) BY <3>1, <3>2, <3>3 DEF Differ
    <3> QED BY <3>4 DEF y
  <2> QED BY <2>4, <2>5
<1>5. n \in G
  <2> HIDE DEF G
  <2> QED BY <1>1, <1>3, <1>4, InductionOverNat
<1>6. Fine(left[n], n) BY <1>1, <1>5
<1>7. Fine(Removed(w, host, s), n) BY <1>2, <1>6
<1> QED BY <1>1, <1>7

-----------------------------------------------------------------------------
(* Editors *)

Editor(scenes, current, requests, trajectories) ==
    [scenes |-> scenes, current |-> current, requests |-> requests, trajectories |-> trajectories]
IsScene(x) == x = [id |-> x.id, host |-> x.host, requests |-> x.requests]
IsRequest(x) == x = [named |-> x.named, trajs |-> x.trajs]
IsMap(f) == f = [x \in DOMAIN f |-> f[x]]

\* The maps hold records of their kinds, and a request that has a name is one of RequestIds.
Shaped(e) ==
    /\ e = Editor(e.scenes, e.current, e.requests, e.trajectories)
    /\ IsMap(e.scenes) /\ IsMap(e.requests) /\ IsMap(e.trajectories)
    /\ \A s \in DOMAIN e.scenes : IsScene(e.scenes[s])
    /\ \A r \in DOMAIN e.requests : IsRequest(e.requests[r])
    /\ Named(e) \subseteq RequestIds

\* What the current scene lists is held, and what is held is filed.
Listed(e) == e.current \in DOMAIN e.scenes => e.scenes[e.current].requests \subseteq Named(e)
Filed(e) == \A r \in Named(e) :
               \A t \in e.requests[r].trajs : r \in DOMAIN e.trajectories /\ t \in e.trajectories[r]
OnlyCurrent(e) == \A s \in DOMAIN e.scenes : e.scenes[s].requests # {} => s = e.current
Sound(e) == Shaped(e) /\ Listed(e) /\ Filed(e)
Agreed(e) == Sound(e) /\ OnlyCurrent(e)

\* No entry is without a name.
Tidy(e) == None \notin DOMAIN e.trajectories /\ \A r \in DOMAIN e.requests : e.requests[r].named

\* What the fields of its entries are.
IsTyped(e) ==
    /\ e.current \in SceneIds \cup {None}
    /\ \A s \in DOMAIN e.scenes :
          /\ s \in SceneIds \cup {None} /\ e.scenes[s].id \in SceneIds
          /\ e.scenes[s].host \in Hosts /\ e.scenes[s].requests \subseteq RequestIds
    /\ \A r \in DOMAIN e.requests :
          /\ r \in RequestIds \cup {None}
          /\ e.requests[r].named \in BOOLEAN /\ e.requests[r].trajs \in Numbers
    /\ \A r \in DOMAIN e.trajectories : r \in RequestIds \cup {None} /\ e.trajectories[r] \in Numbers

\* Scenes are this host's and have their own identifiers, and the current one is there while
\* there is a request.  It lists every request, and nothing else is filed than they have.
Placed(e) == /\ \A s \in DOMAIN e.scenes : e.scenes[s].id = s /\ e.scenes[s].host = Here
             /\ Named(e) # {} => e.current \in DOMAIN e.scenes
Complete(e) == e.current \in DOMAIN e.scenes => Named(e) \subseteq e.scenes[e.current].requests
Tight(e) == \A k \in DOMAIN e.trajectories : k \in Named(e) /\ e.trajectories[k] = e.requests[k].trajs

LEMMA NoneIsNoRequest == None \notin RequestIds
BY IdsAssumption DEF None

LEMMA SceneRelisted ==
    ASSUME NEW x, IsScene(x), NEW listed
    PROVE  LET y == [x EXCEPT !.requests = listed] IN
           IsScene(y) /\ y.id = x.id /\ y.host = x.host /\ y.requests = listed
<1>1. x = [id |-> x.id, host |-> x.host, requests |-> x.requests] BY DEF IsScene
<1>2. [x EXCEPT !.requests = listed] = [id |-> x.id, host |-> x.host, requests |-> listed] BY <1>1
<1> QED BY <1>2 DEF IsScene

LEMMA SomeNumbers ==
    /\ {} \in Numbers
    /\ \A t \in Nat : {t} \in Numbers
    /\ \A S, T \in Numbers : S \cup T \in Numbers
    /\ \A S \in Numbers : \A T : S \ T \in Numbers
<1>1. {} \in Numbers BY FS_EmptySet DEF Numbers
<1>2. \A t \in Nat : {t} \in Numbers BY FS_Singleton DEF Numbers
<1>3. \A S, T \in Numbers : S \cup T \in Numbers BY FS_Union DEF Numbers
<1>4. \A S \in Numbers : \A T : S \ T \in Numbers BY FS_Difference DEF Numbers
<1> QED BY <1>1, <1>2, <1>3, <1>4

LEMMA BlankScenes ==
    /\ IsScene(BlankScene) /\ BlankScene.requests = {}
    /\ BlankScene.id \in SceneIds /\ BlankScene.host \in Hosts
BY IdsAssumption DEF BlankScene, IsScene, Hosts

LEMMA EditorFields ==
    ASSUME NEW a, NEW b, NEW c, NEW d
    PROVE  /\ Editor(a, b, c, d).scenes = a /\ Editor(a, b, c, d).current = b
           /\ Editor(a, b, c, d).requests = c /\ Editor(a, b, c, d).trajectories = d
BY DEF Editor

Requests == UNION {[R -> Numbers] : R \in SUBSET RequestIds}
Documents == [scene : SceneIds, host : Hosts, requests : Requests]

LEMMA RequestsFields ==
    ASSUME NEW f
    PROVE  f \in Requests <=> /\ IsMap(f) /\ DOMAIN f \subseteq RequestIds
                              /\ \A r \in DOMAIN f : f[r] \in Numbers
<1>1. ASSUME f \in Requests
      PROVE  /\ IsMap(f) /\ DOMAIN f \subseteq RequestIds
             /\ \A r \in DOMAIN f : f[r] \in Numbers
  <2>1. PICK R \in SUBSET RequestIds : f \in [R -> Numbers] BY <1>1 DEF Requests
  <2> QED BY <2>1 DEF IsMap
<1>2. ASSUME IsMap(f), DOMAIN f \subseteq RequestIds, \A r \in DOMAIN f : f[r] \in Numbers
      PROVE  f \in Requests
  <2>1. f \in [DOMAIN f -> Numbers] BY <1>2 DEF IsMap
  <2> QED BY <1>2, <2>1 DEF Requests
<1> QED BY <1>1, <1>2

LEMMA TrajectoriesAreNumbers ==
    ASSUME NEW w \in Seq(Documents), NEW s, NEW r
    PROVE  TrajectoriesOf(w, s, r) \in Numbers
<1> DEFINE H == Holding(w, s, r)
           image == [i \in H |-> w[i].requests[r]]
           T == {w[i].requests[r] : i \in H}
<1>1. DOMAIN w = 1..Len(w) /\ Len(w) \in Nat /\ \A i \in DOMAIN w : w[i] \in Documents OBVIOUS
<1>2. H \subseteq DOMAIN w /\ \A i \in H : r \in DOMAIN w[i].requests BY DEF Holding, Stored
<1>3. IsFiniteSet(H)
  <2>1. 1 \in Int /\ Len(w) \in Int BY <1>1
  <2>2. IsFiniteSet(1..Len(w)) BY Zenon, <2>1, FS_Interval
  <2> QED BY <1>1, <1>2, <2>2, FS_Subset
<1>4. TrajectoriesOf(w, s, r) = UNION T BY DEF TrajectoriesOf
<1> HIDE DEF H
<1>5. image \in Surjection(H, T) BY DEF Surjection
<1>6. \A S \in T : S \in Numbers
  <2>1. ASSUME NEW i \in H PROVE w[i].requests[r] \in Numbers
    <3>1. w[i].requests \in Requests BY <1>1, <1>2 DEF Documents
    <3> QED BY <1>2, <3>1, RequestsFields
  <2> QED BY <2>1
<1> HIDE DEF T, image
<1>7. IsFiniteSet(T) BY <1>3, <1>5, FS_Surjection
<1>8. IsFiniteSet(UNION T) BY <1>6, <1>7, FS_UNION DEF Numbers
<1> QED BY <1>4, <1>6, <1>8 DEF Numbers

\* To change the scenes only: agreement is up to what they list.
LEMMA ScenesChange ==
    ASSUME NEW e, Agreed(e), NEW scenes, NEW current, IsMap(scenes),
           \A s \in DOMAIN scenes : IsScene(scenes[s]),
           current \in DOMAIN scenes => scenes[current].requests \subseteq Named(e),
           \A s \in DOMAIN scenes : scenes[s].requests # {} => s = current
    PROVE  LET new == Editor(scenes, current, e.requests, e.trajectories) IN
           /\ Agreed(new) /\ (Tidy(e) => Tidy(new)) /\ Named(new) = Named(e)
           /\ Tight(e) => Tight(new)
           /\ /\ IsTyped(e) /\ current \in SceneIds \cup {None}
              /\ \A s \in DOMAIN scenes :
                    /\ s \in SceneIds \cup {None} /\ scenes[s].id \in SceneIds
                    /\ scenes[s].host \in Hosts /\ scenes[s].requests \subseteq RequestIds
              => IsTyped(new)
<1> DEFINE new == Editor(scenes, current, e.requests, e.trajectories)
<1>1. /\ new.scenes = scenes /\ new.current = current
      /\ new.requests = e.requests /\ new.trajectories = e.trajectories
      /\ new = Editor(new.scenes, new.current, new.requests, new.trajectories)
  BY EditorFields
<1> HIDE DEF new
<1>2. Named(new) = Named(e) BY <1>1 DEF Named
<1>3. Shaped(new) BY <1>1, <1>2 DEF Agreed, Sound, Shaped
<1>4. Listed(new) /\ OnlyCurrent(new) BY <1>1, <1>2 DEF Listed, OnlyCurrent
<1>5. Filed(new) BY <1>1, <1>2 DEF Agreed, Sound, Filed
<1>6. Tidy(e) => Tidy(new) BY <1>1 DEF Tidy
<1>7. Tight(e) => Tight(new) BY <1>1, <1>2 DEF Tight
<1>8. /\ IsTyped(e) /\ current \in SceneIds \cup {None}
      /\ \A s \in DOMAIN scenes :
            /\ s \in SceneIds \cup {None} /\ scenes[s].id \in SceneIds
            /\ scenes[s].host \in Hosts /\ scenes[s].requests \subseteq RequestIds
      => IsTyped(new)
  BY <1>1 DEF IsTyped
<1> QED BY <1>2, <1>3, <1>4, <1>5, <1>6, <1>7, <1>8 DEF Agreed, Sound, new

LEMMA CurrentFoundAgrees ==
    ASSUME NEW e, Agreed(e)
    PROVE  LET new == CurrentFound(e) IN
           /\ Agreed(new) /\ (Tidy(e) => Tidy(new)) /\ Named(new) = Named(e)
           /\ new.current = e.current
           /\ DOMAIN new.scenes = DOMAIN e.scenes \cup {e.current}
           /\ e.current \in DOMAIN e.scenes => new = e
           /\ IsTyped(e) => IsTyped(new)
<1> DEFINE scenes == Found(e.scenes, e.current, BlankScene)
<1>1. CurrentFound(e) = Editor(scenes, e.current, e.requests, e.trajectories)
  <2>1. e = Editor(e.scenes, e.current, e.requests, e.trajectories) BY DEF Agreed, Sound, Shaped
  <2>2. CurrentFound(e) = [e EXCEPT !.scenes = scenes] BY DEF CurrentFound
  <2> HIDE DEF scenes
  <2> QED BY <2>1, <2>2 DEF Editor
<1>2. IsScene(BlankScene) /\ BlankScene.requests = {} BY BlankScenes
<1>3. IsMap(scenes) /\ DOMAIN scenes = DOMAIN e.scenes \cup {e.current}
  BY DEF Found, IsMap
<1>4. \A s \in DOMAIN scenes : scenes[s] = IF s \in DOMAIN e.scenes THEN e.scenes[s] ELSE BlankScene
  BY DEF Found
<1> HIDE DEF scenes
<1>5. \A s \in DOMAIN scenes : IsScene(scenes[s]) BY <1>2, <1>4 DEF Agreed, Sound, Shaped
<1>6. e.current \in DOMAIN scenes /\ scenes[e.current].requests \subseteq Named(e)
  BY <1>2, <1>3, <1>4 DEF Agreed, Sound, Listed
<1>7. \A s \in DOMAIN scenes : scenes[s].requests # {} => s = e.current
  BY <1>2, <1>4 DEF Agreed, Sound, OnlyCurrent
<1>8. ASSUME e.current \in DOMAIN e.scenes PROVE CurrentFound(e) = e
  <2>1. scenes = e.scenes BY <1>3, <1>4, <1>8 DEF IsMap, Agreed, Sound, Shaped
  <2> QED BY <1>1, <2>1 DEF Agreed, Sound, Shaped
<1>9. IsTyped(e) => /\ e.current \in SceneIds \cup {None}
                    /\ \A s \in DOMAIN scenes :
                          /\ s \in SceneIds \cup {None} /\ scenes[s].id \in SceneIds
                          /\ scenes[s].host \in Hosts /\ scenes[s].requests \subseteq RequestIds
  BY <1>3, <1>4, BlankScenes DEF IsTyped
<1> DEFINE new == Editor(scenes, e.current, e.requests, e.trajectories)
<1>10. /\ Agreed(new) /\ (Tidy(e) => Tidy(new)) /\ Named(new) = Named(e)
       /\ IsTyped(e) => IsTyped(new)
  BY <1>3, <1>5, <1>6, <1>7, <1>9, ScenesChange
<1> QED BY <1>1, <1>3, <1>8, <1>10, EditorFields

LEMMA SceneCreatedAgrees ==
    ASSUME NEW e, Agreed(e), NEW w
    PROVE  LET new == SceneCreated(e, w) IN
           /\ Agreed(new) /\ (Tidy(e) => Tidy(new)) /\ NextSceneId(w) \in DOMAIN new.scenes
           /\ IsTyped(e) /\ NextSceneId(w) \in SceneIds => IsTyped(new)
           /\ Placed(e) => Placed(new)
           /\ Tight(e) => Tight(new)
<1> DEFINE n == NextSceneId(w)
           blank == [id |-> n, host |-> Here, requests |-> {}]
           scenes == Put(e.scenes, n, blank)
<1>1. SceneCreated(e, w) = Editor(scenes, e.current, e.requests, e.trajectories)
  <2>1. e = Editor(e.scenes, e.current, e.requests, e.trajectories) BY DEF Agreed, Sound, Shaped
  <2>2. SceneCreated(e, w) = [e EXCEPT !.scenes = scenes] BY DEF SceneCreated
  <2> HIDE DEF scenes
  <2> QED BY <2>1, <2>2 DEF Editor
<1>2. /\ IsScene(blank) /\ blank.requests = {} /\ blank.id = n
      /\ blank.host = Here /\ Here \in Hosts
  BY DEF IsScene, Hosts
<1> HIDE DEF n, blank
<1>3. IsMap(scenes) /\ DOMAIN scenes = DOMAIN e.scenes \cup {n} BY DEF Put, IsMap
<1>4. \A s \in DOMAIN scenes : scenes[s] = IF s = n THEN blank ELSE e.scenes[s] BY DEF Put
<1> HIDE DEF scenes
<1>5. \A s \in DOMAIN scenes : IsScene(scenes[s]) BY <1>2, <1>3, <1>4 DEF Agreed, Sound, Shaped
<1>6. e.current \in DOMAIN scenes => scenes[e.current].requests \subseteq Named(e)
  BY <1>2, <1>3, <1>4 DEF Agreed, Sound, Listed
<1>7. \A s \in DOMAIN scenes : scenes[s].requests # {} => s = e.current
  BY <1>2, <1>3, <1>4 DEF Agreed, Sound, OnlyCurrent
<1> DEFINE new == Editor(scenes, e.current, e.requests, e.trajectories)
<1>8. IsTyped(e) /\ n \in SceneIds =>
         /\ e.current \in SceneIds \cup {None}
         /\ \A s \in DOMAIN scenes :
               /\ s \in SceneIds \cup {None} /\ scenes[s].id \in SceneIds
               /\ scenes[s].host \in Hosts /\ scenes[s].requests \subseteq RequestIds
  BY <1>2, <1>3, <1>4 DEF IsTyped
<1>9. /\ Agreed(new) /\ (Tidy(e) => Tidy(new)) /\ Named(new) = Named(e)
      /\ Tight(e) => Tight(new)
      /\ IsTyped(e) /\ n \in SceneIds => IsTyped(new)
  BY <1>3, <1>5, <1>6, <1>7, <1>8, ScenesChange
<1>10. new.scenes = scenes /\ new.current = e.current BY EditorFields
<1>11. Placed(e) => Placed(new) BY <1>2, <1>3, <1>4, <1>9, <1>10 DEF Placed
<1>12. n \in DOMAIN new.scenes BY <1>3, <1>10
<1> QED BY <1>1, <1>9, <1>11, <1>12 DEF n

\* Deleted requests leave none of their trajectories, and nothing of the others goes.
LEMMA RequestsDeletedAgrees ==
    ASSUME NEW e, Sound(e), NEW rs
    PROVE  LET new == RequestsDeleted(e, rs) IN
           /\ Sound(new) /\ (OnlyCurrent(e) => OnlyCurrent(new)) /\ (Tidy(e) => Tidy(new))
           /\ Named(new) = Named(e) \ rs
           /\ new.current = e.current /\ IsMap(new.scenes)
           /\ DOMAIN e.scenes \subseteq DOMAIN new.scenes
           /\ DOMAIN new.scenes \subseteq DOMAIN e.scenes \cup {e.current}
           /\ \A s \in DOMAIN e.scenes : s # e.current => new.scenes[s] = e.scenes[s]
           /\ e.current \in DOMAIN new.scenes => new.scenes[e.current].requests \cap rs = {}
           /\ DOMAIN new.trajectories \subseteq DOMAIN e.trajectories
           /\ IsTyped(e) => IsTyped(new)
           /\ Placed(e) /\ rs \subseteq Named(e) => Placed(new) /\ (Complete(e) => Complete(new))
           /\ Tight(e) => Tight(new)
<1> DEFINE new == RequestsDeleted(e, rs)
           listed == [k \in DOMAIN e.trajectories |-> IF k \in rs THEN e.requests[k].trajs ELSE {}]
           found == Found(e.scenes, e.current, BlankScene)
           scenes == IF rs = {} THEN e.scenes ELSE [found EXCEPT ![e.current].requests = @ \ rs]
           requests == Without(e.requests, rs)
           trajectories == Remaining(e.trajectories, listed)
<1>1. new = Editor(scenes, e.current, requests, trajectories)
  <2>1. e = Editor(e.scenes, e.current, e.requests, e.trajectories) BY DEF Sound, Shaped
  <2>2. new = [e EXCEPT !.requests = requests, !.trajectories = trajectories, !.scenes = scenes]
    BY DEF RequestsDeleted
  <2> HIDE DEF scenes, requests, trajectories, new
  <2> QED BY <2>1, <2>2 DEF Editor
<1>2. /\ new.scenes = scenes /\ new.current = e.current
      /\ new.requests = requests /\ new.trajectories = trajectories
  <2> HIDE DEF scenes, requests, trajectories, new
  <2> QED BY <1>1, EditorFields
<1>3. /\ IsMap(requests) /\ DOMAIN requests = DOMAIN e.requests \ rs
      /\ \A r \in DOMAIN requests : requests[r] = e.requests[r]
  BY DEF Without, IsMap
<1>4. /\ IsMap(trajectories) /\ DOMAIN trajectories \subseteq DOMAIN e.trajectories
      /\ \A k \in DOMAIN e.trajectories \ rs :
            e.trajectories[k] # {} => k \in DOMAIN trajectories /\ trajectories[k] = e.trajectories[k]
      /\ \A k \in DOMAIN trajectories :
            trajectories[k] = e.trajectories[k] \ (IF k \in rs THEN e.requests[k].trajs ELSE {})
      /\ \A k \in DOMAIN trajectories : trajectories[k] # {}
  BY DEF Remaining, IsMap
<1>5. /\ IsScene(BlankScene) /\ BlankScene.requests = {}
      /\ BlankScene.id \in SceneIds /\ BlankScene.host \in Hosts
  BY BlankScenes
<1>6. DOMAIN found = DOMAIN e.scenes \cup {e.current} /\ IsMap(found)
  BY DEF Found, IsMap
<1>7. /\ \A s \in DOMAIN e.scenes : found[s] = e.scenes[s]
      /\ e.current \in DOMAIN e.scenes \/ found[e.current] = BlankScene
  BY DEF Found
<1>8. \A s \in DOMAIN found : IsScene(found[s])
  BY <1>5, <1>6, <1>7 DEF Sound, Shaped
<1>9. /\ IsMap(scenes) /\ DOMAIN e.scenes \subseteq DOMAIN scenes
      /\ DOMAIN scenes \subseteq DOMAIN e.scenes \cup {e.current}
      /\ \A s \in DOMAIN e.scenes : s # e.current => scenes[s] = e.scenes[s]
      /\ e.current \in DOMAIN scenes => scenes[e.current].requests = found[e.current].requests \ rs
      /\ \A s \in DOMAIN scenes : /\ IsScene(scenes[s])
                                 /\ scenes[s].id = found[s].id /\ scenes[s].host = found[s].host
  <2> HIDE DEF found
  <2>1. CASE rs = {} BY <1>7, <2>1 DEF Sound, Shaped
  <2>2. CASE rs # {}
    <3>1. scenes = [found EXCEPT ![e.current].requests = found[e.current].requests \ rs] BY <2>2
    <3> HIDE DEF scenes
    <3>2. DOMAIN scenes = DOMAIN found /\ IsMap(scenes) BY <1>6, <3>1 DEF IsMap
    <3>3. \A s \in DOMAIN found : s # e.current => scenes[s] = found[s] BY <3>1
    <3>4. scenes[e.current] = [found[e.current] EXCEPT !.requests = found[e.current].requests \ rs]
      BY <1>6, <3>1
    <3>5. /\ IsScene(scenes[e.current])
          /\ scenes[e.current].requests = found[e.current].requests \ rs
          /\ scenes[e.current].id = found[e.current].id
          /\ scenes[e.current].host = found[e.current].host
      <4>1. IsScene(found[e.current]) BY <1>6, <1>8
      <4> QED BY <3>4, <4>1, SceneRelisted
    <3> QED BY <1>6, <1>7, <1>8, <3>2, <3>3, <3>5
  <2> QED BY <2>1, <2>2
<1> HIDE DEF new, listed, found, scenes, requests, trajectories
<1>10. Named(new) = Named(e) \ rs BY <1>2, <1>3 DEF Named
<1>11. Shaped(new) BY <1>1, <1>2, <1>3, <1>4, <1>9, <1>10 DEF Shaped, Sound
<1>12. Filed(new)
  <2> SUFFICES ASSUME NEW r \in Named(new), NEW t \in new.requests[r].trajs
               PROVE  r \in DOMAIN new.trajectories /\ t \in new.trajectories[r]
    BY DEF Filed
  <2>1. r \in Named(e) /\ r \notin rs /\ t \in e.requests[r].trajs BY <1>2, <1>3, <1>10 DEF Named
  <2>2. r \in DOMAIN e.trajectories /\ t \in e.trajectories[r] BY <2>1 DEF Sound, Filed
  <2> QED BY <1>2, <1>4, <2>1, <2>2
<1>13. Listed(new)
  <2>1. found[e.current].requests \subseteq Named(e) BY <1>5, <1>7 DEF Sound, Listed
  <2> QED BY <1>2, <1>9, <1>10, <2>1 DEF Listed
<1>14. OnlyCurrent(e) => OnlyCurrent(new) BY <1>2, <1>9 DEF OnlyCurrent
<1>15. Tidy(e) => Tidy(new) BY <1>2, <1>3, <1>4 DEF Tidy
<1>16. IsTyped(e) => IsTyped(new)
  <2> SUFFICES ASSUME IsTyped(e) PROVE IsTyped(new) OBVIOUS
  <2>1. ASSUME NEW s \in DOMAIN scenes
        PROVE  /\ s \in SceneIds \cup {None} /\ scenes[s].id \in SceneIds
               /\ scenes[s].host \in Hosts /\ scenes[s].requests \subseteq RequestIds
    <3>1. s \in DOMAIN e.scenes \/ s = e.current BY <1>9
    <3>2. s \in SceneIds \cup {None} BY <3>1 DEF IsTyped
    <3>3. /\ found[s].id \in SceneIds /\ found[s].host \in Hosts
          /\ found[s].requests \subseteq RequestIds
      BY <1>5, <1>7, <3>1 DEF IsTyped
    <3>4. scenes[s].requests \subseteq RequestIds BY <1>7, <1>9, <3>1, <3>3
    <3> QED BY <1>9, <3>2, <3>3, <3>4
  <2>2. ASSUME NEW k \in DOMAIN trajectories
        PROVE  k \in RequestIds \cup {None} /\ trajectories[k] \in Numbers
    <3>1. k \in RequestIds \cup {None} /\ e.trajectories[k] \in Numbers BY <1>4 DEF IsTyped
    <3> DEFINE gone == IF k \in rs THEN e.requests[k].trajs ELSE {}
    <3>2. trajectories[k] = e.trajectories[k] \ gone BY <1>4
    <3> HIDE DEF gone
    <3>3. e.trajectories[k] \ gone \in Numbers BY <3>1, SomeNumbers
    <3> QED BY <3>1, <3>2, <3>3
  <2> QED BY <1>2, <1>3, <2>1, <2>2 DEF IsTyped
<1>17. ASSUME Placed(e), rs \subseteq Named(e) PROVE Placed(new) /\ (Complete(e) => Complete(new))
  <2>1. CASE rs = {}
    <3>1. scenes = e.scenes BY <2>1 DEF scenes
    <3> QED BY <1>2, <1>10, <1>17, <2>1, <3>1 DEF Placed, Complete
  <2>2. CASE rs # {}
    <3>1. e.current \in DOMAIN e.scenes BY <1>17, <2>2 DEF Placed
    <3>2. \A s \in DOMAIN scenes : scenes[s].id = s /\ scenes[s].host = Here
      BY <1>7, <1>9, <1>17, <3>1 DEF Placed
    <3>3. Complete(e) => Named(e) \ rs \subseteq scenes[e.current].requests
      BY <1>7, <1>9, <3>1 DEF Complete
    <3> QED BY <1>2, <1>9, <1>10, <3>1, <3>2, <3>3 DEF Placed, Complete
  <2> QED BY <2>1, <2>2
<1>18. Tight(e) => Tight(new)
  <2> SUFFICES ASSUME Tight(e), NEW k \in DOMAIN trajectories
               PROVE  k \in Named(e) \ rs /\ trajectories[k] = requests[k].trajs
    BY <1>2, <1>10 DEF Tight
  <2>1. k \in Named(e) /\ e.trajectories[k] = e.requests[k].trajs BY <1>4 DEF Tight
  <2>2. k \notin rs BY <1>4, <2>1
  <2>3. requests[k] = e.requests[k] BY <1>3, <2>1, <2>2 DEF Named
  <2> QED BY <1>4, <2>1, <2>2, <2>3
<1> QED BY <1>2, <1>4, <1>9, <1>10, <1>11, <1>12, <1>13, <1>14, <1>15, <1>16, <1>17, <1>18 DEF Sound, new

LEMMA CurrentSetAgrees ==
    ASSUME NEW e, Sound(e), NEW w, NEW s \in DOMAIN e.scenes, NEW withRequests, NEW withTrajectories,
           \A k \in DOMAIN e.scenes : e.scenes[k].requests # {} => k \in {s, e.current},
           s # e.current =>
              \A r \in e.scenes[s].requests : withRequests /\ r \in RequestIds /\ Holding(w, s, r) # {}
    PROVE  LET new == CurrentSet(e, w, s, withRequests, withTrajectories) IN
           /\ Agreed(new) /\ (Tidy(e) => Tidy(new)) /\ new.current = s
           /\ Named(new) = IF withRequests THEN Held(w, s) ELSE {}
           /\ IsTyped(e) /\ w \in Seq(Documents) => IsTyped(new)
           /\ Placed(e) => Placed(new)
           /\ (\A r \in Held(w, s) : ~(Cardinality(Holding(w, s, r)) > 1)) => Complete(new)
           /\ Tight(e) => Tight(new)
<1> DEFINE new == CurrentSet(e, w, s, withRequests, withTrajectories)
           left == RequestsDeleted(e, Named(e))
           ids == IF withRequests THEN {r \in RequestIds : Holding(w, s, r) # {}} ELSE {}
           twice == {r \in ids : Cardinality(Holding(w, s, r)) > 1}
           trajs(r) == IF withTrajectories THEN TrajectoriesOf(w, s, r) ELSE {}
           orphans(k) == IF k \in DOMAIN left.trajectories THEN left.trajectories[k] ELSE {}
           listed == (left.scenes[s].requests \cup ids) \ twice
           scenes == [left.scenes EXCEPT ![s].requests = (@ \cup ids) \ twice]
           requests == [r \in ids |-> [named |-> TRUE, trajs |-> trajs(r)]]
           trajectories == [k \in DOMAIN left.trajectories \cup {r \in ids : trajs(r) # {}} |->
                              orphans(k) \cup (IF k \in ids THEN trajs(k) ELSE {})]
<1>1. new = Editor(scenes, s, requests, trajectories) BY DEF CurrentSet, Editor
<1>2. /\ new.scenes = scenes /\ new.current = s
      /\ new.requests = requests /\ new.trajectories = trajectories
  <2> HIDE DEF new, scenes, requests, trajectories
  <2> QED BY <1>1, EditorFields
<1>3. ids \subseteq RequestIds
  <2> HIDE DEF twice
  <2> QED OBVIOUS
<1>4. /\ Sound(left) /\ IsMap(left.scenes)
      /\ DOMAIN e.scenes \subseteq DOMAIN left.scenes
      /\ DOMAIN left.scenes \subseteq DOMAIN e.scenes \cup {e.current}
      /\ \A k \in DOMAIN e.scenes : k # e.current => left.scenes[k] = e.scenes[k]
      /\ e.current \in DOMAIN left.scenes => left.scenes[e.current].requests \cap Named(e) = {}
      /\ DOMAIN left.trajectories \subseteq DOMAIN e.trajectories
      /\ left.current = e.current /\ Named(left) = {}
      /\ IsTyped(e) => IsTyped(left)
      /\ Placed(e) => Placed(left)
      /\ Tight(e) => Tight(left)
  BY RequestsDeletedAgrees
<1>5. /\ IsMap(requests) /\ DOMAIN requests = ids
      /\ \A r \in ids : requests[r].named /\ requests[r].trajs = trajs(r) /\ IsRequest(requests[r])
  BY DEF IsMap, IsRequest
<1>6. /\ IsMap(trajectories)
      /\ DOMAIN trajectories \subseteq DOMAIN left.trajectories \cup ids
      /\ \A r \in ids : \A t \in trajs(r) : r \in DOMAIN trajectories /\ t \in trajectories[r]
      /\ \A k \in DOMAIN trajectories :
            trajectories[k] = (IF k \in DOMAIN left.trajectories THEN left.trajectories[k] ELSE {})
                              \cup (IF k \in ids THEN trajs(k) ELSE {})
  BY DEF IsMap
<1>0. /\ ids = IF withRequests THEN Held(w, s) ELSE {}
      /\ (\A r \in Held(w, s) : ~(Cardinality(Holding(w, s, r)) > 1)) => twice = {}
  BY DEF Held
<1> HIDE DEF new, left, ids, trajs, orphans, trajectories, requests
<1>7. e.current \in DOMAIN left.scenes => left.scenes[e.current].requests = {}
  BY <1>4 DEF Sound, Listed
<1>8. \A k \in DOMAIN left.scenes : IsScene(left.scenes[k]) BY <1>4 DEF Sound, Shaped
<1>9. left.scenes[s].requests \subseteq ids BY <1>4, <1>7 DEF ids
<1>10. /\ IsMap(scenes) /\ DOMAIN scenes = DOMAIN left.scenes
       /\ \A k \in DOMAIN left.scenes : k # s => scenes[k] = left.scenes[k]
       /\ IsScene(scenes[s]) /\ scenes[s].requests = listed
       /\ scenes[s].id = left.scenes[s].id /\ scenes[s].host = left.scenes[s].host
  <2>1. scenes = [left.scenes EXCEPT ![s].requests = listed] OBVIOUS
  <2> HIDE DEF scenes, listed
  <2>2. DOMAIN scenes = DOMAIN left.scenes /\ IsMap(scenes) BY <1>4, <2>1 DEF IsMap
  <2>3. \A k \in DOMAIN left.scenes : k # s => scenes[k] = left.scenes[k] BY <2>1
  <2>4. scenes[s] = [left.scenes[s] EXCEPT !.requests = listed] BY <1>4, <2>1
  <2>5. /\ IsScene(scenes[s]) /\ scenes[s].requests = listed
        /\ scenes[s].id = left.scenes[s].id /\ scenes[s].host = left.scenes[s].host
    BY <1>4, <1>8, <2>4, SceneRelisted
  <2> QED BY <2>2, <2>3, <2>5
<1>11. listed \subseteq ids /\ (twice = {} => ids \subseteq listed) BY <1>9
<1> HIDE DEF scenes, listed, twice
<1>12. Named(new) = ids BY <1>2, <1>5 DEF Named
<1>13. Shaped(new)
  <2>1. \A k \in DOMAIN scenes : IsScene(scenes[k]) BY <1>8, <1>10
  <2>2. \A r \in DOMAIN requests : IsRequest(requests[r]) BY <1>5
  <2> QED BY <1>1, <1>2, <1>3, <1>5, <1>6, <1>10, <1>12, <2>1, <2>2 DEF Shaped
<1>14. Listed(new) BY <1>2, <1>10, <1>11, <1>12 DEF Listed
<1>15. Filed(new) BY <1>2, <1>5, <1>6, <1>12 DEF Filed
<1>16. OnlyCurrent(new)
  <2> SUFFICES ASSUME NEW k \in DOMAIN left.scenes, k # s PROVE left.scenes[k].requests = {}
    BY <1>2, <1>10 DEF OnlyCurrent
  <2>1. CASE k = e.current BY <1>7, <2>1
  <2>2. CASE k # e.current BY <1>4, <2>2
  <2> QED BY <2>1, <2>2
<1>17. Tidy(e) => Tidy(new)
  <2>1. None \notin ids BY <1>3, NoneIsNoRequest
  <2> QED BY <1>2, <1>4, <1>5, <1>6, <2>1 DEF Tidy
<1>18. IsTyped(e) /\ w \in Seq(Documents) => IsTyped(new)
  <2> SUFFICES ASSUME IsTyped(left), w \in Seq(Documents) PROVE IsTyped(new) BY <1>4
  <2>1. \A k \in DOMAIN scenes :
           /\ k \in SceneIds \cup {None} /\ scenes[k].id \in SceneIds
           /\ scenes[k].host \in Hosts /\ scenes[k].requests \subseteq RequestIds
    BY <1>3, <1>10, <1>11 DEF IsTyped
  <2>2. s \in SceneIds \cup {None} BY <1>4 DEF IsTyped
  <2>3. \A r \in ids : trajs(r) \in Numbers BY TrajectoriesAreNumbers, SomeNumbers DEF trajs
  <2>4. ASSUME NEW k \in DOMAIN trajectories
        PROVE  k \in RequestIds \cup {None} /\ trajectories[k] \in Numbers
    <3> DEFINE old == IF k \in DOMAIN left.trajectories THEN left.trajectories[k] ELSE {}
               more == IF k \in ids THEN trajs(k) ELSE {}
    <3>1. old \in Numbers BY SomeNumbers DEF IsTyped
    <3>2. more \in Numbers BY <2>3, SomeNumbers
    <3>3. trajectories[k] = old \cup more BY <1>6
    <3> HIDE DEF old, more
    <3>4. old \cup more \in Numbers BY <3>1, <3>2, SomeNumbers
    <3>5. k \in RequestIds \cup {None} BY <1>3, <1>6 DEF IsTyped
    <3> QED BY <3>3, <3>4, <3>5
  <2> QED BY <1>2, <1>3, <1>5, <2>1, <2>2, <2>3, <2>4 DEF IsTyped
<1>19. Placed(e) => Placed(new) BY <1>2, <1>4, <1>10 DEF Placed
<1>20. (\A r \in Held(w, s) : ~(Cardinality(Holding(w, s, r)) > 1)) => Complete(new)
  BY <1>0, <1>2, <1>10, <1>11, <1>12 DEF Complete
<1>21. Tight(e) => Tight(new)
  <2> SUFFICES ASSUME Tight(left), NEW k \in DOMAIN trajectories
               PROVE  k \in ids /\ trajectories[k] = requests[k].trajs
    BY <1>2, <1>4, <1>12 DEF Tight
  <2>1. k \notin DOMAIN left.trajectories BY <1>4 DEF Tight
  <2>2. k \in ids BY <1>6, <2>1
  <2> QED BY <1>5, <1>6, <2>1, <2>2
<1> QED BY <1>0, <1>2, <1>12, <1>13, <1>14, <1>15, <1>16, <1>17, <1>18, <1>19, <1>20, <1>21
    DEF Agreed, Sound, new

\* A change of one request and of the trajectories under it.
LEMMA EntriesChange ==
    ASSUME NEW e, Agreed(e), NEW requests, IsMap(requests), NEW trajectories, IsMap(trajectories),
           DOMAIN e.requests \subseteq DOMAIN requests,
           \A r \in DOMAIN requests : IsRequest(requests[r]),
           \A r \in DOMAIN requests :
              requests[r].named <=> (r \in DOMAIN e.requests /\ e.requests[r].named),
           \A r \in DOMAIN requests : requests[r].named =>
              \A t \in requests[r].trajs : r \in DOMAIN trajectories /\ t \in trajectories[r]
    PROVE  LET new == Editor(e.scenes, e.current, requests, trajectories) IN
           /\ Agreed(new) /\ Named(new) = Named(e) /\ new.current = e.current
           /\ (Placed(e) => Placed(new)) /\ (Complete(e) => Complete(new))
           /\ /\ IsTyped(e)
              /\ \A r \in DOMAIN requests :
                    /\ r \in RequestIds \cup {None}
                    /\ requests[r].named \in BOOLEAN /\ requests[r].trajs \in Numbers
              /\ \A r \in DOMAIN trajectories :
                    r \in RequestIds \cup {None} /\ trajectories[r] \in Numbers
              => IsTyped(new)
<1> DEFINE new == Editor(e.scenes, e.current, requests, trajectories)
<1>1. /\ new.scenes = e.scenes /\ new.current = e.current
      /\ new.requests = requests /\ new.trajectories = trajectories
      /\ new = Editor(new.scenes, new.current, new.requests, new.trajectories)
  BY EditorFields
<1> HIDE DEF new
<1>2. Named(new) = Named(e) BY <1>1 DEF Named
<1>3. Shaped(new) BY <1>1, <1>2 DEF Agreed, Sound, Shaped
<1>4. Listed(new) /\ OnlyCurrent(new) BY <1>1, <1>2 DEF Listed, OnlyCurrent, Agreed, Sound
<1>5. Filed(new) BY <1>1 DEF Filed, Named
<1>6. (Placed(e) => Placed(new)) /\ (Complete(e) => Complete(new))
  BY <1>1, <1>2 DEF Placed, Complete
<1>7. /\ IsTyped(e)
      /\ \A r \in DOMAIN requests :
            /\ r \in RequestIds \cup {None}
            /\ requests[r].named \in BOOLEAN /\ requests[r].trajs \in Numbers
      /\ \A r \in DOMAIN trajectories :
            r \in RequestIds \cup {None} /\ trajectories[r] \in Numbers
      => IsTyped(new)
  BY <1>1 DEF IsTyped
<1> QED BY <1>1, <1>2, <1>3, <1>4, <1>5, <1>6, <1>7 DEF Agreed, Sound, new

LEMMA AddedAgrees ==
    ASSUME NEW e, Agreed(e), NEW key
    PROVE  LET new == Added(e, key) IN
           /\ Agreed(new) /\ Named(new) = Named(e) /\ new.current = e.current
           /\ Tidy(e) /\ key \in Named(e) => Tidy(new)
           /\ (Placed(e) => Placed(new)) /\ (Complete(e) => Complete(new))
           /\ IsTyped(e) /\ key \in RequestIds \cup {None} => IsTyped(new)
           /\ Tight(e) /\ key \in Named(e) => Tight(new)
<1> DEFINE new == Added(e, key)
           found == Found(e.requests, key, BlankRequest)
           t == NextId(found[key].trajs)
           name == IF found[key].named THEN key ELSE None
           requests == [found EXCEPT ![key].trajs = @ \cup {t}]
           filed == Found(e.trajectories, name, {})
           trajectories == [filed EXCEPT ![name] = @ \cup {t}]
<1>1. new = Editor(e.scenes, e.current, requests, trajectories)
  <2>1. e = Editor(e.scenes, e.current, e.requests, e.trajectories) BY DEF Agreed, Sound, Shaped
  <2>2. new = [e EXCEPT !.requests = requests, !.trajectories = trajectories] BY DEF Added
  <2> HIDE DEF requests, trajectories, new
  <2> QED BY <2>1, <2>2 DEF Editor
<1>2. /\ IsMap(found) /\ DOMAIN found = DOMAIN e.requests \cup {key}
      /\ \A r \in DOMAIN found : found[r] = IF r \in DOMAIN e.requests THEN e.requests[r] ELSE BlankRequest
  BY DEF Found, IsMap
<1>3. /\ IsMap(filed) /\ DOMAIN filed = DOMAIN e.trajectories \cup {name}
      /\ \A k \in DOMAIN e.trajectories : filed[k] = e.trajectories[k]
      /\ name \notin DOMAIN e.trajectories => filed[name] = {}
  BY DEF Found, IsMap
<1>4. IsRequest(BlankRequest) /\ BlankRequest.named = FALSE /\ BlankRequest.trajs = {}
  BY DEF BlankRequest, IsRequest
<1>5. \A r \in DOMAIN found : IsRequest(found[r]) BY <1>2, <1>4 DEF Agreed, Sound, Shaped
<1>6. \A r \in DOMAIN found : found[r].named <=> r \in DOMAIN e.requests /\ e.requests[r].named
  BY <1>2, <1>4
<1> HIDE DEF new, found, t, name, filed
<1>7. /\ IsMap(requests) /\ DOMAIN requests = DOMAIN found
      /\ \A r \in DOMAIN found : r # key => requests[r] = found[r]
      /\ IsRequest(requests[key]) /\ requests[key].named = found[key].named
      /\ requests[key].trajs = found[key].trajs \cup {t}
  <2>1. requests = [found EXCEPT ![key].trajs = found[key].trajs \cup {t}] OBVIOUS
  <2> HIDE DEF requests
  <2>2. DOMAIN requests = DOMAIN found /\ IsMap(requests) BY <1>2, <2>1 DEF IsMap
  <2>3. \A r \in DOMAIN found : r # key => requests[r] = found[r] BY <2>1
  <2>4. requests[key] = [found[key] EXCEPT !.trajs = found[key].trajs \cup {t}] BY <1>2, <2>1
  <2>5. found[key] = [named |-> found[key].named, trajs |-> found[key].trajs]
    BY <1>2, <1>5 DEF IsRequest
  <2>6. requests[key] = [named |-> found[key].named, trajs |-> found[key].trajs \cup {t}]
    BY <2>4, <2>5
  <2> QED BY <2>2, <2>3, <2>6 DEF IsRequest
<1>8. /\ IsMap(trajectories) /\ DOMAIN trajectories = DOMAIN filed
      /\ \A k \in DOMAIN filed : filed[k] \subseteq trajectories[k]
      /\ t \in trajectories[name] /\ trajectories[name] = filed[name] \cup {t}
      /\ \A k \in DOMAIN filed : k # name => trajectories[k] = filed[k]
  BY <1>3 DEF IsMap
<1> HIDE DEF requests, trajectories
<1>9. \A r \in DOMAIN requests : IsRequest(requests[r]) BY <1>5, <1>7
<1>10. \A r \in DOMAIN requests : requests[r].named <=> r \in DOMAIN e.requests /\ e.requests[r].named
  BY <1>6, <1>7
<1>11. ASSUME NEW r \in DOMAIN requests, requests[r].named, NEW x \in requests[r].trajs
       PROVE  r \in DOMAIN trajectories /\ x \in trajectories[r]
  <2>1. r \in Named(e) BY <1>10, <1>11 DEF Named
  <2>2. \A y \in e.requests[r].trajs : r \in DOMAIN e.trajectories /\ y \in e.trajectories[r]
    BY <2>1 DEF Agreed, Sound, Filed
  <2>3. found[r] = e.requests[r] BY <1>2, <2>1 DEF Named
  <2>4. CASE r # key
    <3>1. x \in e.requests[r].trajs BY <1>7, <1>11, <2>3, <2>4
    <3> QED BY <1>3, <1>8, <2>2, <3>1
  <2>5. CASE r = key
    <3>1. name = r BY <1>7, <1>11, <2>5 DEF name
    <3>2. x = t \/ x \in e.requests[r].trajs BY <1>7, <1>11, <2>3, <2>5
    <3> QED BY <1>3, <1>8, <2>2, <3>1, <3>2
  <2> QED BY <2>4, <2>5
<1>12. /\ Agreed(new) /\ Named(new) = Named(e) /\ new.current = e.current
       /\ (Placed(e) => Placed(new)) /\ (Complete(e) => Complete(new))
       /\ /\ IsTyped(e)
          /\ \A r \in DOMAIN requests :
                /\ r \in RequestIds \cup {None}
                /\ requests[r].named \in BOOLEAN /\ requests[r].trajs \in Numbers
          /\ \A r \in DOMAIN trajectories :
                r \in RequestIds \cup {None} /\ trajectories[r] \in Numbers
          => IsTyped(new)
  <2>1. DOMAIN e.requests \subseteq DOMAIN requests BY <1>2, <1>7
  <2> QED BY <1>1, <1>7, <1>8, <1>9, <1>10, <1>11, <2>1, EntriesChange
<1>13. Tidy(e) /\ key \in Named(e) => Tidy(new)
  <2> SUFFICES ASSUME Tidy(e), key \in Named(e) PROVE Tidy(new) OBVIOUS
  <2>1. new.requests = requests /\ new.trajectories = trajectories BY <1>1, EditorFields
  <2>2. key \in DOMAIN e.requests /\ e.requests[key].named /\ key # None
    BY NoneIsNoRequest DEF Named, Agreed, Sound, Shaped
  <2>3. name = key BY <1>2, <1>6, <2>2 DEF name
  <2> QED BY <1>2, <1>3, <1>7, <1>8, <1>10, <2>1, <2>2, <2>3 DEF Tidy
<1>14. ASSUME IsTyped(e), key \in RequestIds \cup {None} PROVE IsTyped(new)
  <2>1. \A r \in DOMAIN found : /\ r \in RequestIds \cup {None}
                                /\ found[r].named \in BOOLEAN /\ found[r].trajs \in Numbers
    BY <1>2, <1>4, <1>14, SomeNumbers DEF IsTyped
  <2>2. t \in Nat
    <3>1. found[key].trajs \in Numbers BY <1>2, <2>1
    <3> QED BY <3>1, NextIdIsNew DEF t
  <2>3. \A r \in DOMAIN requests : /\ r \in RequestIds \cup {None}
                                   /\ requests[r].named \in BOOLEAN /\ requests[r].trajs \in Numbers
    <3>1. found[key].trajs \cup {t} \in Numbers
      <4>1. found[key].trajs \in Numbers /\ {t} \in Numbers BY <1>2, <2>1, <2>2, SomeNumbers
      <4> QED BY <4>1, SomeNumbers
    <3> QED BY <1>2, <1>7, <2>1, <3>1
  <2>4. name \in RequestIds \cup {None} BY <1>14 DEF name
  <2>5. \A k \in DOMAIN filed : k \in RequestIds \cup {None} /\ filed[k] \in Numbers
    BY <1>3, <1>14, <2>4, SomeNumbers DEF IsTyped
  <2>6. filed[name] \cup {t} \in Numbers
    <3>1. filed[name] \in Numbers /\ {t} \in Numbers BY <1>3, <2>2, <2>5, SomeNumbers
    <3> QED BY <3>1, SomeNumbers
  <2>7. \A r \in DOMAIN trajectories : r \in RequestIds \cup {None} /\ trajectories[r] \in Numbers
    BY <1>8, <2>5, <2>6
  <2> QED BY <1>12, <1>14, <2>3, <2>7
<1>15. ASSUME Tight(e), key \in Named(e) PROVE Tight(new)
  <2>1. new.requests = requests /\ new.trajectories = trajectories BY <1>1, EditorFields
  <2>2. key \in DOMAIN e.requests /\ e.requests[key].named BY <1>15 DEF Named
  <2>3. name = key BY <1>2, <1>6, <2>2 DEF name
  <2>4. ASSUME NEW k \in DOMAIN trajectories
        PROVE  k \in Named(new) /\ trajectories[k] = requests[k].trajs
    <3>1. CASE k = key
      <4>1. requests[k].trajs = e.requests[k].trajs \cup {t} BY <1>2, <1>7, <2>2, <3>1
      <4>2. k \in DOMAIN e.trajectories => e.trajectories[k] = e.requests[k].trajs
        BY <1>15 DEF Tight
      <4>3. k \notin DOMAIN e.trajectories => e.requests[k].trajs = {}
        BY <1>15, <3>1 DEF Agreed, Sound, Filed
      <4>4. trajectories[k] = filed[k] \cup {t} BY <1>8, <2>3, <3>1
      <4>5. filed[k] = e.requests[k].trajs BY <1>3, <2>3, <3>1, <4>2, <4>3
      <4> QED BY <1>12, <1>15, <3>1, <4>1, <4>4, <4>5
    <3>2. CASE k # key
      <4>1. k \in DOMAIN e.trajectories /\ trajectories[k] = e.trajectories[k]
        BY <1>3, <1>8, <2>3, <3>2
      <4>2. k \in Named(e) /\ e.trajectories[k] = e.requests[k].trajs BY <1>15, <4>1 DEF Tight
      <4>3. requests[k] = e.requests[k] BY <1>2, <1>7, <3>2, <4>2 DEF Named
      <4> QED BY <1>12, <4>1, <4>2, <4>3
    <3> QED BY <3>1, <3>2
  <2> QED BY <2>1, <2>4 DEF Tight
<1> QED BY <1>12, <1>13, <1>14, <1>15 DEF new

-----------------------------------------------------------------------------
(* The warehouse *)

Own(w) == \A i \in DOMAIN w : w[i].host = Here

LEMMA DocumentFacts ==
    ASSUME NEW e, Sound(e), e.current \in DOMAIN e.scenes, NEW s
    PROVE  LET d == Document(e, s) IN
           /\ d.scene = s /\ d.host = Here
           /\ DOMAIN d.requests = e.scenes[e.current].requests
           /\ IsTyped(e) /\ s \in SceneIds => d \in Documents
<1> DEFINE listed == e.scenes[e.current].requests
           d == Document(e, s)
           requests == [r \in listed |-> Found(e.requests, r, BlankRequest)[r].trajs]
<1>1. d = [scene |-> s, host |-> Here, requests |-> requests] BY DEF Document
<1>2. d.scene = s /\ d.host = Here /\ d.requests = requests
  <2> HIDE DEF d, requests
  <2> QED BY <1>1
<1>3. IsMap(requests) /\ DOMAIN requests = listed BY DEF IsMap
<1>4. ASSUME NEW r \in listed PROVE r \in DOMAIN e.requests /\ requests[r] = e.requests[r].trajs
  <2>1. r \in DOMAIN e.requests BY DEF Sound, Listed, Named
  <2>2. Found(e.requests, r, BlankRequest)[r] = e.requests[r] BY <2>1 DEF Found
  <2> QED BY <2>1, <2>2
<1> HIDE DEF requests, d
<1>5. ASSUME IsTyped(e), s \in SceneIds PROVE d \in Documents
  <2>1. listed \subseteq RequestIds BY <1>5 DEF IsTyped
  <2>2. \A r \in DOMAIN requests : requests[r] \in Numbers BY <1>3, <1>4, <1>5 DEF IsTyped
  <2>3. requests \in Requests BY <1>3, <2>1, <2>2, RequestsFields
  <2> QED BY <1>1, <1>5, <2>3 DEF Documents, Hosts
<1> QED BY <1>2, <1>3, <1>5 DEF d

\* A copy lists what the document of it lists.
LEMMA SceneCopiedAgrees ==
    ASSUME NEW e, Agreed(e), e.current \in DOMAIN e.scenes, NEW n,
           NEW w, NEW i \in DOMAIN w, w[i] = Document(SceneCopied(e, n), n)
    PROVE  LET copied == SceneCopied(e, n)
               document == Document(copied, n) IN
           /\ Sound(copied) /\ (Tidy(e) => Tidy(copied)) /\ n \in DOMAIN copied.scenes
           /\ \A k \in DOMAIN copied.scenes : copied.scenes[k].requests # {} => k \in {n, copied.current}
           /\ \A r \in copied.scenes[n].requests : r \in RequestIds /\ Holding(w, n, r) # {}
           /\ document.scene = n /\ document.host = Here
           /\ DOMAIN document.requests = e.scenes[e.current].requests
           /\ IsTyped(e) /\ n \in SceneIds => IsTyped(copied) /\ document \in Documents
           /\ Placed(e) => Placed(copied)
           /\ Tight(e) => Tight(copied)
<1> DEFINE data == [e.scenes[e.current] EXCEPT !.id = n]
           scenes == Put(e.scenes, n, data)
           copied == SceneCopied(e, n)
           document == Document(copied, n)
<1>0. w[i] = document OBVIOUS
<1>1. copied = Editor(scenes, e.current, e.requests, e.trajectories)
  <2>1. e = Editor(e.scenes, e.current, e.requests, e.trajectories) BY DEF Agreed, Sound, Shaped
  <2>2. copied = [e EXCEPT !.scenes = scenes] BY DEF SceneCopied
  <2> HIDE DEF scenes, copied
  <2> QED BY <2>1, <2>2 DEF Editor
<1>2. /\ IsScene(data) /\ data.requests = e.scenes[e.current].requests
      /\ data.id = n /\ data.host = e.scenes[e.current].host
  <2> DEFINE x == e.scenes[e.current]
  <2>1. x = [id |-> x.id, host |-> x.host, requests |-> x.requests]
    BY DEF Agreed, Sound, Shaped, IsScene
  <2> HIDE DEF x
  <2>2. data = [id |-> n, host |-> x.host, requests |-> x.requests] BY <2>1 DEF x
  <2> QED BY <2>2 DEF IsScene, x
<1>3. /\ IsMap(scenes) /\ DOMAIN scenes = DOMAIN e.scenes \cup {n}
      /\ \A k \in DOMAIN scenes : scenes[k] = IF k = n THEN data ELSE e.scenes[k]
  BY DEF Put, IsMap
<1> HIDE DEF data, scenes, copied
<1>4. /\ copied.scenes = scenes /\ copied.current = e.current
      /\ copied.requests = e.requests /\ copied.trajectories = e.trajectories
      /\ copied = Editor(copied.scenes, copied.current, copied.requests, copied.trajectories)
  BY <1>1, EditorFields
<1>5. Named(copied) = Named(e) BY <1>4 DEF Named
<1>6. scenes[e.current].requests = e.scenes[e.current].requests BY <1>2, <1>3
<1>7. e.scenes[e.current].requests \subseteq Named(e) BY DEF Agreed, Sound, Listed
<1>8. Sound(copied)
  <2>1. \A k \in DOMAIN scenes : IsScene(scenes[k]) BY <1>2, <1>3 DEF Agreed, Sound, Shaped
  <2>2. Shaped(copied) BY <1>3, <1>4, <1>5, <2>1 DEF Agreed, Sound, Shaped
  <2>3. Listed(copied) BY <1>4, <1>5, <1>6, <1>7 DEF Listed
  <2>4. Filed(copied) BY <1>4, <1>5 DEF Filed, Agreed, Sound
  <2> QED BY <2>2, <2>3, <2>4 DEF Sound
<1>9. \A k \in DOMAIN copied.scenes : copied.scenes[k].requests # {} => k \in {n, copied.current}
  BY <1>3, <1>4 DEF Agreed, OnlyCurrent
<1>10. IsTyped(e) /\ n \in SceneIds => IsTyped(copied)
  <2> SUFFICES ASSUME IsTyped(e), n \in SceneIds PROVE IsTyped(copied) OBVIOUS
  <2>1. /\ data.id \in SceneIds /\ data.host \in Hosts /\ data.requests \subseteq RequestIds
    BY <1>2 DEF IsTyped
  <2> QED BY <1>3, <1>4, <2>1 DEF IsTyped
<1>11. /\ document.scene = n /\ document.host = Here
       /\ DOMAIN document.requests = e.scenes[e.current].requests
       /\ IsTyped(e) /\ n \in SceneIds => document \in Documents
  <2>1. copied.current \in DOMAIN copied.scenes BY <1>3, <1>4
  <2> HIDE DEF document
  <2>2. /\ document.scene = n /\ document.host = Here
        /\ DOMAIN document.requests = copied.scenes[copied.current].requests
        /\ IsTyped(copied) /\ n \in SceneIds => document \in Documents
    BY <1>8, <2>1, DocumentFacts DEF document
  <2> QED BY <1>4, <1>6, <1>10, <2>2
<1> HIDE DEF document
<1>12. ASSUME NEW r \in copied.scenes[n].requests
       PROVE  r \in RequestIds /\ Holding(w, n, r) # {}
  <2>1. r \in e.scenes[e.current].requests BY <1>2, <1>3, <1>4, <1>12
  <2>2. r \in RequestIds BY <1>7, <2>1 DEF Agreed, Sound, Shaped
  <2>3. i \in Holding(w, n, r) BY <1>0, <1>11, <2>1 DEF Holding, Stored
  <2> QED BY <2>2, <2>3
<1>13. Placed(e) => Placed(copied) BY <1>2, <1>3, <1>4, <1>5 DEF Placed
<1>14. Tight(e) => Tight(copied) BY <1>4, <1>5 DEF Tight
<1>15. Tidy(e) => Tidy(copied) BY <1>4 DEF Tidy
<1>16. n \in DOMAIN copied.scenes BY <1>3, <1>4
<1> QED BY <1>8, <1>9, <1>10, <1>11, <1>12, <1>13, <1>14, <1>15, <1>16 DEF document, copied

LEMMA StoredIdsAreNumbers ==
    ASSUME NEW w \in Seq(Documents)
    PROVE  StoredIds(w) \in Numbers
<1> DEFINE T == StoredIds(w)
           image == [i \in DOMAIN w |-> w[i].scene]
<1>1. DOMAIN w = 1..Len(w) /\ Len(w) \in Nat /\ \A i \in DOMAIN w : w[i] \in Documents OBVIOUS
<1>2. IsFiniteSet(DOMAIN w)
  <2>1. 1 \in Int /\ Len(w) \in Int BY <1>1
  <2>2. IsFiniteSet(1..Len(w)) BY Zenon, <2>1, FS_Interval
  <2> QED BY <1>1, <2>2
<1>3. image \in Surjection(DOMAIN w, T) BY DEF Surjection, StoredIds
<1>4. \A s \in T : s \in Nat BY <1>1, IdsAssumption DEF StoredIds, Documents
<1> HIDE DEF T, image
<1>5. IsFiniteSet(T) BY <1>2, <1>3, FS_Surjection
<1>6. T \in Numbers BY <1>4, <1>5 DEF Numbers
<1> QED BY <1>6 DEF T

\* A new identifier is not a stored one.
LEMMA NextSceneIsNew ==
    ASSUME NEW w \in Seq(Documents)
    PROVE  \A i \in DOMAIN w : w[i].scene # NextSceneId(w)
<1>1. NextSceneId(w) \notin StoredIds(w) BY StoredIdsAreNumbers, NextIdIsNew DEF NextSceneId
<1> QED BY <1>1 DEF StoredIds

LEMMA OneEach ==
    ASSUME NEW S, NEW w \in Seq(S), Differ(w)
    PROVE  /\ \A s : Cardinality(Stored(w, s)) <= 1
           /\ \A s, r : ~(Cardinality(Holding(w, s, r)) > 1)
<1>1. ASSUME NEW T, \A i, j \in T : i = j PROVE Cardinality(T) = 0 \/ Cardinality(T) = 1
  <2>1. CASE T = {} BY <2>1, FS_EmptySet
  <2>2. CASE T # {}
    <3>1. PICK i \in T : TRUE BY <2>2
    <3>2. T = {i} BY <1>1, <3>1
    <3> QED BY <3>2, FS_Singleton
  <2> QED BY <2>1, <2>2
<1>2. ASSUME NEW s PROVE \A i, j \in Stored(w, s) : i = j BY DEF Stored, Differ
<1>3. ASSUME NEW s, NEW r PROVE \A i, j \in Holding(w, s, r) : i = j BY <1>2 DEF Holding
<1>4. ASSUME NEW s PROVE Cardinality(Stored(w, s)) <= 1
  <2>1. Cardinality(Stored(w, s)) = 0 \/ Cardinality(Stored(w, s)) = 1 BY <1>1, <1>2
  <2> QED BY <2>1
<1>5. ASSUME NEW s, NEW r PROVE ~(Cardinality(Holding(w, s, r)) > 1)
  <2>1. Cardinality(Holding(w, s, r)) = 0 \/ Cardinality(Holding(w, s, r)) = 1 BY <1>1, <1>3
  <2> QED BY <2>1
<1> QED BY <1>4, <1>5

\* A document of a scene that has none is the only one, and what is held is what it lists.
LEMMA Pushed ==
    ASSUME NEW w \in Seq(Documents), NEW d \in Documents, \A i \in DOMAIN w : w[i].scene # d.scene
    PROVE  LET new == Append(w, d) IN
           /\ new \in Seq(Documents) /\ new[Len(new)] = d
           /\ Own(w) /\ d.host = Here => Own(new)
           /\ Differ(w) => Differ(new)
           /\ Held(new, d.scene) = DOMAIN d.requests
<1> DEFINE new == Append(w, d)
           n == Len(w) + 1
<1>1. /\ new \in Seq(Documents) /\ Len(new) = n /\ n \in DOMAIN new /\ new[n] = d
      /\ \A i \in DOMAIN new : i # n => i \in DOMAIN w /\ new[i] = w[i]
  OBVIOUS
<1>2. DOMAIN d.requests \subseteq RequestIds BY RequestsFields DEF Documents
<1> HIDE DEF new, n
<1>3. Own(w) /\ d.host = Here => Own(new) BY <1>1 DEF Own
<1>4. Differ(w) => Differ(new)
  <2> SUFFICES ASSUME Differ(w), NEW i \in DOMAIN new, NEW j \in DOMAIN new, new[i].scene = new[j].scene
               PROVE  i = j
    BY DEF Differ
  <2>1. CASE i = n \/ j = n BY <1>1, <2>1
  <2>2. CASE i # n /\ j # n
    <3>1. i \in DOMAIN w /\ j \in DOMAIN w /\ w[i].scene = w[j].scene BY <1>1, <2>2
    <3> QED BY <3>1 DEF Differ
  <2> QED BY <2>1, <2>2
<1>5. \A r : Holding(new, d.scene, r) # {} <=> r \in DOMAIN d.requests
  <2> TAKE r
  <2>1. Stored(new, d.scene) = {n} BY <1>1 DEF Stored
  <2> QED BY <1>1, <2>1 DEF Holding
<1>6. Held(new, d.scene) = DOMAIN d.requests BY <1>2, <1>5 DEF Held
<1> QED BY <1>1, <1>3, <1>4, <1>6 DEF new

LEMMA RemovedKeeps ==
    ASSUME NEW w \in Seq(Documents), NEW host, NEW s
    PROVE  LET new == Removed(w, host, s) IN
           /\ new \in Seq(Documents)
           /\ Own(w) => Own(new)
           /\ Differ(w) => Differ(new)
           /\ Own(w) /\ host = Here => \A i \in DOMAIN new : new[i].scene # s
<1> DEFINE new == Removed(w, host, s)
<1>1. /\ new \in Seq(Documents) /\ (Differ(w) => Differ(new))
      /\ \A p \in DOMAIN new : \E q \in DOMAIN w : new[p] = w[q] /\ ~Matches(w[q], host, s)
  BY RemovedFacts
<1> HIDE DEF new
<1>2. Own(w) => Own(new) BY <1>1 DEF Own
<1>3. Own(w) /\ host = Here => \A i \in DOMAIN new : new[i].scene # s
  BY <1>1 DEF Own, Matches
<1> QED BY <1>1, <1>2, <1>3 DEF new

\* A save leaves one document of the current scene, which holds every request.
LEMMA SavedToFacts ==
    ASSUME NEW w \in Seq(Documents), NEW e, Agreed(e), IsTyped(e), e.current \in DOMAIN e.scenes
    PROVE  LET new == SavedTo(e, w) IN
           /\ new \in Seq(Documents)
           /\ Own(w) => Own(new)
           /\ Own(w) /\ Placed(e) /\ Complete(e) =>
                 /\ Differ(w) => Differ(new)
                 /\ new[Len(new)].scene = e.current
                 /\ Held(new, e.current) = Named(e)
<1> DEFINE data == e.scenes[e.current]
           d == Document(e, data.id)
           left == Removed(w, data.host, data.id)
           new == SavedTo(e, w)
<1>1. new = Append(left, d) BY DEF SavedTo
<1>2. data.id \in SceneIds BY DEF IsTyped
<1>3. d.scene = data.id /\ d.host = Here /\ DOMAIN d.requests = data.requests /\ d \in Documents
  BY <1>2, DocumentFacts DEF Agreed
<1>4. /\ left \in Seq(Documents)
      /\ Own(w) => Own(left)
      /\ Differ(w) => Differ(left)
      /\ Own(w) /\ data.host = Here => \A i \in DOMAIN left : left[i].scene # data.id
  BY RemovedKeeps
<1> HIDE DEF data, d, left, new
<1>5. new \in Seq(Documents) BY <1>1, <1>3, <1>4
<1>6. Own(w) => Own(new)
  <2>1. \A i \in DOMAIN new : new[i] = d \/ \E j \in DOMAIN left : new[i] = left[j]
    BY <1>1, <1>3, <1>4
  <2> QED BY <1>3, <1>4, <2>1 DEF Own
<1>7. ASSUME Own(w), Placed(e), Complete(e)
      PROVE  /\ Differ(w) => Differ(new)
             /\ new[Len(new)].scene = e.current
             /\ Held(new, e.current) = Named(e)
  <2>1. data.host = Here /\ data.id = e.current BY <1>7 DEF Placed, data
  <2>2. data.requests = Named(e) BY <1>7 DEF Complete, Agreed, Sound, Listed, data
  <2>3. \A i \in DOMAIN left : left[i].scene # d.scene BY <1>3, <1>4, <1>7, <2>1
  <2>4. /\ new[Len(new)] = d /\ (Differ(left) => Differ(new))
        /\ Held(new, d.scene) = DOMAIN d.requests
    BY <1>1, <1>3, <1>4, <2>3, Pushed
  <2> QED BY <1>3, <1>4, <2>1, <2>2, <2>4
<1> QED BY <1>5, <1>6, <1>7 DEF new

-----------------------------------------------------------------------------
(* The invariant *)

IInv ==
    /\ Agreed(editor)
    /\ ~mode.busy =>
          /\ Tidy(editor)
          /\ monitor \in {"idle", "WaitingForStop"} => running = {}
          /\ monitor # "idle" => logged \in Named(editor)
          /\ \A a, b \in running : a = b

\* An edit while the arm is at rest, or one that leaves every request there.
LEMMA EditKeeps ==
    ASSUME IInv, Agreed(editor'), Tidy(editor) => Tidy(editor'), UNCHANGED <<arm, mode>>,
           Calm \/ Named(editor) \subseteq Named(editor')
    PROVE  IInv'
BY Zenon DEF IInv, Calm, Idle, arm

LEMMA EmptyEditor ==
    ASSUME NEW scenes, IsMap(scenes), NEW current,
           \A s \in DOMAIN scenes : IsScene(scenes[s]) /\ scenes[s].requests = {}
    PROVE  LET new == Editor(scenes, current, Empty, Empty) IN Agreed(new) /\ Tidy(new)
<1> DEFINE new == Editor(scenes, current, Empty, Empty)
<1>1. /\ new.scenes = scenes /\ new.current = current
      /\ new.requests = Empty /\ new.trajectories = Empty
      /\ new = Editor(new.scenes, new.current, new.requests, new.trajectories)
  BY EditorFields
<1> HIDE DEF new
<1>2. DOMAIN Empty = {} /\ IsMap(Empty) BY DEF Empty, IsMap
<1>3. Named(new) = {} BY <1>1, <1>2 DEF Named
<1> QED BY <1>1, <1>2, <1>3 DEF Agreed, Sound, Shaped, Listed, Filed, OnlyCurrent, Tidy, new

LEMMA InitKeeps == Init => IInv
<1> SUFFICES ASSUME Init PROVE IInv OBVIOUS
<1>1. editor = Editor(Empty, None, Empty, Empty) BY DEF Init, Editor
<1>2. DOMAIN Empty = {} /\ IsMap(Empty) BY DEF Empty, IsMap
<1>3. Agreed(editor) /\ Tidy(editor) BY <1>1, <1>2, EmptyEditor
<1> QED BY <1>3 DEF Init, IInv

LEMMA TableLoadsKeeps == IInv /\ TableLoads => IInv'
<1> SUFFICES ASSUME IInv, TableLoads PROVE IInv' OBVIOUS
<1> DEFINE scenes == [s \in StoredIds(warehouse) |->
                        [id |-> s, host |-> warehouse[Min(Stored(warehouse, s))].host, requests |-> {}]]
<1>1. editor = Editor(editor.scenes, editor.current, editor.requests, editor.trajectories)
  BY DEF IInv, Agreed, Sound, Shaped
<1>2. editor' = [editor EXCEPT !.scenes = scenes, !.requests = Empty, !.trajectories = Empty]
  BY DEF TableLoads
<1>3. IsMap(scenes) /\ \A s \in DOMAIN scenes : IsScene(scenes[s]) /\ scenes[s].requests = {}
  BY DEF IsMap, IsScene
<1> HIDE DEF scenes
<1>4. editor' = Editor(scenes, editor.current, Empty, Empty) BY <1>1, <1>2 DEF Editor
<1>5. Agreed(editor') /\ Tidy(editor') BY <1>3, <1>4, EmptyEditor
<1> QED BY <1>5, EditKeeps DEF TableLoads

LEMMA LoadSceneKeeps ==
    \A s \in SceneIds, saveFirst, withRequests, withTrajectories \in BOOLEAN :
        IInv /\ LoadScene(s, saveFirst, withRequests, withTrajectories) => IInv'
<1> SUFFICES ASSUME NEW s \in SceneIds, NEW saveFirst \in BOOLEAN, NEW withRequests \in BOOLEAN,
                    NEW withTrajectories \in BOOLEAN,
                    IInv, LoadScene(s, saveFirst, withRequests, withTrajectories)
             PROVE  IInv'
  OBVIOUS
<1> DEFINE e == IF saveFirst THEN CurrentFound(editor) ELSE editor
           w == IF saveFirst THEN SavedTo(e, warehouse) ELSE warehouse
<1>1. /\ Calm /\ s \in DOMAIN editor.scenes /\ UNCHANGED <<arm, mode>>
      /\ editor' = CurrentSet(e, w, s, withRequests, withTrajectories)
  BY DEF LoadScene
<1>2. Agreed(e) /\ (Tidy(editor) => Tidy(e)) /\ DOMAIN editor.scenes \subseteq DOMAIN e.scenes
  BY CurrentFoundAgrees DEF IInv
<1> HIDE DEF e, w
<1>3. s \in DOMAIN e.scenes BY <1>1, <1>2
<1>4. \A k \in DOMAIN e.scenes : e.scenes[k].requests # {} => k \in {s, e.current}
  BY <1>2 DEF Agreed, OnlyCurrent
<1>5. s # e.current => e.scenes[s].requests = {} BY <1>2, <1>3 DEF Agreed, OnlyCurrent
<1>6. Agreed(editor') /\ (Tidy(e) => Tidy(editor'))
  BY <1>1, <1>2, <1>3, <1>4, <1>5, CurrentSetAgrees DEF Agreed
<1> QED BY <1>1, <1>2, <1>6, EditKeeps

LEMMA NewSceneKeeps == \A saveFirst \in BOOLEAN : IInv /\ NewScene(saveFirst) => IInv'
<1> SUFFICES ASSUME NEW saveFirst \in BOOLEAN, IInv, NewScene(saveFirst) PROVE IInv' OBVIOUS
<1> DEFINE e == IF saveFirst THEN CurrentFound(editor) ELSE editor
           w == IF saveFirst THEN SavedTo(e, warehouse) ELSE warehouse
           n == NextSceneId(w)
           made == SceneCreated(e, w)
<1>1. Calm /\ UNCHANGED <<arm, mode>> /\ editor' = CurrentSet(made, w, n, TRUE, TRUE)
  BY DEF NewScene
<1>2. Agreed(e) /\ (Tidy(editor) => Tidy(e)) BY CurrentFoundAgrees DEF IInv
<1> HIDE DEF e, w
<1>3. Agreed(made) /\ (Tidy(e) => Tidy(made)) BY <1>2, SceneCreatedAgrees
<1>4. n \in DOMAIN made.scenes BY <1>2, SceneCreatedAgrees
<1> HIDE DEF n, made
<1>5. \A k \in DOMAIN made.scenes : made.scenes[k].requests # {} => k \in {n, made.current}
  BY <1>3 DEF Agreed, OnlyCurrent
<1>6. n # made.current => made.scenes[n].requests = {} BY <1>3, <1>4 DEF Agreed, OnlyCurrent
<1>7. Agreed(editor') /\ (Tidy(made) => Tidy(editor'))
  BY <1>1, <1>3, <1>4, <1>5, <1>6, CurrentSetAgrees DEF Agreed
<1> QED BY <1>1, <1>2, <1>3, <1>7, EditKeeps

LEMMA SaveSceneKeeps == IInv /\ SaveScene => IInv'
<1> SUFFICES ASSUME IInv, SaveScene PROVE IInv' OBVIOUS
<1>1. Agreed(editor') /\ (Tidy(editor) => Tidy(editor'))
  BY CurrentFoundAgrees DEF SaveScene, IInv
<1> QED BY <1>1, EditKeeps DEF SaveScene

LEMMA RemoveSceneKeeps == \A s \in SceneIds : IInv /\ RemoveScene(s) => IInv'
<1> SUFFICES ASSUME NEW s \in SceneIds, IInv, RemoveScene(s) PROVE IInv' OBVIOUS
<1> DEFINE e == editor
           scenes == Without(e.scenes, {s})
<1>1. e = Editor(e.scenes, e.current, e.requests, e.trajectories) BY DEF IInv, Agreed, Sound, Shaped
<1>2. editor' = [e EXCEPT !.scenes = scenes] BY DEF RemoveScene
<1>3. /\ IsMap(scenes) /\ DOMAIN scenes = DOMAIN e.scenes \ {s}
      /\ \A k \in DOMAIN scenes : scenes[k] = e.scenes[k]
  BY DEF Without, IsMap
<1> HIDE DEF scenes
<1>4. editor' = Editor(scenes, e.current, e.requests, e.trajectories)
  <2> HIDE DEF e
  <2> QED BY <1>1, <1>2 DEF Editor
<1>5. Agreed(e) BY DEF IInv
<1> HIDE DEF e
<1>6. \A k \in DOMAIN scenes : IsScene(scenes[k]) BY <1>3, <1>5 DEF Agreed, Sound, Shaped
<1>7. e.current \in DOMAIN scenes => scenes[e.current].requests \subseteq Named(e)
  BY <1>3, <1>5 DEF Agreed, Sound, Listed
<1>8. \A k \in DOMAIN scenes : scenes[k].requests # {} => k = e.current
  BY <1>3, <1>5 DEF Agreed, OnlyCurrent
<1>9. Agreed(editor') /\ (Tidy(e) => Tidy(editor')) /\ Named(editor') = Named(e)
  BY <1>3, <1>4, <1>5, <1>6, <1>7, <1>8, ScenesChange
<1> QED BY <1>9, EditKeeps DEF RemoveScene, e

LEMMA CopySceneKeeps == IInv /\ CopyScene => IInv'
<1> SUFFICES ASSUME IInv, CopyScene PROVE IInv' OBVIOUS
<1> DEFINE e == CurrentFound(editor)
           n == NextSceneId(warehouse)
           copied == SceneCopied(e, n)
           w == Append(warehouse, Document(copied, n))
<1>1. Calm /\ UNCHANGED <<arm, mode>> /\ editor' = CurrentSet(copied, w, n, TRUE, TRUE)
  BY DEF CopyScene
<1>2. /\ Agreed(e) /\ (Tidy(editor) => Tidy(e))
      /\ e.current \in DOMAIN e.scenes
  BY CurrentFoundAgrees DEF IInv
<1> HIDE DEF e, n
<1>3. /\ Sound(copied) /\ (Tidy(e) => Tidy(copied)) /\ n \in DOMAIN copied.scenes
      /\ \A k \in DOMAIN copied.scenes : copied.scenes[k].requests # {} => k \in {n, copied.current}
      /\ \A r \in copied.scenes[n].requests : r \in RequestIds /\ Holding(w, n, r) # {}
  <2>1. Len(w) \in DOMAIN w /\ w[Len(w)] = Document(SceneCopied(e, n), n) OBVIOUS
  <2> HIDE DEF w, copied
  <2> QED BY <1>2, <2>1, SceneCopiedAgrees DEF copied
<1> HIDE DEF copied, w
<1>4. Agreed(editor') /\ (Tidy(copied) => Tidy(editor'))
  BY <1>1, <1>3, CurrentSetAgrees
<1> QED BY <1>1, <1>2, <1>3, <1>4, EditKeeps

LEMMA CreateRequestKeeps == IInv /\ CreateRequest => IInv'
<1> SUFFICES ASSUME IInv, CreateRequest PROVE IInv' OBVIOUS
<1> DEFINE e == CurrentFound(editor)
           id == NextId(e.scenes[e.current].requests)
           requests == Put(e.requests, id, NewRequest)
           listed == e.scenes[e.current].requests \cup {id}
           scenes == [e.scenes EXCEPT ![e.current].requests = listed]
<1>1. /\ Calm /\ UNCHANGED <<arm, mode>> /\ id \in RequestIds
      /\ editor' = [e EXCEPT !.requests = requests, !.scenes[e.current].requests = @ \cup {id}]
  BY DEF CreateRequest
<1>2. /\ Agreed(e) /\ (Tidy(editor) => Tidy(e))
      /\ e.current \in DOMAIN e.scenes
  BY CurrentFoundAgrees DEF IInv
<1> HIDE DEF e
<1>3. /\ IsMap(requests) /\ DOMAIN requests = DOMAIN e.requests \cup {id}
      /\ \A k \in DOMAIN requests : requests[k] = IF k = id THEN NewRequest ELSE e.requests[k]
  BY DEF Put, IsMap
<1> HIDE DEF requests, id
<1>4. editor' = Editor(scenes, e.current, requests, e.trajectories)
  <2>1. e = Editor(e.scenes, e.current, e.requests, e.trajectories) BY <1>2 DEF Agreed, Sound, Shaped
  <2> QED BY <1>1, <2>1 DEF Editor
<1> HIDE DEF listed
<1>5. /\ IsMap(scenes) /\ DOMAIN scenes = DOMAIN e.scenes
      /\ \A k \in DOMAIN e.scenes : k # e.current => scenes[k] = e.scenes[k]
      /\ scenes[e.current] = [e.scenes[e.current] EXCEPT !.requests = listed]
  BY <1>2 DEF IsMap
<1> HIDE DEF scenes
<1>6. \A k \in DOMAIN e.scenes : IsScene(e.scenes[k]) BY <1>2 DEF Agreed, Sound, Shaped
<1>7. IsScene(scenes[e.current]) /\ scenes[e.current].requests = listed
  BY <1>2, <1>5, <1>6, SceneRelisted
<1>8. IsRequest(NewRequest) /\ NewRequest.named /\ NewRequest.trajs = {} BY DEF NewRequest, IsRequest
<1>9. /\ editor'.scenes = scenes /\ editor'.current = e.current
      /\ editor'.requests = requests /\ editor'.trajectories = e.trajectories
      /\ editor' = Editor(editor'.scenes, editor'.current, editor'.requests, editor'.trajectories)
  BY <1>4, EditorFields
<1>10. Named(editor') = Named(e) \cup {id} BY <1>3, <1>8, <1>9 DEF Named
<1>11. Shaped(editor')
  <2>1. \A k \in DOMAIN scenes : IsScene(scenes[k]) BY <1>5, <1>6, <1>7
  <2>2. \A k \in DOMAIN requests : IsRequest(requests[k])
    BY <1>2, <1>3, <1>8 DEF Agreed, Sound, Shaped
  <2> QED BY <1>1, <1>2, <1>3, <1>5, <1>9, <1>10, <2>1, <2>2 DEF Agreed, Sound, Shaped
<1>12. Listed(editor')
  <2>1. e.scenes[e.current].requests \subseteq Named(e) BY <1>2 DEF Agreed, Sound, Listed
  <2> QED BY <1>7, <1>9, <1>10, <2>1 DEF Listed, listed
<1>13. Filed(editor')
  <2> SUFFICES ASSUME NEW k \in Named(e) \cup {id}, NEW t \in requests[k].trajs
               PROVE  k \in DOMAIN e.trajectories /\ t \in e.trajectories[k]
    BY <1>9, <1>10 DEF Filed
  <2>1. k # id /\ k \in Named(e) BY <1>3, <1>8
  <2>2. t \in e.requests[k].trajs BY <1>3, <2>1 DEF Named
  <2> QED BY <1>2, <2>1, <2>2 DEF Agreed, Sound, Filed
<1>14. OnlyCurrent(editor') BY <1>2, <1>5, <1>9 DEF OnlyCurrent, Agreed
<1>15. Tidy(e) => Tidy(editor') BY <1>3, <1>8, <1>9 DEF Tidy
<1> QED BY <1>1, <1>2, <1>11, <1>12, <1>13, <1>14, <1>15, EditKeeps DEF Agreed, Sound

LEMMA DeleteRequestKeeps == \A r \in RequestIds : IInv /\ DeleteRequest(r) => IInv'
<1> SUFFICES ASSUME NEW r \in RequestIds, IInv, DeleteRequest(r) PROVE IInv' OBVIOUS
<1>1. Agreed(editor') /\ (Tidy(editor) => Tidy(editor'))
  <2>1. editor' = RequestsDeleted(editor, {r}) BY DEF DeleteRequest
  <2> QED BY <2>1, RequestsDeletedAgrees DEF IInv, Agreed
<1> QED BY <1>1, EditKeeps DEF DeleteRequest

LEMMA ProduceKeeps == \A r \in RequestIds : IInv /\ Produce(r) => IInv'
<1> SUFFICES ASSUME NEW r \in RequestIds, IInv, Produce(r) PROVE IInv' OBVIOUS
<1>1. editor' = Added(editor, r) /\ r \in Named(editor) /\ Calm /\ UNCHANGED <<arm, mode>>
  BY DEF Produce
<1>2. Agreed(editor') /\ (Tidy(editor) => Tidy(editor')) BY <1>1, AddedAgrees DEF IInv
<1> QED BY <1>1, <1>2, EditKeeps

LEMMA ProduceFailsKeeps ==
    \A r \in RequestIds, junk \in JunkIds : IInv /\ ProduceFails(r, junk) => IInv'
<1> SUFFICES ASSUME NEW r \in RequestIds, NEW junk \in JunkIds, IInv, ProduceFails(r, junk)
             PROVE  IInv'
  OBVIOUS
<1> DEFINE e == editor
           filed == Found(e.trajectories, r, {})
           trajectories == [filed EXCEPT ![r] = @ \cup {junk}]
<1>1. editor' = [e EXCEPT !.trajectories = trajectories] /\ Calm /\ UNCHANGED <<arm, mode>>
  BY DEF ProduceFails
<1>2. Agreed(e) BY DEF IInv
<1> HIDE DEF e
<1>3. /\ IsMap(filed) /\ DOMAIN filed = DOMAIN e.trajectories \cup {r}
      /\ \A k \in DOMAIN e.trajectories : filed[k] = e.trajectories[k]
  BY DEF Found, IsMap
<1> HIDE DEF filed
<1>4. /\ IsMap(trajectories) /\ DOMAIN trajectories = DOMAIN filed
      /\ \A k \in DOMAIN filed : filed[k] \subseteq trajectories[k]
  BY <1>3 DEF IsMap
<1> HIDE DEF trajectories
<1>5. editor' = Editor(e.scenes, e.current, e.requests, trajectories)
  <2>1. e = Editor(e.scenes, e.current, e.requests, e.trajectories) BY <1>2 DEF Agreed, Sound, Shaped
  <2> QED BY <1>1, <2>1 DEF Editor
<1>6. IsMap(e.requests) /\ \A k \in DOMAIN e.requests : IsRequest(e.requests[k])
  BY <1>2 DEF Agreed, Sound, Shaped
<1>7. ASSUME NEW k \in DOMAIN e.requests, e.requests[k].named, NEW t \in e.requests[k].trajs
      PROVE  k \in DOMAIN trajectories /\ t \in trajectories[k]
  <2>1. k \in DOMAIN e.trajectories /\ t \in e.trajectories[k]
    BY <1>2, <1>7 DEF Agreed, Sound, Filed, Named
  <2> QED BY <1>3, <1>4, <2>1
<1>8. Agreed(editor') BY <1>2, <1>4, <1>5, <1>6, <1>7, EntriesChange
<1>9. Tidy(e) => Tidy(editor')
  <2>1. r # None BY NoneIsNoRequest
  <2> QED BY <1>3, <1>4, <1>5, <2>1, EditorFields DEF Tidy
<1> QED BY <1>1, <1>8, <1>9, EditKeeps DEF e

LEMMA DeleteTrajectoryKeeps ==
    \A r \in RequestIds, t \in TrajectoryIds : IInv /\ DeleteTrajectory(r, t) => IInv'
<1> SUFFICES ASSUME NEW r \in RequestIds, NEW t \in TrajectoryIds, IInv, DeleteTrajectory(r, t)
             PROVE  IInv'
  OBVIOUS
<1> DEFINE e == editor
           only == [k \in DOMAIN e.trajectories |-> IF k = r THEN {t} ELSE {}]
           left == e.requests[r].trajs \ {t}
           requests == [e.requests EXCEPT ![r].trajs = left]
           trajectories == Remaining(e.trajectories, only)
<1>1. /\ editor' = [e EXCEPT !.requests[r].trajs = @ \ {t}, !.trajectories = trajectories]
      /\ r \in Named(e) /\ Calm /\ UNCHANGED <<arm, mode>>
  BY DEF DeleteTrajectory
<1>2. Agreed(e) BY DEF IInv
<1> HIDE DEF e
<1>3. /\ IsMap(trajectories) /\ DOMAIN trajectories \subseteq DOMAIN e.trajectories
      /\ \A k \in DOMAIN e.trajectories : \A x \in e.trajectories[k] :
            (k = r /\ x = t) \/ (k \in DOMAIN trajectories /\ x \in trajectories[k])
  BY DEF Remaining, IsMap
<1> HIDE DEF trajectories
<1>4. editor' = Editor(e.scenes, e.current, requests, trajectories)
  <2>1. e = Editor(e.scenes, e.current, e.requests, e.trajectories) BY <1>2 DEF Agreed, Sound, Shaped
  <2> QED BY <1>1, <2>1 DEF Editor
<1> DEFINE x == e.requests[r]
<1> HIDE DEF left
<1>5. r \in DOMAIN e.requests /\ x.named BY <1>1 DEF Named
<1>6. /\ IsMap(requests) /\ DOMAIN requests = DOMAIN e.requests
      /\ \A k \in DOMAIN e.requests : k # r => requests[k] = e.requests[k]
      /\ requests[r] = [x EXCEPT !.trajs = left]
  BY <1>5 DEF IsMap
<1> HIDE DEF requests
<1>7. \A k \in DOMAIN e.requests : IsRequest(e.requests[k]) BY <1>2 DEF Agreed, Sound, Shaped
<1>8. requests[r].named /\ requests[r].trajs = left /\ IsRequest(requests[r])
  <2>1. x = [named |-> x.named, trajs |-> x.trajs] BY <1>5, <1>7 DEF IsRequest
  <2> HIDE DEF x
  <2>2. requests[r] = [named |-> x.named, trajs |-> left] BY <1>6, <2>1
  <2> QED BY <1>5, <2>2 DEF IsRequest
<1>9. \A k \in DOMAIN requests : IsRequest(requests[k]) BY <1>6, <1>7, <1>8
<1>10. \A k \in DOMAIN requests : requests[k].named <=> k \in DOMAIN e.requests /\ e.requests[k].named
  BY <1>5, <1>6, <1>8
<1>11. ASSUME NEW k \in DOMAIN requests, requests[k].named, NEW y \in requests[k].trajs
       PROVE  k \in DOMAIN trajectories /\ y \in trajectories[k]
  <2>1. y \in e.requests[k].trajs /\ (k = r => y # t) BY <1>6, <1>8, <1>11 DEF left
  <2>2. k \in DOMAIN e.trajectories /\ y \in e.trajectories[k]
    BY <1>2, <1>6, <1>10, <1>11, <2>1 DEF Agreed, Sound, Filed, Named
  <2> QED BY <1>3, <2>1, <2>2
<1>12. Agreed(editor') BY <1>2, <1>3, <1>4, <1>6, <1>9, <1>10, <1>11, EntriesChange
<1>13. Tidy(e) => Tidy(editor')
  <2>1. editor'.requests = requests /\ editor'.trajectories = trajectories BY <1>4, EditorFields
  <2>2. \A k \in DOMAIN requests : k # r => requests[k] = e.requests[k] BY <1>6
  <2> QED BY <1>3, <1>6, <1>8, <2>1, <2>2 DEF Tidy
<1> QED BY <1>1, <1>12, <1>13, EditKeeps DEF e

LEMMA ExecuteKeeps ==
    \A r \in RequestIds, t \in TrajectoryIds : IInv /\ Execute(r, t) => IInv'
<1> SUFFICES ASSUME NEW r \in RequestIds, NEW t \in TrajectoryIds, IInv, Execute(r, t) PROVE IInv'
  OBVIOUS
<1>1. /\ editor' = editor /\ mode' = mode /\ r \in Named(editor) /\ Calm
      /\ running' = running \cup {ArmOf[r]} /\ logged' = r /\ monitor' = "Executing"
  BY DEF Execute
<1> QED BY <1>1 DEF IInv, Calm, Idle

LEMMA ControllerDoneKeeps == \A a \in Arms : IInv /\ ControllerDone(a) => IInv'
<1> SUFFICES ASSUME NEW a \in Arms, IInv, ControllerDone(a) PROVE IInv' OBVIOUS
<1>1. /\ a \in running /\ running' = running \ {a} /\ editor' = Added(editor, logged)
      /\ monitor' = "WaitingForStop" /\ logged' = logged /\ mode' = mode
  BY DEF ControllerDone
<1>2. /\ Agreed(editor') /\ Named(editor') = Named(editor)
      /\ Tidy(editor) /\ logged \in Named(editor) => Tidy(editor')
  BY <1>1, AddedAgrees DEF IInv
<1> QED BY <1>1, <1>2 DEF IInv

LEMMA ArmHasStoppedMovingKeeps == IInv /\ ArmHasStoppedMoving => IInv'
<1> SUFFICES ASSUME IInv, ArmHasStoppedMoving PROVE IInv' OBVIOUS
<1>1. /\ monitor = "WaitingForStop" /\ editor' = Added(editor, logged)
      /\ monitor' = "idle" /\ running' = running /\ mode' = mode
  BY DEF ArmHasStoppedMoving
<1>2. /\ Agreed(editor') /\ Named(editor') = Named(editor)
      /\ Tidy(editor) /\ logged \in Named(editor) => Tidy(editor')
  BY <1>1, AddedAgrees DEF IInv
<1> QED BY <1>1, <1>2 DEF IInv

LEMMA StutterKeeps == IInv /\ UNCHANGED <<editor, arm, mode>> => IInv'
BY DEF IInv, arm

LEMMA NextKeeps == IInv /\ [Next]_vars => IInv'
<1> SUFFICES ASSUME IInv, [Next]_vars PROVE IInv' OBVIOUS
<1>1. CASE Recording BY <1>1, ArmHasStoppedMovingKeeps, ControllerDoneKeeps DEF Recording
<1>2. CASE Editing
  BY <1>2, CreateRequestKeeps, DeleteRequestKeeps, ProduceKeeps, ProduceFailsKeeps,
     DeleteTrajectoryKeeps, ExecuteKeeps DEF Editing
<1>3. CASE Filing
  <2>1. CASE OpenLoadDialog \/ RefreshButtonPressed \/ CloseDialog
    BY <2>1, StutterKeeps DEF OpenLoadDialog, RefreshButtonPressed, CloseDialog
  <2> QED BY <1>3, <2>1, TableLoadsKeeps, SaveSceneKeeps, CopySceneKeeps, LoadSceneKeeps,
             NewSceneKeeps, RemoveSceneKeeps DEF Filing
<1>4. CASE UNCHANGED vars BY <1>4, StutterKeeps DEF vars, arm
<1> QED BY <1>1, <1>2, <1>3, <1>4 DEF Next

LEMMA Holds == IInv => EditorAgrees
<1> SUFFICES ASSUME IInv PROVE EditorAgrees OBVIOUS
<1>1. Agreed(editor) BY DEF IInv
<1>2. ASSUME NEW r \in Named(editor)
      PROVE  editor.requests[r].trajs \subseteq Found(editor.trajectories, r, {})[r]
  <2>1. \A t \in editor.requests[r].trajs :
           r \in DOMAIN editor.trajectories /\ t \in editor.trajectories[r]
    BY <1>1 DEF Agreed, Sound, Filed
  <2>2. r \in DOMAIN editor.trajectories =>
           Found(editor.trajectories, r, {})[r] = editor.trajectories[r]
    BY DEF Found
  <2> QED BY <2>1, <2>2
<1>3. ListsMatchMaps BY <1>1, <1>2 DEF ListsMatchMaps, Agreed, Sound, Listed, OnlyCurrent
<1>4. RecordedUnderARequest BY DEF IInv, RecordedUnderARequest, Tidy, Named
<1> QED BY <1>3, <1>4 DEF EditorAgrees

\* The editor's lists never name a request or a trajectory its maps lack, and, when the user
\* waits for the arm, what is recorded has a request, for any scenes, requests and sessions.
THEOREM ListsAreHeld == Spec => []EditorAgrees
<1> QED BY InitKeeps, NextKeeps, Holds, PTL DEF Spec

-----------------------------------------------------------------------------
(* What the fields are, and what a save leaves *)

TInv ==
    /\ warehouse \in Seq(Documents) /\ IsTyped(editor)
    /\ dialog \in {"closed", "loading", "open"}
    /\ loadedOnce \in BOOLEAN /\ initialized \in BOOLEAN /\ whole \in BOOLEAN
    /\ running \in SUBSET Arms
    /\ monitor \in {"idle", "Executing", "WaitingForStop"}
    /\ logged \in RequestIds \cup {None}
    /\ work \in SUBSET RequestIds
    /\ mode \in Modes

\* In a session whose scenes are this host's and where only what is held is saved, the current
\* scene lists all there is and the stored scenes differ; and, while services answer and the
\* arm is left to stop, nothing is filed without a request.
KInv ==
    /\ whole => work = Named(editor)
    /\ dialog = "open" => loadedOnce
    /\ ~mode.foreign => Own(warehouse)
    /\ ~mode.foreign /\ ~mode.careless => Placed(editor) /\ Complete(editor) /\ Differ(warehouse)
    /\ ~mode.fails /\ ~mode.busy /\ ~mode.foreign /\ ~mode.careless => Tight(editor)

AInv == IInv /\ TInv /\ KInv

\* What SaveKeepsWork says of a step that writes to the warehouse.
SaveStep ==
    whole /\ ~mode.foreign /\ ~mode.careless /\ ~loadedOnce' /\ warehouse' # warehouse =>
        LET saved == warehouse'[Len(warehouse')].scene IN
        /\ saved \in {editor.current, editor'.current}
        /\ Held(warehouse', saved) = work

\* An edit of the scene's requests.
LEMMA EditFits ==
    ASSUME AInv, UNCHANGED <<warehouse, dialog, loadedOnce, initialized, whole, mode>>,
           IsTyped(editor'), whole => work' = Named(editor'), work' \in SUBSET RequestIds,
           running' \in SUBSET Arms, monitor' \in {"idle", "Executing", "WaitingForStop"},
           logged' \in RequestIds \cup {None},
           ~mode.foreign /\ ~mode.careless => Placed(editor') /\ Complete(editor'),
           ~mode.fails /\ ~mode.busy /\ ~mode.foreign /\ ~mode.careless => Tight(editor')
    PROVE  TInv' /\ KInv' /\ SaveStep
<1>1. TInv' BY Zenon DEF AInv, TInv
<1>2. KInv' BY Zenon DEF AInv, KInv
<1>3. SaveStep BY DEF SaveStep
<1> QED BY <1>1, <1>2, <1>3

LEMMA InitFits == Init => TInv /\ KInv
<1> SUFFICES ASSUME Init PROVE TInv /\ KInv OBVIOUS
<1>1. editor = Editor(Empty, None, Empty, Empty) BY DEF Init, Editor
<1>2. DOMAIN Empty = {} BY DEF Empty
<1>3. /\ editor.scenes = Empty /\ editor.current = None
      /\ editor.requests = Empty /\ editor.trajectories = Empty
  BY <1>1, EditorFields
<1>4. Named(editor) = {} BY <1>2, <1>3 DEF Named
<1>5. /\ IsTyped(editor) /\ Placed(editor) /\ Complete(editor) /\ Tight(editor)
  BY <1>2, <1>3, <1>4 DEF IsTyped, Placed, Complete, Tight
<1>6. /\ warehouse \in Seq(Documents) /\ Differ(warehouse)
      /\ ~mode.foreign => Own(warehouse)
  <2>1. CASE warehouse = Empty BY <2>1 DEF Empty, Differ, Own
  <2>2. CASE warehouse # Empty
    <3> DEFINE requests == [r \in {0} |-> {0}]
    <3>1. PICK h \in IF mode.foreign THEN {"elsewhere"} ELSE {Here} :
             warehouse = <<[scene |-> 0, host |-> h, requests |-> requests]>>
      BY <2>2 DEF Init
    <3>2. IsMap(requests) /\ DOMAIN requests = {0} /\ requests[0] = {0} BY DEF IsMap
    <3> HIDE DEF requests
    <3>3. {0} \in Numbers BY SomeNumbers
    <3>4. requests \in Requests
      <4>1. DOMAIN requests \subseteq RequestIds BY <3>2, IdsAssumption
      <4>2. \A r \in DOMAIN requests : requests[r] \in Numbers BY <3>2, <3>3
      <4> QED BY <3>2, <4>1, <4>2, RequestsFields
    <3> DEFINE d == [scene |-> 0, host |-> h, requests |-> requests]
    <3>5. d \in Documents BY <3>4, IdsAssumption DEF Documents, Hosts
    <3>6. ~mode.foreign => d.host = Here BY <3>1
    <3>7. warehouse = <<d>> BY <3>1
    <3> HIDE DEF d
    <3> QED BY <3>5, <3>6, <3>7 DEF Own, Differ
  <2> QED BY <2>1, <2>2
<1>7. TInv BY <1>5, <1>6 DEF Init, TInv
<1>8. KInv BY <1>4, <1>5, <1>6 DEF Init, KInv
<1> QED BY <1>7, <1>8

LEMMA TableLoadsFits == AInv /\ TableLoads => TInv' /\ KInv' /\ SaveStep
<1> SUFFICES ASSUME AInv, TableLoads PROVE TInv' /\ KInv' /\ SaveStep OBVIOUS
<1> DEFINE scenes == [s \in StoredIds(warehouse) |->
                        [id |-> s, host |-> warehouse[Min(Stored(warehouse, s))].host, requests |-> {}]]
<1>1. editor = Editor(editor.scenes, editor.current, editor.requests, editor.trajectories)
  BY DEF AInv, IInv, Agreed, Sound, Shaped
<1>2. editor' = [editor EXCEPT !.scenes = scenes, !.requests = Empty, !.trajectories = Empty]
  BY DEF TableLoads
<1>3. warehouse \in Seq(Documents) BY DEF AInv, TInv
<1>4. ASSUME NEW s \in StoredIds(warehouse)
      PROVE  /\ scenes[s].id = s /\ s \in SceneIds /\ scenes[s].requests = {}
             /\ scenes[s].host \in Hosts
             /\ Own(warehouse) => scenes[s].host = Here
  <2> DEFINE first == Min(Stored(warehouse, s))
  <2>1. Stored(warehouse, s) \in SUBSET Nat /\ Stored(warehouse, s) # {}
    BY <1>3 DEF Stored, StoredIds
  <2>2. first \in Stored(warehouse, s) BY <2>1, MinOfNat
  <2> HIDE DEF first
  <2>3. first \in DOMAIN warehouse /\ warehouse[first].scene = s BY <2>2 DEF Stored
  <2>4. warehouse[first] \in Documents BY <1>3, <2>3
  <2>5. s \in SceneIds /\ warehouse[first].host \in Hosts BY <2>3, <2>4 DEF Documents
  <2>6. scenes[s] = [id |-> s, host |-> warehouse[first].host, requests |-> {}] BY DEF first
  <2> QED BY <2>3, <2>5, <2>6 DEF Own
<1>5. DOMAIN scenes = StoredIds(warehouse) OBVIOUS
<1> HIDE DEF scenes
<1>6. editor' = Editor(scenes, editor.current, Empty, Empty) BY <1>1, <1>2 DEF Editor
<1>7. /\ editor'.scenes = scenes /\ editor'.current = editor.current
      /\ editor'.requests = Empty /\ editor'.trajectories = Empty
  BY <1>6, EditorFields
<1>8. DOMAIN Empty = {} BY DEF Empty
<1>9. Named(editor') = {} BY <1>7, <1>8 DEF Named
<1>10. IsTyped(editor')
  <2>1. editor.current \in SceneIds \cup {None} BY DEF AInv, TInv, IsTyped
  <2> QED BY <1>4, <1>5, <1>7, <1>8, <2>1 DEF IsTyped
<1>11. Complete(editor') /\ Tight(editor') BY <1>7, <1>8, <1>9 DEF Complete, Tight
<1>12. Own(warehouse) => Placed(editor') BY <1>4, <1>5, <1>7, <1>9 DEF Placed
<1>13. TInv' BY <1>10 DEF AInv, TInv, TableLoads, arm
<1>14. KInv' BY <1>11, <1>12 DEF AInv, KInv, TableLoads
<1>15. SaveStep BY DEF SaveStep, TableLoads
<1> QED BY <1>13, <1>14, <1>15

\* What the user asks to save first is saved whole.
LEMMA SaveFirstFacts ==
    ASSUME AInv, NEW saveFirst \in BOOLEAN, saveFirst => MaySave(editor)
    PROVE  LET e == IF saveFirst THEN CurrentFound(editor) ELSE editor
               w == IF saveFirst THEN SavedTo(e, warehouse) ELSE warehouse IN
           /\ Agreed(e) /\ IsTyped(e) /\ DOMAIN editor.scenes \subseteq DOMAIN e.scenes
           /\ w \in Seq(Documents)
           /\ ~mode.foreign => Own(w)
           /\ ~mode.foreign /\ ~mode.careless =>
                 /\ Placed(e) /\ Differ(w)
                 /\ saveFirst => w[Len(w)].scene = editor.current /\ Held(w, editor.current) = Named(editor)
           /\ ~mode.fails /\ ~mode.busy /\ ~mode.foreign /\ ~mode.careless => Tight(e)
<1>1. Agreed(editor) /\ IsTyped(editor) /\ warehouse \in Seq(Documents) BY DEF AInv, IInv, TInv
<1>2. CASE saveFirst
  <2> DEFINE e == CurrentFound(editor)
             w == SavedTo(e, warehouse)
  <2>1. /\ Agreed(e) /\ IsTyped(e) /\ DOMAIN e.scenes = DOMAIN editor.scenes \cup {editor.current}
        /\ e.current = editor.current /\ (editor.current \in DOMAIN editor.scenes => e = editor)
    BY <1>1, CurrentFoundAgrees
  <2> HIDE DEF e
  <2>2. e.current \in DOMAIN e.scenes BY <2>1
  <2>3. /\ w \in Seq(Documents)
        /\ Own(warehouse) => Own(w)
        /\ Own(warehouse) /\ Placed(e) /\ Complete(e) =>
              /\ Differ(warehouse) => Differ(w)
              /\ w[Len(w)].scene = e.current
              /\ Held(w, e.current) = Named(e)
    BY <1>1, <2>1, <2>2, SavedToFacts
  <2> HIDE DEF w
  <2>4. ~mode.careless => e = editor BY <1>2, <2>1 DEF MaySave
  <2>5. ~mode.foreign => Own(w) BY <2>3 DEF AInv, KInv
  <2>6. ~mode.foreign /\ ~mode.careless =>
           /\ Placed(e) /\ Differ(w)
           /\ w[Len(w)].scene = editor.current /\ Held(w, editor.current) = Named(editor)
    BY <2>3, <2>4 DEF AInv, KInv
  <2>7. ~mode.fails /\ ~mode.busy /\ ~mode.foreign /\ ~mode.careless => Tight(e)
    BY <2>4 DEF AInv, KInv
  <2> QED BY <1>2, <2>1, <2>3, <2>5, <2>6, <2>7 DEF e, w
<1>3. CASE ~saveFirst BY <1>1, <1>3 DEF AInv, KInv
<1> QED BY <1>2, <1>3

\* The user goes on to another scene.
LEMMA BeginsFits ==
    ASSUME AInv, NEW all \in BOOLEAN, Begins(all), UNCHANGED <<arm, mode>>, loadedOnce' \in BOOLEAN,
           Agreed(editor'), IsTyped(editor'), warehouse' \in Seq(Documents),
           ~mode.foreign => Own(warehouse'),
           ~mode.foreign /\ ~mode.careless =>
              Placed(editor') /\ Complete(editor') /\ Differ(warehouse'),
           ~mode.fails /\ ~mode.busy /\ ~mode.foreign /\ ~mode.careless => Tight(editor')
    PROVE  TInv' /\ KInv'
<1>1. work' = Named(editor') /\ whole' = all /\ initialized' = TRUE /\ dialog' = "closed"
  BY DEF Begins
<1>2. work' \in SUBSET RequestIds BY <1>1 DEF Agreed, Sound, Shaped
<1>3. TInv' BY <1>1, <1>2 DEF AInv, TInv, arm
<1>4. KInv' BY <1>1 DEF KInv
<1> QED BY <1>3, <1>4

LEMMA LoadSceneFits ==
    \A s \in SceneIds, saveFirst, withRequests, withTrajectories \in BOOLEAN :
        AInv /\ LoadScene(s, saveFirst, withRequests, withTrajectories)
            => TInv' /\ KInv' /\ SaveStep
<1> SUFFICES ASSUME NEW s \in SceneIds, NEW saveFirst \in BOOLEAN, NEW withRequests \in BOOLEAN,
                    NEW withTrajectories \in BOOLEAN,
                    AInv, LoadScene(s, saveFirst, withRequests, withTrajectories)
             PROVE  TInv' /\ KInv' /\ SaveStep
  OBVIOUS
<1> DEFINE e == IF saveFirst THEN CurrentFound(editor) ELSE editor
           w == IF saveFirst THEN SavedTo(e, warehouse) ELSE warehouse
<1>1. /\ s \in DOMAIN editor.scenes /\ UNCHANGED <<arm, mode>>
      /\ saveFirst => MaySave(editor)
      /\ warehouse' = w /\ loadedOnce' = (loadedOnce /\ ~saveFirst)
      /\ editor' = CurrentSet(e, w, s, withRequests, withTrajectories)
      /\ Begins(withRequests /\ withTrajectories)
  BY DEF LoadScene
<1>2. /\ Agreed(e) /\ IsTyped(e) /\ DOMAIN editor.scenes \subseteq DOMAIN e.scenes
      /\ w \in Seq(Documents)
      /\ ~mode.foreign => Own(w)
      /\ ~mode.foreign /\ ~mode.careless =>
            /\ Placed(e) /\ Differ(w)
            /\ saveFirst => w[Len(w)].scene = editor.current /\ Held(w, editor.current) = Named(editor)
      /\ ~mode.fails /\ ~mode.busy /\ ~mode.foreign /\ ~mode.careless => Tight(e)
  BY <1>1, SaveFirstFacts
<1>3. ~saveFirst => w = warehouse OBVIOUS
<1> HIDE DEF e, w
<1>4. /\ s \in DOMAIN e.scenes
      /\ \A k \in DOMAIN e.scenes : e.scenes[k].requests # {} => k \in {s, e.current}
      /\ s # e.current => e.scenes[s].requests = {}
  BY <1>1, <1>2 DEF Agreed, OnlyCurrent
<1>5. /\ Agreed(editor') /\ IsTyped(editor')
      /\ Placed(e) => Placed(editor')
      /\ (\A r \in Held(w, s) : ~(Cardinality(Holding(w, s, r)) > 1)) => Complete(editor')
      /\ Tight(e) => Tight(editor')
  BY <1>1, <1>2, <1>4, CurrentSetAgrees DEF Agreed
<1>6. Differ(w) => \A r \in Held(w, s) : ~(Cardinality(Holding(w, s, r)) > 1) BY <1>2, OneEach
<1>7. TInv' /\ KInv'
  <2>1. loadedOnce' \in BOOLEAN BY <1>1 DEF AInv, TInv
  <2> QED BY <1>1, <1>2, <1>5, <1>6, <2>1, BeginsFits
<1>8. SaveStep
  <2> SUFFICES ASSUME whole, ~mode.foreign, ~mode.careless, warehouse' # warehouse
               PROVE  /\ warehouse'[Len(warehouse')].scene = editor.current
                      /\ Held(warehouse', editor.current) = work
    BY DEF SaveStep
  <2>1. saveFirst BY <1>1, <1>3
  <2>2. work = Named(editor) BY DEF AInv, KInv
  <2> QED BY <1>1, <1>2, <2>1, <2>2
<1> QED BY <1>7, <1>8

LEMMA NewSceneFits ==
    \A saveFirst \in BOOLEAN : AInv /\ NewScene(saveFirst) => TInv' /\ KInv' /\ SaveStep
<1> SUFFICES ASSUME NEW saveFirst \in BOOLEAN, AInv, NewScene(saveFirst)
             PROVE  TInv' /\ KInv' /\ SaveStep
  OBVIOUS
<1> DEFINE e == IF saveFirst THEN CurrentFound(editor) ELSE editor
           w == IF saveFirst THEN SavedTo(e, warehouse) ELSE warehouse
           n == NextSceneId(w)
           made == SceneCreated(e, w)
<1>1. /\ UNCHANGED <<arm, mode>> /\ n \in SceneIds
      /\ saveFirst => MaySave(editor)
      /\ warehouse' = w /\ loadedOnce' = (loadedOnce /\ ~saveFirst)
      /\ editor' = CurrentSet(made, w, n, TRUE, TRUE)
      /\ Begins(TRUE)
  BY DEF NewScene
<1>2. /\ Agreed(e) /\ IsTyped(e)
      /\ w \in Seq(Documents)
      /\ ~mode.foreign => Own(w)
      /\ ~mode.foreign /\ ~mode.careless =>
            /\ Placed(e) /\ Differ(w)
            /\ saveFirst => w[Len(w)].scene = editor.current /\ Held(w, editor.current) = Named(editor)
      /\ ~mode.fails /\ ~mode.busy /\ ~mode.foreign /\ ~mode.careless => Tight(e)
  BY <1>1, SaveFirstFacts
<1>3. ~saveFirst => w = warehouse OBVIOUS
<1> HIDE DEF e, w
<1>4. /\ Agreed(made) /\ IsTyped(made) /\ n \in DOMAIN made.scenes
      /\ (Placed(e) => Placed(made)) /\ (Tight(e) => Tight(made))
  BY <1>1, <1>2, SceneCreatedAgrees
<1> HIDE DEF n, made
<1>5. /\ \A k \in DOMAIN made.scenes : made.scenes[k].requests # {} => k \in {n, made.current}
      /\ n # made.current => made.scenes[n].requests = {}
  BY <1>4 DEF Agreed, OnlyCurrent
<1>6. /\ Agreed(editor') /\ IsTyped(editor')
      /\ Placed(made) => Placed(editor')
      /\ (\A r \in Held(w, n) : ~(Cardinality(Holding(w, n, r)) > 1)) => Complete(editor')
      /\ Tight(made) => Tight(editor')
  BY <1>1, <1>2, <1>4, <1>5, CurrentSetAgrees DEF Agreed
<1>7. Differ(w) => \A r \in Held(w, n) : ~(Cardinality(Holding(w, n, r)) > 1) BY <1>2, OneEach
<1>8. TInv' /\ KInv'
  <2>1. loadedOnce' \in BOOLEAN BY <1>1 DEF AInv, TInv
  <2> QED BY <1>1, <1>2, <1>4, <1>6, <1>7, <2>1, BeginsFits
<1>9. SaveStep
  <2> SUFFICES ASSUME whole, ~mode.foreign, ~mode.careless, warehouse' # warehouse
               PROVE  /\ warehouse'[Len(warehouse')].scene = editor.current
                      /\ Held(warehouse', editor.current) = work
    BY DEF SaveStep
  <2>1. saveFirst BY <1>1, <1>3
  <2>2. work = Named(editor) BY DEF AInv, KInv
  <2> QED BY <1>1, <1>2, <2>1, <2>2
<1> QED BY <1>8, <1>9

LEMMA SaveSceneFits == AInv /\ SaveScene => TInv' /\ KInv' /\ SaveStep
<1> SUFFICES ASSUME AInv, SaveScene PROVE TInv' /\ KInv' /\ SaveStep OBVIOUS
<1> DEFINE e == CurrentFound(editor)
           w == SavedTo(e, warehouse)
<1>1. /\ editor' = e /\ warehouse' = w /\ loadedOnce' = FALSE /\ MaySave(editor)
      /\ dialog = "closed"
      /\ UNCHANGED <<dialog, initialized, arm, work, whole, mode>>
  BY DEF SaveScene
<1>2. /\ Agreed(e) /\ IsTyped(e) /\ Named(e) = Named(editor)
      /\ e.current = editor.current /\ (editor.current \in DOMAIN editor.scenes => e = editor)
  BY CurrentFoundAgrees DEF AInv, IInv, TInv
<1>3. /\ w \in Seq(Documents)
      /\ ~mode.foreign => Own(w)
      /\ ~mode.foreign /\ ~mode.careless =>
            /\ Differ(w)
            /\ w[Len(w)].scene = editor.current /\ Held(w, editor.current) = Named(editor)
  BY <1>1, SaveFirstFacts
<1> HIDE DEF e, w
<1>4. ~mode.careless => e = editor BY <1>1, <1>2 DEF MaySave
<1>5. TInv' BY <1>1, <1>2, <1>3 DEF AInv, TInv, arm
<1>6. KInv' BY <1>1, <1>2, <1>3, <1>4 DEF AInv, KInv
<1>7. SaveStep
  <2> SUFFICES ASSUME whole, ~mode.foreign, ~mode.careless
               PROVE  /\ warehouse'[Len(warehouse')].scene = editor.current
                      /\ Held(warehouse', editor.current) = work
    BY DEF SaveStep
  <2>1. work = Named(editor) BY DEF AInv, KInv
  <2> QED BY <1>1, <1>3, <2>1
<1> QED BY <1>5, <1>6, <1>7

LEMMA CopySceneFits == AInv /\ CopyScene => TInv' /\ KInv' /\ SaveStep
<1> SUFFICES ASSUME AInv, CopyScene PROVE TInv' /\ KInv' /\ SaveStep OBVIOUS
<1> DEFINE e == CurrentFound(editor)
           n == NextSceneId(warehouse)
           copied == SceneCopied(e, n)
           document == Document(copied, n)
           w == Append(warehouse, document)
<1>1. /\ warehouse' = w /\ loadedOnce' = FALSE /\ MaySave(editor) /\ Fits(w)
      /\ dialog = "closed" /\ work' = Named(editor')
      /\ UNCHANGED <<dialog, initialized, arm, whole, mode>>
      /\ editor' = CurrentSet(copied, w, n, TRUE, TRUE)
  BY DEF CopyScene
<1>2. /\ Agreed(e) /\ IsTyped(e) /\ e.current \in DOMAIN e.scenes /\ e.current = editor.current
      /\ (editor.current \in DOMAIN editor.scenes => e = editor)
  BY CurrentFoundAgrees DEF AInv, IInv, TInv
<1>3. warehouse \in Seq(Documents) BY DEF AInv, TInv
<1>4. \A i \in DOMAIN warehouse : warehouse[i].scene # n BY <1>3, NextSceneIsNew
<1>5. Len(w) \in DOMAIN w /\ w[Len(w)] = Document(SceneCopied(e, n), n) OBVIOUS
<1>6. ~mode.careless => e = editor BY <1>1, <1>2 DEF MaySave
<1> HIDE DEF e, n, w
<1>7. /\ Sound(copied) /\ n \in DOMAIN copied.scenes
      /\ \A k \in DOMAIN copied.scenes : copied.scenes[k].requests # {} => k \in {n, copied.current}
      /\ \A r \in copied.scenes[n].requests : r \in RequestIds /\ Holding(w, n, r) # {}
      /\ document.scene = n /\ document.host = Here
      /\ DOMAIN document.requests = e.scenes[e.current].requests
      /\ IsTyped(e) /\ n \in SceneIds => IsTyped(copied) /\ document \in Documents
      /\ Placed(e) => Placed(copied)
      /\ Tight(e) => Tight(copied)
  <2> HIDE DEF copied, document
  <2> QED BY <1>2, <1>5, SceneCopiedAgrees DEF copied, document
<1> HIDE DEF copied, document
<1>8. w[Len(w)] = document BY <1>5 DEF copied, document
<1>9. n \in SceneIds BY <1>1, <1>5, <1>7, <1>8 DEF Fits, StoredIds
<1>10. document \in Documents /\ IsTyped(copied) BY <1>2, <1>7, <1>9
<1>11. /\ w \in Seq(Documents) /\ (Own(warehouse) => Own(w))
       /\ Differ(warehouse) => Differ(w)
       /\ Held(w, n) = DOMAIN document.requests
  BY <1>3, <1>4, <1>7, <1>10, Pushed DEF w
<1>12. /\ Agreed(editor') /\ IsTyped(editor') /\ editor'.current = n
       /\ Placed(copied) => Placed(editor')
       /\ (\A r \in Held(w, n) : ~(Cardinality(Holding(w, n, r)) > 1)) => Complete(editor')
       /\ Tight(copied) => Tight(editor')
  <2>1. /\ Sound(copied) /\ n \in DOMAIN copied.scenes
        /\ \A k \in DOMAIN copied.scenes : copied.scenes[k].requests # {} => k \in {n, copied.current}
        /\ \A r \in copied.scenes[n].requests : r \in RequestIds /\ Holding(w, n, r) # {}
    BY <1>7
  <2>2. editor' = CurrentSet(copied, w, n, TRUE, TRUE) BY <1>1
  <2>3. Agreed(editor') BY <2>1, <2>2, CurrentSetAgrees
  <2>7. editor'.current = n BY <2>1, <2>2 DEF CurrentSet
  <2>4. IsTyped(editor') BY <1>10, <1>11, <2>1, <2>2, CurrentSetAgrees
  <2>5. (Placed(copied) => Placed(editor')) /\ (Tight(copied) => Tight(editor'))
    BY <2>1, <2>2, CurrentSetAgrees
  <2>6. (\A r \in Held(w, n) : ~(Cardinality(Holding(w, n, r)) > 1)) => Complete(editor')
    BY <2>1, <2>2, CurrentSetAgrees
  <2> QED BY <2>3, <2>4, <2>5, <2>6, <2>7
<1>13. Differ(w) => \A r \in Held(w, n) : ~(Cardinality(Holding(w, n, r)) > 1) BY <1>11, OneEach
<1>14. TInv'
  <2>1. work' \in SUBSET RequestIds BY <1>1, <1>12 DEF Agreed, Sound, Shaped
  <2> QED BY <1>1, <1>11, <1>12, <2>1 DEF AInv, TInv, arm
<1>15. KInv' BY <1>1, <1>6, <1>7, <1>11, <1>12, <1>13 DEF AInv, KInv
<1>16. SaveStep
  <2> SUFFICES ASSUME whole, ~mode.foreign, ~mode.careless
               PROVE  /\ warehouse'[Len(warehouse')].scene = editor'.current
                      /\ Held(warehouse', editor'.current) = work
    BY DEF SaveStep
  <2>1. work = Named(e) BY <1>6 DEF AInv, KInv
  <2>2. e.scenes[e.current].requests = Named(e)
    BY <1>2, <1>6 DEF AInv, KInv, Complete, Agreed, Sound, Listed
  <2> QED BY <1>1, <1>7, <1>8, <1>11, <1>12, <2>1, <2>2
<1> QED BY <1>14, <1>15, <1>16

LEMMA RemoveSceneFits == \A s \in SceneIds : AInv /\ RemoveScene(s) => TInv' /\ KInv' /\ SaveStep
<1> SUFFICES ASSUME NEW s \in SceneIds, AInv, RemoveScene(s) PROVE TInv' /\ KInv' /\ SaveStep
  OBVIOUS
<1> DEFINE e == editor
           scenes == Without(e.scenes, {s})
           data == e.scenes[s]
<1>1. e = Editor(e.scenes, e.current, e.requests, e.trajectories)
  BY DEF AInv, IInv, Agreed, Sound, Shaped
<1>2. /\ editor' = [e EXCEPT !.scenes = scenes] /\ dialog = "open"
      /\ mode.careless \/ s # e.current
      /\ warehouse' = Removed(warehouse, data.host, data.id)
      /\ UNCHANGED <<dialog, loadedOnce, initialized, arm, work, whole, mode>>
  BY DEF RemoveScene
<1>3. /\ IsMap(scenes) /\ DOMAIN scenes = DOMAIN e.scenes \ {s}
      /\ \A k \in DOMAIN scenes : scenes[k] = e.scenes[k]
  BY DEF Without, IsMap
<1> HIDE DEF scenes, data
<1>4. editor' = Editor(scenes, e.current, e.requests, e.trajectories)
  <2> HIDE DEF e
  <2> QED BY <1>1, <1>2 DEF Editor
<1>5. Agreed(e) /\ IsTyped(e) BY DEF AInv, IInv, TInv
<1>6. ~mode.foreign /\ ~mode.careless => Placed(e) /\ Complete(e) BY DEF AInv, KInv
<1>7. ~mode.fails /\ ~mode.busy /\ ~mode.foreign /\ ~mode.careless => Tight(e) BY DEF AInv, KInv
<1>8. whole => work = Named(e) BY DEF AInv, KInv
<1> HIDE DEF e
<1>9. \A k \in DOMAIN scenes : IsScene(scenes[k]) BY <1>3, <1>5 DEF Agreed, Sound, Shaped
<1>10. e.current \in DOMAIN scenes => scenes[e.current].requests \subseteq Named(e)
  BY <1>3, <1>5 DEF Agreed, Sound, Listed
<1>11. \A k \in DOMAIN scenes : scenes[k].requests # {} => k = e.current
  BY <1>3, <1>5 DEF Agreed, OnlyCurrent
<1>12. /\ e.current \in SceneIds \cup {None}
       /\ \A k \in DOMAIN scenes :
             /\ k \in SceneIds \cup {None} /\ scenes[k].id \in SceneIds
             /\ scenes[k].host \in Hosts /\ scenes[k].requests \subseteq RequestIds
  BY <1>3, <1>5 DEF IsTyped
<1>13. Named(editor') = Named(e) /\ (Tight(e) => Tight(editor')) /\ IsTyped(editor')
  BY <1>3, <1>4, <1>5, <1>9, <1>10, <1>11, <1>12, ScenesChange
<1>14. editor'.scenes = scenes /\ editor'.current = e.current BY <1>4, EditorFields
<1>15. ~mode.foreign /\ ~mode.careless => Placed(editor') /\ Complete(editor')
  BY <1>2, <1>3, <1>6, <1>13, <1>14 DEF Placed, Complete
<1>16. /\ warehouse' \in Seq(Documents)
       /\ Own(warehouse) => Own(warehouse')
       /\ Differ(warehouse) => Differ(warehouse')
  <2>1. warehouse \in Seq(Documents) BY DEF AInv, TInv
  <2> QED BY <1>2, <2>1, RemovedKeeps
<1>17. TInv' BY <1>2, <1>13, <1>16 DEF AInv, TInv, arm
<1>18. KInv' BY <1>2, <1>7, <1>8, <1>13, <1>15, <1>16 DEF AInv, KInv
<1>19. SaveStep BY <1>2 DEF AInv, KInv, SaveStep
<1> QED BY <1>17, <1>18, <1>19

LEMMA CreateRequestFits == AInv /\ CreateRequest => TInv' /\ KInv' /\ SaveStep
<1> SUFFICES ASSUME AInv, CreateRequest PROVE TInv' /\ KInv' /\ SaveStep OBVIOUS
<1> DEFINE e == CurrentFound(editor)
           id == NextId(e.scenes[e.current].requests)
           requests == Put(e.requests, id, NewRequest)
           listed == e.scenes[e.current].requests \cup {id}
           scenes == [e.scenes EXCEPT ![e.current].requests = listed]
<1>1. /\ UNCHANGED <<warehouse, dialog, loadedOnce, initialized, arm, whole, mode>>
      /\ id \in RequestIds /\ MaySave(editor) /\ work' = work \cup {id}
      /\ editor' = [e EXCEPT !.requests = requests, !.scenes[e.current].requests = @ \cup {id}]
  BY DEF CreateRequest
<1>2. /\ Agreed(e) /\ IsTyped(e) /\ Named(e) = Named(editor) /\ e.current \in DOMAIN e.scenes
      /\ editor.current \in DOMAIN editor.scenes => e = editor
  BY CurrentFoundAgrees DEF AInv, IInv, TInv
<1>3. ~mode.careless => e = editor BY <1>1, <1>2 DEF MaySave
<1> HIDE DEF e
<1>4. id \notin e.scenes[e.current].requests
  <2> DEFINE old == e.scenes[e.current].requests
  <2>1. old \subseteq RequestIds BY <1>2 DEF IsTyped
  <2>2. IsFiniteSet(old) BY <2>1, IdsAssumption, FS_Subset
  <2>3. old \in Numbers BY <2>1, <2>2, IdsAssumption DEF Numbers
  <2> HIDE DEF old
  <2>4. NextId(old) \notin old BY <2>3, NextIdIsNew
  <2> QED BY <2>4 DEF old
<1>5. /\ IsMap(requests) /\ DOMAIN requests = DOMAIN e.requests \cup {id}
      /\ \A k \in DOMAIN requests : requests[k] = IF k = id THEN NewRequest ELSE e.requests[k]
  BY DEF Put, IsMap
<1> HIDE DEF requests, id
<1>6. editor' = Editor(scenes, e.current, requests, e.trajectories)
  <2>1. e = Editor(e.scenes, e.current, e.requests, e.trajectories) BY <1>2 DEF Agreed, Sound, Shaped
  <2> QED BY <1>1, <2>1 DEF Editor
<1> HIDE DEF listed
<1>7. /\ DOMAIN scenes = DOMAIN e.scenes
      /\ \A k \in DOMAIN e.scenes : k # e.current => scenes[k] = e.scenes[k]
      /\ scenes[e.current] = [e.scenes[e.current] EXCEPT !.requests = listed]
  BY <1>2
<1> HIDE DEF scenes
<1>8. /\ scenes[e.current].requests = listed
      /\ scenes[e.current].id = e.scenes[e.current].id
      /\ scenes[e.current].host = e.scenes[e.current].host
  <2>1. IsScene(e.scenes[e.current]) BY <1>2 DEF Agreed, Sound, Shaped
  <2> QED BY <1>7, <2>1, SceneRelisted
<1>9. NewRequest.named = TRUE /\ NewRequest.trajs = {} BY DEF NewRequest
<1>10. /\ editor'.scenes = scenes /\ editor'.current = e.current
       /\ editor'.requests = requests /\ editor'.trajectories = e.trajectories
  BY <1>6, EditorFields
<1>11. Named(editor') = Named(e) \cup {id} BY <1>5, <1>9, <1>10 DEF Named
<1>12. IsTyped(editor')
  <2>1. /\ listed \subseteq RequestIds BY <1>1, <1>2 DEF IsTyped, listed
  <2>2. \A k \in DOMAIN scenes :
           /\ k \in SceneIds \cup {None} /\ scenes[k].id \in SceneIds
           /\ scenes[k].host \in Hosts /\ scenes[k].requests \subseteq RequestIds
    BY <1>2, <1>7, <1>8, <2>1 DEF IsTyped
  <2>3. \A r \in DOMAIN requests : /\ r \in RequestIds \cup {None}
                                   /\ requests[r].named \in BOOLEAN /\ requests[r].trajs \in Numbers
    BY <1>1, <1>2, <1>5, <1>9, SomeNumbers DEF IsTyped
  <2> QED BY <1>2, <1>10, <2>2, <2>3 DEF IsTyped
<1>13. ASSUME ~mode.foreign, ~mode.careless PROVE Placed(editor') /\ Complete(editor')
  <2>1. Placed(e) /\ Complete(e) BY <1>3, <1>13 DEF AInv, KInv
  <2>2. Placed(editor') BY <1>2, <1>7, <1>8, <1>10, <2>1 DEF Placed
  <2>3. Named(e) \cup {id} \subseteq listed BY <1>2, <2>1 DEF Complete, listed
  <2> QED BY <1>8, <1>10, <1>11, <2>2, <2>3 DEF Complete
<1>14. ASSUME ~mode.fails, ~mode.busy, ~mode.foreign, ~mode.careless PROVE Tight(editor')
  <2>1. Tight(e) /\ Complete(e) BY <1>3, <1>14 DEF AInv, KInv
  <2>2. id \notin Named(e) BY <1>2, <1>4, <2>1 DEF Complete
  <2> SUFFICES ASSUME NEW k \in DOMAIN e.trajectories
               PROVE  k \in Named(editor') /\ e.trajectories[k] = requests[k].trajs
    BY <1>10 DEF Tight
  <2>3. k \in Named(e) /\ e.trajectories[k] = e.requests[k].trajs BY <2>1 DEF Tight
  <2>4. requests[k] = e.requests[k] BY <1>5, <2>2, <2>3 DEF Named
  <2> QED BY <1>11, <2>3, <2>4
<1>15. /\ whole => work' = Named(editor')
       /\ work' \in SUBSET RequestIds
  BY <1>1, <1>2, <1>11 DEF AInv, TInv, KInv
<1>16. /\ running' \in SUBSET Arms /\ monitor' \in {"idle", "Executing", "WaitingForStop"}
       /\ logged' \in RequestIds \cup {None}
  BY <1>1 DEF AInv, TInv, arm
<1> QED BY <1>1, <1>12, <1>13, <1>14, <1>15, <1>16, EditFits

LEMMA DeleteRequestFits ==
    \A r \in RequestIds : AInv /\ DeleteRequest(r) => TInv' /\ KInv' /\ SaveStep
<1> SUFFICES ASSUME NEW r \in RequestIds, AInv, DeleteRequest(r) PROVE TInv' /\ KInv' /\ SaveStep
  OBVIOUS
<1>1. /\ UNCHANGED <<warehouse, dialog, loadedOnce, initialized, arm, whole, mode>>
      /\ r \in Named(editor) /\ work' = work \ {r} /\ editor' = RequestsDeleted(editor, {r})
  BY DEF DeleteRequest
<1>2. Sound(editor) /\ IsTyped(editor) BY DEF AInv, IInv, TInv, Agreed
<1>3. /\ Named(editor') = Named(editor) \ {r}
      /\ IsTyped(editor) => IsTyped(editor')
      /\ Placed(editor) /\ {r} \subseteq Named(editor) =>
            Placed(editor') /\ (Complete(editor) => Complete(editor'))
      /\ Tight(editor) => Tight(editor')
  BY <1>1, <1>2, RequestsDeletedAgrees
<1>4. {r} \subseteq Named(editor) BY <1>1
<1>5. /\ ~mode.foreign /\ ~mode.careless => Placed(editor') /\ Complete(editor')
      /\ ~mode.fails /\ ~mode.busy /\ ~mode.foreign /\ ~mode.careless => Tight(editor')
  BY <1>3, <1>4 DEF AInv, KInv
<1>6. /\ whole => work' = Named(editor')
      /\ work' \in SUBSET RequestIds
  BY <1>1, <1>3 DEF AInv, TInv, KInv
<1>7. /\ running' \in SUBSET Arms /\ monitor' \in {"idle", "Executing", "WaitingForStop"}
      /\ logged' \in RequestIds \cup {None}
  BY <1>1 DEF AInv, TInv, arm
<1> QED BY <1>1, <1>2, <1>3, <1>5, <1>6, <1>7, EditFits

\* A trajectory that is added fits wherever it is filed; Tight needs its request to be there.
LEMMA AddedFits ==
    ASSUME AInv, NEW key \in RequestIds \cup {None}, editor' = Added(editor, key),
           UNCHANGED <<warehouse, dialog, loadedOnce, initialized, work, whole, mode>>,
           running' \in SUBSET Arms, monitor' \in {"idle", "Executing", "WaitingForStop"},
           logged' \in RequestIds \cup {None}, ~mode.busy => key \in Named(editor)
    PROVE  TInv' /\ KInv' /\ SaveStep
<1>1. Agreed(editor) /\ IsTyped(editor) BY DEF AInv, IInv, TInv
<1>2. /\ Named(editor') = Named(editor) /\ IsTyped(editor')
      /\ (Placed(editor) => Placed(editor')) /\ (Complete(editor) => Complete(editor'))
      /\ Tight(editor) /\ key \in Named(editor) => Tight(editor')
  BY <1>1, AddedAgrees
<1>3. /\ ~mode.foreign /\ ~mode.careless => Placed(editor') /\ Complete(editor')
      /\ ~mode.fails /\ ~mode.busy /\ ~mode.foreign /\ ~mode.careless => Tight(editor')
  BY <1>2 DEF AInv, KInv
<1>4. /\ whole => work' = Named(editor')
      /\ work' \in SUBSET RequestIds
  BY <1>2 DEF AInv, TInv, KInv
<1> QED BY <1>2, <1>3, <1>4, EditFits

LEMMA ProduceFits == \A r \in RequestIds : AInv /\ Produce(r) => TInv' /\ KInv' /\ SaveStep
<1> SUFFICES ASSUME NEW r \in RequestIds, AInv, Produce(r) PROVE TInv' /\ KInv' /\ SaveStep
  OBVIOUS
<1>1. /\ UNCHANGED <<warehouse, dialog, loadedOnce, initialized, arm, work, whole, mode>>
      /\ r \in Named(editor) /\ editor' = Added(editor, r)
  BY DEF Produce
<1>2. /\ running' \in SUBSET Arms /\ monitor' \in {"idle", "Executing", "WaitingForStop"}
      /\ logged' \in RequestIds \cup {None}
  BY <1>1 DEF AInv, TInv, arm
<1>3. r \in RequestIds \cup {None} OBVIOUS
<1> QED BY <1>1, <1>2, <1>3, AddedFits

LEMMA ControllerDoneFits ==
    \A a \in Arms : AInv /\ ControllerDone(a) => TInv' /\ KInv' /\ SaveStep
<1> SUFFICES ASSUME NEW a \in Arms, AInv, ControllerDone(a) PROVE TInv' /\ KInv' /\ SaveStep
  OBVIOUS
<1>1. /\ UNCHANGED <<warehouse, dialog, loadedOnce, initialized, logged, work, whole, mode>>
      /\ a \in running /\ running' = running \ {a} /\ editor' = Added(editor, logged)
      /\ monitor' = "WaitingForStop"
  BY DEF ControllerDone
<1>2. ~mode.busy => logged \in Named(editor) BY <1>1 DEF AInv, IInv
<1>3. /\ running' \in SUBSET Arms /\ monitor' \in {"idle", "Executing", "WaitingForStop"}
      /\ logged \in RequestIds \cup {None} /\ logged' \in RequestIds \cup {None}
  BY <1>1 DEF AInv, TInv
<1> QED BY <1>1, <1>2, <1>3, AddedFits

LEMMA ArmHasStoppedMovingFits == AInv /\ ArmHasStoppedMoving => TInv' /\ KInv' /\ SaveStep
<1> SUFFICES ASSUME AInv, ArmHasStoppedMoving PROVE TInv' /\ KInv' /\ SaveStep OBVIOUS
<1>1. /\ UNCHANGED <<warehouse, dialog, loadedOnce, initialized, running, work, whole, mode>>
      /\ editor' = Added(editor, logged) /\ logged' = None
      /\ monitor = "WaitingForStop" /\ monitor' = "idle"
  BY DEF ArmHasStoppedMoving
<1>2. ~mode.busy => logged \in Named(editor) BY <1>1 DEF AInv, IInv
<1>3. /\ running' \in SUBSET Arms /\ monitor' \in {"idle", "Executing", "WaitingForStop"}
      /\ logged \in RequestIds \cup {None} /\ logged' \in RequestIds \cup {None}
  BY <1>1 DEF AInv, TInv
<1> QED BY <1>1, <1>2, <1>3, AddedFits

LEMMA ProduceFailsFits ==
    \A r \in RequestIds, junk \in JunkIds :
        AInv /\ ProduceFails(r, junk) => TInv' /\ KInv' /\ SaveStep
<1> SUFFICES ASSUME NEW r \in RequestIds, NEW junk \in JunkIds, AInv, ProduceFails(r, junk)
             PROVE  TInv' /\ KInv' /\ SaveStep
  OBVIOUS
<1> DEFINE e == editor
           filed == Found(e.trajectories, r, {})
           trajectories == [filed EXCEPT ![r] = @ \cup {junk}]
<1>1. /\ UNCHANGED <<warehouse, dialog, loadedOnce, initialized, arm, work, whole, mode>>
      /\ editor' = [e EXCEPT !.trajectories = trajectories] /\ mode.fails
  BY DEF ProduceFails
<1>2. Agreed(e) /\ IsTyped(e) BY DEF AInv, IInv, TInv
<1>3. ~mode.foreign /\ ~mode.careless => Placed(e) /\ Complete(e) BY DEF AInv, KInv
<1>4. whole => work = Named(e) BY DEF AInv, KInv
<1> HIDE DEF e
<1>5. /\ DOMAIN filed = DOMAIN e.trajectories \cup {r}
      /\ \A k \in DOMAIN filed :
            filed[k] = IF k \in DOMAIN e.trajectories THEN e.trajectories[k] ELSE {}
  BY DEF Found
<1>6. \A k \in DOMAIN filed : k \in RequestIds \cup {None} /\ filed[k] \in Numbers
  BY <1>2, <1>5, SomeNumbers DEF IsTyped
<1> HIDE DEF filed
<1>7. /\ DOMAIN trajectories = DOMAIN filed
      /\ \A k \in DOMAIN filed : k # r => trajectories[k] = filed[k]
      /\ trajectories[r] = filed[r] \cup {junk}
  BY <1>5
<1> HIDE DEF trajectories
<1>8. filed[r] \cup {junk} \in Numbers
  <2>1. junk \in Nat BY IdsAssumption
  <2>2. {junk} \in Numbers /\ filed[r] \in Numbers BY <1>5, <1>6, <2>1, SomeNumbers
  <2> QED BY <2>2, SomeNumbers
<1>9. \A k \in DOMAIN trajectories : k \in RequestIds \cup {None} /\ trajectories[k] \in Numbers
  BY <1>6, <1>7, <1>8
<1>10. editor' = Editor(e.scenes, e.current, e.requests, trajectories)
  <2>1. e = Editor(e.scenes, e.current, e.requests, e.trajectories) BY <1>2 DEF Agreed, Sound, Shaped
  <2> QED BY <1>1, <2>1 DEF Editor
<1>11. /\ editor'.scenes = e.scenes /\ editor'.current = e.current
       /\ editor'.requests = e.requests /\ editor'.trajectories = trajectories
  BY <1>10, EditorFields
<1>12. Named(editor') = Named(e) BY <1>11 DEF Named
<1>13. IsTyped(editor') BY <1>2, <1>9, <1>11 DEF IsTyped
<1>14. ~mode.foreign /\ ~mode.careless => Placed(editor') /\ Complete(editor')
  BY <1>3, <1>11, <1>12 DEF Placed, Complete
<1>15. /\ whole => work' = Named(editor')
       /\ work' \in SUBSET RequestIds
  BY <1>1, <1>4, <1>12 DEF AInv, TInv
<1>16. /\ running' \in SUBSET Arms /\ monitor' \in {"idle", "Executing", "WaitingForStop"}
       /\ logged' \in RequestIds \cup {None}
  BY <1>1 DEF AInv, TInv, arm
<1> QED BY <1>1, <1>13, <1>14, <1>15, <1>16, EditFits

LEMMA DeleteTrajectoryFits ==
    \A r \in RequestIds, t \in TrajectoryIds :
        AInv /\ DeleteTrajectory(r, t) => TInv' /\ KInv' /\ SaveStep
<1> SUFFICES ASSUME NEW r \in RequestIds, NEW t \in TrajectoryIds, AInv, DeleteTrajectory(r, t)
             PROVE  TInv' /\ KInv' /\ SaveStep
  OBVIOUS
<1> DEFINE e == editor
           only == [k \in DOMAIN e.trajectories |-> IF k = r THEN {t} ELSE {}]
           x == e.requests[r]
           left == x.trajs \ {t}
           requests == [e.requests EXCEPT ![r].trajs = left]
           trajectories == Remaining(e.trajectories, only)
<1>1. /\ UNCHANGED <<warehouse, dialog, loadedOnce, initialized, arm, work, whole, mode>>
      /\ editor' = [e EXCEPT !.requests[r].trajs = @ \ {t}, !.trajectories = trajectories]
      /\ r \in Named(e)
  BY DEF DeleteTrajectory
<1>2. Agreed(e) /\ IsTyped(e) BY DEF AInv, IInv, TInv
<1>3. ~mode.foreign /\ ~mode.careless => Placed(e) /\ Complete(e) BY DEF AInv, KInv
<1>4. ~mode.fails /\ ~mode.busy /\ ~mode.foreign /\ ~mode.careless => Tight(e) BY DEF AInv, KInv
<1>5. whole => work = Named(e) BY DEF AInv, KInv
<1> HIDE DEF e
<1>6. /\ DOMAIN trajectories \subseteq DOMAIN e.trajectories
      /\ \A k \in DOMAIN trajectories :
            trajectories[k] = IF k = r THEN e.trajectories[k] \ {t} ELSE e.trajectories[k]
  BY DEF Remaining
<1> HIDE DEF trajectories
<1>7. editor' = Editor(e.scenes, e.current, requests, trajectories)
  <2>1. e = Editor(e.scenes, e.current, e.requests, e.trajectories) BY <1>2 DEF Agreed, Sound, Shaped
  <2> QED BY <1>1, <2>1 DEF Editor
<1>8. r \in DOMAIN e.requests /\ x.named BY <1>1 DEF Named
<1> HIDE DEF left
<1>9. /\ DOMAIN requests = DOMAIN e.requests
      /\ \A k \in DOMAIN e.requests : k # r => requests[k] = e.requests[k]
      /\ requests[r] = [x EXCEPT !.trajs = left]
  BY <1>8
<1> HIDE DEF requests
<1>10. requests[r].named = x.named /\ requests[r].trajs = left
  <2>1. IsRequest(x) BY <1>2, <1>8 DEF Agreed, Sound, Shaped
  <2>2. x = [named |-> x.named, trajs |-> x.trajs] BY <2>1 DEF IsRequest
  <2> HIDE DEF x
  <2>3. requests[r] = [named |-> x.named, trajs |-> left] BY <1>9, <2>2
  <2> QED BY <2>3
<1>11. left \in Numbers BY <1>2, <1>8, SomeNumbers DEF IsTyped, left
<1>12. /\ editor'.scenes = e.scenes /\ editor'.current = e.current
       /\ editor'.requests = requests /\ editor'.trajectories = trajectories
  BY <1>7, EditorFields
<1>13. Named(editor') = Named(e) BY <1>8, <1>9, <1>10, <1>12 DEF Named
<1>14. IsTyped(editor')
  <2>1. \A k \in DOMAIN requests : /\ k \in RequestIds \cup {None}
                                   /\ requests[k].named \in BOOLEAN /\ requests[k].trajs \in Numbers
    BY <1>2, <1>8, <1>9, <1>10, <1>11 DEF IsTyped
  <2>2. ASSUME NEW k \in DOMAIN trajectories
        PROVE  k \in RequestIds \cup {None} /\ trajectories[k] \in Numbers
    <3>1. k \in RequestIds \cup {None} /\ e.trajectories[k] \in Numbers BY <1>2, <1>6 DEF IsTyped
    <3>2. e.trajectories[k] \ {t} \in Numbers BY <3>1, SomeNumbers
    <3> QED BY <1>6, <3>1, <3>2
  <2> QED BY <1>2, <1>12, <2>1, <2>2 DEF IsTyped
<1>15. ~mode.foreign /\ ~mode.careless => Placed(editor') /\ Complete(editor')
  BY <1>3, <1>12, <1>13 DEF Placed, Complete
<1>16. Tight(e) => Tight(editor')
  <2> SUFFICES ASSUME Tight(e), NEW k \in DOMAIN trajectories
               PROVE  k \in Named(e) /\ trajectories[k] = requests[k].trajs
    BY <1>12, <1>13 DEF Tight
  <2>1. k \in Named(e) /\ e.trajectories[k] = e.requests[k].trajs BY <1>6 DEF Tight
  <2>2. CASE k = r BY <1>6, <1>10, <2>1, <2>2 DEF left
  <2>3. CASE k # r BY <1>6, <1>9, <2>1, <2>3 DEF Named
  <2> QED BY <2>2, <2>3
<1>17. /\ whole => work' = Named(editor')
       /\ work' \in SUBSET RequestIds
  BY <1>1, <1>5, <1>13 DEF AInv, TInv
<1>18. /\ running' \in SUBSET Arms /\ monitor' \in {"idle", "Executing", "WaitingForStop"}
       /\ logged' \in RequestIds \cup {None}
  BY <1>1 DEF AInv, TInv, arm
<1> QED BY <1>1, <1>4, <1>14, <1>15, <1>16, <1>17, <1>18, EditFits

LEMMA ExecuteFits ==
    \A r \in RequestIds, t \in TrajectoryIds :
        AInv /\ Execute(r, t) => TInv' /\ KInv' /\ SaveStep
<1> SUFFICES ASSUME NEW r \in RequestIds, NEW t \in TrajectoryIds, AInv, Execute(r, t)
             PROVE  TInv' /\ KInv' /\ SaveStep
  OBVIOUS
<1>1. /\ UNCHANGED <<warehouse, editor, dialog, loadedOnce, initialized, work, whole, mode>>
      /\ running' = running \cup {ArmOf[r]} /\ logged' = r /\ monitor' = "Executing"
  BY DEF Execute
<1>2. running' \in SUBSET Arms BY <1>1, ArmOfAssumption DEF AInv, TInv
<1>3. TInv' BY <1>1, <1>2 DEF AInv, TInv
<1>4. KInv' BY <1>1 DEF AInv, KInv
<1>5. SaveStep BY <1>1 DEF SaveStep
<1> QED BY <1>3, <1>4, <1>5

LEMMA DialogFits ==
    AInv /\ (OpenLoadDialog \/ RefreshButtonPressed \/ CloseDialog) => TInv' /\ KInv' /\ SaveStep
<1> SUFFICES ASSUME AInv, OpenLoadDialog \/ RefreshButtonPressed \/ CloseDialog
             PROVE  TInv' /\ KInv' /\ SaveStep
  OBVIOUS
<1>1. /\ UNCHANGED <<warehouse, editor, loadedOnce, initialized, arm, work, whole, mode>>
      /\ dialog' \in {"closed", "loading", "open"} /\ (dialog' = "open" => loadedOnce)
  BY DEF OpenLoadDialog, RefreshButtonPressed, CloseDialog
<1>2. TInv' BY <1>1 DEF AInv, TInv, arm
<1>3. KInv' BY <1>1 DEF AInv, KInv
<1>4. SaveStep BY <1>1 DEF SaveStep
<1> QED BY <1>2, <1>3, <1>4

LEMMA NextFits == AInv /\ [Next]_vars => TInv' /\ KInv' /\ (vars' = vars \/ SaveStep)
<1> SUFFICES ASSUME AInv, [Next]_vars PROVE TInv' /\ KInv' /\ (vars' = vars \/ SaveStep) OBVIOUS
<1>1. CASE Recording BY <1>1, ArmHasStoppedMovingFits, ControllerDoneFits DEF Recording
<1>2. CASE Editing
  BY <1>2, CreateRequestFits, DeleteRequestFits, ProduceFits, ProduceFailsFits,
     DeleteTrajectoryFits, ExecuteFits DEF Editing
<1>3. CASE Filing
  BY <1>3, DialogFits, TableLoadsFits, SaveSceneFits, CopySceneFits, LoadSceneFits,
     NewSceneFits, RemoveSceneFits DEF Filing
<1>4. CASE UNCHANGED vars
  <2>1. TInv' BY <1>4 DEF vars, AInv, TInv
  <2>2. KInv' BY <1>4 DEF vars, AInv, KInv
  <2> QED BY <1>4, <2>1, <2>2
<1> QED BY <1>1, <1>2, <1>3, <1>4 DEF Next

LEMMA FieldsAreTyped == AInv => TypeOK
<1> SUFFICES ASSUME AInv PROVE TypeOK OBVIOUS
<1>1. ASSUME NEW i \in DOMAIN warehouse
      PROVE  /\ warehouse[i].scene \in SceneIds /\ warehouse[i].host \in Hosts
             /\ DOMAIN warehouse[i].requests \subseteq RequestIds
             /\ \A r \in DOMAIN warehouse[i].requests : warehouse[i].requests[r] \subseteq Nat
  <2>1. warehouse[i] \in Documents BY DEF AInv, TInv
  <2>2. /\ warehouse[i].scene \in SceneIds /\ warehouse[i].host \in Hosts
        /\ warehouse[i].requests \in Requests
    BY <2>1 DEF Documents
  <2> QED BY <2>2, RequestsFields DEF Numbers
<1>2. Shaped(editor) /\ IsTyped(editor) BY DEF AInv, IInv, TInv, Agreed, Sound
<1>3. DOMAIN editor = {"scenes", "current", "requests", "trajectories"}
  <2>1. editor = Editor(editor.scenes, editor.current, editor.requests, editor.trajectories)
    BY <1>2 DEF Shaped
  <2>2. ASSUME NEW a, NEW b, NEW c, NEW d
        PROVE  DOMAIN Editor(a, b, c, d) = {"scenes", "current", "requests", "trajectories"}
    BY DEF Editor
  <2> QED BY <2>1, <2>2
<1>4. ASSUME NEW s \in DOMAIN editor.scenes PROVE editor.scenes[s] \in SceneData
  <2> DEFINE x == editor.scenes[s]
  <2>1. x = [id |-> x.id, host |-> x.host, requests |-> x.requests] BY <1>2 DEF Shaped, IsScene
  <2>2. x.id \in SceneIds /\ x.host \in Hosts /\ x.requests \in SUBSET RequestIds
    BY <1>2 DEF IsTyped
  <2> HIDE DEF x
  <2>3. x \in SceneData BY <2>1, <2>2 DEF SceneData
  <2> QED BY <2>3 DEF x
<1>5. ASSUME NEW r \in DOMAIN editor.requests PROVE editor.requests[r] \in RequestData
  <2> DEFINE x == editor.requests[r]
  <2>1. x = [named |-> x.named, trajs |-> x.trajs] BY <1>2 DEF Shaped, IsRequest
  <2>2. x.named \in BOOLEAN /\ x.trajs \in SUBSET Nat BY <1>2 DEF IsTyped, Numbers
  <2> HIDE DEF x
  <2>3. x \in RequestData BY <2>1, <2>2 DEF RequestData
  <2> QED BY <2>3 DEF x
<1>6. /\ DOMAIN editor.scenes \subseteq SceneIds \cup {None}
      /\ editor.current \in SceneIds \cup {None}
      /\ DOMAIN editor.requests \subseteq RequestIds \cup {None}
      /\ DOMAIN editor.trajectories \subseteq RequestIds \cup {None}
      /\ \A r \in DOMAIN editor.trajectories : editor.trajectories[r] \in SUBSET Nat
  BY <1>2 DEF IsTyped, Numbers
<1> QED BY <1>1, <1>3, <1>4, <1>5, <1>6 DEF TypeOK, AInv, TInv

LEMMA SavesFit == AInv => MapsMatchLists /\ OneDocumentPerScene
<1> SUFFICES ASSUME AInv PROVE MapsMatchLists /\ OneDocumentPerScene OBVIOUS
<1>1. MapsMatchLists BY DEF AInv, KInv, MapsMatchLists, Complete, Tight
<1>2. OneDocumentPerScene
  <2> SUFFICES ASSUME ~mode.foreign, ~mode.careless, NEW s \in SceneIds
               PROVE  Cardinality(Stored(warehouse, s)) <= 1
    BY DEF OneDocumentPerScene
  <2>1. warehouse \in Seq(Documents) /\ Differ(warehouse) BY DEF AInv, TInv, KInv
  <2> QED BY <2>1, OneEach
<1> QED BY <1>1, <1>2

LEMMA AInvHolds == Spec => []AInv
<1>1. Init => AInv BY InitKeeps, InitFits DEF AInv
<1>2. AInv /\ [Next]_vars => AInv' BY NextKeeps, NextFits DEF AInv
<1> QED BY <1>1, <1>2, PTL DEF Spec

\* The editor's maps and the stored documents have entries and fields of their kinds only, for
\* any scenes, requests, arms and sessions.
THEOREM TypeCorrect == Spec => []TypeOK
<1> QED BY AInvHolds, FieldsAreTyped, PTL

\* In a session whose scenes are this host's and where what is saved is what is held, every save,
\* copy and save before a load or a new scene leaves one document that holds exactly the requests
\* the user loaded or made and did not delete, whatever was done before.
THEOREM SavesKeepTheWork == Spec => SaveKeepsWork
<1>1. AInv /\ AInv' /\ [Next]_vars =>
         [/\ MapsMatchLists' /\ OneDocumentPerScene'
          /\ whole /\ ~mode.foreign /\ ~mode.careless /\ ~loadedOnce' /\ warehouse' # warehouse =>
                LET saved == warehouse'[Len(warehouse')].scene IN
                /\ saved \in {editor.current, editor'.current}
                /\ Held(warehouse', saved) = work]_vars
  <2> SUFFICES ASSUME AInv, AInv', [Next]_vars, vars' # vars
               PROVE  MapsMatchLists' /\ OneDocumentPerScene' /\ SaveStep
    BY DEF SaveStep
  <2>1. MapsMatchLists' /\ OneDocumentPerScene' BY SavesFit, PTL
  <2>2. SaveStep BY NextFits
  <2> QED BY <2>1, <2>2
<1> QED BY <1>1, AInvHolds, PTL DEF SaveKeepsWork, Spec

=============================================================================
