---------------------------- MODULE ChompOptimizer ----------------------------
(***************************************************************************)
(* The CHOMP planner node and its optimizer.  A request gives a full       *)
(* trajectory: its first and last point stay, those between are free.  The *)
(* optimizer works on a group trajectory, the same with its ends repeated  *)
(* for the differentiation rules, moves its free points down the cost, and *)
(* copies them back.  It keeps the best of the trajectories it evaluated,  *)
(* and from time to time asks whether that one is safe.  One joint, whose  *)
(* positions lie on a line or, when it is continuous, on a circle.         *)
(* Potentials and costs are doubled, so that they are integers.            *)
(***************************************************************************)
EXTENDS Integers, Sequences, FiniteSets, FiniteSetsExt, TrajectorySafety

CONSTANTS
    Lo, Hi,                     \* bound on the positions; NaN is none of them
    NaN,
    JointMin, JointMax,         \* getAllVariableBounds
    Turn,                       \* positions of a turn of a continuous joint
    Solid,                      \* where the arm's meshes hit an obstacle
    Radius, Clearance,          \* of a collision sphere; min_clearence_
    Rule,                       \* DIFF_RULES[0]
    SmoothnessWeight,           \* smoothness_cost_weight_
    JointUpdateLimit, MaxIterations, MaxIterationsAfterCollisionFree, CollisionThreshold,
    AddRandomness, UseStochasticDescent, AnimatePath,
    CheckInterval, CostWindow,  \* 10 and 10 in the code
    PlanPoints,                 \* trajectory_duration_ / trajectory_discretization_ + 1
    MinSplinePoints, MaxSplinePoints,
    UseTrajectoryFilter,
    Requests                    \* what clients ask for

Positions == Lo..Hi
ASSUME SizesAssumption ==
    /\ {Turn, CheckInterval, CostWindow, MaxIterations, JointUpdateLimit} \subseteq Nat \ {0}
    /\ MaxIterationsAfterCollisionFree \in Nat
ASSUME PointsAssumption ==
    /\ {PlanPoints, MinSplinePoints, MaxSplinePoints} \subseteq Nat \ 0..2
    /\ MinSplinePoints <= MaxSplinePoints
ASSUME NumbersAssumption ==
    /\ {Lo, Hi, JointMin, JointMax, Radius, Clearance, SmoothnessWeight} \subseteq Int
    /\ Solid \subseteq Int /\ Solid # {}
    /\ NaN \notin Int
ASSUME RuleAssumption == Rule \in Seq(Int) /\ Len(Rule) % 2 = 1 /\ Len(Rule) > 2
ASSUME RequestsAssumption ==
    /\ Requests \subseteq [kind : {"plan", "filter"}, continuous : BOOLEAN, constrained : BOOLEAN,
                           points : Seq(Positions)] \* of a plan: the start and the goal
    /\ \A r \in Requests : r.points # << >> /\ (r.kind = "plan" => Len(r.points) = 2)

VARIABLES
    pc,
    request,
    full,           \* full_trajectory_
    group,          \* group_trajectory_
    best,           \* best_group_trajectory_ and its cost
    iteration,
    costs,          \* the window of collision costs; currentCostIter is its length
    free,           \* is_collision_free_
    soon,           \* num_collision_free_iterations_, which nothing initializes
    freeIterations, \* collision_free_iteration_
    shouldBreakOut,
    cCost,          \* the collision cost of this iteration
    filterMode,     \* filter_mode_ of the node's parameters
    answer,         \* the service's answer
    least,          \* history: the least cost evaluated for this request
    promised        \* history: the last verdict of a check that set soon

loop == <<best, iteration, costs, free, soon, freeIterations, shouldBreakOut, cCost>>
history == <<least, promised>>
vars == <<pc, request, full, group, loop, filterMode, answer, history>>

-----------------------------------------------------------------------------
(* Trajectories: functions from 0 *)

LastOf(t) == Cardinality(DOMAIN t) - 1
Pad == Len(Rule) - 1
EndIndex(t) == LastOf(t) - 1
FreePoints(t) == 1..EndIndex(t)

\* The full trajectory's index of a point of the group's.
FullIndex(t, i) == LET source == i - (Pad - 1) IN
                   IF source < 0 THEN 0 ELSE IF source > LastOf(t) THEN LastOf(t) ELSE source
GroupLast(t) == LastOf(t) + 2 * (Pad - 1)
FreeVars(g) == Pad..(LastOf(g) - Pad)

GroupOf(t) == [i \in 0..GroupLast(t) |-> t[FullIndex(t, i)]]

\* What plausible slips of the code would be: each is taken for the definition after it.
UpdatedLate(t, g) == [i \in DOMAIN t |-> IF i \in FreePoints(t) THEN g[Pad + i] ELSE t[i]]

\* updateFromGroupTrajectory
Updated(t, g) == [i \in DOMAIN t |-> IF i \in FreePoints(t) THEN g[Pad + i - 1] ELSE t[i]]

\* A minimum jerk joins its ends without overshooting.
MinJerk(from, to, last, i) == from + ((to - from) * i) \div last
fillInMinJerk(t) == [i \in DOMAIN t |-> IF i \in FreePoints(t)
                                        THEN MinJerk(t[0], t[LastOf(t)], LastOf(t), i) ELSE t[i]]

\* overwriteTrajectory: a spline's points, one further on, the last over the goal.
overwriteTrajectory(t, points) ==
    [i \in DOMAIN t |-> IF i \in DOMAIN points THEN points[i] ELSE t[i]]

\* The goal on the side of the start it is nearest to.
ShortestWay(continuous, from, to) ==
    IF ~continuous THEN to
    ELSE LET ahead == (to - from) % Turn IN
         from + (IF 2 * ahead > Turn THEN ahead - Turn ELSE ahead)

\* Where a request's trajectory ends: the bound on the positions holds it.
GoalOf(r) == IF r.kind = "plan" THEN ShortestWay(r.continuous, r.points[1], r.points[2])
             ELSE r.points[Len(r.points)]
ASSUME GoalsAssumption == \A r \in Requests : GoalOf(r) \in Positions

-----------------------------------------------------------------------------
(* Costs *)

Apart(p, q) == IF request.continuous
               THEN LET d == (p - q) % Turn IN IF 2 * d > Turn THEN Turn - d ELSE d
               ELSE IF p > q THEN p - q ELSE q - p
Distance(p) == Min({Apart(p, q) : q \in Solid})

\* getPotential, doubled.
getPotential(distance) ==
    LET d == distance - Radius IN
    CASE d >= Clearance -> 0
      [] d >= 0 /\ d < Clearance -> Clearance * (d - Clearance) * (d - Clearance)
      [] OTHER -> Clearance - 2 * d

Velocity(g, i) == SumFunction([k \in DOMAIN Rule |-> Rule[k] * g[i + k - 1 - (Len(Rule) \div 2)]])
Magnitude(v) == IF v < 0 THEN -v ELSE v

StateCost(g, i) == getPotential(Distance(g[i])) * Magnitude(Velocity(g, i))
getCollisionCost(g) == SumFunction([i \in FreeVars(g) |-> StateCost(g, i)])
getSmoothnessCost(g) ==
    SmoothnessWeight * SumFunction([i \in FreeVars(g) |-> Velocity(g, i) * Velocity(g, i)])
getTrajectoryCost(g) == getSmoothnessCost(g) + getCollisionCost(g)

IsNaN(g) == \E i \in DOMAIN g : g[i] = NaN
NotAtLeast(x, y) == x = NaN \/ y = NaN \/ x < y

\* A comparison with NaN is false.
Less(x, y) == x # NaN /\ y # NaN /\ x < y
CostOf(g) == IF IsNaN(g) THEN NaN ELSE getTrajectoryCost(g)

\* is_collision_free_ after performForwardKinematics over some points.
StaysClear(g, points) == ~IsNaN(g) /\ \A i \in points : Distance(g[i]) >= 2 * Radius

-----------------------------------------------------------------------------
(* How the free points move *)

\* Where the gradient divides by a velocity of zero.
Singular(g) == {i \in FreeVars(g) : getPotential(Distance(g[i])) > 0 /\ Velocity(g, i) = 0}

\* The rows calculateCollisionIncrements goes through.
Rows(g) == IF UseStochasticDescent THEN {{i} : i \in FreeVars(g)} ELSE {FreeVars(g)}

WithBlock(g, b) == [i \in DOMAIN g |-> IF i \in DOMAIN b THEN b[i] ELSE g[i]]
AnyBlock(g) == {WithBlock(g, b) : b \in [FreeVars(g) -> Positions]}
Lost(g) == WithBlock(g, [i \in FreeVars(g) |-> NaN])

\* addIncrementsToTrajectory: whatever the gradients are, a step of the joint is limited.
Steps(g) ==
    {h \in {WithBlock(g, [i \in FreeVars(g) |-> g[i] + d[i]]) :
              d \in [FreeVars(g) -> -JointUpdateLimit..JointUpdateLimit]} :
       \A i \in FreeVars(g) : h[i] \in Positions}

\* A gradient that is not a number takes every free point with it.
Moved(g) ==
    IF IsNaN(g) THEN {g}
    ELSE UNION {IF rows \cap Singular(g) # {} THEN {Lost(g)} ELSE Steps(g) : rows \in Rows(g)}

\* Each pass brings the worst point back to its limit and drags the others
\* along; after eleven passes a point may still be beyond.
handleJointLimits(g) ==
    IF IsNaN(g) \/ request.continuous \/ (\A i \in FreeVars(g) : g[i] \in JointMin..JointMax)
    THEN {g} ELSE AnyBlock(g)

\* perturbTrajectory, which needs a state that costs something, and the limits.
Perturbed(g) ==
    IF IsNaN(g) \/ \A i \in FreeVars(g) : StateCost(g, i) = 0 THEN {g} ELSE AnyBlock(g)

-----------------------------------------------------------------------------
(* Requests *)

NoRequest == [kind |-> "none", continuous |-> FALSE, constrained |-> FALSE, points |-> << >>]
NoBest == [traj |-> << >>, cost |-> 0]

\* The trajectory a plan starts from.
PlanStart(r) ==
    fillInMinJerk([i \in 0..PlanPoints - 1 |->
                     IF i = PlanPoints - 1 THEN ShortestWay(r.continuous, r.points[1], r.points[2])
                     ELSE r.points[1]])

\* The spline through a trajectory's points, sampled at as many as the filter takes.
SplinePoints(n) == IF n > MaxSplinePoints THEN MaxSplinePoints
                   ELSE IF n < MinSplinePoints THEN MinSplinePoints ELSE n
Sampled(points) ==
    LET n == SplinePoints(Len(points)) IN
    [i \in 1..n |-> points[1 + ((i - 1) * (Len(points) - 1)) \div (n - 1)]]

\* The trajectory a filter starts from: the way round that was chosen for the
\* goal is overwritten with the spline's last point.
FilterStart(r) ==
    LET jtraj == Sampled(r.points) n == Len(jtraj) IN
    overwriteTrajectory(
        fillInMinJerk([i \in 0..n |-> IF i = n THEN ShortestWay(r.continuous, jtraj[1], jtraj[n])
                                      ELSE jtraj[1]]), jtraj)

Init ==
    /\ pc = "idle" /\ request = NoRequest /\ answer = "none"
    /\ full = << >> /\ group = << >> /\ best = NoBest
    /\ iteration = 0 /\ costs = << >> /\ cCost = 0
    /\ free = FALSE /\ soon = 0 /\ freeIterations = 0 /\ shouldBreakOut = FALSE
    /\ filterMode = FALSE
    /\ least = NaN /\ promised = "none"

\* The optimizer's constructor; nothing sets soon.
StartOptimizer(r, trajectory) ==
    /\ pc' = "evaluate" /\ request' = r /\ answer' = "none"
    /\ full' = trajectory
    /\ group' = GroupOf(trajectory)
    /\ best' = [traj |-> group', cost |-> 0]
    /\ soon' \in {0, 1, MaxIterations}
    /\ UNCHANGED <<iteration, costs, free, freeIterations, shouldBreakOut, cCost, history>>

\* Pose constraints are refused.
RefusePlan(r) ==
    /\ pc = "idle" /\ r.kind = "plan" /\ r.constrained
    /\ answer' = "INVALID_GOAL_POSITION_CONSTRAINTS"
    /\ UNCHANGED <<pc, request, full, group, loop, filterMode, history>>

\* planKinematicPath
Plan(r) ==
    /\ pc = "idle" /\ r.kind = "plan" /\ ~r.constrained
    /\ StartOptimizer(r, PlanStart(r))
    /\ UNCHANGED filterMode

\* A path with constraints goes to the other filters, or comes back empty.
PassThrough(r) ==
    /\ pc = "idle" /\ r.kind = "filter" /\ r.constrained
    /\ answer' \in (IF UseTrajectoryFilter THEN {"filtered", "empty"} ELSE {"empty"})
    /\ UNCHANGED <<pc, request, full, group, loop, filterMode, history>>

\* filterJointTrajectory, which leaves the filter mode on for every later plan.
Filter(r) ==
    /\ pc = "idle" /\ r.kind = "filter" /\ ~r.constrained
    /\ StartOptimizer(r, FilterStart(r))
    /\ filterMode' = TRUE

-----------------------------------------------------------------------------
(* optimize() *)

\* Keep the trajectory if it is the best so far, and move it.
Evaluate ==
    /\ pc = "evaluate" /\ iteration < MaxIterations
    /\ cCost' = IF IsNaN(group) THEN NaN ELSE getCollisionCost(group)
    /\ costs' = IF AddRandomness THEN Append(costs, cCost') ELSE costs
    /\ best' = IF iteration = 0 \/ Less(CostOf(group), best.cost)
               THEN [traj |-> group, cost |-> CostOf(group)] ELSE best
    /\ free' = StaysClear(group, IF iteration = 0 THEN DOMAIN group ELSE FreeVars(group))
    /\ \E moved \in Moved(group) : group' \in handleJointLimits(moved)
    /\ full' = Updated(full, group')
    /\ least' = IF least = NaN \/ Less(CostOf(group), least) THEN CostOf(group) ELSE least
    /\ pc' = "check"
    /\ UNCHANGED <<request, iteration, soon, freeIterations, shouldBreakOut, filterMode, answer,
                   promised>>

\* checkCurrentIterValidity: the best trajectory, its meshes first.
PointsOf(t) == [i \in 1..LastOf(t) + 1 |-> [distances |-> <<Distance(t[i - 1])>>,
                                            collision |-> Distance(t[i - 1]) = 0]]
MeshValid(t) == \A i \in DOMAIN t : /\ Distance(t[i]) > 0
                                    /\ request.continuous \/ t[i] \in JointMin..JointMax
Verdict(t) == IF IsNaN(t) THEN "EndUnsafe" ELSE isTrajectorySafe(MeshValid(t), PointsOf(t))
VerdictOfCurrent == Verdict(group)
checkCurrentIterValidity == Verdict(best.traj)

\* Every so often, is the best trajectory safe?  A plan also stops at a small
\* collision cost.  Either counts the iteration a second time.
Check ==
    LET due == iteration % CheckInterval = 0
        verdict == checkCurrentIterValidity
        safe == due /\ verdict \in Safe
        cheap == ~filterMode /\ Less(cCost, CollisionThreshold)
        extra == (IF safe THEN 1 ELSE 0) + (IF cheap THEN 1 ELSE 0)
    IN  /\ pc = "check"
        /\ soon' = IF safe THEN (IF verdict = "MeshToMeshSafe" THEN 0
                                 ELSE MaxIterationsAfterCollisionFree)
                   ELSE soon
        /\ free' = (cheap \/ (IF due THEN safe ELSE free))
        /\ iteration' = iteration + extra
        /\ shouldBreakOut' = (shouldBreakOut \/ safe \/ cheap)
        /\ promised' = IF safe THEN verdict ELSE promised
        /\ pc' \in {"minimum"} \cup (IF AnimatePath THEN {} ELSE {"return"})
        /\ UNCHANGED <<request, full, group, best, costs, freeIterations, cCost, filterMode,
                       answer, least>>

\* The window's costs moved by less than minimaThreshold on average: they end where they began.
Trapped == /\ AddRandomness /\ Len(costs) = CostWindow /\ ~free
           /\ costs[1] # NaN /\ costs[CostWindow] = costs[1]

\* Twenty tries at a perturbation that costs less.
Escape ==
    /\ pc = "minimum" /\ Trapped
    /\ \E p \in Perturbed(group) :
         /\ Less(CostOf(p), CostOf(group))
         /\ group' = p
         /\ full' = Updated(full, p)
         /\ free' = StaysClear(p, FreeVars(p))
    /\ costs' = << >>
    /\ pc' = "breakout"
    /\ UNCHANGED <<request, best, iteration, soon, freeIterations, shouldBreakOut, cCost,
                   filterMode, answer, history>>

\* All failed: the backup is put back; what was said of the last try stays.
Remain ==
    /\ pc = "minimum" /\ Trapped
    /\ full' = Updated(full, group)
    /\ \E p \in Perturbed(group) : free' = StaysClear(p, FreeVars(p))
    /\ costs' = << >>
    /\ pc' = "breakout"
    /\ UNCHANGED <<request, group, best, iteration, soon, freeIterations, shouldBreakOut, cCost,
                   filterMode, answer, history>>

NotTrappedKeepsWindow ==
    /\ pc = "minimum" /\ ~Trapped
    /\ pc' = "breakout"
    /\ UNCHANGED <<request, full, group, loop, filterMode, answer, history>>

NotTrapped ==
    /\ pc = "minimum" /\ ~Trapped
    /\ costs' = IF Len(costs) = CostWindow THEN << >> ELSE costs
    /\ pc' = "breakout"
    /\ UNCHANGED <<request, full, group, best, iteration, free, soon, freeIterations,
                   shouldBreakOut, cCost, filterMode, answer, history>>

BreakOutWhenEqual ==
    LET count == freeIterations + 1 IN
    /\ pc = "breakout"
    /\ IF shouldBreakOut /\ (soon = 0 \/ count = soon)
       THEN pc' = "return" /\ UNCHANGED iteration
       ELSE pc' = "evaluate" /\ iteration' = iteration + 1
    /\ freeIterations' = IF shouldBreakOut THEN count ELSE freeIterations
    /\ UNCHANGED <<request, full, group, best, costs, free, soon, shouldBreakOut, cCost,
                   filterMode, answer, history>>

\* The end of an iteration.
BreakOut ==
    LET count == freeIterations + 1 IN
    /\ pc = "breakout"
    /\ IF shouldBreakOut /\ (soon = 0 \/ count > soon)
       THEN pc' = "return" /\ UNCHANGED iteration
       ELSE pc' = "evaluate" /\ iteration' = iteration + 1
    /\ freeIterations' = IF shouldBreakOut THEN count ELSE freeIterations
    /\ UNCHANGED <<request, full, group, best, costs, free, soon, shouldBreakOut, cCost,
                   filterMode, answer, history>>

\* The loop is over: the best trajectory is copied back.
Return ==
    /\ \/ pc = "return"
       \/ pc = "evaluate" /\ iteration >= MaxIterations
    /\ group' = best.traj
    /\ full' = Updated(full, best.traj)
    /\ pc' = "answer"
    /\ UNCHANGED <<request, loop, filterMode, answer, history>>

Forget ==
    /\ request' = NoRequest /\ full' = << >> /\ group' = << >> /\ best' = NoBest
    /\ iteration' = 0 /\ costs' = << >> /\ cCost' = 0 /\ free' = FALSE /\ soon' = 0
    /\ freeIterations' = 0 /\ shouldBreakOut' = FALSE /\ least' = NaN /\ promised' = "none"
    /\ UNCHANGED filterMode

\* A plan succeeds whatever its trajectory runs into.
Answer ==
    /\ pc = "answer"
    /\ answer' = IF request.kind = "plan" THEN "SUCCESS" ELSE "filtered"
    /\ pc' = "idle"
    /\ Forget

\* The next filter failed: the loop over the velocities reads an empty trajectory.
NextFilterFails ==
    /\ pc = "answer" /\ request.kind = "filter" /\ UseTrajectoryFilter
    /\ answer' = "none"
    /\ pc' = "crashed"
    /\ Forget

Next ==
    \/ \E r \in Requests : RefusePlan(r) \/ Plan(r) \/ PassThrough(r) \/ Filter(r)
    \/ Evaluate \/ Check \/ Escape \/ Remain \/ NotTrapped \/ BreakOut \/ Return
    \/ Answer \/ NextFilterFails

Spec == Init /\ [][Next]_vars

-----------------------------------------------------------------------------
(* Properties *)

\* Values have their types; a window of costs that is full is emptied before
\* the next cost is written to it.
TypeOK ==
    /\ pc \in {"idle", "evaluate", "check", "minimum", "breakout", "return", "answer", "crashed"}
    /\ request \in Requests \cup {NoRequest}
    /\ \A t \in {full, group, best.traj} : \A i \in DOMAIN t : t[i] \in Positions \cup {NaN}
    /\ iteration \in 0..MaxIterations + 2
    /\ Len(costs) <= CostWindow /\ (pc = "evaluate" => Len(costs) < CostWindow)
    /\ {free, shouldBreakOut, filterMode} \subseteq BOOLEAN
    /\ soon \in {0, 1, MaxIterations, MaxIterationsAfterCollisionFree}
    /\ freeIterations \in 0..MaxIterations
    /\ answer \in {"none", "empty", "filtered", "SUCCESS", "INVALID_GOAL_POSITION_CONSTRAINTS"}
    /\ promised \in Safe \cup {"none"}

\* While a request is served, its trajectory starts and ends where the request
\* says, and the group trajectory is the full one with its ends repeated,
\* through updateFromGroupTrajectory's two ways of counting points.
EndsStay ==
    pc \notin {"idle", "crashed"} =>
        /\ full[0] = request.points[1] /\ full[LastOf(full)] = GoalOf(request)
        /\ group = GroupOf(full)

\* What is returned is the cheapest trajectory that was evaluated, whatever
\* perturbations were tried and however the loop ended; a trajectory that a
\* division by zero has spoilt is never it.
BestIsReturned == pc = "answer" => ~IsNaN(full) /\ CostOf(GroupOf(full)) = least

\* When the optimizer stops because the meshes are clear of each other, what it
\* returns is the trajectory that this was said of.
PromiseIsKept == pc = "answer" /\ promised = "MeshToMeshSafe" => MeshValid(full)

\* The answer is the best there was, and what was said of it is true of it.
AnswerIsBest == BestIsReturned /\ PromiseIsKept

\* Once a check has found a trajectory that is safe enough to break out soon,
\* no more than the iterations it allows are started, though they may have been
\* counted from a number nobody set.
BreaksOutSoon ==
    pc = "evaluate" /\ promised # "none" => freeIterations <= MaxIterationsAfterCollisionFree

=============================================================================
