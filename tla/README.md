# A TLA+ model of arm_navigation_experimental

The repository is a collection of ROS packages that plan, execute and monitor
the motions of a robot arm.  This directory models the packages whose difficulty
is control: who owns a goal, which callback may run between which two others,
what is still true when a late answer arrives, and what a sequence of legal
calls leaves behind.

Run everything inside this directory: `tlc -config X.cfg MCX` for the
configurations below, `tlapm XProofs.tla` for the proofs.

## 1. The system

### Components

| Component | State it keeps | Operations | Modelled by |
|---|---|---|---|
| `trajectory_execution_monitor` | the batch under way, its index and results; per controller handler its state, timer and recordings; per recorder its map of callbacks and the list of those to drop | `executeTrajectories`, `sendTrajectory`, `trajectoryFinishedCallbackFunction`; the handlers' `executeTrajectory`, `controllerDoneCallback`, `timeout`, `done`, `doneDelayed`, `addNewStateToRecordedTrajectory`; the recorders' `callCallbacks` | `TrajectoryExecution`, `BatchPromise` |
| `move_arm_simple_action` (class `MoveArm`) | state machine, attempts, current trajectory, planning scene, request, `head_monitor_done_` | `execute`, `executeCycle`, `sendTrajectory`, `monitorDoneCallback` | `MoveArm`, `ActionServer` |
| `move_arm_head_monitor` | one status without a lock, two one-shot timers, the arms' action clients, the monitored trajectory | goal and preempt callbacks, start and pause timers, point clouds, done callbacks, preplan scan | `HeadMonitor`, `ActionServer` |
| `collision_free_arm_trajectory_controller` | state, what remains of the trajectory, the planning scene | `executeTrajectory`, `jointStateCallback`, `controllerDoneCallback`, scene callbacks | `CollisionFreeController`, `ActionServer` |
| `move_arm_utils` (`PlanningSceneEditor`) | maps of scenes, requests and trajectories, the current scene, the recording under way; collision objects, markers, kinematic states | load, save, create, copy, delete; plan, filter, execute, record; `controllerDoneCallback`, `armHasStoppedMoving`; objects, attached bodies, allowed collisions, `sendPlanningScene`; inverse kinematics, playback | `PlanningSceneEditor` (scenes, requests, trajectories), `EditorScene` (what is shown and edited of one scene) |
| `planning_scene_warehouse_viewer` | the load dialog and its table, what is selected | the window's buttons, each a sequence of the editor's operations | the guards of `PlanningSceneEditor` and `EditorScene` |
| `move_arm_warehouse_logger_reader` | a database of scenes, requests, trajectories, outcomes | push, find, remove | the `warehouse` of `PlanningSceneEditor` |
| `distance_field` | a grid of voxels with their distance and closest obstacle, the obstacle list, a queue of buckets | add, update, remove, reset, propagate; a signed field; a field by Felzenszwalb's transform | `DistanceField` (the propagation field) |
| `collision_proximity` | decompositions of links and objects, two distance fields, the current group | set a planning scene, set up for a group, pose it, collisions, distances, `isTrajectorySafe` | `CollisionProximity`, `TrajectorySafety` |
| `collision_proximity_planner` | a group state, a path | `getFreePath`, `findPathToFreeState` | `CollisionProximityPlanner` |
| `chomp_motion_planner` | a trajectory with padding, the best one so far, costs, counters | plan and filter services, `optimize` | `ChompOptimizer`, `TrajectorySafety` |
| `interpolated_ik_motion_planner` | parameters of the node | interpolation, inverse kinematics per step, consistency and collision checks, trimming, times | `InterpolatedIK`, `TrajectoryTimes` |
| `collider` | an octree of occupancy, its sources, which map is published | cloud callbacks, degradation, reset, static maps, queries | `Collider` |
| `warehouse_components_visualizer` | interactive markers over the editor | menus, marker callbacks | not modelled: not built |
| `current_state_validator` | a lock on the shared collision models | a service, a joint state callback | not modelled |
| `trajectory_stats` (two of them) | sums over a trajectory | | not modelled: arithmetic |

### How they interact

A client sends a goal to `move_arm`.  Its action server's execute thread asks
`move_arm_head_monitor` for a scan (one action), obtains a planning scene, plans,
filters, and passes the trajectory to the head monitor's second action.  The
head monitor waits for the head to look ahead, passes the trajectory to the arm's
controller, pauses it when a point cloud is in its way and resumes it when it is
not.  `collision_free_arm_trajectory_controller` is another way to a controller:
it checks what remains of a trajectory on every joint state.
`trajectory_execution_monitor` is a third: it runs several trajectories one after
the other and records what the joints do.  The warehouse viewer drives the
editor, which calls planner and filter services, sends trajectories to
controllers and stores scenes, and every change of what it shows goes to the
environment server and comes back as a scene.  `collision_proximity` fills the
distance fields for every planning scene and every group; CHOMP and the
proximity planner read them and ask it whether a trajectory is safe.  `collider`
makes the collision map of such scenes from point clouds.

### What is hard, and what makes each part correct

* *Callbacks on several threads.*  ROS timers and subscriptions run on spinner
  threads, an action client's answers on a thread of its own, a
  `SimpleActionServer`'s execute on a third.  The head monitor's status and the
  handlers' `controller_state_` are read and written without a lock.  Correct: a
  trajectory is finished once, for the goal it was sent for; a paused arm is still.
* *Late answers.*  `monitorDoneCallback` and both `controllerDoneCallback`s act on
  whatever goal is current.  Correct: an answer settles its own goal only.
* *Reentrance.*  A handler may finish, and the next request may start another one,
  inside a recorder's iteration over its map of callbacks.  Correct: nothing is
  erased from the map meanwhile, and who runs is recorded.
* *Waiting.*  A batch, a goal or a recording ends only if a callback comes.
  Correct: whenever something is under way, something that will end it is armed.
* *What is left behind.*  Members survive from one goal, one batch, one scene to
  the next, and one map of the editor repeats what another says.  Correct: the
  next one starts afresh; the maps agree, and what is saved is what was worked on.
* *One result, many rounds.*  CHOMP's loop has five ways out and copies trajectories
  back and forth between them; the searches of the kinematics run from either end.
  Correct: what is returned is what was judged, point by point.
* *Algorithms whose order matters.*  The distance field offers a voxel's obstacle
  to few neighbours, trusting the order of the buckets.  Correct: distances are exact,
  and none outlives its obstacle.

`PROJECT.json` lists every hazard at its line with the properties that cover it.

## 2. The modules

**`TrajectoryExecution`.**  `batch`, `idx`, `results`, `reports` and `last` are
`execution_data_`, `current_trajectory_index_` (plus 1), `execution_result_vector_`,
the calls of `result_callback_` and `last_requested_handler_`; `handlers[h]` holds a
handler's members, `recorders[r]` a recorder's map, its deregister list and how far
`callCallbacks` is.  `ExecuteTrajectories` is the whole client call; `Send` is
`sendTrajectory`, `Finish` is `trajectoryFinishedCallbackFunction` with the next
request it starts.  A timer (`TimerFires`, `TimerActs`) and an answer
(`ControllerAnswers`, then `OvershootBegins` or `AnswerActs`) are two steps: the test
of `controller_state_`, and the action.  A pass over the map is `PassBegins`, one
`Settles` or `Records` per callback, `PassEnds`.  With `Concurrent = FALSE` a callback
ends before another begins; with `TRUE` they overlap.  Joint values are abstracted to
whether a recording has points, and an execution is named by a number, so that a
recording knows whose it is.

**`BatchPromise`.**  What the client of a batch is promised, without handlers, timers or
recorders; `TrajectoryExecution` implements it with `codes` read off the results.

**`ActionServer`.**  `actionlib::SimpleActionServer` as the repository uses it: current
and next goal, preemption, settling.  It is external.  Two facts of the libraries are
assumed: the server holds its lock while it runs a goal or preempt callback, and
roscpp's `Timer::stop` waits for the timer's running callback.

**`MoveArm`.**  `pc` is where the execute thread is: waiting for a goal, scanning,
setting the first scene, at the loop's preemption tests, in `executeCycle`, sending.
One action per branch of `executeCycle`; planner, kinematics, filter, controller and
scene are outcomes left open.  `checked` remembers that `doPrePlanningChecks` passed, as it
is a function of request and scene.  `createPlan`'s wait for the planner's service is a place of its own (`plan`),
left by `Planned` only.  Clients send and cancel goals, and
`MonitorDone` may come, between any two steps; `handover` remembers what a goal that preempted another one has left
in the machine.

**`HeadMonitor`.**  One action per stretch of a callback between two accesses of
`current_execution_status_`, or between two calls that may block.  `serving`, `cloud`,
`done`, `startTimer`, `pauseTimer` and `scan` say where each callback is.  A mode
fixes the node's parameters (which arms are used, whether it scans and monitors) and
whether callbacks overlap or another node's scan comes in the middle of a goal.

**`CollisionFreeController`.**  Main thread (goals, joint states, scenes) and the
action client's thread, which stops where it takes the server's lock.  Clients send goals at any
moment; `late` remembers the goals that were moving when the answer for another goal was taken for theirs.

**`PlanningSceneEditor`.**  `editor` holds the maps by name, `warehouse` the stored
documents in order, each with its host.  Window operations are the actions `LoadScene`,
`SaveScene`, `NewScene`, `CopyScene`, `RemoveScene`, `CreateRequest`, `Produce`,
`Execute` and so on, each with all calls its button makes; the load dialog's table is
filled by a thread of its own (`TableLoads`).  `ControllerDone` and
`ArmHasStoppedMoving` come from other threads.  A `std::map`'s `operator[]` inserts: `Found`
and the blank entries follow it, as do identifiers that a failed service leaves unset.
A mode is a session: one user's kind of work and its bounds.

**`DistanceField`.**  `voxels`, `object_voxel_locations` and `bucket_queue` are `data_`,
`object_voxel_locations_` and `bucket_queue_`.  A call is one step; then one entry of the
removal stack (`RemoveObstacleVoxels`) or of a bucket (`Propogate`) is a step.  The order of entries is
the code's (`compareInt3`, the loops over dx, dy, dz).  What removal reads before
the grid for a voxel that no obstacle has reached is 0 or not (`Before`); its unset
update direction is taken to be one that `propogate` skips.  `given` is what the
client has passed and not taken away, `gone` what was taken away since the field was last made from scratch: what is in both has
returned and is missing, `Kept` is the rest.

**`EditorScene`.**  `ed` holds what the window shows of one scene: the selectable objects with
their pending operations, their markers, the scene last answered, the requests' ends and the
trajectories with their kinematic states.  `live` holds the addresses not deleted; `FreshState`, which is `new KinematicState`, gives
one above them all.
A call that sends a scene takes `lock_scene_` as `call`, which `awaits` an answer or not and whose
`todo` is what it still does after it; such an operation begins only when the lock is free, except in a session with
`crosses`, where other threads go on in between.  To follow a pointer that is NULL sets `crashed`, after
which nothing happens.  Objects that the server knows by itself are collision objects; there is one request.

**`Collider`.**  `octree` gives each known cell its log-odds and age, on a grid of which the camera sees one
axis and a laser the other.  The constructor's parsing (`parsed`, `listening`, `sources`) goes on while clouds
arrive; a cloud callback is `Cloud`, which copies the source's settings, and `CloudDone`; the goal
for a static map runs beside it in steps (`making`).

**`CollisionProximity`, `CollisionProximityPlanner`.**  The space: bodies of one sphere and one point on a line, the
scene, the decompositions, the group that is set up with its links, objects and
pairs, and both distance fields as the points they hold, those they have ever known, and those that are `missing`: each scene and each
set-up resets a field and adds to it, and what it knew before is not taken in again (`Refilled`), which is what `DistanceField` does of two calls.  The planner's loop is one action per iteration, and scenes come and go between any two.
`steady` remembers that the scene is the one of the last setup: `Understood` adds that no object of an earlier scene left its
name among those that may be touched (`attached_object_collision_links_` is never cleared), and that no link
holds two objects (`updateSphereLocations` puts both in one place).  What is called free is checked under it.

**`TrajectorySafety`.**  `isTrajectorySafe` as a fold over the points: a phase, the last distances, a verdict.

**`ChompOptimizer`.**  One joint; trajectories are functions from 0, the group's with the padding of the differentiation
rule.  `pc` walks through an iteration of `optimize`: `evaluate` (costs, best), `check` (every `CheckInterval` iterations),
`minimum` (the test for a local minimum and a perturbation), `breakout`, `return`, `answer`.  What the gradient does is any
step within the joint's limit, and NaN where the code divides by a velocity of zero.  Potentials, costs
and the meshes' distances are computed, doubled so as to be integers.  `soon` starts with any value: nothing initializes it.

**`InterpolatedIK`, `TrajectoryTimes`.**  `Call`, one `Solution` or `NoSolution` per step, `Answer`;
`set_params_callback` at any time.  A world gives for each pose the joint angles that reach it and those that do so
without a collision.  `TrajectoryTimes` is the arithmetic of times and speeds, in units in which it is exact.

## 3. What is checked

| Run | States | Question |
|---|---|---|
| `TrajectoryExecution` | 80,960 | one trajectory at a time, watched (`BatchIsWatched`) and reported once; results and recordings its own, an overshoot of its own or named as an earlier one's (`ResultsAreOwn`); maps and filed slots are left alone (`CallbacksUndoNothing`); promise kept, progress included |
| `MoveArm` | 21,263 | `execute` owns the active goal, which can end (`GoalIsServed`); scene and request are that goal's, machine and trajectory too unless a preempting goal left them (`MachineIsOwn`); goals end unless `createPlan` waits for ever |
| `HeadMonitor` | 16,394 | the status says what will answer, paused means still, an arm moves for the active goal (`ArmObeysStatus`); goals end |
| `CollisionFreeController` | 4,524 | a moving arm is watched and moves for the active goal, until another goal's answer is taken for it (`MovesWatched`); goals end |
| `PlanningSceneEditor` | 532,139 | lists name nothing that the maps lack (`EditorAgrees`); a save leaves exactly the work in the scene's one document (`SaveKeepsWork`); recordings end |
| `EditorScene` | 222,944 | after an answer the scene is what is shown (`SceneIsListed`); kinematic states are owned once, no pointer is NULL, ends shown as good are planned (`StatesAreSound`); playback ends |
| `DistanceField` | 165,486 | distances are those to the obstacles named and no obstacle is lost but one that returns, for any number; exact but for such ones, and of real obstacles, for two (`FieldIsSound`); for two, buckets only grow ahead (`NeverJoinsDrained`) |
| `Collider` | 346,788 | a static map stays (`StaticMapStays`); clouds lower what is seen to be empty and nothing hidden (`SeenIsLowered`) |
| `CollisionProximityPlanner` | 416,951 | what is called free or safe is, as far as the fields know (`CalledFreeIsFree`); a path starts at the start, in small steps, and only its end is free (`PathLeadsOut`) |
| `ChompOptimizer` | 450,893 | ends stay; the best trajectory is returned and what was promised of it is true (`AnswerIsBest`); it breaks out in time (`BreaksOutSoon`) |
| `InterpolatedIK` | 20,195 | codes and times are true of the points, from either end, but for one first point (`CodesAreTrue`); the timed part respects speeds and accelerations (`MovesWithinLimits`) |
| `PlanningSceneSaveLost` | | shows a statement of the repository that the code does not keep (section 6) |

Properties about one thing are conjoined under one name; the parts keep names and comments of their own.

### Bounds, and why they are enough

* `TrajectoryExecution`: two handlers, one of them a gripper that sorts before the arm in
  `std::map` as in the package's test; two recorders; eight request vectors of up to
  three requests (arm, gripper, arm; one handler twice; unknown handlers and recorders in
  every position); five executions, so that a batch of three is followed by another.
* `MoveArm`: three goals, so that a bumped goal may leave something to the one after its
  successor; one attempt (zero and one left are the cases told apart); clients do not
  wait for a goal to end.
* `HeadMonitor`: three goals alternating between two arms; one arm, two arms, without
  monitoring and without scans; callbacks that take turns, and ones that overlap without monitoring.
* `CollisionFreeController`: three goals, so that an answer can be late for two.
* `PlanningSceneEditor`: two scenes, two requests, four trajectories, two arms.  A session
  `Filed` starts with two stored scenes; `Executed` executes and has services fail; `Busy`
  goes on while the arm moves; `Careless` works on another host's scene and saves at will.  Sessions
  keep the product of all this small; each names the hazards it is for.
* `DistanceField`: 4 x 4 x 3 cells and a largest distance of 4 cells (16 squared), at which a distance reaches
  beyond direct neighbours and, with the third layer, round another obstacle's region; clouds of up to three points that
  were chosen so that the third cuts off the front of another, and one with a point outside; three calls, enough for add,
  add, remove and for add, reset, add.  Exactness for two was wrong in no pair of a flat 7 x 6 grid either.

* `EditorScene`: two objects, two links and the group of both, two poses, two trajectories; five or six
  operations per session, enough for attach, detach, delete and make again with a failed send between.
* `Collider`: two rays by two cells, one ray slanted; a cell before another, a lone cell, an arm with an object;
  log-odds from -1 to 1, which is unknown, free, just occupied, and certain; a source listed twice.
* `CollisionProximityPlanner`: two links of a group and a base, positions 0 to 5, three scenes with up to two held
  objects, which return in any order, three iterations; seven trajectories in, out of, through and along a collision.
* `ChompOptimizer`: two free points, six positions with two obstacles, four iterations with a check every third (so
  that one check passes, one fails and iterations remain), a cost window of two so that it wraps.
* `InterpolatedIK`: two joints, lines of two to four poses, three worlds: a colliding goal, two branches of
  the kinematics, a pose out of reach.

`CHECK_DEADLOCK FALSE` stands where a client may simply stop: all goals sent, all calls
made.  `TrajectoryExecution` is checked for deadlock; there clients never run out.

### Fairness

* `TrajectoryExecution`: a callback that has begun goes on (weak fairness).  Strong fairness
  for a timer that has expired: it waits in a FIFO callback queue and may be disabled for a while by
  other callbacks.  Nothing is assumed of the controller: the timer alone must end a batch.
* `MoveArm`: the execute thread goes on and services return, but for the planner's in `createPlan`, which the code waits for
  in a loop of its own (`move_arm_simple_action.cpp:689`) that no cancel interrupts: `CreatePlan` and `Planned` are not fair, and `EveryGoalEnds` excepts
  exactly the behaviours that stay there.  That the head monitor answers
  is a premise inside `EveryGoalEnds`, and is not needed for a cancelled goal.
* `HeadMonitor`: callbacks that have begun go on; timers and answers that wait get their
  turn (strong, as above).  `EndsUnlessPaused` excepts a goal paused and resumed for ever.
* `CollisionFreeController`: main thread, controller and its callback go on.
* `PlanningSceneEditor`: a controller answers, and joint states keep coming so that an arm
  that has stopped is noticed.
* `EditorScene`: the spin thread draws markers and calls that have begun go on; that the server answers
  is not assumed.
* `Collider`, `CollisionProximityPlanner`, `ChompOptimizer` and `InterpolatedIK` have no liveness property: their loops are
  bounded by counters that the type invariants bound.
* `DistanceField` has no liveness property.  Calls end because every step takes from a stack
  or a bucket and puts back only voxels whose distance changed; propagation never returns to a bucket
  in the same call.

Every property of a passing run has a mutant in `PROJECT.json`: a definition with a
plausible bug (a dropped reset, a missing guard, a swapped order) that TLC finds by
that very property.

## 4. What is proved

| Module | Theorem | Statement |
|---|---|---|
| `TrajectoryExecutionProofs` | `TypeCorrect` | `[]TypeOK` |
| | `WatchedUntilReported` | `[]BatchIsWatched`: only the handler asked last runs; while a batch is under way it runs and its timer is armed or a callback of it is about to act; what has its code is over for its handler, and for its controller if the code is SUCCEEDED |
| | `SlotsAreOwn` | `[]ResultsAreOwn`: one slot per request reached, one report, and a slot holds what was recorded in its own execution and what its handler overshot last |
| | `NothingLeftRegistered` | `done` and `doneDelayed` leave no registration behind |
| | `NothingUndone` | `CallbacksUndoNothing`: nothing is erased from a map in a pass over it, a slot that has its code is final while its batch lasts |
| | `Implementation` | `Spec => PromisedSteps`: every step is one of `BatchPromise` or a stutter |
| `MoveArmWarehouseProofs` | `TypeCorrect` | `[]TypeOK` |
| | `ServesItsGoal` | `[]GoalIsServed`: `execute` runs exactly while the goal is active, and MONITOR waits for an answer only as long as one is owed |
| | `KeepsItsMachine` | `[]MachineIsOwn`: scene and request are the active goal's; state, attempts and trajectory are too, except after a goal that preempted another one, of which it says what it can leave |
| | `SceneTypeCorrect` | `[]SceneTypeOK` of `EditorScene`: among others, the point of a trajectory that is read is one of its own |
| | `ListedIsInScene` | `[]SceneIsListed`: after an answer the scene is what is listed, and in a `Regular` session the links that may touch an object are those it is attached with |
| | `SoundStates` | `[]StatesAreSound`: a kinematic state is owned once and not deleted twice, a `NULL` pointer is followed only where section 6 says, what is shown as good is planned |
| `HeadMonitorProofs` | `TypeCorrect` | `[]TypeOK`, also when callbacks overlap |
| | `StatusIsObeyed` | `[]ArmObeysStatus` |
| `CollisionFreeControllerProofs` | `TypeCorrect` | `[]TypeOK` |
| | `MovesOnlyWatched` | `[]MovesWatched`, for all clients: only an answer that is taken for another goal's takes the watch from a moving arm |
| `ColliderProofs` | `TypeCorrect` | `[]TypeOK`: the log-odds stay clamped |
| | `StaticMapIsKept` | `StaticMapStays` |
| | `SeenIsLoweredOnly` | `SeenIsLowered`: what is hidden from the camera is left, what it looks through is lowered |
| `ProximityProofs` | `EndsAreKept` | `[]EndsStay` of `ChompOptimizer` |
| | `BreakOutIsSoon` | `[]BreaksOutSoon` |
| | `TypeCorrect` | `[]TypeOK`: every trajectory is one of points within the joint's limits, the window of costs is bounded |
| | `AnswerIsTheBest` | `[]AnswerIsBest`: the answer is the cheapest trajectory evaluated, and what was promised of it is true of it |
| | `PlannerTypeCorrect` | `[]PlannerTypeOK` of `CollisionProximityPlanner`: among others, there is a gradient for every link and object of the group |
| | `FreeAndSafe` | `[]CalledFreeIsFree`: while the scene of the setup stays, a path called free ends off every obstacle by its meshes, and clear of those the fields have; what `isTrajectorySafe` accepts does not go through the world or the robot as the fields have them |
| | `PathsLeadOut` | `PathLeadsOut`: a path starts at the start, in small steps, and is clear at its end only |
| | `FieldTypeCorrect` | `[]FieldTypeOK` of `DistanceField`: among others, every distance offered has a bucket |
| | `DistancesAreMeasured` | `[]DistanceIsMeasured`, a part of `FieldIsSound`: a distance is the one to the point the voxel names |
| | `NoObstacleIsLost` | `[]ObstaclesAreThere`, a part of `FieldIsSound`: what was added and never taken away since is at distance 0, whatever the client does |
| `InterpolatedIKProofs` | `TypeCorrect` | `[]TypeOK` |
| | `TimesSuffice` | `[]MovesWithinLimits`: the timed part of every answer starts and ends at rest and keeps to the joints' speeds and accelerations |
| | `AnswersAreTrue` | `CodesAreTrue`: every code of every answer says what is the case of its point and its successor, and the times are those of the valid part from the end set last, the first point of a path kept from its end excepted |
| `PlanningSceneEditorProofs` | `ListsAreHeld` | `[]EditorAgrees` |
| | `TypeCorrect` | `[]TypeOK` |
| | `SavesKeepTheWork` | `SaveKeepsWork`: a save leaves exactly the user's work, in the one document of the scene saved, and every step leaves the maps such that it can |

`MoveArmWarehouseProofs` joins two programs of its package, `MoveArm` and `EditorScene`, whose invariants have nothing to do with one another;
`ProximityProofs` the two planners that ask `isTrajectorySafe`, `ChompOptimizer` and `CollisionProximityPlanner`, and `DistanceField`.  `MoveArmWarehouseProofs`, `HeadMonitorProofs` and `CollisionFreeControllerProofs` begin with the same lemmas about the action server:
what each call does to types, to the active goal and to the one that waits (`ActiveAndPending`).
All safety properties that the runs check are theorems, but for two parts of `DistanceField`'s `FieldIsSound` and its `NeverJoinsDrained`.

*Assumptions.*  Those of the constants, which the runs evaluate: handlers and goals are positive
numbers, grippers are handlers, recorders are strings and there is one, requests are records of their type and no vector is empty
(`sendTrajectory` reads `to_execute[0]` without a test), there are finitely many arms, a ray's slant is a number
of cells, scenes lie in the grid, the differentiation rule is odd and longer than two, trajectories have three points or more, there is an obstacle,
a request has at least one point and its goal lies within the limits, NaN is no number, every pose of the line has its solutions and none of them is the zero
that pads an answer, identifiers are natural numbers, 0 is one of scenes and of requests, and there are finitely many of requests, as a new one is the largest
plus one, a link is a group of itself, `NoRobot` is no pose, a group has a name and its links are distinct, positions are integers, both distance fields see farther than a
sphere's radius and the tolerance (defaults 0.1, 0.25 and 0) and the tolerance is no more than the undefined distance (1), and what was stored of a scene is such as a session that left the allowed collisions alone saves.  The theorems hold for any numbers of
goals, handlers, recorders, arms and attempts, of executions, of rays, cells, sources and log-odds, and of trajectory points, rules and iterations, of objects, links, poses and kinematic states,
of spheres on the line, default collision operations and scenes, and for any size of the grid, largest distance and point clouds.  `Concurrent = FALSE` is an assumption of
the invariants in `TrajectoryExecutionProofs`; in `HeadMonitorProofs` and `CollisionFreeControllerProofs` the
properties themselves say for which configurations or goals they speak (`InTurn`, `late`).  All are necessary: section 6.

*The argument for `TrajectoryExecution`.*  None of the properties is inductive.  Which slots there are depends on who
may call `Finish`: only the running handler, once.  `IInv` therefore adds

* `OneCallback`: at most one callback is between its test and its action, and none of them while
  a pass over a map is under way other than the pass that called it;
* `RunningIsReady`: timers are armed for, and callbacks act on, running handlers only, and those
  have a recorder;
* `NewestSlotRuns`: the newest slot belongs to the execution that is running, and older ones to
  earlier executions, which is what keeps recordings apart;
* `RegistrationsAccounted`: a registration is in use, or waits on the deregister list for the end of a
  pass that has already gone past it, which is what makes the erasure safe.

`done()` and `doneDelayed()` bring all handlers to rest (`AllIdle`, `AllDropped`); from there
`SendKeeps` and `FinishKeeps` show once what starting a request and reporting a result
preserve, and there is one lemma per action.  What a handler overshot needs a second invariant over the first (`OwnershipInvariance`):
`OvershootOwned` says that a handler that does not overshoot now holds what it overshot when it last was watched to its end, in a slot of this
batch or before the batch (`LastWatched`), which is what the monitor copies whether the slot asked for it or not; and that a controller whose handler reported
SUCCEEDED owes no answer.  It is preserved because a handler that is
sent to starts an execution that no slot has.  For `Implementation`, `ExecuteTrajectories` maps to
`HandIn`, `Finish` to `EndsWell` or `EndsBatch` according to the code it files, and
all other steps leave `CodesOf(results)` and `reports` alone.

*For `MoveArm`.*  `GoalIsServed` is inductive with `Pending`: a goal that waits is pending, so that one which arrives, or bumps
another, never takes the active one's status.  `MachineIsOwn` needs `Owned`, which tells three cases apart by `handover`.  If no goal has preempted another one since the last reset,
what is not `checked` is fresh, which is why the returns that do not reset the machine
(`PrePlanningFails`, `SceneFails`) leave nothing behind.  A goal that preempted another one and set its scene is `bumped`: it plans for itself, with the other's attempts
spent.  One that could not set its scene was `dropped`, and the machine stays in whatever state it was in until the next reset: of the goals until then
the property only promises scene, request and that a trajectory is there.

*For `HeadMonitor`.*  `Staged` lists where the one callback under way may be and what status and timers are there
(`InService`, `InCloud`, `InTimer`, `InDone`), or `Tells`, what will answer between callbacks; without an active goal everything
is at rest.  `MovesInTurn` is what one arm adds: it moves only while the status is EXECUTING and no callback is past the
point where it stopped it.  With two arms the last part is false: an answer of the other arm's controller is taken for
the current one's.

*For `CollisionFreeController`.*  `HandlesAreSent` says which goals the arm and the answer under way can be of; `ArmIsOwned` ties the goal
of a moving arm that is not `late` to the server's current one and to what the main thread has left to do.  An answer either is the current goal's, and then
the arm does not move for it, or makes the current goal `late`; both need that two handles never name one goal.

*For `Collider`.*  The property of the static map needs `Silenced`: goals are served only when the constructor is through
with every entry, by then whatever is subscribed to has its settings, so that no callback inserts the default `true` after
`MakeDone` has cleared them, and `late` callbacks copied cleared ones.  `HiddenIsLeft` and `GhostIsLowered` follow a cell through
`InsertScanFacts` (hit, missed or left alone) and `IntegrateMissFacts`, with `Clamped` for the arithmetic; the first holds
since nothing the camera sees has anything before it, the second since nothing hides a cell of a ray that is not slanted.

*For `ChompOptimizer`.*  `Framed` holds from `StartOptimizer` on: the full trajectory is a function from 0 with a free point, its ends are the
request's, `group` is its padded copy, and the best trajectory has the same ends outside its free points.  `UpdatedHasGroup` is the
lemma behind it: the two ways in which points are counted, from `full_trajectory_index_` and from the size, agree, so that
copying free points back and padding again gives the group.  `Counted` adds to `BreaksOutSoon` that after a promise `shouldBreakOut` holds and what
is compared with is 0 or the maximum.  `Typed` adds to `TypeOK` that the window holds the last costs (`IsWindow`); the minimum-jerk line stays between
its ends (`MinJerkIsBetween`), which is what keeps a sampled request within the limits.  `BestIsLeast` is the invariant behind `AnswerIsTheBest`: before the first
evaluation `least` is NaN, afterwards the best trajectory has its own cost, that is the least, and none of its points is NaN; from `answer` on the group is that
trajectory.  `PromiseHolds` keeps beside it that a promise was made of the best trajectory's verdict, and `VerdictIsTrue` that the verdict is that of its meshes.
A cost is a fold over the points, and that it is a number for any number of points
(`SumIsInt`) is an induction: the library's induction theorems cannot be instantiated here, but for a *set* of numbers the least element of a complement does
(`InductionOverNat`, from `WFMin`), and the folds and recursive functions are reasoned about through it.

*For `CollisionProximityPlanner`.*  `PlannerInv` has three parts.  `SpaceSound` is about the space: its types, with a gradient for each link and object of
the group; `SetUp`, that while `steady` the links, objects, pairs and the robot's own field are those of the scene; and
`SceneKnown`, that the field of the world is the scene's and what a held object may touch is in the list; either field but for what it misses.  With `Understood` it is `Ready`, from which
everything about one pose follows without a step: `SphereIsThere` (a posed sphere is where its body is, since what hangs on a link that holds
one object is that object, `HeldIsAlone`), `CheckedMayNotMeet` (the pairs left out are those that may meet), `CollidesWhatIsNear` (the gradients collide exactly when
the pose is not clear) and `ReportedIsTrue` (what `getStateGradients` reports is below the tolerance near the world or the robot, and nowhere below it when the pose is free).  `SafeStaysIn` is about
the algorithm alone, for any distances: by induction over the fold, its phase tells where the points so far have been.  `WalkedOut` follows the loop: all points but the last
are not clear, or their meshes meet, and the step to the next is small.  That a scene may go between two steps costs one lemma for each operation of the space,
which says what of `SpaceSound` it brings about anew (`SetupStep`, `SceneArrivesStep`) and what it leaves.  Proving changed the model in
two places: a group's links are selected by a recursive function, and what the fields must see is an assumption.

*For `DistanceField`.*  `FieldInv` says of every voxel, at every step, that it names nothing or a cell of the grid, that below the largest distance it has the
squared distance to that cell (`VoxelIsSound`), and that what is kept and is not still to be added is at distance 0 (`GivenIsThere`).  Two facts about squares carry it: a
squared distance is never below 0, and it is 0 only of a cell to itself (`DistancesAre`).  So a voxel at distance 0 names itself, no offer is less, and a
removal finds it alive; that is why an obstacle is not lost whatever happens to the distances around it.  The constructor's bucket count is what an offer
within the largest distance needs (`PropogateStep`).  `AddNewStep` shows once what adding does, for the three calls that add.

*For `InterpolatedIK`.*  `Searching` ties solutions, codes and steps to one another while the search goes on, and `Answered` says what an answer is of:
`IsTimed(answer, first, last)`.  `TimesAddUp` is the lemma of `TrajectoryTimes`: a time is the one before plus a slowed segment, by induction; `SlowedSegmentFacts` that
a segment slowed down respects speeds and accelerations, and `TimedIsWithinLimits` joins them.  For the codes, `EndsLooked` and `Follows` are true of
the solutions in the order of the search, and `AnswerIsConsistent` carries them to the order of the answer: reversed, the successor's test is the
predecessor's.  `AnswerTimesItsValidPart` speaks of the parameters as they are at the answer, whatever they were at the search, and needs that the two searches for the ends of the valid part stop where they say (`StartIndFacts`, `StopIndFacts`).  The
proofs corrected the model twice: `SlowerFor` has to round up for arms whose speeds do not divide evenly, and `ValidPartIsTimed`, in an earlier form, was not true of an
answer with no points.

*For `PlanningSceneEditor`.*  `Agreed` adds to `EditorAgrees` what the maps' entries look like (`Shaped`) and is kept in every session, for there is one lemma per
operation on the editor, `RequestsDeletedAgrees`, `CurrentSetAgrees`, `AddedAgrees` and so on, which the actions share.  `CurrentSetAgrees` also covers
copies, where two scenes list the same requests for a moment: what the second lists has just been stored.  `IInv` adds that
while the user waits, one arm runs at most and the logged request exists until the recording is over.

`TypeOK` and `SaveKeepsWork` need each other and `IInv`, in `AInv == IInv /\ TInv /\ KInv`.  `TInv` types the maps and the warehouse, a sequence of
documents.  `KInv` is what a session lives on: while `whole`, the work is what the scenes name (`Named`); an open dialog has had its
table filled; without foreign scenes every stored document is this host's; in careful sessions the editor's requests are
in the list of the current scene (`Complete`) where they belong (`Placed`), and no two documents are of one scene (`Differ`).  `RemovedFacts` says what is left of a warehouse when documents are
removed, and in which order (`Removed` is a recursive function over its length); `SavedToFacts` follows a save through remove and push; `NextIdIsNew` is where
finitely many identifiers are needed.  One lemma per action gives what it keeps, and what it does if it saves.
Proving corrected the model: the second half of `MapsMatchLists` does not hold of a careless session, which may remove the current scene; trajectory
identifiers are not bounded by the constant that TLC's runs use; and `SaveKeepsWork` now names the scene whose document was pushed.

*For `EditorScene`.*  `IInv` has four parts.  `TInv` types the editor and says which lists of things to do there are (`Todos`), and that who is
to attach or to forget an object remembers its name.  `RInv` is about what is allocated: `StatesOwned` (every state that is held or registered lives,
ends and trajectories hold different ones, and an end with a state has a pose), `Shown`, and `NInv`: who awaits an answer has no robot and no states,
who does not has both unless an answer was lost.  `NInv` is why no `NULL` is followed, and why an operation that crosses a send finds
nothing to follow (`ReachesFacts`).  `OInv` is about objects: a marker that is seen is of an object that has a name (`Marked`), nothing is left to attach or detach between
sends (`Calm`), and `AInv` follows the allowed collisions through a send: `Acm` is those of the request while it is under way and those of the scene
otherwise, and in a `Regular` session an attached object may touch what its entry says, any other nothing.  `TakenAreFree` is what makes that
inductive: an attached object has no marker by which it can be dragged, so that nobody makes it anew as a free one (`Drop`)
without taking its allowed collisions away, except between the answer and the step that changes its marker.  `CInv` is the case of
a crash.  `SendKeeps` shows once that a send from any editor that is `Listable` keeps `IInv`; the thirteen operations that send
differ in why it is.  `StatesDeletedFacts`, `RestatedFacts` and `PlayedFacts` say what becomes of the states, and `FreshFacts` that a new one is new, for
which there are finitely many.  Proving corrected the model: `Regular` had to exclude stored scenes with two
attached objects (section 6), the names of `FreshState` were bounded by a constant, and what was stored may only be what a session
saves.

*Only model-checked:*

* liveness and everything under fairness (`KeepsPromise`, `EveryGoalEnds`, `GoalsEnd`, `RecordingEnds`, `PlaybackEnds`), since temporal
  reasoning with `ENABLED` is out of the prover's reach;
* of `DistanceField`, `FieldIsExact`, `NamesItsObstacle` and `NeverJoinsDrained`.  Looking for their invariant showed that they are not true of three obstacles
  (section 6), so that they are stated for fields that have known two at most (`Few`).  For two they rest on how the regions of two
  fronts meet on the grid: that each stays connected, and that a voxel's neighbours were offered their distance in time.

## 5. What is not modelled, and why

* Geometry and gradients of `collision_proximity`, `chomp_motion_planner`, `collider`: real arithmetic.  Bodies are single spheres on
  a line; a gradient step is any step within the limits.
* `chomp_motion_planner`: the Hamiltonian branch, which the parameters turn off; time limits.
* `collision_proximity_planner`: the services that only set or read a state; the plugin, which is not built.
* `interpolated_ik_motion_planner`: test queries, start angles the service never asks for, drawing.
* `collider`: markers, clouds as data, transforms.
* Of `move_arm_utils`: meshes, menus' wording, the warehouse's outcomes and paused states.
* Of `distance_field`: the signed and the PF field, gradients, the double arithmetic of
  `worldToGrid` (a cloud is given in cells, inside the grid or not).
* `warehouse_components_visualizer`: not built (its lines in `CMakeLists.txt` are commented out).
* `current_state_validator`: single steps under one lock on a library that is not in the repository.
* How long a timer runs; the lengths of trajectories beyond empty and not; statistics, markers, logging.
* `trajectory_stats`, tests, launch files.

## 6. What the models found

Shown by a run:

* `PlanningSceneSaveLost` (`move_arm_utils.cpp:2103`): after the table of the load dialog was refreshed,
  "Save Changes Before Loading New" removes the stored requests of the scene worked on.

Named by a property as it is checked, or shown when a premise of one is dropped:

* `TrajectoryExecution`, `Concurrent = TRUE` (`follow_joint_trajectory_controller_handler.h:90`): a timeout between the test and
  the action of a done callback finishes one trajectory twice.
* `TrajectoryExecution` (`trajectory_recorder.cpp:56`): `callCallbacks` erases every name on the deregister list at the end of a
  pass, also of a handler that was started again inside it: its trajectory is executed unrecorded.
* `HeadMonitor`, overlapping callbacks (`move_arm_head_monitor.cpp:340`): a point cloud that stops the start timer while its
  callback runs pauses a trajectory that is sent to the arm all the same; stopping the timers under the server's lock can
  deadlock with the pause's timeout.
* `HeadMonitor`, two arms: a late answer for one arm ends the other's goal.
* `TrajectoryExecution`, as it is checked (`follow_joint_trajectory_controller_handler.h:73`, `trajectory_controller_handler.cpp:142`): a timeout
  cancels nothing, so that after a tolerated one the monitor reports the request as done and sends the next while the first controller still carries its own out.  `FinishedIsOver`
  says so: only SUCCEEDED means that the controller is through.
* `TrajectoryExecution`, as it is checked (`trajectory_execution_monitor.cpp:137`): the overshoot is copied "in any case", so that a slot whose overshoot was not
  watched has the points of an earlier execution of its handler, even of an earlier batch.  `SlotHoldsLastOvershoot` says whose they are.
* `MoveArm`, without `handover` (`move_arm_simple_action.cpp:1214`, `:1237`): a goal that preempts another one inherits its attempts, and if its scene cannot be
  set, the machine stays in MONITOR or START_CONTROL with the old trajectory for the next goal.
* `MoveArm`, without `<>[](pc = "plan")` in `EveryGoalEnds` (`move_arm_simple_action.cpp:689`): a goal that is cancelled while `createPlan` waits for a planner that
  does not come never ends.
* `CollisionFreeController`, without `late` (`collision_free_arm_trajectory_controller.cpp:228`): the answer for the
  last trajectory settles the goal just sent and switches off the watch over its arm, which moves on.
* `DistanceField`, without `gone` (`propagation_distance_field.cpp:152`, `:371`): `reset` and removal leave `object_voxel_locations_` alone, so an
  obstacle that was there before is skipped when it is added again, although `distance_field.h:96` offers `reset()` to "remove all points and start afresh".
  Every caller does just that: `collision_proximity_space.cpp:507`/`:521` for every group and `:529`/`:552` for every scene.
* `CollisionProximityPlanner`, without `missing`, in five steps: the second time a scene is set, even the same one, its obstacles are in no field, and what
  `findPathToFreeState` calls free touches one as far as the spheres are concerned.  The meshes are asked too, and are not wrong (`FreeIsFree`), so that what is lost is the margin; in
  `isTrajectorySafe` the distances see nothing of them (`NeverThrough`).
* `DistanceField` without `Few` (`propagation_distance_field.cpp:318`, `:414`), in the run's own room: with obstacles at (0,0,2) and (3,3,2), one more at (1,2,1) has
  a voxel put into a bucket that was drained before.  It stays there until the next call.  When that is an iterative
  update to (0,0,0), which takes all three away, the voxel is offered as a point of its own: the cell (2,0,1) ends up with the distance to (3,0,1), where
  nothing ever was.  `NeverJoinsDrained`, `NamesItsObstacle` and `FieldIsExact` are all violated.
* `DistanceField`, three obstacles: the field need not be exact even when they are added at once.  On a 7 x 6 x 1 grid with a largest
  distance of 5 and obstacles at (0,3), (1,1) and (2,0), the voxel (3,3) gets the squared distance 9 of (0,3) where (1,1) is at
  8; with a largest distance of 3, the test's, that voxel is never reached.  On a flat grid a removal may also leave a distance behind: 10 x 10 x 1 with a largest
  distance of 9 and obstacles added in turn at (4,2), (1,1), (8,8) and (5,3) keeps (4,2) as the obstacle of (0,9) when (4,2) is removed, because
  the removal goes from neighbour to neighbour and others lie between.
* `CollisionProximityPlanner` without `Understood`: a link with two held objects, or one that an earlier
  scene let touch something, is called free when it is not; a scene that goes in the middle of a plan is dereferenced.
* `TrajectorySafety`: "Midpoints must never have collisions" (`collision_proximity_space.cpp:1257`) holds of meshes only: the
  distances of the gradients leave out the group itself where a field has something nearer.
* `InterpolatedIK` (`interpolated_ik_motion_planner.py:292`): the loop that trims a path kept from its end never looks at
  index 0, so an invalid first point is timed when all others are good, against the comment at 286 (invalid parts are set to 0).  `ValidPartIsTimed` lets that one point through and
  no other.  And the end that is kept is read (291) after the search, so that it is the one `set_params` set last, not the one the search began at.
* `EditorScene`, `crosses` or `fails`: a send that is not answered leaves `robot_state_` NULL, and operations that
  do not take the lock follow it.
* `EditorScene` (`move_arm_utils.cpp:1252`): of a stored scene with two attached objects only the first is attached again: the scene
  whose list the loop goes through is replaced by the answer to the first one's send.  The links that might touch the second stay allowed.

Met while modelling:

* `DistanceField`: removal reads `getCell(-1,-1,-1)` for voxels no obstacle has reached; the constructor leaves
  `data_` unset until `reset`; `default_object_` is made from `max_distance` in metres, cut to an
  integer, so that a query outside the grid answers a wrong distance.
* `TrajectoryExecution`: the time limit is set only for trajectories longer than 0.1 s and never reset;
  `timeout` does not cancel the controller's goal; an empty request vector is read at 0.
* `MoveArm`: a goal that comes in the middle of MONITOR goes back to PLANNING without cancelling the old trajectory
  (`move_arm_simple_action.cpp:1208`), keeps the attempts spent, and may meet a done flag that was meant
  for the old one; `createPlan` waits without a bound.
* `HeadMonitor`: two `move_arm` nodes share its status.
* `CollisionFreeController`: `controllerDoneCallback` reports success whatever the controller says, and the node
  has no preempt callback.
* `ChompOptimizer`: `num_collision_free_iterations_` is read before it is set (`chomp_optimizer.cpp:470`); an iteration may be counted twice.
* `Collider`: callbacks, goals and `reset` share the octree and the sources without a lock.
* `PlanningSceneEditor`: scenes made and not saved share an identifier; a scene of another host is stored
  beside itself at its second save; `controllerDoneCallback` makes a request without a name when the logged
  one is gone; trajectories whose service failed are looked up by an identifier that was never set; the test of
  `armHasStoppedMoving` compares a velocity, not its absolute value (`move_arm_utils.cpp:1108`), and
  `jointStateCallback` reads it without the lock.
* `move_arm_warehouse_logger_reader`: `stringToJointTrajectory` stores a position as a velocity.

## 7. Plan

Done, in the order of importance: the execution chain (`TrajectoryExecution`, `MoveArm`,
`HeadMonitor`, `CollisionFreeController`) with proofs of its safety, the editor and its scene, the propagation field, the
proximity space and its planner, CHOMP, interpolated kinematics, the collider.

Next, models:

1. `ArmAndHead`: `MoveArm` composed with `HeadMonitor`, so that `MonitorDone`'s premise becomes a result.
2. The signed and PF variants of `DistanceField` (the signed field's `addPointsToField` forgets the negative side of
   earlier obstacles).

Next, proofs: that two fronts on the grid keep `FieldIsExact`, `NamesItsObstacle` and `NeverJoinsDrained` of `DistanceField`.
