------------------------ MODULE TrajectoryExecution ------------------------
(***************************************************************************)
(* trajectory_execution_monitor: a TrajectoryExecutionMonitor runs a       *)
(* vector of requests one after the other.  For each it starts a           *)
(* TrajectoryControllerHandler, which sends a goal to a robot controller,  *)
(* registers itself with a TrajectoryRecorder and arms a one-shot timer.   *)
(* The handler reports back when the controller answers, when the timer    *)
(* expires or, while it watches the overshoot, when a recorded state shows *)
(* that the joints have settled.                                           *)
(*                                                                         *)
(* The three callbacks arrive on different threads: the controller's       *)
(* answer on the action client's own thread, timers and joint states on    *)
(* the spinner's.  Timer and answer are split in two steps: a callback     *)
(* tests controller_state_, and then acts.  With Concurrent = FALSE a      *)
(* callback ends before the next one starts; with TRUE they overlap.       *)
(***************************************************************************)
EXTENDS Naturals, Sequences

CONSTANTS
    Handlers,       \* the controller handlers, numbered in the order of their names in std::map
    Grippers,       \* those that are Pr2GripperTrajectoryControllerHandlers
    Recorders,      \* the names in trajectory_recorder_map_
    Batches,        \* the request vectors a client passes to executeTrajectories
    MaxExecutions,  \* bound on the number of trajectories started
    Concurrent      \* whether callbacks on different threads may overlap

Requests == [handler: Nat \ {0}, recorder: STRING, overshoot: BOOLEAN,
             failureOk: BOOLEAN, closeTest: BOOLEAN]

ASSUME HandlersAssumption == Handlers \subseteq Nat \ {0} /\ Grippers \subseteq Handlers
ASSUME RecordersAssumption == Recorders \subseteq STRING /\ Recorders # {}
\* sendTrajectory reads to_execute[0] without a test: no client passes an empty vector.
ASSUME BatchesAssumption == \A b \in Batches : b \in Seq(Requests) /\ b # <<>>
ASSUME ConcurrentAssumption == Concurrent \in BOOLEAN

VARIABLES
    batch,      \* *execution_data_
    idx,        \* current_trajectory_index_ + 1
    results,    \* execution_result_vector_; exec is the execution the slot was opened for
    reports,    \* how often result_callback_ was called for this batch
    last,       \* last_requested_handler_; 0 before the first
    execs,      \* executions started so far; an execution is named by its number
    handlers,   \* per handler: its members, and its callbacks that are past their test
    recorders   \* per recorder: callback_map_, deregister_list_ and the iteration over the map

vars == <<batch, idx, results, reports, last, execs, handlers, recorders>>
monitorVars == <<batch, idx, results, reports, last, execs>>

Active == {"EXECUTING", "OVERSHOOTING"}

\* A trajectory message: the execution whose start cleared it, and whether it has points.
NoTrajectory == [exec |-> 0, some |-> FALSE]
Cleared(e) == [exec |-> e, some |-> FALSE]

\* Codes after which the next trajectory is started, and those that end the batch.
GoOn == {"SUCCEEDED", "HANDLER_REPORTS_FAILURE_BUT_OK", "HANDLER_REPORTS_FAILURE_BUT_CLOSE_ENOUGH"}
Stop == {"NO_RECORDER", "NO_HANDLER", "HANDLER_REPORTS_FAILURE"}
Codes == {"NOT_ATTEMPTED"} \cup GoOn \cup Stop

Busy == batch # <<>> /\ reports = 0
Iterating(r) == recorders[r].cursor # 0
Inside(h) == handlers[h].expiring # "no" \/ handlers[h].answer # "no"
Quiet == (\A h \in Handlers : ~Inside(h)) /\ (\A r \in Recorders : ~Iterating(r))
\* A callback may start: always with several threads, else only when none is running.
MayEnter == Concurrent \/ Quiet

Init ==
    /\ batch = <<>> /\ idx = 1 /\ results = <<>> /\ reports = 0 /\ last = 0 /\ execs = 0
    /\ handlers = [h \in Handlers |->
                     [state |-> "IDLE", timer |-> FALSE, overshoot |-> FALSE,
                      recorded |-> NoTrajectory, overshot |-> NoTrajectory,
                      goal |-> FALSE, recorder |-> "none", expiring |-> "no", answer |-> "no"]]
    /\ recorders = [r \in Recorders |-> [callbacks |-> {}, deregister |-> {}, cursor |-> 0]]

-----------------------------------------------------------------------------
(* TrajectoryExecutionMonitor *)

\* The recorder a request ends up with: the only one there is, else the one it names.
RecorderFor(req) == IF \E r \in Recorders : Recorders = {r}
                    THEN CHOOSE r \in Recorders : TRUE ELSE req.recorder

\* What sendTrajectory finds missing for a request.
Missing(req) == IF RecorderFor(req) \notin Recorders THEN "NO_RECORDER"
                ELSE IF req.handler \notin Handlers THEN "NO_HANDLER" ELSE "nothing"

\* enableOvershoot or disableOvershoot and the handler's executeTrajectory, for
\* execution e.  How long the timer runs is left open.
Started(hd, req, e) ==
    [hd EXCEPT !.overshoot = req.overshoot,
               !.state = "EXECUTING", !.recorded = Cleared(e), !.timer = TRUE,
               !.goal = TRUE, !.recorder = RecorderFor(req)]

Registered(rd, h) == [rd EXCEPT !.callbacks = @ \cup {h}]
Slot(code, e) == [code |-> code, exec |-> e, recorded |-> NoTrajectory, overshot |-> NoTrajectory]

\* sendTrajectory for request req, from the handlers hs, the recorders rs, the
\* results out and the n reports that its caller leaves.  When it returns false
\* the caller calls result_callback_.
Send(req, hs, rs, out, n) ==
    \/ /\ Missing(req) # "nothing"
       /\ results' = Append(out, Slot(Missing(req), 0))
       /\ reports' = n + 1
       /\ handlers' = hs /\ recorders' = rs
       /\ UNCHANGED <<last, execs>>
    \/ /\ Missing(req) = "nothing"
       /\ results' = Append(out, Slot("NOT_ATTEMPTED", execs + 1))
       /\ reports' = n
       /\ handlers' = [hs EXCEPT ![req.handler] = Started(@, req, execs + 1)]
       /\ recorders' = [rs EXCEPT ![RecorderFor(req)] = Registered(@, req.handler)]
       /\ last' = req.handler /\ execs' = execs + 1

\* Mutants: executeTrajectories without current_trajectory_index_ = 0, and without
\* execution_result_vector_.reset().
ExecuteWithoutIndexReset(b) ==
    /\ ~Busy
    /\ execs + Len(b) <= MaxExecutions
    /\ batch' = b /\ idx' = idx
    /\ Send(b[1], handlers, recorders, <<>>, 0)

ExecuteWithoutResultReset(b) ==
    /\ ~Busy
    /\ execs + Len(b) <= MaxExecutions
    /\ batch' = b /\ idx' = 1
    /\ Send(b[1], handlers, recorders, results, 0)

\* A client waits for the report of its batch before it hands in another one,
\* possibly from inside result_callback_.
ExecuteTrajectories(b) ==
    /\ ~Busy
    /\ execs + Len(b) <= MaxExecutions
    /\ batch' = b /\ idx' = 1
    /\ Send(b[1], handlers, recorders, <<>>, 0)

\* Mutant: failure_ok_ is not looked at.
OutcomesIgnoringFailureOk(ok, hd) ==
    IF ok THEN {"SUCCEEDED"}
    ELSE {"HANDLER_REPORTS_FAILURE"} \cup
         {c \in {"HANDLER_REPORTS_FAILURE_BUT_CLOSE_ENOUGH"} :
             batch[idx].closeTest /\ hd.recorded.some}

\* The codes trajectoryFinishedCallbackFunction may give the last slot.  Whether
\* the recorded end is close enough to the goal is left open, except that an
\* empty recording never is.  Past the last request it reads beyond the vector.
Outcomes(ok, hd) ==
    IF ok THEN {"SUCCEEDED"}
    ELSE IF idx > Len(batch) THEN (GoOn \ {"SUCCEEDED"}) \cup {"HANDLER_REPORTS_FAILURE"}
    ELSE IF batch[idx].failureOk THEN {"HANDLER_REPORTS_FAILURE_BUT_OK"}
    ELSE {"HANDLER_REPORTS_FAILURE"} \cup
         {c \in {"HANDLER_REPORTS_FAILURE_BUT_CLOSE_ENOUGH"} :
             batch[idx].closeTest /\ hd.recorded.some}

\* Mutant: front() for back().
FilledAtFront(code, hd) == [results EXCEPT ![1] =
                              [@ EXCEPT !.code = code, !.recorded = hd.recorded, !.overshot = hd.overshot]]

\* The result vector after the last slot was given a code and what its handler recorded.
Filled(code, hd) == [results EXCEPT ![Len(results)] =
                       [@ EXCEPT !.code = code, !.recorded = hd.recorded, !.overshot = hd.overshot]]

\* trajectoryFinishedCallbackFunction, called when hs and rs are the handlers
\* and the recorders.
Finish(ok, hs, rs) ==
    \E code \in Outcomes(ok, hs[last]) :
        /\ batch' = batch
        /\ idx' = IF code \in GoOn THEN idx + 1 ELSE idx
        /\ IF code \in GoOn /\ idx < Len(batch)
           THEN Send(batch[idx + 1], hs, rs, Filled(code, hs[last]), reports)
           ELSE /\ results' = Filled(code, hs[last])
                /\ reports' = reports + 1
                /\ handlers' = hs /\ recorders' = rs
                /\ UNCHANGED <<last, execs>>

-----------------------------------------------------------------------------
(* TrajectoryControllerHandler *)

\* Mutant: an execution that timed out counts as a success.
SuccessOnTimeout(state) == state # "EXECUTION_FAILURE"

IsSuccess(state) == state \in {"SUCCESS", "OVERSHOOT_TIMEOUT"}

\* What done() and doneDelayed() do to the handler before they call the monitor.
Idle(hs, h) == [hs EXCEPT ![h].state = "IDLE", ![h].timer = FALSE]

\* timer_.stop() waits for a timer callback that runs on another thread.
TimerCanStop(h) == handlers[h].expiring = "no"

\* done(), entered with the final state.
Done(h, hs, state) ==
    Finish(IsSuccess(state), Idle(hs, h),
           [recorders EXCEPT ![handlers[h].recorder].callbacks = @ \ {h}])

\* Mutant: doneDelayed() calls deregisterCallback().
DoneAtOnce(h, rs, state) ==
    Finish(IsSuccess(state), Idle(handlers, h),
           [rs EXCEPT ![handlers[h].recorder].callbacks = @ \ {h}])

\* doneDelayed(), inside the pass of a recorder: it leaves the registration to the pass.
DoneDelayed(h, rs, state) ==
    Finish(IsSuccess(state), Idle(handlers, h),
           [rs EXCEPT ![handlers[h].recorder].deregister = @ \cup {h}])

\* Mutant: timeout() without its first branch.
TimerFiresOnlyExecuting(h) ==
    /\ MayEnter
    /\ handlers[h].timer /\ handlers[h].expiring = "no"
    /\ handlers' = [handlers EXCEPT ![h].timer = FALSE, ![h].expiring =
                      IF handlers[h].state = "EXECUTING" THEN "EXECUTION_TIMEOUT" ELSE "no"]
    /\ UNCHANGED <<monitorVars, recorders>>

\* timeout(): the test of controller_state_, then the rest of the callback.
TimerFires(h) ==
    /\ MayEnter
    /\ handlers[h].timer /\ handlers[h].expiring = "no"
    /\ handlers' = [handlers EXCEPT ![h].timer = FALSE, ![h].expiring =
                      CASE handlers[h].state = "OVERSHOOTING" -> "OVERSHOOT_TIMEOUT"
                        [] handlers[h].state = "EXECUTING" -> "EXECUTION_TIMEOUT"
                        [] OTHER -> "no"]
    /\ UNCHANGED <<monitorVars, recorders>>

TimerActs(h) ==
    /\ handlers[h].expiring # "no"
    /\ Done(h, [handlers EXCEPT ![h].expiring = "no"], handlers[h].expiring)

\* Mutant: controllerDoneCallback() without its test.
ControllerAnswersAnyTime(h) ==
    /\ MayEnter
    /\ handlers[h].goal /\ handlers[h].answer = "no"
    /\ \E state \in {"SUCCESS", "EXECUTION_FAILURE"} :
         handlers' = [handlers EXCEPT ![h].goal = FALSE, ![h].answer = state]
    /\ UNCHANGED <<monitorVars, recorders>>

\* controllerDoneCallback(): the test of controller_state_.
ControllerAnswers(h) ==
    /\ MayEnter
    /\ handlers[h].goal /\ handlers[h].answer = "no"
    /\ \E state \in {"SUCCESS", "EXECUTION_FAILURE"} :
         handlers' = [handlers EXCEPT ![h].goal = FALSE,
                        ![h].answer = IF handlers[h].state \in Active THEN state ELSE "no"]
    /\ UNCHANGED <<monitorVars, recorders>>

\* The rest of it: initializeOvershootTrajectory() or done().  The gripper's
\* handler never watches the overshoot.
Watches(h) == handlers[h].answer = "SUCCESS" /\ handlers[h].overshoot /\ h \notin Grippers

\* Mutant: initializeOvershootTrajectory() without points.clear().
OvershootKeepsPoints(h) ==
    /\ Watches(h) /\ TimerCanStop(h)
    /\ handlers' = [handlers EXCEPT ![h].state = "OVERSHOOTING", ![h].timer = TRUE, ![h].answer = "no"]
    /\ UNCHANGED <<monitorVars, recorders>>

\* Mutant: initializeOvershootTrajectory() stops the timer and makes no new one.
OvershootUntimed(h) ==
    /\ Watches(h) /\ TimerCanStop(h)
    /\ handlers' = [handlers EXCEPT ![h].state = "OVERSHOOTING", ![h].timer = FALSE, ![h].answer = "no",
                                    ![h].overshot = Cleared(handlers[h].recorded.exec)]
    /\ UNCHANGED <<monitorVars, recorders>>

OvershootBegins(h) ==
    /\ Watches(h) /\ TimerCanStop(h)
    /\ handlers' = [handlers EXCEPT ![h].state = "OVERSHOOTING", ![h].timer = TRUE, ![h].answer = "no",
                                    ![h].overshot = Cleared(handlers[h].recorded.exec)]
    /\ UNCHANGED <<monitorVars, recorders>>

AnswerActs(h) ==
    /\ handlers[h].answer # "no" /\ ~Watches(h) /\ TimerCanStop(h)
    /\ Done(h, [handlers EXCEPT ![h].answer = "no"], handlers[h].answer)

-----------------------------------------------------------------------------
(* TrajectoryRecorder::callCallbacks, on every joint state message *)

PassBegins(r) ==
    /\ MayEnter
    /\ ~Iterating(r)
    /\ recorders' = [recorders EXCEPT ![r].cursor = 1]
    /\ UNCHANGED <<monitorVars, handlers>>

Remaining(r) == {h \in recorders[r].callbacks : h >= recorders[r].cursor}
IsNext(r, h) == Iterating(r) /\ h \in Remaining(r) /\ \A g \in Remaining(r) : h <= g
Visited(r, h) == [recorders EXCEPT ![r].cursor = h + 1]

\* addNewStateToRecordedTrajectory: the handler is overshooting and the joints
\* have settled.
Settles(r, h) ==
    /\ IsNext(r, h)
    /\ handlers[h].state = "OVERSHOOTING" /\ TimerCanStop(h)
    /\ DoneDelayed(h, Visited(r, h), "SUCCESS")

\* Otherwise the state is added to the trajectory that is being recorded, unless
\* the message lacks one of its joints.
Records(r, h) ==
    /\ IsNext(r, h)
    /\ \E some \in BOOLEAN :
         handlers' = CASE handlers[h].state = "EXECUTING" ->
                            [handlers EXCEPT ![h].recorded.some = @ \/ some]
                       [] handlers[h].state = "OVERSHOOTING" ->
                            [handlers EXCEPT ![h].overshot.some = @ \/ some]
                       [] OTHER -> handlers
    /\ recorders' = Visited(r, h)
    /\ UNCHANGED monitorVars

\* The end of the loop: the callbacks that asked for it are erased.
PassEnds(r) ==
    /\ Iterating(r) /\ Remaining(r) = {}
    /\ recorders' = [recorders EXCEPT ![r] =
                       [callbacks |-> @.callbacks \ @.deregister, deregister |-> {}, cursor |-> 0]]
    /\ UNCHANGED <<monitorVars, handlers>>

-----------------------------------------------------------------------------
Next ==
    \/ \E b \in Batches : ExecuteTrajectories(b)
    \/ \E h \in Handlers :
         \/ TimerFires(h) \/ TimerActs(h)
         \/ ControllerAnswers(h) \/ OvershootBegins(h) \/ AnswerActs(h)
    \/ \E r \in Recorders :
         \/ PassBegins(r) \/ PassEnds(r)
         \/ \E h \in Handlers : Settles(r, h) \/ Records(r, h)

Spec == Init /\ [][Next]_vars

\* Every callback that began ends, and the spinner's queue gets round to every
\* timer that expired.  The controller, the joint states and the client promise nothing.
Fairness ==
    /\ \A h \in Handlers : /\ SF_vars(TimerFires(h)) /\ WF_vars(TimerActs(h))
                           /\ WF_vars(OvershootBegins(h)) /\ WF_vars(AnswerActs(h))
    /\ \A r \in Recorders : /\ WF_vars(\E h \in Handlers : Settles(r, h) \/ Records(r, h))
                            /\ WF_vars(PassEnds(r))

FairSpec == Spec /\ Fairness

-----------------------------------------------------------------------------
(* Properties *)

Trajectory == [exec: 0..execs, some: BOOLEAN]
HandlerType == [state: {"IDLE"} \cup Active, timer: BOOLEAN, overshoot: BOOLEAN,
                recorded: Trajectory, overshot: Trajectory, goal: BOOLEAN,
                recorder: Recorders \cup {"none"},
                expiring: {"no", "OVERSHOOT_TIMEOUT", "EXECUTION_TIMEOUT"},
                answer: {"no", "SUCCESS", "EXECUTION_FAILURE"}]
SlotType == [code: Codes, exec: 0..execs, recorded: Trajectory, overshot: Trajectory]
RecorderType == [callbacks: SUBSET Handlers, deregister: SUBSET Handlers, cursor: Nat]

\* The variables keep their types; an index never runs past the requests by more than one.
TypeOK ==
    /\ batch \in Batches \cup {<<>>}
    /\ idx \in 1..(Len(batch) + 1)
    /\ results \in Seq(SlotType)
    /\ reports \in Nat /\ execs \in Nat
    /\ last \in Handlers \cup {0}
    /\ handlers \in [Handlers -> HandlerType]
    /\ recorders \in [Recorders -> RecorderType]

Running(h) == handlers[h].state \in Active

\* Only the handler asked last can be running, and only until the batch is reported.
OnlyLastRuns == \A h \in Handlers : Running(h) => Busy /\ h = last

\* While a batch is under way the handler it waits for is running and will be heard
\* of: its timer is armed or one of its callbacks is about to act.  Without this the
\* client would never hear of its batch if the controller stays silent.
BusyIsWatched == Busy => last \in Handlers /\ Running(last) /\ (handlers[last].timer \/ Inside(last))

\* "in order, after each trajectory is finished executing": a trajectory whose slot has
\* its code is over for its handler, and if the code is SUCCEEDED for its controller too.
\* More cannot be said: timeout() cancels nothing, so after it a trajectory that failed,
\* or whose failure was tolerated, may still be carried out beside the next one.
FinishedIsOver ==
    \A h \in Handlers, i \in 1..Len(results) :
        handlers[h].recorded.exec = results[i].exec /\ results[i].code # "NOT_ATTEMPTED" =>
            ~Running(h) /\ (handlers[h].goal => results[i].code # "SUCCEEDED")

\* One trajectory at a time is watched, in order, and none that nobody waits for.
BatchIsWatched == OnlyLastRuns /\ BusyIsWatched /\ FinishedIsOver

\* The results account for the batch: one slot per request reached, every slot but
\* the newest allowed the next one to start, the newest is open exactly while the
\* batch is under way, and the batch is reported once, when its last request went
\* well or a request stopped it.
ResultsAccountForBatch ==
    /\ reports <= 1
    /\ \A i \in 1..Len(results) : i < Len(results) => results[i].code \in GoOn
    /\ Busy => idx = Len(results) /\ results[Len(results)].code = "NOT_ATTEMPTED"
    /\ reports = 1 => \/ Len(results) = Len(batch) /\ results[Len(results)].code \in GoOn
                      \/ results[Len(results)].code \in Stop

\* "Trajectory recorded during execution": a slot that was given a code by its
\* handler holds the recording of its own execution, although handlers overwrite
\* their recording at the next start and the slot is filled by callback.
SlotHoldsOwnRecording ==
    \A i \in 1..Len(results) :
        results[i].code \in GoOn \cup {"HANDLER_REPORTS_FAILURE"} =>
            results[i].recorded.exec = results[i].exec

\* Between two passes of a recorder only running handlers that use it are
\* registered: nothing is left behind by done() or doneDelayed().
OnlyRunningRegistered ==
    \A r \in Recorders : ~Iterating(r) =>
        \A h \in recorders[r].callbacks : Running(h) /\ handlers[h].recorder = r

\* trajectory_recorder.h: no callback is erased from the map while callCallbacks
\* iterates over it.
NoEraseWhileIterating ==
    [][\A r \in Recorders : Iterating(r) /\ recorders'[r].cursor # 0 =>
           recorders[r].callbacks \subseteq recorders'[r].callbacks]_vars

\* A slot that has its code is never touched again while its batch lasts.
SlotsAreFinal ==
    [][\A i \in 1..Len(results) : Busy /\ results[i].code # "NOT_ATTEMPTED" =>
           results'[i] = results[i]]_vars

\* The overshoot of slot i was asked for, and the handler watched it to its end.
WatchedOvershoot(i) ==
    results[i].code = "SUCCEEDED" /\ batch[i].overshoot /\ batch[i].handler \notin Grippers

\* The overshoot in a result is "recorded after the controller has declared the execution
\* finished", but not always that of the slot's own execution: each slot is given what its
\* handler overshot last.  That is its own overshoot if it was watched; else the last one
\* watched on the same handler in this batch; else one left from an earlier batch, or none.
\* It is never that of another handler, and never older than the last one watched.
SlotHoldsLastOvershoot ==
    \A i \in 1..Len(results) : results[i].code \in GoOn \cup {"HANDLER_REPORTS_FAILURE"} =>
        LET Watched == {j \in 1..i : batch[j].handler = batch[i].handler /\ WatchedOvershoot(j)}
            source == results[i].overshot.exec
        IN  /\ \A j \in Watched : results[j].exec <= source
            /\ source < results[1].exec \/ \E j \in Watched : source = results[j].exec

\* The client gets a slot for every request reached, in it what was recorded then and what
\* its handler overshot last.
ResultsAreOwn == ResultsAccountForBatch /\ SlotHoldsOwnRecording /\ SlotHoldsLastOvershoot

\* What no callback may undo: the map a recorder iterates over, and a slot that has its
\* code (TrajectoryRecorder::callCallbacks, trajectoryFinishedCallbackFunction).
CallbacksUndoNothing == NoEraseWhileIterating /\ SlotsAreFinal

\* What the client of BatchPromise sees of the monitor.
CodesOf(slots) == [i \in DOMAIN slots |-> slots[i].code]
Promise == INSTANCE BatchPromise WITH codes <- CodesOf(results), reported <- reports > 0

\* Every step of the monitor is a step that BatchPromise allows, or invisible to the client.
PromisedSteps == Promise!Init /\ [][Promise!Next]_(Promise!vars)

\* The monitor keeps the promise of BatchPromise, its progress included: a batch that is handed in
\* is reported.
KeepsPromise == Promise!Spec

=============================================================================
