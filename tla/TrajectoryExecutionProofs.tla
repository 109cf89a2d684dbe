--------------------- MODULE TrajectoryExecutionProofs ---------------------
(***************************************************************************)
(* Proofs about TrajectoryExecution for every set of handlers, recorders   *)
(* and batches, when callbacks do not overlap (~Concurrent).               *)
(***************************************************************************)
EXTENDS TrajectoryExecution, TLAPS

\* Callbacks do not overlap: at most one is inside, and none while a recorder iterates.
OneCallback ==
    \A h \in Handlers : Inside(h) =>
        /\ \A g \in Handlers : Inside(g) => g = h
        /\ \A r \in Recorders : ~Iterating(r)
        /\ handlers[h].expiring = "no" \/ handlers[h].answer = "no"

\* Timers are armed for, and callbacks act on, running handlers only; those have a recorder.
RunningIsReady ==
    \A h \in Handlers :
        /\ handlers[h].timer \/ Inside(h) => Running(h)
        /\ Running(h) => handlers[h].recorder \in Recorders

\* The newest slot belongs to the execution that is running, the older ones to earlier ones.
NewestSlotRuns ==
    Busy => /\ handlers[last].recorded.exec = execs /\ results[Len(results)].exec = execs
            /\ \A i \in 1..Len(results) : i < Len(results) => results[i].exec < execs
            /\ Len(results) <= Len(batch)

\* A registration is in use, or it is waiting for the end of the pass that dropped
\* it, which has already gone past it.
RegistrationsAccounted ==
    \A r \in Recorders :
        /\ \A h \in recorders[r].callbacks :
              (Running(h) /\ handlers[h].recorder = r) \/ h \in recorders[r].deregister
        /\ \A h \in recorders[r].deregister : h < recorders[r].cursor

IInv ==
    /\ TypeOK /\ OnlyLastRuns /\ BusyIsWatched /\ ResultsAccountForBatch /\ SlotHoldsOwnRecording
    /\ OneCallback /\ RunningIsReady /\ NewestSlotRuns /\ RegistrationsAccounted

-----------------------------------------------------------------------------
\* No handler of hs is running, timed or in a callback, and the only registrations
\* in rs are those a pass is about to drop: what done() and doneDelayed() leave.
AllIdle(hs) == \A h \in Handlers : /\ hs[h].state = "IDLE" /\ hs[h].timer = FALSE
                                   /\ hs[h].expiring = "no" /\ hs[h].answer = "no"
AllDropped(rs) == \A r \in Recorders : /\ rs[r].callbacks \subseteq rs[r].deregister
                                       /\ \A h \in rs[r].deregister : h < rs[r].cursor

\* A trajectory message, a handler and a slot stay of their types when executions are counted.
LEMMA TypesGrow ==
    ASSUME execs \in Nat, execs' \in {execs, execs + 1}
    PROVE  /\ \A hd \in HandlerType : hd \in HandlerType'
           /\ \A sl \in SlotType : sl \in SlotType'
<1>1. 0..execs \subseteq 0..execs' OBVIOUS
<1>2. \A t \in Trajectory : t \in Trajectory' BY <1>1 DEF Trajectory
<1> QED BY <1>1, <1>2 DEF HandlerType, SlotType

\* A request of a batch is a request.
LEMMA RequestOfBatch ==
    ASSUME NEW b \in Batches
    PROVE  b \in Seq(Requests) /\ Len(b) \in Nat \ {0} /\ \A i \in 1..Len(b) : b[i] \in Requests
<1>1. b \in Seq(Requests) /\ b # <<>> BY BatchesAssumption
<1> QED BY <1>1

\* Starting a handler yields a handler of its type that runs execution execs + 1.
LEMMA StartedType ==
    ASSUME execs \in Nat, NEW hd \in HandlerType, NEW req \in Requests,
           Missing(req) = "nothing", execs' = execs + 1
    PROVE  /\ Started(hd, req, execs + 1) \in HandlerType'
           /\ Started(hd, req, execs + 1).state = "EXECUTING"
           /\ Started(hd, req, execs + 1).timer = TRUE
           /\ Started(hd, req, execs + 1).expiring = hd.expiring
           /\ Started(hd, req, execs + 1).answer = hd.answer
           /\ Started(hd, req, execs + 1).recorded = [exec |-> execs + 1, some |-> FALSE]
           /\ Started(hd, req, execs + 1).recorder = RecorderFor(req)
           /\ RecorderFor(req) \in Recorders /\ req.handler \in Handlers
<1>1. RecorderFor(req) \in Recorders /\ req.handler \in Handlers
  BY DEF Missing
<1>2. Cleared(execs + 1) \in Trajectory' BY DEF Cleared, Trajectory
<1>3. hd \in HandlerType' BY TypesGrow
<1>4. req.overshoot \in BOOLEAN BY DEF Requests
<1> QED BY <1>1, <1>2, <1>3, <1>4 DEF Started, HandlerType, Cleared, Active

\* sendTrajectory restores the invariant from what the monitor and done() leave:
\* idle handlers and a result vector with a slot for every request before this one.
LEMMA SendKeeps ==
    ASSUME NEW req, NEW hs \in [Handlers -> HandlerType], NEW rs \in [Recorders -> RecorderType],
           NEW out \in Seq(SlotType), AllIdle(hs), AllDropped(rs),
           execs \in Nat, last \in Handlers \cup {0},
           batch' \in Batches, idx' = Len(out) + 1, idx' <= Len(batch'),
           \A i \in 1..Len(out) : out[i].code \in GoOn /\ out[i].recorded.exec = out[i].exec,
           req = batch'[idx'], Send(req, hs, rs, out, 0)
    PROVE  IInv'
<1>1. req \in Requests /\ batch' # <<>> /\ idx' \in 1..Len(batch') /\ Len(batch') \in Nat
  BY RequestOfBatch
<1>2. CASE Missing(req) # "nothing"
  <2>1. /\ results' = Append(out, Slot(Missing(req), 0)) /\ reports' = 1
        /\ handlers' = hs /\ recorders' = rs /\ last' = last /\ execs' = execs
    BY <1>2 DEF Send
  <2>2. Missing(req) \in {"NO_RECORDER", "NO_HANDLER"} BY <1>2 DEF Missing
  <2>3. Slot(Missing(req), 0) \in SlotType
    BY <2>2 DEF Slot, SlotType, Codes, Stop, Trajectory, NoTrajectory
  <2>4. results' \in Seq(SlotType) /\ Len(results') = Len(out) + 1
    BY <2>1, <2>3
  <2>5. /\ \A i \in 1..Len(out) : results'[i] = out[i]
        /\ results'[Len(results')] = Slot(Missing(req), 0)
    BY <2>1, <2>3
  <2>6. TypeOK'
    <3>1. SlotType' = SlotType /\ HandlerType' = HandlerType
      BY <2>1 DEF SlotType, HandlerType, Trajectory
    <3> QED BY <1>1, <2>1, <2>4, <3>1 DEF TypeOK, RecorderType
  <2>7. ~Busy' BY <2>1 DEF Busy
  <2>8. \A h \in Handlers : ~Running(h)' /\ ~Inside(h)' /\ ~handlers'[h].timer
    BY <2>1 DEF AllIdle, Running, Active, Inside
  <2>9. ResultsAccountForBatch' /\ SlotHoldsOwnRecording'
    BY <2>1, <2>2, <2>4, <2>5, <2>7
       DEF ResultsAccountForBatch, SlotHoldsOwnRecording, Slot, GoOn, Stop, NoTrajectory
  <2>10. RegistrationsAccounted'
    BY <2>1 DEF RegistrationsAccounted, AllDropped, Iterating
  <2> QED BY <2>6, <2>7, <2>8, <2>9, <2>10
          DEF IInv, OnlyLastRuns, BusyIsWatched, OneCallback, RunningIsReady, NewestSlotRuns
<1>3. CASE Missing(req) = "nothing"
  <2> DEFINE h0 == req.handler
             r0 == RecorderFor(req)
             sl == Slot("NOT_ATTEMPTED", execs + 1)
  <2>1. /\ results' = Append(out, sl) /\ reports' = 0 /\ last' = h0 /\ execs' = execs + 1
        /\ handlers' = [hs EXCEPT ![h0] = Started(@, req, execs + 1)]
        /\ recorders' = [rs EXCEPT ![r0] = Registered(@, h0)]
    BY <1>3 DEF Send
  <2>2. h0 \in Handlers /\ r0 \in Recorders BY <1>3 DEF Missing
  <2>3. sl \in SlotType' BY <2>1 DEF Slot, SlotType, Codes, Trajectory, NoTrajectory
  <2>4. \A i \in 1..Len(out) : out[i] \in SlotType /\ out[i] \in SlotType' /\ out[i].exec <= execs
    <3>1. \A i \in 1..Len(out) : out[i] \in SlotType OBVIOUS
    <3> QED BY <2>1, <3>1, TypesGrow DEF SlotType
  <2>5. results' \in Seq(SlotType') /\ Len(results') = Len(out) + 1
    <3>1. out \in Seq(SlotType') BY <2>4
    <3> QED BY <2>1, <2>3, <3>1
  <2>6. /\ \A i \in 1..Len(out) : results'[i] = out[i]
        /\ results'[Len(results')] = sl
    BY <2>1, <2>5
  <2>7. handlers' \in [Handlers -> HandlerType']
    BY <1>1, <1>3, <2>1, <2>2, StartedType, TypesGrow
  <2>8. recorders' \in [Recorders -> RecorderType]
    BY <2>1, <2>2 DEF Registered, RecorderType
  <2>9. TypeOK'
    BY <1>1, <2>1, <2>2, <2>5, <2>7, <2>8 DEF TypeOK, RecorderType
  <2>10. /\ \A h \in Handlers : h # h0 => handlers'[h] = hs[h]
         /\ handlers'[h0] = Started(hs[h0], req, execs + 1)
    BY <2>1, <2>2
  <2>11. /\ handlers'[h0].state = "EXECUTING" /\ handlers'[h0].timer = TRUE
         /\ handlers'[h0].expiring = "no" /\ handlers'[h0].answer = "no"
         /\ handlers'[h0].recorded.exec = execs + 1 /\ handlers'[h0].recorder = r0
    <3>1. hs[h0] \in HandlerType /\ hs[h0].expiring = "no" /\ hs[h0].answer = "no"
      BY <2>2 DEF AllIdle
    <3>2. Cleared(execs + 1).exec = execs + 1 BY DEF Cleared
    <3> QED BY <1>1, <1>3, <2>1, <2>10, <3>1, <3>2, StartedType DEF Cleared
  <2>12. Busy' BY <1>1, <2>1 DEF Busy
  <2>13. \A h \in Handlers : h # h0 => ~Running(h)' /\ ~Inside(h)' /\ ~handlers'[h].timer
    BY <2>10 DEF AllIdle, Running, Active, Inside
  <2>14. Running(h0)' /\ ~Inside(h0)' BY <2>11 DEF Running, Active, Inside
  <2>15. OnlyLastRuns' /\ BusyIsWatched' /\ OneCallback'
    BY <2>1, <2>2, <2>11, <2>12, <2>13, <2>14 DEF OnlyLastRuns, BusyIsWatched, OneCallback
  <2>16. RunningIsReady' BY <2>2, <2>11, <2>13, <2>14 DEF RunningIsReady
  <2>17. ResultsAccountForBatch' /\ SlotHoldsOwnRecording'
    BY <2>1, <2>5, <2>6, <2>12 DEF ResultsAccountForBatch, SlotHoldsOwnRecording, sl, Slot, GoOn
  <2>18. NewestSlotRuns'
    <3>1. sl.exec = execs + 1 BY DEF Slot
    <3>2. \A i \in 1..Len(out) : results'[i].exec < execs'
      BY <2>1, <2>4, <2>6 DEF SlotType
    <3>3. Len(results') <= Len(batch') /\ Len(results') = Len(out) + 1 BY <2>5
    <3> HIDE DEF sl
    <3> QED BY <2>1, <2>6, <2>11, <3>1, <3>2, <3>3 DEF NewestSlotRuns
  <2>19. RegistrationsAccounted'
    <3> SUFFICES ASSUME NEW r \in Recorders
                 PROVE  /\ \A h \in recorders'[r].callbacks :
                             (Running(h)' /\ handlers'[h].recorder = r) \/ h \in recorders'[r].deregister
                        /\ \A h \in recorders'[r].deregister : h < recorders'[r].cursor
      BY DEF RegistrationsAccounted
    <3>1. /\ recorders'[r].callbacks = IF r = r0 THEN rs[r].callbacks \cup {h0} ELSE rs[r].callbacks
          /\ recorders'[r].deregister = rs[r].deregister /\ recorders'[r].cursor = rs[r].cursor
      BY <2>1, <2>2 DEF Registered, RecorderType
    <3> QED BY <2>11, <2>14, <3>1 DEF AllDropped, Iterating
  <2> QED BY <2>9, <2>15, <2>16, <2>17, <2>18, <2>19 DEF IInv
<1> QED BY <1>2, <1>3

\* trajectoryFinishedCallbackFunction restores the invariant when the handler that
\* was running has become idle.
LEMMA FinishKeeps ==
    ASSUME IInv, Busy, NEW ok \in BOOLEAN,
           NEW hs \in [Handlers -> HandlerType], NEW rs \in [Recorders -> RecorderType],
           AllIdle(hs), AllDropped(rs), hs[last].recorded = handlers[last].recorded,
           Finish(ok, hs, rs)
    PROVE  IInv'
<1>1. PICK code \in Outcomes(ok, hs[last]) :
        /\ batch' = batch
        /\ idx' = IF code \in GoOn THEN idx + 1 ELSE idx
        /\ IF code \in GoOn /\ idx < Len(batch)
           THEN Send(batch[idx + 1], hs, rs, Filled(code, hs[last]), reports)
           ELSE /\ results' = Filled(code, hs[last])
                /\ reports' = reports + 1
                /\ handlers' = hs /\ recorders' = rs
                /\ UNCHANGED <<last, execs>>
  BY DEF Finish
<1>2. /\ batch \in Batches /\ Len(batch) \in Nat /\ reports = 0 /\ execs \in Nat
      /\ results \in Seq(SlotType) /\ idx = Len(results) /\ idx \in 1..Len(batch)
      /\ last \in Handlers
  <2>1. batch \in Batches BY DEF IInv, TypeOK, Busy
  <2> QED BY <2>1, RequestOfBatch
          DEF IInv, TypeOK, Busy, ResultsAccountForBatch, NewestSlotRuns, BusyIsWatched
<1>3. code \in GoOn \cup {"HANDLER_REPORTS_FAILURE"}
  BY <1>1 DEF Outcomes, GoOn
<1> DEFINE out == Filled(code, hs[last])
           n == Len(results)
           lastSlot == [results[n] EXCEPT !.code = code, !.recorded = hs[last].recorded,
                                          !.overshot = hs[last].overshot]
<1>4. /\ hs[last].recorded \in Trajectory /\ hs[last].overshot \in Trajectory
      /\ hs[last].recorded.exec = execs
  BY <1>2 DEF IInv, NewestSlotRuns, HandlerType
<1>5. /\ results[n] \in SlotType /\ results[n].exec = execs
      /\ \A i \in 1..n : i < n => results[i].exec < execs
  BY <1>2 DEF IInv, NewestSlotRuns
<1>6. /\ lastSlot \in SlotType /\ lastSlot.code = code
      /\ lastSlot.recorded.exec = lastSlot.exec
  BY <1>3, <1>4, <1>5 DEF SlotType, Codes, Stop
<1>7. out = [results EXCEPT ![n] = lastSlot] BY DEF Filled
<1>8. /\ out \in Seq(SlotType) /\ Len(out) = n /\ out[n] = lastSlot
      /\ \A i \in 1..n : i < n => out[i] = results[i]
  <2> HIDE DEF lastSlot, out
  <2> QED BY <1>2, <1>6, <1>7
<1>9. \A i \in 1..n : i < n => out[i].code \in GoOn /\ out[i].recorded.exec = out[i].exec
  BY <1>2, <1>8 DEF IInv, ResultsAccountForBatch, SlotHoldsOwnRecording
<1> HIDE DEF lastSlot, out
<1>10. CASE code \in GoOn /\ idx < Len(batch)
  <2>1. /\ batch' \in Batches /\ idx' = Len(out) + 1 /\ idx' <= Len(batch') /\ batch[idx + 1] = batch'[idx']
        /\ Send(batch[idx + 1], hs, rs, out, 0)
    BY <1>1, <1>2, <1>8, <1>10 DEF out
  <2>2. \A i \in 1..Len(out) : out[i].code \in GoOn /\ out[i].recorded.exec = out[i].exec
    BY <1>2, <1>6, <1>8, <1>9, <1>10
  <2> QED BY <1>2, <1>8, <2>1, <2>2, SendKeeps
<1>11. CASE ~(code \in GoOn /\ idx < Len(batch))
  <2>1. /\ results' = out /\ reports' = 1 /\ handlers' = hs /\ recorders' = rs
        /\ last' = last /\ execs' = execs /\ batch' = batch
        /\ idx' = IF code \in GoOn THEN idx + 1 ELSE idx
    BY <1>1, <1>2, <1>11 DEF out
  <2>2. TypeOK'
    <3>1. SlotType' = SlotType /\ HandlerType' = HandlerType
      BY <2>1 DEF SlotType, HandlerType, Trajectory
    <3> QED BY <1>2, <1>8, <2>1, <3>1 DEF TypeOK, RecorderType
  <2>3. ~Busy' BY <2>1 DEF Busy
  <2>4. \A h \in Handlers : ~Running(h)' /\ ~Inside(h)' /\ ~handlers'[h].timer
    BY <2>1 DEF AllIdle, Running, Active, Inside
  <2>5. ResultsAccountForBatch'
    BY <1>2, <1>3, <1>6, <1>8, <1>9, <1>11, <2>1, <2>3 DEF ResultsAccountForBatch, Stop
  <2>6. SlotHoldsOwnRecording'
    BY <1>2, <1>6, <1>8, <1>9, <2>1 DEF SlotHoldsOwnRecording
  <2>7. RegistrationsAccounted'
    BY <2>1 DEF RegistrationsAccounted, AllDropped, Iterating
  <2> QED BY <2>2, <2>3, <2>4, <2>5, <2>6, <2>7
          DEF IInv, OnlyLastRuns, BusyIsWatched, OneCallback, RunningIsReady, NewestSlotRuns
<1> QED BY <1>10, <1>11

-----------------------------------------------------------------------------
\* A callback that acts finds its handler running, with nobody else inside.
LEMMA InsideFacts ==
    ASSUME IInv, NEW h \in Handlers, Inside(h)
    PROVE  /\ Running(h) /\ Busy /\ h = last /\ handlers[h].recorder \in Recorders
           /\ \A g \in Handlers : g # h => ~Running(g) /\ ~Inside(g) /\ ~handlers[g].timer
           /\ \A r \in Recorders : ~Iterating(r)
<1>1. Running(h) /\ Busy /\ h = last /\ handlers[h].recorder \in Recorders
  BY DEF IInv, RunningIsReady, OnlyLastRuns
<1> QED BY <1>1 DEF IInv, OneCallback, RunningIsReady, OnlyLastRuns

\* A handler that is not running is idle.
LEMMA NotRunningIsIdle ==
    ASSUME TypeOK, NEW h \in Handlers, ~Running(h)
    PROVE  handlers[h].state = "IDLE"
BY DEF TypeOK, HandlerType, Running, Active

\* When the running handler is done, whatever its callback did before, no handler runs
\* any more, and what the handler recorded stays.
LEMMA IdleLeft ==
    ASSUME IInv, NEW h \in Handlers, Running(h), NEW hs \in [Handlers -> HandlerType],
           \A g \in Handlers : g # h => hs[g] = handlers[g] /\ ~Inside(g),
           hs[h].expiring = "no", hs[h].answer = "no"
    PROVE  /\ Idle(hs, h) \in [Handlers -> HandlerType] /\ AllIdle(Idle(hs, h))
           /\ Idle(hs, h)[h].recorded = hs[h].recorded /\ Idle(hs, h)[h].overshot = hs[h].overshot
           /\ Idle(hs, h)[h].goal = hs[h].goal /\ \A g \in Handlers : g # h => Idle(hs, h)[g] = handlers[g]
<1> DEFINE hs2 == Idle(hs, h)
<1>1. /\ hs2 \in [Handlers -> HandlerType]
      /\ hs2[h].recorded = hs[h].recorded /\ hs2[h].overshot = hs[h].overshot /\ hs2[h].goal = hs[h].goal
      /\ hs2[h].state = "IDLE" /\ hs2[h].timer = FALSE /\ hs2[h].expiring = "no" /\ hs2[h].answer = "no"
      /\ \A g \in Handlers : g # h => hs2[g] = handlers[g]
  BY DEF Idle, HandlerType
<1>2. \A g \in Handlers : g # h => ~Running(g) BY DEF IInv, OnlyLastRuns
<1> HIDE DEF hs2
<1>3. AllIdle(hs2)
  <2> SUFFICES ASSUME NEW g \in Handlers
               PROVE  /\ hs2[g].state = "IDLE" /\ hs2[g].timer = FALSE
                      /\ hs2[g].expiring = "no" /\ hs2[g].answer = "no"
    BY DEF AllIdle
  <2>1. CASE g = h BY <1>1, <2>1
  <2>2. CASE g # h
    <3>1. handlers[g].state = "IDLE" BY <1>2, <2>2, NotRunningIsIdle DEF IInv
    <3>2. handlers[g].timer = FALSE
      BY <1>2, <2>2 DEF IInv, RunningIsReady, TypeOK, HandlerType
    <3>3. handlers[g].expiring = "no" /\ handlers[g].answer = "no" BY <2>2 DEF Inside
    <3> QED BY <1>1, <2>2, <3>1, <3>2, <3>3
  <2> QED BY <2>1, <2>2
<1> QED BY <1>1, <1>3 DEF hs2

\* done() by the only callback that is inside restores the invariant.
LEMMA DoneKeeps ==
    ASSUME IInv, NEW h \in Handlers, Inside(h), NEW state,
           NEW hs \in [Handlers -> HandlerType],
           \A g \in Handlers : g # h => hs[g] = handlers[g],
           hs[h].expiring = "no", hs[h].answer = "no", hs[h].recorded = handlers[h].recorded,
           Done(h, hs, state)
    PROVE  IInv'
<1> DEFINE hs2 == Idle(hs, h)
           rec == handlers[h].recorder
           rs2 == [recorders EXCEPT ![rec].callbacks = @ \ {h}]
<1>1. /\ Running(h) /\ Busy /\ h = last /\ rec \in Recorders
      /\ \A g \in Handlers : g # h => ~Running(g) /\ ~Inside(g) /\ ~handlers[g].timer
  BY InsideFacts
<1>2. hs2 \in [Handlers -> HandlerType] /\ AllIdle(hs2) /\ hs2[h].recorded = handlers[h].recorded
  BY <1>1, IdleLeft
<1>4. rs2 \in [Recorders -> RecorderType]
  BY <1>1 DEF IInv, TypeOK, RecorderType
<1>5. AllDropped(rs2)
  <2> SUFFICES ASSUME NEW r \in Recorders
               PROVE  /\ rs2[r].callbacks \subseteq rs2[r].deregister
                      /\ \A g \in rs2[r].deregister : g < rs2[r].cursor
    BY DEF AllDropped
  <2>1. /\ rs2[r].deregister = recorders[r].deregister /\ rs2[r].cursor = recorders[r].cursor
        /\ rs2[r].callbacks = IF r = rec THEN recorders[r].callbacks \ {h} ELSE recorders[r].callbacks
    BY <1>1 DEF IInv, TypeOK, RecorderType
  <2>2. \A g \in recorders[r].callbacks : g \in Handlers
    BY DEF IInv, TypeOK, RecorderType
  <2> QED BY <1>1, <2>1, <2>2 DEF IInv, RegistrationsAccounted
<1>6. Finish(IsSuccess(state), hs2, rs2) BY DEF Done
<1>7. IsSuccess(state) \in BOOLEAN BY DEF IsSuccess
<1> HIDE DEF hs2, rs2
<1> QED BY <1>1, <1>2, <1>4, <1>5, <1>6, <1>7, FinishKeeps

\* In the pass of a recorder nobody is inside, and a running handler that is
\* visited is registered there for its present execution.
LEMMA VisitFacts ==
    ASSUME IInv, NEW r \in Recorders, NEW h \in Handlers, IsNext(r, h)
    PROVE  /\ \A g \in Handlers : ~Inside(g)
           /\ h \in Nat /\ h \in recorders[r].callbacks /\ recorders[r].cursor <= h
           /\ Visited(r, h) \in [Recorders -> RecorderType]
           /\ \A q \in Recorders :
                /\ Visited(r, h)[q].callbacks = recorders[q].callbacks
                /\ Visited(r, h)[q].deregister = recorders[q].deregister
                /\ Visited(r, h)[q].cursor = IF q = r THEN h + 1 ELSE recorders[q].cursor
           /\ Running(h) => handlers[h].recorder = r
<1>1. Iterating(r) /\ h \in recorders[r].callbacks /\ h >= recorders[r].cursor
  BY DEF IsNext, Remaining
<1>2. h \in Nat BY HandlersAssumption
<1>3. recorders \in [Recorders -> RecorderType] BY DEF IInv, TypeOK
<1>4. Running(h) => handlers[h].recorder = r
  BY <1>1, <1>2, <1>3, HandlersAssumption DEF IInv, RegistrationsAccounted, RecorderType
<1> QED BY <1>1, <1>2, <1>3, <1>4 DEF IInv, OneCallback, Visited, RecorderType

\* A handler that settles in the pass of a recorder restores the invariant.
LEMMA SettlesKeeps ==
    ASSUME IInv, NEW r \in Recorders, NEW h \in Handlers, Settles(r, h)
    PROVE  IInv'
<1> DEFINE hs2 == Idle(handlers, h)
           rs2 == [Visited(r, h) EXCEPT ![r].deregister = @ \cup {h}]
<1>1. IsNext(r, h) /\ Running(h) BY DEF Settles, Running, Active
<1>2. Busy /\ h = last /\ \A g \in Handlers : g # h => ~Running(g)
  BY <1>1 DEF IInv, OnlyLastRuns
<1>3. /\ \A g \in Handlers : ~Inside(g)
      /\ h \in Nat /\ recorders[r].cursor <= h
      /\ Visited(r, h) \in [Recorders -> RecorderType]
      /\ \A q \in Recorders :
           /\ Visited(r, h)[q].callbacks = recorders[q].callbacks
           /\ Visited(r, h)[q].deregister = recorders[q].deregister
           /\ Visited(r, h)[q].cursor = IF q = r THEN h + 1 ELSE recorders[q].cursor
      /\ handlers[h].recorder = r
  BY <1>1, VisitFacts
<1>4. handlers \in [Handlers -> HandlerType] BY DEF IInv, TypeOK
<1>5. handlers[h].expiring = "no" /\ handlers[h].answer = "no" BY <1>3 DEF Inside
<1>6. hs2 \in [Handlers -> HandlerType] /\ AllIdle(hs2) /\ hs2[h].recorded = handlers[h].recorded
  BY <1>1, <1>3, <1>4, <1>5, IdleLeft
<1>7. /\ rs2 \in [Recorders -> RecorderType]
      /\ \A q \in Recorders :
           /\ rs2[q].callbacks = recorders[q].callbacks
           /\ rs2[q].deregister = IF q = r THEN recorders[q].deregister \cup {h} ELSE recorders[q].deregister
           /\ rs2[q].cursor = IF q = r THEN h + 1 ELSE recorders[q].cursor
  <2> DEFINE v == Visited(r, h)
  <2>1. /\ v \in [Recorders -> RecorderType]
        /\ \A q \in Recorders : v[q] \in RecorderType /\ v[q].callbacks = recorders[q].callbacks
             /\ v[q].deregister = recorders[q].deregister
             /\ v[q].cursor = IF q = r THEN h + 1 ELSE recorders[q].cursor
    BY <1>3
  <2> HIDE DEF v
  <2>2. [v EXCEPT ![r].deregister = @ \cup {h}] \in [Recorders -> RecorderType]
    BY <2>1 DEF RecorderType
  <2>3. \A q \in Recorders : [v EXCEPT ![r].deregister = @ \cup {h}][q] =
          IF q = r THEN [v[q] EXCEPT !.deregister = @ \cup {h}] ELSE v[q]
    BY <2>1
  <2>4. \A q \in Recorders :
          LET e == [v[q] EXCEPT !.deregister = @ \cup {h}]
          IN  e.callbacks = v[q].callbacks /\ e.deregister = v[q].deregister \cup {h} /\ e.cursor = v[q].cursor
    BY <2>1 DEF RecorderType
  <2> QED BY <2>1, <2>2, <2>3, <2>4 DEF v
<1>8. AllDropped(rs2)
  <2> SUFFICES ASSUME NEW q \in Recorders
               PROVE  /\ rs2[q].callbacks \subseteq rs2[q].deregister
                      /\ \A g \in rs2[q].deregister : g < rs2[q].cursor
    BY DEF AllDropped
  <2>1. /\ \A g \in recorders[q].callbacks : g \in Handlers
        /\ \A g \in recorders[q].deregister : g \in Nat
        /\ recorders[q].cursor \in Nat
    BY HandlersAssumption DEF IInv, TypeOK, RecorderType
  <2>2. /\ \A g \in recorders[q].callbacks :
              (Running(g) /\ handlers[g].recorder = q) \/ g \in recorders[q].deregister
        /\ \A g \in recorders[q].deregister : g < recorders[q].cursor
    BY DEF IInv, RegistrationsAccounted
  <2> HIDE DEF rs2
  <2>3. CASE q = r
    <3>1. rs2[q].callbacks \subseteq rs2[q].deregister BY <1>2, <1>7, <2>1, <2>2, <2>3
    <3>2. rs2[q].deregister = recorders[q].deregister \cup {h} /\ rs2[q].cursor = h + 1
      BY <1>7, <2>3
    <3>3. recorders[q].cursor <= h /\ h \in Nat BY <1>3, <2>3
    <3>4. \A g \in recorders[q].deregister : g < h + 1 BY <2>1, <2>2, <3>3
    <3> QED BY <3>1, <3>2, <3>3, <3>4
  <2>4. CASE q # r BY <1>2, <1>3, <1>7, <2>1, <2>2, <2>4
  <2> QED BY <2>3, <2>4
<1>9. Finish(TRUE, hs2, rs2)
  BY <1>3 DEF Settles, DoneDelayed, IsSuccess
<1> HIDE DEF hs2, rs2
<1> QED BY <1>2, <1>6, <1>7, <1>8, <1>9, FinishKeeps

-----------------------------------------------------------------------------
IsInside(hd) == hd.expiring # "no" \/ hd.answer # "no"

\* A step that changes one handler and at most moves a recorder along its map keeps
\* the invariant, if the handler stays in the same execution, stays running or
\* idle, stays watched, and enters a callback only when all is quiet.
LEMMA HandlerStepKeeps ==
    ASSUME IInv, UNCHANGED monitorVars, NEW h \in Handlers, NEW hd \in HandlerType,
           handlers' = [handlers EXCEPT ![h] = hd],
           recorders' \in [Recorders -> RecorderType],
           \A r \in Recorders : /\ recorders'[r].callbacks = recorders[r].callbacks
                                /\ recorders'[r].deregister = recorders[r].deregister
                                /\ recorders'[r].cursor >= recorders[r].cursor
                                /\ Iterating(r)' <=> Iterating(r),
           hd.recorded.exec = handlers[h].recorded.exec, hd.recorder = handlers[h].recorder,
           hd.state \in Active <=> Running(h),
           Running(h) <=> hd.timer \/ IsInside(hd),
           IsInside(hd) => /\ Quiet \/ Inside(h)
                           /\ hd.expiring = "no" \/ hd.answer = "no"
    PROVE  IInv'
<1>1. /\ handlers' \in [Handlers -> HandlerType] /\ handlers'[h] = hd
      /\ \A g \in Handlers : g # h => handlers'[g] = handlers[g]
  BY DEF IInv, TypeOK
<1>2. SlotType' = SlotType /\ HandlerType' = HandlerType
  BY DEF SlotType, HandlerType, Trajectory, monitorVars
<1>3. TypeOK' BY <1>1, <1>2 DEF IInv, TypeOK, monitorVars, RecorderType
<1>4. \A g \in Handlers : /\ Running(g)' <=> Running(g)
                          /\ handlers'[g].recorder = handlers[g].recorder
                          /\ handlers'[g].recorded.exec = handlers[g].recorded.exec
                          /\ handlers'[g].timer \/ Inside(g)' <=> handlers[g].timer \/ Inside(g)
  <2>1. Running(h) <=> handlers[h].timer \/ Inside(h)
    BY DEF IInv, RunningIsReady, BusyIsWatched, OnlyLastRuns
  <2> QED BY <1>1, <2>1 DEF Running, Inside, IsInside
<1>5. Busy' <=> Busy BY DEF Busy, monitorVars
<1>6. OnlyLastRuns' /\ BusyIsWatched'
  BY <1>4, <1>5 DEF IInv, OnlyLastRuns, BusyIsWatched, monitorVars
<1>7. ResultsAccountForBatch' /\ SlotHoldsOwnRecording'
  BY <1>5 DEF IInv, ResultsAccountForBatch, SlotHoldsOwnRecording, monitorVars
<1>8. OneCallback'
  <2> SUFFICES ASSUME NEW g \in Handlers, Inside(g)'
               PROVE  /\ \A f \in Handlers : Inside(f)' => f = g
                      /\ \A r \in Recorders : ~Iterating(r)'
                      /\ handlers'[g].expiring = "no" \/ handlers'[g].answer = "no"
    BY DEF OneCallback
  <2>1. CASE IsInside(hd)
    <3>1. /\ \A f \in Handlers : f # h => ~Inside(f)
          /\ \A r \in Recorders : ~Iterating(r)
      BY <2>1 DEF IInv, OneCallback, Quiet
    <3>2. \A f \in Handlers : f # h => ~Inside(f)' BY <1>1, <3>1 DEF Inside
    <3> QED BY <1>1, <2>1, <3>1, <3>2
  <2>2. CASE ~IsInside(hd)
    <3>1. ~Inside(h)' BY <1>1, <2>2 DEF IsInside, Inside
    <3>2. g # h /\ Inside(g) /\ handlers'[g] = handlers[g] BY <1>1, <3>1 DEF Inside
    <3>3. \A f \in Handlers : Inside(f)' => Inside(f) BY <1>1, <3>1 DEF Inside
    <3> QED BY <3>2, <3>3 DEF IInv, OneCallback
  <2> QED BY <2>1, <2>2
<1>9. RunningIsReady' BY <1>4 DEF IInv, RunningIsReady
<1>10. NewestSlotRuns'
  BY <1>4, <1>5 DEF IInv, NewestSlotRuns, BusyIsWatched, monitorVars
<1>11. RegistrationsAccounted'
  <2> SUFFICES ASSUME NEW r \in Recorders
               PROVE  /\ \A g \in recorders'[r].callbacks :
                            (Running(g)' /\ handlers'[g].recorder = r) \/ g \in recorders'[r].deregister
                      /\ \A g \in recorders'[r].deregister : g < recorders'[r].cursor
    BY DEF RegistrationsAccounted
  <2>1. /\ recorders[r].callbacks \subseteq Handlers /\ recorders[r].deregister \subseteq Nat
        /\ recorders[r].cursor \in Nat /\ recorders'[r].cursor \in Nat
    BY HandlersAssumption DEF IInv, TypeOK, RecorderType
  <2>2. \A g \in recorders[r].callbacks : (Running(g) /\ handlers[g].recorder = r) \/ g \in recorders[r].deregister
    BY DEF IInv, RegistrationsAccounted
  <2>3. \A g \in recorders[r].deregister : g < recorders[r].cursor
    BY DEF IInv, RegistrationsAccounted
  <2>4. \A g \in recorders'[r].deregister : g < recorders'[r].cursor
    <3>1. recorders'[r].cursor >= recorders[r].cursor OBVIOUS
    <3> QED BY <2>1, <2>3, <3>1
  <2> QED BY <1>4, <2>1, <2>2, <2>4
<1> QED BY <1>3, <1>6, <1>7, <1>8, <1>9, <1>10, <1>11 DEF IInv

LEMMA InitEstablishes ==
    ASSUME Init
    PROVE  IInv
<1>1. TypeOK
  BY DEF Init, TypeOK, HandlerType, RecorderType, Trajectory, NoTrajectory
<1>2. ~Busy BY DEF Init, Busy
<1>3. \A h \in Handlers : ~Running(h) /\ ~Inside(h) /\ ~handlers[h].timer
  BY DEF Init, Running, Active, Inside
<1>4. ResultsAccountForBatch /\ SlotHoldsOwnRecording
  BY <1>2 DEF Init, ResultsAccountForBatch, SlotHoldsOwnRecording
<1>5. RegistrationsAccounted BY DEF Init, RegistrationsAccounted
<1> QED BY <1>1, <1>2, <1>3, <1>4, <1>5
        DEF IInv, OnlyLastRuns, BusyIsWatched, OneCallback, RunningIsReady, NewestSlotRuns

LEMMA ExecuteKeeps ==
    ASSUME IInv, NEW b \in Batches, ExecuteTrajectories(b)
    PROVE  IInv'
<1>1. ~Busy /\ batch' = b /\ idx' = 1 /\ Send(b[1], handlers, recorders, <<>>, 0)
  BY DEF ExecuteTrajectories
<1>2. b \in Seq(Requests) /\ Len(b) \in Nat \ {0} BY RequestOfBatch
<1>3. /\ handlers \in [Handlers -> HandlerType] /\ recorders \in [Recorders -> RecorderType]
      /\ execs \in Nat /\ last \in Handlers \cup {0}
  BY DEF IInv, TypeOK
<1>4. \A h \in Handlers : ~Running(h) /\ ~Inside(h) /\ ~handlers[h].timer
  BY <1>1 DEF IInv, OnlyLastRuns, RunningIsReady
<1>5. AllIdle(handlers)
  BY <1>3, <1>4, NotRunningIsIdle DEF IInv, AllIdle, Inside, HandlerType
<1>6. AllDropped(recorders)
  BY <1>3, <1>4 DEF IInv, RegistrationsAccounted, AllDropped, RecorderType
<1>7. /\ <<>> \in Seq(SlotType) /\ Len(<<>>) = 0 /\ 1 <= Len(batch') /\ idx' = Len(<<>>) + 1
      /\ b[1] = batch'[idx'] /\ batch' \in Batches
  BY <1>1, <1>2
<1>8. \A i \in 1..Len(<<>>) : <<>>[i].code \in GoOn /\ <<>>[i].recorded.exec = <<>>[i].exec
  BY <1>7
<1> DEFINE out == <<>>
<1> HIDE DEF out
<1>9. out \in Seq(SlotType) /\ idx' = Len(out) + 1 /\ Send(b[1], handlers, recorders, out, 0)
      /\ \A i \in 1..Len(out) : out[i].code \in GoOn /\ out[i].recorded.exec = out[i].exec
  BY <1>1, <1>7, <1>8 DEF out
<1>10. idx' <= Len(batch') BY <1>1, <1>2
<1> QED BY <1>3, <1>5, <1>6, <1>7, <1>9, <1>10, SendKeeps

LEMMA TimerFiresKeeps ==
    ASSUME ~Concurrent, IInv, NEW h \in Handlers, TimerFires(h)
    PROVE  IInv'
<1> DEFINE hd == [handlers[h] EXCEPT !.timer = FALSE, !.expiring =
                      CASE handlers[h].state = "OVERSHOOTING" -> "OVERSHOOT_TIMEOUT"
                        [] handlers[h].state = "EXECUTING" -> "EXECUTION_TIMEOUT"
                        [] OTHER -> "no"]
<1>1. handlers[h] \in HandlerType /\ recorders \in [Recorders -> RecorderType]
  BY DEF IInv, TypeOK
<1>2. Quiet /\ handlers[h].timer /\ UNCHANGED monitorVars /\ recorders' = recorders
      /\ handlers' = [handlers EXCEPT ![h] = hd]
  BY DEF TimerFires, MayEnter
<1>3. Running(h) BY <1>2 DEF IInv, RunningIsReady
<1>4. /\ hd \in HandlerType /\ hd.expiring # "no" /\ hd.answer = "no" /\ hd.timer = FALSE
      /\ hd.recorded = handlers[h].recorded /\ hd.recorder = handlers[h].recorder
      /\ hd.state = handlers[h].state
  BY <1>1, <1>2, <1>3 DEF HandlerType, Running, Active, Quiet, Inside
<1>5. \A r \in Recorders : /\ recorders'[r] = recorders[r] /\ recorders'[r].cursor >= recorders[r].cursor
                           /\ Iterating(r)' <=> Iterating(r)
  BY <1>1, <1>2 DEF RecorderType, Iterating
<1>6. IsInside(hd) /\ (hd.state \in Active <=> Running(h)) BY <1>4 DEF IsInside, Running
<1> HIDE DEF hd
<1> QED BY <1>1, <1>2, <1>3, <1>4, <1>5, <1>6, HandlerStepKeeps

LEMMA ControllerAnswersKeeps ==
    ASSUME ~Concurrent, IInv, NEW h \in Handlers, ControllerAnswers(h)
    PROVE  IInv'
<1>1. handlers[h] \in HandlerType /\ recorders \in [Recorders -> RecorderType]
  BY DEF IInv, TypeOK
<1>2. PICK state \in {"SUCCESS", "EXECUTION_FAILURE"} :
        handlers' = [handlers EXCEPT ![h].goal = FALSE,
                       ![h].answer = IF handlers[h].state \in Active THEN state ELSE "no"]
  BY DEF ControllerAnswers
<1> DEFINE hd == [handlers[h] EXCEPT !.goal = FALSE,
                      !.answer = IF handlers[h].state \in Active THEN state ELSE "no"]
<1>3. Quiet /\ UNCHANGED monitorVars /\ recorders' = recorders
      /\ handlers' = [handlers EXCEPT ![h] = hd]
  BY <1>2 DEF ControllerAnswers, MayEnter
<1>4. /\ hd \in HandlerType /\ hd.expiring = "no" /\ hd.timer = handlers[h].timer
      /\ hd.answer # "no" <=> Running(h)
      /\ hd.recorded = handlers[h].recorded /\ hd.recorder = handlers[h].recorder
      /\ hd.state = handlers[h].state
  BY <1>1, <1>3 DEF HandlerType, Running, Quiet, Inside
<1>5. Running(h) <=> hd.timer \/ IsInside(hd)
  BY <1>4 DEF IInv, RunningIsReady, IsInside
<1>6. \A r \in Recorders : /\ recorders'[r] = recorders[r] /\ recorders'[r].cursor >= recorders[r].cursor
                           /\ Iterating(r)' <=> Iterating(r)
  BY <1>1, <1>3 DEF RecorderType, Iterating
<1> HIDE DEF hd
<1> QED BY <1>1, <1>3, <1>4, <1>5, <1>6, HandlerStepKeeps DEF Running

LEMMA OvershootBeginsKeeps ==
    ASSUME IInv, NEW h \in Handlers, OvershootBegins(h)
    PROVE  IInv'
<1> DEFINE hd == [handlers[h] EXCEPT !.state = "OVERSHOOTING", !.timer = TRUE, !.answer = "no",
                                     !.overshot = Cleared(handlers[h].recorded.exec)]
<1>1. handlers[h] \in HandlerType /\ recorders \in [Recorders -> RecorderType]
  BY DEF IInv, TypeOK
<1>2. UNCHANGED monitorVars /\ recorders' = recorders /\ handlers' = [handlers EXCEPT ![h] = hd]
  BY DEF OvershootBegins
<1>3. Inside(h) /\ Running(h) /\ handlers[h].expiring = "no"
  BY DEF OvershootBegins, Watches, TimerCanStop, Inside, IInv, RunningIsReady
<1>4. /\ hd \in HandlerType /\ hd.expiring = "no" /\ hd.answer = "no" /\ hd.timer = TRUE
      /\ hd.recorded = handlers[h].recorded /\ hd.recorder = handlers[h].recorder
      /\ hd.state = "OVERSHOOTING"
  BY <1>1, <1>3 DEF HandlerType, Active, Cleared, Trajectory
<1>5. \A r \in Recorders : /\ recorders'[r] = recorders[r] /\ recorders'[r].cursor >= recorders[r].cursor
                           /\ Iterating(r)' <=> Iterating(r)
  BY <1>1, <1>2 DEF RecorderType, Iterating
<1> HIDE DEF hd
<1> QED BY <1>1, <1>2, <1>3, <1>4, <1>5, HandlerStepKeeps DEF IsInside, Active

LEMMA TimerActsKeeps ==
    ASSUME IInv, NEW h \in Handlers, TimerActs(h)
    PROVE  IInv'
<1> DEFINE hs == [handlers EXCEPT ![h].expiring = "no"]
<1>1. handlers[h].expiring # "no" /\ Done(h, hs, handlers[h].expiring) BY DEF TimerActs
<1>2. Inside(h) /\ handlers[h].answer = "no" BY <1>1 DEF Inside, IInv, OneCallback
<1>3. /\ hs \in [Handlers -> HandlerType] /\ hs[h].expiring = "no" /\ hs[h].answer = "no"
      /\ hs[h].recorded = handlers[h].recorded
      /\ \A g \in Handlers : g # h => hs[g] = handlers[g]
  BY <1>2 DEF IInv, TypeOK, HandlerType
<1> HIDE DEF hs
<1> QED BY <1>1, <1>2, <1>3, DoneKeeps

LEMMA AnswerActsKeeps ==
    ASSUME IInv, NEW h \in Handlers, AnswerActs(h)
    PROVE  IInv'
<1> DEFINE hs == [handlers EXCEPT ![h].answer = "no"]
<1>1. handlers[h].answer # "no" /\ handlers[h].expiring = "no" /\ Done(h, hs, handlers[h].answer)
  BY DEF AnswerActs, TimerCanStop
<1>2. Inside(h) BY <1>1 DEF Inside
<1>3. /\ hs \in [Handlers -> HandlerType] /\ hs[h].expiring = "no" /\ hs[h].answer = "no"
      /\ hs[h].recorded = handlers[h].recorded
      /\ \A g \in Handlers : g # h => hs[g] = handlers[g]
  BY <1>1 DEF IInv, TypeOK, HandlerType
<1> HIDE DEF hs
<1> QED BY <1>1, <1>2, <1>3, DoneKeeps

LEMMA RecordsKeeps ==
    ASSUME IInv, NEW r \in Recorders, NEW h \in Handlers, Records(r, h)
    PROVE  IInv'
<1>1. PICK some \in BOOLEAN :
        handlers' = CASE handlers[h].state = "EXECUTING" -> [handlers EXCEPT ![h].recorded.some = @ \/ some]
                      [] handlers[h].state = "OVERSHOOTING" -> [handlers EXCEPT ![h].overshot.some = @ \/ some]
                      [] OTHER -> handlers
  BY DEF Records
<1> DEFINE hd == CASE handlers[h].state = "EXECUTING" -> [handlers[h] EXCEPT !.recorded.some = @ \/ some]
                   [] handlers[h].state = "OVERSHOOTING" -> [handlers[h] EXCEPT !.overshot.some = @ \/ some]
                   [] OTHER -> handlers[h]
<1>2. handlers \in [Handlers -> HandlerType] /\ handlers[h] \in HandlerType
  BY DEF IInv, TypeOK
<1>3. UNCHANGED monitorVars /\ recorders' = Visited(r, h) /\ IsNext(r, h) /\ Iterating(r)
  BY DEF Records, IsNext
<1>4. handlers[h].state \in {"IDLE", "EXECUTING", "OVERSHOOTING"} BY <1>2 DEF HandlerType, Active
<1>5. handlers' = [handlers EXCEPT ![h] = hd]
  <2>1. CASE handlers[h].state = "EXECUTING" BY <1>1, <1>2, <2>1
  <2>2. CASE handlers[h].state = "OVERSHOOTING" BY <1>1, <1>2, <2>2
  <2>3. CASE handlers[h].state = "IDLE" BY <1>1, <1>2, <2>3
  <2> QED BY <1>4, <2>1, <2>2, <2>3
<1>6. \A t \in Trajectory : [t EXCEPT !.some = @ \/ some] \in Trajectory
  <2> SUFFICES ASSUME NEW t \in Trajectory PROVE [t EXCEPT !.some = @ \/ some] \in Trajectory
    OBVIOUS
  <2>1. [t EXCEPT !.some = @ \/ some] = [exec |-> t.exec, some |-> t.some \/ some] BY DEF Trajectory
  <2>2. (t.some \/ some) \in BOOLEAN OBVIOUS
  <2> QED BY <2>1, <2>2 DEF Trajectory
<1>7. /\ hd \in HandlerType /\ hd.expiring = handlers[h].expiring /\ hd.answer = handlers[h].answer
      /\ hd.timer = handlers[h].timer /\ hd.state = handlers[h].state
      /\ hd.recorder = handlers[h].recorder /\ hd.recorded.exec = handlers[h].recorded.exec
  <2>1. CASE handlers[h].state = "EXECUTING" BY <1>2, <1>6, <2>1 DEF HandlerType, Trajectory
  <2>2. CASE handlers[h].state = "OVERSHOOTING" BY <1>2, <1>6, <2>2 DEF HandlerType, Trajectory
  <2>3. CASE handlers[h].state = "IDLE" BY <1>2, <2>3
  <2> QED BY <1>4, <2>1, <2>2, <2>3
<1>8. /\ recorders' \in [Recorders -> RecorderType]
      /\ \A q \in Recorders : /\ recorders'[q].callbacks = recorders[q].callbacks
                              /\ recorders'[q].deregister = recorders[q].deregister
                              /\ recorders'[q].cursor >= recorders[q].cursor
                              /\ Iterating(q)' <=> Iterating(q)
      /\ ~Inside(h)
  <2>1. \A q \in Recorders : recorders[q].cursor \in Nat BY DEF IInv, TypeOK, RecorderType
  <2> QED BY <1>3, <2>1, VisitFacts DEF Iterating
<1>9. ~IsInside(hd) /\ (Running(h) <=> hd.timer) /\ (hd.state \in Active <=> Running(h))
  BY <1>7, <1>8 DEF IsInside, Inside, Running, IInv, RunningIsReady, BusyIsWatched, OnlyLastRuns
<1> HIDE DEF hd
<1> QED BY <1>3, <1>5, <1>7, <1>8, <1>9, HandlerStepKeeps

\* A step that changes recorders only keeps the invariant, if their registrations
\* stay accounted for and none starts to iterate while a callback is inside.
LEMMA RecorderStepKeeps ==
    ASSUME IInv, UNCHANGED <<monitorVars, handlers>>,
           recorders' \in [Recorders -> RecorderType], RegistrationsAccounted',
           \A r \in Recorders : Iterating(r)' => Quiet \/ Iterating(r)
    PROVE  IInv'
<1>1. SlotType' = SlotType /\ HandlerType' = HandlerType
  BY DEF SlotType, HandlerType, Trajectory, monitorVars
<1>2. TypeOK' BY <1>1 DEF IInv, TypeOK, monitorVars, RecorderType
<1>3. \A h \in Handlers : /\ Running(h)' <=> Running(h)
                          /\ Inside(h)' <=> Inside(h)
  BY DEF Running, Inside
<1>4. Busy' <=> Busy BY DEF Busy, monitorVars
<1>5. OnlyLastRuns' /\ BusyIsWatched' /\ RunningIsReady'
  BY <1>3, <1>4 DEF IInv, OnlyLastRuns, BusyIsWatched, RunningIsReady, monitorVars
<1>6. ResultsAccountForBatch' /\ SlotHoldsOwnRecording' /\ NewestSlotRuns'
  BY <1>4 DEF IInv, ResultsAccountForBatch, SlotHoldsOwnRecording, NewestSlotRuns, monitorVars
<1>7. OneCallback' BY <1>3 DEF IInv, OneCallback, Quiet
<1> QED BY <1>2, <1>5, <1>6, <1>7 DEF IInv

LEMMA PassBeginsKeeps ==
    ASSUME ~Concurrent, IInv, NEW r \in Recorders, PassBegins(r)
    PROVE  IInv'
<1>1. /\ Quiet /\ UNCHANGED <<monitorVars, handlers>>
      /\ recorders' = [recorders EXCEPT ![r].cursor = 1]
  BY DEF PassBegins, MayEnter
<1>2. recorders \in [Recorders -> RecorderType] BY DEF IInv, TypeOK
<1>3. /\ recorders' \in [Recorders -> RecorderType]
      /\ \A q \in Recorders : /\ recorders'[q].callbacks = recorders[q].callbacks
                              /\ recorders'[q].deregister = recorders[q].deregister
  BY <1>1, <1>2 DEF RecorderType
<1>4. \A q \in Recorders : recorders[q].deregister = {}
  BY <1>1, <1>2, HandlersAssumption DEF IInv, RegistrationsAccounted, RecorderType, Quiet, Iterating
<1>5. RegistrationsAccounted'
  BY <1>1, <1>3, <1>4 DEF IInv, RegistrationsAccounted, Running
<1> QED BY <1>1, <1>3, <1>5, RecorderStepKeeps

LEMMA PassEndsKeeps ==
    ASSUME IInv, NEW r \in Recorders, PassEnds(r)
    PROVE  IInv'
<1>1. /\ UNCHANGED <<monitorVars, handlers>>
      /\ recorders' = [recorders EXCEPT ![r] =
                         [callbacks |-> @.callbacks \ @.deregister, deregister |-> {}, cursor |-> 0]]
  BY DEF PassEnds
<1>2. recorders \in [Recorders -> RecorderType] BY DEF IInv, TypeOK
<1>3. /\ recorders' \in [Recorders -> RecorderType]
      /\ \A q \in Recorders : q # r => recorders'[q] = recorders[q]
      /\ recorders'[r].callbacks = recorders[r].callbacks \ recorders[r].deregister
      /\ recorders'[r].deregister = {} /\ recorders'[r].cursor = 0
  BY <1>1, <1>2 DEF RecorderType
<1>4. RegistrationsAccounted'
  BY <1>1, <1>3 DEF IInv, RegistrationsAccounted, Running
<1>5. \A q \in Recorders : Iterating(q)' => Iterating(q) BY <1>3 DEF Iterating
<1> QED BY <1>1, <1>3, <1>4, <1>5, RecorderStepKeeps

-----------------------------------------------------------------------------
\* The invariant is inductive when callbacks do not overlap.
LEMMA NextKeeps ==
    ASSUME ~Concurrent, IInv, [Next]_vars
    PROVE  IInv'
<1>1. CASE UNCHANGED vars
  <2>1. SlotType' = SlotType /\ HandlerType' = HandlerType
    BY <1>1 DEF vars, SlotType, HandlerType, Trajectory
  <2> QED BY <1>1, <2>1 DEF vars, IInv, TypeOK, RecorderType, OnlyLastRuns, BusyIsWatched,
             ResultsAccountForBatch, SlotHoldsOwnRecording, OneCallback, RunningIsReady,
             NewestSlotRuns, RegistrationsAccounted, Busy, Running, Inside, Iterating
<1>2. ASSUME NEW b \in Batches, ExecuteTrajectories(b) PROVE IInv' BY <1>2, ExecuteKeeps
<1>3. ASSUME NEW h \in Handlers, TimerFires(h) PROVE IInv' BY <1>3, TimerFiresKeeps
<1>4. ASSUME NEW h \in Handlers, TimerActs(h) PROVE IInv' BY <1>4, TimerActsKeeps
<1>5. ASSUME NEW h \in Handlers, ControllerAnswers(h) PROVE IInv' BY <1>5, ControllerAnswersKeeps
<1>6. ASSUME NEW h \in Handlers, OvershootBegins(h) PROVE IInv' BY <1>6, OvershootBeginsKeeps
<1>7. ASSUME NEW h \in Handlers, AnswerActs(h) PROVE IInv' BY <1>7, AnswerActsKeeps
<1>8. ASSUME NEW r \in Recorders, PassBegins(r) PROVE IInv' BY <1>8, PassBeginsKeeps
<1>9. ASSUME NEW r \in Recorders, PassEnds(r) PROVE IInv' BY <1>9, PassEndsKeeps
<1>10. ASSUME NEW r \in Recorders, NEW h \in Handlers, Settles(r, h) PROVE IInv' BY <1>10, SettlesKeeps
<1>11. ASSUME NEW r \in Recorders, NEW h \in Handlers, Records(r, h) PROVE IInv' BY <1>11, RecordsKeeps
<1> QED BY <1>1, <1>2, <1>3, <1>4, <1>5, <1>6, <1>7, <1>8, <1>9, <1>10, <1>11 DEF Next

\* The strengthened invariant holds in every behaviour without overlapping callbacks.
THEOREM Invariance == ASSUME ~Concurrent PROVE Spec => []IInv
<1>1. Init => IInv BY InitEstablishes
<1>2. IInv /\ [Next]_vars => IInv' BY NextKeeps
<1> QED BY <1>1, <1>2, PTL DEF Spec

\* The variables keep their types.
THEOREM TypeCorrect == ASSUME ~Concurrent PROVE Spec => []TypeOK
BY Invariance, PTL DEF IInv

\* done() and doneDelayed() leave no registration behind.
THEOREM NothingLeftRegistered == ASSUME ~Concurrent PROVE Spec => []OnlyRunningRegistered
<1>1. ASSUME IInv PROVE OnlyRunningRegistered
  <2>1. \A r \in Recorders : ~Iterating(r) => recorders[r].deregister = {}
    <3> SUFFICES ASSUME NEW r \in Recorders, ~Iterating(r) PROVE recorders[r].deregister = {}
      OBVIOUS
    <3>1. recorders[r].deregister \subseteq Nat \ {0}
      BY <1>1, HandlersAssumption DEF IInv, TypeOK, RecorderType
    <3>2. \A h \in recorders[r].deregister : h < 0
      BY <1>1 DEF IInv, RegistrationsAccounted, Iterating
    <3> QED BY <3>1, <3>2
  <2> QED BY <1>1, <2>1 DEF IInv, RegistrationsAccounted, OnlyRunningRegistered
<1> QED BY <1>1, Invariance, PTL

-----------------------------------------------------------------------------
(* What a slot holds *)

\* Among the first n slots of out, answers to the requests of b: those whose overshoot
\* handler h watched to its end.
WatchedBy(h, out, b, n) ==
    {j \in 1..n : b[j].handler = h /\ out[j].code = "SUCCEEDED" /\ b[j].overshoot /\ h \notin Grippers}

\* Execution e is the last of them, or one from before this batch if there is none.
LastWatched(e, h, out, b, n) ==
    /\ \A j \in WatchedBy(h, out, b, n) : out[j].exec <= e
    /\ e < out[1].exec \/ \E j \in WatchedBy(h, out, b, n) : e = out[j].exec

\* Slots hold what their handler overshot last; where they say SUCCEEDED the handler's
\* controller owes no answer.
SlotsOwned(hs, out, b) ==
    \A i \in 1..Len(out) :
        /\ out[i].code \in GoOn \cup {"HANDLER_REPORTS_FAILURE"} =>
              LastWatched(out[i].overshot.exec, b[i].handler, out, b, i)
        /\ \A h \in Handlers : hs[h].recorded.exec = out[i].exec /\ hs[h].goal => out[i].code # "SUCCEEDED"

\* Handlers that do not overshoot now hold what they overshot last.
HandlersHold(hs, out, b, n) ==
    \A h \in Handlers : hs[h].state # "OVERSHOOTING" => LastWatched(hs[h].overshot.exec, h, out, b, n)

\* An overshoot is watched after the controller's answer and for the execution that was
\* asked to be watched; a callback past its test finds the state it tested.
StateTested(h, hd) ==
    /\ hd.state = "OVERSHOOTING" =>
          hd.overshot.exec = hd.recorded.exec /\ ~hd.goal /\ hd.overshoot /\ h \notin Grippers
    /\ hd.expiring = "OVERSHOOT_TIMEOUT" => hd.state = "OVERSHOOTING"
    /\ hd.expiring = "EXECUTION_TIMEOUT" => hd.state = "EXECUTING"
    /\ hd.answer # "no" => hd.state = "EXECUTING" /\ ~hd.goal

OvershootOwned ==
    /\ SlotsOwned(handlers, results, batch)
    /\ \A h \in Handlers : StateTested(h, handlers[h])
    /\ Busy => /\ last = batch[idx].handler /\ handlers[last].overshoot = batch[idx].overshoot
               /\ \A h \in Handlers : h # last => handlers[h].recorded.exec < execs
               /\ HandlersHold(handlers, results, batch, Len(results) - 1)

\* The slots an execution is compared with are those up to n, and the first.
LEMMA LastWatchedSame ==
    ASSUME NEW e, NEW h, NEW b, NEW c, NEW out, NEW out2, NEW n \in Nat, out2[1].exec = out[1].exec,
           \A j \in 1..n : c[j] = b[j] /\ out2[j].code = out[j].code /\ out2[j].exec = out[j].exec,
           LastWatched(e, h, out, b, n)
    PROVE  LastWatched(e, h, out2, c, n)
<1>1. WatchedBy(h, out2, c, n) = WatchedBy(h, out, b, n) BY DEF WatchedBy
<1>2. WatchedBy(h, out, b, n) \subseteq 1..n BY DEF WatchedBy
<1> QED BY <1>1, <1>2 DEF LastWatched

\* sendTrajectory opens a slot without a code, and starts the next request's handler as
\* that request says.
LEMMA SendOwns ==
    ASSUME NEW req, NEW hs \in [Handlers -> HandlerType], NEW rs, NEW out \in Seq(SlotType),
           execs \in Nat, AllIdle(hs), batch' \in Batches, idx' = Len(out) + 1, idx' <= Len(batch'),
           SlotsOwned(hs, out, batch'), out # <<>> => HandlersHold(hs, out, batch', Len(out)),
           req = batch'[idx'], Send(req, hs, rs, out, 0)
    PROVE  OvershootOwned'
<1> DEFINE n == Len(out)
<1>1. \A h \in Handlers : /\ hs[h].state = "IDLE" /\ hs[h].expiring = "no" /\ hs[h].answer = "no"
                          /\ hs[h].overshot.exec \in 0..execs /\ hs[h].recorded.exec \in 0..execs
  BY DEF AllIdle, HandlerType, Trajectory
<1>2. n \in Nat /\ \A i \in 1..n : out[i].exec \in 0..execs
  <2>1. n \in Nat /\ \A i \in 1..n : out[i] \in SlotType OBVIOUS
  <2>2. \A sl \in SlotType : sl.exec \in 0..execs BY DEF SlotType
  <2> QED BY <2>1, <2>2
<1>3. ASSUME NEW code \in {"NOT_ATTEMPTED", "NO_RECORDER", "NO_HANDLER"}, NEW e,
             results' = Append(out, Slot(code, e)),
             \A h \in Handlers : \/ handlers'[h].goal = hs[h].goal /\ handlers'[h].recorded = hs[h].recorded
                                 \/ handlers'[h].recorded.exec = execs + 1
      PROVE  /\ Len(results') = n + 1 /\ results'[n + 1].exec = e
             /\ \A i \in 1..n : results'[i] = out[i]
             /\ SlotsOwned(handlers, results, batch)'
  <2>1. /\ Len(results') = n + 1 /\ results'[n + 1] = Slot(code, e)
        /\ \A i \in 1..n : results'[i] = out[i]
    BY <1>3
  <2>2. results'[n + 1].code = code /\ results'[n + 1].exec = e BY <2>1 DEF Slot
  <2>3. ASSUME NEW i \in 1..(n + 1), results'[i].code \in GoOn \cup {"HANDLER_REPORTS_FAILURE"}
        PROVE  LastWatched(results'[i].overshot.exec, batch'[i].handler, results', batch', i)
    <3>1. i \in 1..n BY <2>2, <2>3, <1>2 DEF GoOn
    <3>2. LastWatched(out[i].overshot.exec, batch'[i].handler, out, batch', i)
      BY <2>1, <2>3, <3>1 DEF SlotsOwned
    <3>3. /\ results'[1].exec = out[1].exec
          /\ \A j \in 1..i : results'[j].code = out[j].code /\ results'[j].exec = out[j].exec
      <4>1. 1 \in 1..n /\ \A j \in 1..i : j \in 1..n BY <1>2, <3>1
      <4>2. \A j \in 1..n : results'[j] = out[j] BY <2>1
      <4> HIDE DEF n
      <4> QED BY <4>1, <4>2
    <3>4. LastWatched(out[i].overshot.exec, batch'[i].handler, results', batch', i)
      BY <3>1, <3>2, <3>3, LastWatchedSame
    <3> QED BY <2>1, <3>1, <3>4
  <2>4. ASSUME NEW i \in 1..(n + 1), NEW h \in Handlers, handlers'[h].recorded.exec = results'[i].exec,
               handlers'[h].goal
        PROVE  results'[i].code # "SUCCEEDED"
    <3>1. CASE i = n + 1 BY <2>2, <3>1
    <3>2. CASE i \in 1..n
      <4>1. results'[i] = out[i] /\ out[i].exec \in 0..execs BY <1>2, <2>1, <3>2
      <4>2. handlers'[h].recorded.exec # execs + 1 BY <2>4, <4>1
      <4>3. handlers'[h].goal = hs[h].goal /\ handlers'[h].recorded = hs[h].recorded
        BY <1>3, <4>2
      <4> QED BY <2>4, <3>2, <4>1, <4>3 DEF SlotsOwned
    <3> QED BY <1>2, <3>1, <3>2
  <2> QED BY <2>1, <2>2, <2>3, <2>4 DEF SlotsOwned
<1>4. CASE Missing(req) # "nothing"
  <2>1. /\ results' = Append(out, Slot(Missing(req), 0)) /\ reports' = 1 /\ handlers' = hs
    BY <1>4 DEF Send
  <2>2. Missing(req) \in {"NOT_ATTEMPTED", "NO_RECORDER", "NO_HANDLER"} BY <1>4 DEF Missing
  <2>3. SlotsOwned(handlers, results, batch)' BY <1>3, <2>1, <2>2
  <2>4. \A h \in Handlers : StateTested(h, handlers[h])' BY <1>1, <2>1 DEF StateTested
  <2> QED BY <2>1, <2>3, <2>4 DEF OvershootOwned, Busy
<1>5. CASE Missing(req) = "nothing"
  <2> DEFINE h0 == req.handler
  <2>1. /\ results' = Append(out, Slot("NOT_ATTEMPTED", execs + 1)) /\ last' = h0 /\ execs' = execs + 1
        /\ handlers' = [hs EXCEPT ![h0] = Started(@, req, execs + 1)]
    BY <1>5 DEF Send
  <2>2. h0 \in Handlers BY <1>5 DEF Missing
  <2>3. /\ \A h \in Handlers : h # h0 => handlers'[h] = hs[h]
        /\ handlers'[h0].state = "EXECUTING" /\ handlers'[h0].expiring = "no" /\ handlers'[h0].answer = "no"
        /\ handlers'[h0].overshoot = req.overshoot /\ handlers'[h0].overshot = hs[h0].overshot
        /\ handlers'[h0].recorded.exec = execs + 1
    BY <1>1, <2>1, <2>2 DEF Started, HandlerType, Cleared
  <2>4. /\ Len(results') = n + 1 /\ results'[n + 1].exec = execs + 1
        /\ \A i \in 1..n : results'[i] = out[i]
        /\ SlotsOwned(handlers, results, batch)'
    BY <1>3, <2>1, <2>3
  <2>5. \A h \in Handlers : StateTested(h, handlers[h])' BY <1>1, <2>3 DEF StateTested
  <2>6. ASSUME NEW h \in Handlers PROVE LastWatched(hs[h].overshot.exec, h, results', batch', n)
    <3>1. CASE n = 0
      <4>1. WatchedBy(h, results', batch', n) = {} BY <3>1 DEF WatchedBy
      <4>2. hs[h].overshot.exec < results'[1].exec BY <1>1, <2>4, <3>1
      <4> QED BY <4>1, <4>2 DEF LastWatched
    <3>2. CASE n # 0
      <4>1. LastWatched(hs[h].overshot.exec, h, out, batch', n)
        <5>1. out # <<>> BY <3>2
        <5> QED BY <1>1, <5>1 DEF HandlersHold
      <4>2. results'[1].exec = out[1].exec BY <1>2, <2>4, <3>2
      <4>3. \A j \in 1..n : results'[j].code = out[j].code /\ results'[j].exec = out[j].exec BY <2>4
      <4> QED BY <1>2, <4>1, <4>2, <4>3, LastWatchedSame
    <3> QED BY <3>1, <3>2
  <2>7. \A h \in Handlers : handlers'[h].overshot = hs[h].overshot BY <2>3
  <2>8. HandlersHold(handlers, results, batch, Len(results) - 1)'
    <3>1. Len(results') - 1 = n BY <1>2, <2>4
    <3> QED BY <2>6, <2>7, <3>1 DEF HandlersHold
  <2>9. \A h \in Handlers : h # h0 => handlers'[h].recorded.exec < execs' BY <1>1, <2>1, <2>3
  <2> QED BY <2>1, <2>3, <2>4, <2>5, <2>8, <2>9 DEF OvershootOwned
<1> QED BY <1>4, <1>5

\* trajectoryFinishedCallbackFunction puts into the newest slot what the handler overshot
\* last: in this execution, if it went well and was to be watched.
LEMMA FinishOwns ==
    ASSUME IInv, OvershootOwned, Busy, NEW ok \in BOOLEAN,
           NEW hs \in [Handlers -> HandlerType], NEW rs, AllIdle(hs),
           \A h \in Handlers : /\ hs[h].overshot = handlers[h].overshot /\ hs[h].goal = handlers[h].goal
                               /\ hs[h].recorded = handlers[h].recorded,
           ok => ~handlers[last].goal,
           handlers[last].state = "OVERSHOOTING" <=> ok /\ batch[idx].overshoot /\ last \notin Grippers,
           Finish(ok, hs, rs)
    PROVE  OvershootOwned'
<1> DEFINE n == Len(results)
<1>1. PICK code \in Outcomes(ok, hs[last]) :
        /\ batch' = batch
        /\ idx' = IF code \in GoOn THEN idx + 1 ELSE idx
        /\ IF code \in GoOn /\ idx < Len(batch)
           THEN Send(batch[idx + 1], hs, rs, Filled(code, hs[last]), reports)
           ELSE /\ results' = Filled(code, hs[last])
                /\ reports' = reports + 1
                /\ handlers' = hs /\ recorders' = rs
                /\ UNCHANGED <<last, execs>>
  BY DEF Finish
<1>2. /\ batch \in Batches /\ Len(batch) \in Nat /\ reports = 0 /\ execs \in Nat
      /\ results \in Seq(SlotType) /\ idx = n /\ idx \in 1..Len(batch) /\ last \in Handlers
  <2>1. batch \in Batches BY DEF IInv, TypeOK, Busy
  <2> QED BY <2>1, RequestOfBatch
          DEF IInv, TypeOK, Busy, ResultsAccountForBatch, NewestSlotRuns, BusyIsWatched
<1>3. code \in GoOn \cup {"HANDLER_REPORTS_FAILURE"} /\ (code = "SUCCEEDED" <=> ok)
  BY <1>1, <1>2 DEF Outcomes, GoOn
<1> DEFINE out == Filled(code, hs[last])
           lastSlot == [results[n] EXCEPT !.code = code, !.recorded = hs[last].recorded,
                                          !.overshot = hs[last].overshot]
<1>4. /\ lastSlot \in SlotType /\ lastSlot.code = code /\ lastSlot.exec = execs
      /\ results[n].exec = execs /\ lastSlot.overshot = handlers[last].overshot
  <2>1. results[n] \in SlotType /\ results[n].exec = execs BY <1>2 DEF IInv, NewestSlotRuns
  <2>2. hs[last].recorded \in Trajectory /\ hs[last].overshot \in Trajectory BY <1>2 DEF HandlerType
  <2>3. hs[last].overshot = handlers[last].overshot BY <1>2
  <2> QED BY <1>3, <2>1, <2>2, <2>3 DEF SlotType, Codes, Stop
<1>5. out = [results EXCEPT ![n] = lastSlot] BY DEF Filled
<1> HIDE DEF lastSlot, out
<1>6. /\ out \in Seq(SlotType) /\ Len(out) = n /\ out[n] = lastSlot
      /\ \A i \in 1..n : i < n => out[i] = results[i]
  BY <1>2, <1>4, <1>5
<1>7. /\ \A i \in 1..n : out[i].exec = results[i].exec
      /\ \A i \in 1..n : i < n => results[i].exec < execs
      /\ handlers[last].recorded.exec = execs
      /\ handlers[last].overshot.exec \in Nat
  BY <1>2, <1>4, <1>6 DEF IInv, TypeOK, NewestSlotRuns, HandlerType, Trajectory
<1>8. last = batch[n].handler BY <1>2 DEF OvershootOwned
\* Before the newest slot: what the slots before it held, they hold.
<1>9. ASSUME NEW e, NEW h, NEW m \in 1..n, LastWatched(e, h, results, batch, m - 1)
      PROVE  LastWatched(e, h, out, batch, m - 1)
  <2>1. \A j \in 1..(m - 1) : out[j].code = results[j].code /\ out[j].exec = results[j].exec
    BY <1>2, <1>6
  <2>2. out[1].exec = results[1].exec BY <1>2, <1>7
  <2> QED BY <1>9, <2>1, <2>2, LastWatchedSame
\* A slot that is no watched one of h leaves the last one where it was.
<1>10. ASSUME NEW e, NEW h, LastWatched(e, h, out, batch, n - 1), n \notin WatchedBy(h, out, batch, n)
       PROVE  LastWatched(e, h, out, batch, n)
  <2>1. WatchedBy(h, out, batch, n) = WatchedBy(h, out, batch, n - 1)
    BY <1>2, <1>10 DEF WatchedBy
  <2> QED BY <1>10, <2>1 DEF LastWatched
<1>11. LastWatched(handlers[last].overshot.exec, last, out, batch, n)
  <2>1. CASE handlers[last].state = "OVERSHOOTING"
    <3>1. handlers[last].overshot.exec = execs BY <1>2, <1>7, <2>1 DEF OvershootOwned, StateTested
    <3>2. n \in WatchedBy(last, out, batch, n) BY <1>2, <1>3, <1>4, <1>6, <1>8, <2>1 DEF WatchedBy
    <3>3. \A j \in 1..n : out[j].exec <= execs
      <4> SUFFICES ASSUME NEW j \in 1..n PROVE out[j].exec <= execs OBVIOUS
      <4>1. out[j].exec \in Nat
        <5>1. out[j] \in SlotType BY <1>6
        <5> QED BY <1>2, <5>1 DEF SlotType
      <4>2. j < n \/ j = n BY <1>2
      <4> QED BY <1>2, <1>4, <1>6, <1>7, <4>1, <4>2
    <3>4. WatchedBy(last, out, batch, n) \subseteq 1..n BY DEF WatchedBy
    <3>5. out[n].exec = execs BY <1>4, <1>6
    <3> QED BY <3>1, <3>2, <3>3, <3>4, <3>5 DEF LastWatched
  <2>2. CASE handlers[last].state # "OVERSHOOTING"
    <3>1. LastWatched(handlers[last].overshot.exec, last, results, batch, n - 1)
      BY <1>2, <2>2 DEF OvershootOwned, HandlersHold
    <3>2. n \notin WatchedBy(last, out, batch, n)
      BY <1>2, <1>3, <1>4, <1>6, <2>2 DEF WatchedBy
    <3> QED BY <1>2, <1>9, <1>10, <3>1, <3>2
  <2> QED BY <2>1, <2>2
<1>12. ASSUME NEW h \in Handlers PROVE LastWatched(hs[h].overshot.exec, h, out, batch, n)
  <2>1. CASE h = last BY <1>11, <2>1
  <2>2. CASE h # last
    <3>1. handlers[h].state # "OVERSHOOTING"
      BY <2>2 DEF IInv, OnlyLastRuns, Running, Active
    <3>2. LastWatched(handlers[h].overshot.exec, h, results, batch, n - 1)
      BY <3>1 DEF OvershootOwned, HandlersHold
    <3>3. n \notin WatchedBy(h, out, batch, n) BY <1>8, <2>2 DEF WatchedBy
    <3>4. hs[h].overshot = handlers[h].overshot OBVIOUS
    <3> QED BY <1>2, <1>9, <1>10, <3>2, <3>3, <3>4
  <2> QED BY <2>1, <2>2
<1>13. SlotsOwned(hs, out, batch)
  <2> SUFFICES ASSUME NEW i \in 1..n
               PROVE  /\ out[i].code \in GoOn \cup {"HANDLER_REPORTS_FAILURE"} =>
                            LastWatched(out[i].overshot.exec, batch[i].handler, out, batch, i)
                      /\ \A h \in Handlers : hs[h].recorded.exec = out[i].exec /\ hs[h].goal =>
                                                 out[i].code # "SUCCEEDED"
    BY <1>6 DEF SlotsOwned
  <2>1. CASE i = n
    <3>1. out[n].overshot = handlers[last].overshot /\ out[n].code = code /\ out[n].exec = execs
      BY <1>4, <1>6
    <3>2. ASSUME NEW h \in Handlers, hs[h].recorded.exec = execs, hs[h].goal PROVE code # "SUCCEEDED"
      <4>1. handlers[h].recorded.exec = execs BY <3>2
      <4>2. h = last BY <1>2, <4>1 DEF OvershootOwned
      <4> QED BY <1>2, <1>3, <3>2, <4>2
    <3> QED BY <1>8, <1>11, <2>1, <3>1, <3>2
  <2>2. CASE i # n
    <3>1. i < n /\ out[i] = results[i] BY <1>2, <1>6, <2>2
    <3>2. ASSUME results[i].code \in GoOn \cup {"HANDLER_REPORTS_FAILURE"}
          PROVE  LastWatched(results[i].overshot.exec, batch[i].handler, out, batch, i)
      <4>1. LastWatched(results[i].overshot.exec, batch[i].handler, results, batch, i)
        BY <3>2 DEF OvershootOwned, SlotsOwned
      <4>2. i + 1 \in 1..n /\ (i + 1) - 1 = i BY <1>2, <3>1
      <4> QED BY <1>9, <4>1, <4>2
    <3>3. \A h \in Handlers : hs[h].recorded.exec = results[i].exec /\ hs[h].goal =>
                                  results[i].code # "SUCCEEDED"
      BY DEF OvershootOwned, SlotsOwned
    <3> QED BY <3>1, <3>2, <3>3
  <2> QED BY <2>1, <2>2
<1>14. CASE code \in GoOn /\ idx < Len(batch)
  <2>1. /\ batch' \in Batches /\ idx' = Len(out) + 1 /\ idx' <= Len(batch') /\ batch[idx + 1] = batch'[idx']
        /\ Send(batch[idx + 1], hs, rs, out, 0)
    BY <1>1, <1>2, <1>6, <1>14 DEF out
  <2>2. SlotsOwned(hs, out, batch') /\ HandlersHold(hs, out, batch', Len(out))
    BY <1>1, <1>6, <1>12, <1>13 DEF HandlersHold
  <2> QED BY <1>2, <1>6, <2>1, <2>2, SendOwns
<1>15. CASE ~(code \in GoOn /\ idx < Len(batch))
  <2>1. results' = out /\ reports' = 1 /\ handlers' = hs /\ batch' = batch
    BY <1>1, <1>2, <1>15 DEF out
  <2>2. SlotsOwned(handlers, results, batch)' BY <1>13, <2>1 DEF SlotsOwned
  <2>3. \A h \in Handlers : StateTested(h, handlers[h])'
    BY <2>1 DEF AllIdle, StateTested
  <2> QED BY <2>1, <2>2, <2>3 DEF OvershootOwned, Busy
<1> QED BY <1>14, <1>15

\* A step of one handler that leaves the monitor alone: what it overshot stays owned.
LEMMA HandlerStepOwns ==
    ASSUME IInv, OvershootOwned, UNCHANGED monitorVars, NEW h \in Handlers, NEW hd,
           handlers' = [handlers EXCEPT ![h] = hd],
           hd.overshoot = handlers[h].overshoot, hd.goal => handlers[h].goal,
           hd.recorded.exec = handlers[h].recorded.exec,
           StateTested(h, hd),
           hd.state # "OVERSHOOTING" => /\ handlers[h].state # "OVERSHOOTING"
                                        /\ hd.overshot = handlers[h].overshot
    PROVE  OvershootOwned'
<1>1. /\ handlers'[h] = hd /\ \A g \in Handlers : g # h => handlers'[g] = handlers[g]
      /\ Busy' <=> Busy
  BY DEF IInv, TypeOK, Busy, monitorVars
<1>2. results' = results /\ batch' = batch /\ last' = last /\ execs' = execs /\ idx' = idx
  BY DEF monitorVars
<1>3. SlotsOwned(handlers, results, batch)'
  <2>1. \A g \in Handlers : /\ handlers'[g].recorded.exec = handlers[g].recorded.exec
                            /\ handlers'[g].goal => handlers[g].goal
    BY <1>1
  <2> QED BY <1>2, <2>1 DEF OvershootOwned, SlotsOwned
<1>4. \A g \in Handlers : StateTested(g, handlers[g])' BY <1>1 DEF OvershootOwned, StateTested
<1>5. Busy => HandlersHold(handlers, results, batch, Len(results) - 1)'
  BY <1>1, <1>2 DEF OvershootOwned, HandlersHold
<1>6. Busy => last \in Handlers BY DEF IInv, BusyIsWatched
<1>7. Busy => /\ last = batch[idx].handler /\ handlers'[last].overshoot = batch[idx].overshoot
              /\ \A g \in Handlers : g # last => handlers'[g].recorded.exec < execs
  BY <1>1, <1>6 DEF OvershootOwned
<1> QED BY <1>1, <1>2, <1>3, <1>4, <1>5, <1>7 DEF OvershootOwned

\* done() by a callback that is inside: success is the answer to an execution that was not
\* to be watched, or the end of an overshoot.
LEMMA DoneOwns ==
    ASSUME IInv, OvershootOwned, NEW h \in Handlers, TimerActs(h) \/ AnswerActs(h)
    PROVE  OvershootOwned'
<1>1. Inside(h) BY DEF TimerActs, AnswerActs, Inside
<1>2. Running(h) /\ Busy /\ h = last /\ \A g \in Handlers : g # h => ~Inside(g) BY <1>1, InsideFacts
<1>3. handlers[h].expiring = "no" \/ handlers[h].answer = "no" BY <1>1 DEF IInv, OneCallback
<1>4. handlers \in [Handlers -> HandlerType] BY DEF IInv, TypeOK
<1>5. handlers[h].overshoot = batch[idx].overshoot BY <1>2 DEF OvershootOwned
<1>6. StateTested(h, handlers[h]) BY DEF OvershootOwned
<1>7. CASE TimerActs(h)
  <2> DEFINE hs == [handlers EXCEPT ![h].expiring = "no"]
             ok == IsSuccess(handlers[h].expiring)
  <2>1. handlers[h].expiring # "no" /\ Done(h, hs, handlers[h].expiring) BY <1>7 DEF TimerActs
  <2>2. /\ hs \in [Handlers -> HandlerType] /\ hs[h].expiring = "no" /\ hs[h].answer = "no"
        /\ hs[h].overshot = handlers[h].overshot /\ hs[h].goal = handlers[h].goal
        /\ hs[h].recorded = handlers[h].recorded /\ \A g \in Handlers : g # h => hs[g] = handlers[g]
    BY <1>3, <1>4, <2>1 DEF HandlerType
  <2> HIDE DEF hs
  <2>3. /\ Idle(hs, h) \in [Handlers -> HandlerType] /\ AllIdle(Idle(hs, h))
        /\ \A g \in Handlers : /\ Idle(hs, h)[g].overshot = handlers[g].overshot
                               /\ Idle(hs, h)[g].goal = handlers[g].goal
                               /\ Idle(hs, h)[g].recorded = handlers[g].recorded
    BY <1>2, <2>2, IdleLeft
  <2>4. handlers[h].state = "OVERSHOOTING" <=> ok
    BY <1>4, <1>6, <2>1 DEF IsSuccess, StateTested, HandlerType
  <2>5. ok => ~handlers[h].goal /\ batch[idx].overshoot /\ h \notin Grippers
    BY <1>5, <1>6, <2>4 DEF StateTested
  <2>6. ok \in BOOLEAN BY DEF IsSuccess
  <2>7. Finish(ok, Idle(hs, h), [recorders EXCEPT ![handlers[h].recorder].callbacks = @ \ {h}])
    BY <2>1 DEF Done
  <2> HIDE DEF ok
  <2> QED BY <1>2, <2>3, <2>4, <2>5, <2>6, <2>7, FinishOwns
<1>8. CASE AnswerActs(h)
  <2> DEFINE hs == [handlers EXCEPT ![h].answer = "no"]
             ok == IsSuccess(handlers[h].answer)
  <2>1. handlers[h].answer # "no" /\ ~Watches(h) /\ Done(h, hs, handlers[h].answer)
    BY <1>8 DEF AnswerActs
  <2>2. /\ hs \in [Handlers -> HandlerType] /\ hs[h].expiring = "no" /\ hs[h].answer = "no"
        /\ hs[h].overshot = handlers[h].overshot /\ hs[h].goal = handlers[h].goal
        /\ hs[h].recorded = handlers[h].recorded /\ \A g \in Handlers : g # h => hs[g] = handlers[g]
    BY <1>3, <1>4, <2>1 DEF HandlerType
  <2> HIDE DEF hs
  <2>3. /\ Idle(hs, h) \in [Handlers -> HandlerType] /\ AllIdle(Idle(hs, h))
        /\ \A g \in Handlers : /\ Idle(hs, h)[g].overshot = handlers[g].overshot
                               /\ Idle(hs, h)[g].goal = handlers[g].goal
                               /\ Idle(hs, h)[g].recorded = handlers[g].recorded
    BY <1>2, <2>2, IdleLeft
  <2>4. ok => ~(batch[idx].overshoot /\ last \notin Grippers)
    BY <1>2, <1>4, <1>5, <2>1 DEF IsSuccess, Watches, HandlerType
  <2>5. handlers[h].state # "OVERSHOOTING" /\ ~handlers[h].goal BY <1>6, <2>1 DEF StateTested
  <2>6. ok \in BOOLEAN BY DEF IsSuccess
  <2>7. Finish(ok, Idle(hs, h), [recorders EXCEPT ![handlers[h].recorder].callbacks = @ \ {h}])
    BY <2>1 DEF Done
  <2> HIDE DEF ok
  <2> QED BY <1>2, <2>3, <2>4, <2>5, <2>6, <2>7, FinishOwns
<1> QED BY <1>7, <1>8

\* A handler settles out of an overshoot of its own.
LEMMA SettlesOwns ==
    ASSUME IInv, OvershootOwned, NEW r \in Recorders, NEW h \in Handlers, Settles(r, h)
    PROVE  OvershootOwned'
<1>1. IsNext(r, h) /\ handlers[h].state = "OVERSHOOTING" /\ Running(h)
  BY DEF Settles, Running, Active
<1>2. Busy /\ h = last BY <1>1 DEF IInv, OnlyLastRuns
<1>3. \A g \in Handlers : handlers[g].expiring = "no" /\ handlers[g].answer = "no" /\ ~Inside(g)
  BY <1>1, VisitFacts DEF Inside
<1>4. handlers \in [Handlers -> HandlerType] BY DEF IInv, TypeOK
<1>5. /\ Idle(handlers, h) \in [Handlers -> HandlerType] /\ AllIdle(Idle(handlers, h))
      /\ \A g \in Handlers : /\ Idle(handlers, h)[g].overshot = handlers[g].overshot
                             /\ Idle(handlers, h)[g].goal = handlers[g].goal
                             /\ Idle(handlers, h)[g].recorded = handlers[g].recorded
  BY <1>1, <1>3, <1>4, IdleLeft
<1>6. PICK rs : Finish(TRUE, Idle(handlers, h), rs) BY DEF Settles, DoneDelayed, IsSuccess
<1>7. ~handlers[h].goal /\ batch[idx].overshoot /\ h \notin Grippers
  BY <1>1, <1>2 DEF OvershootOwned, StateTested
<1> QED BY <1>1, <1>2, <1>5, <1>6, <1>7, FinishOwns

\* A recorded state is added to a trajectory, whose execution stays.
LEMMA RecordsOwns ==
    ASSUME IInv, OvershootOwned, NEW r \in Recorders, NEW h \in Handlers, Records(r, h)
    PROVE  OvershootOwned'
<1>1. PICK some \in BOOLEAN :
        handlers' = CASE handlers[h].state = "EXECUTING" -> [handlers EXCEPT ![h].recorded.some = @ \/ some]
                      [] handlers[h].state = "OVERSHOOTING" -> [handlers EXCEPT ![h].overshot.some = @ \/ some]
                      [] OTHER -> handlers
  BY DEF Records
<1>2. UNCHANGED monitorVars BY DEF Records
<1>3. handlers \in [Handlers -> HandlerType] BY DEF IInv, TypeOK
<1>4. CASE handlers[h].state = "EXECUTING"
  <2> DEFINE hd == [handlers[h] EXCEPT !.recorded.some = @ \/ some]
  <2>1. handlers' = [handlers EXCEPT ![h] = hd] BY <1>1, <1>3, <1>4
  <2>2. /\ hd.overshoot = handlers[h].overshoot /\ hd.state = handlers[h].state
        /\ hd.expiring = handlers[h].expiring /\ hd.answer = handlers[h].answer
        /\ hd.goal = handlers[h].goal /\ hd.recorded.exec = handlers[h].recorded.exec
        /\ hd.overshot = handlers[h].overshot
    BY <1>3 DEF HandlerType, Trajectory
  <2> HIDE DEF hd
  <2>3. StateTested(h, hd) BY <2>2 DEF OvershootOwned, StateTested
  <2> QED BY <1>2, <1>4, <2>1, <2>2, <2>3, HandlerStepOwns
<1>5. CASE handlers[h].state = "OVERSHOOTING"
  <2> DEFINE hd == [handlers[h] EXCEPT !.overshot.some = @ \/ some]
  <2>1. handlers' = [handlers EXCEPT ![h] = hd] BY <1>1, <1>3, <1>5
  <2>2. /\ hd.overshoot = handlers[h].overshoot /\ hd.state = handlers[h].state
        /\ hd.recorded = handlers[h].recorded /\ hd.overshot.exec = handlers[h].overshot.exec
        /\ hd.expiring = handlers[h].expiring /\ hd.answer = handlers[h].answer
        /\ hd.goal = handlers[h].goal
    BY <1>3 DEF HandlerType, Trajectory
  <2> HIDE DEF hd
  <2>3. StateTested(h, hd) BY <2>2 DEF OvershootOwned, StateTested
  <2> QED BY <1>2, <1>5, <2>1, <2>2, <2>3, HandlerStepOwns
<1>6. CASE handlers[h].state \notin {"EXECUTING", "OVERSHOOTING"}
  <2>1. handlers' = [handlers EXCEPT ![h] = handlers[h]] BY <1>1, <1>3, <1>6
  <2>2. StateTested(h, handlers[h]) BY DEF OvershootOwned
  <2> QED BY <1>2, <1>6, <2>1, <2>2, HandlerStepOwns
<1> QED BY <1>4, <1>5, <1>6

\* No step of the monitor, of its handlers or of its recorders lets a slot hold another
\* execution's overshoot.
LEMMA NextOwns ==
    ASSUME IInv, OvershootOwned, [Next]_vars
    PROVE  OvershootOwned'
<1>1. ASSUME UNCHANGED <<monitorVars, handlers>> PROVE OvershootOwned'
  BY <1>1 DEF OvershootOwned, SlotsOwned, HandlersHold, StateTested, Busy, monitorVars
<1>2. ASSUME NEW b \in Batches, ExecuteTrajectories(b) PROVE OvershootOwned'
  <2>1. ~Busy /\ batch' = b /\ idx' = 1 /\ Send(b[1], handlers, recorders, <<>>, 0)
    BY <1>2 DEF ExecuteTrajectories
  <2>2. Len(b) \in Nat \ {0} BY RequestOfBatch
  <2>3. \A h \in Handlers : ~Running(h) /\ ~Inside(h) /\ ~handlers[h].timer
    BY <2>1 DEF IInv, OnlyLastRuns, RunningIsReady
  <2>4. handlers \in [Handlers -> HandlerType] BY DEF IInv, TypeOK
  <2>5. AllIdle(handlers)
    BY <2>3, <2>4, NotRunningIsIdle DEF IInv, AllIdle, Inside, HandlerType
  <2> DEFINE out == <<>>
  <2>6. out \in Seq(SlotType) /\ idx' = Len(out) + 1 /\ SlotsOwned(handlers, out, batch') /\ out = <<>>
    BY <2>1 DEF SlotsOwned
  <2> HIDE DEF out
  <2>7. Send(b[1], handlers, recorders, out, 0) BY <2>1 DEF out
  <2>8. execs \in Nat BY DEF IInv, TypeOK
  <2>9. batch' \in Batches /\ idx' <= Len(batch') /\ b[1] = batch'[idx'] BY <2>1, <2>2
  <2>10. out # <<>> => HandlersHold(handlers, out, batch', Len(out)) BY <2>6
  <2> QED BY <2>4, <2>5, <2>6, <2>7, <2>8, <2>9, <2>10, SendOwns
<1>3. ASSUME NEW h \in Handlers, TimerFires(h) PROVE OvershootOwned'
  <2> DEFINE hd == [handlers[h] EXCEPT !.timer = FALSE, !.expiring =
                      CASE handlers[h].state = "OVERSHOOTING" -> "OVERSHOOT_TIMEOUT"
                        [] handlers[h].state = "EXECUTING" -> "EXECUTION_TIMEOUT"
                        [] OTHER -> "no"]
  <2>1. handlers' = [handlers EXCEPT ![h] = hd] /\ UNCHANGED monitorVars BY <1>3 DEF TimerFires
  <2>2. /\ hd.overshoot = handlers[h].overshoot /\ hd.state = handlers[h].state
        /\ hd.recorded = handlers[h].recorded /\ hd.overshot = handlers[h].overshot
        /\ hd.goal = handlers[h].goal /\ hd.answer = handlers[h].answer
        /\ hd.expiring = "OVERSHOOT_TIMEOUT" => hd.state = "OVERSHOOTING"
        /\ hd.expiring = "EXECUTION_TIMEOUT" => hd.state = "EXECUTING"
    BY DEF IInv, TypeOK, HandlerType, Active
  <2> HIDE DEF hd
  <2>3. StateTested(h, hd) BY <2>2 DEF OvershootOwned, StateTested
  <2> QED BY <2>1, <2>2, <2>3, HandlerStepOwns
<1>4. ASSUME NEW h \in Handlers, ControllerAnswers(h) PROVE OvershootOwned'
  <2>1. PICK state \in {"SUCCESS", "EXECUTION_FAILURE"} :
          handlers' = [handlers EXCEPT ![h].goal = FALSE,
                         ![h].answer = IF handlers[h].state \in Active THEN state ELSE "no"]
    BY <1>4 DEF ControllerAnswers
  <2> DEFINE hd == [handlers[h] EXCEPT !.goal = FALSE,
                      !.answer = IF handlers[h].state \in Active THEN state ELSE "no"]
  <2>2. handlers' = [handlers EXCEPT ![h] = hd] /\ UNCHANGED monitorVars
    BY <1>4, <2>1 DEF ControllerAnswers
  <2>3. /\ hd.overshoot = handlers[h].overshoot /\ hd.state = handlers[h].state
        /\ hd.recorded = handlers[h].recorded /\ hd.overshot = handlers[h].overshot
        /\ hd.expiring = handlers[h].expiring /\ hd.goal = FALSE
        /\ hd.answer # "no" => handlers[h].state \in Active
    BY DEF IInv, TypeOK, HandlerType
  <2> HIDE DEF hd
  <2>4. handlers[h].goal BY <1>4 DEF ControllerAnswers
  <2>5. StateTested(h, hd) BY <2>3, <2>4 DEF OvershootOwned, StateTested, Active
  <2> QED BY <2>2, <2>3, <2>5, HandlerStepOwns
<1>5. ASSUME NEW h \in Handlers, OvershootBegins(h) PROVE OvershootOwned'
  <2> DEFINE hd == [handlers[h] EXCEPT !.state = "OVERSHOOTING", !.timer = TRUE, !.answer = "no",
                                     !.overshot = Cleared(handlers[h].recorded.exec)]
  <2>1. handlers' = [handlers EXCEPT ![h] = hd] /\ UNCHANGED monitorVars BY <1>5 DEF OvershootBegins
  <2>2. Watches(h) /\ handlers[h].answer # "no" /\ handlers[h].expiring = "no"
    BY <1>5 DEF OvershootBegins, Watches, TimerCanStop
  <2>3. /\ hd.overshoot = handlers[h].overshoot /\ hd.state = "OVERSHOOTING" /\ hd.answer = "no"
        /\ hd.overshot.exec = hd.recorded.exec /\ hd.recorded = handlers[h].recorded
        /\ hd.goal = handlers[h].goal /\ hd.expiring = handlers[h].expiring
    BY DEF IInv, TypeOK, HandlerType, Cleared
  <2> HIDE DEF hd
  <2>4. StateTested(h, hd) BY <2>2, <2>3 DEF OvershootOwned, StateTested, Watches
  <2> QED BY <2>1, <2>3, <2>4, HandlerStepOwns
<1> QED BY <1>1, <1>2, <1>3, <1>4, <1>5, DoneOwns, SettlesOwns, RecordsOwns
        DEF Next, vars, monitorVars, PassBegins, PassEnds

\* The strengthened invariant of the slots.
THEOREM OwnershipInvariance == ASSUME ~Concurrent PROVE Spec => []OvershootOwned
<1>1. Init => OvershootOwned
  BY DEF Init, OvershootOwned, SlotsOwned, StateTested, Busy, NoTrajectory
<1>2. IInv /\ OvershootOwned /\ [Next]_vars => OvershootOwned' BY NextOwns
<1> QED BY <1>1, <1>2, Invariance, PTL DEF Spec

\* Only the handler asked last runs; while a batch is under way it will be heard of, by
\* its timer if by nothing else; a trajectory whose slot has its code is over for its
\* handler, and for its controller too if the code is SUCCEEDED.
THEOREM WatchedUntilReported == ASSUME ~Concurrent PROVE Spec => []BatchIsWatched
<1>1. ASSUME IInv, OvershootOwned PROVE FinishedIsOver
  <2> SUFFICES ASSUME NEW h \in Handlers, NEW i \in 1..Len(results),
                      handlers[h].recorded.exec = results[i].exec
               PROVE  /\ Running(h) => results[i].code = "NOT_ATTEMPTED"
                      /\ handlers[h].goal => results[i].code # "SUCCEEDED"
    BY DEF FinishedIsOver
  <2>1. ASSUME Running(h) PROVE results[i].code = "NOT_ATTEMPTED"
    <3>1. Busy /\ h = last BY <1>1, <2>1 DEF IInv, OnlyLastRuns
    <3>2. results[i].exec = execs BY <1>1, <3>1 DEF IInv, NewestSlotRuns
    <3>3. execs \in Nat /\ Len(results) \in Nat BY <1>1 DEF IInv, TypeOK
    <3>4. i = Len(results) BY <1>1, <3>1, <3>2, <3>3 DEF IInv, NewestSlotRuns
    <3> QED BY <1>1, <3>1, <3>4 DEF IInv, ResultsAccountForBatch
  <2>2. handlers[h].goal => results[i].code # "SUCCEEDED" BY <1>1 DEF OvershootOwned, SlotsOwned
  <2> QED BY <2>1, <2>2
<1>2. IInv /\ OvershootOwned => BatchIsWatched BY <1>1 DEF IInv, BatchIsWatched
<1> QED BY <1>2, Invariance, OwnershipInvariance, PTL

\* The client gets one slot per request reached, in order, and one report; a slot holds what
\* was recorded in its own execution, and what its handler overshot last.
THEOREM SlotsAreOwn == ASSUME ~Concurrent PROVE Spec => []ResultsAreOwn
<1>1. OvershootOwned => SlotHoldsLastOvershoot
  BY DEF OvershootOwned, SlotsOwned, SlotHoldsLastOvershoot, LastWatched, WatchedBy, WatchedOvershoot
<1>2. IInv /\ OvershootOwned => ResultsAreOwn BY <1>1 DEF IInv, ResultsAreOwn
<1> QED BY <1>2, Invariance, OwnershipInvariance, PTL

-----------------------------------------------------------------------------
(* What a step may not do *)

\* sendTrajectory leaves a registration in place.
LEMMA SendRegisters ==
    ASSUME NEW req, NEW hs, NEW rs \in [Recorders -> RecorderType], NEW out, NEW n, Send(req, hs, rs, out, n)
    PROVE  \A r \in Recorders : rs[r].callbacks \subseteq recorders'[r].callbacks
BY DEF Send, Registered, RecorderType, Missing

\* So does trajectoryFinishedCallbackFunction; and it fills the newest slot only.
LEMMA FinishRegisters ==
    ASSUME NEW ok, NEW hs, NEW rs \in [Recorders -> RecorderType], Finish(ok, hs, rs)
    PROVE  \A r \in Recorders : rs[r].callbacks \subseteq recorders'[r].callbacks
BY SendRegisters DEF Finish

LEMMA FinishFillsNewest ==
    ASSUME results \in Seq(SlotType), NEW ok, NEW hs, NEW rs, Finish(ok, hs, rs)
    PROVE  \A i \in 1..Len(results) : i < Len(results) => results'[i] = results[i]
<1> SUFFICES ASSUME NEW i \in 1..Len(results), i < Len(results)
             PROVE  results'[i] = results[i]
  OBVIOUS
<1>1. ASSUME NEW code, NEW hd PROVE /\ Filled(code, hd)[i] = results[i]
                                    /\ Len(Filled(code, hd)) = Len(results)
                                    /\ \A sl : Append(Filled(code, hd), sl)[i] = Filled(code, hd)[i]
  BY DEF Filled
<1> QED BY <1>1 DEF Finish, Send

\* No callback is erased from a recorder's map while callCallbacks iterates over it.
LEMMA MapSafeWhileIterating == ASSUME ~Concurrent PROVE Spec => NoEraseWhileIterating
<1> DEFINE Safe == \A r \in Recorders : Iterating(r) /\ recorders'[r].cursor # 0 =>
                       recorders[r].callbacks \subseteq recorders'[r].callbacks
<1>1. ASSUME IInv, [Next]_vars PROVE Safe
  <2>1. recorders \in [Recorders -> RecorderType] BY <1>1 DEF IInv, TypeOK
  <2>2. ASSUME recorders' = recorders PROVE Safe BY <2>2
  <2>3. ASSUME NEW b \in Batches, ExecuteTrajectories(b) PROVE Safe
    BY <2>1, <2>3, SendRegisters DEF ExecuteTrajectories
  <2>4. ASSUME NEW h \in Handlers, TimerActs(h) \/ AnswerActs(h) PROVE Safe
    <3>1. Inside(h) BY <2>4 DEF TimerActs, AnswerActs, Inside
    <3> QED BY <1>1, <3>1, InsideFacts
  <2>5. ASSUME NEW r \in Recorders, NEW h \in Handlers, Settles(r, h) PROVE Safe
    <3>1. IsNext(r, h) /\ handlers[h].state = "OVERSHOOTING" BY <2>5 DEF Settles
    <3>2. handlers[h].recorder \in Recorders BY <1>1, <3>1 DEF IInv, RunningIsReady, Running, Active
    <3> DEFINE v == Visited(r, h)
               rs == [v EXCEPT ![handlers[h].recorder].deregister = @ \cup {h}]
    <3>3. v \in [Recorders -> RecorderType] /\ \A q \in Recorders : v[q].callbacks = recorders[q].callbacks
      BY <1>1, <3>1, VisitFacts
    <3>4. Finish(TRUE, Idle(handlers, h), rs) BY <2>5 DEF Settles, DoneDelayed, IsSuccess
    <3> HIDE DEF v
    <3>5. rs \in [Recorders -> RecorderType] /\ \A q \in Recorders : rs[q].callbacks = v[q].callbacks
      BY <3>2, <3>3, HandlersAssumption DEF RecorderType
    <3> HIDE DEF rs
    <3> QED BY <3>3, <3>4, <3>5, FinishRegisters
  <2>6. ASSUME NEW r \in Recorders, NEW h \in Handlers, Records(r, h) PROVE Safe
    BY <1>1, <2>6, VisitFacts DEF Records
  <2>7. ASSUME NEW r \in Recorders, PassBegins(r) \/ PassEnds(r) PROVE Safe
    BY <2>1, <2>7 DEF PassBegins, PassEnds, Iterating, RecorderType
  <2>8. ASSUME NEW h \in Handlers, TimerFires(h) \/ ControllerAnswers(h) \/ OvershootBegins(h) PROVE Safe
    BY <2>2, <2>8 DEF TimerFires, ControllerAnswers, OvershootBegins
  <2> QED BY <1>1, <2>2, <2>3, <2>4, <2>5, <2>6, <2>7, <2>8 DEF Next, vars
<1> QED BY <1>1, Invariance, PTL DEF Spec, NoEraseWhileIterating

\* A slot that has its code keeps it, and all it holds, while its batch lasts.
LEMMA SlotsStay == ASSUME ~Concurrent PROVE Spec => SlotsAreFinal
<1> DEFINE Final == \A i \in 1..Len(results) : Busy /\ results[i].code # "NOT_ATTEMPTED" =>
                        results'[i] = results[i]
<1>1. ASSUME IInv, [Next]_vars PROVE Final
  <2>1. ASSUME UNCHANGED monitorVars PROVE Final BY <2>1 DEF monitorVars
  <2>2. ASSUME NEW b \in Batches, ExecuteTrajectories(b) PROVE Final BY <2>2 DEF ExecuteTrajectories
  <2>3. ASSUME NEW ok, NEW hs, NEW rs, Finish(ok, hs, rs) PROVE Final
    <3>1. results \in Seq(SlotType) BY <1>1 DEF IInv, TypeOK
    <3>2. Busy => results[Len(results)].code = "NOT_ATTEMPTED"
      BY <1>1 DEF IInv, ResultsAccountForBatch
    <3>3. \A i \in 1..Len(results) : i < Len(results) \/ i = Len(results) BY <3>1
    <3> QED BY <2>3, <3>1, <3>2, <3>3, FinishFillsNewest
  <2>4. ASSUME NEW h \in Handlers, TimerActs(h) \/ AnswerActs(h) PROVE Final
    BY <2>3, <2>4 DEF TimerActs, AnswerActs, Done
  <2>5. ASSUME NEW r \in Recorders, NEW h \in Handlers, Settles(r, h) PROVE Final
    BY <2>3, <2>5 DEF Settles, DoneDelayed
  <2> QED BY <1>1, <2>1, <2>2, <2>4, <2>5
          DEF Next, vars, monitorVars, TimerFires, ControllerAnswers, OvershootBegins, PassBegins, PassEnds, Records
<1> QED BY <1>1, Invariance, PTL DEF Spec, SlotsAreFinal

\* No callback undoes what is settled: a map that is iterated over, a slot with its code.
THEOREM NothingUndone == ASSUME ~Concurrent PROVE Spec => CallbacksUndoNothing
BY MapSafeWhileIterating, SlotsStay, PTL DEF CallbacksUndoNothing

-----------------------------------------------------------------------------
(* The monitor implements BatchPromise *)

\* The codes of a result vector with one more slot.
LEMMA CodesOfAppend ==
    ASSUME NEW S, NEW out \in Seq(S), NEW sl
    PROVE  CodesOf(Append(out, sl)) = Append(CodesOf(out), sl.code)
<1>1. DOMAIN out = 1..Len(out) /\ Len(out) \in Nat OBVIOUS
<1>2. DOMAIN Append(out, sl) = 1..(Len(out) + 1) BY <1>1
<1>3. CodesOf(out) \in Seq({out[i].code : i \in 1..Len(out)}) /\ Len(CodesOf(out)) = Len(out)
  BY <1>1 DEF CodesOf
<1>4. \A i \in 1..(Len(out) + 1) : Append(out, sl)[i] = IF i <= Len(out) THEN out[i] ELSE sl
  BY <1>1
<1>5. \A i \in 1..(Len(out) + 1) : Append(CodesOf(out), sl.code)[i] =
         IF i <= Len(out) THEN out[i].code ELSE sl.code
  <2>1. \A i \in 1..Len(out) : CodesOf(out)[i] = out[i].code BY <1>1 DEF CodesOf
  <2> QED BY <1>1, <1>3, <2>1
<1>6. Append(CodesOf(out), sl.code) = [i \in 1..(Len(out) + 1) |-> Append(CodesOf(out), sl.code)[i]]
  BY <1>1, <1>3
<1> QED BY <1>1, <1>2, <1>4, <1>5, <1>6 DEF CodesOf

\* sendTrajectory takes up the next request, or refuses it.
LEMMA SendTakesUp ==
    ASSUME NEW req, NEW hs, NEW rs, NEW S, NEW out \in Seq(S), Send(req, hs, rs, out, 0)
    PROVE  Promise!TakeUp(CodesOf(out))
<1>1. CASE Missing(req) # "nothing"
  <2>1. results' = Append(out, Slot(Missing(req), 0)) /\ reports' = 1 BY <1>1 DEF Send
  <2>2. Missing(req) \in Promise!Refused BY <1>1 DEF Missing, Promise!Refused
  <2>3. CodesOf(results)' = Append(CodesOf(out), Missing(req))
    BY <2>1, CodesOfAppend DEF Slot, CodesOf
  <2> QED BY <2>1, <2>2, <2>3 DEF Promise!TakeUp
<1>2. CASE Missing(req) = "nothing"
  <2>1. results' = Append(out, Slot("NOT_ATTEMPTED", execs + 1)) /\ reports' = 0 BY <1>2 DEF Send
  <2>2. CodesOf(results)' = Append(CodesOf(out), "NOT_ATTEMPTED")
    BY <2>1, CodesOfAppend DEF Slot, CodesOf
  <2> QED BY <2>1, <2>2 DEF Promise!TakeUp
<1> QED BY <1>1, <1>2

\* trajectoryFinishedCallbackFunction ends the request under way.
LEMMA FinishEnds ==
    ASSUME IInv, Busy, NEW ok \in BOOLEAN, NEW hs, NEW rs, Finish(ok, hs, rs)
    PROVE  Promise!EndsWell \/ Promise!EndsBatch
<1> DEFINE cs == CodesOf(results)
           n == Len(results)
<1>1. PICK code \in Outcomes(ok, hs[last]) :
        /\ batch' = batch
        /\ IF code \in GoOn /\ idx < Len(batch)
           THEN Send(batch[idx + 1], hs, rs, Filled(code, hs[last]), reports)
           ELSE results' = Filled(code, hs[last]) /\ reports' = reports + 1
  BY DEF Finish
<1>2. /\ batch # <<>> /\ reports = 0 /\ results \in Seq(SlotType) /\ idx = n /\ n \in 1..Len(batch)
      /\ Len(batch) \in Nat
  <2>1. batch \in Batches BY DEF IInv, TypeOK, Busy
  <2> QED BY <2>1, RequestOfBatch DEF IInv, TypeOK, Busy, ResultsAccountForBatch, NewestSlotRuns
<1>3. Len(cs) = n /\ DOMAIN cs = 1..n BY <1>2 DEF CodesOf
<1> DEFINE out == Filled(code, hs[last])
           S == {out[i] : i \in 1..n}
<1>4. out \in Seq(S) /\ Len(out) = n /\ DOMAIN out = 1..n
  <2>1. DOMAIN results = 1..n BY <1>2
  <2>2. out = [i \in 1..n |-> out[i]] /\ DOMAIN out = 1..n BY <2>1 DEF Filled
  <2> HIDE DEF out
  <2>3. \A i \in 1..n : out[i] \in S OBVIOUS
  <2> HIDE DEF S
  <2>4. out \in [1..n -> S] BY <2>2, <2>3
  <2> QED BY <1>2, <2>2, <2>4
<1>5. CodesOf(out) = [cs EXCEPT ![Len(cs)] = code]
  <2>1. \A i \in 1..n : out[i].code = IF i = n THEN code ELSE results[i].code
    BY <1>2 DEF Filled, SlotType
  <2>2. \A i \in 1..n : cs[i] = results[i].code BY <1>2 DEF CodesOf
  <2> HIDE DEF out, cs
  <2> QED BY <1>3, <1>4, <2>1, <2>2 DEF CodesOf
<1> HIDE DEF out, S, cs
<1>6. CASE code \in GoOn
  <2>1. code \in {"SUCCEEDED"} \cup Promise!Tolerated(batch[Len(cs)])
    BY <1>1, <1>2, <1>3, <1>6 DEF Outcomes, GoOn, Promise!Tolerated
  <2>2. IF Len(cs) < Len(batch)
        THEN Promise!TakeUp([cs EXCEPT ![Len(cs)] = code])
        ELSE CodesOf(results)' = [cs EXCEPT ![Len(cs)] = code] /\ (reports > 0)' = TRUE
    <3>1. CASE idx < Len(batch)
      <4>1. Send(batch[idx + 1], hs, rs, out, 0) BY <1>1, <1>2, <1>6, <3>1 DEF out
      <4>2. Promise!TakeUp(CodesOf(out)) BY <1>4, <4>1, SendTakesUp
      <4> QED BY <1>2, <1>3, <1>5, <3>1, <4>2
    <3>2. CASE ~(idx < Len(batch))
      <4>1. results' = out /\ reports' = 1 BY <1>1, <1>2, <3>2 DEF out
      <4> QED BY <1>2, <1>3, <1>5, <3>2, <4>1 DEF CodesOf
    <3> QED BY <3>1, <3>2
  <2> QED BY <1>1, <1>2, <2>1, <2>2 DEF Promise!EndsWell, cs
<1>7. CASE code \notin GoOn
  <2>1. code = "HANDLER_REPORTS_FAILURE" /\ ~batch[Len(cs)].failureOk
    BY <1>1, <1>2, <1>3, <1>7 DEF Outcomes, GoOn
  <2>2. results' = out /\ reports' = 1 BY <1>1, <1>2, <1>7 DEF out
  <2>3. CodesOf(results)' = [cs EXCEPT ![Len(cs)] = "HANDLER_REPORTS_FAILURE"]
    BY <1>5, <2>1, <2>2 DEF CodesOf
  <2> QED BY <1>1, <1>2, <2>1, <2>2, <2>3 DEF Promise!EndsBatch, cs
<1> QED BY <1>6, <1>7

\* Every step of the monitor is one that the client was promised, or invisible to it.
THEOREM Implementation == ASSUME ~Concurrent PROVE Spec => PromisedSteps
<1>1. ASSUME Init PROVE Promise!Init
  <2>1. CodesOf(<<>>) = <<>> BY DEF CodesOf
  <2> QED BY <1>1, <2>1 DEF Init, Promise!Init
<1>2. ASSUME IInv, [Next]_vars PROVE [Promise!Next]_(Promise!vars)
  <2>1. ASSUME UNCHANGED monitorVars PROVE UNCHANGED Promise!vars
    BY <2>1 DEF monitorVars, Promise!vars, CodesOf
  <2>2. ASSUME NEW b \in Batches, ExecuteTrajectories(b) PROVE Promise!HandIn
    <3>1. ~Busy /\ batch' = b /\ Send(b[1], handlers, recorders, <<>>, 0)
      BY <2>2 DEF ExecuteTrajectories
    <3>2. CodesOf(<<>>) = <<>> BY DEF CodesOf
    <3>3. <<>> \in Seq({}) OBVIOUS
    <3>4. Promise!TakeUp(<<>>) BY <3>1, <3>2, <3>3, SendTakesUp
    <3>5. batch = <<>> \/ reports > 0 BY <1>2, <3>1 DEF Busy, IInv, TypeOK
    <3> QED BY <3>1, <3>4, <3>5 DEF Promise!HandIn
  <2>3. ASSUME NEW h \in Handlers, TimerActs(h) \/ AnswerActs(h) PROVE Promise!Next
    <3>1. Inside(h) BY <2>3 DEF TimerActs, AnswerActs, Inside
    <3>2. Busy BY <1>2, <3>1, InsideFacts
    <3>3. \A state : IsSuccess(state) \in BOOLEAN BY DEF IsSuccess
    <3> QED BY <1>2, <2>3, <3>2, <3>3, FinishEnds DEF TimerActs, AnswerActs, Done, Promise!Next
  <2>4. ASSUME NEW r \in Recorders, NEW h \in Handlers, Settles(r, h) PROVE Promise!Next
    <3>1. Busy BY <1>2, <2>4 DEF Settles, IInv, OnlyLastRuns, Running, Active
    <3>2. \A state : IsSuccess(state) \in BOOLEAN BY DEF IsSuccess
    <3> QED BY <1>2, <2>4, <3>1, <3>2, FinishEnds DEF Settles, DoneDelayed, Promise!Next
  <2> QED BY <1>2, <2>1, <2>2, <2>3, <2>4
          DEF Next, vars, monitorVars, TimerFires, ControllerAnswers, OvershootBegins, PassBegins,
              PassEnds, Records, Promise!Next
<1> QED BY <1>1, <1>2, Invariance, PTL DEF Spec, PromisedSteps

=============================================================================
