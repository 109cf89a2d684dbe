---------------------------- MODULE BatchPromise ----------------------------
(***************************************************************************)
(* What executeTrajectories promises its client, without handlers, timers  *)
(* or recorders: the requests of a batch are attempted one by one, in      *)
(* order; one that ends well, or whose failure the client tolerates, lets  *)
(* the next one start; any other ends the batch; and result_callback_ is   *)
(* called exactly once, with one code per request that was reached.        *)
(***************************************************************************)
EXTENDS Naturals, Sequences

CONSTANT Batches    \* the request vectors a client may pass

VARIABLES
    batch,      \* the requests under way or last reported
    codes,      \* the codes of the requests reached, in order
    reported    \* result_callback_ was called for this batch

vars == <<batch, codes, reported>>

Refused == {"NO_RECORDER", "NO_HANDLER"}
Tolerated(req) == (IF req.failureOk THEN {"HANDLER_REPORTS_FAILURE_BUT_OK"} ELSE {})
             \cup (IF req.closeTest THEN {"HANDLER_REPORTS_FAILURE_BUT_CLOSE_ENOUGH"} ELSE {})

Init == batch = <<>> /\ codes = <<>> /\ reported = FALSE

\* The next request is taken up after the codes cs, or refused on the spot.
TakeUp(cs) ==
    \/ codes' = Append(cs, "NOT_ATTEMPTED") /\ reported' = FALSE
    \/ \E code \in Refused : codes' = Append(cs, code) /\ reported' = TRUE

HandIn ==
    /\ batch = <<>> \/ reported
    /\ \E b \in Batches : batch' = b
    /\ TakeUp(<<>>)

\* The request under way ends with a code that lets the next one start.
EndsWell ==
    /\ batch # <<>> /\ ~reported
    /\ \E code \in {"SUCCEEDED"} \cup Tolerated(batch[Len(codes)]) :
         LET cs == [codes EXCEPT ![Len(codes)] = code]
         IN IF Len(codes) < Len(batch) THEN TakeUp(cs) ELSE codes' = cs /\ reported' = TRUE
    /\ batch' = batch

EndsBatch ==
    /\ batch # <<>> /\ ~reported
    /\ ~batch[Len(codes)].failureOk
    /\ codes' = [codes EXCEPT ![Len(codes)] = "HANDLER_REPORTS_FAILURE"]
    /\ reported' = TRUE
    /\ batch' = batch

Next == HandIn \/ EndsWell \/ EndsBatch

\* The client may stop; a batch under way is brought to its end.
Spec == Init /\ [][Next]_vars /\ WF_vars(EndsWell \/ EndsBatch)

=============================================================================
