---------------------------- MODULE ActionServer ----------------------------
(***************************************************************************)
(* actionlib::SimpleActionServer as this repository uses it: a server      *)
(* record and one operator per call or callback.  A goal is the number of  *)
(* its time stamp; 0 stands for no goal.  The library is not part of the   *)
(* repository, so every definition here is external.                       *)
(***************************************************************************)
EXTENDS Naturals

Terminal == {"succeeded", "aborted", "canceled"}
Statuses == {"unsent", "pending", "active"} \cup Terminal

\* status of every goal, current_goal_, next_goal_ while new_goal_ is set,
\* preempt_request_ and new_goal_preempt_request_
ServerType(Goals) == [status: [Goals -> Statuses], current: Goals \cup {0}, next: Goals \cup {0},
                      preempt: BOOLEAN, nextPreempt: BOOLEAN]

NewServer(Goals) == [status |-> [g \in Goals |-> "unsent"], current |-> 0, next |-> 0,
                     preempt |-> FALSE, nextPreempt |-> FALSE]

IsActive(srv) == srv.current # 0 /\ srv.status[srv.current] = "active"
IsNewGoalAvailable(srv) == srv.next # 0

\* The next goal a client may send: goals are stamped in the order they are sent.
Sendable(srv, g) == /\ srv.status[g] = "unsent"
                    /\ \A h \in DOMAIN srv.status : h < g => srv.status[h] # "unsent"

\* goalCallback: a goal that still waits is bumped, and an active one is asked to stop.
Receive(srv, g) ==
    [srv EXCEPT !.status = [h \in DOMAIN @ |-> IF h = g THEN "pending"
                                               ELSE IF h = srv.next THEN "canceled" ELSE @[h]],
                !.next = g, !.nextPreempt = FALSE,
                !.preempt = @ \/ IsActive(srv)]

\* preemptCallback, for the current goal or for the one that waits.
Cancel(srv, g) ==
    IF g = srv.current THEN [srv EXCEPT !.preempt = TRUE]
    ELSE IF g = srv.next THEN [srv EXCEPT !.nextPreempt = TRUE] ELSE srv

\* acceptNewGoal: the goal under way, if any, is cancelled in favour of the new one.
AcceptNewGoal(srv) ==
    [srv EXCEPT !.status = [h \in DOMAIN @ |-> IF h = srv.next THEN "active"
                                               ELSE IF h = srv.current /\ IsActive(srv) THEN "canceled" ELSE @[h]],
                !.current = srv.next, !.next = 0,
                !.preempt = srv.nextPreempt, !.nextPreempt = FALSE]

\* setSucceeded, setAborted and setPreempted: only an active goal takes a status.
Settle(srv, s) == IF IsActive(srv) THEN [srv EXCEPT !.status[srv.current] = s] ELSE srv

=============================================================================
