------------------------ MODULE MCPlanningSceneEditor ------------------------
(* Two requests, one for either arm; two scenes. *)
EXTENDS PlanningSceneEditor

TwoArms == 0 :> "right" @@ 1 :> "left"

Session == [robot |-> FALSE, foreign |-> FALSE, careless |-> FALSE, busy |-> FALSE,
            fails |-> FALSE, documents |-> 0, plans |-> 1]

Filed == [Session EXCEPT !.documents = 2]
Executed == [Session EXCEPT !.robot = TRUE, !.fails = TRUE]
Busy == [Session EXCEPT !.robot = TRUE, !.busy = TRUE]
Careless == [Session EXCEPT !.foreign = TRUE, !.careless = TRUE, !.documents = 2]

Sessions == {Filed, Executed, Busy, Careless}
FiledSession == {Filed}
=============================================================================
