---------------------------- MODULE MCEditorScene ----------------------------
EXTENDS EditorScene, TLC

MCLinksOf == [hand |-> {"hand"}, finger |-> {"finger"}, gripper |-> {"hand", "finger"}]

Stored == [coll |-> {1}, att |-> 2 :> {"hand"}, acm |-> (1 :> {}) @@ (2 :> {"hand"}),
           robot |-> "up", start |-> "up", goal |-> "home", sizes |-> <<>>]

\* A session: nothing happens in it but what is said.
Session ==
    [objects |-> FALSE, careful |-> TRUE, allowed |-> FALSE, arm |-> FALSE, unlucky |-> FALSE,
     real |-> FALSE, fails |-> FALSE, crosses |-> FALSE, own |-> {}, steps |-> 5, sizes |-> {3},
     stored |-> Stored]

\* A scene with two attached objects, and one with a request and two trajectories.
BothAttached == [Stored EXCEPT !.coll = {}, !.att = (1 :> {"finger"}) @@ (2 :> {"hand"}),
                               !.acm = (1 :> {"finger"}) @@ (2 :> {"hand"})]
WithRequest == [Stored EXCEPT !.coll = {}, !.att = [o \in {} |-> {}], !.acm = [o \in {} |-> {}],
                              !.sizes = <<3, 0>>]

MCModes ==
    {[Session EXCEPT !.objects = TRUE, !.steps = 6],
     [Session EXCEPT !.objects = TRUE, !.fails = TRUE, !.stored = BothAttached],
     [Session EXCEPT !.objects = TRUE, !.careful = FALSE, !.own = {1}],
     [Session EXCEPT !.objects = TRUE, !.allowed = TRUE],
     [Session EXCEPT !.arm = TRUE, !.steps = 6, !.stored = WithRequest],
     [Session EXCEPT !.arm = TRUE, !.fails = TRUE, !.unlucky = TRUE, !.stored = WithRequest],
     [Session EXCEPT !.arm = TRUE, !.crosses = TRUE, !.real = TRUE, !.sizes = {0, 4}]}
=============================================================================
