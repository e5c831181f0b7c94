---------------------------- MODULE MCTaskGraph ----------------------------
(* Instances of the task graph for TLC.                                    *)
EXTENDS TaskGraph

\* A project, one inside its directory, and one at the root, which holds neither (Within).
SomePlaces ==
    {[project |-> "a", cwd |-> <<"a">>],
     [project |-> "b", cwd |-> <<"a", "b">>],
     [project |-> "c", cwd |-> <<>>]}

OnePlace == {[project |-> "a", cwd |-> <<"a">>]}

\* x can be claimed again after it was requeued, y is claimed once.
UnevenCaps == [c \in Card |-> IF c = "x" THEN 3 ELSE 1]

EvenCaps == [c \in Card |-> MaxFence]

=============================================================================
