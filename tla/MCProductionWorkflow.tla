------------------------ MODULE MCProductionWorkflow ------------------------
(* Small instances of ProductionWorkflow for TLC. *)
EXTENDS ProductionWorkflow, TLC

\* The documents of the first half: nothing is delivered.
PlanTwice == [requirements |-> 2, resources |-> 2, plan |-> 2, delivery |-> 0, closeout |-> 0]

\* The second half: delivered and closed, with one revision of what precedes.
DeliverTwice == [requirements |-> 1, resources |-> 1, plan |-> 1, delivery |-> 2, closeout |-> 1]
\* An issue that blocks the acceptance of the plan and the end of the implementation.
OneIssue == {[stages |-> {"plan", "implementation"}, operations |-> {"complete"}]}

Symmetry == Permutations(Versions)
=============================================================================
