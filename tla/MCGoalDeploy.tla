---------------------------- MODULE MCGoalDeploy ----------------------------
(* Every plan of four steps, two permits, and a model with one of them. *)
EXTENDS GoalDeploy

FourSteps == 1 .. 4
EveryPlan == {d \in [Steps -> SUBSET Steps] : Orderable(d)}
TwoModels == [s \in Steps |-> IF s <= 2 THEN "cheap" ELSE "large"]
OneLarge == [m \in {"cheap", "large"} |-> IF m = "large" THEN 1 ELSE 0]
=============================================================================
