----------------------------- MODULE MCGoalMode -----------------------------
(* One goal or two, at most three tasks at once. *)
EXTENDS GoalMode
=============================================================================
