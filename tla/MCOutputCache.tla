--------------------------- MODULE MCOutputCache ---------------------------
(* The turn and a subagent in its own worktree, a file that fits every cap and one  *)
(* that exceeds all of them.                                                       *)
EXTENDS OutputCache

CONSTANTS turn, child, mid, big

TwoWorkspaces == [a \in {turn, child} |-> IF a = turn THEN "workspace" ELSE "worktree"]
OneWorkspace == [a \in {turn, child} |-> "workspace"]
Nothing == {}
OneFile == {<<"workspace", mid>>}
Sizes == [p \in {mid, big} |-> IF p = mid THEN 3 ELSE 6]
=============================================================================
