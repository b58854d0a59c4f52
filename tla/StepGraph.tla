----------------------------- MODULE StepGraph -----------------------------
(***************************************************************************)
(* What the deploy of a plan promises, whatever its waves and its limits:   *)
(* a step runs after everything it depends on has been done, is skipped for *)
(* a dependency that failed or was skipped, and keeps the outcome it got,   *)
(* but for work that nothing was built on, which a reviewer may reject.      *)
(* When the goal is over, what was not run may be skipped.                   *)
(***************************************************************************)
CONSTANT Steps

VARIABLES
    deps,       \* the steps that a step depends on
    status,     \* pending, running, done, failed or skipped
    over        \* the goal was cancelled or has failed

vars == <<deps, status, over>>

Unavailable(s) == status[s] \in {"failed", "skipped"}
Set(S, o) == status' = [s \in Steps |-> IF s \in S THEN o ELSE status[s]]

Init ==
    /\ deps \in [Steps -> SUBSET Steps]
    /\ status = [s \in Steps |-> "pending"] /\ over = FALSE

Run(s) ==
    /\ ~over /\ status[s] = "pending" /\ \A d \in deps[s] : status[d] = "done"
    /\ Set({s}, "running") /\ UNCHANGED <<deps, over>>

Settle(s) ==
    /\ ~over /\ status[s] = "running"
    /\ Set({s}, "done") \/ Set({s}, "failed")
    /\ UNCHANGED <<deps, over>>

Skip(S) ==
    /\ \A s \in S : status[s] = "pending" /\ (over \/ \E d \in deps[s] : Unavailable(d))
    /\ Set(S, "skipped") /\ UNCHANGED <<deps, over>>

Reject(S) ==
    /\ \A s \in S : status[s] = "done" /\ \A t \in Steps : s \notin deps[t]
    /\ Set(S, "failed") /\ UNCHANGED <<deps, over>>

GiveUp == over' = TRUE /\ UNCHANGED <<deps, status>>

Next ==
    \/ \E s \in Steps : Run(s) \/ Settle(s)
    \/ \E S \in SUBSET Steps : Skip(S) \/ Reject(S)
    \/ GiveUp

Spec == Init /\ [][Next]_vars
=============================================================================
