----------------------------- MODULE GoalDeploy -----------------------------
(***************************************************************************)
(* deploy_goal: the steps of a plan, in waves.  A wave is every step whose   *)
(* dependencies are all in earlier waves.  What depends on a step that       *)
(* failed or was skipped is skipped; the others are spawned, each waits for  *)
(* a permit of the goal and one of its model, and the outcomes are joined   *)
(* in order.  A token may be cancelled, and the goal be ended by somebody    *)
(* else, between any two steps; outcomes that come after that are dropped.   *)
(***************************************************************************)
EXTENDS Integers, FiniteSets

CONSTANTS
    Steps,              \* step ids, in the order they are sorted
    Plans,              \* dependencies that apply_plan accepts
    ModelOf,            \* the model of a step
    GlobalCap,          \* GoalMode.concurrency
    ModelCap,           \* GoalMode.model_concurrency, by model
    Validated           \* ~ceo_mode and the plan has validation criteria

(* topo_waves finds a next step as long as there are steps left. *)
Orderable(d) == \A S \in SUBSET Steps : S # {} => \E s \in S : d[s] \subseteq Steps \ S

ASSUME GoalDeployAssumption ==
    /\ Steps \subseteq Nat /\ IsFiniteSet(Steps)
    /\ Plans \subseteq {d \in [Steps -> SUBSET Steps] : Orderable(d)}
    /\ GlobalCap \in Nat /\ \A s \in Steps : ModelCap[ModelOf[s]] \in Nat
    /\ Validated \in BOOLEAN

VARIABLES
    deps,       \* depends_on of the steps
    status,     \* DeployPrompt.status
    goal,       \* active, over (no result is accepted any more) or worked (the deploy is through)
    cancelled,  \* the token of the deploy
    deploy,     \* where deploy_goal is, and its local variables
    worker      \* the task of a step

vars == <<deps, status, goal, cancelled, deploy, worker>>

First(s, S) == s \in S /\ \A t \in S : s <= t
Clamped(n) == IF n < 1 THEN 1 ELSE n

GlobalPermits == Clamped(GlobalCap)

(* Mutant of ModelPermits: a limit of nothing is taken as it is. *)
ModelPermitsAsSet(m) == IF ModelCap[m] > GlobalPermits THEN GlobalPermits ELSE ModelCap[m]

ModelPermits(m) == IF Clamped(ModelCap[m]) > GlobalPermits THEN GlobalPermits ELSE Clamped(ModelCap[m])

HoldsModel(s) == worker[s] \in {"begin", "running"}
HoldsGlobal(s) == worker[s] = "global" \/ HoldsModel(s)
Ended(s) == worker[s] \in {"done", "failed", "panic"}

(* accepts_goal_worker_result, of a deploy that owns the goal. *)
Accepted == ~cancelled /\ goal = "active"

-----------------------------------------------------------------------------
(* The waves. *)

(* Mutant of Wave: one dependency of an earlier wave is enough. *)
WaveOfAny == {s \in Steps \ deploy.ordered : deps[s] \subseteq deploy.ordered
                                              \/ deps[s] \cap deploy.ordered # {}}

(* The next wave of topo_waves. *)
Wave == {s \in Steps \ deploy.ordered : deps[s] \subseteq deploy.ordered}

(* Mutant of Skipped: what was skipped itself makes nothing be skipped. *)
SkippedOnce(w) == {s \in w : \E d \in deps[s] : d \in deploy.failed /\ status[d] # "skipped"}

Skipped(w) == {s \in w : deps[s] \cap deploy.failed # {}}

(* Mutant of StartWave: the steps of the wave are not marked as ordered. *)
StartWaveUnmarked ==
    /\ deploy.at = "wave" /\ deploy.ordered # Steps
    /\ LET skip == Skipped(Wave)
       IN /\ status' = [s \in Steps |-> IF s \in skip THEN "skipped" ELSE status[s]]
          /\ deploy' = [deploy EXCEPT !.at = IF skip = Wave THEN "wave" ELSE "spawn", !.wave = Wave,
                                      !.spawn = Wave \ skip, !.failed = @ \cup skip]
    /\ UNCHANGED <<deps, goal, cancelled, worker>>

StartWave ==
    /\ deploy.at = "wave" /\ deploy.ordered # Steps
    /\ IF cancelled
       THEN /\ goal' = "over" /\ deploy' = [deploy EXCEPT !.at = "over"]
            /\ UNCHANGED status
       ELSE LET skip == Skipped(Wave)
            IN /\ status' = [s \in Steps |-> IF s \in skip THEN "skipped" ELSE status[s]]
               /\ deploy' = [at |-> IF skip = Wave THEN "wave" ELSE "spawn",
                             ordered |-> deploy.ordered \cup Wave, wave |-> Wave,
                             spawn |-> Wave \ skip, handles |-> {},
                             failed |-> deploy.failed \cup skip, wave_failed |-> FALSE]
               /\ UNCHANGED goal
    /\ UNCHANGED <<deps, cancelled, worker>>

(* A cancellation ends the spawning, not the wave. *)
Spawn ==
    /\ deploy.at = "spawn"
    /\ IF cancelled
       THEN deploy' = [deploy EXCEPT !.spawn = {}, !.at = "join"] /\ UNCHANGED worker
       ELSE \E s \in Steps :
            /\ First(s, deploy.spawn)
            /\ deploy' = [deploy EXCEPT !.spawn = @ \ {s}, !.handles = @ \cup {s},
                                        !.at = IF deploy.spawn = {s} THEN "join" ELSE @]
            /\ worker' = [worker EXCEPT ![s] = "queued"]
    /\ UNCHANGED <<deps, status, goal, cancelled>>

Outcome(s) == IF worker[s] = "done" THEN "done" ELSE "failed"
Failing(s) == worker[s] = "panic" \/ (Accepted /\ worker[s] = "failed")

(* Mutant of Join: the end of a wave does not wait for its workers once it is cancelled. *)
JoinUncancelled ==
    /\ deploy.at = "join"
    /\ \E s \in Steps :
          /\ First(s, deploy.handles) /\ (Ended(s) \/ cancelled)
          /\ status' = IF Accepted THEN [status EXCEPT ![s] = Outcome(s)] ELSE status
          /\ deploy' = [deploy EXCEPT !.handles = @ \ {s},
                                      !.failed = IF Failing(s) THEN @ \cup {s} ELSE @,
                                      !.wave_failed = @ \/ Failing(s)]
    /\ UNCHANGED <<deps, goal, cancelled, worker>>

(* Mutant of Join: a worker that panicked is failed, but what depends on it is not skipped. *)
JoinPanicked ==
    /\ deploy.at = "join"
    /\ \E s \in Steps :
          /\ First(s, deploy.handles) /\ Ended(s)
          /\ status' = IF Accepted THEN [status EXCEPT ![s] = Outcome(s)] ELSE status
          /\ deploy' = [deploy EXCEPT !.handles = @ \ {s},
                                      !.failed = IF worker[s] = "failed" THEN @ \cup {s} ELSE @]
    /\ UNCHANGED <<deps, goal, cancelled, worker>>

(* The handles are awaited in order.  A panic counts as a failure even when it is dropped. *)
Join ==
    /\ deploy.at = "join"
    /\ \E s \in Steps :
          /\ First(s, deploy.handles) /\ Ended(s)
          /\ status' = IF Accepted THEN [status EXCEPT ![s] = Outcome(s)] ELSE status
          /\ deploy' = [deploy EXCEPT !.handles = @ \ {s},
                                      !.failed = IF Failing(s) THEN @ \cup {s} ELSE @,
                                      !.wave_failed = @ \/ Failing(s)]
    /\ UNCHANGED <<deps, goal, cancelled, worker>>

(* The criteria of the plan are those of the finished goal: the last wave is reviewed. *)
EndWave ==
    /\ deploy.at = "join" /\ deploy.handles = {}
    /\ deploy' = [deploy EXCEPT !.at =
                    IF Validated /\ ~cancelled /\ deploy.ordered = Steps /\ ~deploy.wave_failed
                    THEN "validate" ELSE "wave"]
    /\ UNCHANGED <<deps, status, goal, cancelled, worker>>

(* A reviewer that fails, or passes the work, changes nothing. *)
Validate ==
    /\ deploy.at = "validate"
    /\ \E bad \in {{}, {s \in deploy.wave : status[s] = "done"}} :
          /\ status' = [s \in Steps |-> IF s \in bad THEN "failed" ELSE status[s]]
          /\ deploy' = [deploy EXCEPT !.at = "wave", !.failed = @ \cup bad]
    /\ UNCHANGED <<deps, goal, cancelled, worker>>

(* Verifying or synthesizing. *)
EndDeploy ==
    /\ deploy.at = "wave" /\ deploy.ordered = Steps
    /\ deploy' = [deploy EXCEPT !.at = "over"]
    /\ goal' = CASE cancelled -> "over" [] Accepted -> "worked" [] OTHER -> goal
    /\ UNCHANGED <<deps, status, cancelled, worker>>

-----------------------------------------------------------------------------
(* The workers. *)

TakeGlobal(s) ==
    /\ worker[s] = "queued" /\ Cardinality({t \in Steps : HoldsGlobal(t)}) < GlobalPermits
    /\ worker' = [worker EXCEPT ![s] = "global"]
    /\ UNCHANGED <<deps, status, goal, cancelled, deploy>>

TakeModel(s) ==
    /\ worker[s] = "global"
    /\ Cardinality({t \in Steps : HoldsModel(t) /\ ModelOf[t] = ModelOf[s]}) < ModelPermits(ModelOf[s])
    /\ worker' = [worker EXCEPT ![s] = IF cancelled THEN "failed" ELSE "begin"]
    /\ UNCHANGED <<deps, status, goal, cancelled, deploy>>

(* A goal that is over starts no work; a cancellation that is just coming stops it later. *)
Begin(s) ==
    /\ worker[s] = "begin"
    /\ IF goal = "active"
       THEN status' = [status EXCEPT ![s] = "running"] /\ worker' = [worker EXCEPT ![s] = "running"]
       ELSE worker' = [worker EXCEPT ![s] = "failed"] /\ UNCHANGED status
    /\ UNCHANGED <<deps, goal, cancelled, deploy>>

(* await_goal_worker: an outcome, a timeout that is a failure, or a panic. *)
Work(s) ==
    /\ worker[s] = "running"
    /\ \E o \in {"done", "failed", "panic"} : worker' = [worker EXCEPT ![s] = o]
    /\ UNCHANGED <<deps, status, goal, cancelled, deploy>>

-----------------------------------------------------------------------------
(* The rest of the program. *)

Cancel ==
    /\ ~cancelled /\ cancelled' = TRUE
    /\ UNCHANGED <<deps, status, goal, deploy, worker>>

(* With the token, or without it: an older deploy cancels the goal it finds. *)
EndGoal ==
    /\ goal = "active" /\ goal' = "over"
    /\ UNCHANGED <<deps, status, cancelled, deploy, worker>>

-----------------------------------------------------------------------------
Init ==
    /\ deps \in Plans
    /\ status = [s \in Steps |-> "pending"] /\ goal = "active" /\ cancelled = FALSE
    /\ deploy = [at |-> "wave", ordered |-> {}, wave |-> {}, spawn |-> {}, handles |-> {},
                 failed |-> {}, wave_failed |-> FALSE]
    /\ worker = [s \in Steps |-> "none"]

DeployStep == StartWave \/ Spawn \/ Join \/ EndWave \/ Validate \/ EndDeploy
WorkerStep(s) == TakeGlobal(s) \/ TakeModel(s) \/ Begin(s) \/ Work(s)

Next == DeployStep \/ (\E s \in Steps : WorkerStep(s)) \/ Cancel \/ EndGoal

(* Semaphores are fair, and a worker has a timeout. *)
Fairness == WF_vars(DeployStep) /\ \A s \in Steps : WF_vars(WorkerStep(s))

Spec == Init /\ [][Next]_vars /\ Fairness

-----------------------------------------------------------------------------
(* Properties. *)

(* The shape of the state; the wave at hand has been ordered, its tasks are of it.   *)
TypeOK ==
    /\ deps \in Plans
    /\ status \in [Steps -> {"pending", "running", "done", "failed", "skipped"}]
    /\ goal \in {"active", "over", "worked"} /\ cancelled \in BOOLEAN
    /\ deploy \in [at : {"wave", "spawn", "join", "validate", "over"}, ordered : SUBSET Steps,
                   wave : SUBSET Steps, spawn : SUBSET Steps, handles : SUBSET Steps,
                   failed : SUBSET Steps, wave_failed : BOOLEAN]
    /\ deploy.spawn \cup deploy.handles \subseteq deploy.wave /\ deploy.wave \subseteq deploy.ordered
    /\ worker \in [Steps -> {"none", "queued", "global", "begin", "running", "done", "failed", "panic"}]

(* A step that is worked on or done has all it depends on (topo_waves, and the skips  *)
(* of deploy_goal).                                                                  *)
DependenciesDone ==
    \A s \in Steps : status[s] \in {"running", "done"} => \A d \in deps[s] : status[d] = "done"

(* A deploy that went through has an outcome for every step, and skipped exactly what *)
(* could not be built.                                                               *)
NothingForgotten ==
    goal = "worked" =>
        \A s \in Steps :
            /\ status[s] \in {"done", "failed", "skipped"}
            /\ status[s] = "skipped" <=> \E d \in deps[s] : status[d] \in {"failed", "skipped"}

(* No worker is left behind by its wave, cancelled or not.                            *)
NoWorkerLeft ==
    deploy.at \in {"wave", "validate", "over"} => \A s \in Steps : worker[s] = "none" \/ Ended(s)

(* Waves, permits and joins never wait for ever.                                      *)
DeployEnds == <>(deploy.at = "over")

(* The deploy keeps the promises of StepGraph.                                        *)
Graph == INSTANCE StepGraph WITH over <- goal = "over"
KeepsGraph == Graph!Spec
=============================================================================
