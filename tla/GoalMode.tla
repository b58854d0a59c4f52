------------------------------ MODULE GoalMode ------------------------------
(***************************************************************************)
(* Goal mode: a goal is planned by a turn, perhaps reviewed by another,     *)
(* deployed by a task of its own, and then verified or summarized by a      *)
(* third turn.  goal.rs keeps the phases and what may follow what,          *)
(* agent/goal_runtime.rs the tasks that move a goal on, main.rs the turns,   *)
(* which do not know what they are for, and the dispatcher the commands of  *)
(* the user.  All of them meet in State.goal, State.current, the one-deep    *)
(* queue, goal_wrapup_active and goal_deploy_cancel.                        *)
(*                                                                         *)
(* The steps of a deploy are in GoalDeploy; here a wave just ends.          *)
(***************************************************************************)
EXTENDS Integers, FiniteSets

CONSTANTS
    Tasks,              \* the tasks that may be alive at once
    CEO,                \* GoalMode.ceo_mode
    MaxRevisions,       \* max_plan_revisions
    MaxIterations,      \* max_iterations
    Waves,              \* the waves of a deploy
    Commands,           \* what the user does in this instance
    Exits,              \* {"error"} if a turn may fail, else {}
    MaxGoals, MaxCommands

ASSUME GoalModeAssumption ==
    /\ CEO \in BOOLEAN
    /\ {MaxRevisions, MaxIterations, MaxGoals, MaxCommands} \subseteq Nat /\ Waves \in Nat \ {0}
    /\ Commands \subseteq {"approve", "revise", "cancel", "abort", "clear", "undo", "send", "steer"}
    /\ Exits \subseteq {"error"}

None == "none"
ASSUME NoneAssumption == None \notin Tasks

VARIABLES
    goal,       \* State.goal
    current,    \* State.current: the turn that holds it, or None
    queue,      \* State.queued: what the prompt is for, or None
    wrapup,     \* goal_wrapup_active
    slot,       \* goal_deploy_cancel: the deploy whose token it holds, or None
    tasks,      \* turns, deploys, and starts of the turns that follow
    pending,    \* what the dispatcher has not finished: "plan", "cancel" or None
    used        \* goals started, commands given

vars == <<goal, current, queue, wrapup, slot, tasks, pending, used>>

-----------------------------------------------------------------------------
(* The goal. *)

Phases == {"idle", "planning", "plan_ready", "reviewing", "deploying", "running", "verifying",
           "replanning", "synthesizing", "blocked", "done", "failed", "cancelled"}
is_active(g) == g.phase \notin {"idle", "done", "failed", "cancelled"}

Forward == {<<"idle", "planning">>, <<"planning", "plan_ready">>, <<"plan_ready", "reviewing">>,
            <<"plan_ready", "deploying">>, <<"plan_ready", "planning">>,
            <<"reviewing", "plan_ready">>, <<"reviewing", "planning">>,
            <<"deploying", "running">>, <<"running", "verifying">>, <<"running", "synthesizing">>,
            <<"verifying", "done">>, <<"verifying", "replanning">>, <<"replanning", "planning">>,
            <<"synthesizing", "done">>, <<"blocked", "planning">>, <<"done", "planning">>,
            <<"failed", "planning">>, <<"cancelled", "planning">>}

(* Mutant of validate_transition: whatever is running may be stopped, and resumed. *)
validate_any_stop(from, to) ==
    from = to \/ <<from, to>> \in Forward \/ to \in {"failed", "cancelled", "blocked"}

validate_transition(from, to) ==
    \/ from = to \/ <<from, to>> \in Forward
    \/ to \in {"failed", "cancelled", "blocked"}
         /\ from \notin {"idle", "done", "failed", "cancelled"}

transition(g, to) == IF validate_transition(g.phase, to) THEN [g EXCEPT !.phase = to] ELSE g
fail_goal(g) == transition([g EXCEPT !.armed = FALSE], "failed")
cancel_goal(g) == transition([g EXCEPT !.armed = FALSE], "cancelled")

Idle == [id |-> 0, phase |-> "idle", plan |-> FALSE, armed |-> FALSE, auto |-> TRUE,
         revision |-> 0, iteration |-> 0]
new_goal(id, auto) == [Idle EXCEPT !.id = id, !.phase = "planning", !.auto = auto]

(* armed is deploy_after_turn, plan says that there are a plan and its prompts. *)
apply_plan(g) == transition([g EXCEPT !.plan = TRUE, !.armed = g.auto], "plan_ready")
replan(g, to) == transition([g EXCEPT !.plan = FALSE, !.armed = FALSE], to)

(* What a turn that ended says of a plan, and of the work. *)
finish_reviewing(g, aborted, ok) ==
    IF aborted THEN cancel_goal(g)
    ELSE IF ok THEN transition(g, "plan_ready")
    ELSE IF g.revision < MaxRevisions
         THEN replan([g EXCEPT !.revision = @ + 1], "planning")
         ELSE fail_goal(g)

(* Mutant of finish_verifying: the last iteration may be tried again. *)
finish_verifying_again(g, aborted, ok) ==
    IF aborted THEN cancel_goal(g)
    ELSE IF ok THEN transition(g, "done")
    ELSE IF g.iteration <= MaxIterations
         THEN transition(replan([g EXCEPT !.iteration = @ + 1], "replanning"), "planning")
         ELSE fail_goal(g)

finish_verifying(g, aborted, ok) ==
    IF aborted THEN cancel_goal(g)
    ELSE IF ok THEN transition(g, "done")
    ELSE IF g.iteration < MaxIterations
         THEN transition(replan([g EXCEPT !.iteration = @ + 1], "replanning"), "planning")
         ELSE fail_goal(g)

finish_synthesis(g, aborted) == IF aborted THEN cancel_goal(g) ELSE transition(g, "done")

-----------------------------------------------------------------------------
(* Tasks. *)

Free == [kind |-> "free"]
Turn(for) == [kind |-> "turn", for |-> for, at |-> "run", cancelled |-> FALSE,
              aborted |-> FALSE, drained |-> FALSE]
Deploy == [kind |-> "deploy", at |-> "spawned", id |-> 0, cancelled |-> FALSE, wave |-> 1]
Start(for, id) == [kind |-> "start", for |-> for, id |-> id,
                   at |-> IF for = "review" THEN "wait" ELSE "slot"]

FreeTasks == {t \in Tasks : tasks[t] = Free}
Room == FreeTasks # {}
New == CHOOSE t \in FreeTasks : TRUE

Is(t, kind, at) == tasks[t].kind = kind /\ tasks[t].at = at
Step(t, at) == [tasks EXCEPT ![t].at = at]

(* cancel_goal_deploy takes the token and cancels it. *)
WithoutDeploy == IF slot = None THEN tasks ELSE [tasks EXCEPT ![slot].cancelled = TRUE]
WithoutTurn(ts) == IF current = None THEN ts ELSE [ts EXCEPT ![current].cancelled = TRUE]

(* start_turn: a prompt waits for the turn that runs, or is lost to the one that waits. *)
start_turn(for, ts) ==
    IF current # None
    THEN /\ queue' = IF queue = None THEN for ELSE queue
         /\ tasks' = ts /\ UNCHANGED current
    ELSE /\ Room
         /\ tasks' = [ts EXCEPT ![New] = Turn(for)] /\ current' = New /\ UNCHANGED queue

spawn(task, ts) == Room /\ tasks' = [ts EXCEPT ![New] = task]

-----------------------------------------------------------------------------
(* The dispatcher. *)

Command(c) ==
    /\ c \in Commands /\ pending = None /\ used.commands < MaxCommands
    /\ used' = [used EXCEPT !.commands = @ + 1]

(* The goal there was is replaced in whatever phase it is. *)
StartGoal ==
    /\ pending = None /\ used.goals < MaxGoals
    /\ \E auto \in BOOLEAN : goal' = new_goal(used.goals + 1, auto)
    /\ tasks' = WithoutDeploy /\ slot' = None
    /\ pending' = "plan" /\ used' = [used EXCEPT !.goals = @ + 1]
    /\ UNCHANGED <<current, queue, wrapup>>

(* The planning prompt of StartGoal and ReviseGoal. *)
StartPlanning ==
    /\ pending = "plan" /\ pending' = None
    /\ start_turn("plan", tasks)
    /\ UNCHANGED <<goal, wrapup, slot, used>>

ReviseGoal ==
    /\ Command("revise") /\ goal.id # 0
    /\ goal' = replan(goal, "planning")
    /\ tasks' = WithoutDeploy /\ slot' = None /\ pending' = "plan"
    /\ UNCHANGED <<current, queue, wrapup>>

ApproveGoalPlan ==
    /\ Command("approve") /\ goal.phase = "plan_ready" /\ goal.plan
    /\ goal' = [goal EXCEPT !.armed = FALSE, !.auto = TRUE]
    /\ spawn(Deploy, tasks)
    /\ UNCHANGED <<current, queue, wrapup, slot, pending>>

(* cancel_in_flight_turn, with the goal of CancelGoal left for later. *)
StopWork == tasks' = WithoutTurn(WithoutDeploy) /\ slot' = None /\ queue' = None /\ current' = None

CancelGoal ==
    /\ Command("cancel")
    /\ StopWork /\ wrapup' = FALSE /\ pending' = "cancel"
    /\ UNCHANGED <<goal>>

FinishCancel ==
    /\ pending = "cancel" /\ pending' = None
    /\ goal' = IF is_active(goal) THEN cancel_goal(goal) ELSE goal
    /\ UNCHANGED <<current, queue, wrapup, slot, tasks, used>>

Abort ==
    /\ Command("abort")
    /\ StopWork /\ wrapup' = FALSE
    /\ goal' = IF is_active(goal) THEN cancel_goal(goal) ELSE goal
    /\ UNCHANGED <<pending>>

(* Clear and reset stop the turn; undo clears the goal and lets the turn run. *)
ClearWork ==
    /\ \/ Command("clear") /\ StopWork
       \/ Command("undo") /\ tasks' = WithoutDeploy /\ slot' = None /\ UNCHANGED <<queue, current>>
    /\ goal' = Idle
    /\ UNCHANGED <<wrapup, pending>>

Send ==
    /\ Command("send")
    /\ start_turn("user", tasks)
    /\ UNCHANGED <<goal, wrapup, slot, pending>>

Steer ==
    /\ Command("steer")
    /\ IF current = None THEN start_turn("user", tasks)
       ELSE queue' = "user" /\ tasks' = WithoutTurn(tasks) /\ current' = None
    /\ UNCHANGED <<goal, wrapup, slot, pending>>

-----------------------------------------------------------------------------
(* A turn. *)

(* A plan ends the turn that wrote it; when the turn is stale by then, nothing follows. *)
WritePlan(t) ==
    /\ Is(t, "turn", "run") /\ goal.phase = "planning"
    /\ goal' = apply_plan(goal)
    /\ tasks' = Step(t, IF tasks[t].cancelled THEN "release" ELSE "planning")
    /\ UNCHANGED <<current, queue, wrapup, slot, pending, used>>

(* A natural end or a finish, which may meet a cancellation that is just coming. *)
EndTurn(t) ==
    /\ Is(t, "turn", "run")
    /\ tasks' = [tasks EXCEPT ![t].at = "planning", ![t].aborted = tasks[t].cancelled]
    /\ UNCHANGED <<goal, current, queue, wrapup, slot, pending, used>>

(* An error or an abort leaves the goal to the drain. *)
FailTurn(t) ==
    /\ Is(t, "turn", "run") /\ (tasks[t].cancelled \/ "error" \in Exits)
    /\ tasks' = Step(t, "release")
    /\ UNCHANGED <<goal, current, queue, wrapup, slot, pending, used>>

(* Mutant of FinishPlanning: a turn that wrote no plan is no failure. *)
FinishPlanningSilently(t) ==
    /\ Is(t, "turn", "planning")
    /\ IF goal.armed /\ goal.plan
       THEN /\ goal' = [goal EXCEPT !.armed = FALSE]
            /\ spawn(IF CEO /\ MaxRevisions > 0 THEN Start("review", 0) ELSE Deploy,
                     Step(t, "reviewing"))
       ELSE /\ goal' = IF goal.phase = "planning" /\ tasks[t].aborted THEN cancel_goal(goal) ELSE goal
            /\ tasks' = Step(t, "reviewing")
    /\ UNCHANGED <<current, queue, wrapup, slot, pending, used>>

(* maybe_finish_goal_planning, at the end of any turn. *)
FinishPlanning(t) ==
    /\ Is(t, "turn", "planning")
    /\ IF goal.armed /\ goal.plan
       THEN /\ goal' = [goal EXCEPT !.armed = FALSE]
            /\ spawn(IF CEO /\ MaxRevisions > 0 THEN Start("review", 0) ELSE Deploy,
                     Step(t, "reviewing"))
       ELSE /\ goal' = CASE goal.phase = "planning" /\ tasks[t].aborted -> cancel_goal(goal)
                         [] goal.phase = "planning" /\ ~tasks[t].aborted /\ ~goal.plan -> fail_goal(goal)
                         [] OTHER -> goal
            /\ tasks' = Step(t, "reviewing")
    /\ UNCHANGED <<current, queue, wrapup, slot, pending, used>>

(* maybe_finish_goal_reviewing: the verdict is in the last reply there is, whoever wrote it. *)
FinishReviewing(t) ==
    /\ Is(t, "turn", "reviewing")
    /\ LET next == Step(t, "verifying")
       IN IF goal.phase # "reviewing"
          THEN tasks' = next /\ UNCHANGED <<goal, current, queue>>
          ELSE \E ok \in BOOLEAN :
               /\ goal' = finish_reviewing(goal, tasks[t].aborted, ok)
               /\ CASE goal'.phase = "plan_ready" -> spawn(Deploy, next) /\ UNCHANGED <<current, queue>>
                    [] goal'.phase = "planning" -> start_turn("plan", next)
                    [] OTHER -> tasks' = next /\ UNCHANGED <<current, queue>>
    /\ UNCHANGED <<wrapup, slot, pending, used>>

(* maybe_finish_goal_verifying and maybe_finish_goal_synthesis: at most one applies. *)
FinishVerifying(t) ==
    /\ Is(t, "turn", "verifying")
    /\ LET next == [Step(t, IF tasks[t].drained THEN "complete" ELSE "release") EXCEPT ![t].aborted = FALSE]
       IN \E ok \in BOOLEAN :
          /\ goal' = CASE goal.phase = "verifying" -> finish_verifying(goal, tasks[t].aborted, ok)
                       [] goal.phase = "synthesizing" -> finish_synthesis(goal, tasks[t].aborted)
                       [] OTHER -> goal
          /\ IF goal.phase = "verifying" /\ goal'.phase = "planning" THEN start_turn("plan", next)
             ELSE tasks' = next /\ UNCHANGED <<current, queue>>
    /\ UNCHANGED <<wrapup, slot, pending, used>>

Release(t) ==
    /\ Is(t, "turn", "release")
    /\ current' = IF current = t THEN None ELSE current
    /\ tasks' = Step(t, "drain")
    /\ UNCHANGED <<goal, queue, wrapup, slot, pending, used>>

(* Whoever finds the flag finishes the turn that follows a goal, planning excepted. *)
Drain(t) ==
    /\ Is(t, "turn", "drain")
    /\ wrapup' = FALSE
    /\ tasks' = IF wrapup
                THEN [tasks EXCEPT ![t].at = "reviewing", ![t].drained = TRUE,
                                   ![t].aborted = tasks[t].cancelled]
                ELSE Step(t, "complete")
    /\ UNCHANGED <<goal, current, queue, slot, pending, used>>

(* The queued prompt runs next. *)
Complete(t) ==
    /\ Is(t, "turn", "complete")
    /\ IF queue = None THEN tasks' = [tasks EXCEPT ![t] = Free] /\ UNCHANGED current
       ELSE tasks' = [tasks EXCEPT ![t] = Turn(queue)] /\ current' = t
    /\ queue' = None
    /\ UNCHANGED <<goal, wrapup, slot, pending, used>>

-----------------------------------------------------------------------------
(* A deploy. *)

TakeSlot(t) ==
    /\ Is(t, "deploy", "spawned")
    /\ tasks' = [WithoutDeploy EXCEPT ![t].at = "taken"] /\ slot' = None
    /\ UNCHANGED <<goal, current, queue, wrapup, pending, used>>

PlaceToken(t) ==
    /\ Is(t, "deploy", "taken")
    /\ tasks' = Step(t, "snapshot") /\ slot' = t
    /\ UNCHANGED <<goal, current, queue, wrapup, pending, used>>

(* After the checkpoint of the workspace. *)
BeginDeploy(t) ==
    /\ Is(t, "deploy", "snapshot")
    /\ IF goal.plan
       THEN /\ goal' = transition([goal EXCEPT !.armed = FALSE], "deploying")
            /\ tasks' = [tasks EXCEPT ![t].at = "wave", ![t].id = goal.id]
       ELSE tasks' = Step(t, "over") /\ UNCHANGED goal
    /\ UNCHANGED <<current, queue, wrapup, slot, pending, used>>

(* The goal of the moment is set running, and a cancelled deploy cancels it. *)
BeginWave(t) ==
    /\ Is(t, "deploy", "wave")
    /\ IF tasks[t].cancelled
       THEN goal' = cancel_goal(goal) /\ tasks' = Step(t, "over")
       ELSE goal' = transition(goal, "running") /\ tasks' = Step(t, "join")
    /\ UNCHANGED <<current, queue, wrapup, slot, pending, used>>

EndWave(t) ==
    /\ Is(t, "deploy", "join")
    /\ tasks' = IF tasks[t].wave < Waves THEN [tasks EXCEPT ![t].at = "wave", ![t].wave = @ + 1]
                ELSE Step(t, "end")
    /\ UNCHANGED <<goal, current, queue, wrapup, slot, pending, used>>

(* Mutant of EndDeploy: a deploy that was cancelled leaves its goal as it is. *)
EndDeploySilently(t) ==
    /\ Is(t, "deploy", "end")
    /\ IF goal.id # tasks[t].id \/ tasks[t].cancelled THEN tasks' = Step(t, "over") /\ UNCHANGED goal
       ELSE /\ goal' = transition(goal, IF CEO THEN "verifying" ELSE "synthesizing")
            /\ tasks' = Step(t, "follow")
    /\ UNCHANGED <<current, queue, wrapup, slot, pending, used>>

EndDeploy(t) ==
    /\ Is(t, "deploy", "end")
    /\ CASE goal.id # tasks[t].id -> tasks' = Step(t, "over") /\ UNCHANGED goal
         [] goal.id = tasks[t].id /\ tasks[t].cancelled ->
                goal' = cancel_goal(goal) /\ tasks' = Step(t, "over")
         [] OTHER -> /\ goal' = transition(goal, IF CEO THEN "verifying" ELSE "synthesizing")
                     /\ tasks' = Step(t, "follow")
    /\ UNCHANGED <<current, queue, wrapup, slot, pending, used>>

(* The slot is cleared, and the turn that follows is started. *)
FollowUp(t) ==
    /\ Is(t, "deploy", "follow") \/ Is(t, "deploy", "over")
    /\ slot' = IF tasks[t].cancelled THEN slot ELSE None
    /\ LET next == CASE goal.phase = "verifying" -> Start("verify", goal.id)
                     [] goal.phase = "synthesizing" -> Start("wrapup", goal.id)
                     [] OTHER -> Free
       IN tasks' = [tasks EXCEPT ![t] = IF tasks[t].at = "follow" /\ ~tasks[t].cancelled THEN next ELSE Free]
    /\ UNCHANGED <<goal, current, queue, wrapup, pending, used>>

-----------------------------------------------------------------------------
(* The start of a turn that reviews, verifies or summarizes. *)

(* spawn_goal_review waits for the planning turn, but not for ever. *)
BeginReview(t) ==
    /\ Is(t, "start", "wait")
    /\ IF goal.plan /\ goal.phase \in {"plan_ready", "reviewing"}
       THEN /\ goal' = transition(goal, "reviewing")
            /\ tasks' = [tasks EXCEPT ![t].at = "slot", ![t].id = goal.id]
       ELSE tasks' = [tasks EXCEPT ![t] = Free] /\ UNCHANGED goal
    /\ UNCHANGED <<current, queue, wrapup, slot, pending, used>>

StartParent(t) ==
    /\ Is(t, "start", "slot") /\ current = None
    /\ tasks' = [tasks EXCEPT ![t] = Turn(tasks[t].for)] /\ current' = t /\ wrapup' = TRUE
    /\ UNCHANGED <<goal, queue, slot, pending, used>>

(* The turn that runs outlasts the wait. *)
StartRefused(t) ==
    /\ Is(t, "start", "slot") /\ current # None
    /\ tasks' = [tasks EXCEPT ![t] = Free]
    /\ goal' = CASE goal.id # tasks[t].id -> goal
                 [] tasks[t].for = "review" /\ goal.phase = "reviewing" -> fail_goal(goal)
                 [] tasks[t].for = "verify" /\ goal.phase = "verifying" -> fail_goal(goal)
                 [] tasks[t].for = "wrapup" /\ goal.phase = "synthesizing" -> finish_synthesis(goal, FALSE)
                 [] OTHER -> goal
    /\ UNCHANGED <<current, queue, wrapup, slot, pending, used>>

-----------------------------------------------------------------------------
Init ==
    /\ goal = Idle /\ current = None /\ queue = None /\ wrapup = FALSE /\ slot = None
    /\ tasks = [t \in Tasks |-> Free] /\ pending = None
    /\ used = [goals |-> 0, commands |-> 0]

TurnStep(t) ==
    \/ WritePlan(t) \/ EndTurn(t) \/ FailTurn(t)
    \/ FinishPlanning(t) \/ FinishReviewing(t) \/ FinishVerifying(t)
    \/ Release(t) \/ Drain(t) \/ Complete(t)

DeployStep(t) ==
    \/ TakeSlot(t) \/ PlaceToken(t) \/ BeginDeploy(t) \/ BeginWave(t) \/ EndWave(t) \/ EndDeploy(t)
    \/ FollowUp(t)

StartStep(t) == BeginReview(t) \/ StartParent(t) \/ StartRefused(t)

Dispatch ==
    \/ StartGoal \/ StartPlanning \/ ReviseGoal \/ ApproveGoalPlan \/ CancelGoal \/ FinishCancel
    \/ Abort \/ ClearWork \/ Send \/ Steer

Next == Dispatch \/ \E t \in Tasks : TurnStep(t) \/ DeployStep(t) \/ StartStep(t)

(* Streams, workers and tools have timeouts, waits are bounded, tasks are scheduled. *)
Fairness ==
    /\ WF_vars(StartPlanning) /\ WF_vars(FinishCancel)
    /\ \A t \in Tasks : WF_vars(TurnStep(t)) /\ WF_vars(DeployStep(t)) /\ WF_vars(StartStep(t))

Spec == Init /\ [][Next]_vars /\ Fairness

-----------------------------------------------------------------------------
(* Properties. *)

IsTask(r) ==
    \/ r = Free
    \/ /\ r.kind = "turn"
       /\ r \in [kind : {"turn"}, for : {"user", "plan", "review", "verify", "wrapup"},
                 at : {"run", "planning", "reviewing", "verifying", "release",
                       "drain", "complete"},
                 cancelled : BOOLEAN, aborted : BOOLEAN, drained : BOOLEAN]
    \/ /\ r.kind = "deploy"
       /\ r \in [kind : {"deploy"}, id : Nat, cancelled : BOOLEAN, wave : 1 .. Waves,
                 at : {"spawned", "taken", "snapshot", "wave", "join", "end", "follow", "over"}]
    \/ /\ r.kind = "start"
       /\ r \in [kind : {"start"}, for : {"review", "verify", "wrapup"}, id : Nat,
                 at : {"wait", "slot"}]

(* The state has the shape the code gives it, the budgets of a goal are kept, the   *)
(* slot of the session holds a turn and that of the deploy a deploy.                *)
TypeOK ==
    /\ goal \in [id : Nat, phase : Phases, plan : BOOLEAN, armed : BOOLEAN, auto : BOOLEAN,
                 revision : 0 .. MaxRevisions, iteration : 0 .. MaxIterations]
    /\ \A t \in Tasks : IsTask(tasks[t])
    /\ current # None => current \in Tasks /\ tasks[current].kind = "turn"
    /\ slot # None => slot \in Tasks /\ tasks[slot].kind = "deploy"
    /\ queue \in {None, "user", "plan"} /\ wrapup \in BOOLEAN /\ pending \in {None, "plan", "cancel"}

(* While a goal is deploying or running, a deploy is at work that will move it on.  *)
Deploying(t) == tasks[t].kind = "deploy" /\ tasks[t].at \in {"wave", "join", "end"}
DeployIsWorking ==
    goal.phase \in {"deploying", "running"} => \E t \in Tasks : Deploying(t) /\ tasks[t].id = goal.id

(* A goal that is over stays over, however late its workers and turns are: only the *)
(* user starts it again.                                                            *)
Over == {"done", "failed", "cancelled"}
OverIsOver ==
    [][goal.phase \in Over /\ goal'.phase # goal.phase
        => pending' = "plan" \/ goal' = Idle]_vars

(* A goal comes to an end or waits for the user's approval; a run in which the bound *)
(* on tasks stops the program for good says nothing.                                 *)
Waits == goal.phase = "plan_ready" /\ ~goal.auto
GoalSettles == []<>Room => (is_active(goal) ~> (~is_active(goal) \/ Waits))

(* "Cancel any prior goal deploy." (StartGoal): the deploy that was cancelled has no *)
(* effect on the goal that replaced its own.                                         *)
OldDeployIsHarmless ==
    [][\A t \in Tasks : Deploying(t) /\ tasks[t].id # goal.id /\ tasks'[t] # tasks[t]
          => goal'.phase = goal.phase]_vars

(* "a cancelled token means the slot was replaced" (spawn_goal_deploy): of two       *)
(* deploys one is cancelled.                                                         *)
OneDeploy ==
    \A t, u \in Tasks : Deploying(t) /\ Deploying(u) /\ t # u => tasks[t].cancelled \/ tasks[u].cancelled

(* "After a CEO verify turn ends: certify Done or replan / fail": it is the end of a *)
(* verify turn that certifies a goal.                                                *)
VerdictIsVerifiers ==
    [][\A t \in Tasks : Is(t, "turn", "verifying") /\ goal.phase = "verifying" /\ goal'.phase = "done"
          /\ tasks'[t] # tasks[t] => tasks[t].for = "verify"]_vars

(* "Goal cancellation is a lifecycle cancellation": no turn for the goal starts after *)
(* it (CancelGoal).                                                                  *)
CancelledStartsNothing ==
    [][goal.phase = "cancelled" /\ current = None /\ current' # None
        => tasks'[current'].for \notin {"review", "verify", "wrapup"}]_vars
=============================================================================
