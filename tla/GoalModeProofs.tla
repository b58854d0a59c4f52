--------------------------- MODULE GoalModeProofs ---------------------------
(***************************************************************************)
(* Whatever tasks there are and whatever the user does, a goal that is      *)
(* deploying has a deploy at work, and one that is over stays over.         *)
(***************************************************************************)
EXTENDS GoalMode, TLAPS

-----------------------------------------------------------------------------
(* The inductive invariant. *)

Goals == [id : Nat, phase : Phases, plan : BOOLEAN, armed : BOOLEAN, auto : BOOLEAN,
          revision : 0 .. MaxRevisions, iteration : 0 .. MaxIterations]

AreTasks(ts) == ts = [t \in Tasks |-> ts[t]] /\ \A t \in Tasks : IsTask(ts[t])

(* The turn that holds State.current has not come to its release. *)
Holds(r) ==
    /\ r.kind = "turn" /\ ~r.drained
    /\ r.at \in {"run", "planning", "reviewing", "verifying", "release"}
CurrentOK == current # None => current \in Tasks /\ Holds(tasks[current])

(* The deploy whose token is in the slot has put it there and is not cancelled: who *)
(* cancels it takes it out.                                                         *)
Placed(r) == r.kind = "deploy" /\ r.at \notin {"spawned", "taken"} /\ ~r.cancelled
SlotOK ==
    /\ slot # None => slot \in Tasks /\ Placed(tasks[slot])
    /\ \A t \in Tasks : tasks[t].kind = "deploy" /\ tasks[t].at \in {"spawned", "taken"} => ~tasks[t].cancelled

(* A goal that is deploying has a deploy before a wave, one that is running has one  *)
(* at work.                                                                         *)
WorkOK ==
    /\ goal.phase = "deploying" => \E t \in Tasks : Is(t, "deploy", "wave") /\ tasks[t].id = goal.id
    /\ goal.phase = "running" => \E t \in Tasks : Deploying(t) /\ tasks[t].id = goal.id

RestOK ==
    /\ queue \in {None, "user", "plan"} /\ wrapup \in BOOLEAN /\ pending \in {None, "plan", "cancel"}
    /\ used \in [goals : Nat, commands : Nat]

IInv == goal \in Goals /\ AreTasks(tasks) /\ CurrentOK /\ SlotOK /\ WorkOK /\ RestOK

-----------------------------------------------------------------------------
(* What the helpers return. *)

(* A phase that may not follow is not taken; nothing else of the goal changes. *)
LEMMA Moved ==
    ASSUME NEW g \in Goals, NEW to \in Phases
    PROVE  /\ transition(g, to) \in Goals
           /\ transition(g, to) = [g EXCEPT !.phase = transition(g, to).phase]
           /\ transition(g, to).phase = IF validate_transition(g.phase, to) THEN to ELSE g.phase
  BY DEF transition, Goals, Phases

(* Failing and cancelling take a goal that is active to its end, and no other. *)
LEMMA Stopped ==
    ASSUME NEW g \in Goals, NEW to \in {"failed", "cancelled"}
    PROVE  LET h == transition([g EXCEPT !.armed = FALSE], to)
           IN /\ h \in Goals /\ h.id = g.id
              /\ h.phase = IF is_active(g) THEN to ELSE g.phase
<1> DEFINE f == [g EXCEPT !.armed = FALSE]
<1>1. f \in Goals /\ f.id = g.id /\ f.phase = g.phase  BY DEF Goals
<1>2. to \in Phases  BY DEF Phases
<1>3. validate_transition(g.phase, to) <=> is_active(g) \/ g.phase = to
  BY DEF validate_transition, is_active, Forward
<1> HIDE DEF f
<1>4. /\ transition(f, to) \in Goals
      /\ transition(f, to) = [f EXCEPT !.phase = transition(f, to).phase]
      /\ transition(f, to).phase = IF validate_transition(f.phase, to) THEN to ELSE f.phase
  BY <1>1, <1>2, Moved
<1>5. transition(f, to).id = g.id  BY <1>1, <1>4 DEF Goals
<1>6. transition(f, to).phase = IF is_active(g) THEN to ELSE g.phase  BY <1>1, <1>3, <1>4
<1> QED  BY <1>4, <1>5, <1>6 DEF f

(* A plan that is applied, or started anew, leaves the goal its id. *)
LEMMA Planned ==
    ASSUME NEW g \in Goals
    PROVE  /\ apply_plan(g) \in Goals /\ apply_plan(g).id = g.id
           /\ apply_plan(g).phase = IF validate_transition(g.phase, "plan_ready") THEN "plan_ready" ELSE g.phase
           /\ \A to \in Phases : /\ replan(g, to) \in Goals /\ replan(g, to).id = g.id
                                 /\ replan(g, to).phase = IF validate_transition(g.phase, to) THEN to ELSE g.phase
  BY DEF apply_plan, replan, transition, Goals, Phases

(* The phases in which a deploy works for the goal. *)
AtWork == {"deploying", "running"}

(* A review leads to a goal that is not at work: approved, replanned, failed or cancelled. *)
LEMMA Reviewed ==
    ASSUME NEW g \in Goals, g.phase = "reviewing", NEW aborted \in BOOLEAN, NEW ok \in BOOLEAN
    PROVE  LET h == finish_reviewing(g, aborted, ok)
           IN h \in Goals /\ h.phase \notin AtWork /\ h.phase # "done"
<1>1. CASE aborted
  BY <1>1, Stopped DEF finish_reviewing, cancel_goal, is_active, AtWork
<1>2. CASE ~aborted /\ ok
  BY <1>2, Moved DEF finish_reviewing, AtWork, Phases, validate_transition, Forward
<1>3. CASE ~aborted /\ ~ok /\ g.revision < MaxRevisions
  <2>1. [g EXCEPT !.revision = @ + 1] \in Goals /\ [g EXCEPT !.revision = @ + 1].phase = "reviewing"
    BY <1>3, GoalModeAssumption DEF Goals
  <2>2. "planning" \in Phases /\ validate_transition("reviewing", "planning")
    BY DEF Phases, validate_transition, Forward
  <2> QED  BY <1>3, <2>1, <2>2, Planned DEF finish_reviewing, AtWork
<1>4. CASE ~aborted /\ ~ok /\ ~(g.revision < MaxRevisions)
  BY <1>4, Stopped DEF finish_reviewing, fail_goal, is_active, AtWork
<1> QED  BY <1>1, <1>2, <1>3, <1>4

(* A verification leads to a goal that is not at work. *)
LEMMA Verified ==
    ASSUME NEW g \in Goals, g.phase = "verifying", NEW aborted \in BOOLEAN, NEW ok \in BOOLEAN
    PROVE  LET h == finish_verifying(g, aborted, ok)
           IN h \in Goals /\ h.phase \notin AtWork
<1>1. CASE aborted
  BY <1>1, Stopped DEF finish_verifying, cancel_goal, is_active, AtWork
<1>2. CASE ~aborted /\ ok
  BY <1>2, Moved DEF finish_verifying, AtWork, Phases, validate_transition, Forward
<1>3. CASE ~aborted /\ ~ok /\ g.iteration < MaxIterations
  <2>1. [g EXCEPT !.iteration = @ + 1] \in Goals /\ [g EXCEPT !.iteration = @ + 1].phase = "verifying"
    BY <1>3, GoalModeAssumption DEF Goals
  <2>2. /\ "planning" \in Phases /\ "replanning" \in Phases
        /\ validate_transition("verifying", "replanning") /\ validate_transition("replanning", "planning")
    BY DEF Phases, validate_transition, Forward
  <2>3. LET h == replan([g EXCEPT !.iteration = @ + 1], "replanning")
        IN h \in Goals /\ h.phase = "replanning"
    BY <2>1, <2>2, Planned
  <2> QED  BY <1>3, <2>2, <2>3, Moved DEF finish_verifying, AtWork
<1>4. CASE ~aborted /\ ~ok /\ ~(g.iteration < MaxIterations)
  BY <1>4, Stopped DEF finish_verifying, fail_goal, is_active, AtWork
<1> QED  BY <1>1, <1>2, <1>3, <1>4

(* A wrap-up leads to a goal that is not at work. *)
LEMMA Summarized ==
    ASSUME NEW g \in Goals, g.phase = "synthesizing", NEW aborted \in BOOLEAN
    PROVE  LET h == finish_synthesis(g, aborted) IN h \in Goals /\ h.phase \notin AtWork
<1>1. "done" \in Phases /\ validate_transition("synthesizing", "done")
  BY DEF Phases, validate_transition, Forward
<1> QED  BY <1>1, Moved, Stopped DEF finish_synthesis, cancel_goal, is_active, AtWork

(* What is spawned takes a task nobody is. *)
LEMMA NewIsFree == Room => New \in Tasks /\ tasks[New] = Free
  BY DEF Room, New, FreeTasks

-----------------------------------------------------------------------------
(* What is a task. *)

Fors == {"user", "plan", "review", "verify", "wrapup"}
TurnAts == {"run", "planning", "reviewing", "verifying", "release", "drain", "complete"}
DeployAts == {"spawned", "taken", "snapshot", "wave", "join", "end", "follow", "over"}

(* What a task is when it is spawned. *)
LEMMA NewTasks ==
    /\ IsTask(Free) /\ IsTask(Deploy)
    /\ \A for \in Fors : IsTask(Turn(for))
    /\ \A for \in {"review", "verify", "wrapup"}, id \in Nat : IsTask(Start(for, id))
<1>1. IsTask(Free)  BY DEF IsTask
<1>2. IsTask(Deploy)  BY GoalModeAssumption DEF IsTask, Deploy
<1>3. ASSUME NEW for \in Fors PROVE IsTask(Turn(for))  BY DEF IsTask, Turn, Fors
<1>4. ASSUME NEW for \in {"review", "verify", "wrapup"}, NEW id \in Nat PROVE IsTask(Start(for, id))
  BY <1>4 DEF IsTask, Start
<1> QED  BY <1>1, <1>2, <1>3, <1>4

(* A turn that moves on is still a turn. *)
LEMMA TurnMoves ==
    ASSUME NEW r, IsTask(r), r.kind = "turn", NEW at \in TurnAts, NEW b \in BOOLEAN, NEW c \in BOOLEAN
    PROVE  /\ IsTask([r EXCEPT !.at = at])
           /\ IsTask([r EXCEPT !.cancelled = b]) /\ [r EXCEPT !.cancelled = b].kind = "turn"
           /\ IsTask([[r EXCEPT !.at = at] EXCEPT !.aborted = b])
           /\ IsTask([[[r EXCEPT !.at = at] EXCEPT !.drained = c] EXCEPT !.aborted = b])
<1> DEFINE Turns == [kind : {"turn"}, for : Fors, at : TurnAts, cancelled : BOOLEAN, aborted : BOOLEAN,
                     drained : BOOLEAN]
<1>1. r \in Turns
  BY DEF IsTask, Free, Fors, TurnAts
<1>2. \A d \in Turns : IsTask(d)
  BY DEF IsTask, Fors, TurnAts
<1>3. [r EXCEPT !.at = at] \in Turns /\ [[r EXCEPT !.at = at] EXCEPT !.aborted = b] \in Turns
  BY <1>1
<1>4. [r EXCEPT !.cancelled = b] \in Turns /\ [r EXCEPT !.cancelled = b].kind = "turn"
  BY <1>1
<1>5. [[[r EXCEPT !.at = at] EXCEPT !.drained = c] EXCEPT !.aborted = b] \in Turns
  BY <1>1
<1> HIDE DEF Turns
<1> QED  BY <1>2, <1>3, <1>4, <1>5

(* A deploy that moves on is still a deploy. *)
LEMMA DeployMoves ==
    ASSUME NEW r, IsTask(r), r.kind = "deploy", NEW at \in DeployAts, NEW n \in Nat
    PROVE  /\ IsTask([r EXCEPT !.at = at])
           /\ LET c == [r EXCEPT !.cancelled = TRUE]
              IN IsTask(c) /\ c.kind = r.kind /\ c.at = r.at /\ c.id = r.id
           /\ IsTask([[r EXCEPT !.at = at] EXCEPT !.id = n])
           /\ r.wave < Waves => IsTask([[r EXCEPT !.at = at] EXCEPT !.wave = @ + 1])
<1> DEFINE Deploys == [kind : {"deploy"}, id : Nat, cancelled : BOOLEAN, wave : 1 .. Waves, at : DeployAts]
<1>1. r \in Deploys
  BY DEF IsTask, Free, DeployAts
<1>2. \A d \in Deploys : IsTask(d)
  BY DEF IsTask, DeployAts
<1>3. r.wave < Waves => r.wave + 1 \in 1 .. Waves
  BY <1>1, GoalModeAssumption
<1>4. [r EXCEPT !.at = at] \in Deploys /\ [[r EXCEPT !.at = at] EXCEPT !.id = n] \in Deploys
  BY <1>1
<1>5. LET c == [r EXCEPT !.cancelled = TRUE]
      IN c \in Deploys /\ c.kind = r.kind /\ c.at = r.at /\ c.id = r.id
  BY <1>1
<1>6. r.wave < Waves => [[r EXCEPT !.at = at] EXCEPT !.wave = @ + 1] \in Deploys
  BY <1>1, <1>3
<1> HIDE DEF Deploys
<1> QED  BY <1>2, <1>4, <1>5, <1>6

(* A prompt that waits for its turn is still one when it is taken. *)
LEMMA StartMoves ==
    ASSUME NEW r, IsTask(r), r.kind = "start", NEW at \in {"wait", "slot"}, NEW n \in Nat
    PROVE  IsTask([[r EXCEPT !.at = at] EXCEPT !.id = n])
<1>1. r \in [kind : {"start"}, for : {"review", "verify", "wrapup"}, id : Nat, at : {"wait", "slot"}]
  BY DEF IsTask, Free
<1> QED  BY <1>1 DEF IsTask

(* Tasks with one of them replaced are tasks. *)
LEMMA Put ==
    ASSUME NEW ts, AreTasks(ts), NEW t \in Tasks, NEW r, IsTask(r)
    PROVE  AreTasks([ts EXCEPT ![t] = r])
  BY DEF AreTasks

(* The deploys at work are where they were. *)
SameWork(ts) ==
    \A u \in Tasks : Deploying(u) =>
        ts[u].kind = tasks[u].kind /\ ts[u].at = tasks[u].at /\ ts[u].id = tasks[u].id

(* Cancelling the deploy in the slot changes that deploy alone. *)
LEMMA DeployCancelled ==
    ASSUME AreTasks(tasks), SlotOK
    PROVE  /\ AreTasks(WithoutDeploy)
           /\ \A t \in Tasks : t # slot => WithoutDeploy[t] = tasks[t]
           /\ SameWork(WithoutDeploy)
           /\ \A t \in Tasks : WithoutDeploy[t].kind = "deploy" /\ WithoutDeploy[t].at \in {"spawned", "taken"} => ~WithoutDeploy[t].cancelled
<1>1. CASE slot = None
  BY <1>1, NoneAssumption DEF WithoutDeploy, SameWork, SlotOK
<1>2. CASE slot # None
  <2>1. slot \in Tasks /\ IsTask(tasks[slot]) /\ tasks[slot].kind = "deploy"
    BY <1>2 DEF SlotOK, Placed, AreTasks
  <2> DEFINE c == [tasks[slot] EXCEPT !.cancelled = TRUE]
  <2>2. IsTask(c) /\ c.kind = tasks[slot].kind /\ c.at = tasks[slot].at /\ c.id = tasks[slot].id
    BY <2>1, DeployMoves DEF DeployAts
  <2>3. WithoutDeploy = [tasks EXCEPT ![slot] = c]
    BY <1>2 DEF WithoutDeploy
  <2> HIDE DEF c
  <2>4. AreTasks(WithoutDeploy)
    BY <2>1, <2>2, <2>3, Put
  <2>5. \A t \in Tasks : WithoutDeploy[t] = IF t = slot THEN c ELSE tasks[t]
    BY <2>1, <2>3 DEF AreTasks
  <2>6. c.at \notin {"spawned", "taken"}
    BY <1>2, <2>2 DEF SlotOK, Placed
  <2> QED  BY <2>2, <2>4, <2>5, <2>6 DEF SameWork, SlotOK
<1> QED  BY <1>1, <1>2

(* Cancelling the turn that runs changes that turn alone. *)
LEMMA TurnCancelled ==
    ASSUME NEW ts, AreTasks(ts), current # None => current \in Tasks /\ ts[current].kind = "turn"
    PROVE  /\ AreTasks(WithoutTurn(ts))
           /\ \A t \in Tasks : t # current => WithoutTurn(ts)[t] = ts[t]
           /\ \A t \in Tasks : t = current => WithoutTurn(ts)[t].kind = "turn" /\ ts[t].kind = "turn"
<1>1. CASE current = None
  BY <1>1, NoneAssumption DEF WithoutTurn
<1>2. CASE current # None
  <2> DEFINE c == [ts[current] EXCEPT !.cancelled = TRUE]
  <2>0. current \in Tasks /\ IsTask(ts[current]) /\ ts[current].kind = "turn" /\ AreTasks(ts)
    BY <1>2 DEF AreTasks
  <2>1. IsTask(c) /\ c.kind = "turn"
    BY <2>0, TurnMoves DEF TurnAts
  <2>2. WithoutTurn(ts) = [ts EXCEPT ![current] = c]
    BY <1>2 DEF WithoutTurn
  <2> HIDE DEF c
  <2>3. AreTasks(WithoutTurn(ts))
    BY <2>0, <2>1, <2>2 DEF AreTasks
  <2>4. \A t \in Tasks : WithoutTurn(ts)[t] = IF t = current THEN c ELSE ts[t]
    BY <2>0, <2>2 DEF AreTasks
  <2> QED  BY <2>0, <2>1, <2>3, <2>4
<1> QED  BY <1>1, <1>2

(* A turn that is started, or a prompt that is queued. *)
LEMMA TurnStarted ==
    ASSUME NEW ts, AreTasks(ts), NEW for \in Fors, start_turn(for, ts)
    PROVE  AreTasks(tasks')
  BY NewTasks, NewIsFree, Put DEF start_turn

(* A task that is spawned is one of the tasks. *)
LEMMA TaskSpawned ==
    ASSUME NEW ts, AreTasks(ts), NEW r, IsTask(r), spawn(r, ts)
    PROVE  AreTasks(tasks')
  BY NewIsFree, Put DEF spawn

(* The goals a goal can begin as. *)
LEMMA Beginnings ==
    /\ Idle \in Goals /\ Idle.phase = "idle"
    /\ \A id \in Nat, auto \in BOOLEAN : new_goal(id, auto) \in Goals /\ new_goal(id, auto).phase = "planning"
<1>1. 0 \in 0 .. MaxRevisions /\ 0 \in 0 .. MaxIterations /\ "idle" \in Phases /\ "planning" \in Phases
  BY GoalModeAssumption DEF Phases
<1>2. Idle \in Goals /\ Idle.phase = "idle"
  BY <1>1 DEF Idle, Goals
<1> QED  BY <1>1, <1>2 DEF new_goal, Goals

(* A turn or a deploy that takes a step is still one. *)
LEMMA Stepped ==
    ASSUME AreTasks(tasks), NEW t \in Tasks,
           NEW at, (tasks[t].kind = "turn" /\ at \in TurnAts) \/ (tasks[t].kind = "deploy" /\ at \in DeployAts)
    PROVE  AreTasks(Step(t, at))
<1>1. IsTask(tasks[t])  BY DEF AreTasks
<1>2. IsTask([tasks[t] EXCEPT !.at = at])
  <2>1. CASE tasks[t].kind = "turn" /\ at \in TurnAts  BY <1>1, <2>1, TurnMoves
  <2>2. CASE tasks[t].kind = "deploy" /\ at \in DeployAts  BY <1>1, <2>2, DeployMoves
  <2> QED  BY <2>1, <2>2
<1> QED  BY <1>2, Put DEF Step

(* Stopping all work moves no deploy. *)
LEMMA WorkStopped ==
    ASSUME AreTasks(tasks), CurrentOK, SlotOK, StopWork
    PROVE  /\ AreTasks(tasks')
           /\ \A t \in Tasks : t # slot /\ t # current => tasks'[t] = tasks[t]
           /\ SameWork(tasks')
           /\ \A t \in Tasks : tasks'[t].kind = "deploy" /\ tasks'[t].at \in {"spawned", "taken"} => ~tasks'[t].cancelled
<1>1. AreTasks(WithoutDeploy) /\ SameWork(WithoutDeploy)  BY DeployCancelled
<1>2. current # None => current \in Tasks /\ WithoutDeploy[current] = tasks[current] /\ tasks[current].kind = "turn"
  BY DeployCancelled DEF CurrentOK, Holds, SlotOK, Placed
<1>3. tasks' = WithoutTurn(WithoutDeploy)  BY DEF StopWork
<1>4. AreTasks(tasks') /\ \A t \in Tasks : t # current => tasks'[t] = WithoutDeploy[t]
  BY <1>1, <1>2, <1>3, TurnCancelled
<1>5. \A t \in Tasks : Deploying(t) => t # current
  BY NoneAssumption DEF CurrentOK, Holds, Deploying
<1>6. SameWork(tasks')
  BY <1>1, <1>4, <1>5 DEF SameWork
<1>7. current \in Tasks => tasks'[current].kind = "turn"
  BY <1>1, <1>2, <1>3, TurnCancelled, NoneAssumption
<1> QED  BY <1>4, <1>6, <1>7, DeployCancelled

(* A step that puts no goal to work and leaves every working deploy alone. *)
LEMMA WorkKept ==
    ASSUME WorkOK, SameWork(tasks'),
           goal'.phase \notin AtWork \/ (goal'.phase = goal.phase /\ goal'.id = goal.id)
    PROVE  WorkOK'
  BY DEF WorkOK, Deploying, Is, AtWork, SameWork

-----------------------------------------------------------------------------
(* Every step keeps it. *)

(* No goal that begins is at work yet. *)
LEMMA StartGoalInv ==
    ASSUME IInv, StartGoal PROVE IInv'
<1>1. goal' \in Goals
  <2>1. used.goals + 1 \in Nat
    BY DEF IInv, RestOK
  <2> QED  BY <2>1, Beginnings DEF StartGoal
<1>2. AreTasks(tasks)'
  BY DeployCancelled DEF IInv, StartGoal
<1>3. CurrentOK'
  BY DEF IInv, StartGoal, CurrentOK, Holds, WithoutDeploy
<1>4. SlotOK'
  BY DEF IInv, StartGoal, SlotOK, Placed, WithoutDeploy
<1>5. WorkOK'
  BY DEF IInv, StartGoal, WorkOK, new_goal
<1>6. RestOK'
  BY DEF IInv, StartGoal, RestOK
<1> QED  BY <1>1, <1>2, <1>3, <1>4, <1>5, <1>6 DEF IInv

(* A planning turn takes the slot of turns or waits in the queue. *)
LEMMA StartPlanningInv ==
    ASSUME IInv, StartPlanning PROVE IInv'
<1>1. goal' \in Goals
  BY DEF IInv, StartPlanning
<1>2. AreTasks(tasks)'
  BY TurnStarted DEF IInv, StartPlanning, Fors
<1>3. CurrentOK'
  BY NewIsFree DEF IInv, StartPlanning, AreTasks, CurrentOK, Holds, start_turn, Turn
<1>4. SlotOK'
  BY NewIsFree DEF IInv, StartPlanning, AreTasks, SlotOK, Placed, start_turn, Turn, Free
<1>5. WorkOK'
  BY NewIsFree DEF IInv, StartPlanning, AreTasks, WorkOK, Deploying, start_turn, Is, Free
<1>6. RestOK'
  BY DEF IInv, StartPlanning, RestOK, start_turn
<1> QED  BY <1>1, <1>2, <1>3, <1>4, <1>5, <1>6 DEF IInv

(* A goal that is revised is planned again, and is not at work. *)
LEMMA ReviseGoalInv ==
    ASSUME IInv, ReviseGoal PROVE IInv'
<1>1. goal' \in Goals
  BY Planned DEF IInv, ReviseGoal, Phases
<1>2. AreTasks(tasks)'
  BY DeployCancelled DEF IInv, ReviseGoal
<1>3. CurrentOK'
  BY DEF IInv, ReviseGoal, CurrentOK, Holds, WithoutDeploy
<1>4. SlotOK'
  BY DEF IInv, ReviseGoal, SlotOK, Placed, WithoutDeploy
<1>5. WorkOK'
  <2>1. "planning" \in Phases /\ goal' = replan(goal, "planning") /\ goal \in Goals
    BY DEF IInv, ReviseGoal, Phases
  <2>2. goal'.id = goal.id /\ (goal'.phase = "planning" \/ goal'.phase = goal.phase)
    BY <2>1, Planned
  <2>3. goal'.phase \notin AtWork \/ (goal'.phase = goal.phase /\ goal'.id = goal.id)
    BY <2>2 DEF AtWork
  <2>4. SameWork(tasks')
    BY DeployCancelled DEF IInv, ReviseGoal
  <2> QED  BY <2>3, <2>4, WorkKept DEF IInv
<1>6. RestOK'
  BY DEF IInv, ReviseGoal, RestOK, Command
<1> QED  BY <1>1, <1>2, <1>3, <1>4, <1>5, <1>6 DEF IInv

(* A deploy that is spawned holds no token yet. *)
LEMMA ApproveGoalPlanInv ==
    ASSUME IInv, ApproveGoalPlan PROVE IInv'
<1>1. goal' \in Goals
  BY DEF IInv, Goals, ApproveGoalPlan
<1>2. AreTasks(tasks)'
  BY TaskSpawned, NewTasks DEF IInv, ApproveGoalPlan
<1>3. CurrentOK'
  BY NewIsFree DEF IInv, ApproveGoalPlan, CurrentOK, Holds, spawn, Free
<1>4. SlotOK'
  BY NewIsFree DEF IInv, ApproveGoalPlan, SlotOK, Placed, spawn, Deploy, Free
<1>5. WorkOK'
  BY DEF IInv, ApproveGoalPlan, WorkOK
<1>6. RestOK'
  BY DEF IInv, ApproveGoalPlan, RestOK, Command
<1> QED  BY <1>1, <1>2, <1>3, <1>4, <1>5, <1>6 DEF IInv

(* Cancelling takes the token out of the slot with the cancellation. *)
LEMMA CancelGoalInv ==
    ASSUME IInv, CancelGoal PROVE IInv'
<1>1. goal' \in Goals
  BY DEF IInv, CancelGoal
<1>2. AreTasks(tasks)'
  BY WorkStopped DEF IInv, CancelGoal
<1>3. CurrentOK'
  BY DEF IInv, CancelGoal, CurrentOK, StopWork
<1>4. SlotOK'
  BY NewIsFree, NoneAssumption DEF IInv, CancelGoal, AreTasks, IsTask, CurrentOK, SlotOK, Holds,
     Placed, WithoutDeploy, WithoutTurn, StopWork, start_turn, Command, Turn, Free
<1>5. WorkOK'
  <2>1. goal'.phase \notin AtWork \/ (goal'.phase = goal.phase /\ goal'.id = goal.id)
    BY DEF CancelGoal
  <2>2. SameWork(tasks')
    BY WorkStopped DEF IInv, CancelGoal
  <2> QED  BY <2>1, <2>2, WorkKept DEF IInv
<1>6. RestOK'
  <2>1. queue' = None /\ wrapup' = FALSE /\ pending' \in {pending, "cancel"}
    BY DEF CancelGoal, StopWork
  <2>2. used' \in [goals : Nat, commands : Nat]
    BY DEF IInv, RestOK, CancelGoal, Command
  <2> QED  BY <2>1, <2>2 DEF IInv, RestOK
<1> QED  BY <1>1, <1>2, <1>3, <1>4, <1>5, <1>6 DEF IInv

(* A goal that is cancelled is not at work. *)
LEMMA FinishCancelInv ==
    ASSUME IInv, FinishCancel PROVE IInv'
<1>1. goal' \in Goals
  BY Stopped DEF IInv, FinishCancel, cancel_goal
<1>2. AreTasks(tasks)'
  BY DEF IInv, FinishCancel
<1>3. CurrentOK'
  BY DEF IInv, FinishCancel, CurrentOK
<1>4. SlotOK'
  BY DEF IInv, FinishCancel, SlotOK
<1>5. WorkOK'
  BY Stopped DEF IInv, FinishCancel, WorkOK, Deploying, cancel_goal, Is
<1>6. RestOK'
  BY DEF IInv, FinishCancel, RestOK
<1> QED  BY <1>1, <1>2, <1>3, <1>4, <1>5, <1>6 DEF IInv

(* An abort cancels the deploy in the slot and the turn that runs. *)
LEMMA AbortInv ==
    ASSUME IInv, Abort PROVE IInv'
<1>1. goal' \in Goals
  BY Stopped DEF IInv, Abort, cancel_goal
<1>2. AreTasks(tasks)'
  BY WorkStopped DEF IInv, Abort
<1>3. CurrentOK'
  BY DEF IInv, Abort, CurrentOK, StopWork
<1>4. SlotOK'
  BY NewIsFree, NoneAssumption DEF IInv, Abort, AreTasks, IsTask, CurrentOK, SlotOK, Holds, Placed,
     WithoutDeploy, WithoutTurn, StopWork, start_turn, Command, Turn, Free
<1>5. WorkOK'
  <2>1. goal'.phase \notin AtWork \/ (goal'.phase = goal.phase /\ goal'.id = goal.id)
    BY Stopped DEF IInv, Abort, cancel_goal, AtWork
  <2>2. SameWork(tasks')
    BY WorkStopped DEF IInv, Abort
  <2> QED  BY <2>1, <2>2, WorkKept DEF IInv
<1>6. RestOK'
  <2>1. queue' = None /\ wrapup' = FALSE /\ pending' \in {pending, "cancel"}
    BY DEF Abort, StopWork
  <2>2. used' \in [goals : Nat, commands : Nat]
    BY DEF IInv, RestOK, Abort, Command
  <2> QED  BY <2>1, <2>2 DEF IInv, RestOK
<1> QED  BY <1>1, <1>2, <1>3, <1>4, <1>5, <1>6 DEF IInv

(* Clear and undo leave no goal to work for. *)
LEMMA ClearWorkInv ==
    ASSUME IInv, ClearWork PROVE IInv'
<1>1. goal' \in Goals
  BY Beginnings DEF ClearWork
<1>2. AreTasks(tasks)'
  BY WorkStopped, DeployCancelled DEF IInv, ClearWork
<1>3. CurrentOK'
  BY DEF IInv, ClearWork, AreTasks, CurrentOK, SlotOK, Holds, Placed, WithoutDeploy, StopWork
<1>4. SlotOK'
  <2>1. slot' = None
    BY DEF ClearWork, StopWork
  <2> QED  BY <2>1, WorkStopped, DeployCancelled DEF IInv, ClearWork, SlotOK
<1>5. WorkOK'
  BY DEF IInv, ClearWork, WorkOK, Idle
<1>6. RestOK'
  BY DEF IInv, ClearWork, RestOK, StopWork, Command
<1> QED  BY <1>1, <1>2, <1>3, <1>4, <1>5, <1>6 DEF IInv

(* A prompt of the user touches no goal. *)
LEMMA SendInv ==
    ASSUME IInv, Send PROVE IInv'
<1>1. goal' \in Goals
  BY DEF IInv, Send
<1>2. AreTasks(tasks)'
  BY TurnStarted DEF IInv, Send, Fors
<1>3. CurrentOK'
  BY NewIsFree DEF IInv, Send, AreTasks, CurrentOK, Holds, start_turn, Turn
<1>4. SlotOK'
  BY NewIsFree DEF IInv, Send, AreTasks, SlotOK, Placed, start_turn, Turn, Free
<1>5. WorkOK'
  BY NewIsFree DEF IInv, Send, AreTasks, WorkOK, Deploying, start_turn, Is, Free
<1>6. RestOK'
  BY DEF IInv, Send, RestOK, start_turn, Command
<1> QED  BY <1>1, <1>2, <1>3, <1>4, <1>5, <1>6 DEF IInv

(* Steering frees the slot of turns. *)
LEMMA SteerInv ==
    ASSUME IInv, Steer PROVE IInv'
<1>1. goal' \in Goals
  BY DEF IInv, Steer
<1>2. AreTasks(tasks)'
  BY TurnStarted, TurnCancelled DEF IInv, CurrentOK, Holds, Steer, Fors
<1>3. CurrentOK'
  BY NewIsFree DEF IInv, Steer, AreTasks, CurrentOK, Holds, start_turn, Turn
<1>4. SlotOK'
  <2>1. CASE current = None
    BY <2>1, NewIsFree DEF IInv, Steer, AreTasks, SlotOK, Placed, start_turn, Turn, Free
  <2>2. CASE current # None
    <3>1. tasks' = WithoutTurn(tasks) /\ UNCHANGED slot /\ current \in Tasks /\ tasks[current].kind = "turn"
      BY <2>2 DEF IInv, Steer, CurrentOK, Holds
    <3>2. \A u \in Tasks : tasks'[u] = tasks[u] \/ (tasks'[u].kind = "turn" /\ tasks[u].kind = "turn")
      BY <3>1, TurnCancelled DEF IInv
    <3> QED  BY <3>1, <3>2 DEF IInv, SlotOK, Placed
  <2> QED  BY <2>1, <2>2
<1>5. WorkOK'
  BY NewIsFree DEF IInv, Steer, AreTasks, CurrentOK, Holds, WorkOK, Deploying, WithoutTurn,
     start_turn, Is, Free
<1>6. RestOK'
  BY DEF IInv, Steer, RestOK, start_turn, Command
<1> QED  BY <1>1, <1>2, <1>3, <1>4, <1>5, <1>6 DEF IInv

(* A plan that is written is not at work. *)
LEMMA WritePlanInv ==
    ASSUME IInv, NEW t \in Tasks, WritePlan(t) PROVE IInv'
<1>1. goal' \in Goals
  BY Planned DEF IInv, WritePlan
<1>2. AreTasks(tasks)'
  BY DEF IInv, WritePlan, AreTasks, IsTask, Step, Is, Free
<1>3. CurrentOK'
  BY DEF IInv, WritePlan, CurrentOK, Holds, Step
<1>4. SlotOK'
  BY DEF IInv, WritePlan, SlotOK, Placed, Step
<1>5. WorkOK'
  <2>1. goal'.phase \notin AtWork \/ (goal'.phase = goal.phase /\ goal'.id = goal.id)
    BY Planned DEF IInv, WritePlan, AtWork
  <2>2. SameWork(tasks')
    BY DEF IInv, WritePlan, Step, Is, Deploying, SameWork
  <2> QED  BY <2>1, <2>2, WorkKept DEF IInv
<1>6. RestOK'
  BY DEF IInv, WritePlan, RestOK
<1> QED  BY <1>1, <1>2, <1>3, <1>4, <1>5, <1>6 DEF IInv

(* A turn that ends goes on to what it was for. *)
LEMMA EndTurnInv ==
    ASSUME IInv, NEW t \in Tasks, EndTurn(t) PROVE IInv'
<1>1. goal' \in Goals
  BY DEF IInv, EndTurn
<1>2. AreTasks(tasks)'
  BY DEF IInv, EndTurn, AreTasks, IsTask, Is, Free
<1>3. CurrentOK'
  BY DEF IInv, EndTurn, AreTasks, CurrentOK, Holds
<1>4. SlotOK'
  BY DEF IInv, EndTurn, AreTasks, SlotOK, Placed
<1>5. WorkOK'
  BY NewIsFree, Moved, Stopped, Planned DEF IInv, EndTurn, AreTasks, IsTask, CurrentOK, SlotOK,
     Holds, Placed, WorkOK, Deploying, Goals, Phases, Is
<1>6. RestOK'
  BY DEF IInv, EndTurn, RestOK
<1> QED  BY <1>1, <1>2, <1>3, <1>4, <1>5, <1>6 DEF IInv

(* A turn that fails leaves the goal for its release. *)
LEMMA FailTurnInv ==
    ASSUME IInv, NEW t \in Tasks, FailTurn(t) PROVE IInv'
<1>1. goal' \in Goals
  BY DEF IInv, FailTurn
<1>2. AreTasks(tasks)'
  BY DEF IInv, FailTurn, AreTasks, IsTask, Step, Is, Free
<1>3. CurrentOK'
  BY DEF IInv, FailTurn, CurrentOK, Holds, Step
<1>4. SlotOK'
  BY DEF IInv, FailTurn, SlotOK, Placed, Step
<1>5. WorkOK'
  BY DEF IInv, FailTurn, WorkOK, Deploying, Step, Is
<1>6. RestOK'
  BY DEF IInv, FailTurn, RestOK
<1> QED  BY <1>1, <1>2, <1>3, <1>4, <1>5, <1>6 DEF IInv

(* Who plans spawns the deploy or waits for the user. *)
LEMMA FinishPlanningInv ==
    ASSUME IInv, NEW t \in Tasks, FinishPlanning(t) PROVE IInv'
<1>1. goal' \in Goals
  <2>1. [goal EXCEPT !.armed = FALSE] \in Goals
    BY DEF IInv, Goals
  <2> QED  BY <2>1, Stopped DEF IInv, FinishPlanning, cancel_goal, fail_goal
<1>2. AreTasks(tasks)'
  <2>1. AreTasks(Step(t, "reviewing"))
    BY Stepped DEF IInv, FinishPlanning, Is, TurnAts
  <2>2. IsTask(Deploy) /\ IsTask(Start("review", 0))
    BY NewTasks
  <2> QED  BY <2>1, <2>2, TaskSpawned DEF FinishPlanning
<1>3. CurrentOK'
  BY NewIsFree DEF IInv, FinishPlanning, AreTasks, IsTask, CurrentOK, Holds, spawn, Step, Free
<1>4. SlotOK'
  BY NewIsFree DEF IInv, FinishPlanning, AreTasks, IsTask, SlotOK, Placed, spawn, Step, Deploy,
     Start, Free
<1>5. WorkOK'
  <2>1. goal'.phase \notin AtWork \/ (goal'.phase = goal.phase /\ goal'.id = goal.id)
    BY Stopped DEF IInv, Goals, FinishPlanning, cancel_goal, fail_goal, AtWork
  <2>2. SameWork(tasks')
    BY NewIsFree DEF IInv, FinishPlanning, spawn, Free, Step, Is, AreTasks, Deploying, SameWork
  <2> QED  BY <2>1, <2>2, WorkKept DEF IInv
<1>6. RestOK'
  BY DEF IInv, FinishPlanning, RestOK
<1> QED  BY <1>1, <1>2, <1>3, <1>4, <1>5, <1>6 DEF IInv

(* Who reviews moves a goal that is reviewing. *)
LEMMA FinishReviewingInv ==
    ASSUME IInv, NEW t \in Tasks, FinishReviewing(t) PROVE IInv'
<1>1. goal' \in Goals
  BY Reviewed DEF IInv, FinishReviewing, Is, AreTasks, IsTask, Free
<1>2. AreTasks(tasks)'
  <2>1. AreTasks(Step(t, "verifying"))
    BY Stepped DEF IInv, FinishReviewing, Is, TurnAts
  <2>2. IsTask(Deploy)
    BY NewTasks
  <2> QED  BY <2>1, <2>2, TaskSpawned, TurnStarted DEF FinishReviewing, Fors
<1>3. CurrentOK'
  BY NewIsFree DEF IInv, FinishReviewing, AreTasks, IsTask, CurrentOK, Holds, start_turn, spawn,
     Step, Turn, Free
<1>4. SlotOK'
  BY NewIsFree DEF IInv, FinishReviewing, AreTasks, IsTask, SlotOK, Placed, start_turn, spawn, Step,
     Turn, Deploy, Free
<1>5. WorkOK'
  <2>1. goal'.phase \notin AtWork \/ (goal'.phase = goal.phase /\ goal'.id = goal.id)
    BY Reviewed DEF IInv, FinishReviewing, Is, AreTasks, IsTask, Free
  <2>2. SameWork(tasks')
    BY NewIsFree DEF IInv, FinishReviewing, spawn, start_turn, Free, Step, Is, AreTasks, Deploying,
       SameWork
  <2> QED  BY <2>1, <2>2, WorkKept DEF IInv
<1>6. RestOK'
  BY DEF IInv, FinishReviewing, RestOK, start_turn
<1> QED  BY <1>1, <1>2, <1>3, <1>4, <1>5, <1>6 DEF IInv

(* Who verifies moves a goal that is verifying or synthesizing. *)
LEMMA FinishVerifyingInv ==
    ASSUME IInv, NEW t \in Tasks, FinishVerifying(t) PROVE IInv'
<1>1. goal' \in Goals
  BY Verified, Summarized DEF IInv, FinishVerifying, Is, AreTasks, IsTask, Free
<1>2. AreTasks(tasks)'
  <2> DEFINE at == IF tasks[t].drained THEN "complete" ELSE "release"
             next == [Step(t, at) EXCEPT ![t].aborted = FALSE]
  <2>1. next = [tasks EXCEPT ![t] = [[tasks[t] EXCEPT !.at = at] EXCEPT !.aborted = FALSE]]
    BY DEF IInv, AreTasks, Step
  <2>2. at \in TurnAts /\ IsTask(tasks[t]) /\ tasks[t].kind = "turn"
    BY DEF IInv, AreTasks, FinishVerifying, Is, TurnAts
  <2>3. AreTasks(next)
    <3>1. IsTask([[tasks[t] EXCEPT !.at = at] EXCEPT !.aborted = FALSE])
      BY <2>2, TurnMoves
    <3> QED  BY <2>1, <3>1, Put DEF IInv
  <2> QED  BY <2>3, TurnStarted DEF FinishVerifying, Fors
<1>3. CurrentOK'
  BY NewIsFree DEF IInv, FinishVerifying, AreTasks, IsTask, CurrentOK, Holds, start_turn, Step,
     Turn, Free
<1>4. SlotOK'
  BY NewIsFree DEF IInv, FinishVerifying, AreTasks, IsTask, SlotOK, Placed, start_turn, Step, Turn, Free
<1>5. WorkOK'
  <2>1. goal'.phase \notin AtWork \/ (goal'.phase = goal.phase /\ goal'.id = goal.id)
    BY Verified, Summarized DEF IInv, FinishVerifying, Is, AreTasks, IsTask, Free
  <2>2. SameWork(tasks')
    BY NewIsFree DEF IInv, FinishVerifying, start_turn, Free, Step, Is, AreTasks, Deploying, SameWork
  <2> QED  BY <2>1, <2>2, WorkKept DEF IInv
<1>6. RestOK'
  BY DEF IInv, FinishVerifying, RestOK, start_turn
<1> QED  BY <1>1, <1>2, <1>3, <1>4, <1>5, <1>6 DEF IInv

(* A turn that is released gives up the slot it holds. *)
LEMMA ReleaseInv ==
    ASSUME IInv, NEW t \in Tasks, Release(t) PROVE IInv'
<1>1. goal' \in Goals
  BY DEF IInv, Release
<1>2. AreTasks(tasks)'
  BY DEF IInv, Release, AreTasks, IsTask, Step, Is, Free
<1>3. CurrentOK'
  BY DEF IInv, Release, CurrentOK, Step
<1>4. SlotOK'
  BY DEF IInv, Release, SlotOK, Placed, Step
<1>5. WorkOK'
  BY DEF IInv, Release, WorkOK, Deploying, Step, Is
<1>6. RestOK'
  BY DEF IInv, Release, RestOK
<1> QED  BY <1>1, <1>2, <1>3, <1>4, <1>5, <1>6 DEF IInv

(* The next turn takes a slot that nobody holds. *)
LEMMA DrainInv ==
    ASSUME IInv, NEW t \in Tasks, Drain(t) PROVE IInv'
<1>1. goal' \in Goals
  BY DEF IInv, Drain
<1>2. AreTasks(tasks)'
  <2>1. IsTask(tasks[t]) /\ tasks[t].kind = "turn" /\ tasks[t].cancelled \in BOOLEAN
    BY DEF IInv, AreTasks, Drain, Is, IsTask, Free
  <2>2. CASE wrapup
    <3>1. tasks' = [tasks EXCEPT ![t] = [[[tasks[t] EXCEPT !.at = "reviewing"] EXCEPT !.drained = TRUE]
                                           EXCEPT !.aborted = tasks[t].cancelled]]
      BY <2>2 DEF IInv, AreTasks, Drain
    <3> QED  BY <2>1, <3>1, TurnMoves, Put DEF IInv, TurnAts
  <2>3. CASE ~wrapup
    BY <2>1, <2>3, Stepped DEF IInv, Drain, TurnAts
  <2> QED  BY <2>2, <2>3
<1>3. CurrentOK'
  BY DEF IInv, Drain, AreTasks, CurrentOK, Holds, Step, Is
<1>4. SlotOK'
  BY DEF IInv, Drain, AreTasks, SlotOK, Placed, Step
<1>5. WorkOK'
  <2>1. goal'.phase \notin AtWork \/ (goal'.phase = goal.phase /\ goal'.id = goal.id)
    BY DEF Drain
  <2>2. SameWork(tasks')
    BY DEF IInv, Drain, Step, Is, AreTasks, Deploying, SameWork
  <2> QED  BY <2>1, <2>2, WorkKept DEF IInv
<1>6. RestOK'
  BY DEF IInv, Drain, RestOK, Step, Is
<1> QED  BY <1>1, <1>2, <1>3, <1>4, <1>5, <1>6 DEF IInv

(* A turn that is complete is gone, or the turn of the prompt that waited. *)
LEMMA CompleteInv ==
    ASSUME IInv, NEW t \in Tasks, Complete(t) PROVE IInv'
<1>1. goal' \in Goals
  BY DEF IInv, Complete
<1>2. AreTasks(tasks)'
  BY NewTasks, Put DEF IInv, RestOK, Complete, Fors
<1>3. CurrentOK'
  BY DEF IInv, Complete, AreTasks, CurrentOK, Holds, Is, Turn
<1>4. SlotOK'
  BY DEF IInv, Complete, AreTasks, SlotOK, Placed, Is, Turn, Free
<1>5. WorkOK'
  BY DEF IInv, Complete, AreTasks, WorkOK, Deploying, Is
<1>6. RestOK'
  BY DEF IInv, Complete, RestOK
<1> QED  BY <1>1, <1>2, <1>3, <1>4, <1>5, <1>6 DEF IInv

(* A deploy cancels the one whose token it takes out. *)
LEMMA TakeSlotInv ==
    ASSUME IInv, NEW t \in Tasks, TakeSlot(t) PROVE IInv'
<1>1. goal' \in Goals
  BY DEF IInv, TakeSlot
<1>2. AreTasks(tasks)'
  <2> tasks[t].kind = "deploy" /\ t # slot
    BY NoneAssumption DEF IInv, TakeSlot, Is, SlotOK, Placed
  <2>1. AreTasks(WithoutDeploy) /\ WithoutDeploy[t] = tasks[t]
    BY DeployCancelled DEF IInv
  <2>2. IsTask([tasks[t] EXCEPT !.at = "taken"])
    BY <2>1, DeployMoves DEF IInv, AreTasks, DeployAts
  <2>3. tasks' = [WithoutDeploy EXCEPT ![t] = [tasks[t] EXCEPT !.at = "taken"]]
    BY <2>1 DEF TakeSlot
  <2> QED  BY <2>1, <2>2, <2>3, Put
<1>3. CurrentOK'
  BY DEF IInv, TakeSlot, AreTasks, CurrentOK, SlotOK, Holds, Placed, WithoutDeploy, Is
<1>4. SlotOK'
  BY NewIsFree, NoneAssumption DEF IInv, TakeSlot, AreTasks, IsTask, CurrentOK, SlotOK, Holds,
     Placed, WithoutDeploy, WithoutTurn, StopWork, start_turn, spawn, Command, Step, Is, Turn,
     Deploy, Start, Free, new_goal, Idle
<1>5. WorkOK'
  <2>1. goal'.phase \notin AtWork \/ (goal'.phase = goal.phase /\ goal'.id = goal.id)
    BY DEF TakeSlot
  <2>2. SameWork(tasks')
    BY DeployCancelled DEF IInv, TakeSlot, Is, Deploying, SameWork
  <2> QED  BY <2>1, <2>2, WorkKept DEF IInv
<1>6. RestOK'
  BY DEF IInv, TakeSlot, RestOK
<1> QED  BY <1>1, <1>2, <1>3, <1>4, <1>5, <1>6 DEF IInv

(* A deploy whose token is placed is not cancelled. *)
LEMMA PlaceTokenInv ==
    ASSUME IInv, NEW t \in Tasks, PlaceToken(t) PROVE IInv'
<1>1. goal' \in Goals
  BY DEF IInv, PlaceToken
<1>2. AreTasks(tasks)'
  BY DEF IInv, PlaceToken, AreTasks, IsTask, Step, Is, Free
<1>3. CurrentOK'
  BY DEF IInv, PlaceToken, CurrentOK, Holds, Step, Is
<1>4. SlotOK'
  BY DEF IInv, PlaceToken, AreTasks, IsTask, SlotOK, Placed, Step, Is, Free
<1>5. WorkOK'
  BY DEF IInv, PlaceToken, WorkOK, Deploying, Step, Is
<1>6. RestOK'
  BY DEF IInv, PlaceToken, RestOK
<1> QED  BY <1>1, <1>2, <1>3, <1>4, <1>5, <1>6 DEF IInv

(* The deploy that makes the goal deploying comes to its wave. *)
LEMMA BeginDeployInv ==
    ASSUME IInv, NEW t \in Tasks, BeginDeploy(t) PROVE IInv'
<1>1. goal' \in Goals
  <2>1. [goal EXCEPT !.armed = FALSE] \in Goals /\ "deploying" \in Phases
    BY DEF IInv, Goals, Phases
  <2> QED  BY <2>1, Moved DEF IInv, BeginDeploy
<1>2. AreTasks(tasks)'
  BY DEF IInv, BeginDeploy, AreTasks, IsTask, Step, Is, Free
<1>3. CurrentOK'
  BY DEF IInv, BeginDeploy, AreTasks, CurrentOK, Holds, Step, Is
<1>4. SlotOK'
  BY DEF IInv, BeginDeploy, AreTasks, IsTask, SlotOK, Placed, Step, Free
<1>5. WorkOK'
  <2>1. CASE ~goal.plan
    <3>1. UNCHANGED goal /\ \A u \in Tasks : Deploying(u) => tasks'[u] = tasks[u]
      BY <2>1 DEF IInv, AreTasks, BeginDeploy, Step, Is, Deploying
    <3> QED  BY <3>1, WorkKept DEF IInv, SameWork
  <2>2. CASE goal.plan
    <3> DEFINE g == [goal EXCEPT !.armed = FALSE]
    <3>1. g \in Goals /\ g.phase = goal.phase /\ g.id = goal.id /\ goal' = transition(g, "deploying")
      BY <2>2 DEF IInv, Goals, BeginDeploy
    <3>2. goal'.id = goal.id
      BY <3>1, Moved DEF Phases, Goals
    <3>3. Is(t, "deploy", "wave")' /\ tasks'[t].id = goal.id
      <4>1. tasks' = [tasks EXCEPT ![t] = [[tasks[t] EXCEPT !.at = "wave"] EXCEPT !.id = goal.id]]
        BY <2>2 DEF IInv, AreTasks, BeginDeploy
      <4>2. tasks'[t] = [[tasks[t] EXCEPT !.at = "wave"] EXCEPT !.id = goal.id]
        BY <4>1 DEF IInv, AreTasks
      <4>3. tasks[t] \in [kind : {"deploy"}, id : Nat, cancelled : BOOLEAN, wave : 1 .. Waves, at : DeployAts]
        BY DEF IInv, AreTasks, IsTask, BeginDeploy, Is, Free, DeployAts
      <4> QED  BY <4>2, <4>3 DEF Is
    <3> QED  BY <3>2, <3>3 DEF WorkOK, Deploying, Is
  <2> QED  BY <2>1, <2>2
<1>6. RestOK'
  BY DEF IInv, BeginDeploy, RestOK
<1> QED  BY <1>1, <1>2, <1>3, <1>4, <1>5, <1>6 DEF IInv

(* The deploy that makes the goal running waits for its wave. *)
LEMMA BeginWaveInv ==
    ASSUME IInv, NEW t \in Tasks, BeginWave(t) PROVE IInv'
<1>1. goal' \in Goals
  BY Moved, Stopped DEF IInv, BeginWave, Phases, cancel_goal
<1>2. AreTasks(tasks)'
  BY DEF IInv, BeginWave, AreTasks, IsTask, Step, Is, Free
<1>3. CurrentOK'
  BY DEF IInv, BeginWave, AreTasks, CurrentOK, Holds, Step, Is
<1>4. SlotOK'
  BY DEF IInv, BeginWave, AreTasks, IsTask, SlotOK, Placed, Step, Free
<1>5. WorkOK'
  <2>1. CASE tasks[t].cancelled
    BY <2>1, Stopped DEF IInv, BeginWave, cancel_goal, is_active, WorkOK
  <2>2. CASE ~tasks[t].cancelled
    <3>1. goal' = transition(goal, "running") /\ "running" \in Phases /\ goal \in Goals
      BY <2>2 DEF IInv, BeginWave, Phases
    <3>2. goal'.id = goal.id
      BY <3>1, Moved DEF Goals
    <3>3. goal'.phase = IF goal.phase \in AtWork THEN "running" ELSE goal.phase
      BY <3>1, Moved DEF validate_transition, Forward, AtWork
    <3>4. \A u \in Tasks : Deploying(u) => Deploying(u)' /\ tasks'[u].id = tasks[u].id
      <4>1. tasks'[t] = [tasks[t] EXCEPT !.at = "join"] /\ \A u \in Tasks : u # t => tasks'[u] = tasks[u]
        BY <2>2 DEF IInv, AreTasks, BeginWave, Step
      <4>2. tasks[t] \in [kind : {"deploy"}, id : Nat, cancelled : BOOLEAN, wave : 1 .. Waves, at : DeployAts]
        BY DEF IInv, AreTasks, IsTask, BeginWave, Is, Free, DeployAts
      <4> QED  BY <4>1, <4>2 DEF Deploying
    <3> QED  BY <3>2, <3>3, <3>4 DEF IInv, WorkOK, AtWork, Deploying, Is
  <2> QED  BY <2>1, <2>2
<1>6. RestOK'
  BY DEF IInv, BeginWave, RestOK
<1> QED  BY <1>1, <1>2, <1>3, <1>4, <1>5, <1>6 DEF IInv

(* A deploy whose wave is over is at work still. *)
LEMMA EndWaveInv ==
    ASSUME IInv, NEW t \in Tasks, EndWave(t) PROVE IInv'
<1>1. goal' \in Goals
  BY DEF IInv, EndWave
<1>2. AreTasks(tasks)'
  <2>1. IsTask(tasks[t]) /\ tasks[t].kind = "deploy"
    BY DEF IInv, AreTasks, EndWave, Is
  <2>2. CASE tasks[t].wave < Waves
    <3>1. tasks' = [tasks EXCEPT ![t] = [[tasks[t] EXCEPT !.at = "wave"] EXCEPT !.wave = @ + 1]]
      BY <2>2 DEF IInv, AreTasks, EndWave
    <3> QED  BY <2>1, <2>2, <3>1, DeployMoves, Put DEF IInv, DeployAts
  <2>3. CASE ~(tasks[t].wave < Waves)
    BY <2>1, <2>3, Stepped DEF IInv, EndWave, DeployAts
  <2> QED  BY <2>2, <2>3
<1>3. CurrentOK'
  BY DEF IInv, EndWave, AreTasks, CurrentOK, Holds, Step, Is
<1>4. SlotOK'
  BY DEF IInv, EndWave, AreTasks, SlotOK, Placed, Step
<1>5. WorkOK'
  <2>1. \A u \in Tasks : Is(u, "deploy", "wave") => tasks'[u] = tasks[u]
    BY DEF IInv, AreTasks, EndWave, Step, Is
  <2>2. \A u \in Tasks : Deploying(u) => Deploying(u)' /\ tasks'[u].id = tasks[u].id
    BY DEF IInv, AreTasks, EndWave, Step, Deploying
  <2> QED  BY <2>1, <2>2 DEF IInv, EndWave, WorkOK, Is
<1>6. RestOK'
  BY DEF IInv, EndWave, RestOK
<1> QED  BY <1>1, <1>2, <1>3, <1>4, <1>5, <1>6 DEF IInv

(* The deploy of a goal that is running takes it out of running as it ends. *)
LEMMA EndDeployInv ==
    ASSUME IInv, NEW t \in Tasks, EndDeploy(t) PROVE IInv'
<1>1. goal' \in Goals
  BY Moved, Stopped DEF IInv, EndDeploy, Goals, Phases, cancel_goal
<1>2. AreTasks(tasks)'
  BY DEF IInv, EndDeploy, AreTasks, IsTask, Step, Is, Free
<1>3. CurrentOK'
  BY DEF IInv, EndDeploy, AreTasks, CurrentOK, Holds, Step, Is
<1>4. SlotOK'
  BY DEF IInv, EndDeploy, AreTasks, IsTask, SlotOK, Placed, Step, Free
<1>5. WorkOK'
  <2>1. \A u \in Tasks : u # t => tasks'[u] = tasks[u]
    BY DEF IInv, AreTasks, EndDeploy, Step
  <2>2. tasks[t].at = "end"
    BY DEF EndDeploy, Is
  <2>3. CASE goal.id # tasks[t].id
    BY <2>1, <2>3 DEF IInv, EndDeploy, WorkOK, Deploying, Is
  <2>4. CASE goal.id = tasks[t].id /\ tasks[t].cancelled
    BY <2>4, Stopped DEF IInv, EndDeploy, cancel_goal, is_active, WorkOK
  <2>5. CASE goal.id = tasks[t].id /\ ~tasks[t].cancelled
    <3>1. goal' = transition(goal, IF CEO THEN "verifying" ELSE "synthesizing") /\ goal \in Goals
      BY <2>5 DEF IInv, EndDeploy
    <3>2. goal'.id = goal.id /\ goal'.phase # "running"
          /\ (goal'.phase = "deploying" => goal.phase = "deploying")
      BY <3>1, Moved DEF Goals, Phases, validate_transition, Forward
    <3> QED  BY <2>1, <2>2, <3>2 DEF IInv, WorkOK, Is
  <2> QED  BY <2>3, <2>4, <2>5
<1>6. RestOK'
  BY DEF IInv, EndDeploy, RestOK
<1> QED  BY <1>1, <1>2, <1>3, <1>4, <1>5, <1>6 DEF IInv

(* The deploy that ends gives up its token and may leave a prompt to start. *)
LEMMA FollowUpInv ==
    ASSUME IInv, NEW t \in Tasks, FollowUp(t) PROVE IInv'
<1>1. goal' \in Goals
  BY DEF IInv, FollowUp
<1>2. AreTasks(tasks)'
  <2>1. goal.id \in Nat
    BY DEF IInv, Goals
  <2> QED  BY <2>1, NewTasks, Put DEF IInv, FollowUp
<1>3. CurrentOK'
  BY DEF IInv, FollowUp, CurrentOK, Holds, Is
<1>4. SlotOK'
  BY DEF IInv, FollowUp, SlotOK, Placed, Start, Free
<1>5. WorkOK'
  BY DEF IInv, FollowUp, WorkOK, Deploying, Is
<1>6. RestOK'
  BY DEF IInv, FollowUp, RestOK
<1> QED  BY <1>1, <1>2, <1>3, <1>4, <1>5, <1>6 DEF IInv

(* A review begins only of a goal that is not at work. *)
LEMMA BeginReviewInv ==
    ASSUME IInv, NEW t \in Tasks, BeginReview(t) PROVE IInv'
<1>1. goal' \in Goals
  BY Moved DEF IInv, BeginReview, Phases
<1>2. AreTasks(tasks)'
  BY DEF IInv, BeginReview, AreTasks, IsTask, Is, Free
<1>3. CurrentOK'
  BY DEF IInv, BeginReview, AreTasks, CurrentOK, Holds, Is
<1>4. SlotOK'
  BY DEF IInv, BeginReview, AreTasks, IsTask, SlotOK, Placed, Is, Free
<1>5. WorkOK'
  BY Moved DEF IInv, BeginReview, AreTasks, WorkOK, Deploying, Phases, Is
<1>6. RestOK'
  BY DEF IInv, BeginReview, RestOK
<1> QED  BY <1>1, <1>2, <1>3, <1>4, <1>5, <1>6 DEF IInv

(* A prompt that starts takes the slot of turns when nobody holds it. *)
LEMMA StartParentInv ==
    ASSUME IInv, NEW t \in Tasks, StartParent(t) PROVE IInv'
<1>1. goal' \in Goals
  BY DEF IInv, StartParent
<1>2. AreTasks(tasks)'
  <2>1. tasks[t].for \in Fors
    BY DEF IInv, AreTasks, IsTask, StartParent, Is, Free, Fors
  <2> QED  BY <2>1, NewTasks, Put DEF IInv, StartParent
<1>3. CurrentOK'
  BY DEF IInv, StartParent, AreTasks, CurrentOK, Holds, Turn
<1>4. SlotOK'
  BY DEF IInv, StartParent, SlotOK, Placed, Is, Turn
<1>5. WorkOK'
  BY DEF IInv, StartParent, WorkOK, Deploying, Is
<1>6. RestOK'
  BY DEF IInv, StartParent, RestOK
<1> QED  BY <1>1, <1>2, <1>3, <1>4, <1>5, <1>6 DEF IInv

(* A prompt that is refused ends a goal that may still be ended. *)
LEMMA StartRefusedInv ==
    ASSUME IInv, NEW t \in Tasks, StartRefused(t) PROVE IInv'
<1>1. goal' \in Goals
  BY Stopped, Summarized DEF IInv, StartRefused, fail_goal
<1>2. AreTasks(tasks)'
  BY DEF IInv, StartRefused, AreTasks, IsTask
<1>3. CurrentOK'
  BY DEF IInv, StartRefused, CurrentOK, Holds, Is
<1>4. SlotOK'
  BY DEF IInv, StartRefused, SlotOK, Placed, Is, Free
<1>5. WorkOK'
  <2>1. goal'.phase \notin AtWork \/ (goal'.phase = goal.phase /\ goal'.id = goal.id)
    BY Stopped, Summarized DEF IInv, StartRefused, fail_goal, AtWork
  <2>2. SameWork(tasks')
    BY DEF IInv, StartRefused, Is, Deploying, SameWork
  <2> QED  BY <2>1, <2>2, WorkKept DEF IInv
<1>6. RestOK'
  BY DEF IInv, StartRefused, RestOK
<1> QED  BY <1>1, <1>2, <1>3, <1>4, <1>5, <1>6 DEF IInv

-----------------------------------------------------------------------------
(* The invariant holds. *)

(* No goal, no task. *)
LEMMA InitInv == Init => IInv
<1> SUFFICES ASSUME Init PROVE IInv
  OBVIOUS
<1>1. goal \in Goals /\ WorkOK
  BY Beginnings DEF Init, WorkOK
<1>2. AreTasks(tasks)
  BY NewTasks DEF Init, AreTasks
<1>3. CurrentOK /\ SlotOK
  BY DEF Init, CurrentOK, SlotOK, Free
<1>4. RestOK
  BY DEF Init, RestOK
<1> QED  BY <1>1, <1>2, <1>3, <1>4 DEF IInv

(* Every step keeps the invariant. *)
LEMMA StepInv == IInv /\ [Next]_vars => IInv'
<1> SUFFICES ASSUME IInv, [Next]_vars PROVE IInv'
  OBVIOUS
<1>1. CASE UNCHANGED vars
  BY <1>1 DEF vars, IInv, AreTasks, CurrentOK, SlotOK, WorkOK, RestOK, Is, Deploying
<1>2. CASE Dispatch
  BY <1>2, StartGoalInv, StartPlanningInv, ReviseGoalInv, ApproveGoalPlanInv, CancelGoalInv,
     FinishCancelInv,
     AbortInv, ClearWorkInv, SendInv, SteerInv DEF Dispatch
<1>3. ASSUME NEW t \in Tasks, TurnStep(t) PROVE IInv'
  BY <1>3, WritePlanInv, EndTurnInv, FailTurnInv, FinishPlanningInv, FinishReviewingInv,
     FinishVerifyingInv,
     ReleaseInv, DrainInv, CompleteInv DEF TurnStep
<1>4. ASSUME NEW t \in Tasks, DeployStep(t) PROVE IInv'
  BY <1>4, TakeSlotInv, PlaceTokenInv, BeginDeployInv, BeginWaveInv, EndWaveInv, EndDeployInv,
     FollowUpInv
     DEF DeployStep
<1>5. ASSUME NEW t \in Tasks, StartStep(t) PROVE IInv'
  BY <1>5, BeginReviewInv, StartParentInv, StartRefusedInv DEF StartStep
<1> QED  BY <1>1, <1>2, <1>3, <1>4, <1>5 DEF Next

(* The invariant holds whatever the bounds and the tasks. *)
LEMMA Invariant == Spec => []IInv
  BY InitInv, StepInv, PTL DEF Spec

(* Every state has the shape of the code's: phases, slots and queue hold what they   *)
(* may, and the budgets of a goal (max_plan_revisions, max_iterations) are kept.     *)
THEOREM TypeCorrect == Spec => []TypeOK
<1>1. IInv => TypeOK
  BY DEF IInv, Goals, AreTasks, CurrentOK, Holds, SlotOK, Placed, RestOK, TypeOK
<1> QED  BY <1>1, Invariant, PTL

(* A goal that is deploying or running always has a deploy of its own that will move *)
(* it on, whichever deploys, turns and commands of the user meet (spawn_goal_deploy, *)
(* deploy_goal).                                                                    *)
THEOREM DeployWorks == Spec => []DeployIsWorking
<1>1. IInv => DeployIsWorking
  BY DEF IInv, WorkOK, DeployIsWorking, Deploying, Is
<1> QED  BY <1>1, Invariant, PTL

(* What is over moves no more. *)
LEMMA OverMoves ==
    ASSUME NEW g \in Goals, g.phase \in Over
    PROVE  /\ cancel_goal(g) \in Goals /\ cancel_goal(g).phase = g.phase
           /\ fail_goal(g).phase = g.phase
           /\ \A to \in Phases \ (Over \cup {"planning", "blocked"}) : transition(g, to).phase = g.phase
<1>1. ~is_active(g)
  BY DEF is_active, Over
<1>2. \A to \in Phases \ (Over \cup {"planning", "blocked"}) : ~validate_transition(g.phase, to)
  BY DEF validate_transition, Forward, Over
<1> QED  BY <1>1, <1>2, Stopped, Moved DEF cancel_goal, fail_goal

(* Only what begins a goal, or forgets it, changes the phase of one that is over. *)
LEMMA OverStep ==
    ASSUME IInv, Next, goal.phase \in Over
    PROVE  goal'.phase = goal.phase \/ pending' = "plan" \/ goal' = Idle
<1> goal \in Goals
  BY DEF IInv
<1>1. CASE Dispatch
  BY <1>1, OverMoves DEF Dispatch, StartGoal, StartPlanning, ReviseGoal, ApproveGoalPlan, CancelGoal,
     FinishCancel, Abort, ClearWork, Send, Steer, Goals
<1>2. ASSUME NEW t \in Tasks, TurnStep(t)
      PROVE  goal'.phase = goal.phase
  <2>1. goal.phase \notin {"planning", "reviewing", "verifying", "synthesizing"}
    BY DEF Over
  <2>2. [goal EXCEPT !.armed = FALSE].phase = goal.phase
    BY DEF Goals
  <2> QED  BY <1>2, <2>1, <2>2 DEF TurnStep, WritePlan, EndTurn, FailTurn, FinishPlanning,
              FinishReviewing,
              FinishVerifying, Release, Drain, Complete
<1>3. ASSUME NEW t \in Tasks, DeployStep(t)
      PROVE  goal'.phase = goal.phase
  <2> DEFINE g == [goal EXCEPT !.armed = FALSE]
  <2>1. g \in Goals /\ g.phase = goal.phase
    BY DEF Goals
  <2>2. {"deploying", "running", "verifying", "synthesizing"} \subseteq Phases \ (Over \cup {"planning", "blocked"})
    BY DEF Phases, Over
  <2>3. CASE BeginDeploy(t)
    <3>1. goal' = goal \/ goal' = transition(g, "deploying")
      BY <2>3 DEF BeginDeploy
    <3> HIDE DEF g
    <3>2. transition(g, "deploying").phase = goal.phase
      BY <2>1, <2>2, OverMoves
    <3> QED  BY <3>1, <3>2
  <2>4. CASE BeginWave(t) \/ EndDeploy(t)
    BY <2>2, <2>4, OverMoves DEF BeginWave, EndDeploy
  <2> QED  BY <1>3, <2>3, <2>4 DEF DeployStep, TakeSlot, PlaceToken, EndWave, FollowUp
<1>4. ASSUME NEW t \in Tasks, StartStep(t)
      PROVE  goal'.phase = goal.phase
  BY <1>4 DEF StartStep, BeginReview, StartParent, StartRefused, Over
<1> QED  BY <1>1, <1>2, <1>3, <1>4 DEF Next

(* Nothing that is still at work when its goal is over moves the goal again, however *)
(* late it comes: only StartGoal and ReviseGoal start one, and clear and undo forget *)
(* it.                                                                              *)
THEOREM OverStaysOver == Spec => OverIsOver
<1>1. IInv /\ [Next]_vars
      => [goal.phase \in Over /\ goal'.phase # goal.phase => pending' = "plan" \/ goal' = Idle]_vars
  BY OverStep
<1> QED  BY <1>1, Invariant, PTL DEF Spec, OverIsOver
=============================================================================
