-------------------------- MODULE GoalDeployProofs --------------------------
(***************************************************************************)
(* The deploy of any plan, with any limits, runs a step on what is done,    *)
(* forgets none and leaves no worker behind, and so keeps the promises of   *)
(* StepGraph.                                                               *)
(***************************************************************************)
EXTENDS GoalDeploy, TLAPS

-----------------------------------------------------------------------------
(* The inductive invariant. *)

(* Where the deploy is, and what is spawned, handled and failed there. *)
Shape ==
    /\ deploy.spawn \cap deploy.handles = {}
    /\ deploy.at \in {"wave", "validate", "over"} => deploy.spawn = {} /\ deploy.handles = {}
    /\ deploy.at = "join" => deploy.spawn = {}
    /\ deploy.at = "validate" => deploy.ordered = Steps
    /\ deploy.failed \subseteq deploy.ordered \ (deploy.spawn \cup deploy.handles)

(* What the task of a step has made of its status. *)
Untouched(s) == worker[s] = "none" /\ status[s] = "pending"
Workers ==
    \A s \in Steps :
        /\ s \notin deploy.ordered \/ s \in deploy.spawn => Untouched(s)
        /\ s \in deploy.handles /\ worker[s] \in {"queued", "global", "begin"} => status[s] = "pending"
        /\ s \in deploy.handles /\ worker[s] = "running" => status[s] = "running"
        /\ s \in deploy.handles /\ Ended(s) /\ Accepted => status[s] = "running"
        /\ s \notin deploy.handles => worker[s] = "none" \/ Ended(s)

(* A wave depends on earlier ones, and what it runs on is done. *)
Waves ==
    /\ \A s \in deploy.ordered : deps[s] \subseteq deploy.ordered \ deploy.wave
    /\ goal = "active" => \A s \in deploy.spawn \cup deploy.handles : \A d \in deps[s] : status[d] = "done"

(* As long as results are accepted, failed_steps is what failed or was skipped. *)
Outcomes ==
    goal = "active" /\ ~cancelled =>
        /\ \A s \in deploy.ordered \ (deploy.spawn \cup deploy.handles) :
              /\ status[s] \in {"done", "failed", "skipped"}
              /\ s \in deploy.failed <=> status[s] \in {"failed", "skipped"}
        /\ \A s \in deploy.ordered : status[s] = "skipped" <=> deps[s] \cap deploy.failed # {}

(* The deploy that went through is over. *)
Worked == goal = "worked" => deploy.at = "over"

IInv == TypeOK /\ Shape /\ Workers /\ Waves /\ Outcomes /\ Worked /\ DependenciesDone /\ NothingForgotten

-----------------------------------------------------------------------------
(* Every step keeps it. *)

(* Nothing is ordered, spawned or done at first. *)
LEMMA InitInv == Init => IInv
<1> SUFFICES ASSUME Init PROVE IInv  OBVIOUS
<1>1. /\ deploy.at = "wave" /\ deploy.ordered = {} /\ deploy.wave = {} /\ deploy.spawn = {}
      /\ deploy.handles = {} /\ deploy.failed = {} /\ deploy.wave_failed = FALSE
      /\ \A s \in Steps : Untouched(s)
  BY DEF Init, Untouched
<1>2. TypeOK  BY <1>1 DEF Init, TypeOK
<1>3. Shape /\ Workers  BY <1>1, <1>2 DEF Shape, Workers, Untouched, TypeOK
<1>4. Waves /\ Outcomes  BY <1>1 DEF Waves, Outcomes
<1>5. Worked /\ NothingForgotten  BY DEF Init, Worked, NothingForgotten
<1>6. DependenciesDone  BY DEF Init, DependenciesDone
<1> QED  BY <1>2, <1>3, <1>4, <1>5, <1>6 DEF IInv

(* A wave is given only steps whose dependencies are in earlier waves. *)
LEMMA StartWaveInv ==
    ASSUME IInv, StartWave PROVE IInv'
<1>1. TypeOK'
  <2>1. CASE cancelled
    BY <2>1 DEF IInv, TypeOK, StartWave
  <2>2. CASE ~cancelled
    <3>1. /\ deploy' = [at |-> IF Skipped(Wave) = Wave THEN "wave" ELSE "spawn",
                        ordered |-> deploy.ordered \cup Wave, wave |-> Wave,
                        spawn |-> Wave \ Skipped(Wave), handles |-> {},
                        failed |-> deploy.failed \cup Skipped(Wave), wave_failed |-> FALSE]
          /\ status' = [s \in Steps |-> IF s \in Skipped(Wave) THEN "skipped" ELSE status[s]]
          /\ UNCHANGED <<deps, goal, cancelled, worker>>
      BY <2>2 DEF StartWave
    <3>2. Wave \subseteq Steps /\ Skipped(Wave) \subseteq Steps
      BY DEF Wave, Skipped
    <3> QED  BY <3>1, <3>2 DEF IInv, TypeOK
  <2> QED  BY <2>1, <2>2
<1>2. Shape'
  BY DEF IInv, StartWave, Wave, Skipped, TypeOK, Shape
<1>3. Workers'
  BY DEF IInv, StartWave, Wave, Skipped, TypeOK, Shape, Workers, Untouched, Ended
<1>4. Waves'
  BY DEF IInv, StartWave, Wave, Skipped, TypeOK, Shape, Waves, Outcomes
<1>5. Outcomes'
  BY DEF IInv, StartWave, Wave, Skipped, TypeOK, Shape, Workers, Untouched, Waves, Outcomes
<1>6. Worked'
  BY DEF IInv, StartWave, Wave, Skipped, Worked
<1>7. DependenciesDone'
  BY GoalDeployAssumption DEF IInv, StartWave, Wave, Skipped, TypeOK, Workers, Untouched,
     DependenciesDone
<1>8. NothingForgotten'
  BY DEF IInv, StartWave, Wave, Skipped, TypeOK, Workers, Untouched, NothingForgotten
<1> QED  BY <1>1, <1>2, <1>3, <1>4, <1>5, <1>6, <1>7, <1>8 DEF IInv

(* Only a step that the wave has not skipped is given a worker. *)
LEMMA SpawnInv ==
    ASSUME IInv, Spawn PROVE IInv'
<1>1. CASE cancelled
  <2>0. /\ deploy' = [deploy EXCEPT !.spawn = {}, !.at = "join"]
        /\ deploy.at = "spawn" /\ UNCHANGED <<deps, status, goal, cancelled, worker>>
    BY <1>1 DEF Spawn
  <2>1. TypeOK'
    BY <2>0 DEF IInv, TypeOK
  <2>2. Shape'
    BY <2>0 DEF IInv, Shape
  <2>3. Workers'
    BY <2>0 DEF IInv, Workers, Untouched, Ended, Accepted
  <2>4. Waves'
    BY <2>0 DEF IInv, Waves
  <2>5. Outcomes'
    BY <1>1, <2>0 DEF Outcomes
  <2>6. Worked'
    BY <2>0 DEF IInv, Worked
  <2>7. DependenciesDone'
    BY <2>0 DEF IInv, DependenciesDone
  <2>8. NothingForgotten'
    BY <2>0 DEF IInv, NothingForgotten
  <2> QED  BY <2>1, <2>2, <2>3, <2>4, <2>5, <2>6, <2>7, <2>8 DEF IInv
<1>2. CASE ~cancelled
  <2>0. PICK s \in Steps :
           /\ s \in deploy.spawn
           /\ deploy' = [deploy EXCEPT !.spawn = @ \ {s}, !.handles = @ \cup {s},
                                       !.at = IF deploy.spawn = {s} THEN "join" ELSE @]
           /\ worker' = [worker EXCEPT ![s] = "queued"]
           /\ deploy.at = "spawn" /\ UNCHANGED <<deps, status, goal, cancelled>>
    BY <1>2 DEF Spawn, First
  <2>1. TypeOK'
    <3>1. /\ deploy'.at \in {"spawn", "join"} /\ deploy'.ordered = deploy.ordered
          /\ deploy'.wave = deploy.wave /\ deploy'.failed = deploy.failed
          /\ deploy'.spawn = deploy.spawn \ {s} /\ deploy'.handles = deploy.handles \cup {s}
      BY <2>0 DEF IInv, TypeOK
    <3>2. deploy' \in [at : {"wave", "spawn", "join", "validate", "over"}, ordered : SUBSET Steps,
                   wave : SUBSET Steps, spawn : SUBSET Steps, handles : SUBSET Steps,
                   failed : SUBSET Steps, wave_failed : BOOLEAN]
      BY <2>0, <3>1 DEF IInv, TypeOK
    <3>3. worker' \in [Steps -> {"none", "queued", "global", "begin", "running", "done", "failed", "panic"}]
      BY <2>0 DEF IInv, TypeOK
    <3>4. deploy'.spawn \cup deploy'.handles \subseteq deploy'.wave /\ deploy'.wave \subseteq deploy'.ordered
      BY <2>0, <3>1 DEF IInv, TypeOK
    <3>5. deps' \in Plans /\ status' = status /\ goal' = goal /\ cancelled' = cancelled
      BY <2>0 DEF IInv, TypeOK
    <3> QED  BY <3>2, <3>3, <3>4, <3>5 DEF IInv, TypeOK
  <2>2. Shape'
    BY <2>0 DEF IInv, Shape
  <2>3. Workers'
    BY <2>0 DEF IInv, TypeOK, Workers, Untouched, Ended, Accepted
  <2>4. Waves'
    BY <2>0 DEF IInv, Waves
  <2>5. Outcomes'
    BY <2>0 DEF IInv, Outcomes
  <2>6. Worked'
    BY <2>0 DEF IInv, Worked
  <2>7. DependenciesDone'
    BY <2>0 DEF IInv, DependenciesDone
  <2>8. NothingForgotten'
    BY <2>0 DEF IInv, NothingForgotten
  <2> QED  BY <2>1, <2>2, <2>3, <2>4, <2>5, <2>6, <2>7, <2>8 DEF IInv
<1> QED  BY <1>1, <1>2

(* The outcome of a joined worker is recorded once. *)
LEMMA JoinInv ==
    ASSUME IInv, Join PROVE IInv'
<1>0. PICK s \in Steps :
         /\ s \in deploy.handles /\ Ended(s)
         /\ status' = IF Accepted THEN [status EXCEPT ![s] = Outcome(s)] ELSE status
         /\ deploy' = [deploy EXCEPT !.handles = @ \ {s},
                                     !.failed = IF Failing(s) THEN @ \cup {s} ELSE @,
                                     !.wave_failed = @ \/ Failing(s)]
         /\ deploy.at = "join" /\ UNCHANGED <<deps, goal, cancelled, worker>>
  BY DEF Join, First
<1> DEFINE failed == IF Failing(s) THEN deploy.failed \cup {s} ELSE deploy.failed
           flag == deploy.wave_failed \/ Failing(s)
<1>1. TypeOK'
  <2>1. failed \in SUBSET Steps /\ deploy.handles \ {s} \in SUBSET Steps
    BY DEF IInv, TypeOK
  <2>2. flag \in BOOLEAN
    BY DEF IInv, TypeOK, Failing, Accepted
  <2>3. deploy' = [deploy EXCEPT !.handles = deploy.handles \ {s}, !.failed = failed, !.wave_failed = flag]
    BY <1>0
  <2> HIDE DEF failed, flag
  <2>4. status' \in [Steps -> {"pending", "running", "done", "failed", "skipped"}]
    BY <1>0 DEF IInv, TypeOK, Outcome
  <2>5. deploy' \in [at : {"wave", "spawn", "join", "validate", "over"}, ordered : SUBSET Steps,
                 wave : SUBSET Steps, spawn : SUBSET Steps, handles : SUBSET Steps,
                 failed : SUBSET Steps, wave_failed : BOOLEAN]
    BY <2>1, <2>2, <2>3 DEF IInv, TypeOK
  <2>6. deploy'.spawn \cup deploy'.handles \subseteq deploy'.wave /\ deploy'.wave \subseteq deploy'.ordered
    BY <2>3 DEF IInv, TypeOK
  <2> QED  BY <1>0, <2>4, <2>5, <2>6 DEF IInv, TypeOK
<1>2. Shape'
  BY <1>0 DEF IInv, Outcome, Failing, TypeOK, Shape
<1>3. Workers'
  BY <1>0 DEF IInv, Outcome, Failing, Workers, Untouched, Ended, Accepted
<1>4. Waves'
  BY <1>0 DEF IInv, Outcome, Failing, TypeOK, Waves
<1>5. Outcomes'
  BY <1>0 DEF IInv, Outcome, Failing, TypeOK, Shape, Waves, Outcomes, Ended, Accepted
<1>6. Worked'
  BY <1>0 DEF IInv, Outcome, Failing, Worked
<1>7. DependenciesDone'
  BY <1>0 DEF IInv, Outcome, Failing, Workers, DependenciesDone
<1>8. NothingForgotten'
  BY <1>0 DEF IInv, Outcome, Failing, NothingForgotten, Accepted
<1> QED  BY <1>1, <1>2, <1>3, <1>4, <1>5, <1>6, <1>7, <1>8 DEF IInv

(* The next wave starts when no worker of this one is left. *)
LEMMA EndWaveInv ==
    ASSUME IInv, EndWave PROVE IInv'
<1>1. TypeOK'
  BY DEF IInv, EndWave, TypeOK
<1>2. Shape'
  BY DEF IInv, EndWave, Shape
<1>3. Workers'
  BY DEF IInv, EndWave, Workers, Untouched, Ended
<1>4. Waves'
  BY DEF IInv, EndWave, Waves
<1>5. Outcomes'
  BY DEF IInv, EndWave, Outcomes
<1>6. Worked'
  BY DEF IInv, EndWave, Worked
<1>7. DependenciesDone'
  BY DEF IInv, EndWave, DependenciesDone
<1>8. NothingForgotten'
  BY DEF IInv, EndWave, NothingForgotten
<1> QED  BY <1>1, <1>2, <1>3, <1>4, <1>5, <1>6, <1>7, <1>8 DEF IInv

(* A reviewer rejects steps of the last wave only. *)
LEMMA ValidateInv ==
    ASSUME IInv, Validate PROVE IInv'
<1>0. PICK bad \in SUBSET Steps :
         /\ status' = [s \in Steps |-> IF s \in bad THEN "failed" ELSE status[s]]
         /\ deploy' = [deploy EXCEPT !.at = "wave", !.failed = @ \cup bad]
         /\ UNCHANGED <<deps, goal, cancelled, worker>>
  BY DEF IInv, TypeOK, Validate
<1>1. TypeOK'
  BY <1>0 DEF IInv, TypeOK
<1>2. Shape'
  BY DEF IInv, Validate, TypeOK, Shape
<1>3. Workers'
  BY DEF IInv, Validate, Shape, Workers, Ended
<1>4. Waves'
  BY DEF IInv, Validate, TypeOK, Waves
<1>5. Outcomes'
  BY DEF IInv, Validate, TypeOK, Waves, Outcomes
<1>6. Worked'
  BY DEF IInv, Validate, Worked
<1>7. DependenciesDone'
  BY DEF IInv, Validate, Shape, Waves, DependenciesDone
<1>8. NothingForgotten'
  BY DEF IInv, Validate, Shape, Waves, NothingForgotten
<1> QED  BY <1>1, <1>2, <1>3, <1>4, <1>5, <1>6, <1>7, <1>8 DEF IInv

(* The deploy ends after its last wave. *)
LEMMA EndDeployInv ==
    ASSUME IInv, EndDeploy PROVE IInv'
<1>1. TypeOK'
  BY DEF IInv, EndDeploy, TypeOK
<1>2. Shape'
  BY DEF IInv, EndDeploy, Shape
<1>3. Workers'
  BY DEF IInv, EndDeploy, Shape, Workers, Ended
<1>4. Waves'
  BY DEF IInv, EndDeploy, Waves
<1>5. Outcomes'
  BY DEF IInv, EndDeploy, Outcomes
<1>6. Worked'
  BY DEF IInv, EndDeploy, Worked
<1>7. DependenciesDone'
  BY DEF IInv, EndDeploy, DependenciesDone
<1>8. NothingForgotten'
  BY GoalDeployAssumption DEF IInv, EndDeploy, TypeOK, Shape, Outcomes, NothingForgotten, Accepted
<1> QED  BY <1>1, <1>2, <1>3, <1>4, <1>5, <1>6, <1>7, <1>8 DEF IInv

(* A permit of the global limit moves no step. *)
LEMMA TakeGlobalInv ==
    ASSUME NEW s \in Steps, IInv, TakeGlobal(s) PROVE IInv'
<1>1. TypeOK'
  BY DEF IInv, TakeGlobal, TypeOK
<1>2. Shape'
  BY DEF IInv, TakeGlobal, Shape
<1>3. Workers'
  BY DEF IInv, TakeGlobal, Workers, Untouched, Ended, Accepted
<1>4. Waves'
  BY DEF IInv, TakeGlobal, Waves
<1>5. Outcomes'
  BY DEF IInv, TakeGlobal, Outcomes
<1>6. Worked'
  BY DEF IInv, TakeGlobal, Worked
<1>7. DependenciesDone'
  BY DEF IInv, TakeGlobal, DependenciesDone
<1>8. NothingForgotten'
  BY DEF IInv, TakeGlobal, NothingForgotten
<1> QED  BY <1>1, <1>2, <1>3, <1>4, <1>5, <1>6, <1>7, <1>8 DEF IInv

(* A permit of the model moves no step. *)
LEMMA TakeModelInv ==
    ASSUME NEW s \in Steps, IInv, TakeModel(s) PROVE IInv'
<1>1. TypeOK'
  BY DEF IInv, TakeModel, TypeOK
<1>2. Shape'
  BY DEF IInv, TakeModel, Shape
<1>3. Workers'
  BY DEF IInv, TakeModel, Workers, Untouched, Ended, Accepted
<1>4. Waves'
  BY DEF IInv, TakeModel, Waves
<1>5. Outcomes'
  BY DEF IInv, TakeModel, Outcomes
<1>6. Worked'
  BY DEF IInv, TakeModel, Worked
<1>7. DependenciesDone'
  BY DEF IInv, TakeModel, DependenciesDone
<1>8. NothingForgotten'
  BY DEF IInv, TakeModel, NothingForgotten
<1> QED  BY <1>1, <1>2, <1>3, <1>4, <1>5, <1>6, <1>7, <1>8 DEF IInv

(* A worker with its permits begins its step. *)
LEMMA BeginInv ==
    ASSUME NEW s \in Steps, IInv, Begin(s) PROVE IInv'
<1>1. TypeOK'
  BY DEF IInv, Begin, TypeOK
<1>2. Shape'
  BY DEF IInv, Begin, Shape
<1>3. Workers'
  BY DEF IInv, Begin, TypeOK, Workers, Untouched, Ended, Accepted
<1>4. Waves'
  BY DEF IInv, Begin, TypeOK, Workers, Waves, Ended
<1>5. Outcomes'
  BY DEF IInv, Begin, TypeOK, Workers, Outcomes, Ended
<1>6. Worked'
  BY DEF IInv, Begin, Worked
<1>7. DependenciesDone'
  BY GoalDeployAssumption DEF IInv, Begin, TypeOK, Workers, Waves, DependenciesDone, Ended
<1>8. NothingForgotten'
  BY DEF IInv, Begin, NothingForgotten
<1> QED  BY <1>1, <1>2, <1>3, <1>4, <1>5, <1>6, <1>7, <1>8 DEF IInv

(* A worker ends its step well or badly. *)
LEMMA WorkInv ==
    ASSUME NEW s \in Steps, IInv, Work(s) PROVE IInv'
<1>1. TypeOK'
  BY DEF IInv, Work, TypeOK
<1>2. Shape'
  BY DEF IInv, Work, Shape
<1>3. Workers'
  BY DEF IInv, Work, Workers, Untouched, Ended, Accepted
<1>4. Waves'
  BY DEF IInv, Work, Waves
<1>5. Outcomes'
  BY DEF IInv, Work, Outcomes
<1>6. Worked'
  BY DEF IInv, Work, Worked
<1>7. DependenciesDone'
  BY DEF IInv, Work, DependenciesDone
<1>8. NothingForgotten'
  BY DEF IInv, Work, NothingForgotten
<1> QED  BY <1>1, <1>2, <1>3, <1>4, <1>5, <1>6, <1>7, <1>8 DEF IInv

(* Cancelling moves no step. *)
LEMMA CancelInv ==
    ASSUME IInv, Cancel PROVE IInv'
<1>1. TypeOK'
  BY DEF IInv, Cancel, TypeOK
<1>2. Shape'
  BY DEF IInv, Cancel, Shape
<1>3. Workers'
  BY DEF IInv, Cancel, Workers, Untouched, Ended, Accepted
<1>4. Waves'
  BY DEF IInv, Cancel, Waves
<1>5. Outcomes'
  BY DEF IInv, Cancel, Outcomes
<1>6. Worked'
  BY DEF IInv, Cancel, Worked
<1>7. DependenciesDone'
  BY DEF IInv, Cancel, DependenciesDone
<1>8. NothingForgotten'
  BY DEF IInv, Cancel, NothingForgotten
<1> QED  BY <1>1, <1>2, <1>3, <1>4, <1>5, <1>6, <1>7, <1>8 DEF IInv

(* A goal that is over moves no step. *)
LEMMA EndGoalInv ==
    ASSUME IInv, EndGoal PROVE IInv'
<1>1. TypeOK'
  BY DEF IInv, EndGoal, TypeOK
<1>2. Shape'
  BY DEF IInv, EndGoal, Shape
<1>3. Workers'
  BY DEF IInv, EndGoal, Workers, Untouched, Ended, Accepted
<1>4. Waves'
  BY DEF IInv, EndGoal, Waves
<1>5. Outcomes'
  BY DEF IInv, EndGoal, Outcomes
<1>6. Worked'
  BY DEF IInv, EndGoal, Worked
<1>7. DependenciesDone'
  BY DEF IInv, EndGoal, DependenciesDone
<1>8. NothingForgotten'
  BY DEF IInv, EndGoal, NothingForgotten
<1> QED  BY <1>1, <1>2, <1>3, <1>4, <1>5, <1>6, <1>7, <1>8 DEF IInv

(* What changes nothing changes no part of it. *)
LEMMA StutterInv ==
    ASSUME IInv, UNCHANGED vars PROVE IInv'
  BY DEF vars, IInv, TypeOK, Shape, Workers, Untouched, Waves, Outcomes, Worked, DependenciesDone,
         NothingForgotten, Ended, Accepted

(* Every step keeps the invariant. *)
LEMMA StepInv == IInv /\ [Next]_vars => IInv'
  BY StartWaveInv, SpawnInv, JoinInv, EndWaveInv, ValidateInv, EndDeployInv, TakeGlobalInv, TakeModelInv,
     BeginInv, WorkInv, CancelInv, EndGoalInv, StutterInv DEF Next, DeployStep, WorkerStep

(* The invariant holds of every plan and every limit. *)
THEOREM InvHolds == Spec => []IInv
  BY InitInv, StepInv, PTL DEF Spec

-----------------------------------------------------------------------------
(* What it says of the deploy. *)

(* The state has the shape the code gives it. *)
THEOREM TypeCorrect == Spec => []TypeOK
<1>1. IInv => TypeOK  BY DEF IInv
<1> QED  BY InvHolds, <1>1, PTL

(* A step that is worked on or done has all it depends on. *)
THEOREM DependenciesHold == Spec => []DependenciesDone
<1>1. IInv => DependenciesDone  BY DEF IInv
<1> QED  BY InvHolds, <1>1, PTL

(* A deploy that went through has an outcome for every step. *)
THEOREM NothingIsForgotten == Spec => []NothingForgotten
<1>1. IInv => NothingForgotten  BY DEF IInv
<1> QED  BY InvHolds, <1>1, PTL

(* No worker is left behind by its wave. *)
THEOREM WorkersJoined == Spec => []NoWorkerLeft
<1>1. IInv => NoWorkerLeft  BY DEF IInv, Shape, Workers, NoWorkerLeft, Ended
<1> QED  BY InvHolds, <1>1, PTL

-----------------------------------------------------------------------------
(* The refinement of StepGraph. *)

(* A state in which nothing has begun is one of the graph's. *)
LEMMA GraphInit == Init => Graph!Init
  BY GoalDeployAssumption DEF Init, Graph!Init

(* A wave skips what depends on something unavailable. *)
LEMMA StartWaveRefines ==
    ASSUME IInv, StartWave PROVE [Graph!Next]_Graph!vars
<1>1. CASE cancelled
  BY <1>1 DEF StartWave, Graph!Next, Graph!GiveUp, Graph!vars
<1>2. CASE ~cancelled
  <2>1. /\ status' = [s \in Steps |-> IF s \in Skipped(Wave) THEN "skipped" ELSE status[s]]
        /\ UNCHANGED <<deps, goal>> /\ deploy.at = "wave"
    BY <1>2 DEF StartWave
  <2>2. Skipped(Wave) \in SUBSET Steps
    BY DEF Skipped, Wave
  <2>3. ASSUME NEW s \in Skipped(Wave)
        PROVE  status[s] = "pending" /\ (goal = "over" \/ \E d \in deps[s] : Graph!Unavailable(d))
    <3>1. s \in Steps \ deploy.ordered /\ \E d \in deps[s] : d \in deploy.failed
      BY <2>3 DEF Skipped, Wave
    <3>2. status[s] = "pending"
      BY <3>1 DEF IInv, Workers, Untouched
    <3>3. goal # "over" => \A d \in deploy.failed : status[d] \in {"failed", "skipped"}
      BY <1>2, <2>1 DEF IInv, TypeOK, Shape, Outcomes, Worked
    <3> QED  BY <3>1, <3>2, <3>3 DEF Graph!Unavailable
  <2>4. Graph!Skip(Skipped(Wave))
    BY <2>1, <2>3 DEF Graph!Skip, Graph!Set
  <2> QED  BY <2>2, <2>4 DEF Graph!Next
<1> QED  BY <1>1, <1>2

(* A join records the outcome of a step that ran, or nothing. *)
LEMMA JoinRefines ==
    ASSUME IInv, Join PROVE [Graph!Next]_Graph!vars
<1>0. PICK s \in Steps :
         /\ s \in deploy.handles /\ Ended(s)
         /\ status' = IF Accepted THEN [status EXCEPT ![s] = Outcome(s)] ELSE status
         /\ UNCHANGED <<deps, goal>>
  BY DEF Join, First
<1>1. CASE ~Accepted
  BY <1>0, <1>1 DEF Graph!vars
<1>2. CASE Accepted
  <2>1. status[s] = "running" /\ goal # "over"
    BY <1>0, <1>2 DEF IInv, Workers, Accepted
  <2>2. Graph!Set({s}, "done") \/ Graph!Set({s}, "failed")
    BY <1>0, <1>2 DEF IInv, TypeOK, Graph!Set, Outcome
  <2>3. Graph!Settle(s)
    BY <1>0, <2>1, <2>2 DEF Graph!Settle
  <2> QED  BY <2>3 DEF Graph!Next
<1> QED  BY <1>1, <1>2

(* Nothing depends on the last wave, which is all a reviewer can reject. *)
LEMMA ValidateRefines ==
    ASSUME IInv, Validate PROVE [Graph!Next]_Graph!vars
<1>1. PICK bad \in SUBSET Steps :
         /\ \A s \in bad : s \in deploy.wave /\ status[s] = "done"
         /\ status' = [s \in Steps |-> IF s \in bad THEN "failed" ELSE status[s]]
         /\ deploy.at = "validate" /\ UNCHANGED <<deps, goal>>
  BY DEF IInv, TypeOK, Validate
<1>2. \A s \in bad : \A t \in Steps : s \notin deps[t]
  BY <1>1 DEF IInv, Shape, Waves
<1>3. Graph!Reject(bad)
  BY <1>1, <1>2 DEF Graph!Reject, Graph!Set
<1> QED  BY <1>3 DEF Graph!Next

(* A worker begins when everything its step depends on is done. *)
LEMMA BeginRefines ==
    ASSUME IInv, NEW s \in Steps, Begin(s) PROVE [Graph!Next]_Graph!vars
<1>1. CASE goal # "active"
  BY <1>1 DEF Begin, Graph!vars
<1>2. CASE goal = "active"
  <2>1. s \in deploy.handles
    BY DEF Begin, IInv, Workers, Ended
  <2>2. status[s] = "pending" /\ \A d \in deps[s] : status[d] = "done"
    BY <1>2, <2>1 DEF Begin, IInv, Workers, Waves
  <2>3. Graph!Set({s}, "running") /\ UNCHANGED <<deps, goal>>
    BY <1>2 DEF Begin, Graph!Set, IInv, TypeOK
  <2>4. Graph!Run(s)
    BY <1>2, <2>2, <2>3 DEF Graph!Run
  <2> QED  BY <2>4 DEF Graph!Next
<1> QED  BY <1>1, <1>2

(* What is left changes neither a status nor, but for giving up, the goal. *)
LEMMA OtherStepsRefine ==
    ASSUME IInv, \/ Spawn \/ EndWave \/ EndDeploy \/ Cancel \/ EndGoal
                 \/ \E s \in Steps : TakeGlobal(s) \/ TakeModel(s) \/ Work(s)
    PROVE  [Graph!Next]_Graph!vars
<1>1. UNCHANGED <<deps, status>> /\ (goal' = "over" \/ (goal # "over" /\ goal' # "over") \/ goal' = goal)
  BY DEF Spawn, EndWave, EndDeploy, Cancel, EndGoal, TakeGlobal, TakeModel, Work, Accepted
<1> QED  BY <1>1 DEF Graph!Next, Graph!GiveUp, Graph!vars

(* Every step is one of the graph or changes nothing of it. *)
LEMMA GraphStep == IInv /\ [Next]_vars => [Graph!Next]_Graph!vars
<1>1. ASSUME IInv, UNCHANGED vars PROVE UNCHANGED Graph!vars
  BY <1>1 DEF vars, Graph!vars
<1> QED
  BY <1>1, StartWaveRefines, JoinRefines, ValidateRefines, BeginRefines, OtherStepsRefine
  DEF Next, DeployStep, WorkerStep

(* The deploy of every plan keeps the promises of StepGraph. *)
THEOREM DeployKeepsGraph == Spec => KeepsGraph
  BY InvHolds, GraphInit, GraphStep, PTL DEF Spec, KeepsGraph, Graph!Spec
=============================================================================
