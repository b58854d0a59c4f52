------------------------ MODULE TurnLifecycleProofs -------------------------
(***************************************************************************)
(* Theorems about TurnLifecycle, for any number of sessions, runs and      *)
(* commands: it uses the coordinator as RuntimeCoordinator says, its types *)
(* are kept, a prompt runs once, and, when no goal is active, a command    *)
(* that stops the loop leaves nothing of it behind.                        *)
(***************************************************************************)
EXTENDS TurnLifecycle, TLAPS

USE IdsGiven, BoundsNat, CommandsKnown, ActorsDistinct

\* The theorems of the coordinator, for a coordinator without registered work.
RCP == INSTANCE RuntimeCoordinatorProofs WITH WorkIds <- {}

-----------------------------------------------------------------------------
(* What holds wherever the actors are *)

\* Every actor is at a place of its own kind, and comes back to one.
Sites ==
  /\ at[Dispatcher] \in DispatchPlaces \cup StartPlaces
  /\ at[GoalTask] \in GoalPlaces \cup {"store"}
  /\ \A r \in RunIds : at[r] \in TaskPlaces \cup StartPlaces
  /\ at[Dispatcher] \in StartPlaces \cup {"steer"} => back[Dispatcher] = "ready"
  /\ at[GoalTask] = "store" => back[GoalTask] = "idle"
  /\ \A r \in RunIds : at[r] \in StartPlaces => back[r] \in {"over", "clear", "complete"}

\* What the dispatcher handles, by where it is.
Handling ==
  /\ command \in Commands \cup {"none"}
  /\ at[Dispatcher] \in {"cancel", "replace", "take", "reap", "wait", "finish"} => command \in Stopping
  /\ at[Dispatcher] = "drop_queued" => command \in Stopping \cup {"clear_queue"}
  /\ at[Dispatcher] \in StartPlaces => command \in {"send", "steer"}
  /\ at[Dispatcher] \in {"steer", "steer_queue", "steer_cancel", "steer_take"} => command = "steer"

\* A run that the coordinator does not know has no task.
Born == \A r \in RunIds : turn[r] = "unborn" => at[r] = "unborn"

\* An actor that has created a run, or waits for one, knows which.
Holds ==
  \A a \in Actors :
    at[a] \in {"publish", "store"} \/ (a = Dispatcher /\ at[a] = "wait") => mine[a] \in RunIds

\* A run that is not published has no task yet, and one actor publishes it.
Unpublished ==
  /\ \A a \in Actors :
       at[a] = "publish" => at[mine[a]] = "unborn" /\ turn[mine[a]] # "unborn"
  /\ \A a, b \in Actors : a # b /\ at[a] = "publish" /\ at[b] = "publish" => mine[a] # mine[b]

BInv == RCP!IInv /\ TypeOK /\ Sites /\ Handling /\ Born /\ Holds /\ Unpublished

-----------------------------------------------------------------------------
(* The coordinator *)

\* What the coordinator assumes of its ids and reasons is given.
LEMMA CoordinatorAssumptions == RCP!IdsDisjoint /\ RCP!SteeringIsReason
  BY DEF RCP!IdsDisjoint, RCP!SteeringIsReason

\* The goal's own prompt is one.
LEMMA GoalPromptIsPrompt == GoalPrompt \in AnyPrompt
  BY DEF GoalPrompt, AnyPrompt

\* The run that is created next is one that was not.
LEMMA NextRunIsNew == SomeRunLeft => NextRun \in RunIds /\ turn[NextRun] = "unborn"
  BY DEF SomeRunLeft, NextRun

\* The operations as the actors call them are those of the coordinator.
LEMMA SameOperations ==
  /\ \A r : RC!StartRun(r) => RCP!StartRun(r)
  /\ \A r : RC!CompleteRun(r) => RCP!CompleteRun(r)
  /\ \A r : RC!TurnVanishes(r) => RCP!TurnVanishes(r)
  /\ \A c : RC!CancelCurrent(c) => RCP!CancelCurrent(c)
  /\ \A c : RC!ReplaceSession(c) => RCP!ReplaceSession(c)
  /\ \A t : RC!CancelToken(t) => RCP!CancelToken(t)
  BY DEF RC!StartRun, RCP!StartRun, RC!CompleteRun, RCP!CompleteRun, RC!TurnVanishes,
     RCP!TurnVanishes, RC!CancelCurrent, RCP!CancelCurrent, RC!ReplaceSession,
     RCP!ReplaceSession, RC!CancelToken, RCP!CancelToken, RC!Displaced, RCP!Displaced,
     RC!WorkOfRun, RCP!WorkOfRun, RC!WorkOfSession, RCP!WorkOfSession, RC!Record, RCP!Record,
     RC!workVars, RCP!workVars

\* The coordinator's types, in this module's words and in the theorems'.
LEMMA SameTypes == (RC!TypeOK <=> RCP!TypeOK) /\ (RC!TypeOK <=> RCP!TypeOK)'
  BY DEF RC!TypeOK, RCP!TypeOK, RC!Types, RCP!Types, RC!Tokens, RCP!Tokens

\* Every step of an actor is a step of the coordinator or leaves it alone.
LEMMA CoordinatorStep == BInv /\ [Next]_vars => [RCP!Next]_(RCP!vars)
<1> SUFFICES ASSUME BInv, [Next]_vars PROVE RCP!Next \/ UNCHANGED rcVars
  BY DEF rcVars, RCP!vars
<1>1. ASSUME NEW r \in RunIds, TaskStep(r) PROVE RCP!Next \/ UNCHANGED rcVars
  <2>1. RC!CompleteRun(r) \/ RC!TurnVanishes(r) \/ UNCHANGED rcVars
    BY <1>1
    DEF TaskStep, Register, RecordPrompt, Request, Streamed, Answer, Leave, Replan, Conclude,
        ClearCurrent, NoFollowup, Complete, SameSession, Drain
  <2>2. QED BY <2>1, SameOperations DEF RCP!Next, RCP!RunStep
<1>2. ASSUME NEW a \in Actors, StartTurnStep(a) PROVE RCP!Next \/ UNCHANGED rcVars
  <2>1. CASE CreateRun(a)
    BY <2>1, NextRunIsNew, SameOperations DEF CreateRun, RCP!Next, RCP!RunStep
  <2>2. CASE CheckSlot(a) \/ Enqueue(a) \/ Publish(a) \/ Store(a)
    BY <2>2 DEF CheckSlot, Enqueue, Publish, Store
  <2>3. QED BY <1>2, <2>1, <2>2 DEF StartTurnStep
<1>3. CASE GoalDecide \/ GoalBusy \/ \E c \in Commands : ReadCommand(c)
  BY <1>3 DEF GoalDecide, GoalBusy, ReadCommand
<1>4. CASE GoalStart
  BY <1>4, NextRunIsNew, SameOperations DEF GoalStart, RCP!Next, RCP!RunStep
<1>5. CASE DispatchStep
  <2>1. CASE SteerCheck \/ SteerQueue \/ DropQueued \/ Reap \/ Joined \/ Finish
    BY <2>1 DEF SteerCheck, SteerQueue, DropQueued, Reap, Joined, Finish
  <2>2. CASE Cancel
    <3>1. command \in Reasons
      BY <2>2 DEF Cancel, Go, BInv, Handling, Stopping
    <3>2. QED BY <2>2, <3>1, SameOperations DEF Cancel, CancelActive, RCP!Next
  <2>3. CASE Replace
    <3>1. command \in Reasons
      BY <2>3 DEF Replace, Go, BInv, Handling, Stopping
    <3>2. QED BY <2>3, <3>1, SameOperations DEF Replace, RCP!Next
  <2>4. CASE SteerCancel
    BY <2>4, SameOperations DEF SteerCancel, CancelActive, RCP!Next
  <2>5. CASE Take \/ SteerTake
    <3>1. TakeCurrent
      BY <2>5 DEF Take, SteerTake
    <3>2. current # NoId => current \in RunIds
      BY DEF BInv, TypeOK
    <3>3. QED BY <3>1, <3>2, SameOperations DEF TakeCurrent, RCP!Next, RCP!Tokens
  <2>6. CASE ForcedAbort
    <3>1. mine[Dispatcher] \in RunIds
      BY <2>6 DEF ForcedAbort, BInv, Holds, Actors
    <3>2. QED BY <2>6, <3>1, SameOperations DEF ForcedAbort, RCP!Next, RCP!RunStep
  <2>7. QED BY <1>5, <2>1, <2>2, <2>3, <2>4, <2>5, <2>6 DEF DispatchStep
<1>6. QED BY <1>1, <1>2, <1>3, <1>4, <1>5 DEF Next, vars

\* The coordinator keeps its own invariant, and never takes a run back.
LEMMA CoordinatorInv ==
  ASSUME BInv, [Next]_vars
  PROVE  RCP!IInv' /\ RC!TypeOK' /\ \A r \in RunIds : turn'[r] = "unborn" => turn[r] = "unborn"
<1>1. RCP!IInv'
  BY CoordinatorStep, CoordinatorAssumptions, RCP!StepIInv DEF BInv
<1>2. RCP!TypeOK /\ RCP!TypeOK' /\ RC!TypeOK'
  BY <1>1, SameTypes DEF BInv, RCP!IInv, RCP!RunsInv, RCP!TypeOK
<1>3. ASSUME NEW r \in RunIds, turn'[r] = "unborn" PROVE turn[r] = "unborn"
  <2>1. RCP!Next \/ UNCHANGED RCP!vars
    BY CoordinatorStep
  <2>2. QED BY <1>2, <1>3, <2>1
        DEF RCP!TypeOK, RCP!Types, RCP!Next, RCP!vars, RCP!RunStep, RCP!StartRun, RCP!CompleteRun,
            RCP!TurnVanishes, RCP!CancelCurrent, RCP!ReplaceSession, RCP!CancelToken
<1>4. QED BY <1>1, <1>2, <1>3

-----------------------------------------------------------------------------
(* Where the actors are *)

\* An actor that goes to a place where it holds no run leaves the runs alone.
LEMMA CalmStep ==
  ASSUME BInv, [Next]_vars, NEW a \in Actors, at[a] # "unborn",
         NEW t \in Places \ {"unborn", "publish", "store", "wait"},
         at' = [at EXCEPT ![a] = t], mine' = mine
  PROVE  at' \in [Actors -> Places] /\ Born' /\ Holds' /\ Unpublished'
<1>1. /\ at' \in [Actors -> Places]
      /\ at'[a] = t /\ \A b \in Actors \ {a} : at'[b] = at[b]
  BY DEF BInv, TypeOK
<1>2. \A r \in RunIds : turn'[r] = "unborn" => turn[r] = "unborn"
  BY CoordinatorInv
<1>3. Born'
  BY <1>1, <1>2 DEF BInv, Born, Actors
<1>4. Holds'
  BY <1>1 DEF BInv, Holds
<1>5. Unpublished'
  <2>1. ASSUME NEW b \in Actors, at'[b] = "publish"
        PROVE  at'[mine[b]] = "unborn" /\ turn'[mine[b]] # "unborn"
    <3>1. at[b] = "publish" /\ mine[b] \in RunIds
      BY <1>1, <2>1 DEF BInv, Holds
    <3>2. at[mine[b]] = "unborn" /\ turn[mine[b]] # "unborn"
      BY <3>1 DEF BInv, Unpublished
    <3>3. QED BY <1>1, <1>2, <3>1, <3>2 DEF Actors
  <2>2. QED BY <1>1, <2>1 DEF BInv, Unpublished
<1>6. QED BY <1>1, <1>3, <1>4, <1>5

\* The steps of a turn task before its end.
LEMMA TurnStepInv ==
  ASSUME BInv, [Next]_vars, NEW r \in RunIds,
         Register(r) \/ RecordPrompt(r) \/ Request(r) \/ Streamed(r) \/ Answer(r) \/ Leave(r)
  PROVE  BInv'
<1>1. PICK t \in {"over", "opening", "running", "streaming", "answered", "clear"} :
        at[r] # "unborn" /\ at' = [at EXCEPT ![r] = t]
  BY DEF Register, RecordPrompt, Request, Streamed, Answer, Leave, Go
<1>2. /\ t \in TaskPlaces /\ t \in Places \ {"unborn", "publish", "store", "wait"}
      /\ t \notin StartPlaces
  BY DEF Places, TaskPlaces, StartPlaces
<1>3. UNCHANGED <<slotVars, back, text, mine, command, given, goalOn, replans>>
  BY DEF Register, RecordPrompt, Request, Streamed, Answer, Leave
<1>4. at' \in [Actors -> Places] /\ Born' /\ Holds' /\ Unpublished'
  BY <1>1, <1>2, <1>3, CalmStep DEF Actors
<1>5. conversation' \subseteq AnyPrompt /\ buffer' \in [RunIds -> SUBSET AnyPrompt] /\ fate' \in [Prompts -> Fates]
  BY DEF BInv, TypeOK, Register, RecordPrompt, Request, Streamed, Answer, Leave, chatVars,
     Settle, Fates, Actors
<1>6. TypeOK'
  BY <1>3, <1>4, <1>5, CoordinatorInv DEF BInv, TypeOK, slotVars
<1>7. Sites' /\ Handling'
  BY <1>1, <1>2, <1>3 DEF BInv, TypeOK, Sites, Handling, Actors
<1>8. QED BY <1>4, <1>6, <1>7, CoordinatorInv DEF BInv

\* A goal turn that asks for another one comes back to where it was.
LEMMA ReplanInv == ASSUME BInv, [Next]_vars, NEW r \in RunIds, Replan(r) PROVE BInv'
<1>1. /\ at[r] # "unborn" /\ at' = [at EXCEPT ![r] = "check"]
      /\ \E b \in {"clear", "complete"} : back' = [back EXCEPT ![r] = b]
      /\ replans < MaxReplans /\ replans' = replans + 1
      /\ text' = [text EXCEPT ![r] = GoalPrompt]
      /\ UNCHANGED <<slotVars, mine, command, given, goalOn, chatVars, fate>>
  BY DEF Replan
<1>2. "check" \in StartPlaces /\ "check" \in Places \ {"unborn", "publish", "store", "wait"}
  BY DEF Places, StartPlaces
<1>3. at' \in [Actors -> Places] /\ Born' /\ Holds' /\ Unpublished'
  BY <1>1, <1>2, CalmStep DEF Actors
<1>4. TypeOK'
  <2>1. back' \in [Actors -> Places]
    BY <1>1 DEF BInv, TypeOK, Places, TaskPlaces
  <2>2. text' \in [Actors -> AnyPrompt]
    BY <1>1, GoalPromptIsPrompt DEF BInv, TypeOK
  <2>3. replans' \in 0 .. MaxReplans
    BY <1>1 DEF BInv, TypeOK
  <2>4. QED BY <1>1, <1>3, <2>1, <2>2, <2>3, CoordinatorInv DEF BInv, TypeOK, slotVars, chatVars
<1>5. Sites' /\ Handling'
  BY <1>1, <1>2 DEF BInv, TypeOK, Sites, Handling, Actors
<1>6. QED BY <1>3, <1>4, <1>5, CoordinatorInv DEF BInv

\* The steps of a turn task at its end.
LEMMA ConcludeInv == ASSUME BInv, [Next]_vars, NEW r \in RunIds, Conclude(r) PROVE BInv'
<1>1. PICK t \in {"followup", "complete", "same_session", "drain", "over", "start"} :
        /\ at[r] # "unborn" /\ at' = [at EXCEPT ![r] = t]
        /\ t = "start" => back' = [back EXCEPT ![r] = "over"]
  BY DEF Conclude, ClearCurrent, NoFollowup, Complete, SameSession, Drain, Go
<1>2. /\ t \in TaskPlaces \cup StartPlaces
      /\ t \in Places \ {"unborn", "publish", "store", "wait"}
      /\ t \in StartPlaces => t = "start"
  BY DEF Places, TaskPlaces, StartPlaces
<1>3. /\ UNCHANGED <<handle, handleLock, mine, command, given, goalOn, replans, chatVars, fate>>
      /\ current' \in {current, NoId} /\ queued' \in {queued, NoPrompt} /\ queueLock' \in {queueLock, r}
      /\ UNCHANGED back \/ back' = [back EXCEPT ![r] = "over"]
      /\ UNCHANGED text \/ text' = [text EXCEPT ![r] = queued]
  BY DEF Conclude, ClearCurrent, NoFollowup, Complete, SameSession, Drain, slotVars, quiet
<1>4. at' \in [Actors -> Places] /\ Born' /\ Holds' /\ Unpublished'
  BY <1>1, <1>2, <1>3, CalmStep DEF Actors
<1>5. TypeOK'
  <2>1. back' \in [Actors -> Places]
    BY <1>3 DEF BInv, TypeOK, Places, TaskPlaces
  <2>2. /\ current' \in RunIds \cup {NoId} /\ queued' \in AnyPrompt /\ queueLock' \in RunIds \cup {NoId}
        /\ text' \in [Actors -> AnyPrompt]
    BY <1>3 DEF BInv, TypeOK, AnyPrompt, NoPrompt
  <2>3. QED BY <1>3, <1>4, <2>1, <2>2, CoordinatorInv DEF BInv, TypeOK, chatVars
<1>6. Sites' /\ Handling'
  BY <1>1, <1>2, <1>3 DEF BInv, TypeOK, Sites, Handling, Actors
<1>7. QED BY <1>4, <1>5, <1>6, CoordinatorInv DEF BInv

\* The goal task decides on a turn, or finds the slot busy.
LEMMA GoalWaitInv == ASSUME BInv, [Next]_vars, GoalDecide \/ GoalBusy PROVE BInv'
<1>1. PICK t \in GoalPlaces : at[GoalTask] # "unborn" /\ at' = [at EXCEPT ![GoalTask] = t]
  BY DEF GoalDecide, GoalBusy, Go, GoalPlaces
<1>2. t \in Places \ {"unborn", "publish", "store", "wait"} /\ t \notin StartPlaces
  BY DEF Places, GoalPlaces, StartPlaces
<1>3. /\ UNCHANGED <<slotVars, back, text, mine, command, given, goalOn, chatVars, fate>>
      /\ replans' = replans \/ (replans < MaxReplans /\ replans' = replans + 1)
  BY DEF GoalDecide, GoalBusy, quiet
<1>4. at' \in [Actors -> Places] /\ Born' /\ Holds' /\ Unpublished'
  BY <1>1, <1>2, <1>3, CalmStep DEF Actors
<1>5. TypeOK'
  BY <1>3, <1>4, CoordinatorInv DEF BInv, TypeOK, slotVars, chatVars
<1>6. Sites' /\ Handling'
  BY <1>1, <1>2, <1>3 DEF BInv, TypeOK, Sites, Handling, Actors
<1>7. QED BY <1>4, <1>5, <1>6, CoordinatorInv DEF BInv

\* The goal task creates a run, whose task is there at once.
LEMMA GoalStartInv == ASSUME BInv, [Next]_vars, GoalStart PROVE BInv'
<1> DEFINE r == NextRun
<1>1. /\ r \in RunIds /\ turn[r] = "unborn" /\ at[r] = "unborn" /\ at[GoalTask] = "slot"
      /\ turn'[r] # "unborn"
  <2>1. r \in RunIds /\ turn[r] = "unborn" /\ RC!StartRun(r) /\ at[GoalTask] = "slot"
    BY NextRunIsNew DEF GoalStart
  <2>2. turn \in [RunIds -> {"unborn", "running", "gone"}]
    BY DEF BInv, TypeOK, RC!TypeOK, RC!Types
  <2>3. QED BY <2>1, <2>2 DEF BInv, Born, RC!StartRun
<1>2. /\ at' = [at EXCEPT ![GoalTask] = "store", ![r] = "spawned"]
      /\ current' = r /\ mine' = [mine EXCEPT ![GoalTask] = r]
      /\ text' = [text EXCEPT ![r] = GoalPrompt] /\ back' = [back EXCEPT ![GoalTask] = "idle"]
      /\ UNCHANGED <<queued, queueLock, handle, handleLock, command, given, goalOn, replans,
                     chatVars, fate>>
  BY DEF GoalStart
<1>3. /\ \A a \in Actors \ {GoalTask, r} : at'[a] = at[a]
      /\ at'[GoalTask] = "store" /\ at'[r] = "spawned"
      /\ \A a \in Actors \ {GoalTask} : mine'[a] = mine[a] /\ back'[a] = back[a]
      /\ mine'[GoalTask] = r /\ back'[GoalTask] = "idle"
  BY <1>1, <1>2 DEF BInv, TypeOK, Actors
<1>4. TypeOK'
  <2>1. at' \in [Actors -> Places] /\ back' \in [Actors -> Places]
    BY <1>2 DEF BInv, TypeOK, Places, TaskPlaces, StartPlaces, GoalPlaces
  <2>2. text' \in [Actors -> AnyPrompt]
    BY <1>1, <1>2, GoalPromptIsPrompt DEF BInv, TypeOK
  <2>3. mine' \in [Actors -> RunIds \cup {NoId}]
    BY <1>1, <1>2 DEF BInv, TypeOK
  <2>4. QED BY <1>1, <1>2, <2>1, <2>2, <2>3, CoordinatorInv DEF BInv, TypeOK, chatVars
<1>5. Sites' /\ Handling'
  <2>1. /\ "spawned" \in TaskPlaces /\ "spawned" \notin StartPlaces
        /\ GoalTask # Dispatcher /\ GoalTask \notin RunIds /\ Dispatcher # r
        /\ {GoalTask, Dispatcher} \cup RunIds = Actors
    BY <1>1 DEF TaskPlaces, StartPlaces, Actors
  <2>2. at'[Dispatcher] = at[Dispatcher] /\ back'[Dispatcher] = back[Dispatcher] /\ command' = command
    BY <1>2, <1>3, <2>1
  <2>3. ASSUME NEW s \in RunIds
        PROVE  /\ at'[s] \in TaskPlaces \cup StartPlaces
               /\ at'[s] \in StartPlaces => back'[s] \in {"over", "clear", "complete"}
    <3>1. CASE s = r
      BY <1>3, <2>1, <3>1
    <3>2. CASE s # r
      <4>1. at'[s] = at[s] /\ back'[s] = back[s]
        BY <1>3, <2>1, <3>2
      <4>2. QED BY <4>1 DEF BInv, Sites
    <3>3. QED BY <3>1, <3>2
  <2>4. Sites'
    BY <1>3, <2>2, <2>3 DEF BInv, Sites
  <2>5. QED BY <2>2, <2>4 DEF BInv, Handling
<1>6. Born' /\ Holds'
  BY <1>1, <1>3, CoordinatorInv DEF BInv, Born, Holds, Actors
<1>7. Unpublished'
  <2>1. ASSUME NEW a \in Actors, at'[a] = "publish"
        PROVE  at'[mine'[a]] = "unborn" /\ turn'[mine'[a]] # "unborn" /\ mine'[a] = mine[a]
    <3>1. at[a] = "publish" /\ mine'[a] = mine[a] /\ mine[a] \in RunIds
      BY <1>3, <2>1 DEF BInv, Holds
    <3>2. at[mine[a]] = "unborn" /\ turn[mine[a]] # "unborn"
      BY <3>1 DEF BInv, Unpublished
    <3>3. mine[a] # r /\ turn'[mine[a]] # "unborn"
      BY <1>1, <3>1, <3>2, CoordinatorInv
    <3>4. QED BY <1>3, <3>1, <3>2, <3>3 DEF Actors
  <2>2. QED BY <1>3, <2>1 DEF BInv, Unpublished
<1>8. QED BY <1>4, <1>5, <1>6, <1>7, CoordinatorInv DEF BInv

\* A starter that looks at the slot, or buffers its prompt.
LEMMA EnqueueInv ==
  ASSUME BInv, [Next]_vars, NEW a \in Actors, CheckSlot(a) \/ Enqueue(a)
  PROVE  BInv'
<1>1. PICK t \in {"start", "enqueue", back[a]} :
        /\ at[a] \in StartPlaces /\ at[a] \in {"check", "enqueue"} /\ at' = [at EXCEPT ![a] = t]
        /\ t = back[a] \/ t \in {"start", "enqueue"}
  BY DEF CheckSlot, Enqueue, Go, StartPlaces
<1>2. /\ a # GoalTask
      /\ a = Dispatcher => back[a] = "ready"
      /\ a \in RunIds => back[a] \in {"over", "clear", "complete"}
  BY <1>1 DEF BInv, Sites, GoalPlaces
<1>3. /\ a = Dispatcher => t \in DispatchPlaces \cup StartPlaces
      /\ a \in RunIds => t \in TaskPlaces \cup StartPlaces
      /\ t \in Places \ {"unborn", "publish", "store", "wait"}
      /\ t \in StartPlaces \/ t \in {"ready", "over", "clear", "complete"}
  BY <1>1, <1>2 DEF DispatchPlaces, TaskPlaces, StartPlaces, Places, Actors
<1>4. /\ UNCHANGED <<current, queueLock, handle, handleLock, back, text, mine, command, given,
                     goalOn, replans, chatVars>>
      /\ queued' \in {queued, text[a]}
      /\ fate' = fate \/ \E f \in Fates : Settle({text[a]}, f)
  BY DEF CheckSlot, Enqueue, slotVars, Fates
<1>5. at' \in [Actors -> Places] /\ Born' /\ Holds' /\ Unpublished'
  BY <1>1, <1>3, <1>4, CalmStep
<1>6. TypeOK'
  <2>1. fate' \in [Prompts -> Fates] /\ queued' \in AnyPrompt
    BY <1>4 DEF BInv, TypeOK, Settle
  <2>2. QED BY <1>4, <1>5, <2>1, CoordinatorInv DEF BInv, TypeOK, chatVars
<1>7. Sites' /\ Handling'
  BY <1>1, <1>2, <1>3, <1>4 DEF BInv, TypeOK, Sites, Handling, Actors
<1>8. QED BY <1>5, <1>6, <1>7, CoordinatorInv DEF BInv

\* A run is created: it has no task, and only its creator knows it.
LEMMA CreateRunInv == ASSUME BInv, [Next]_vars, NEW a \in Actors, CreateRun(a) PROVE BInv'
<1> DEFINE r == NextRun
<1>1. /\ r \in RunIds /\ turn[r] = "unborn" /\ at[r] = "unborn" /\ at[a] = "start"
      /\ turn'[r] # "unborn"
  <2>1. r \in RunIds /\ turn[r] = "unborn" /\ RC!StartRun(r) /\ at[a] = "start"
    BY NextRunIsNew DEF CreateRun, Go
  <2>2. turn \in [RunIds -> {"unborn", "running", "gone"}]
    BY DEF BInv, TypeOK, RC!TypeOK, RC!Types
  <2>3. QED BY <2>1, <2>2 DEF BInv, Born, RC!StartRun
<1>2. /\ at' = [at EXCEPT ![a] = "publish"] /\ mine' = [mine EXCEPT ![a] = r]
      /\ UNCHANGED <<slotVars, back, text, command, given, goalOn, replans, chatVars, fate>>
  BY DEF CreateRun, Go
<1>3. /\ \A b \in Actors \ {a} : at'[b] = at[b] /\ mine'[b] = mine[b]
      /\ at'[a] = "publish" /\ mine'[a] = r /\ a # r /\ a # GoalTask
  BY <1>1, <1>2 DEF BInv, TypeOK, Sites, GoalPlaces
<1>4. TypeOK'
  <2>1. at' \in [Actors -> Places] /\ mine' \in [Actors -> RunIds \cup {NoId}]
    BY <1>1, <1>2 DEF BInv, TypeOK, Places, StartPlaces
  <2>2. QED BY <1>2, <2>1, CoordinatorInv DEF BInv, TypeOK, slotVars, chatVars
<1>5. Sites' /\ Handling'
  BY <1>1, <1>2, <1>3 DEF BInv, Sites, Handling, Actors, StartPlaces
<1>6. Born' /\ Holds'
  BY <1>1, <1>3, CoordinatorInv DEF BInv, Born, Holds, Actors
<1>7. Unpublished'
  <2>1. ASSUME NEW b \in Actors \ {a}, at'[b] = "publish"
        PROVE  at'[mine'[b]] = "unborn" /\ turn'[mine'[b]] # "unborn" /\ mine'[b] = mine[b] /\ mine[b] # r
    <3>1. at[b] = "publish" /\ mine'[b] = mine[b] /\ mine[b] \in RunIds
      BY <1>3, <2>1 DEF BInv, Holds
    <3>2. at[mine[b]] = "unborn" /\ turn[mine[b]] # "unborn"
      BY <3>1 DEF BInv, Unpublished
    <3>3. QED BY <1>1, <1>3, <3>1, <3>2, CoordinatorInv DEF Actors
  <2>2. at'[mine'[a]] = "unborn" /\ turn'[mine'[a]] # "unborn"
    BY <1>1, <1>3 DEF Actors
  <2>3. QED BY <1>3, <2>1, <2>2 DEF BInv, Unpublished
<1>8. QED BY <1>4, <1>5, <1>6, <1>7, CoordinatorInv DEF BInv

\* A run is published and its task spawned.
LEMMA PublishInv == ASSUME BInv, [Next]_vars, NEW a \in Actors, Publish(a) PROVE BInv'
<1> DEFINE r == mine[a]
<1>1. /\ at[a] = "publish" /\ r \in RunIds /\ at[r] = "unborn" /\ turn[r] # "unborn"
      /\ a # r /\ a # GoalTask
  BY DEF Publish, BInv, Holds, Unpublished, Sites, GoalPlaces
<1>2. /\ at' = [at EXCEPT ![a] = "store", ![r] = "spawned"]
      /\ current' = r /\ text' = [text EXCEPT ![r] = text[a]] /\ Settle({text[a]}, "started")
      /\ UNCHANGED <<rcVars, queued, queueLock, handle, handleLock, back, mine, command, given,
                     goalOn, replans, chatVars>>
  BY DEF Publish
<1>3. /\ \A b \in Actors \ {a, r} : at'[b] = at[b]
      /\ at'[a] = "store" /\ at'[r] = "spawned"
  BY <1>1, <1>2 DEF BInv, TypeOK, Actors
<1>4. TypeOK'
  <2>1. at' \in [Actors -> Places]
    BY <1>2 DEF BInv, TypeOK, Places, TaskPlaces, StartPlaces
  <2>2. text' \in [Actors -> AnyPrompt] /\ fate' \in [Prompts -> Fates]
    BY <1>2 DEF BInv, TypeOK, Settle, Fates
  <2>3. QED BY <1>1, <1>2, <2>1, <2>2, CoordinatorInv DEF BInv, TypeOK, chatVars
<1>5. Sites' /\ Handling'
  BY <1>1, <1>2, <1>3 DEF BInv, Sites, Handling, Actors, TaskPlaces, StartPlaces
<1>6. Born' /\ Holds'
  BY <1>1, <1>2, <1>3 DEF BInv, Born, Holds, Actors, rcVars
<1>7. Unpublished'
  <2>1. ASSUME NEW b \in Actors, at'[b] = "publish"
        PROVE  at[b] = "publish" /\ at'[mine[b]] = "unborn" /\ turn[mine[b]] # "unborn"
    <3>1. at[b] = "publish" /\ b # a /\ mine[b] \in RunIds
      BY <1>3, <2>1 DEF BInv, Holds
    <3>2. at[mine[b]] = "unborn" /\ turn[mine[b]] # "unborn" /\ mine[b] # r
      BY <1>1, <3>1 DEF BInv, Unpublished
    <3>3. QED BY <1>1, <1>3, <3>1, <3>2 DEF Actors
  <2>2. QED BY <1>2, <2>1 DEF BInv, Unpublished, rcVars
<1>8. QED BY <1>4, <1>5, <1>6, <1>7, CoordinatorInv DEF BInv

\* The join handle is stored and the starter goes back.
LEMMA StoreInv == ASSUME BInv, [Next]_vars, NEW a \in Actors, Store(a) PROVE BInv'
<1>1. /\ at[a] = "store" /\ at' = [at EXCEPT ![a] = back[a]] /\ handle' = mine[a]
      /\ queueLock' \in {queueLock, NoId}
      /\ UNCHANGED <<rcVars, current, queued, handleLock, back, text, mine, command, given,
                     goalOn, replans, chatVars, fate>>
  BY DEF Store, Go
<1>2. /\ "store" \in StartPlaces /\ mine[a] \in RunIds
      /\ a = Dispatcher => back[a] = "ready"
      /\ a = GoalTask => back[a] = "idle"
      /\ a \in RunIds => back[a] \in {"over", "clear", "complete"}
  BY <1>1 DEF BInv, Sites, Holds, StartPlaces
<1>3. /\ a = Dispatcher => back[a] \in DispatchPlaces
      /\ a = GoalTask => back[a] \in GoalPlaces
      /\ a \in RunIds => back[a] \in TaskPlaces
      /\ back[a] \in Places \ {"unborn", "publish", "store", "wait"} /\ back[a] \notin StartPlaces
  BY <1>2 DEF DispatchPlaces, TaskPlaces, GoalPlaces, StartPlaces, Places, Actors
<1>4. at' \in [Actors -> Places] /\ Born' /\ Holds' /\ Unpublished'
  BY <1>1, <1>3, CalmStep
<1>5. TypeOK'
  BY <1>1, <1>2, <1>4, CoordinatorInv DEF BInv, TypeOK, chatVars
<1>6. Sites' /\ Handling'
  BY <1>1, <1>2, <1>3 DEF BInv, TypeOK, Sites, Handling, Actors
<1>7. QED BY <1>4, <1>5, <1>6, CoordinatorInv DEF BInv

\* A command is read.
LEMMA ReadCommandInv == ASSUME BInv, [Next]_vars, NEW c \in Commands, ReadCommand(c) PROVE BInv'
<1>1. /\ at[Dispatcher] = "ready" /\ at' = [at EXCEPT ![Dispatcher] = FirstPlace(c)]
      /\ given < MaxCommands /\ given' = given + 1 /\ command' = c
      /\ text' = [text EXCEPT ![Dispatcher] = given'] /\ back' = [back EXCEPT ![Dispatcher] = "ready"]
      /\ goalOn' = (goalOn /\ c # "abort")
      /\ UNCHANGED <<rcVars, slotVars, mine, replans, chatVars, fate>>
  BY DEF ReadCommand, Go
<1>2. \/ c = "send" /\ FirstPlace(c) = "check"
      \/ c = "steer" /\ FirstPlace(c) = "steer"
      \/ c \in Stopping \cup {"clear_queue"} /\ FirstPlace(c) = "drop_queued"
  BY DEF FirstPlace, Stopping
<1>3. /\ FirstPlace(c) \in DispatchPlaces \cup StartPlaces
      /\ FirstPlace(c) \in Places \ {"unborn", "publish", "store", "wait"}
      /\ FirstPlace(c) \in StartPlaces => FirstPlace(c) = "check"
  BY <1>2 DEF DispatchPlaces, StartPlaces, Places
<1>4. at' \in [Actors -> Places] /\ Born' /\ Holds' /\ Unpublished'
  BY <1>1, <1>3, CalmStep DEF Actors
<1>5. TypeOK'
  <2>1. given' \in 0 .. MaxCommands /\ given' \in AnyPrompt
    BY <1>1 DEF BInv, TypeOK, AnyPrompt
  <2>2. text' \in [Actors -> AnyPrompt]
    BY <1>1, <2>1 DEF BInv, TypeOK
  <2>3. back' \in [Actors -> Places] /\ goalOn' \in BOOLEAN
    BY <1>1 DEF BInv, TypeOK, Places, DispatchPlaces
  <2>4. QED BY <1>1, <1>4, <2>1, <2>2, <2>3, CoordinatorInv DEF BInv, TypeOK, slotVars, chatVars
<1>6. Sites' /\ Handling'
  <2>1. /\ at'[Dispatcher] = FirstPlace(c) /\ back'[Dispatcher] = "ready" /\ command' = c
        /\ \A a \in Actors \ {Dispatcher} : at'[a] = at[a] /\ back'[a] = back[a]
    BY <1>1 DEF BInv, TypeOK, Actors
  <2>2. Sites'
    BY <1>3, <2>1 DEF BInv, Sites, Actors
  <2>3. Handling'
    BY <1>2, <2>1 DEF BInv, Handling, StartPlaces, Stopping
  <2>4. QED BY <2>2, <2>3
<1>7. QED BY <1>4, <1>5, <1>6, CoordinatorInv DEF BInv

\* The dispatcher goes on with its command, and takes out no task.
LEMMA DispatchInv ==
  ASSUME BInv, [Next]_vars,
         \/ SteerCheck \/ SteerQueue \/ SteerCancel \/ SteerTake
         \/ DropQueued \/ Cancel \/ Replace \/ Take \/ Joined \/ Finish
  PROVE  BInv'
<1>1. PICK t \in {"start", "steer_queue", "steer_cancel", "steer_take", "ready", "cancel",
                  "replace", "take", "reap", "finish", "exited"} :
        /\ at[Dispatcher] # "unborn" /\ at' = [at EXCEPT ![Dispatcher] = t]
        /\ t \in {"steer_queue", "steer_cancel", "steer_take", "start"} => command = "steer"
        /\ t \in {"cancel", "replace", "take", "reap", "finish"} => command \in Stopping
        /\ t = "start" => back[Dispatcher] = "ready"
  <2>1. CASE SteerCheck \/ SteerQueue \/ SteerCancel \/ SteerTake
    BY <2>1 DEF SteerCheck, SteerQueue, SteerCancel, SteerTake, Go, BInv, Handling, Sites
  <2>2. CASE DropQueued
    BY <2>2 DEF DropQueued, Go, BInv, Handling
  <2>3. CASE Cancel \/ Replace \/ Take
    BY <2>3 DEF Cancel, Replace, Take, Go, BInv, Handling
  <2>4. CASE Joined \/ Finish
    BY <2>4 DEF Joined, Finish, Go, BInv, Handling
  <2>5. QED BY <2>1, <2>2, <2>3, <2>4
<1>2. /\ UNCHANGED <<queueLock, handle, mine, back, text, command, given, goalOn, replans, buffer>>
      /\ handleLock' \in {handleLock, NoId} /\ current' \in {current, NoId}
      /\ queued' \in {queued, text[Dispatcher], NoPrompt} /\ conversation' \in {conversation, {}}
  BY DEF SteerCheck, SteerQueue, SteerCancel, SteerTake, DropQueued, Cancel, Replace, Take,
     Joined, Finish, TakeCurrent, slotVars, quiet, chatVars
<1>3. fate' \in [Prompts -> Fates]
  <2>1. CASE SteerQueue
    BY <2>1 DEF SteerQueue, BInv, TypeOK, Fates
  <2>2. CASE SteerCancel \/ Cancel \/ SteerTake \/ Take
    BY <2>2 DEF SteerCancel, Cancel, SteerTake, Take, CancelActive, TakeCurrent, GiveUp, Settle,
       BInv, TypeOK, Fates
  <2>3. CASE DropQueued
    BY <2>3 DEF DropQueued, Settle, BInv, TypeOK, Fates
  <2>4. CASE SteerCheck \/ Replace \/ Joined \/ Finish
    BY <2>4 DEF SteerCheck, Replace, Joined, Finish, BInv, TypeOK
  <2>5. QED BY <2>1, <2>2, <2>3, <2>4
<1>4. /\ t \in DispatchPlaces \cup StartPlaces
      /\ t \in Places \ {"unborn", "publish", "store", "wait"}
      /\ t \in StartPlaces => t = "start"
  BY DEF DispatchPlaces, StartPlaces, Places
<1>5. at' \in [Actors -> Places] /\ Born' /\ Holds' /\ Unpublished'
  BY <1>1, <1>2, <1>4, CalmStep DEF Actors
<1>6. TypeOK'
  <2>1. queued' \in AnyPrompt /\ conversation' \subseteq AnyPrompt
    BY <1>2 DEF BInv, TypeOK, AnyPrompt, NoPrompt, Actors
  <2>2. current' \in RunIds \cup {NoId} /\ handleLock' \in {Dispatcher, NoId}
    BY <1>2 DEF BInv, TypeOK
  <2>3. QED BY <1>2, <1>3, <1>5, <2>1, <2>2, CoordinatorInv DEF BInv, TypeOK
<1>7. Sites' /\ Handling'
  <2>1. /\ at'[Dispatcher] = t /\ command' = command /\ back' = back
        /\ \A a \in Actors \ {Dispatcher} : at'[a] = at[a]
    BY <1>1, <1>2 DEF BInv, TypeOK, Actors
  <2>2. Sites'
    BY <1>1, <1>4, <2>1 DEF BInv, Sites, Actors
  <2>3. Handling'
    BY <1>1, <1>4, <2>1 DEF BInv, Handling
  <2>4. QED BY <2>2, <2>3
<1>8. QED BY <1>5, <1>6, <1>7, CoordinatorInv DEF BInv

\* The dispatcher takes out the task to wait for.
LEMMA ReapInv == ASSUME BInv, [Next]_vars, Reap PROVE BInv'
<1> DEFINE t == IF handle = NoId THEN "finish" ELSE "wait"
<1>1. /\ at[Dispatcher] = "reap" /\ at' = [at EXCEPT ![Dispatcher] = t]
      /\ handle' = NoId /\ handleLock' \in {Dispatcher, NoId}
      /\ mine' = [mine EXCEPT ![Dispatcher] = handle]
      /\ UNCHANGED <<rcVars, current, queued, queueLock, back, text, command, given, goalOn,
                     replans, chatVars, fate>>
  BY DEF Reap, Go
<1>2. /\ at'[Dispatcher] = t /\ mine'[Dispatcher] = handle
      /\ \A a \in Actors \ {Dispatcher} : at'[a] = at[a] /\ mine'[a] = mine[a]
      /\ t \in {"finish", "wait"} /\ t = "wait" => handle \in RunIds
  BY <1>1 DEF BInv, TypeOK, Actors
<1>3. t \in DispatchPlaces /\ t \in Places /\ t \notin StartPlaces \cup {"steer"}
  BY DEF DispatchPlaces, Places, StartPlaces
<1>4. TypeOK'
  <2>1. at' \in [Actors -> Places] /\ mine' \in [Actors -> RunIds \cup {NoId}]
    BY <1>1, <1>3 DEF BInv, TypeOK
  <2>2. QED BY <1>1, <2>1, CoordinatorInv DEF BInv, TypeOK, chatVars
<1>5. Sites'
  BY <1>1, <1>2, <1>3 DEF BInv, Sites, Actors
<1>6. Handling'
  BY <1>1, <1>2, <1>3 DEF BInv, Handling
<1>7. Born' /\ Holds'
  BY <1>1, <1>2, CoordinatorInv DEF BInv, Born, Holds, Actors
<1>8. Unpublished'
  <2>1. ASSUME NEW b \in Actors, at'[b] = "publish"
        PROVE  at[b] = "publish" /\ mine'[b] = mine[b] /\ at'[mine[b]] = "unborn"
    <3>1. at[b] = "publish" /\ mine'[b] = mine[b] /\ mine[b] \in RunIds /\ mine[b] # Dispatcher
      BY <1>2, <2>1 DEF BInv, Holds
    <3>2. QED BY <1>2, <3>1 DEF BInv, Unpublished, Actors
  <2>2. QED BY <1>1, <2>1 DEF BInv, Unpublished, rcVars
<1>9. QED BY <1>4, <1>5, <1>6, <1>7, <1>8, CoordinatorInv DEF BInv

\* The task waited for is aborted where it is pending.
LEMMA ForcedAbortInv == ASSUME BInv, [Next]_vars, ForcedAbort PROVE BInv'
<1> DEFINE r == mine[Dispatcher]
<1>1. /\ at[Dispatcher] = "wait" /\ Pending(r) /\ r \in RunIds
      /\ at' = [at EXCEPT ![Dispatcher] = "finish", ![r] = "over"]
      /\ handleLock' = NoId /\ queueLock' \in {queueLock, NoId}
      /\ UNCHANGED <<current, queued, handle, quiet, chatVars, fate>>
  BY DEF ForcedAbort, BInv, Holds, Actors
<1>2. at[r] # "unborn" /\ at[r] # "publish" /\ command \in Stopping
  BY <1>1 DEF Pending, BInv, Handling
<1>3. /\ at'[Dispatcher] = "finish" /\ at'[r] = "over" /\ r # Dispatcher
      /\ \A a \in Actors \ {Dispatcher, r} : at'[a] = at[a]
  BY <1>1 DEF BInv, TypeOK, Actors
<1>4. TypeOK'
  <2>1. at' \in [Actors -> Places]
    BY <1>1 DEF BInv, TypeOK, Places, TaskPlaces, DispatchPlaces
  <2>2. QED BY <1>1, <2>1, CoordinatorInv DEF BInv, TypeOK, chatVars, quiet
<1>5. Sites'
  <2>1. /\ "finish" \in DispatchPlaces /\ "finish" \notin StartPlaces \cup {"steer"}
        /\ "over" \in TaskPlaces /\ "over" \notin StartPlaces /\ back' = back
    BY <1>1 DEF DispatchPlaces, StartPlaces, TaskPlaces, quiet
  <2>2. QED BY <1>1, <1>3, <2>1 DEF BInv, Sites, Actors
<1>6. Handling'
  BY <1>1, <1>2, <1>3 DEF BInv, Handling, StartPlaces, quiet
<1>7. Born' /\ Holds'
  BY <1>1, <1>2, <1>3, CoordinatorInv DEF BInv, Born, Holds, Actors, quiet
<1>8. Unpublished'
  <2>1. ASSUME NEW b \in Actors, at'[b] = "publish"
        PROVE  at[b] = "publish" /\ at'[mine[b]] = "unborn" /\ turn'[mine[b]] # "unborn"
    <3>1. at[b] = "publish" /\ mine[b] \in RunIds
      BY <1>3, <2>1 DEF BInv, Holds
    <3>2. at[mine[b]] = "unborn" /\ turn[mine[b]] # "unborn" /\ mine[b] # r /\ mine[b] # Dispatcher
      BY <1>2, <3>1 DEF BInv, Unpublished
    <3>3. QED BY <1>3, <3>1, <3>2, CoordinatorInv DEF Actors
  <2>2. QED BY <1>1, <2>1 DEF BInv, Unpublished, quiet
<1>9. QED BY <1>4, <1>5, <1>6, <1>7, <1>8, CoordinatorInv DEF BInv

-----------------------------------------------------------------------------
(* The theorems *)

\* Every step keeps it.
LEMMA BStep == BInv /\ [Next]_vars => BInv'
<1> SUFFICES ASSUME BInv, [Next]_vars PROVE BInv'
  OBVIOUS
<1>1. ASSUME NEW r \in RunIds, TaskStep(r) PROVE BInv'
  BY <1>1, TurnStepInv, ReplanInv, ConcludeInv DEF TaskStep
<1>2. ASSUME NEW a \in Actors, StartTurnStep(a) PROVE BInv'
  BY <1>2, EnqueueInv, CreateRunInv, PublishInv, StoreInv DEF StartTurnStep
<1>3. ASSUME NEW c \in Commands, ReadCommand(c) PROVE BInv'
  BY <1>3, ReadCommandInv
<1>4. CASE DispatchStep
  BY <1>4, DispatchInv, ReapInv, ForcedAbortInv DEF DispatchStep
<1>5. CASE GoalDecide \/ GoalStart \/ GoalBusy
  BY <1>5, GoalWaitInv, GoalStartInv
<1>6. CASE UNCHANGED vars
  <2>1. TypeOK'
    BY <1>6, CoordinatorInv DEF BInv, TypeOK, vars, slotVars, chatVars
  <2>2. QED
    BY <1>6, <2>1, CoordinatorInv
    DEF BInv, Sites, Handling, Born, Holds, Unpublished, vars, rcVars, slotVars
<1>7. QED BY <1>1, <1>2, <1>3, <1>4, <1>5, <1>6 DEF Next

\* It holds at the start.
LEMMA BInit == Init => BInv
<1> SUFFICES ASSUME Init PROVE BInv
  OBVIOUS
<1>1. RCP!IInv /\ RC!TypeOK
  <2>1. RCP!Init
    BY DEF Init, RC!Init, RCP!Init, RC!Tokens, RCP!Tokens, RC!NoCancellation, RCP!NoCancellation
  <2>2. RCP!IInv
    BY <2>1, CoordinatorAssumptions, RCP!InitIInv
  <2>3. QED BY <2>2, SameTypes DEF RCP!IInv, RCP!RunsInv, RCP!TypeOK
<1>2. /\ at[Dispatcher] = "ready" /\ at[GoalTask] = "idle"
      /\ \A r \in RunIds : at[r] = "unborn"
      /\ at \in [Actors -> {"ready", "idle", "unborn"}]
  BY DEF Init, Actors
<1>3. TypeOK
  <2>1. at \in [Actors -> Places] /\ back \in [Actors -> Places]
    BY <1>2 DEF Init, Places, TaskPlaces, DispatchPlaces, GoalPlaces
  <2>2. queued \in AnyPrompt /\ text \in [Actors -> AnyPrompt]
    BY DEF Init, NoPrompt, AnyPrompt
  <2>3. given \in 0 .. MaxCommands /\ replans \in 0 .. MaxReplans
    BY DEF Init
  <2>4. goalOn \in BOOLEAN
    BY DEF Init
  <2>5. QED BY <1>1, <2>1, <2>2, <2>3, <2>4 DEF Init, TypeOK, Fates
<1>4. Sites /\ Handling
  BY <1>2 DEF Init, Sites, Handling, TaskPlaces, DispatchPlaces, GoalPlaces, StartPlaces
<1>5. Born /\ Holds /\ Unpublished
  BY <1>2 DEF Born, Holds, Unpublished, Actors
<1>6. QED BY <1>1, <1>3, <1>4, <1>5 DEF BInv

\* It holds in every behaviour.
LEMMA BInductive == Spec => []BInv
<1>1. QED BY BInit, BStep, PTL DEF Spec

\* The dispatcher, the turn tasks and the goal task, however they interleave, use
\* the coordinator by its operations only: their specification implements its.
THEOREM UsesCoordinator == Spec => RCP!Spec
<1>1. Init => RCP!Init
  BY DEF Init, RC!Init, RCP!Init, RC!Tokens, RCP!Tokens, RC!NoCancellation, RCP!NoCancellation
<1>2. QED BY <1>1, BInductive, CoordinatorStep, PTL DEF Spec, RCP!Spec

\* The types of TurnLifecycle's state.
THEOREM TypeCorrect == Spec => []TypeOK
<1>1. BInv => TypeOK
  BY DEF BInv
<1>2. QED BY <1>1, BInductive, PTL

-----------------------------------------------------------------------------
(* The stop of a loop without a goal *)

\* No goal asks for a turn.
NoGoal == ~goalOn /\ at[GoalTask] = "idle"

\* Only a drain starts a turn from a task, under the guard of queued.
DrainsOnly ==
  \A r \in RunIds : at[r] \in StartPlaces =>
    at[r] \in {"start", "publish", "store"} /\ queueLock = r /\ back[r] = "over"

\* Once the buffered prompt was dropped none is buffered, or in a drain's hands.
DroppedStays ==
  command \in Stopping /\ at[Dispatcher] # "drop_queued" => queued = NoPrompt /\ queueLock = NoId

\* Once the active run was cancelled none is active.
CancelledStays ==
  command \in Stopping /\ at[Dispatcher] \notin {"drop_queued", "cancel"} => active = NoId

LInv == NoGoal /\ DrainsOnly /\ DroppedStays /\ CancelledStays

\* A task's end frees the slot of the coordinator or leaves it alone.
LEMMA ActiveStays ==
  ASSUME NEW r, RC!CompleteRun(r) \/ RC!TurnVanishes(r) \/ RC!CancelToken(r) \/ UNCHANGED rcVars
  PROVE  active' \in {active, NoId}
  BY DEF RC!CompleteRun, RC!TurnVanishes, RC!CancelToken, rcVars

\* The steps of a turn task but Drain.
LEMMA LTaskStep ==
  ASSUME BInv, LInv, [Next]_vars, NEW r \in RunIds, TaskStep(r), ~Drain(r)
  PROVE  LInv'
<1>1. PICK t \in Places : at' = [at EXCEPT ![r] = t] /\ t \notin StartPlaces
  <2>1. ~Replan(r)
    BY DEF Replan, LInv, NoGoal
  <2>2. \E t \in {"over", "opening", "running", "streaming", "answered", "clear", "followup",
                 "complete", "same_session", "drain"} : at' = [at EXCEPT ![r] = t]
    BY <2>1 DEF TaskStep, Register, RecordPrompt, Request, Streamed, Answer, Leave, Conclude,
       ClearCurrent, NoFollowup, Complete, SameSession, Go
  <2>3. QED BY <2>2 DEF Places, TaskPlaces, StartPlaces
<1>2. /\ UNCHANGED <<queued, queueLock, back, command, goalOn>>
      /\ RC!CompleteRun(r) \/ RC!TurnVanishes(r) \/ UNCHANGED rcVars
  BY DEF TaskStep, Register, RecordPrompt, Request, Streamed, Answer, Leave, Replan, Conclude,
     ClearCurrent, NoFollowup, Complete, SameSession, slotVars, quiet, LInv, NoGoal
<1>3. active' \in {active, NoId}
  BY <1>2, ActiveStays
<1>4. /\ at'[GoalTask] = at[GoalTask] /\ at'[Dispatcher] = at[Dispatcher]
      /\ \A s \in RunIds : at'[s] \in StartPlaces => at'[s] = at[s]
  BY <1>1 DEF BInv, TypeOK, Actors
<1>5. QED BY <1>2, <1>3, <1>4 DEF LInv, NoGoal, DrainsOnly, DroppedStays, CancelledStays

\* A drain finds nothing once the buffered prompt was dropped.
LEMMA LDrain ==
  ASSUME BInv, LInv, [Next]_vars, NEW r \in RunIds, Drain(r)
  PROVE  LInv'
<1>1. /\ UNCHANGED <<active, command, goalOn>> /\ queueLock = NoId
      /\ at'[GoalTask] = at[GoalTask] /\ at'[Dispatcher] = at[Dispatcher]
      /\ \A s \in RunIds \ {r} : at'[s] = at[s]
  BY DEF Drain, rcVars, BInv, TypeOK, Actors
<1>2. CASE queued = NoPrompt
  <2>1. at'[r] = "over" /\ UNCHANGED <<queued, queueLock, back>>
    BY <1>2 DEF Drain, BInv, TypeOK, Actors
  <2>2. QED BY <1>1, <2>1
        DEF LInv, NoGoal, DrainsOnly, DroppedStays, CancelledStays, StartPlaces
<1>3. CASE queued # NoPrompt
  <2>1. at'[r] = "start" /\ back'[r] = "over" /\ queueLock' = r
    BY <1>3 DEF Drain, BInv, TypeOK, Actors
  <2>2. \A s \in RunIds \ {r} : at'[s] \notin StartPlaces
    BY <1>1 DEF LInv, DrainsOnly
  <2>3. DrainsOnly'
    BY <2>1, <2>2 DEF DrainsOnly
  <2>4. QED BY <1>1, <1>3, <2>3 DEF LInv, NoGoal, DroppedStays, CancelledStays
<1>4. QED BY <1>2, <1>3

\* The dispatcher starts a turn for a prompt, not in a command that stops the loop.
LEMMA LDispatcherStarts ==
  ASSUME BInv, LInv, [Next]_vars, StartTurnStep(Dispatcher)
  PROVE  LInv'
<1>1. /\ command \notin Stopping /\ UNCHANGED <<command, goalOn, back>> /\ queueLock' = queueLock
  <2>1. at[Dispatcher] \in StartPlaces
    BY DEF StartTurnStep, CheckSlot, Enqueue, CreateRun, Publish, Store, Go, StartPlaces
  <2>2. command \notin Stopping
    BY <2>1 DEF BInv, Handling, Stopping
  <2>3. queueLock # Dispatcher
    BY DEF BInv, TypeOK
  <2>4. QED BY <2>2, <2>3
        DEF StartTurnStep, CheckSlot, Enqueue, CreateRun, Publish, Store, slotVars
<1>2. /\ at'[GoalTask] = at[GoalTask]
      /\ \A s \in RunIds : at'[s] = at[s] \/ at'[s] = "spawned"
  BY DEF StartTurnStep, CheckSlot, Enqueue, CreateRun, Publish, Store, Go, BInv, TypeOK, Actors, Holds
<1>3. QED BY <1>1, <1>2
      DEF LInv, NoGoal, DrainsOnly, DroppedStays, CancelledStays, StartPlaces

\* A drain starts a turn under its guard.
LEMMA LDrainStarts ==
  ASSUME BInv, LInv, [Next]_vars, NEW r \in RunIds, StartTurnStep(r)
  PROVE  LInv'
<1>1. /\ at[r] \in {"start", "publish", "store"} /\ queueLock = r /\ back[r] = "over"
      /\ CreateRun(r) \/ Publish(r) \/ Store(r)
      /\ command \in Stopping => at[Dispatcher] = "drop_queued"
      /\ \A s \in RunIds \ {r} : at[s] \notin StartPlaces
  <2>1. at[r] \in StartPlaces
    BY DEF StartTurnStep, CheckSlot, Enqueue, CreateRun, Publish, Store, Go, StartPlaces
  <2>2. at[r] \in {"start", "publish", "store"} /\ queueLock = r /\ back[r] = "over"
    BY <2>1 DEF LInv, DrainsOnly
  <2>3. QED BY <2>2
        DEF StartTurnStep, CheckSlot, Enqueue, Go, LInv, DroppedStays, DrainsOnly
<1>2. /\ UNCHANGED <<command, goalOn, back, queued>>
      /\ Store(r) \/ queueLock' = queueLock
  BY <1>1 DEF CreateRun, Publish, Store, slotVars
<1>3. /\ at'[GoalTask] = at[GoalTask] /\ at'[Dispatcher] = at[Dispatcher]
      /\ \A s \in RunIds \ {r} : at'[s] = at[s] \/ at'[s] = "spawned"
      /\ Store(r) => at'[r] = "over"
      /\ ~Store(r) => at'[r] \in {"publish", "store", "spawned"}
  <2>1. CASE CreateRun(r)
    BY <2>1 DEF CreateRun, Store, Go, BInv, TypeOK, Actors
  <2>2. CASE Publish(r)
    BY <2>2 DEF Publish, Store, Go, BInv, TypeOK, Actors, Holds
  <2>3. CASE Store(r)
    BY <1>1, <2>3 DEF Store, Go, BInv, TypeOK, Actors
  <2>4. QED BY <1>1, <2>1, <2>2, <2>3
<1>4. DrainsOnly'
  BY <1>1, <1>2, <1>3 DEF DrainsOnly, StartPlaces
<1>5. QED BY <1>1, <1>2, <1>3, <1>4 DEF LInv, NoGoal, DroppedStays, CancelledStays

\* The dispatcher's own steps.
LEMMA LDispatch ==
  ASSUME BInv, LInv, [Next]_vars, DispatchStep
  PROVE  LInv'
<1>1. /\ UNCHANGED <<back, command, goalOn>>
      /\ at'[GoalTask] = at[GoalTask]
      /\ \A s \in RunIds : at'[s] = at[s] \/ at'[s] = "over"
  BY DEF DispatchStep, SteerCheck, SteerQueue, SteerCancel, SteerTake, DropQueued, Cancel,
     Replace, Take, Reap, Joined, ForcedAbort, Finish, Go, quiet, BInv, TypeOK, Actors, Holds
<1>2. CASE command \notin Stopping
  <2>1. queueLock' = queueLock
    BY <1>2
    DEF DispatchStep, SteerCheck, SteerQueue, SteerCancel, SteerTake, DropQueued, Cancel,
        Replace, Take, Reap, Joined, ForcedAbort, Finish, Go, slotVars, BInv, Handling
  <2>2. QED BY <1>1, <1>2, <2>1
        DEF LInv, NoGoal, DrainsOnly, DroppedStays, CancelledStays, StartPlaces
<1>3. CASE command \in Stopping /\ DropQueued
  BY <1>1, <1>3
  DEF DropQueued, Go, Stopping, LInv, NoGoal, DrainsOnly, DroppedStays, CancelledStays,
      BInv, TypeOK, Actors, StartPlaces
<1>4. CASE command \in Stopping /\ ~DropQueued
  <2>1. at[Dispatcher] # "drop_queued" /\ ~SteerCheck /\ ~SteerQueue /\ ~SteerCancel /\ ~SteerTake
    BY <1>4
    DEF DispatchStep, SteerCheck, SteerQueue, SteerCancel, SteerTake, Cancel,
        Replace, Take, Reap, Joined, ForcedAbort, Finish, Go, BInv, Handling, Stopping
  <2>2. queued = NoPrompt /\ queueLock = NoId
    BY <1>4, <2>1 DEF LInv, DroppedStays
  <2>3. queued' = queued /\ queueLock' = NoId
    BY <1>4, <2>1, <2>2
    DEF DispatchStep, Cancel, Replace, Take, Reap, Joined, ForcedAbort, Finish, slotVars
  <2>4. at[Dispatcher] # "cancel" => active' \in {active, NoId}
    <3>1. CASE Replace
      BY <3>1 DEF Replace, RC!ReplaceSession
    <3>2. CASE Take
      BY <3>2, ActiveStays DEF Take, TakeCurrent
    <3>3. CASE ForcedAbort
      BY <3>3, ActiveStays DEF ForcedAbort
    <3>4. CASE Reap \/ Joined \/ Finish
      BY <3>4 DEF Reap, Joined, Finish, rcVars
    <3>5. CASE Cancel
      BY <3>5 DEF Cancel, Go
    <3>6. QED BY <1>4, <2>1, <3>1, <3>2, <3>3, <3>4, <3>5 DEF DispatchStep
  <2>5. at[Dispatcher] = "cancel" => active' = NoId
    BY <1>4, <2>1
    DEF DispatchStep, Cancel, CancelActive, RC!CancelCurrent, rcVars,
        Replace, Take, Reap, Joined, ForcedAbort, Finish, Go
  <2>6. CancelledStays'
    BY <1>1, <1>4, <2>1, <2>4, <2>5 DEF LInv, CancelledStays
  <2>7. QED BY <1>1, <2>2, <2>3, <2>6 DEF LInv, NoGoal, DrainsOnly, DroppedStays, StartPlaces
<1>5. QED BY <1>2, <1>3, <1>4

\* Without a goal at the start there is none, and every step keeps the rest.
LEMMA LStep == BInv /\ LInv /\ [Next]_vars => LInv'
<1> SUFFICES ASSUME BInv, LInv, [Next]_vars PROVE LInv'
  OBVIOUS
<1>1. ASSUME NEW r \in RunIds, TaskStep(r) PROVE LInv'
  BY <1>1, LTaskStep, LDrain
<1>2. ASSUME NEW a \in Actors, StartTurnStep(a) PROVE LInv'
  <2>1. a # GoalTask
    BY <1>2
    DEF StartTurnStep, CheckSlot, Enqueue, CreateRun, Publish, Store, Go, LInv, NoGoal
  <2>2. QED BY <1>2, <2>1, LDispatcherStarts, LDrainStarts DEF Actors
<1>3. ASSUME NEW c \in Commands, ReadCommand(c) PROVE LInv'
  <2>1. /\ UNCHANGED <<queued, queueLock, active>> /\ command' = c /\ goalOn' = (goalOn /\ c # "abort")
        /\ at'[Dispatcher] = FirstPlace(c) /\ \A a \in Actors \ {Dispatcher} : at'[a] = at[a] /\ back'[a] = back[a]
    BY <1>3 DEF ReadCommand, Go, BInv, TypeOK, Actors, slotVars, rcVars
  <2>2. c \in Stopping => FirstPlace(c) = "drop_queued"
    BY DEF Stopping, FirstPlace
  <2>3. QED BY <2>1, <2>2 DEF LInv, NoGoal, DrainsOnly, DroppedStays, CancelledStays, Actors
<1>4. ~(GoalDecide \/ GoalStart \/ GoalBusy)
  BY DEF GoalDecide, GoalStart, GoalBusy, Go, LInv, NoGoal
<1>5. CASE UNCHANGED vars
  BY <1>5
  DEF vars, rcVars, slotVars, LInv, NoGoal, DrainsOnly, DroppedStays, CancelledStays
<1>6. QED BY <1>1, <1>2, <1>3, <1>4, <1>5, LDispatch DEF Next

\* Without a goal, a command that stops the loop leaves nothing of it: no prompt
\* is buffered or being started, and whatever still executes was cancelled or has
\* completed its run.
THEOREM StopStops == MaxReplans = 0 /\ Spec => []StoppedLoopIsStopped
<1>1. MaxReplans = 0 /\ Init => LInv
  <2> SUFFICES ASSUME MaxReplans = 0, Init PROVE LInv
    OBVIOUS
  <2>1. at[GoalTask] = "idle" /\ \A r \in RunIds : at[r] = "unborn"
    BY DEF Init, Actors
  <2>2. command = "none" /\ ~goalOn
    <3>1. command = "none" /\ goalOn = (MaxReplans > 0)
      BY DEF Init
    <3>2. ~(MaxReplans > 0)
      OBVIOUS
    <3>3. QED BY <3>1, <3>2, Zenon
  <2>3. QED BY <2>1, <2>2
        DEF LInv, NoGoal, DrainsOnly, DroppedStays, CancelledStays, Stopping, StartPlaces
<1>2. BInv /\ LInv => StoppedLoopIsStopped
  <2> SUFFICES ASSUME BInv, LInv, at[Dispatcher] \in {"ready", "exited"}, command \in Stopping
               PROVE  /\ queued = NoPrompt
                      /\ \A a \in Actors : at[a] \notin StartPlaces
                      /\ \A r \in RunIds : Executing(r) => RC!IsCancelled(r) \/ turn[r] = "gone"
    BY DEF StoppedLoopIsStopped
  <2>1. queued = NoPrompt /\ queueLock = NoId /\ active = NoId
    BY DEF LInv, DroppedStays, CancelledStays
  <2>2. \A a \in Actors : at[a] \notin StartPlaces
    BY <2>1 DEF LInv, NoGoal, DrainsOnly, StartPlaces, Actors
  <2>3. ASSUME NEW r \in RunIds, Executing(r) PROVE RC!IsCancelled(r) \/ turn[r] = "gone"
    <3>1. turn[r] \in {"running", "gone"}
      BY <2>3 DEF Executing, BInv, Born, TypeOK, RC!TypeOK, RC!Types
    <3>2. turn[r] = "running" /\ ~RC!IsCancelled(r) => active = r
      BY DEF BInv, RCP!IInv, RCP!LiveTurnIsActive, RC!IsCancelled, RCP!IsCancelled
    <3>3. QED BY <2>1, <3>1, <3>2
  <2>4. QED BY <2>1, <2>2, <2>3
<1>3. QED BY <1>1, <1>2, BInductive, LStep, PTL DEF Spec
-----------------------------------------------------------------------------
(* The prompts *)

\* A prompt that was not given yet met no fate.
UngivenPrompts == \A p \in Prompts : p > given => fate[p] = "none"

\* A prompt the dispatcher brings was given, and nothing was done with it yet.
BroughtPrompt ==
  at[Dispatcher] \in {"check", "enqueue", "start", "publish", "steer", "steer_queue"} =>
    text[Dispatcher] \in Prompts /\ text[Dispatcher] \leq given /\ fate[text[Dispatcher]] = "none"

\* A buffered prompt is known as such, and is in no drain's hands.
BufferedPrompt ==
  /\ queued \in Prompts => fate[queued] = "queued"
  /\ queueLock # NoId => queued = NoPrompt

\* A task that starts a turn does so for the goal, or for a buffered prompt it
\* took out and still guards.
DrainedPrompt ==
  \A r \in RunIds :
    /\ at[r] \in {"check", "enqueue"} => text[r] = GoalPrompt
    /\ at[r] \in {"start", "publish"} /\ text[r] \in Prompts =>
         queueLock = r /\ fate[text[r]] = "queued"

\* A prompt a task was spawned for is not answered yet, and is that task's alone.
SpawnedPrompt ==
  \A r \in RunIds : at[r] \in {"spawned", "opening"} /\ text[r] \in Prompts =>
    /\ fate[text[r]] \in {"started", "cancelled"}
    /\ \A s \in RunIds \ {r} : at[s] \in {"spawned", "opening"} => text[s] # text[r]

\* The prompts still to run, by who holds them.
PInv == UngivenPrompts /\ BroughtPrompt /\ BufferedPrompt /\ DrainedPrompt /\ SpawnedPrompt

\* The goal's prompt and the empty buffer are not among the user's prompts.
LEMMA PromptNumbers == GoalPrompt \notin Prompts /\ NoPrompt \notin Prompts /\ GoalPrompt # NoPrompt
  BY DEF GoalPrompt, NoPrompt, Prompts

\* A step of a task that records nothing, and leaves the prompts where they are.
LEMMA PQuiet ==
  ASSUME BInv, PInv, [Next]_vars, NEW r \in RunIds,
         UNCHANGED <<queued, text, given>>,
         NEW t \in Places, at' = [at EXCEPT ![r] = t],
         t \notin {"check", "enqueue", "start", "publish", "spawned"},
         t = "opening" => at[r] = "spawned",
         queueLock' = queueLock, fate' = fate
  PROVE  PInv'
<1>1. /\ at'[r] = t /\ at'[Dispatcher] = at[Dispatcher]
      /\ \A s \in RunIds \ {r} : at'[s] = at[s]
  BY DEF BInv, TypeOK, Actors
<1>2. UngivenPrompts' /\ BufferedPrompt'
  BY DEF PInv, UngivenPrompts, BufferedPrompt
<1>3. BroughtPrompt'
  BY <1>1 DEF PInv, BroughtPrompt
<1>4. DrainedPrompt'
  BY <1>1 DEF PInv, DrainedPrompt
<1>5. SpawnedPrompt'
  BY <1>1 DEF PInv, SpawnedPrompt
<1>6. QED BY <1>2, <1>3, <1>4, <1>5 DEF PInv

\* What became of the prompts, after Settle.
LEMMA Settled ==
  ASSUME NEW P, NEW f, Settle(P, f)
  PROVE  \A p \in Prompts : fate'[p] = IF p \in P THEN f ELSE fate[p]
  BY DEF Settle

\* A turn task records the prompt that is its alone.
LEMMA PRecord == ASSUME BInv, PInv, [Next]_vars, NEW r \in RunIds, RecordPrompt(r) PROVE PInv'
<1>1. /\ at[r] = "opening" /\ at'[r] = "running" /\ \A a \in Actors \ {r} : at'[a] = at[a]
      /\ UNCHANGED <<queued, queueLock, text, given>>
      /\ \A p \in Prompts : fate'[p] = IF p = text[r] THEN "ran" ELSE fate[p]
  BY Settled DEF RecordPrompt, Go, slotVars, BInv, TypeOK, Actors
<1>2. text[r] \in Prompts => fate[text[r]] \in {"started", "cancelled"}
  BY <1>1 DEF PInv, SpawnedPrompt
<1>3. UngivenPrompts'
  BY <1>1, <1>2 DEF PInv, UngivenPrompts
<1>4. BroughtPrompt' /\ BufferedPrompt'
  BY <1>1, <1>2 DEF PInv, BroughtPrompt, BufferedPrompt, Actors
<1>5. DrainedPrompt' /\ SpawnedPrompt'
  BY <1>1, <1>2 DEF PInv, DrainedPrompt, SpawnedPrompt, Actors
<1>6. QED BY <1>3, <1>4, <1>5 DEF PInv

\* A drain takes the buffered prompt out, and guards it.
LEMMA PDrain == ASSUME BInv, PInv, [Next]_vars, NEW r \in RunIds, Drain(r) PROVE PInv'
<1>1. /\ at[r] = "drain" /\ \A a \in Actors \ {r} : at'[a] = at[a] /\ text'[a] = text[a]
      /\ queueLock = NoId /\ UNCHANGED <<given, fate>> /\ r # NoId
  BY DEF Drain, BInv, TypeOK, Actors
<1>2. CASE queued = NoPrompt
  <2>1. at'[r] = "over" /\ UNCHANGED <<queued, queueLock, text>>
    BY <1>2 DEF Drain, BInv, TypeOK, Actors
  <2>2. QED BY <1>1, <2>1
        DEF PInv, UngivenPrompts, BroughtPrompt, BufferedPrompt, DrainedPrompt, SpawnedPrompt, Actors
<1>3. CASE queued # NoPrompt
  <2>1. at'[r] = "start" /\ text'[r] = queued /\ queued' = NoPrompt /\ queueLock' = r
    BY <1>3 DEF Drain, BInv, TypeOK, Actors
  <2>2. UngivenPrompts' /\ BroughtPrompt' /\ BufferedPrompt'
    BY <1>1, <2>1, PromptNumbers DEF PInv, UngivenPrompts, BroughtPrompt, BufferedPrompt, Actors
  <2>3. DrainedPrompt'
    BY <1>1, <2>1 DEF PInv, BufferedPrompt, DrainedPrompt, Actors
  <2>4. SpawnedPrompt'
    BY <1>1, <2>1 DEF PInv, SpawnedPrompt, Actors
  <2>5. QED BY <2>2, <2>3, <2>4 DEF PInv
<1>4. QED BY <1>2, <1>3

\* The steps of a turn task.
LEMMA PTask == ASSUME BInv, PInv, [Next]_vars, NEW r \in RunIds, TaskStep(r) PROVE PInv'
<1>1. CASE Register(r) \/ Request(r) \/ Streamed(r) \/ Answer(r) \/ Leave(r)
           \/ ClearCurrent(r) \/ NoFollowup(r) \/ Complete(r) \/ SameSession(r)
  <2>1. PICK t \in {"over", "opening", "running", "streaming", "answered", "clear", "followup",
                    "complete", "same_session", "drain"} :
          /\ at' = [at EXCEPT ![r] = t]
          /\ t = "opening" => at[r] = "spawned"
    BY <1>1 DEF Register, Request, Streamed, Answer, Leave, ClearCurrent, NoFollowup, Complete,
       SameSession, Go
  <2>2. UNCHANGED <<queued, text, given>> /\ queueLock' = queueLock /\ fate' = fate
    BY <1>1 DEF Register, Request, Streamed, Answer, Leave, ClearCurrent, NoFollowup, Complete,
       SameSession, slotVars, quiet
  <2>3. t \in Places /\ t \notin {"check", "enqueue", "start", "publish", "spawned"}
    BY DEF Places, TaskPlaces
  <2>4. QED BY <2>1, <2>2, <2>3, PQuiet
<1>2. CASE Replan(r)
  <2>1. /\ at'[r] = "check" /\ text'[r] = GoalPrompt
        /\ \A a \in Actors \ {r} : at'[a] = at[a] /\ text'[a] = text[a]
        /\ UNCHANGED <<queued, queueLock, given, fate>>
    BY <1>2 DEF Replan, slotVars, BInv, TypeOK, Actors
  <2>2. UngivenPrompts' /\ BroughtPrompt' /\ BufferedPrompt'
    BY <2>1 DEF PInv, UngivenPrompts, BroughtPrompt, BufferedPrompt, Actors
  <2>3. DrainedPrompt' /\ SpawnedPrompt'
    BY <2>1 DEF PInv, DrainedPrompt, SpawnedPrompt, Actors
  <2>4. QED BY <2>2, <2>3 DEF PInv
<1>3. QED BY <1>1, <1>2, PRecord, PDrain DEF TaskStep, Conclude

\* A starter looks at the slot, or creates its run.
LEMMA PCheck ==
  ASSUME BInv, PInv, [Next]_vars, NEW a \in Actors, CheckSlot(a) \/ CreateRun(a)
  PROVE  PInv'
<1>1. /\ \/ at[a] = "check" /\ at'[a] \in {"start", "enqueue"}
         \/ at[a] = "start" /\ at'[a] = "publish"
      /\ \A b \in Actors \ {a} : at'[b] = at[b]
      /\ UNCHANGED <<queued, queueLock, text, given, fate>>
  BY DEF CheckSlot, CreateRun, Go, slotVars, BInv, TypeOK, Actors
<1>2. UngivenPrompts' /\ BroughtPrompt' /\ BufferedPrompt'
  BY <1>1 DEF PInv, UngivenPrompts, BroughtPrompt, BufferedPrompt, Actors
<1>3. DrainedPrompt'
  BY <1>1, PromptNumbers DEF PInv, DrainedPrompt, Actors
<1>4. SpawnedPrompt'
  BY <1>1 DEF PInv, SpawnedPrompt, Actors
<1>5. QED BY <1>2, <1>3, <1>4 DEF PInv

\* A starter buffers its prompt, or is refused.
LEMMA PEnqueue == ASSUME BInv, PInv, [Next]_vars, NEW a \in Actors, Enqueue(a) PROVE PInv'
<1>1. /\ at[a] = "enqueue" /\ at'[a] = back[a] /\ queueLock = NoId /\ a # GoalTask
      /\ \A b \in Actors \ {a} : at'[b] = at[b]
      /\ UNCHANGED <<queueLock, text, given>>
  BY DEF Enqueue, Go, slotVars, BInv, TypeOK, Sites, GoalPlaces, Actors
<1>2. /\ a = Dispatcher => back[a] = "ready"
      /\ a \in RunIds => back[a] \in {"over", "clear", "complete"}
  BY <1>1 DEF BInv, Sites, StartPlaces
<1>3. text[a] = GoalPrompt \/ (text[a] \in Prompts /\ text[a] \leq given /\ fate[text[a]] = "none")
  BY <1>1 DEF PInv, BroughtPrompt, DrainedPrompt, Actors
<1>4. \/ queued = NoPrompt /\ queued' = text[a]
         /\ \A p \in Prompts : fate'[p] = IF p = text[a] THEN "queued" ELSE fate[p]
      \/ queued' = queued
         /\ \A p \in Prompts : fate'[p] = IF p = text[a] THEN "rejected" ELSE fate[p]
  BY Settled DEF Enqueue
<1>5. UngivenPrompts'
  <2>1. \A p \in Prompts : p > given => p # text[a]
    BY <1>3, PromptNumbers DEF Prompts, BInv, TypeOK
  <2>2. QED BY <1>1, <1>4, <2>1 DEF PInv, UngivenPrompts
<1>6. BufferedPrompt'
  BY <1>1, <1>3, <1>4, PromptNumbers DEF PInv, BufferedPrompt
<1>7. BroughtPrompt'
  <2>1. a = Dispatcher => at'[Dispatcher] = "ready"
    BY <1>1, <1>2
  <2>2. a # Dispatcher => at'[Dispatcher] = at[Dispatcher] /\ text[a] = GoalPrompt
    BY <1>1 DEF PInv, DrainedPrompt, Actors
  <2>3. QED BY <1>1, <1>4, <2>1, <2>2, PromptNumbers DEF PInv, BroughtPrompt
<1>8. \A s \in RunIds : at'[s] \in {"check", "enqueue", "start", "publish", "spawned", "opening"} => at'[s] = at[s]
  BY <1>1, <1>2 DEF Actors
<1>9. DrainedPrompt'
  BY <1>1, <1>3, <1>4, <1>8, PromptNumbers DEF PInv, DrainedPrompt
<1>10. SpawnedPrompt'
  BY <1>1, <1>3, <1>4, <1>8, PromptNumbers DEF PInv, SpawnedPrompt
<1>11. QED BY <1>5, <1>6, <1>7, <1>9, <1>10 DEF PInv

\* A prompt is handed to the task that is spawned for it.
LEMMA PPublish == ASSUME BInv, PInv, [Next]_vars, NEW a \in Actors, Publish(a) PROVE PInv'
<1> DEFINE r == mine[a]
<1>1. /\ at[a] = "publish" /\ r \in RunIds /\ at[r] = "unborn" /\ a # r /\ a # GoalTask
  BY DEF Publish, BInv, Holds, Unpublished, Sites, GoalPlaces
<1>2. /\ at'[a] = "store" /\ at'[r] = "spawned" /\ \A b \in Actors \ {a, r} : at'[b] = at[b]
      /\ text'[r] = text[a] /\ \A b \in Actors \ {r} : text'[b] = text[b]
      /\ UNCHANGED <<queued, queueLock, given>>
      /\ \A p \in Prompts : fate'[p] = IF p = text[a] THEN "started" ELSE fate[p]
  BY <1>1, Settled DEF Publish, BInv, TypeOK, Actors
<1>3. text[a] \in Prompts =>
        \/ a = Dispatcher /\ text[a] \leq given /\ fate[text[a]] = "none"
        \/ a \in RunIds /\ queueLock = a /\ fate[text[a]] = "queued"
  BY <1>1 DEF PInv, BroughtPrompt, DrainedPrompt, Actors
<1>4. UngivenPrompts'
  <2>1. text[a] \in Prompts => ~(text[a] > given)
    BY <1>3 DEF PInv, UngivenPrompts, BInv, TypeOK, Prompts
  <2>2. QED BY <1>2, <2>1 DEF PInv, UngivenPrompts
<1>5. BufferedPrompt'
  BY <1>2, <1>3, PromptNumbers DEF PInv, BufferedPrompt, BInv, TypeOK
<1>6. BroughtPrompt'
  BY <1>1, <1>2, <1>3 DEF PInv, BroughtPrompt, Actors
<1>7. DrainedPrompt'
  <2> SUFFICES ASSUME NEW s \in RunIds, at'[s] \in {"check", "enqueue", "start", "publish"}
               PROVE  /\ at'[s] \in {"check", "enqueue"} => text'[s] = GoalPrompt
                      /\ at'[s] \in {"start", "publish"} /\ text'[s] \in Prompts =>
                           queueLock' = s /\ fate'[text'[s]] = "queued"
    BY DEF DrainedPrompt
  <2>1. s # a /\ s # r /\ at'[s] = at[s] /\ text'[s] = text[s]
    BY <1>1, <1>2 DEF Actors
  <2>2. at[s] \in {"start", "publish"} /\ text[s] \in Prompts => text[s] # text[a]
    BY <1>3, <2>1 DEF PInv, DrainedPrompt
  <2>3. QED BY <1>2, <2>1, <2>2 DEF PInv, DrainedPrompt
<1>8. SpawnedPrompt'
  <2>1. \A s \in RunIds : at[s] \in {"spawned", "opening"} /\ text[s] \in Prompts => text[s] # text[a]
    BY <1>3 DEF PInv, SpawnedPrompt
  <2>2. \A s \in RunIds \ {r} : at'[s] \in {"spawned", "opening"} => at[s] = at'[s] /\ text'[s] = text[s]
    BY <1>2 DEF Actors
  <2>3. QED BY <1>1, <1>2, <2>1, <2>2 DEF PInv, SpawnedPrompt
<1>9. QED BY <1>4, <1>5, <1>6, <1>7, <1>8 DEF PInv

\* The starter is done, and lets go of the buffer.
LEMMA PStore == ASSUME BInv, PInv, [Next]_vars, NEW a \in Actors, Store(a) PROVE PInv'
<1>1. /\ at[a] = "store" /\ at'[a] = back[a] /\ \A b \in Actors \ {a} : at'[b] = at[b]
      /\ UNCHANGED <<queued, text, given, fate>>
      /\ queueLock' = IF queueLock = a THEN NoId ELSE queueLock
  BY DEF Store, Go, BInv, TypeOK
<1>2. back[a] \in {"ready", "idle", "over", "clear", "complete"}
  BY <1>1 DEF BInv, Sites, StartPlaces, Actors
<1>3. UngivenPrompts' /\ BufferedPrompt' /\ BroughtPrompt'
  BY <1>1, <1>2 DEF PInv, UngivenPrompts, BufferedPrompt, BroughtPrompt, Actors
<1>4. DrainedPrompt'
  BY <1>1, <1>2 DEF PInv, DrainedPrompt, Actors
<1>5. SpawnedPrompt'
  BY <1>1, <1>2 DEF PInv, SpawnedPrompt, Actors
<1>6. QED BY <1>3, <1>4, <1>5 DEF PInv

\* A command is read, with a prompt that was not given before.
LEMMA PRead == ASSUME BInv, PInv, [Next]_vars, NEW c \in Commands, ReadCommand(c) PROVE PInv'
<1>1. /\ at'[Dispatcher] = FirstPlace(c) /\ text'[Dispatcher] = given + 1 /\ given' = given + 1
      /\ \A a \in Actors \ {Dispatcher} : at'[a] = at[a] /\ text'[a] = text[a]
      /\ UNCHANGED <<queued, queueLock, fate>>
  BY DEF ReadCommand, Go, slotVars, BInv, TypeOK, Actors
<1>2. given + 1 \in Prompts /\ given + 1 > given /\ \A p \in Prompts : p > given + 1 => p > given
  BY DEF ReadCommand, BInv, TypeOK, Prompts
<1>3. UngivenPrompts' /\ BufferedPrompt'
  BY <1>1, <1>2 DEF PInv, UngivenPrompts, BufferedPrompt
<1>4. BroughtPrompt'
  <2>1. fate[given + 1] = "none" /\ given + 1 \leq given + 1
    BY <1>2 DEF PInv, UngivenPrompts, BInv, TypeOK
  <2>2. QED BY <1>1, <1>2, <2>1 DEF BroughtPrompt
<1>5. DrainedPrompt' /\ SpawnedPrompt'
  BY <1>1 DEF PInv, DrainedPrompt, SpawnedPrompt, Actors
<1>6. QED BY <1>3, <1>4, <1>5 DEF PInv

\* A steer takes the buffer, and what was in it is dropped.
LEMMA PSteerQueue == ASSUME BInv, PInv, [Next]_vars, SteerQueue PROVE PInv'
<1> DEFINE t == text[Dispatcher]
<1>1. /\ at[Dispatcher] = "steer_queue" /\ at'[Dispatcher] = "steer_cancel" /\ queueLock = NoId
      /\ \A a \in Actors \ {Dispatcher} : at'[a] = at[a]
      /\ queued' = t /\ UNCHANGED <<queueLock, text, given>>
  BY DEF SteerQueue, Go, quiet, BInv, TypeOK, Actors
<1>2. \A p \in Prompts : fate'[p] = CASE p = t -> "queued" [] p = queued -> "dropped" [] OTHER -> fate[p]
  BY DEF SteerQueue
<1>3. t \in Prompts /\ t \leq given /\ fate[t] = "none"
  BY <1>1 DEF PInv, BroughtPrompt
<1>4. /\ fate'[t] = "queued"
      /\ \A p \in Prompts \ {t} : fate[p] # "queued" => fate'[p] = fate[p]
  BY <1>2, <1>3 DEF PInv, BufferedPrompt
<1>5. UngivenPrompts'
  <2>1. \A p \in Prompts : p > given => p # t
    BY <1>3 DEF Prompts, BInv, TypeOK
  <2>2. QED BY <1>1, <1>4, <2>1 DEF PInv, UngivenPrompts
<1>6. BroughtPrompt' /\ BufferedPrompt'
  BY <1>1, <1>3, <1>4 DEF BroughtPrompt, BufferedPrompt
<1>7. DrainedPrompt'
  BY <1>1 DEF PInv, DrainedPrompt, BInv, TypeOK, Actors
<1>8. SpawnedPrompt'
  BY <1>1, <1>3, <1>4 DEF PInv, SpawnedPrompt, Actors
<1>9. QED BY <1>5, <1>6, <1>7, <1>8 DEF PInv

\* What the cancellations do to the prompts: some that were started are given up.
GivesUp ==
  \A p \in Prompts : fate'[p] = fate[p] \/ (fate[p] = "started" /\ fate'[p] = "cancelled")

\* The dispatcher goes on, holds no prompt, and leaves the buffer alone.
LEMMA PGoOn ==
  ASSUME BInv, PInv, [Next]_vars, UNCHANGED <<queued, queueLock, text, given>>, GivesUp,
         \A a \in Actors \ {Dispatcher} : at'[a] = at[a] \/ at'[a] = "over",
         \/ at'[Dispatcher] \notin {"check", "enqueue", "start", "publish", "steer", "steer_queue"}
         \/ at[Dispatcher] \in {"steer"}
  PROVE  PInv'
<1>1. UngivenPrompts' /\ BufferedPrompt'
  BY DEF PInv, GivesUp, UngivenPrompts, BufferedPrompt
<1>2. BroughtPrompt'
  BY DEF PInv, GivesUp, BroughtPrompt
<1>3. DrainedPrompt'
  BY DEF PInv, GivesUp, DrainedPrompt, Actors
<1>4. SpawnedPrompt'
  BY DEF PInv, GivesUp, SpawnedPrompt, Actors
<1>5. QED BY <1>1, <1>2, <1>3, <1>4 DEF PInv

\* The buffered prompt is dropped.
LEMMA PDrop == ASSUME BInv, PInv, [Next]_vars, DropQueued PROVE PInv'
<1>1. /\ at'[Dispatcher] \in {"ready", "cancel"} /\ queueLock = NoId
      /\ \A a \in Actors \ {Dispatcher} : at'[a] = at[a]
      /\ queued' = NoPrompt /\ UNCHANGED <<queueLock, text, given>>
      /\ \A p \in Prompts : fate'[p] = IF p = queued THEN "dropped" ELSE fate[p]
  BY Settled DEF DropQueued, Go, quiet, BInv, TypeOK, Actors
<1>2. queued \in Prompts => fate[queued] = "queued"
  BY DEF PInv, BufferedPrompt
<1>3. UngivenPrompts' /\ BroughtPrompt' /\ BufferedPrompt'
  BY <1>1, <1>2, PromptNumbers DEF PInv, UngivenPrompts, BroughtPrompt, BufferedPrompt
<1>4. DrainedPrompt'
  BY <1>1 DEF PInv, DrainedPrompt, BInv, TypeOK, Actors
<1>5. SpawnedPrompt'
  BY <1>1, <1>2 DEF PInv, SpawnedPrompt, Actors
<1>6. QED BY <1>3, <1>4, <1>5 DEF PInv

\* The task waited for is aborted, and with it the guard it holds.
LEMMA PForced == ASSUME BInv, PInv, [Next]_vars, ForcedAbort PROVE PInv'
<1> DEFINE r == mine[Dispatcher]
<1>1. /\ r \in RunIds /\ at'[Dispatcher] = "finish" /\ at'[r] = "over"
      /\ \A a \in Actors \ {Dispatcher, r} : at'[a] = at[a]
      /\ UNCHANGED <<queued, text, given, fate>>
      /\ queueLock' = IF queueLock = r THEN NoId ELSE queueLock
  BY DEF ForcedAbort, quiet, BInv, TypeOK, Holds, Actors
<1>2. UngivenPrompts' /\ BroughtPrompt' /\ BufferedPrompt'
  BY <1>1 DEF PInv, UngivenPrompts, BroughtPrompt, BufferedPrompt
<1>3. DrainedPrompt'
  BY <1>1 DEF PInv, DrainedPrompt, Actors
<1>4. SpawnedPrompt'
  BY <1>1 DEF PInv, SpawnedPrompt, Actors
<1>5. QED BY <1>2, <1>3, <1>4 DEF PInv

\* The dispatcher's own steps.
LEMMA PDispatch == ASSUME BInv, PInv, [Next]_vars, DispatchStep PROVE PInv'
<1>1. CASE SteerCheck \/ SteerCancel \/ SteerTake \/ Cancel \/ Replace \/ Take \/ Reap \/ Joined \/ Finish
  <2>1. /\ UNCHANGED <<queued, queueLock, text, given>>
        /\ \A a \in Actors \ {Dispatcher} : at'[a] = at[a] \/ at'[a] = "over"
    BY <1>1 DEF SteerCheck, SteerCancel, SteerTake, Cancel, Replace, Take, Reap, Joined, Finish,
       Go, slotVars, quiet, BInv, TypeOK
  <2>2. \/ at'[Dispatcher] \notin {"check", "enqueue", "start", "publish", "steer", "steer_queue"}
        \/ at[Dispatcher] \in {"steer"}
    BY <1>1 DEF SteerCheck, SteerCancel, SteerTake, Cancel, Replace, Take, Reap, Joined, Finish,
       Go, BInv, TypeOK, Actors
  <2>3. GivesUp
    <3>1. CASE SteerCancel \/ Cancel \/ SteerTake \/ Take
      <4>1. fate' = fate \/ \E r : GiveUp(r)
        BY <3>1 DEF SteerCancel, Cancel, SteerTake, Take, CancelActive, TakeCurrent
      <4>2. QED BY <4>1 DEF GiveUp, Settle, GivesUp
    <3>2. CASE SteerCheck \/ Replace \/ Reap \/ Joined \/ Finish
      BY <3>2 DEF SteerCheck, Replace, Reap, Joined, Finish, GivesUp
    <3>3. QED BY <1>1, <3>1, <3>2
  <2>4. QED BY <2>1, <2>2, <2>3, PGoOn
<1>2. QED BY <1>1, PSteerQueue, PDrop, PForced DEF DispatchStep

\* The goal task's steps: its turns carry no prompt of the user.
LEMMA PGoal == ASSUME BInv, PInv, [Next]_vars, GoalDecide \/ GoalStart \/ GoalBusy PROVE PInv'
<1>1. CASE GoalDecide \/ GoalBusy
  <2>1. UNCHANGED <<queued, queueLock, text, given, fate>> /\ \A a \in Actors \ {GoalTask} : at'[a] = at[a]
    BY <1>1 DEF GoalDecide, GoalBusy, Go, slotVars, quiet, BInv, TypeOK
  <2>2. GoalTask # Dispatcher /\ GoalTask \notin RunIds
    OBVIOUS
  <2>3. UngivenPrompts' /\ BroughtPrompt' /\ BufferedPrompt'
    BY <2>1, <2>2 DEF PInv, UngivenPrompts, BroughtPrompt, BufferedPrompt, Actors
  <2>4. DrainedPrompt' /\ SpawnedPrompt'
    BY <2>1, <2>2 DEF PInv, DrainedPrompt, SpawnedPrompt, Actors
  <2>5. QED BY <2>3, <2>4 DEF PInv
<1>2. CASE GoalStart
  <2> DEFINE r == NextRun
  <2>1. r \in RunIds
    BY <1>2, NextRunIsNew DEF GoalStart
  <2>2. /\ at'[r] = "spawned" /\ text'[r] = GoalPrompt
        /\ \A a \in Actors \ {r, GoalTask} : at'[a] = at[a] /\ text'[a] = text[a]
        /\ UNCHANGED <<queued, queueLock, given, fate>>
    BY <1>2, <2>1 DEF GoalStart, BInv, TypeOK, Actors
  <2>3. GoalTask # Dispatcher /\ GoalTask \notin RunIds /\ r # Dispatcher
    BY <2>1
  <2>4. UngivenPrompts' /\ BroughtPrompt' /\ BufferedPrompt'
    BY <2>2, <2>3 DEF PInv, UngivenPrompts, BroughtPrompt, BufferedPrompt, Actors
  <2>5. DrainedPrompt'
    BY <2>2, <2>3 DEF PInv, DrainedPrompt, Actors
  <2>6. SpawnedPrompt'
    BY <2>2, <2>3, PromptNumbers DEF PInv, SpawnedPrompt, Actors
  <2>7. QED BY <2>4, <2>5, <2>6 DEF PInv
<1>3. QED BY <1>1, <1>2

\* Every step keeps what is known of the prompts.
LEMMA PStep == BInv /\ PInv /\ [Next]_vars => PInv'
<1> SUFFICES ASSUME BInv, PInv, [Next]_vars PROVE PInv'
  OBVIOUS
<1>1. ASSUME NEW a \in Actors, StartTurnStep(a) PROVE PInv'
  BY <1>1, PCheck, PEnqueue, PPublish, PStore DEF StartTurnStep
<1>2. CASE UNCHANGED vars
  BY <1>2 DEF vars, slotVars, PInv, UngivenPrompts, BroughtPrompt, BufferedPrompt, DrainedPrompt, SpawnedPrompt
<1>3. QED BY <1>1, <1>2, PTask, PRead, PDispatch, PGoal DEF Next

\* A prompt is answered by one turn, and one the user took back by none.
THEOREM AnsweredOnce == Spec => PromptRunsOnce
<1>1. Init => PInv
  <2> SUFFICES ASSUME Init PROVE PInv
    OBVIOUS
  <2>1. at[Dispatcher] = "ready" /\ \A r \in RunIds : at[r] = "unborn"
    BY DEF Init, Actors
  <2>2. queued = NoPrompt /\ queueLock = NoId /\ \A p \in Prompts : fate[p] = "none"
    BY DEF Init
  <2>3. QED BY <2>1, <2>2, PromptNumbers
        DEF PInv, UngivenPrompts, BroughtPrompt, BufferedPrompt, DrainedPrompt, SpawnedPrompt
<1>2. ASSUME PInv
      PROVE  \A r \in RunIds :
               at[r] = "opening" /\ at'[r] = "running" /\ text[r] \in Prompts =>
                 fate[text[r]] \notin {"ran", "dropped", "rejected"}
  BY <1>2 DEF PInv, SpawnedPrompt
<1>3. QED BY <1>1, <1>2, BInductive, PStep, PTL DEF Spec, PromptRunsOnce
=============================================================================
