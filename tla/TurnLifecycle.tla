---------------------------- MODULE TurnLifecycle ----------------------------
(***************************************************************************)
(* How turns start, end, are queued, steered, aborted and drained:         *)
(* State.current, State.queued and State.handle of core/src/main.rs, the   *)
(* tasks that share them, and the coordinator (RuntimeCoordinator) below.  *)
(*                                                                         *)
(* The actors are the command dispatcher, which handles one command at a   *)
(* time; one task per run (run_turn_and_drain); and the goal task that     *)
(* starts a parent turn when a deploy is over.  Each step of an actor is   *)
(* what it does between two awaits, or under one lock.  Two tokio mutexes  *)
(* are held across awaits, because the guard is a temporary of an `if let` *)
(* whose body awaits: queued while a drain starts the next turn, handle    *)
(* while a cancellation waits for the task it took out.                    *)
(***************************************************************************)
EXTENDS Naturals, FiniteSets

CONSTANTS
  SessionIds, RunIds, Steering, Reasons, NoId,   \* as in RuntimeCoordinator
  Dispatcher, GoalTask,   \* the two actors that are not turn tasks
  Commands,       \* the commands the user gives, of those dispatched below
  MaxCommands,    \* how many of them
  MaxReplans,     \* how often the goal asks for a parent turn
  MayPanic        \* whether run_turn may panic

\* The commands that stop the loop.
Stopping == {"abort", "new_session", "eof"}

\* Ids are drawn with distinct prefixes; a cancellation is recorded with its
\* command's name.
ASSUME IdsGiven ==
  /\ SessionIds \cap RunIds = {}
  /\ NoId \notin SessionIds \cup RunIds
  /\ {Steering} \cup (Commands \cap Stopping) \subseteq Reasons

ASSUME BoundsNat == MaxCommands \in Nat /\ MaxReplans \in Nat
ASSUME CommandsKnown ==
  Commands \subseteq {"send", "steer", "clear_queue", "abort", "new_session", "eof"}
ASSUME ActorsDistinct ==
  Dispatcher # GoalTask /\ {Dispatcher, GoalTask} \cap (RunIds \cup {NoId}) = {}

Actors == {Dispatcher, GoalTask} \cup RunIds

\* The n-th command carries prompt n; 0 is a prompt of the goal's own.
Prompts == 1 .. MaxCommands
GoalPrompt == 0
NoPrompt == MaxCommands + 1
AnyPrompt == 0 .. MaxCommands + 1

VARIABLES
  session, opened, active, lastCancellation, turn, runSession,
  lineage, cancelled, lease, workSession, owner,    \* RuntimeCoordinator
  current,       \* State.current: the run the clients' commands act on
  queued,        \* State.queued: one buffered prompt
  queueLock,     \* who holds the guard of queued across an await
  handle,        \* State.handle: the task to wait for at a cancellation
  handleLock,    \* who holds the guard of handle across an await
  at,            \* where each actor is
  back,          \* where an actor goes on after start_turn
  text,          \* the prompt an actor starts, or the one its turn answers
  mine,          \* the run an actor has just created, or the task it awaits
  command,       \* the command being handled
  given,         \* how many commands have been read
  goalOn,        \* a goal is active
  replans,       \* how many replans and goal turns were decided
  conversation,  \* the user prompts recorded in State.conversation
  buffer,        \* the local copy of the conversation a turn works on
  fate           \* what became of each prompt (history)

rcVars == <<session, opened, active, lastCancellation, turn, runSession,
            lineage, cancelled, lease, workSession, owner>>
slotVars == <<current, queued, queueLock, handle, handleLock>>
chatVars == <<conversation, buffer>>
vars == <<rcVars, slotVars, at, back, text, mine, command, given, goalOn,
          replans, chatVars, fate>>

RC == INSTANCE RuntimeCoordinator WITH WorkIds <- {}

TaskPlaces ==
  {"unborn", "spawned", "opening", "running", "streaming", "answered", "clear",
   "followup", "complete", "same_session", "drain", "over"}
StartPlaces == {"check", "enqueue", "start", "publish", "store"}
DispatchPlaces ==
  {"ready", "steer", "steer_queue", "steer_cancel", "steer_take", "drop_queued",
   "cancel", "replace", "take", "reap", "wait", "finish", "exited"}
GoalPlaces == {"idle", "slot"}
Places == TaskPlaces \cup StartPlaces \cup DispatchPlaces \cup GoalPlaces

Fates == {"none", "queued", "started", "ran", "rejected", "dropped", "cancelled"}
-----------------------------------------------------------------------------
TypeOK ==
  /\ RC!TypeOK
  /\ current \in RunIds \cup {NoId}
  /\ queued \in AnyPrompt
  /\ queueLock \in RunIds \cup {NoId}
  /\ handle \in RunIds \cup {NoId}
  /\ handleLock \in {Dispatcher, NoId}
  /\ at \in [Actors -> Places]
  /\ back \in [Actors -> Places]
  /\ text \in [Actors -> AnyPrompt]
  /\ mine \in [Actors -> RunIds \cup {NoId}]
  /\ command \in {"none", "send", "steer", "clear_queue", "abort", "new_session", "eof"}
  /\ given \in 0 .. MaxCommands
  /\ goalOn \in BOOLEAN
  /\ replans \in 0 .. MaxReplans
  /\ conversation \subseteq AnyPrompt
  /\ buffer \in [RunIds -> SUBSET AnyPrompt]
  /\ fate \in [Prompts -> Fates]

Init ==
  /\ RC!Init
  /\ current = NoId /\ queued = NoPrompt /\ queueLock = NoId
  /\ handle = NoId /\ handleLock = NoId
  /\ at = [a \in Actors |-> CASE a = Dispatcher -> "ready"
                              [] a = GoalTask   -> "idle"
                              [] OTHER          -> "unborn"]
  /\ back = [a \in Actors |-> "over"]
  /\ text = [a \in Actors |-> NoPrompt]
  /\ mine = [a \in Actors |-> NoId]
  /\ command = "none" /\ given = 0
  /\ goalOn = (MaxReplans > 0) /\ replans = 0
  /\ conversation = {}
  /\ buffer = [r \in RunIds |-> {}]
  /\ fate = [p \in Prompts |-> "none"]
-----------------------------------------------------------------------------
(* Helpers *)

Go(a, from, to) == at[a] = from /\ at' = [at EXCEPT ![a] = to]

\* The prompts in P come to f.
Settle(P, f) == fate' = [p \in Prompts |-> IF p \in P THEN f ELSE fate[p]]

\* The turn of run r is given up before it recorded its prompt.
GiveUp(r) ==
  Settle({p \in Prompts : p = text[r] /\ fate[p] = "started"}, "cancelled")

\* A task that is pending at an await, where an abort of it takes effect.
Pending(r) ==
  \/ at[r] \in {"spawned", "opening", "running", "streaming", "answered", "clear",
               "followup", "complete"}
  \/ at[r] = "store" /\ handleLock # NoId
  \/ at[r] \in {"drain", "enqueue"} /\ queueLock # NoId

\* What most steps of the dispatcher and of a concluding task leave alone.
quiet == <<back, text, mine, command, given, goalOn, replans>>
-----------------------------------------------------------------------------
(* start_turn, for the dispatcher (send) and for a turn that replans; its   *)
(* tail also serves an idle steer and the drain of a queued prompt.         *)

\* `already`: the slot is looked at and its lock released before anything else.
CheckSlot(a) ==
  /\ Go(a, "check", IF current = NoId THEN "start" ELSE "enqueue")
  /\ UNCHANGED <<rcVars, slotVars, back, text, mine, command, given, goalOn,
                 replans, chatVars, fate>>

\* One prompt is buffered ("will run after the current turn"), the next refused.
Enqueue(a) ==
  /\ Go(a, "enqueue", back[a])
  /\ queueLock = NoId
  /\ IF queued = NoPrompt
       THEN queued' = text[a] /\ Settle({text[a]}, "queued")
       ELSE UNCHANGED queued /\ Settle({text[a]}, "rejected")
  /\ UNCHANGED <<rcVars, current, queueLock, handle, handleLock, back, text, mine,
                 command, given, goalOn, replans, chatVars>>

\* Run ids come from a counter, so which one is next is not a choice.
SomeRunLeft == \E r \in RunIds : turn[r] = "unborn"   \* bound on the turns
NextRun == CHOOSE r \in RunIds : turn[r] = "unborn"

CreateRun(a) ==
  /\ Go(a, "start", "publish")
  /\ SomeRunLeft
  /\ RC!StartRun(NextRun)
  /\ mine' = [mine EXCEPT ![a] = NextRun]
  /\ UNCHANGED <<slotVars, back, text, command, given, goalOn, replans, chatVars, fate>>

\* current is set and the task spawned.
Publish(a) ==
  /\ at[a] = "publish"
  /\ at' = [at EXCEPT ![a] = "store", ![mine[a]] = "spawned"]
  /\ current' = mine[a]
  /\ text' = [text EXCEPT ![mine[a]] = text[a]]
  /\ Settle({text[a]}, "started")
  /\ UNCHANGED <<rcVars, queued, queueLock, handle, handleLock, back, mine, command,
                 given, goalOn, replans, chatVars>>

\* The join handle replaces whatever was there; a drain lets go of queued.
Store(a) ==
  /\ Go(a, "store", back[a])
  /\ handleLock = NoId
  /\ handle' = mine[a]
  /\ queueLock' = IF queueLock = a THEN NoId ELSE queueLock
  /\ UNCHANGED <<rcVars, current, queued, handleLock, back, text, mine, command,
                 given, goalOn, replans, chatVars, fate>>

StartTurnStep(a) == CheckSlot(a) \/ Enqueue(a) \/ CreateRun(a) \/ Publish(a) \/ Store(a)
-----------------------------------------------------------------------------
(* run_turn_and_drain *)

\* A task whose run is no longer active when it first runs returns at once,
\* and leaves current as it is.
Register(r) ==
  /\ at[r] = "spawned"
  /\ IF RC!IsActive(r)
       THEN UNCHANGED rcVars /\ at' = [at EXCEPT ![r] = "opening"]
       ELSE RC!TurnVanishes(r) /\ at' = [at EXCEPT ![r] = "over"]
  /\ UNCHANGED <<slotVars, back, text, mine, command, given, goalOn, replans,
                 chatVars, fate>>

\* run_turn records the prompt, then works on its own copy of the conversation.
RecordPrompt(r) ==
  /\ Go(r, "opening", "running")
  /\ conversation' = conversation \cup {text[r]}
  /\ buffer' = [buffer EXCEPT ![r] = conversation']
  /\ Settle({text[r]}, "ran")
  /\ UNCHANGED <<rcVars, slotVars, back, text, mine, command, given, goalOn, replans>>

\* The loop checks for cancellation before each model request.
Request(r) ==
  /\ Go(r, "running", "streaming")
  /\ ~RC!IsCancelled(r)
  /\ UNCHANGED <<rcVars, slotVars, back, text, mine, command, given, goalOn,
                 replans, chatVars, fate>>

\* The stream ended before a cancellation was seen; the statistics come next.
Streamed(r) ==
  /\ Go(r, "streaming", "answered")
  /\ ~RC!IsCancelled(r)
  /\ UNCHANGED <<rcVars, slotVars, back, text, mine, command, given, goalOn,
                 replans, chatVars, fate>>

\* The answer is pushed on the copy, and the copy assigned to the conversation.
Answer(r) ==
  /\ Go(r, "answered", "running")
  /\ conversation' = buffer[r]
  /\ UNCHANGED <<rcVars, slotVars, back, text, mine, command, given, goalOn,
                 replans, buffer, fate>>

\* run_turn returns, finished or aborted, and the turn_end hooks run.
Leave(r) ==
  /\ at[r] \in {"running", "streaming"}
  /\ at' = [at EXCEPT ![r] = "clear"]
  /\ UNCHANGED <<rcVars, slotVars, back, text, mine, command, given, goalOn,
                 replans, chatVars, fate>>

\* A finished goal turn asks for another planning turn, either before run_turn
\* returns or, when its wrap-up flag is set, after the slot was cleared.
Replan(r) ==
  /\ \/ at[r] = "running" /\ back' = [back EXCEPT ![r] = "clear"]
     \/ at[r] = "followup" /\ back' = [back EXCEPT ![r] = "complete"]
  /\ goalOn /\ replans < MaxReplans /\ ~RC!IsCancelled(r)
  /\ replans' = replans + 1
  /\ at' = [at EXCEPT ![r] = "check"]
  /\ text' = [text EXCEPT ![r] = GoalPrompt]
  /\ UNCHANGED <<rcVars, slotVars, mine, command, given, goalOn, chatVars, fate>>

\* Only its own run is taken out of current.
ClearCurrent(r) ==
  /\ Go(r, "clear", "followup")
  /\ current' = IF current = r THEN NoId ELSE current
  /\ UNCHANGED <<rcVars, queued, queueLock, handle, handleLock, quiet, chatVars, fate>>

NoFollowup(r) ==
  /\ Go(r, "followup", "complete")
  /\ UNCHANGED <<rcVars, slotVars, quiet, chatVars, fate>>

\* A turn that panicked completes its run and does not drain.
Complete(r) ==
  /\ at[r] = "complete"
  /\ RC!CompleteRun(r)
  /\ \/ at' = [at EXCEPT ![r] = "same_session"]
     \/ MayPanic /\ at' = [at EXCEPT ![r] = "over"]
  /\ UNCHANGED <<slotVars, quiet, chatVars, fate>>

SameSession(r) ==
  /\ Go(r, "same_session", IF session = runSession[r] THEN "drain" ELSE "over")
  /\ UNCHANGED <<rcVars, slotVars, quiet, chatVars, fate>>

\* Mutant of Drain: the guard of queued is released once the prompt is taken out.
DrainReleases(r) ==
  /\ at[r] = "drain"
  /\ queueLock = NoId
  /\ at' = [at EXCEPT ![r] = IF queued = NoPrompt THEN "over" ELSE "start"]
  /\ back' = [back EXCEPT ![r] = "over"]
  /\ text' = [text EXCEPT ![r] = queued]
  /\ queued' = NoPrompt
  /\ UNCHANGED <<rcVars, current, queueLock, handle, handleLock, mine, command, given,
                 goalOn, replans, chatVars, fate>>

\* Mutant of Drain: the prompt is read (clone) instead of taken.
DrainPeeks(r) ==
  /\ at[r] = "drain"
  /\ queueLock = NoId
  /\ IF queued = NoPrompt
       THEN at' = [at EXCEPT ![r] = "over"] /\ UNCHANGED <<queueLock, text, back>>
       ELSE /\ at' = [at EXCEPT ![r] = "start"]
            /\ back' = [back EXCEPT ![r] = "over"]
            /\ text' = [text EXCEPT ![r] = queued]
            /\ queueLock' = r
  /\ UNCHANGED <<rcVars, current, queued, handle, handleLock, mine, command, given,
                 goalOn, replans, chatVars, fate>>

\* A buffered prompt is taken, and the guard of queued kept until it is started.
Drain(r) ==
  /\ at[r] = "drain"
  /\ queueLock = NoId
  /\ IF queued = NoPrompt
       THEN /\ at' = [at EXCEPT ![r] = "over"]
            /\ UNCHANGED <<queued, queueLock, text, back>>
       ELSE /\ at' = [at EXCEPT ![r] = "start"]
            /\ back' = [back EXCEPT ![r] = "over"]
            /\ text' = [text EXCEPT ![r] = queued]
            /\ queued' = NoPrompt
            /\ queueLock' = r
  /\ UNCHANGED <<rcVars, current, handle, handleLock, mine, command, given, goalOn,
                 replans, chatVars, fate>>

Conclude(r) == ClearCurrent(r) \/ NoFollowup(r) \/ Complete(r) \/ SameSession(r) \/ Drain(r)
-----------------------------------------------------------------------------
(* start_goal_parent_turn *)

\* A deploy ended and its goal wants a parent turn; it waits for the slot.
GoalDecide ==
  /\ Go(GoalTask, "idle", "slot")
  /\ goalOn /\ replans < MaxReplans
  /\ replans' = replans + 1
  /\ UNCHANGED <<rcVars, slotVars, back, text, mine, command, given, goalOn, chatVars, fate>>

\* The slot is free: the run is created under the lock of current.
GoalStart ==
  /\ at[GoalTask] = "slot" /\ current = NoId
  /\ SomeRunLeft
  /\ RC!StartRun(NextRun)
  /\ current' = NextRun
  /\ mine' = [mine EXCEPT ![GoalTask] = NextRun]
  /\ at' = [at EXCEPT ![GoalTask] = "store", ![NextRun] = "spawned"]
  /\ text' = [text EXCEPT ![NextRun] = GoalPrompt]
  /\ back' = [back EXCEPT ![GoalTask] = "idle"]
  /\ UNCHANGED <<queued, queueLock, handle, handleLock, command, given, goalOn,
                 replans, chatVars, fate>>

\* The slot stayed busy for three seconds.
GoalBusy ==
  /\ Go(GoalTask, "slot", "idle")
  /\ current # NoId
  /\ UNCHANGED <<rcVars, slotVars, quiet, chatVars, fate>>
-----------------------------------------------------------------------------
(* The dispatcher *)

FirstPlace(c) == CASE c = "send"  -> "check"
                   [] c = "steer" -> "steer"
                   [] OTHER       -> "drop_queued"

\* Abort cancels the goal before anything else.
ReadCommand(c) ==
  /\ Go(Dispatcher, "ready", FirstPlace(c))
  /\ given < MaxCommands
  /\ c = "new_session" => opened # SessionIds   \* bound: a session id is left
  /\ given' = given + 1
  /\ command' = c
  /\ text' = [text EXCEPT ![Dispatcher] = given']
  /\ back' = [back EXCEPT ![Dispatcher] = "ready"]
  /\ goalOn' = (goalOn /\ c # "abort")
  /\ UNCHANGED <<rcVars, slotVars, mine, replans, chatVars, fate>>

SteerCheck ==
  /\ Go(Dispatcher, "steer", IF current = NoId THEN "start" ELSE "steer_queue")
  /\ UNCHANGED <<rcVars, slotVars, quiet, chatVars, fate>>

\* The steer replaces a buffered prompt.
SteerQueue ==
  /\ Go(Dispatcher, "steer_queue", "steer_cancel")
  /\ queueLock = NoId
  /\ queued' = text[Dispatcher]
  /\ fate' = [p \in Prompts |-> CASE p = text[Dispatcher] -> "queued"
                                  [] p = queued           -> "dropped"
                                  [] OTHER                -> fate[p]]
  /\ UNCHANGED <<rcVars, current, queueLock, handle, handleLock, quiet, chatVars>>

\* cancel_current, and the note on which prompt the user gave up.
CancelActive(reason) ==
  IF active = NoId THEN UNCHANGED <<rcVars, fate>>
  ELSE RC!CancelCurrent(reason) /\ GiveUp(active)

\* The run in current is taken out and its token cancelled.
TakeCurrent ==
  /\ current' = NoId
  /\ IF current = NoId THEN UNCHANGED <<rcVars, fate>>
     ELSE RC!CancelToken(current) /\ GiveUp(current)

SteerCancel ==
  /\ Go(Dispatcher, "steer_cancel", "steer_take")
  /\ CancelActive(Steering)
  /\ UNCHANGED <<slotVars, quiet, chatVars>>

SteerTake ==
  /\ Go(Dispatcher, "steer_take", "ready")
  /\ TakeCurrent
  /\ UNCHANGED <<queued, queueLock, handle, handleLock, quiet, chatVars>>

\* The buffered prompt is dropped: all of clear_queue, the first step of
\* cancel_in_flight_turn.
DropQueued ==
  /\ Go(Dispatcher, "drop_queued", IF command = "clear_queue" THEN "ready" ELSE "cancel")
  /\ queueLock = NoId
  /\ queued' = NoPrompt
  /\ Settle({queued}, "dropped")
  /\ UNCHANGED <<rcVars, current, queueLock, handle, handleLock, quiet, chatVars>>

Cancel ==
  /\ Go(Dispatcher, "cancel", IF command = "new_session" THEN "replace" ELSE "take")
  /\ CancelActive(command)
  /\ UNCHANGED <<slotVars, quiet, chatVars>>

Replace ==
  /\ Go(Dispatcher, "replace", "take")
  /\ RC!ReplaceSession(command)
  /\ UNCHANGED <<slotVars, quiet, chatVars, fate>>

Take ==
  /\ Go(Dispatcher, "take", "reap")
  /\ TakeCurrent
  /\ UNCHANGED <<queued, queueLock, handle, handleLock, quiet, chatVars>>

\* The task in handle is taken out, and the guard of handle kept while it ends.
Reap ==
  /\ Go(Dispatcher, "reap", IF handle = NoId THEN "finish" ELSE "wait")
  /\ handle' = NoId
  /\ handleLock' = IF handle = NoId THEN NoId ELSE Dispatcher
  /\ mine' = [mine EXCEPT ![Dispatcher] = handle]
  /\ UNCHANGED <<rcVars, current, queued, queueLock, back, text, command, given,
                 goalOn, replans, chatVars, fate>>

Joined ==
  /\ Go(Dispatcher, "wait", "finish")
  /\ at[mine[Dispatcher]] = "over"
  /\ handleLock' = NoId
  /\ UNCHANGED <<rcVars, current, queued, queueLock, handle, quiet, chatVars, fate>>

\* Mutant of ForcedAbort: the wait for the task has no timeout.
NeverForced == FALSE /\ UNCHANGED vars

\* Two seconds are over: the task is aborted at the await it is pending at, and
\* lets go of the guards it holds.
ForcedAbort ==
  /\ at[Dispatcher] = "wait"
  /\ Pending(mine[Dispatcher])
  /\ at' = [at EXCEPT ![Dispatcher] = "finish", ![mine[Dispatcher]] = "over"]
  /\ handleLock' = NoId
  /\ queueLock' = IF queueLock = mine[Dispatcher] THEN NoId ELSE queueLock
  /\ \/ RC!TurnVanishes(mine[Dispatcher])
     \/ turn[mine[Dispatcher]] = "gone" /\ UNCHANGED rcVars
  /\ UNCHANGED <<current, queued, handle, quiet, chatVars, fate>>

\* What follows the cancellation: an empty conversation, or the end.
Finish ==
  /\ Go(Dispatcher, "finish", IF command = "eof" THEN "exited" ELSE "ready")
  /\ conversation' = IF command = "new_session" THEN {} ELSE conversation
  /\ UNCHANGED <<rcVars, slotVars, quiet, buffer, fate>>

DispatchStep ==
  \/ SteerCheck \/ SteerQueue \/ SteerCancel \/ SteerTake
  \/ DropQueued \/ Cancel \/ Replace \/ Take \/ Reap \/ Joined \/ ForcedAbort \/ Finish
-----------------------------------------------------------------------------
TaskStep(r) ==
  Register(r) \/ RecordPrompt(r) \/ Request(r) \/ Streamed(r) \/ Answer(r) \/ Leave(r) \/ Replan(r)
  \/ Conclude(r)

Next ==
  \/ \E c \in Commands : ReadCommand(c)
  \/ DispatchStep
  \/ \E r \in RunIds : TaskStep(r)
  \/ \E a \in Actors : StartTurnStep(a)
  \/ GoalDecide \/ GoalStart \/ GoalBusy

Spec == Init /\ [][Next]_vars

\* tokio runs every task that is ready, its mutexes are first come first served,
\* and its timers fire.  A turn owes nothing: it may hang in a tool or a stream.
Fairness ==
  /\ WF_vars(DispatchStep)
  /\ \A a \in Actors : WF_vars(StartTurnStep(a))
  /\ \A r \in RunIds : WF_vars(Register(r) \/ RecordPrompt(r) \/ Conclude(r))
  /\ WF_vars(GoalStart \/ GoalBusy)

FairSpec == Spec /\ Fairness

\* With turns that end: used to show that a prompt is lost even so.
EndingSpec ==
  FairSpec /\ \A r \in RunIds : WF_vars(Streamed(r) \/ Answer(r)) /\ SF_vars(Leave(r))
-----------------------------------------------------------------------------
(* Properties *)

\* The task of r still executes.
Executing(r) == at[r] \notin {"unborn", "over"}

\* When the dispatcher is done with a command that stops the loop, the loop is
\* stopped: no prompt is buffered or being started, and every task that still
\* executes has been cancelled or has completed its run ("so a single abort
\* fully stops the loop", Command::Abort).
StoppedLoopIsStopped ==
  at[Dispatcher] \in {"ready", "exited"} /\ command \in Stopping =>
    /\ queued = NoPrompt
    /\ \A a \in Actors : at[a] \notin StartPlaces
    /\ \A r \in RunIds : Executing(r) => RC!IsCancelled(r) \/ turn[r] = "gone"

\* A prompt is answered by one turn only, and one the user took back (abort,
\* clear_queue, a steer in its place) by none, wherever in the hand-over from
\* the queue to the next turn that happened.
PromptRunsOnce ==
  [][\A r \in RunIds :
       at[r] = "opening" /\ at'[r] = "running" /\ text[r] \in Prompts =>
         fate[text[r]] \notin {"ran", "dropped", "rejected"}]_vars

\* The dispatcher always comes back to the next command, though a turn may hang
\* for good and two locks are held across waits (the two-second containment of
\* cancel_in_flight_turn).
DispatcherReturns ==
  at[Dispatcher] # "ready" ~> at[Dispatcher] \in {"ready", "exited"}

\* "the TUI never wedges on a stuck working footer with no turn actually running"
\* (run_turn_and_drain): when nobody is doing anything, the slot is free.
IdleMeansFree ==
  (\A a \in Actors : at[a] \in {"unborn", "over", "ready", "idle"}) => current = NoId

\* A prompt that was buffered "will run after the current turn" (start_turn),
\* unless the user drops it.
QueuedPromptRuns ==
  \A p \in Prompts : fate[p] = "queued" ~> fate[p] # "queued"

\* "start_turn enforces one turn at a time" (pattern_log.rs): at most one turn
\* is between its prompt and its end.
OneTurnAtATime ==
  Cardinality({r \in RunIds : at[r] \in {"running", "streaming", "answered"}}) <= 1

\* "A session boundary must not race state replacement against a still-live turn"
\* (cancel_in_flight_turn): once the boundary is passed, no turn of an earlier
\* session changes the conversation of this one.
OldTurnLeavesNewSessionAlone ==
  [][\A r \in RunIds :
       at[r] = "answered" /\ at'[r] = "running" /\ runSession[r] # session
         => at[Dispatcher] # "ready" \/ conversation' = conversation]_vars

=============================================================================
