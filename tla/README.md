# Catalyst Code in TLA+

Catalyst Code (`catcode`) is a coding agent. A Rust core process per session reads
JSON commands from stdin and writes JSON events to stdout; a Go terminal UI, a
Next.js web server and a TypeScript SDK drive such processes. This directory models
what the core promises while several tasks share one session: which run is live,
which work belongs to it, which prompt runs, who is still waiting for an answer.
Rendering, wire formats and file contents are outside.

## Inventory

| Part | State it keeps | Operations | What makes it correct |
|---|---|---|---|
| Runtime coordinator, resource registry (`runtime/coordinator.rs`, `resources.rs`, `run.rs`) | current session, active run, last cancellation; a record and a cancellation token per registered work item | `start_run`, `cancel_current`, `replace_session`, `complete_run`, four ways to register, lease drop | one live run, no work outlives its owner, a late finisher changes nothing |
| Turn lifecycle (`main.rs`, `commands/dispatcher.rs`) | `current`, `queued` (one prompt), `handle`, `conversation` | `start_turn`, `run_turn_and_drain`, send, steer, clear_queue, abort, new_session, EOF, `cancel_in_flight_turn` | a prompt runs once or was taken back; abort stops everything; the dispatcher comes back |
| Turn loop (`agent/turn_loop.rs`) | the turn's own copy of the conversation, retry counters, tool rounds | request, stream, tools, compaction, write-back | every tool call gets a result; no write after the session is gone |
| Goal mode (`goal.rs`, `agent/goal_runtime.rs`) | phase, plan, iterations, run ids, deploy token | plan, review, deploy, verify, replan, approve, cancel | phases follow the transition table; a cancelled goal starts nothing |
| Intercom (`intercom.rs`) | mailboxes, known targets, pending asks, each behind its own lock | register, unregister, post, receive, ask, reply, cancel, reset | an ask is settled once; nobody waits on an ask that nobody holds |
| Subagents (`subagent.rs`, `worktree.rs`) | run records, batch handles, semaphore, worktrees | single, chain, parallel, steer, interrupt, promote | a cancelled batch promotes nothing; every child ends with its batch |
| Approvals, questions, sudo (`main.rs`, `tooling/approval.rs`) | three maps of pending requests; session allowances | request, answer, time out, cancel | an aborted run is never authorized; an answer arrives; a cancellation ends every wait |
| Event sink (`runtime/event_sink.rs`) | sequence number per run | prepare, emit | no event of a dead run, sequences in order; not modelled |
| Session journal (`session.rs`, `fsutil.rs`) | JSONL messages and run records | append, rewrite, load, delete | a crash costs at most the tail; run states survive a rewrite |
| Checkpoints (`checkpoint.rs`) | git refs or file snapshots, an index | create, restore with rollback | a failed restore leaves the old files; not modelled |
| Tools, cache, compaction (`tools.rs`, `tooling/`, `tool_cache.rs`, `agent/compaction.rs`) | output cache with a byte budget, waves of eight | execute, store, invalidate, digest | no stale output is restored |
| Providers (`provider.rs`, `providers/`) | HTTP streams, model lists, tokens | stream, retry, refresh | wire formats; not modelled |
| Memory and learning stores, plugins, browser, sandbox, OAuth, presence, staging | files and external processes | | mostly I/O; not modelled |
| Web server (`web/src/server`) | a core process per session file, subscribers | ensure, dispose, reap, delete | one core per file; not modelled |
| SDK (`sdk/src`) | one process, waiting requests by event type | send, request, dispose | a reply reaches its own request; not modelled |
| TUI (`tui/`) | screen, session claim files | keys, rendering | not modelled |

How they interact: the dispatcher is one task that handles a command at a time and
awaits it. A turn is a task of its own; it spawns tool calls, subagents and, through
a goal, loops that start further turns. They share tokio mutexes, one per field, and
are stopped through cancellation tokens that form a forest below the session.
The hard part is what happens between two awaits: a slot read and then written, a
guard kept across an await, a `Notify` used before anyone listens, a task aborted
wherever it happens to be. `PROJECT.json` lists these places under `hazards`.

## Modules

| Module | Models | State it adds | Composes |
|---|---|---|---|
| `RuntimeCoordinator` | `runtime/coordinator.rs`, `resources.rs` | session, active run, tokens, leases | refines `WorkOwnership` |
| `WorkOwnership` | the promise of it | era, lead, live work | |
| `TurnLifecycle` | `main.rs`, `commands/dispatcher.rs`: who runs, what waits | actors, `current`, queue, guards | instantiates `RuntimeCoordinator` |
| `Intercom` | `intercom.rs` | mailboxes, targets, asks | |
| `ApprovalGate` | requests of `main.rs` and their answers | three maps, tokens | |
| `SessionLog` | `session.rs`, `fsutil.rs` | the file line by line, what is durable | |
| `OutputCache` | `tool_cache.rs`, digests, ingress and restore caps | cache, results, workspaces | |
| `Transcript` | `agent/turn_loop.rs`, repair in `provider.rs`, undo, compact, clear, bang | conversation, buffer, journal | |
| `GoalMode` | `goal.rs`, `agent/goal_runtime.rs`, goal commands | goal, tasks, slots | its waves are `GoalDeploy`'s |
| `GoalDeploy` | `deploy_goal` | steps, permits, joins | refines `StepGraph` |
| `StepGraph` | the promise of it | status of each step | |
| `SubagentBatch` | `subagent.rs`, `worktree.rs` | children, worktrees, records | |

The `MC` modules give the model values their names and nothing else.

### RuntimeCoordinator and WorkOwnership

Each coordinator method holds a synchronous mutex from first read to last write, so
it is one action. A token is identified with what owns it; `lineage[t]` is the set
of tokens above and including `t`, and `IsCancelled` asks whether one of them was
cancelled, which is how `tokio_util` tokens behave. Work is registered through any
of the four methods, from a turn, from the run active at that instant, from a
session context taken earlier (possibly stale), or from other work.
`TurnVanishes` is the turn task that returns early or is aborted without
`complete_run`; `CancelToken` is anyone who holds a clone of a token.

One assumption is made on the callers: work that spawned work awaits it before it
drops its own lease, unless its future was dropped after a cancellation
(`DropLease`). The batch and run functions of `subagent.rs` do so;
`spawn_goal_review` does not and is listed as a hazard.

`WorkOwnership` says what this machinery is for, without tokens, registry or stale
handles: one era at a time, at most one leading run, work that holds on to both, and
an owner's end ends its work in the same step. `ImplementsOwnership` maps the
coordinator to it: the era is the session, the lead is the active run while it is
not cancelled, and work is live while it holds a lease and is not cancelled.

### TurnLifecycle

It instantiates `RuntimeCoordinator` for every call into the coordinator, with no work
items, and adds `State.current`, `queued`, `handle` and the conversation. An actor
(dispatcher, turn task, goal task) has a program counter `at`; a step is what it
does between two awaits. The places carry the code's order:

* `check`, `enqueue`, `start`, `publish`, `store` are `start_turn`;
* `spawned`, `opening`, `running`, `streaming`, `answered` are `run_turn`, reduced to
  prompt, request, answer and the write-back of the conversation;
* `clear`, `followup`, `complete`, `same_session`, `drain` are the end of
  `run_turn_and_drain`;
* `drop_queued`, `cancel`, `replace`, `take`, `reap`, `wait`, `finish` are
  `cancel_in_flight_turn` and what its callers do next.

`queueLock` and `handleLock` are the guards that Rust 2021 keeps alive through the
body of `if let Some(x) = m.lock().await.take()`. `ForcedAbort` is the abort after two
seconds; it takes effect at an await and releases the guards. A turn that blocks its
thread without an await is not modelled: nothing in the core could stop it.
`fate` is a history variable: what became of each prompt the user gave.

### Intercom

The three maps of the bus have locks of their own, so registering takes two steps,
unregistering four and a reset four, and everything else comes in between. A
mailbox is a value of `Boxes` because a sender clones its `Arc` and may push into one
that is already removed. `woken` is the `Notify`: `notify_one` leaves a permit,
`notify_waiters` reaches only an asker at `waiting`. `NameOf` is
`subagent_target`; the runs may have names of their own or share one.

### ApprovalGate

A request goes through `registered`, `published`, `waiting`, `woken`, `settled`; the
dispatcher through look-up, decision and notification, or through the cancellation's
tokens, sweep, join and clear. Every map look-up leaves the request in the map, as the
code does. An allowance that outlives the call is `always`. A sudo request in
`Inline` may be made by a tool or by a bang command, which the dispatcher runs
itself. `agreed` is history: the approvals that had a permission, read or yet to be read,
when a cancellation met them. The sweep overwrites the answer, not what a task has read.

### SessionLog

The file is a sequence of lines; a line is a header, a message, a run record, junk, or
the first part of a record that is being written. `append` creates the file if it is
missing (`CreateHeader`), gives an unterminated line its newline (`CheckBoundary`) and
writes a message whole (`WriteMessage`) or a run record in two writes (`WriteHead`,
`WriteTail`). `BeginRewrite` reads the records to keep, `Rename` puts the new file in
place of the old one and `SyncDirectory` makes that last. Workers append beside all of
this without a lock; a writer that opened the file before the rename writes into the
file that is gone (`gen`). `PowerLoss` leaves what was synced and any part of the rest, a
rename not yet synced may be undone, and `Restart` with `MarkInterrupted` is
`load_report`, `ensure` and the dispatcher's treatment of open runs. `settled`, `firm`
and `exposed` are history: what was written, synced, and overlapped by another call.
The first process may find any file in `OldFiles`: none, empty, of an older version,
torn, or of a newer version.

### OutputCache

A read is looked up in the cache and in the agent's own history, by a subagent in the
other order (`First`, `Second`), and only then executed; its result is stored and capped
(`LookInCache`, `LookBack`, `Execute`, `Deliver`). A failed result is neither: it goes into
the conversation as long as it is. A write changes the tree first and wipes the cache
when its result is handled (`Write`, `invalidate_all`). When the run was aborted or
steered meanwhile, or its task dropped, the result is not handled and the wipe does not
come (`DropCall`). `soft_digest_conversation` stores what it collapses. `ChangeOutside`
is a change by something that does not wipe, limited to the files in `Unwatched`;
`outside` is history: what changed in either way since the last wipe. Sizes and caps
are small units in the order the code gives them: a file above all caps and one below.
An output is the workspace, path and version it was read from, so that staleness and
mixing of workspaces can be stated.

### Transcript

A turn clones `State.conversation` into its buffer, and from then on both change in
different places: replies replace the conversation by the buffer, denied calls and
waves go to the conversation only, a finished batch copies it back. `TurnStep` has one
action per place of the loop: `Shrink` and `SendRequest` at the top, `ContextTooLong`
and `RequestFails`, `Respond`, the gates and records of a wave, the calls one by one,
`RefuseFinish` and `AcceptFinish` with the reflection and the summary nudge,
`EndBatch`, `Complete` and the flush of bang results. The dispatcher undoes, compacts,
clears, steers and runs bang commands beside it. A turn ends in two steps: it frees the
slot (`FreeCurrent`) and flushes what bangs deferred (`FlushBang`); a `Steer` frees the slot at
once and leaves the cancelled turn to record what it was at. `UserBash` looks at the slot
and `BashPush` acts on what was seen, with anything in between. `strewn` is history: a
bang's message was recorded while calls of a reply were open. A message keeps its kind and what pairs a call
with its result; which tail a compaction keeps is `MIN_TAIL`, and no more.

### GoalMode

The goal's phases and what may follow what are `validate_transition` as a relation
(`Forward`). A task is a turn, a deploy or the start of a turn that follows. A turn does
not know what it is for: at its end it asks three times whether the goal of the moment
is its business (`FinishPlanning`, `FinishReviewing`, `FinishVerifying`), and asks again
when its drain finds `goal_wrapup_active`. A deploy takes and cancels the token in the
slot, places its own, and moves the goal at the start of each wave and at its end. The
commands of the user come between any two of these steps; `CancelGoal` and the
start of a goal take two steps, as the code awaits in between.

### GoalDeploy and StepGraph

`deploy_goal` with the waves of `topo_waves`, skips, spawns, two semaphores, joins in
order, the reviewer of the last wave and the end. `Cancel` and `EndGoal` are the rest of
the program. The plan is chosen in `Init` from all that `apply_plan` accepts: `Orderable`
is what its cycle check ensures. `StepGraph` is what a user of a plan relies on, without
waves and permits; `KeepsGraph` maps the goal's end to `over`.

### SubagentBatch

One module for the four ways a batch runs its children; `mode` is chosen in `Init`. A
file is its content, and a content names who wrote it. `SetUp` makes and seeds a
worktree, `Refuse` and `Start` are the registry and the permit, `Touch` a call of the
child, `Finish` its record, `Hands` and `Promote` the promotion at the end of a run or of the
batch, in index order. A promotion copies file by file and then deletes, and stops at the
first error (`PromoteTree`): what it has done stays, the worktree goes, and the child is a
success as before. `Expire` is the time limit of a wave's step and `GiveUp` the end of
its five seconds of grace, where the run is dropped with its worktree and its record as
they are. `Interrupt` finds its run by prefix (`Named`), `ForceEnd` is the abort of the
turn after two seconds, which drops the running step of a chain and leaves the tasks of a
parallel batch at work, `Edit` an editor beside the batch. `Pruned` keeps `MaxTerminal`
records. `spoilt` and `barred` are history: whose promotion failed, and who was cancelled
before the worktree was looked at.

## Runs

| Run | Bounds | What it shows |
|---|---|---|
| `coordinator` | 2 sessions, 2 runs, 3 work items | `TypeOK`, `LiveTurnIsActive`, `NoOrphanWork`, `RecordedRunIsOver`, `StaleFinisherKeepsSlot`, and the refinement `ImplementsOwnership` |
| `turns` | 3 commands of all six, 3 runs, 2 sessions, panics allowed | `StoppedLoopIsStopped`: after abort, new_session or EOF nothing goes on uncancelled |
| `turns_goal` | 2 commands, 1 goal turn, 3 runs | `PromptRunsOnce`; `DispatcherReturns` under fairness |
| `intercom` | 2 runs, 2 asks or messages, mailboxes of 1, 1 reset | `TypeOK` with the limits, `SettledOnce`, `SupervisorAskNotLost` |
| `gate` | an approval and a sudo prompt, 2 cancellations | `TypeOK`, `NoLateApproval`; `AbortEndsRequests` and `AnswerArrives` under fairness |
| `journal` | turn and one worker, 1 message, 1 rewrite, 3 runs, 1 power failure, any old file | `UndisturbedKept`, `JournalIsMemory`, `OpenRunsAreOpen` |
| `outputs` | main agent and one subagent in a worktree, 2 files of which one is written, 2 entries, 1 wipe, 1 change without a wipe, 2 results, failures | `CacheTypeOK` with the cache's accounts and both limits, `FreshUnlessRaced` |
| `transcript` | 2 turns, 2 replies, one batch of reads and a write, 1 compaction, steers, 1 command of five | `RequestIsValid`, `JournalHoldsConversation`, `ResultsStay` |
| `goal` | 2 tasks at once, CEO mode with one revision, 1 goal, 2 commands of eight | `TypeOK` with the budgets, `DeployIsWorking`, `OverIsOver`; `GoalSettles` under fairness |
| `deploy` | every acyclic plan of 4 steps, 2 models, permits of 2 and 1 | `TypeOK`, `DependenciesDone`, `NothingForgotten`, `NoWorkerLeft`, the refinement `KeepsGraph`; `DeployEnds` under fairness |
| `batch` | 2 children, 1 file, all four modes, 1 edit, 1 interrupt, forced abort, time limits, promotions that fail | `TypeOK`, `OnlySuccessIsPromoted`, `LastIndexDecides`, `NewFilesKept`, `LiveRunsListed`; `BatchEnds` under fairness |
| `siblings` | 2 children with worktrees, one after the other | violated `SiblingsKept`: promoting a child that did not touch a file puts its old content back over the sibling's |

Why the bounds are enough: the properties are about a pair (old and new run, turn
and dispatcher, asker and replier, request and cancellation, two writers of a file, two
children of a batch), so two of each and one more to be in the way are what an
interleaving needs. Three work items make a batch, a child and a tool below it. Three
commands make a turn, a steer that supersedes it and a command that stops both. A
mailbox of one message is full after one. Four steps make a chain, a diamond and two
independent pairs. One power failure is met by every write, and the file it leaves may
also be the one the first process finds. Two commands are a deploy that is
approved twice, or one that is stopped while another takes its place. Reads and a
write in one batch are a wave, a call after it and the results of both. Larger
instances were explored once, without an error: `goal` with one iteration and with three tasks and one
command, `batch` with two interrupts.

`CHECK_DEADLOCK` is off everywhere: the bounded inputs run out, and a core that is
idle stands still.

Bounds in the guards: `MaxCommands`, `MaxReplans`, `SomeRunLeft` and, at
new_session, an unused session id (`TurnLifecycle`); `MaxSent`, `SomeAskLeft`,
`SomeBoxLeft`, `MaxResets` (`Intercom`); `MaxAborts` (`ApprovalGate`); `MaxMessages`, `MaxRewrites`,
`MaxRuns`, `MaxCrashes` (`SessionLog`); `MaxWipes`, `MaxOutside`, `MaxResults` and the
files in `Written` and `Unwatched` (`OutputCache`); `MaxPrompts`, `MaxReplies`, `MaxRounds`,
`MaxShrinks`, `MaxCommands` and one steer for each turn (`Transcript`); `Tasks`, `MaxGoals`, `MaxCommands` (`GoalMode`);
`MaxEdits`, `MaxInterrupts` (`SubagentBatch`). `MaxMail`, `MaxPending`, `MAX_ENTRIES`,
`MAX_TOTAL` and the other caps, `MIN_TAIL`, `SUMMARY_NUDGE_MAX`, `MaxRevisions`,
`MaxIterations`, the permits and `MaxTerminal` are the code's own limits with smaller
values.

Symmetry is used in `coordinator` (sessions, runs, work) and `intercom` (the two runs
with their names): no liveness is checked there and no expression tells the members
apart, except `CHOOSE` of a fresh mailbox or ask, which are outside the permuted sets.

`goalOn` is true at the start of the goal runs of `TurnLifecycle`: a goal was started
before the first command. `StoppedLoopIsStopped` is checked without goals in `turns`,
where it holds, and with one goal turn in `MCAbortGoal.cfg`, where it does not.
`GoalSettles` has the premise that a task can be spawned again and again: with two
tasks, the bound stops programs that the code would not.

### Where the exceptions in a property come from

Some properties name a case they do not cover. Each is a case in which the stronger
statement is refuted, by a configuration of the next section or by the recipe given there.

* `UndisturbedKept` leaves out a record whose append overlapped another call: two writers
  may tear each other's line, or one of them writes into a file that was renamed away.
* `NoLateApproval` leaves out a request that the user had agreed to before the
  cancellation: its task may wake after the sweep, with the answer it has read.
* `FreshUnlessRaced` leaves out an entry that a wipe overtook between its execution and
  its insertion, what digests store, and files that changed without a wipe: by something
  that reports no change, or by a write whose run was aborted (`NothingStale`).
* `CacheTypeOK` bounds the results that succeeded (`NoResultDominates`).
* `RequestIsValid` leaves out a buffer whose head is a reply (`EveryRequestIsPaired`) and a
  conversation into which a bang was recorded between a call and its result
  (`BangKeepsOrder`); `JournalHoldsConversation` and `ResultsStay` leave out a turn whose
  conversation the dispatcher replaced under it (`meddled`).
* `LastIndexDecides` and `NewFilesKept` leave out what an editor wrote meanwhile, a child
  whose own promotion failed (`SuccessIsPromoted`) and a child that was cancelled in time,
  and say nothing of a file that a sibling has unchanged (`SiblingsKept`).
* `TypeOK` of `SubagentBatch` leaves a batch that is over the worktrees of runs that were
  dropped at their time limit, and says nothing of one that was given up by force
  (`NoWorktreeDropped`).

### Configurations beside the runs

These check further statements of the sources. Run them with
`tlc -config X.cfg <module>`; each ends in a counterexample.

| Configuration | Module | Statement and what happens |
|---|---|---|
| `MCCurrentStuck.cfg` | `MCTurnLifecycle` | `IdleMeansFree` (`main.rs:2101-2103`): with a steer in between, `current` names a turn that is gone |
| `MCPromptLost.cfg` | `MCTurnLifecycle` | `QueuedPromptRuns` (`main.rs:2046`): a prompt that is buffered after the drain stays there |
| `MCLateAnswer.cfg` | `MCTurnLifecycle` | `OldTurnLeavesNewSessionAlone` (`main.rs:704-705`): the answer of a superseded turn lands in the new session |
| `MCAbortGoal.cfg` | `MCTurnLifecycle` | `StoppedLoopIsStopped` with a goal (`dispatcher.rs:3392-3393`): the abort frees the slot a goal turn polls for |
| `MCPeerAsk.cfg` | `MCIntercom` | `PeerAskNotLost` (`intercom.rs:159-161`): the wake-up comes before the asker listens |
| `MCSharedName.cfg` | `MCIntercom` | `RunHasMailbox` (`intercom.rs:153`): the end of one run removes the mailbox of its namesake |
| `MCSecondWord.cfg` | `MCApprovalGate` | `EscalatedWasGranted` (`dispatcher.rs:3335`): "always" and then "no" before the task wakes denies the call and keeps the allowance |
| `MCSudoBang.cfg` | `MCApprovalGate` | `SudoAnswered` (`main.rs:3845-3846`): a bang command asks the dispatcher, which is running it |
| `MCCutCharacter.cfg` | `MCSessionLog` | `SyncedHistoryLoads` (`load_report`): a tail cut inside a character makes the whole file unreadable |
| `MCNewerFile.cfg` | `MCSessionLog` | `NewerFileKept` (`load_report`): a file of a newer version is not loaded, and a rewrite replaces it |
| `MCDuplicate.cfg` | `MCOutputCache` | `DuplicateIsUnchanged` ("content unchanged"): an agent's history is not told of another agent's write |
| `MCFullBytes.cfg` | `MCOutputCache` | `FullBytesRemain` (`apply_ingress_cap`): a restore that was cut is stored as the result of its call |
| `MCFinishResults.cfg` | `MCTranscript` | `FinishKeepsResults` ("can't leave finish unpaired"): accepting a finish drops results that were only in the conversation |
| `MCUndoRunning.cfg` | `MCTranscript` | `UndoneStaysUndone` (undo): the running turn writes its buffer back |
| `MCGoalError.cfg` | `MCGoalMode` | `GoalSettles` with failing turns: a planning turn that ends in an error leaves its goal planning |
| `MCOldDeploy.cfg` | `MCGoalMode` | `OldDeployIsHarmless` (`Command::StartGoal`): the deploy of the goal before cancels the new one |

Further statements need only other constants:

| Statement | Configuration to change | What happens |
|---|---|---|
| `OneTurnAtATime` | `MCCurrentStuck.cfg` with this invariant | a steer frees `current` while the cancelled turn still executes |
| `KnownTargetHasRun` | `MCPeerAsk.cfg` with `MaxResets = 1` | a refused run leaves its target behind |
| `WaiterCanEnd` | `MCSecondWord.cfg` with `KindOf <- ApprovalAndAsk`, `RiskOf <- OneRisk`, `MaxAborts = 1` | a question of a newer turn is cleared by the cancellation of the older one |
| `WorktreesApart` | `MCFullBytes.cfg` with this invariant | a subagent's digest is stored under the main agent's key |
| `NothingStale` (`tool_cache.rs:83`) | `MCDuplicate.cfg` with this invariant | a write whose run is aborted before its result is handled leaves the old entry in the cache |
| `NoResultDominates` (`turn_loop.rs:2027`) | `MCDuplicate.cfg` with this invariant | a failed result is not capped |
| `BangKeepsOrder` (`main.rs:3825`) | `MCTranscript.cfg` with this invariant in place of `RequestIsValid` | after a steer the slot is free while the cancelled turn still records results |
| `EveryRequestIsPaired` (`provider.rs:606-607`) | `MCTranscript.cfg` with `MaxCommands = 2` | the first prompt is undone under its turn; compaction puts its marker between the reply at the head and its results |
| `TurnEnds` holds under `TranscriptSpec`: nudges and retries are counted, and a cancellation is noticed | `MCTranscript.cfg` with `Batches <- ReadsAndWrite`, `MIN_TAIL = 2`, `SUMMARY_NUDGE_MAX = 2`, `Tails = {2}`, `Commands = {"abort"}`, `MaxPrompts = 1`, `MaxReplies = 4`, `MaxRounds = 2`, `MaxShrinks = 0`, `MaxCommands = 1` | no counterexample |
| `SystemPromptPresent` | `MCUndoRunning.cfg` with `Commands = {"bash"}` | a bang result makes an empty conversation look begun |
| `OneDeploy` | `MCGoalError.cfg` with `Exits = {}`, `Commands = {"approve"}`, `MaxCommands = 2` | two approvals before the first deploy places its token |
| `VerdictIsVerifiers` | `MCGoalError.cfg` with `Exits = {}`, `Commands = {"send"}`, `MaxCommands = 1` | the end of a user's turn is taken for the verifier's |
| `CancelledStartsNothing` | `MCGoalError.cfg` with `Exits = {}`, `Commands = {"abort", "cancel"}`, `MaxCommands = 1` | a start that waits for the slot takes it once the cancellation has freed it |
| `CancelledNotPromoted` (`subagent.rs:3052`) | `MCBatch.cfg` | the token is read once before all promotions |
| `InterruptedNotPromoted` (`subagent.rs:1052`) | `MCBatch.cfg` | a child that was interrupted as it ended reports ok |
| `PausedIsLive` (`subagent.rs:892`) | `MCBatch.cfg` | an interrupt by id marks a run that is over |
| `NoWorktreeDropped` | `MCBatch.cfg` | the forced abort of the turn leaves the worktrees, and so does the time limit of a wave's step |
| `SuccessIsPromoted` (`subagent.rs:3051`) | `MCBatch.cfg` | a promotion that fails half way is an error event, and the worktree is removed all the same |
| `InterruptIsExact` (`subagent.rs:3746`) | `MCBatch.cfg` | the id of a child that has no record yet reaches the batch |

## Fairness

`FairSpec` of `TurnLifecycle`: tokio runs every ready task, its mutexes are first come,
first served, and its timers fire. So the dispatcher's steps, the steps of
`start_turn`, and a task's registration, prompt recording and conclusion are weakly fair.
A turn owes nothing in between: it may hang in a tool or a stream for ever, and
`DispatcherReturns` holds because of the two-second containment. `EndingSpec`, used
only to refute `QueuedPromptRuns`, adds turns that do end (strongly fair `Leave`, since
a request in between disables it for a moment): the prompt is lost even then.

`FairSpec` of `ApprovalGate`: tasks and dispatcher are scheduled. The user need not
answer and the fifteen-minute timeout need not fire, so `AbortEndsRequests` rests on the
cancellation alone. `AnsweringSpec` adds a user who answers whatever can be answered,
and is used to refute `SudoAnswered`.

`Transcript` has one weakly fair `TurnStep`: a stream has an idle timeout, a tool a time
limit, a question a timeout and the cancellation. Only `TurnEnds` uses it.

`GoalMode`: each turn, deploy and start is weakly fair, since streams and workers have
timeouts and the wait for the slot is bounded; so are the second halves of the
dispatcher's commands. The user owes nothing, which is why a plan that waits for an
approval may wait for ever (`Waits`).

`GoalDeploy`: the deploy and each worker are weakly fair. A permit goes to some worker
whenever one is free, and `await_goal_worker` has a time limit. `SubagentBatch`: the
batch and each child are weakly fair; a child's calls are counted and timed. A time limit
need not pass, but once it has, the run ends or is dropped (`GiveUp`).

## Proofs

* `RuntimeCoordinatorProofs`: `TypeCorrect`, `OneLiveTurn`, `OrphanFreedom`,
  `RecordedRunStaysOver`, `StaleFinisherHarmless`. The inductive invariant `IInv` adds to
  the properties what the code maintains without saying so: exactly the sessions left
  behind have cancelled tokens (`SessionsInv`), a run's token hangs from its session's
  (`RunsInv`), a token's ancestors are closed upwards and any run among them is named
  by some record (`LineageInv`), and the ancestors of live work still hold their leases
  (`AncestorsHeld`). The last is needed for `OrphanFreedom`: `cancel_run` finds nested
  work only through a record that is still in the registry.
  `Refinement` goes step by step from `IInv`: a step of the coordinator is a step of
  `WorkOwnership` or a stutter.
* `TurnLifecycleProofs`: `TypeCorrect`, `UsesCoordinator`, `StopStops`, `AnsweredOnce`.
  `UsesCoordinator` says that the turns move the coordinator only as its own module
  allows (`Spec => RCP!Spec`), so its invariant is taken over and not proved again. Above
  it, `BInv` says where a run can be named: in `current`, by a task or by the dispatcher
  at a given line (`Sites`, `Holds`), and not before it is created (`Unpublished`). `LInv`
  says that only the turn's own drain can start work in a loop that was told to stop
  (`DrainsOnly`), that what is dropped stays so (`DroppedStays`) and that a stopped turn's
  token stays cancelled (`CancelledStays`). `PInv` gives every prompt one place: not yet
  read, brought by the dispatcher, buffered, drained, or with a task.
* `IntercomProofs`: `TypeCorrect`, `AskSettledOnce`, `SupervisorAnswers`. `AskInv` says an
  ask is held at one place at most (pending, or taken by one unregister or reset) and only
  what is held is unsettled. `SupervisorAnswers` needs in addition that a mailbox is found
  by the name it was made for (`PostOK`, `MineOK`) and that an ask waits while its sender
  listens (`AskHeld`).
* `SubagentBatchProofs`: `TypeCorrect`, `SuccessOnly`, `LastDecides`, `NewFilesStay`,
  `LiveStaysListed`, for any number of children, files, edits and interrupts, with
  promotions that fail at any file. `Settled` and `Standing` say which worktrees exist and
  who is at work, phase by phase. `Barring` ties what was cancelled in time to the tokens
  and to what the batch read of them. `Seeds` says that a worktree holds what its own
  child made and what was promoted before it was seeded (`Reached`). `LastSoFar` and
  `NewSoFar` are the two properties during the promotion, when only the children up to an
  index have been looked at; a sibling's promotion keeps them whole or half done, since it
  copies only what that sibling has and deletes only what the commit knows. `Complete`
  says that a batch that is over has looked at all worktrees.
* `ToolCallProofs`, of `ApprovalGate`: `TypeCorrect`, `LateApprovalRefused`. `AbortInv`
  adds that nothing is decided before it is published (`PublishedFirst`), that Approve never
  works on an approval a cancellation has already met (`WorksOnLive`), and that a permission
  which is still written down for such an approval is one from before (`AgreedBefore`).
* `ToolCallProofs`, of `OutputCache`: `CacheTypeCorrect`, `CacheIsFresh`, for any agents,
  workspaces, paths, sizes and limits. The accounts of the cache (`Accounts`: the order
  lists the keys of the map, each once, and the total is their bytes) are followed
  through `Without`, `Evict` and `insert` (`WithoutAccounts`, `GoneAccounts`,
  `InsertAccounts`), and through the digest of a conversation of any length
  (`DigestAccounts`). Freshness is not inductive by itself: `CacheInv` adds that no entry
  and no output on its way is of a later epoch (`FreshEntries`, `FreshJobs`), that an
  output on its way is right already, and that what stays uncapped is short unless it
  failed (`Short`). A wipe makes everything on its way too old to count (`Wiped`); every
  other step leaves a right output right or gives it an excuse (`Excuses`).
* `ToolCallProofs`, of `Transcript`: `JournalKept`, `RecordedResultsStay` and
  `RequestsArePaired`, for any batches, commands, nudges and bounds. `Within(s, t)` says that the sequence `s` is what is left of
  `t`; that it survives what is appended to both sides (`WithinBoth`), and what only the
  file gets (`WithinMore`), are lemmas proved by induction over sequences (`SeqInduction`). `TranscriptInv`
  adds to `JournalHoldsConversation` that the turn's own buffer, without what goes with
  one request only (`Own`), is within the file too: the buffer replaces the conversation
  at every reply and compaction. `ResultsStay` needs to know when a result is in the file
  and not in the buffer. `ResultsInv` says that between two batches the buffer is the
  conversation, and that within one it lacks at most results of the batch's own reply
  (`Mirror`); that replies and results carry no number that was not given yet
  (`Numbered`); and that the reply of a result which the file has is followed in the
  conversation by that result, unless it finished (`Sound`). `Sound` speaks of three sets
  of messages: the conversation's, the file's, and those a manual compaction still reads.
  The repair before a request is taken as what it does to such a set (`SetOfRepaired`,
  `SoundRepair`). `meddled` is the excuse of these two: the dispatcher has rewritten
  the conversation under a running turn or under a compaction, which `MCUndoRunning.cfg`
  shows the result of.

  `RequestIsValid` has another excuse, and speaks of places. What is kept is `strewn` or
  `RequestInv` (`OrderInv`): only `BashPush` can leave `RequestInv`, and only by setting
  `strewn`; a bang's message between batches is like a note (`BashPushPaired`). `RequestInv` adds what is true
  of the conversation, of the buffer and of the copy a manual compaction reads (`Placed`): a
  reply is there once, a result is there once, and a result whose reply is there stands
  behind it with nothing but results of that reply between, unless the reply heads the
  sequence, where a compaction puts its marker right behind it. Nothing in it says that a
  result has its reply or a call its result: undoing, compacting and cancelling break
  both, and the repair makes up for them. In a batch its reply must stay open for what
  is yet to be recorded (`Open`): only results of calls that were answered are behind it.
  What undo, compaction and the stripping of nudges do to places is one lemma
  (`DrawnPlaced`), over a map from the places after the step to those before (`Drawn`). The
  repair is laid out in the same way (`Layout`, `Repairs`): it keeps places
  (`RepairedPlaced`) and leaves no call without its result and no result without its
  call (`RepairedTotal`), so that the request is paired (`PlacedIsPaired`).

  The three modules share no variable; they have one proof module because a tool call
  passes all three.
* `GoalDeployProofs`: `TypeCorrect`, `DependenciesHold`, `NothingIsForgotten`,
  `WorkersJoined`, and `DeployKeepsGraph`, the refinement, for every set of steps, plan,
  model assignment and limit. `IInv` says where the workers of a wave can be (`Workers`),
  that a step that was not ordered is untouched (`Untouched`), that the earlier waves are
  closed under dependencies (`Waves`) and that what is not done of them is among the
  failed, as long as results are accepted (`Outcomes`). The last two are what makes a wave
  safe to start: that all dependencies were ordered earlier is not enough, they must
  have ended well or be known as failed.
* `GoalModeProofs`: `TypeCorrect`, `DeployWorks`, `OverStaysOver`, for any number of
  tasks, goals, commands and waves. `DeployIsWorking` alone is not inductive: two
  deploys of one goal may race, and the one that is at its end cannot move a goal that
  the other has just set deploying, for the table goes from there to running only.
  `WorkOK` says that a goal that is deploying has a deploy before a wave; `CurrentOK` and
  `SlotOK` say what the two slots hold, so that stopping work cancels turns and deploys
  and moves none of them.

* `SessionLogProofs`: `DamageIsContained`, `JournalIsConversation`, `ReportedRunsAreOpen`
  and `SyncedIsLoaded`, for any number of tasks, records, rewrites and power failures.
  None of the properties is inductive, since a write is several steps and a power
  failure may come between any two. `HeadIsLast` and `OpenIsNoRecord` say that a line
  without its newline is the last one and no record yet, unless a call in progress is just
  writing it; `OpenedByOther` and `CreateOverlaps`, that whatever else the last line can
  be was exposed; `Kept`, that a settled record is in the file its call wrote to;
  `RewriteKeeps`, that what a rewrite has read still covers the runs that have ended;
  `OwnRecords` and `RunsKnown`, that a task's records are written by it alone and in
  order; `OpenAreMarked` and `MemoryIsJournal` are the reports that a restart would make.

`StopStops` has the hypothesis `MaxReplans = 0`: without a goal that starts turns of its
own. `MCAbortGoal.cfg` shows that the statement fails with one. `SupervisorAnswers`
speaks of the runs whose name is their own (`NameIsOwn`, part of the property):
`MCSharedName.cfg` shows what the end of a namesake does. The theorems of `SessionLogProofs` assume `FilesLoad`: no file is cut
inside a character or is of a newer version. `MCCutCharacter.cfg` and `MCNewerFile.cfg`
show what happens to such a file, and `SyncedIsLoaded` that nothing else
does it. The run `journal` has the same hypothesis by its constants.

The theorems hold for any sets and bounds that satisfy the `ASSUME`s of the modules: ids of
different kinds are distinct and given (`IdsGiven`), bounds are naturals, kinds and risks
are given, plans can be ordered, and a file of an earlier process has lines that such a
process writes (`OldFilesGiven`). TLC evaluates these in the runs.

Lemmas about data that would take an induction are stated without one, where a first-order
form is enough. `SeqInduction` takes a set of sequences in place of a predicate. A filter is
characterised by what it does to one more line at the end. The pruning of records is
a set of the oldest of a given cardinality. A fold over a cache is `After`, a recursive
function whose step is itself a function: `AfterAppend` gives its value for one more item
and `AfterKeeps` says that what every step keeps holds at the end. What a sequence has
from its members each once (`Split`, `RetainedLeaves`) is proved from these.

Only model-checked: liveness (`DispatcherReturns`, `AbortEndsRequests`, `AnswerArrives`,
`GoalSettles`, `DeployEnds`, `BatchEnds`), which with fairness and `ENABLED` is out of the
prover's reach. Every safety invariant and action property that a run checks is proved.
`RECURSIVE` operators are out of reach too and not used.

## What is left out

* In `TurnLifecycle` the inside of a turn is its prompt, requests, answers and write-backs;
  tool rounds are in `Transcript`, which has one turn at a time: the turn that a steer
  starts beside the one it cancelled is in `TurnLifecycle` only. `LoadSession`, `Reset`
  and `Clear` cancel as `NewSession` does; `NewSession` stands for them.
* In `Transcript` the texts, token counts, hooks, statistics, retries with another model
  and the spill of large outputs. When a compaction is due is a choice.
* In `GoalMode` what a plan, a review or a verdict says, persistence of the goal, goals
  restored by `LoadSession` or dropped by `NewSession`, the speculative scout, and
  auto-resolution of supervisor asks. The steps of a wave are in `GoalDeploy`.
* In `GoalDeploy` prompts, artifacts and notes; why a worker fails.
* In `SubagentBatch` the file a failing write leaves torn, the time limit of a wave's step
  that has no worktree, agent files, chains with parallel groups, resume and steer; what a
  child does with its tools besides writing files; git's object store.
* In `SessionLog` listing, renaming, forking and deleting of sessions, the lock between
  clients, and records of tools and goals, which are written as run records are.
* In `OutputCache` which calls are idempotent; the key of a call is its path.
* Which calls need approval, and where allowances are kept.

### Not modelled

The event sink, checkpoints, web server sessions and the SDK's request matching have state
worth a module and are in the plan. Providers are wire formats, OAuth and HTTP; memory
and learning stores rank texts; plugins, browser and sandbox are protocols of external
processes; the terminal UI draws. `config.rs`, `tools.rs` and most of `plugins.rs`,
`provider.rs` and `commands/` parse, format and do I/O: there is no state in them that
outlives a call and no second actor, so a model would repeat the code line by line.
This is most of the source, and the reason why the mapped share of it is small.

## Plan

1. Done: `RuntimeCoordinator`, `WorkOwnership`, `TurnLifecycle`, `Intercom`,
   `ApprovalGate`, `SessionLog`, `OutputCache`, `Transcript`, `GoalMode`, `GoalDeploy`,
   `StepGraph`, `SubagentBatch`; proofs of every safety invariant and action property that
   a run checks.
2. `EventStream`: event stamping over `RuntimeCoordinator`. Properties: events of a run
   carry its session, sequences are written in order, nothing of a dead run is emitted.
3. `LiveSessions`: web server and SDK processes. Property: one core per session file.
4. `CheckpointRestore`: small and sequential.

Runs are few on purpose: a refuted statement whose defect another one shows already, or
that needs a configuration of its own, is beside the runs.
