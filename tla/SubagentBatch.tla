---- MODULE SubagentBatch ----
(***************************************************************************)
(* Delegated runs and the files they share: subagent.rs (execute,          *)
(* run_single, run_parallel, run_chain, interrupt_action and the records   *)
(* of subagent_runs) with worktree.rs.  A batch runs its children in one   *)
(* of four ways:                                                           *)
(*   "parallel"  a worktree per child, made before the children start, and *)
(*               promoted in index order after all of them have ended;     *)
(*   "wave"      runs with a worktree of their own, made when a run starts *)
(*               and promoted when it ends (the steps of a goal's wave,    *)
(*               each under a time limit);                                 *)
(*   "shared"    parallel children that write the workspace itself;        *)
(*   "chain"     one child after the other, up to the first failure.       *)
(* A file is its content: nobody's, the one it had, the one an editor      *)
(* beside the batch gave it, or the number of the child that wrote it.     *)
(***************************************************************************)
EXTENDS Integers, FiniteSets

CONSTANTS NumTasks,     \* children of the batch
          Path,         \* the files of the workspace
          Permits,      \* the configured concurrency; a call may ask for less
          MaxTerminal,  \* terminal records that are kept (64 in the code)
          Modes,        \* the ways of running that are explored
          MaxEdits,     \* bound: edits of the workspace beside the batch
          MaxInterrupts,\* bound: interrupts by run id
          Forced        \* may the turn that runs the batch be aborted by force

ASSUME BatchAssumption ==
  /\ NumTasks \in Nat \ {0}
  /\ Permits \in Nat \ {0}
  /\ MaxTerminal \in Nat
  /\ Modes \subseteq {"parallel", "wave", "shared", "chain"}
  /\ MaxEdits \in Nat /\ MaxInterrupts \in Nat /\ Forced \in BOOLEAN

Child    == 1 .. NumTasks
Parent   == 0                \* the run of the batch itself, and its token
Run      == {Parent} \cup Child
Absent   == 0
Original == -1
Edited   == -2
Content  == {Absent, Original, Edited} \cup Child

VARIABLES
  mode,       \* how the batch runs its children
  concurrency,\* the permits of the batch
  head,       \* Path -> Content: the commit a worktree is checked out from
  main,       \* Path -> Content: the workspace
  tree,       \* Child -> Path -> Content: the worktrees
  trees,      \* the children whose worktree exists
  phase,      \* "setup" | "running" | "promoting" | "over" | "dropped"
  next,       \* the child that is set up, promoted or run next
  stop,       \* batch_cancelled, as it was read
  child,      \* Child -> "idle" | "waiting" | "running" | "ok" | "failed" | "dropped"
  cancelled,  \* the runs whose own token is cancelled
  expired,    \* the runs of a wave whose time limit has passed
  runs,       \* subagent_runs: Run -> state, or "none"
  ended,      \* Run -> its place among the ends (ended_at), or 0
  spoilt,     \* the children whose promotion failed before its end
  barred,     \* the children cancelled before their worktree was looked at
  edits, interrupts

how     == <<mode, concurrency>>
files   == <<head, main, tree, trees>>
tokens  == <<cancelled, expired, barred>>
records == <<runs, ended>>
bounds  == <<edits, interrupts>>
vars == <<how, files, phase, next, stop, child, tokens, spoilt, records, bounds>>

Tree == [Path -> Content]

Init ==
  /\ mode \in Modes /\ concurrency \in 1 .. Permits
  /\ head \in [Path -> {Absent, Original}]
  /\ main \in [Path -> {Absent, Original}]
  /\ tree = [i \in Child |-> head]
  /\ trees = {}
  /\ phase = IF mode = "parallel" THEN "setup" ELSE "running"
  /\ next = 1
  /\ stop = FALSE
  /\ child = [i \in Child |-> IF mode = "parallel" THEN "idle" ELSE "waiting"]
  /\ cancelled = {} /\ expired = {} /\ barred = {}
  /\ spoilt = {}
  /\ runs = [r \in Run |-> IF r = Parent /\ mode # "wave" THEN "running" ELSE "none"]
  /\ ended = [r \in Run |-> 0]
  /\ edits = 0
  /\ interrupts = 0

----
(* Worktrees.  Every operation holds WORKTREE_LOCK; none of them locks the *)
(* workspace against an editor.                                            *)

\* The files of ps that src has are copied.
CopyTreeDiff(src, dst, ps) ==
  [p \in Path |-> IF p \in ps /\ src[p] # Absent THEN src[p] ELSE dst[p]]

RemoveMissing(src, dst) == [p \in Path |-> IF src[p] = Absent THEN Absent ELSE dst[p]]

\* Those of ps that the commit has and src has lost are deleted.
SyncGitDeletions(src, dst, ps) ==
  [p \in Path |-> IF p \in ps /\ head[p] # Absent /\ src[p] = Absent THEN Absent ELSE dst[p]]

Seeded == RemoveMissing(main, CopyTreeDiff(main, head, Path))

\* Mutant of Promoted: the workspace mirrors the worktree, as in seeding.
PromotedMirror(i, copied, deleted) ==
  LET dst == CopyTreeDiff(tree[i], main, copied)
  IN  IF deleted = {} THEN dst ELSE RemoveMissing(tree[i], dst)

Promoted(i, copied, deleted) ==
  SyncGitDeletions(tree[i], CopyTreeDiff(tree[i], main, copied), deleted)

\* A promotion stops at the first file it cannot write or delete, and follows
\* no deletion that git does not list; either way what it has done stays done,
\* and the child is a success as before.
PromoteTree(i) ==
  \E copied, deleted \in SUBSET Path :
    /\ deleted # {} => copied = Path
    /\ main' = Promoted(i, copied, deleted)
    /\ spoilt' = IF copied = Path /\ deleted = Path THEN spoilt ELSE spoilt \cup {i}

----
(* Records. *)

Cancelled(r) == r \in cancelled \cup expired \/ Parent \in cancelled

\* The children that a cancellation of the batch comes in time for.
Unpromoted ==
  IF mode = "parallel" THEN {i \in Child : phase \in {"setup", "running"}} ELSE trees

\* The tokens cs are cancelled.
Cancel(cs) ==
  /\ cancelled' = cancelled \cup cs
  /\ barred' = IF Parent \in cs THEN barred \cup Unpromoted ELSE barred

Terminal(rs) == {r \in Run : rs[r] \notin {"none", "running", "paused"}}

\* Of the given records, those that at least MaxTerminal others outlived.
Oldest(rs, order) ==
  {r \in rs : Cardinality({s \in rs : order[s] > order[r]}) >= MaxTerminal}

\* Mutant of Pruned: an interrupted run, which has no end yet, may go too.
PrunedPaused(rs, order) ==
  [r \in Run |-> IF r \in Oldest({s \in Run : rs[s] \notin {"none", "running"}}, order)
                 THEN "none" ELSE rs[r]]

\* prune_terminal_runs: the oldest of the terminal records go.
Pruned(rs, order) ==
  [r \in Run |-> IF r \in Oldest(Terminal(rs), order) THEN "none" ELSE rs[r]]

\* The state an ending run is recorded with.
EndState(r, ok) ==
  IF Cancelled(r) THEN "cancelled" ELSE IF ok THEN "completed" ELSE "failed"

Record(r, state) ==
  /\ ended' = [ended EXCEPT ![r] = 1 + Cardinality({s \in Run : ended[s] > 0})]
  /\ runs' = Pruned(IF runs[r] = "none" THEN runs ELSE [runs EXCEPT ![r] = state], ended')

----
(* The set-up of a parallel batch. *)

\* Mutant of SetUpFails: the worktrees made before the failure stay.
SetUpFailsLeaving ==
  /\ phase = "setup"
  /\ phase' = "over"
  /\ Record(Parent, "failed")
  /\ UNCHANGED <<how, files, next, stop, child, tokens, spoilt, bounds>>

\* A worktree cannot be made or seeded: those made before it are removed, and
\* the batch ends without starting a child.
SetUpFails ==
  /\ phase = "setup"
  /\ trees' = {}
  /\ phase' = "over"
  /\ Record(Parent, "failed")
  /\ UNCHANGED <<how, head, main, tree, next, stop, child, tokens, spoilt, bounds>>

\* The next worktree is made from HEAD and seeded from the workspace.
SetUp ==
  /\ phase = "setup"
  /\ tree' = [tree EXCEPT ![next] = Seeded]
  /\ trees' = trees \cup {next}
  /\ IF next < NumTasks
     THEN next' = next + 1 /\ UNCHANGED <<phase, child>>
     ELSE /\ next' = 1
          /\ phase' = "running"
          /\ child' = [i \in Child |-> "waiting"]
  /\ UNCHANGED <<how, head, main, stop, tokens, spoilt, records, bounds>>

----
(* A child. *)

\* A child holds its permit while it runs, and while it hands over what it did.
Holding(i) ==
  child[i] = "running" \/ (mode = "wave" /\ i \in trees /\ child[i] # "dropped")

PermitFree == Cardinality({i \in Child : Holding(i)}) < concurrency

\* A chain's step comes after the success of the one before it.
Turn(i) == mode = "chain" => \A j \in 1 .. i - 1 : child[j] = "ok"

\* The children of a parallel batch are tasks of their own; a chain awaits its
\* steps itself.
Scheduled == phase = "running" \/ (phase = "dropped" /\ mode # "chain")

\* A child has its permit (the children of a batch race for it).  A cancelled
\* one is refused by the registry, and one whose own worktree cannot be made
\* does not get that far: neither leaves a record.
Refuse(i) ==
  /\ Scheduled
  /\ child[i] = "waiting" /\ PermitFree /\ Turn(i)
  /\ Cancelled(i) \/ mode = "wave"
  /\ child' = [child EXCEPT ![i] = "failed"]
  /\ UNCHANGED <<how, files, phase, next, stop, tokens, spoilt, records, bounds>>

Start(i) ==
  /\ Scheduled
  /\ child[i] = "waiting" /\ PermitFree /\ Turn(i)
  /\ ~ Cancelled(i)
  /\ child' = [child EXCEPT ![i] = "running"]
  /\ runs' = [runs EXCEPT ![i] = "running"]
  /\ IF mode = "wave"
     THEN /\ tree' = [tree EXCEPT ![i] = Seeded]
          /\ trees' = trees \cup {i}
     ELSE UNCHANGED <<tree, trees>>
  /\ UNCHANGED <<how, head, main, phase, next, stop, tokens, spoilt, ended, bounds>>

\* A call of the child writes or deletes a file: of its worktree, if it has
\* one.  The token is looked at before the call, so one call may still follow a
\* cancellation.
Touch(i, p) ==
  /\ child[i] = "running"
  /\ \E c \in {i, Absent} :
       IF mode \in {"parallel", "wave"}
       THEN tree' = [tree EXCEPT ![i][p] = c] /\ UNCHANGED main
       ELSE main' = [main EXCEPT ![p] = c] /\ UNCHANGED tree
  /\ UNCHANGED <<how, head, trees, phase, next, stop, child, tokens, spoilt, records, bounds>>

\* run_single ends; a panic of the run is caught there and is a failure.
Finish(i) ==
  /\ child[i] = "running"
  /\ \E ok \in BOOLEAN :
       /\ child' = [child EXCEPT ![i] = IF ok THEN "ok" ELSE "failed"]
       /\ Record(i, EndState(i, ok))
  /\ UNCHANGED <<how, files, phase, next, stop, tokens, spoilt, bounds>>

\* Mutant of Hands: a success is promoted without another look at the token.
HandsOver(i) ==
  /\ mode = "wave" /\ i \in trees /\ child[i] \in {"ok", "failed"}
  /\ IF child[i] = "ok" THEN PromoteTree(i) ELSE UNCHANGED <<main, spoilt>>
  /\ trees' = trees \ {i}
  /\ UNCHANGED <<how, head, tree, phase, next, stop, child, tokens, records, bounds>>

\* A run with a worktree of its own promotes it, unless it failed or the token
\* it was given is cancelled, and removes it, whatever became of the promotion.
Hands(i) ==
  /\ mode = "wave" /\ i \in trees /\ child[i] \in {"ok", "failed"}
  /\ IF child[i] = "ok" /\ Parent \notin cancelled /\ i \notin expired
     THEN PromoteTree(i)
     ELSE UNCHANGED <<main, spoilt>>
  /\ trees' = trees \ {i}
  /\ UNCHANGED <<how, head, tree, phase, next, stop, child, tokens, records, bounds>>

\* await_goal_worker: the time limit cancels the run's token.
Expire(i) ==
  /\ mode = "wave" /\ i \in trees \ expired
  /\ expired' = expired \cup {i}
  /\ barred' = barred \cup {i}
  /\ UNCHANGED <<how, files, phase, next, stop, child, cancelled, spoilt, records, bounds>>

\* The run outlives that by five seconds and is dropped where it stands: its
\* record stays as it is, and so does its worktree.
GiveUp(i) ==
  /\ i \in trees \cap expired /\ child[i] # "dropped"
  /\ child' = [child EXCEPT ![i] = "dropped"]
  /\ UNCHANGED <<how, files, phase, next, stop, tokens, spoilt, records, bounds>>

----
(* The end of the batch. *)

\* Mutant of Ended: results come over a channel, and a failed child sends none.
EndedOk(i) == child[i] = "ok"

Ended(i) == child[i] \in {"ok", "failed", "dropped"}

Failed == \E i \in Child : child[i] = "failed"

\* The batch has joined its children (a chain stops at the first failure) and
\* reads its token, once.
Decide ==
  /\ phase = "running"
  /\ \/ \A i \in Child : Ended(i)
     \/ mode = "chain" /\ (Failed \/ Parent \in cancelled)
                       /\ \A i \in Child : child[i] # "running"
  /\ mode = "wave" => \A i \in trees : child[i] = "dropped"
  /\ stop' = (Parent \in cancelled)
  /\ phase' = "promoting"
  /\ UNCHANGED <<how, files, next, child, tokens, spoilt, records, bounds>>

\* Mutant of Promote: worktrees are promoted in any order.
PromoteAny ==
  /\ phase = "promoting" /\ mode = "parallel" /\ next <= NumTasks
  /\ \E i \in trees :
       /\ IF child[i] = "ok" /\ ~ stop THEN PromoteTree(i) ELSE UNCHANGED <<main, spoilt>>
       /\ trees' = trees \ {i}
  /\ next' = next + 1
  /\ UNCHANGED <<how, head, tree, phase, stop, child, tokens, records, bounds>>

\* The next worktree: promoted if its child succeeded in a batch that was not
\* cancelled when it was asked, and removed, whatever became of the promotion.
Promote ==
  /\ phase = "promoting" /\ mode = "parallel" /\ next <= NumTasks
  /\ IF child[next] = "ok" /\ ~ stop THEN PromoteTree(next) ELSE UNCHANGED <<main, spoilt>>
  /\ trees' = trees \ {next}
  /\ next' = next + 1
  /\ UNCHANGED <<how, head, tree, phase, stop, child, tokens, records, bounds>>

\* The record of the batch.
Finalize ==
  /\ phase = "promoting"
  /\ mode = "parallel" => next > NumTasks
  /\ phase' = "over"
  /\ Record(Parent, EndState(Parent, \A i \in Child : child[i] = "ok"))
  /\ UNCHANGED <<how, files, next, stop, child, tokens, spoilt, bounds>>

----
(* What happens beside the batch. *)

\* /abort, a displaced session, or the parent's own parent.
Abort ==
  /\ phase \notin {"over", "dropped"}
  /\ Parent \notin cancelled
  /\ Cancel({Parent})
  /\ UNCHANGED <<how, files, phase, next, stop, child, expired, spoilt, records, bounds>>

\* The turn outlives its cancellation by two seconds and its task is aborted:
\* nothing after the join happens.  The children of a parallel batch go on; the
\* step a chain awaits is dropped with it.  (The deploy of a goal, which runs a
\* wave, is a task beside the turn.)
ForceEnd ==
  /\ Forced
  /\ phase = "running" /\ Parent \in cancelled
  /\ mode # "wave"
  /\ phase' = "dropped"
  /\ child' = [i \in Child |->
                 IF mode = "chain" /\ child[i] = "running" THEN "dropped" ELSE child[i]]
  /\ UNCHANGED <<how, files, next, stop, tokens, spoilt, records, bounds>>

\* find_run_prefix_mut: the run of that id; else one whose id begins with it, or
\* that its id begins with.  A child's id is its batch's with its index.
Named(r) ==
  IF runs[r] # "none" THEN {r}
  ELSE IF mode = "wave" THEN {}
  ELSE IF r = Parent THEN {i \in Child : runs[i] # "none"}
  ELSE {Parent} \cap {s \in Run : runs[s] # "none"}

Interrupt(r) ==
  /\ interrupts < MaxInterrupts
  /\ \E s \in Named(r) :
       /\ Cancel({s})
       /\ runs' = [runs EXCEPT ![s] = "paused"]
  /\ interrupts' = interrupts + 1
  /\ UNCHANGED <<how, files, phase, next, stop, child, expired, spoilt, ended, edits>>

\* The user, or another turn's tool, writes the workspace.
Edit(p) ==
  /\ edits < MaxEdits
  /\ phase # "over"
  /\ main' = [main EXCEPT ![p] = Edited]
  /\ edits' = edits + 1
  /\ UNCHANGED <<how, head, tree, trees, phase, next, stop, child, tokens, spoilt, records, interrupts>>

----
ChildStep(i) == Refuse(i) \/ Start(i) \/ Finish(i) \/ Hands(i) \/ GiveUp(i)

BatchStep == SetUp \/ SetUpFails \/ Decide \/ Promote \/ Finalize

Next ==
  \/ BatchStep
  \/ \E i \in Child : ChildStep(i) \/ Expire(i) \/ \E p \in Path : Touch(i, p)
  \/ Abort \/ ForceEnd
  \/ \E r \in Run : Interrupt(r)
  \/ \E p \in Path : Edit(p)

\* The executor polls the batch and its children; a run ends, since its calls
\* are counted and each of them has a time limit.
Fairness ==
  /\ WF_vars(BatchStep)
  /\ \A i \in Child : WF_vars(ChildStep(i))

Spec == Init /\ [][Next]_vars /\ Fairness

----
\* The shape of the state.  The worktrees of a batch that is being promoted are
\* those whose turn has not come, and a batch that is over has left none but
\* those of the runs of a wave that were dropped (run_parallel, execute).
TypeOK ==
  /\ mode \in Modes /\ concurrency \in 1 .. Permits
  /\ head \in Tree /\ main \in Tree
  /\ tree \in [Child -> Tree] /\ trees \subseteq Child
  /\ phase \in {"setup", "running", "promoting", "over", "dropped"}
  /\ next \in 1 .. NumTasks + 1 /\ stop \in BOOLEAN
  /\ (mode = "parallel" /\ phase = "promoting") => trees = next .. NumTasks
  /\ phase = "over" => \A i \in trees : i \in expired /\ child[i] = "dropped"
  /\ child \in [Child -> {"idle", "waiting", "running", "ok", "failed", "dropped"}]
  /\ cancelled \subseteq Run
  /\ expired \subseteq Child /\ spoilt \subseteq Child /\ barred \subseteq Child
  /\ runs \in [Run -> {"none", "running", "paused", "completed", "failed", "cancelled"}]
  /\ ended \in [Run -> Nat]
  /\ edits \in 0 .. MaxEdits /\ interrupts \in 0 .. MaxInterrupts

Isolated == mode \in {"parallel", "wave"}

\* What a child wrote in its worktree reaches the workspace only if the child
\* succeeded, and only if neither its batch nor, in a wave, its own time limit
\* had cancelled it before the worktree was looked at (run_parallel and
\* execute, the promotion).
OnlySuccessIsPromoted ==
  Isolated => \A p \in Path : main[p] \in Child =>
    child[main[p]] = "ok" /\ main[p] \notin barred

\* Whatever order the children of a parallel batch end in, the successful child
\* with the greatest index decides every file it has and every tracked file it
\* deleted, unless an editor wrote the file meanwhile or that child's own
\* promotion failed; what earlier ones left half done does not matter.
LastIndexDecides ==
  (mode = "parallel" /\ phase = "over") =>
    \A k \in Child \ (barred \cup spoilt) :
      (child[k] = "ok" /\ \A j \in k + 1 .. NumTasks : child[j] # "ok") =>
        \A p \in Path :
          (tree[k][p] # Absent \/ head[p] # Absent) => main[p] \in {tree[k][p], Edited}

\* A file the repository does not know, made by a successful child and by no
\* other one, is in the workspace when the batch is over, unless the child was
\* cancelled or its own promotion failed: promoting a sibling, which does not
\* have it, does not remove it, not even half way (sync_git_deletions).
NewFilesKept ==
  (Isolated /\ phase = "over") =>
    \A i \in Child \ (barred \cup spoilt), p \in Path :
      (/\ child[i] = "ok" /\ tree[i][p] = i /\ head[p] = Absent
       /\ \A j \in Child \ {i} : child[j] = "ok" => tree[j][p] = Absent) => main[p] \in {i, Edited}

\* The record of a run that is at work, and of the batch that waits for it, is
\* never evicted: it can be listed and interrupted until it ends
\* (prune_terminal_runs).
LiveRunsListed ==
  /\ \A i \in Child : child[i] = "running" => runs[i] \in {"running", "paused"}
  /\ (mode # "wave" /\ phase # "over") => runs[Parent] \in {"running", "paused"}

\* A batch ends, with or without a cancellation: every child gets its permit or
\* is refused.
BatchEnds == <>(phase \in {"over", "dropped"})

(* What the comments say of the worktrees, and the code does not do. *)

\* "each task gets a linked worktree ... so writers cannot clobber each other":
\* a file that one successful child wrote, and that no other wrote or deleted,
\* has that child's content when the batch is over and no promotion failed.
SiblingsKept ==
  (Isolated /\ phase = "over" /\ spoilt = {}) =>
    \A i \in Child \ barred, p \in Path :
      (/\ child[i] = "ok" /\ tree[i][p] = i /\ i \notin cancelled
       /\ \A j \in Child \ {i} : child[j] = "ok" => tree[j][p] = Original) => main[p] \in {i, Edited}

\* "Never promote on cancel even if a child reported ok before the abort": no
\* worktree is promoted once the batch is cancelled.
CancelledNotPromoted ==
  [][(phase = "promoting" /\ Parent \in cancelled /\ Promote) => UNCHANGED main]_vars

\* "Cancelled runs report non-ok": the files of an interrupted run stay out.
InterruptedNotPromoted ==
  Isolated => \A p \in Path : main[p] \in Child => runs[main[p]] # "cancelled"

\* A paused run can still be resumed or steered: it is one that is at work.
PausedIsLive == \A i \in Child : runs[i] = "paused" => child[i] = "running"

\* A batch given up by force, or the time limit of a run, leaves no worktree
\* either ("a bounded grace period to finalize its ... worktree").
NoWorktreeDropped == phase \in {"over", "dropped"} => trees = {}

\* "Promote successful worktrees into the main workspace, then clean up": the
\* promotion of a child that is a success in the end did all it had to.
SuccessIsPromoted == phase = "over" => \A i \in Child : child[i] = "ok" => i \notin spoilt

\* An interrupt reaches the run it names, and no other.
InterruptIsExact == [][\A r \in Run : Interrupt(r) => cancelled' \subseteq cancelled \cup {r}]_vars
====
