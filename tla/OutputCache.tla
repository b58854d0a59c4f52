---------------------------- MODULE OutputCache ----------------------------
(***************************************************************************)
(* The cache of tool outputs (tool_cache.rs) and the three places that     *)
(* trust it: the turn loop, the subagents' loop and the digests that       *)
(* shrink a conversation (compaction.rs).  A read is looked up in the      *)
(* cache and in the agent's own history, by a subagent in the other order, *)
(* and is executed only if both fail; a write that succeeded wipes the     *)
(* cache when its result is handled, if it ever is.  Agents of the main    *)
(* workspace and of worktrees run side by side over the one cache.         *)
(*                                                                         *)
(* A call is a path, a file content its version, an output a content with  *)
(* a size in small units; the caps are constants in the same units.        *)
(***************************************************************************)
EXTENDS Integers, Sequences, FiniteSets, SequencesExt

CONSTANTS
    Main,              \* the agent of the turn loop
    Children,          \* subagents
    Home,              \* the workspace of each agent
    Paths,             \* what the agents read, relative to their workspace
    Written,           \* those of them that they write
    Size,              \* the size of each path's content
    ErrorSizes,        \* how much a failed call may print
    MAX_ENTRIES, MAX_TOTAL, DIGEST_MIN, RESTORE_MAX, INGRESS_MAX, Preview,
    Unwatched,         \* <<workspace, path>>: the files that something else may change
    MaxWipes, MaxOutside, MaxResults

Agents == {Main} \cup Children
Workspaces == {Home[a] : a \in Agents}

ASSUME OutputCacheAssumption ==
    /\ Main \notin Children /\ "session" \notin Workspaces
    /\ Written \subseteq Paths
    /\ Size \in [Paths -> Nat \ {0}]
    /\ ErrorSizes \subseteq Nat \ {0} /\ ErrorSizes # {}
    /\ MAX_ENTRIES \in Nat \ {0}
    /\ {MAX_TOTAL, DIGEST_MIN, Preview, RESTORE_MAX, INGRESS_MAX, MaxWipes, MaxOutside} \subseteq Nat
    /\ DIGEST_MIN < Preview /\ Preview < RESTORE_MAX /\ RESTORE_MAX < INGRESS_MAX

VARIABLES
    tree,       \* the version of each path in each workspace
    cache,      \* State.tool_output_cache: [map, order, total]
    hist,       \* for each agent, the tool results in its conversation
    job,        \* for each agent, the tool call it is in
    wipes,      \* how often the cache was wiped
    outside     \* the files changed since the last wipe by something that does not wipe

cacheVars == <<tree, cache, hist, job, wipes, outside>>

-----------------------------------------------------------------------------
(* Outputs. *)

Marks == {"plain", "restored", "restored_cut", "duplicate", "digested", "error"}
Outputs == [ws : Workspaces, path : Paths, version : Nat, whole : BOOLEAN,
            mark : Marks, size : Nat]

Fresh(w, p) == [ws |-> w, path |-> p, version |-> tree[w][p], whole |-> TRUE,
                mark |-> "plain", size |-> Size[p]]

(* What a failed call prints, diagnostics that found something for one, is no less   *)
(* about the tree, and may be longer than a result that succeeded.                 *)
Failed(w, p, size) == [Fresh(w, p) EXCEPT !.mark = "error", !.size = size]

Cut(out, max) == [out EXCEPT !.whole = FALSE, !.size = max]

(* Results that only repeat another one; the header of a truncated restore reads    *)
(* differently and is not recognised.                                              *)
Pointer(out) == out.mark \in {"restored", "duplicate"}

apply_ingress_cap(out) == IF out.size <= INGRESS_MAX THEN out ELSE Cut(out, INGRESS_MAX)

apply_restore_cap(out) ==
    IF out.size <= RESTORE_MAX THEN [out EXCEPT !.mark = "restored"]
    ELSE [Cut(out, RESTORE_MAX) EXCEPT !.mark = "restored_cut"]

(* What a digest collapses, and stores before it does. *)
Large(out) == out.mark # "digested" /\ out.size > DIGEST_MIN

(* The latest result of the same call that history still holds verbatim. *)
Verbatim(h, p) ==
    {i \in DOMAIN h : h[i].path = p /\ ~Pointer(h[i]) /\ Large(h[i])}

find_duplicate_tool_result(h, p) ==
    LET i == CHOOSE i \in Verbatim(h, p) : \A j \in Verbatim(h, p) : j <= i
    IN [Cut(h[i], Preview) EXCEPT !.mark = "duplicate"]

-----------------------------------------------------------------------------
(* The cache. *)

Scopes == {"session"} \cup Workspaces
Keys == Scopes \X Paths
NoEntry == [at |-> "none"]
Entries == [at : {"run", "digest"}, out : Outputs, epoch : Int]
Caches == [map : [Keys -> Entries \cup {NoEntry}], order : Seq(Keys), total : Int]
Empty == [map |-> [k \in Keys |-> NoEntry], order |-> <<>>, total |-> 0]

(* Mutant of KeyOf: a subagent's key names the session's workspace. *)
KeyOfSession(a, p) == IF a = Main THEN <<"session", p>> ELSE <<Home[Main], p>>

(* A subagent's key starts with its workspace, the main agent's does not. *)
KeyOf(a, p) == IF a = Main THEN <<"session", p>> ELSE <<Home[a], p>>

Cached(k) == cache.map[k] # NoEntry

(* What step makes of base, item after item: a fold over a function. *)
After(items, base, step) ==
    LET after[n \in 0 .. Len(items)] == IF n = 0 THEN base ELSE step[<<after[n - 1], items[n]>>]
    IN after[Len(items)]

SizeOf(c, keys) == After(keys, 0, [p \in Int \X Keys |-> p[1] + c.map[p[2]].out.size])
Retained(order, k) ==
    After(order, <<>>, [p \in Seq(Keys) \X Keys |-> IF p[2] = k THEN p[1] ELSE Append(p[1], p[2])])

(* The oldest entries go until there is room, in number and in size; an entry that  *)
(* is too large by itself is kept all the same.                                    *)
Evict(c, size) ==
    LET room(n) == /\ Len(c.order) - n < MAX_ENTRIES
                   /\ \/ c.total - SizeOf(c, SubSeq(c.order, 1, n)) + size <= MAX_TOTAL
                      \/ n = Len(c.order)
        n == CHOOSE n \in 0 .. Len(c.order) : room(n) /\ \A m \in 0 .. n - 1 : ~room(m)
        gone == SubSeq(c.order, 1, n)
    IN [map |-> [k \in Keys |-> IF k \in ToSet(gone) THEN NoEntry ELSE c.map[k]],
        order |-> SubSeq(c.order, n + 1, Len(c.order)),
        total |-> c.total - SizeOf(c, gone)]

Without(c, k) ==
    IF c.map[k] = NoEntry THEN c
    ELSE [map |-> [c.map EXCEPT ![k] = NoEntry],
          order |-> Retained(c.order, k),
          total |-> c.total - c.map[k].out.size]

(* Mutant of insert: the entry that is replaced keeps its place in the order. *)
insertOver(c, k, entry) ==
    LET room == Evict(c, entry.out.size)
    IN [map |-> [room.map EXCEPT ![k] = entry],
        order |-> Append(room.order, k),
        total |-> room.total + entry.out.size]

insert(c, k, entry) ==
    LET room == Evict(Without(c, k), entry.out.size)
    IN [map |-> [room.map EXCEPT ![k] = entry],
        order |-> Append(room.order, k),
        total |-> room.total + entry.out.size]

Executed(out, epoch) == [at |-> "run", out |-> out, epoch |-> epoch]
Digested(out) == [at |-> "digest", out |-> out, epoch |-> -1]

-----------------------------------------------------------------------------
(* Reads. *)

NoCall == [at |-> "idle"]
Answering(p, out, epoch) == [at |-> "answer", path |-> p, out |-> out, epoch |-> epoch]
Busy(a) == job[a].at # "idle"

Results == FoldLeft(LAMBDA n, a : n + Len(hist[a]), 0, SetToSeq(Agents))

(* The turn asks the cache first and then its history, a subagent its history first. *)
First(a) == IF a = Main THEN "cache" ELSE "history"
Second(a) == IF a = Main THEN "history" ELSE "cache"

(* The call on p comes to the place, and goes on from there when nothing is found.   *)
Comes(a, p, place) ==
    IF place = First(a) THEN ~Busy(a) /\ Results < MaxResults
    ELSE job[a] = [at |-> place, path |-> p]
Onward(a, p, place) ==
    [at |-> IF place = First(a) THEN Second(a) ELSE "execute", path |-> p]

LookInCache(a, p) ==
    /\ Comes(a, p, "cache")
    /\ job' = [job EXCEPT ![a] =
                 IF Cached(KeyOf(a, p))
                 THEN Answering(p, apply_restore_cap(cache.map[KeyOf(a, p)].out), -1)
                 ELSE Onward(a, p, "cache")]
    /\ UNCHANGED <<tree, cache, hist, wipes, outside>>

LookBack(a, p) ==
    /\ Comes(a, p, "history")
    /\ job' = [job EXCEPT ![a] =
                 IF Verbatim(hist[a], p) # {}
                 THEN Answering(p, find_duplicate_tool_result(hist[a], p), -1)
                 ELSE Onward(a, p, "history")]
    /\ UNCHANGED <<tree, cache, hist, wipes, outside>>

Execute(a) ==
    /\ job[a].at = "execute"
    /\ LET p == job[a].path
       IN \E out \in {Fresh(Home[a], p)} \cup {Failed(Home[a], p, n) : n \in ErrorSizes} :
            job' = [job EXCEPT ![a] = Answering(p, out, wipes)]
    /\ UNCHANGED <<tree, cache, hist, wipes, outside>>

Stores(out) == out.mark # "error" /\ ~Pointer(out)

(* A good result that is no pointer goes into the cache and, capped, into history;   *)
(* a failed one goes into history as it is.                                        *)
Deliver(a) ==
    /\ job[a].at = "answer"
    /\ LET out == job[a].out
       IN /\ cache' = IF Stores(out)
                      THEN insert(cache, KeyOf(a, job[a].path), Executed(out, job[a].epoch))
                      ELSE cache
          /\ hist' = [hist EXCEPT ![a] =
                        Append(@, IF Stores(out) THEN apply_ingress_cap(out) ELSE out)]
    /\ job' = [job EXCEPT ![a] = NoCall]
    /\ UNCHANGED <<tree, wipes, outside>>

(* At the start of a turn a search is executed ahead and stored, whole. *)
Prefetch(p) ==
    /\ ~Busy(Main)
    /\ job' = [job EXCEPT ![Main] =
                 [at |-> "prefetch", path |-> p, out |-> Fresh(Home[Main], p), epoch |-> wipes]]
    /\ UNCHANGED <<tree, cache, hist, wipes, outside>>

PrefetchDone ==
    /\ job[Main].at = "prefetch"
    /\ cache' = insert(cache, KeyOf(Main, job[Main].path),
                       Executed(job[Main].out, job[Main].epoch))
    /\ job' = [job EXCEPT ![Main] = NoCall]
    /\ UNCHANGED <<tree, hist, wipes, outside>>

-----------------------------------------------------------------------------
(* Writes. *)

Wiping == {b \in Agents : job[b].at = "wipe"}
Touch(w, p) == tree' = [tree EXCEPT ![w][p] = @ + 1]

(* The bounds: on the wipes, due or done, and on what is not wiped between two of them. *)
MayWipe == wipes + Cardinality(Wiping) < MaxWipes
OnlyChanges(file) ==
    /\ file \notin outside /\ Cardinality(outside) < MaxOutside
    /\ outside' = outside \cup {file}

(* A write has changed the tree; the wipe is due when its result is handled. *)
Write(a, p) ==
    /\ ~Busy(a) /\ p \in Written /\ MayWipe
    /\ Touch(Home[a], p)
    /\ job' = [job EXCEPT ![a] = [at |-> "wipe", path |-> p]]
    /\ UNCHANGED <<cache, hist, wipes, outside>>

invalidate_all(a) ==
    /\ job[a].at = "wipe"
    /\ cache' = Empty /\ wipes' = wipes + 1 /\ outside' = {}
    /\ job' = [job EXCEPT ![a] = NoCall]
    /\ UNCHANGED <<tree, hist>>

(* The result of a call whose run was aborted, steered or replaced meanwhile is not  *)
(* handled (ToolContext::is_active), nor that of an agent whose task was dropped:   *)
(* what a write did stays, and its wipe never comes.                               *)
DropCall(a) ==
    /\ Busy(a)
    /\ IF job[a].at = "wipe" THEN OnlyChanges(<<Home[a], job[a].path>>) ELSE UNCHANGED outside
    /\ job' = [job EXCEPT ![a] = NoCall]
    /\ UNCHANGED <<tree, cache, hist, wipes>>

(* A command that failed after it changed the tree, a bang command, a restored      *)
(* checkpoint, a promoted worktree, todo_write: none of them wipes the cache.      *)
ChangeOutside(w, p) ==
    /\ <<w, p>> \in Unwatched
    /\ OnlyChanges(<<w, p>>)
    /\ Touch(w, p)
    /\ UNCHANGED <<cache, hist, job, wipes>>

-----------------------------------------------------------------------------
(* Digests. *)

(* Every large result is stored, oldest first, under the call's key without its     *)
(* workspace.                                                                      *)
cache_tool_results_before_digest(h) ==
    After(h, cache, [p \in Caches \X Outputs |->
                       IF Large(p[2]) THEN insert(p[1], <<"session", p[2].path>>, Digested(p[2]))
                       ELSE p[1]])

(* The older results, up to some point that sizes decide, become one-line digests. *)
soft_digest_conversation(a) ==
    /\ ~Busy(a)
    /\ \E n \in 1 .. Len(hist[a]) :
         /\ Large(hist[a][n])
         /\ hist' = [hist EXCEPT ![a] =
                       [i \in DOMAIN hist[a] |->
                          IF i <= n /\ Large(hist[a][i])
                          THEN [Cut(hist[a][i], DIGEST_MIN) EXCEPT !.mark = "digested"]
                          ELSE hist[a][i]]]
    /\ cache' = cache_tool_results_before_digest(hist[a])
    /\ UNCHANGED <<tree, job, wipes, outside>>

(* clear and reset: the turn is cancelled with its children. *)
Forget ==
    /\ hist[Main] # <<>> /\ MayWipe
    /\ cache' = Empty /\ wipes' = wipes + 1 /\ outside' = {}
    /\ hist' = [a \in Agents |-> <<>>]
    /\ job' = [a \in Agents |-> NoCall]
    /\ UNCHANGED tree

-----------------------------------------------------------------------------
CacheInit ==
    /\ tree = [w \in Workspaces |-> [p \in Paths |-> 0]]
    /\ cache = Empty
    /\ hist = [a \in Agents |-> <<>>]
    /\ job = [a \in Agents |-> NoCall]
    /\ wipes = 0 /\ outside = {}

CacheNext ==
    \/ \E a \in Agents, p \in Paths : LookInCache(a, p) \/ LookBack(a, p) \/ Write(a, p)
    \/ \E a \in Agents :
         Execute(a) \/ Deliver(a) \/ invalidate_all(a) \/ DropCall(a) \/ soft_digest_conversation(a)
    \/ PrefetchDone \/ Forget
    \/ \E p \in Paths : Prefetch(p)
    \/ \E w \in Workspaces, p \in Paths : ChangeOutside(w, p)

CacheSpec == CacheInit /\ [][CacheNext]_cacheVars

-----------------------------------------------------------------------------
(* Properties. *)

Current(out) == out.version = tree[out.ws][out.path]
ScopeOf(k) == IF k[1] = "session" THEN Home[Main] ELSE k[1]

(* The map, the order of eviction and the byte count agree, and both limits hold;   *)
(* only a single entry may exceed the bytes (ToolOutputCache::insert).             *)
WithinBudget ==
    /\ ToSet(cache.order) = {k \in Keys : Cached(k)}
    /\ IsInjective(cache.order)
    /\ cache.total = SizeOf(cache, cache.order)
    /\ Len(cache.order) <= MAX_ENTRIES
    /\ cache.total <= MAX_TOTAL \/ Len(cache.order) = 1

(* The state has the shape the code gives it: the cache keeps its accounts, and in   *)
(* a conversation no result but a failed call's is longer than the ingress cap      *)
(* (apply_ingress_cap, which runs only if outcome.ok).                             *)
CacheTypeOK ==
    /\ cache.order \in Seq(Keys) /\ cache.total \in Nat
    /\ WithinBudget
    /\ \A a \in Agents : \A i \in DOMAIN hist[a] :
         /\ hist[a][i] \in Outputs
         /\ hist[a][i].mark # "error" => hist[a][i].size <= INGRESS_MAX
    /\ \A a \in Agents : job[a].at \in {"idle", "cache", "history", "execute", "answer", "prefetch", "wipe"}

(* "parallel worktrees must never share bytes" (subagents): whatever the agents read, *)
(* write, drop, evict and fetch ahead at once, an executed output that no wipe       *)
(* overtook on its way to the cache is of its own workspace, and is what the file    *)
(* is now unless something changed it since the last wipe: a write whose wipe is due *)
(* or was never to come, or what no tool reported.                                 *)
FreshUnlessRaced ==
    \A k \in {k \in Keys : Cached(k)} :
        LET entry == cache.map[k]
        IN entry.epoch = wipes =>
             /\ entry.out.ws = ScopeOf(k)
             /\ \/ Current(entry.out)
                \/ <<ScopeOf(k), k[2]>> \in outside
                \/ \E b \in Wiping : Home[b] = ScopeOf(k) /\ job[b].path = k[2]

(* "so a stale read can't be restored over a changed tree" (invalidate_all): while   *)
(* no wipe is due, the cache holds what the files are.                             *)
NothingStale == Wiping = {} => \A k \in Keys : Cached(k) => Current(cache.map[k].out)

(* "never let a single tool result dominate the context window": none in a           *)
(* conversation is longer than the ingress cap.                                    *)
NoResultDominates ==
    \A a \in Agents : \A i \in DOMAIN hist[a] : hist[a][i].size <= INGRESS_MAX

(* "[duplicate of tool_call_id ...; content unchanged]": when an agent is told that  *)
(* a file is unchanged, no tool has changed it since.                              *)
DuplicateIsUnchanged ==
    \A a \in Agents :
        (job[a].at = "answer" /\ job[a].out.mark = "duplicate") => Current(job[a].out)

(* "Full bytes remain in tool_output_cache for identical re-calls"                  *)
(* (apply_ingress_cap): what the cache holds is never cut.                         *)
FullBytesRemain == \A k \in Keys : Cached(k) => cache.map[k].out.whole

(* "Parallel worktrees routinely issue identical relative reads but must never      *)
(* share bytes" (subagents' restore): no entry holds bytes of another workspace.   *)
WorktreesApart == \A k \in Keys : Cached(k) => cache.map[k].out.ws = ScopeOf(k)
=============================================================================
