------------------------- MODULE RuntimeCoordinator -------------------------
(***************************************************************************)
(* The runtime coordinator of the core (core/src/runtime/coordinator.rs)   *)
(* and the resource registry it owns (core/src/runtime/resources.rs).      *)
(*                                                                         *)
(* It is the only authority on which session and which run are live.  Its  *)
(* mutex is synchronous and each public method holds it from the first     *)
(* read to the last write, so every method is one atomic action here.      *)
(* Work (tool calls, approvals, subagents, goal loops) registers under an  *)
(* owner and receives a cancellation token; tokens form a forest, and      *)
(* cancelling one cancels all the tokens below it.                         *)
(*                                                                         *)
(* The callers appear through what they must do with the coordinator: the  *)
(* turn task that holds a RunContext, and the registered work that holds   *)
(* a lease until it is dropped.                                            *)
(***************************************************************************)
EXTENDS Naturals, FiniteSets

CONSTANTS
  SessionIds,     \* logical sessions (SessionId)
  RunIds,         \* runs (RunId of the coordinator)
  WorkIds,        \* registered work: one lease, one token, and its own id as
                  \* a subagent batch or goal that children name as parent
  Reasons,        \* CancellationReason
  Steering,       \* the reason start_run records for the run it displaces
  NoId            \* None

\* Identities are drawn from one counter with distinct prefixes, so no two
\* kinds of token are ever the same token.
ASSUME IdsDisjoint ==
  /\ SessionIds \cap RunIds = {}
  /\ SessionIds \cap WorkIds = {}
  /\ RunIds \cap WorkIds = {}
  /\ NoId \notin SessionIds \cup RunIds \cup WorkIds

ASSUME SteeringIsReason == Steering \in Reasons

VARIABLES
  session,           \* Inner.session_id
  opened,            \* the session ids handed out so far
  active,            \* Inner.active_run
  lastCancellation,  \* Inner.last_cancellation
  turn,              \* the task that runs each run: unborn, running, gone
  runSession,        \* RunContext.session_id
  lineage,           \* the token of t and every token it is a child of
  cancelled,         \* the tokens cancel() was called on
  lease,             \* the lease of each work item: free, held, dropped
  workSession,       \* ResourceRecord.session_id
  owner              \* ResourceRecord.run_id: a run, a work item or NoId

vars == <<session, opened, active, lastCancellation, turn, runSession,
          lineage, cancelled, lease, workSession, owner>>

Tokens == SessionIds \cup RunIds \cup WorkIds

NoCancellation == [run |-> NoId, reason |-> Steering]
-----------------------------------------------------------------------------
Types ==
  /\ session \in SessionIds
  /\ opened \subseteq SessionIds
  /\ active \in RunIds \cup {NoId}
  /\ lastCancellation \in [run : RunIds \cup {NoId}, reason : Reasons]
  /\ turn \in [RunIds -> {"unborn", "running", "gone"}]
  /\ runSession \in [RunIds -> SessionIds \cup {NoId}]
  /\ lineage \in [Tokens -> SUBSET Tokens]
  /\ cancelled \subseteq Tokens
  /\ lease \in [WorkIds -> {"free", "held", "dropped"}]
  /\ workSession \in [WorkIds -> SessionIds \cup {NoId}]
  /\ owner \in [WorkIds -> RunIds \cup WorkIds \cup {NoId}]

\* The state has the shape the code gives it, and the active run is one that was
\* started and belongs to the current session (Inner.active_run).
TypeOK ==
  /\ Types
  /\ active # NoId => turn[active] # "unborn" /\ runSession[active] = session

Init ==
  /\ session \in SessionIds
  /\ opened = {session}
  /\ active = NoId
  /\ lastCancellation = NoCancellation
  /\ turn = [r \in RunIds |-> "unborn"]
  /\ runSession = [r \in RunIds |-> NoId]
  /\ lineage = [t \in Tokens |-> IF t \in SessionIds THEN {t} ELSE {}]
  /\ cancelled = {}
  /\ lease = [w \in WorkIds |-> "free"]
  /\ workSession = [w \in WorkIds |-> NoId]
  /\ owner = [w \in WorkIds |-> NoId]
-----------------------------------------------------------------------------
(* Tokens and records *)

\* CancellationToken::is_cancelled: it or a token above it was cancelled.
IsCancelled(t) == lineage[t] \cap cancelled # {}

\* is_active: the run is the current one of the current session, uncancelled.
IsActive(r) ==
  /\ session = runSession[r]
  /\ active = r
  /\ ~IsCancelled(r)

\* is_session_active
IsSessionActive(s) == session = s /\ ~IsCancelled(s)

\* The records whose tokens ResourceRegistry::cancel_run cancels.
WorkOfRun(r) ==
  {w \in WorkIds : lease[w] = "held" /\ workSession[w] = runSession[r] /\ owner[w] = r}

\* The records whose tokens ResourceRegistry::cancel_session cancels.
WorkOfSession(s) == {w \in WorkIds : lease[w] = "held" /\ workSession[w] = s}

\* Mutant of Displaced: the slot is taken over and the old run never told.
DisplacedUntold == {}

\* The tokens that displacing the active run cancels, and the note it leaves.
Displaced == IF active = NoId THEN {} ELSE {active} \cup WorkOfRun(active)

Record(reason) ==
  lastCancellation' = IF active = NoId THEN lastCancellation
                      ELSE [run |-> active, reason |-> reason]

workVars == <<lease, workSession, owner>>
-----------------------------------------------------------------------------
(* Mutants of the operations below *)

\* cancel_current that reads active_run instead of taking it.
CancelCurrentPeek(reason) ==
  /\ active # NoId
  /\ cancelled' = cancelled \cup Displaced
  /\ Record(reason)
  /\ UNCHANGED <<session, opened, active, turn, runSession, lineage, workVars>>

\* replace_session that reads active_run instead of taking it.
ReplaceSessionPeek(reason) ==
  \E s \in SessionIds \ opened :
    /\ cancelled' = cancelled \cup Displaced \cup {session} \cup WorkOfSession(session)
    /\ Record(reason)
    /\ session' = s
    /\ opened' = opened \cup {s}
    /\ UNCHANGED <<active, turn, runSession, lineage, workVars>>

\* replace_session that publishes the new identity and cancels only the run.
ReplaceSessionIdentityOnly(reason) ==
  \E s \in SessionIds \ opened :
    /\ cancelled' = cancelled \cup (IF active = NoId THEN {} ELSE {active})
    /\ Record(reason)
    /\ active' = NoId
    /\ session' = s
    /\ opened' = opened \cup {s}
    /\ UNCHANGED <<turn, runSession, lineage, workVars>>

\* complete_run without its identity check.
CompleteRunUnchecked(r) ==
  /\ turn[r] = "running"
  /\ turn' = [turn EXCEPT ![r] = "gone"]
  /\ active' = NoId
  /\ cancelled' = cancelled \cup WorkOfRun(r)
  /\ UNCHANGED <<session, opened, lastCancellation, runSession, lineage, workVars>>

\* complete_run that frees the slot and leaves the run's records alone.
CompleteRunNoSweep(r) ==
  /\ turn[r] = "running"
  /\ turn' = [turn EXCEPT ![r] = "gone"]
  /\ active' = IF session = runSession[r] /\ active = r THEN NoId ELSE active
  /\ UNCHANGED <<session, opened, lastCancellation, runSession, lineage,
                 cancelled, workVars>>
-----------------------------------------------------------------------------
(* Runs and sessions *)

\* start_run: any prior active run is displaced, and the new one becomes active
\* with a token derived from the session's.
StartRun(r) ==
  /\ turn[r] = "unborn"
  /\ cancelled' = cancelled \cup Displaced
  /\ Record(Steering)
  /\ active' = r
  /\ turn' = [turn EXCEPT ![r] = "running"]
  /\ runSession' = [runSession EXCEPT ![r] = session]
  /\ lineage' = [lineage EXCEPT ![r] = {r, session}]
  /\ UNCHANGED <<session, opened, workVars>>

\* cancel_current: nothing happens when no run is active.
CancelCurrent(reason) ==
  /\ active # NoId
  /\ cancelled' = cancelled \cup Displaced
  /\ Record(reason)
  /\ active' = NoId
  /\ UNCHANGED <<session, opened, turn, runSession, lineage, workVars>>

\* replace_session: the active run and the session's token are cancelled, every
\* record of the session is cancelled, and a fresh identity is published.
ReplaceSession(reason) ==
  \E s \in SessionIds \ opened :
    /\ cancelled' = cancelled \cup (IF active = NoId THEN {} ELSE {active})
                              \cup {session} \cup WorkOfSession(session)
    /\ Record(reason)
    /\ active' = NoId
    /\ session' = s
    /\ opened' = opened \cup {s}
    /\ UNCHANGED <<turn, runSession, lineage, workVars>>

\* complete_run, called once by the turn task as the last thing it does for r:
\* only a run that is still current is cleared, and its own token is not
\* cancelled, only the records it owns.
CompleteRun(r) ==
  /\ turn[r] = "running"
  /\ turn' = [turn EXCEPT ![r] = "gone"]
  /\ IF session = runSession[r] /\ active = r
       THEN /\ active' = NoId
            /\ cancelled' = cancelled \cup WorkOfRun(r)
       ELSE UNCHANGED <<active, cancelled>>
  /\ UNCHANGED <<session, opened, lastCancellation, runSession, lineage, workVars>>

\* A turn task that finds its run inactive at its first registration returns
\* without completing it, and one that is aborted never reaches complete_run.
TurnVanishes(r) ==
  /\ turn[r] = "running"
  /\ turn' = [turn EXCEPT ![r] = "gone"]
  /\ UNCHANGED <<session, opened, active, lastCancellation, runSession,
                 lineage, cancelled, workVars>>

\* A holder of a clone of a token cancels it directly: State.current on a
\* cancellation, a subagent's interrupt, goal_deploy_cancel.
CancelToken(t) ==
  /\ t \in RunIds \cup WorkIds
  /\ lineage[t] # {}
  /\ cancelled' = cancelled \cup {t}
  /\ UNCHANGED <<session, opened, active, lastCancellation, turn, runSession,
                 lineage, workVars>>
-----------------------------------------------------------------------------
(* Registered work *)

\* ResourceRegistry::register: a new record whose token is a child of parent's.
Register(w, s, o, parent) ==
  /\ lease[w] = "free"
  /\ lease' = [lease EXCEPT ![w] = "held"]
  /\ workSession' = [workSession EXCEPT ![w] = s]
  /\ owner' = [owner EXCEPT ![w] = o]
  /\ lineage' = [lineage EXCEPT ![w] = lineage[parent] \cup {w}]
  /\ UNCHANGED <<session, opened, active, lastCancellation, turn, runSession,
                 cancelled>>

\* register_run_resource: work of a turn, through the RunContext it carries.
RegisterRunResource(w, r) ==
  /\ turn[r] = "running"
  /\ IsActive(r)
  /\ Register(w, runSession[r], r, r)

\* register_active_run_resource: whichever run is active at this instant.
RegisterActiveRunResource(w) ==
  /\ active # NoId
  /\ ~IsCancelled(active)
  /\ Register(w, runSession[active], active, active)

\* register_session_resource: background work of the session s whose context
\* the caller took earlier.
RegisterSessionResource(w, s) ==
  /\ s \in opened
  /\ IsSessionActive(s)
  /\ Register(w, s, NoId, s)

\* register_owned_session_resource called inside a turn or inside registered
\* work p: the token is the child the caller made of p's, the context is the
\* session's at that moment.  A turn names itself as parent; work names itself,
\* the run it inherited, or nothing.
RegisterOwnedSessionResource(w, p) ==
  /\ \/ p \in RunIds /\ turn[p] = "running"
     \/ p \in WorkIds /\ lease[p] = "held"
  /\ ~IsCancelled(session)
  /\ ~IsCancelled(p)
  /\ \E parent_run_id \in {p} \cup (lineage[p] \cap RunIds)
                              \cup (IF p \in WorkIds THEN {NoId} ELSE {}) :
        Register(w, session, parent_run_id, p)

\* ResourceLease::drop.  Work that spawned other work awaits it before it
\* returns, unless it was cancelled and its future was dropped.
DropLease(w) ==
  /\ lease[w] = "held"
  /\ \A v \in WorkIds \ {w} :
        lease[v] = "held" /\ w \in lineage[v] => IsCancelled(v)
  /\ lease' = [lease EXCEPT ![w] = "dropped"]
  /\ UNCHANGED <<session, opened, active, lastCancellation, turn, runSession,
                 lineage, cancelled, workSession, owner>>
-----------------------------------------------------------------------------
RunStep(r) == StartRun(r) \/ CompleteRun(r) \/ TurnVanishes(r)

WorkStep(w) ==
  \/ \E r \in RunIds : RegisterRunResource(w, r)
  \/ RegisterActiveRunResource(w)
  \/ \E s \in SessionIds : RegisterSessionResource(w, s)
  \/ \E p \in RunIds \cup WorkIds : RegisterOwnedSessionResource(w, p)
  \/ DropLease(w)

Next ==
  \/ \E r \in RunIds : RunStep(r)
  \/ \E reason \in Reasons : CancelCurrent(reason) \/ ReplaceSession(reason)
  \/ \E t \in Tokens : CancelToken(t)
  \/ \E w \in WorkIds : WorkStep(w)

Spec == Init /\ [][Next]_vars
-----------------------------------------------------------------------------
(* Properties *)

\* At most one turn is live, and it is the active one: a running turn whose
\* token is not cancelled is the run the coordinator calls active (the point of
\* start_run's displacement, whatever the callers interleave).
LiveTurnIsActive ==
  \A r \in RunIds :
    turn[r] = "running" /\ ~IsCancelled(r) => active = r /\ runSession[r] = session

\* "Runtime-owned work that must not outlive its session or foreground run"
\* (resources.rs): registered work that was not told to stop belongs to the
\* current session and, when any run is above it, to the active run.
NoOrphanWork ==
  \A w \in WorkIds :
    lease[w] = "held" /\ ~IsCancelled(w) =>
      /\ workSession[w] = session
      /\ \A r \in RunIds \cap (lineage[w] \cup {owner[w]}) : active = r

\* A run whose cancellation was recorded is over: it never is active again, and
\* the token everything below it watches is cancelled.
RecordedRunIsOver ==
  lastCancellation.run # NoId =>
    /\ lastCancellation.run # active
    /\ lastCancellation.run \in cancelled

\* A stale finisher can never clear a newer run's slot (complete_run): a step
\* in which a turn goes away frees the slot only when it was that turn's own.
StaleFinisherKeepsSlot ==
  [][\A r \in RunIds : turn[r] = "running" /\ turn'[r] = "gone" /\ active # r
        => active' = active /\ cancelled' = cancelled]_vars
-----------------------------------------------------------------------------
(* The inductive invariant behind them *)

\* Exactly the sessions left behind have a cancelled token.
SessionsInv ==
  /\ session \in opened
  /\ cancelled \cap SessionIds = opened \ {session}
  /\ \A s \in SessionIds : lineage[s] = {s}

\* A run's token is a child of its session's; the active run is of this session.
RunsInv ==
  /\ \A r \in RunIds :
       IF turn[r] = "unborn" THEN lineage[r] = {} /\ r \notin cancelled
       ELSE runSession[r] \in opened /\ lineage[r] = {r, runSession[r]}
  /\ active # NoId => turn[active] # "unborn" /\ runSession[active] = session

\* The tokens above a work item's: closed upwards, of one session, and below a
\* run only through a record that names the run.
LineageInv ==
  \A w \in WorkIds :
    IF lease[w] = "free" THEN lineage[w] = {} /\ w \notin cancelled
    ELSE /\ w \in lineage[w]
         /\ lineage[w] \cap SessionIds = {workSession[w]}
         /\ owner[w] \in lineage[w] \cup {NoId}
         /\ \A t \in lineage[w] : t \in lineage[t] /\ lineage[t] \subseteq lineage[w]
         /\ \A r \in lineage[w] \cap RunIds :
              \E v \in lineage[w] \cap WorkIds : owner[v] = r

\* What live work was spawned by still holds its lease, so that the registry
\* scan of cancel_run finds it.
AncestorsHeld ==
  \A w \in WorkIds :
    lease[w] = "held" /\ ~IsCancelled(w) =>
      \A v \in lineage[w] \cap WorkIds : lease[v] = "held"

IInv ==
  /\ Types
  /\ SessionsInv
  /\ RunsInv
  /\ LineageInv
  /\ AncestorsHeld
  /\ LiveTurnIsActive
  /\ NoOrphanWork
  /\ RecordedRunIsOver
-----------------------------------------------------------------------------
(* What the coordinator implements *)

\* Work that holds a lease and was not told to stop.
Live(w) == lease[w] = "held" /\ ~IsCancelled(w)

Lead == IF active # NoId /\ ~IsCancelled(active) THEN active ELSE NoId

Begun == {r \in RunIds : turn[r] # "unborn"}

Phase == [w \in WorkIds |->
            CASE lease[w] = "free" -> "new"
              [] Live(w)           -> "live"
              [] OTHER             -> "ended"]

Holders == [w \in WorkIds |->
              IF Live(w) THEN lineage[w] \cap (SessionIds \cup RunIds) ELSE {}]

Ownership == INSTANCE WorkOwnership
               WITH era <- session, eras <- opened, lead <- Lead, begun <- Begun,
                    phase <- Phase, holders <- Holders

\* Ownership is revoked in one step: the coordinator's tokens, registry and
\* identity checks together behave as WorkOwnership says.
ImplementsOwnership == Ownership!Spec

=============================================================================
