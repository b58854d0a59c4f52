---------------------- MODULE RuntimeCoordinatorProofs ----------------------
(***************************************************************************)
(* Theorems about RuntimeCoordinator, for any number of sessions, runs and *)
(* work items: type correctness, at most one live turn, no orphan work,    *)
(* and the refinement of WorkOwnership.                                    *)
(***************************************************************************)
EXTENDS RuntimeCoordinator, TLAPS

USE IdsDisjoint, SteeringIsReason

-----------------------------------------------------------------------------
(* Type correctness *)

\* Registration keeps the types, whatever parent the token is derived from.
LEMMA RegisterType ==
  ASSUME Types, NEW w \in WorkIds, NEW s \in SessionIds,
         NEW o \in RunIds \cup WorkIds \cup {NoId}, NEW p \in Tokens,
         Register(w, s, o, p)
  PROVE  Types'
  BY DEF Types, Register, Tokens

\* Every step of the coordinator and of its callers keeps the types.
LEMMA TypeStep == Types /\ [Next]_vars => Types'
<1> SUFFICES ASSUME Types, [Next]_vars PROVE Types'
  OBVIOUS
<1>1. ASSUME NEW r \in RunIds, StartRun(r) PROVE Types'
  BY <1>1 DEF Types, StartRun, Displaced, Record, WorkOfRun, workVars, Tokens
<1>2. ASSUME NEW r \in RunIds, CompleteRun(r) PROVE Types'
  BY <1>2 DEF Types, CompleteRun, WorkOfRun, workVars, Tokens
<1>3. ASSUME NEW r \in RunIds, TurnVanishes(r) PROVE Types'
  BY <1>3 DEF Types, TurnVanishes, workVars
<1>4. ASSUME NEW reason \in Reasons, CancelCurrent(reason) PROVE Types'
  BY <1>4 DEF Types, CancelCurrent, Displaced, Record, WorkOfRun, workVars, Tokens
<1>5. ASSUME NEW reason \in Reasons, ReplaceSession(reason) PROVE Types'
  BY <1>5 DEF Types, ReplaceSession, Record, WorkOfSession, workVars, Tokens
<1>6. ASSUME NEW t \in Tokens, CancelToken(t) PROVE Types'
  BY <1>6 DEF Types, CancelToken, workVars
<1>7. ASSUME NEW w \in WorkIds, WorkStep(w) PROVE Types'
  <2>1. ASSUME NEW r \in RunIds, RegisterRunResource(w, r) PROVE Types'
    <3>1. runSession[r] \in SessionIds
      BY <2>1 DEF RegisterRunResource, IsActive, Types
    <3>2. QED BY <2>1, <3>1, RegisterType DEF RegisterRunResource, Tokens
  <2>2. ASSUME RegisterActiveRunResource(w) PROVE Types'
    <3>1. CASE runSession[active] \in SessionIds
      BY <2>2, <3>1, RegisterType DEF RegisterActiveRunResource, Tokens, Types
    <3>2. CASE runSession[active] = NoId
      BY <2>2, <3>2 DEF RegisterActiveRunResource, Register, Tokens, Types
    <3>3. QED BY <2>2, <3>1, <3>2 DEF RegisterActiveRunResource, Types
  <2>3. ASSUME NEW s \in SessionIds, RegisterSessionResource(w, s) PROVE Types'
    BY <2>3, RegisterType DEF RegisterSessionResource, Tokens
  <2>4. ASSUME NEW p \in RunIds \cup WorkIds, RegisterOwnedSessionResource(w, p)
        PROVE  Types'
    <3>1. PICK o \in {p} \cup (lineage[p] \cap RunIds)
                        \cup (IF p \in WorkIds THEN {NoId} ELSE {}) :
            Register(w, session, o, p)
      BY <2>4 DEF RegisterOwnedSessionResource
    <3>2. o \in RunIds \cup WorkIds \cup {NoId} /\ session \in SessionIds
      BY DEF Types
    <3>3. QED BY <3>1, <3>2, RegisterType DEF Tokens
  <2>5. ASSUME DropLease(w) PROVE Types'
    BY <2>5 DEF Types, DropLease
  <2>6. QED BY <1>7, <2>1, <2>2, <2>3, <2>4, <2>5 DEF WorkStep
<1>8. CASE UNCHANGED vars
  BY <1>8 DEF Types, vars
<1>9. QED
  BY <1>1, <1>2, <1>3, <1>4, <1>5, <1>6, <1>7, <1>8 DEF Next, RunStep

-----------------------------------------------------------------------------
(* The inductive invariant: what a step can only make true *)

\* The part of IInv about registered work, its shape apart.
WorkInv == LineageInv /\ AncestorsHeld

\* Cancelling tokens disturbs nothing of the forest of work.
LEMMA CancelKeepsWork ==
  ASSUME WorkInv, UNCHANGED <<lineage, workVars>>,
         cancelled \subseteq cancelled',
         \A w \in WorkIds : lease[w] = "free" => w \notin cancelled'
  PROVE  WorkInv'
<1>1. LineageInv'
  BY DEF WorkInv, LineageInv, workVars
<1>2. \A w \in WorkIds : ~IsCancelled(w)' => ~IsCancelled(w)
  BY DEF IsCancelled
<1>3. AncestorsHeld'
  BY <1>2 DEF WorkInv, AncestorsHeld, workVars
<1>4. QED BY <1>1, <1>3 DEF WorkInv

\* A token under which nothing is registered may change its own lineage.
LEMMA NewRunKeepsWork ==
  ASSUME IInv, NEW r \in RunIds, turn[r] = "unborn", NEW L,
         lineage' = [lineage EXCEPT ![r] = L], UNCHANGED workVars,
         cancelled \subseteq cancelled',
         \A w \in WorkIds : lease[w] = "free" => w \notin cancelled'
  PROVE  WorkInv'
<1>1. lineage[r] = {}
  BY DEF IInv, RunsInv
<1>2. \A w \in WorkIds : lineage'[w] = lineage[w]
  BY DEF IInv, Types, Tokens
<1>3. \A w \in WorkIds : r \notin lineage[w]
  BY <1>1 DEF IInv, LineageInv
<1>4. \A w \in WorkIds : \A t \in lineage[w] : lineage'[t] = lineage[t]
  BY <1>3 DEF IInv, Types, Tokens
<1>5. LineageInv'
  BY <1>2, <1>4 DEF IInv, LineageInv, workVars
<1>6. \A w \in WorkIds : ~IsCancelled(w)' => ~IsCancelled(w)
  BY <1>2 DEF IsCancelled
<1>7. AncestorsHeld'
  BY <1>2, <1>6 DEF IInv, AncestorsHeld, workVars
<1>8. QED BY <1>5, <1>7 DEF WorkInv

\* Live work below a run is cancelled by what cancel_run finds in the registry:
\* the record that names the run is held and above (or is) the work.
LEMMA ScanReachesDescendants ==
  ASSUME IInv, NEW w \in WorkIds, lease[w] = "held", ~IsCancelled(w),
         NEW r \in RunIds, r \in lineage[w]
  PROVE  \E v \in lineage[w] : v \in WorkOfRun(r)
<1>1. PICK v \in lineage[w] \cap WorkIds : owner[v] = r
  BY DEF IInv, LineageInv
<1>2. lease[v] = "held"
  BY DEF IInv, AncestorsHeld
<1>3. /\ lineage[v] \subseteq lineage[w]
      /\ lineage[r] \subseteq lineage[w]
      /\ r \in lineage[r]
      /\ lineage[w] \cap SessionIds = {workSession[w]}
  BY DEF IInv, LineageInv
<1>4. lineage[v] \cap SessionIds = {workSession[v]}
  BY <1>2 DEF IInv, LineageInv
<1>5. workSession[v] = workSession[w]
  BY <1>3, <1>4
<1>6. runSession[r] \in lineage[r] /\ runSession[r] \in SessionIds
  BY <1>3 DEF IInv, RunsInv, Types
<1>7. runSession[r] = workSession[w]
  BY <1>3, <1>6
<1>8. QED BY <1>1, <1>2, <1>5, <1>7 DEF WorkOfRun

\* The run a live work item hangs from is uncancelled, active and of its session.
LEMMA LiveWorkRun ==
  ASSUME IInv, NEW w \in WorkIds, lease[w] = "held", ~IsCancelled(w),
         NEW r \in RunIds, r \in lineage[w] \cup {owner[w]}
  PROVE  active = r /\ r \in lineage[w] /\ ~IsCancelled(r)
<1>1. r \in lineage[w]
  BY DEF IInv, LineageInv
<1>2. lineage[r] \subseteq lineage[w]
  BY <1>1 DEF IInv, LineageInv
<1>3. QED BY <1>1, <1>2 DEF IInv, NoOrphanWork, IsCancelled

\* Cancelling the active run and what the registry holds under it reaches all
\* the live work below it, whether or not the run's own token is cancelled.
LEMMA RunWorkStopped ==
  ASSUME IInv, active # NoId, WorkOfRun(active) \subseteq cancelled',
         cancelled \subseteq cancelled',
         NEW w \in WorkIds, lease[w] = "held", lineage'[w] = lineage[w],
         ~IsCancelled(w)'
  PROVE  \A r \in RunIds : r \notin lineage[w] \cup {owner[w]}
<1> SUFFICES ASSUME NEW r \in RunIds, r \in lineage[w] \cup {owner[w]} PROVE FALSE
  OBVIOUS
<1>1. ~IsCancelled(w)
  BY DEF IsCancelled
<1>2. active = r /\ r \in lineage[w]
  BY <1>1, LiveWorkRun
<1>3. PICK v \in lineage[w] : v \in WorkOfRun(r)
  BY <1>1, <1>2, ScanReachesDescendants
<1>4. QED BY <1>2, <1>3 DEF IsCancelled
-----------------------------------------------------------------------------
(* One lemma per action: the conjuncts of IInv but Types *)

Strengthening ==
  SessionsInv /\ RunsInv /\ WorkInv /\ LiveTurnIsActive /\ NoOrphanWork
  /\ RecordedRunIsOver

\* What displacing the active run cancels is no session and nothing unborn.
LEMMA DisplacedKnown ==
  ASSUME IInv
  PROVE  /\ Displaced \subseteq RunIds \cup WorkIds
         /\ \A w \in WorkIds : w \in Displaced => lease[w] # "free"
         /\ \A r \in RunIds : r \in Displaced => turn[r] # "unborn"
  BY DEF IInv, Types, RunsInv, Displaced, WorkOfRun

LEMMA StartRunInv ==
  ASSUME IInv, NEW r \in RunIds, StartRun(r) PROVE Strengthening'
<1> USE DisplacedKnown
<1>1. lineage' = [lineage EXCEPT ![r] = {r, session}] /\ lineage \in [Tokens -> SUBSET Tokens]
  BY DEF StartRun, IInv, Types
<1>2. \A t \in Tokens \ {r} : lineage'[t] = lineage[t]
  BY <1>1
<1>3. lineage'[r] = {r, session}
  BY <1>1 DEF Tokens
<1>4. cancelled \subseteq cancelled' /\ r \notin cancelled'
  BY DEF StartRun, IInv, RunsInv
<1>5. SessionsInv'
  BY <1>2 DEF StartRun, IInv, SessionsInv, Tokens
<1>6. RunsInv'
  BY <1>2, <1>3, <1>4 DEF StartRun, IInv, RunsInv, SessionsInv, Types, Tokens
<1>7. WorkInv'
  <2>1. \A w \in WorkIds : lease[w] = "free" => w \notin cancelled'
    BY DEF StartRun, IInv, LineageInv
  <2>2. turn[r] = "unborn" /\ UNCHANGED workVars
    BY DEF StartRun
  <2>3. QED BY <1>1, <1>4, <2>1, <2>2, NewRunKeepsWork
<1>8. LiveTurnIsActive'
  <2> SUFFICES ASSUME NEW q \in RunIds, turn'[q] = "running", ~IsCancelled(q)', q # r
               PROVE  FALSE
    BY DEF LiveTurnIsActive, StartRun, IInv, Types
  <2>1. turn[q] = "running" /\ lineage'[q] = lineage[q]
    BY <1>2 DEF StartRun, IInv, Types, Tokens
  <2>2. active = q
    BY <2>1, <1>4 DEF IInv, LiveTurnIsActive, IsCancelled
  <2>3. q \in lineage[q] /\ q \in cancelled'
    BY <2>1, <2>2 DEF StartRun, Displaced, IInv, RunsInv
  <2>4. QED BY <2>1, <2>3 DEF IsCancelled
<1>9. NoOrphanWork'
  <2> SUFFICES ASSUME NEW w \in WorkIds, lease'[w] = "held", ~IsCancelled(w)'
               PROVE  /\ workSession'[w] = session'
                      /\ \A q \in RunIds \cap (lineage'[w] \cup {owner'[w]}) : active' = q
    BY DEF NoOrphanWork
  <2>1. lease[w] = "held" /\ lineage'[w] = lineage[w] /\ owner'[w] = owner[w]
        /\ workSession'[w] = workSession[w] /\ session' = session
    BY <1>2 DEF StartRun, workVars, Tokens
  <2>2. ~IsCancelled(w)
    BY <2>1, <1>4 DEF IsCancelled
  <2>3. workSession[w] = session
    BY <2>1, <2>2 DEF IInv, NoOrphanWork
  <2>4. CASE active # NoId
    BY <2>1, <2>3, <2>4, <1>4, RunWorkStopped DEF StartRun, Displaced
  <2>5. CASE active = NoId
    BY <2>1, <2>2, <2>3, <2>5 DEF IInv, NoOrphanWork
  <2>6. QED BY <2>4, <2>5
<1>10. RecordedRunIsOver'
  BY <1>4 DEF StartRun, Record, Displaced, IInv, RecordedRunIsOver, Types
<1>11. QED BY <1>5, <1>6, <1>7, <1>8, <1>9, <1>10 DEF Strengthening

LEMMA CancelCurrentInv ==
  ASSUME IInv, NEW reason \in Reasons, CancelCurrent(reason) PROVE Strengthening'
<1> USE DisplacedKnown
<1>1. cancelled \subseteq cancelled' /\ lineage' = lineage
  BY DEF CancelCurrent
<1>2. SessionsInv'
  BY DEF CancelCurrent, IInv, SessionsInv
<1>3. RunsInv'
  BY DEF CancelCurrent, IInv, RunsInv
<1>4. WorkInv'
  BY CancelKeepsWork DEF CancelCurrent, IInv, WorkInv, LineageInv
<1>5. LiveTurnIsActive'
  BY DEF CancelCurrent, Displaced, IInv, RunsInv, LiveTurnIsActive, IsCancelled
<1>6. NoOrphanWork'
  <2> SUFFICES ASSUME NEW w \in WorkIds, lease'[w] = "held", ~IsCancelled(w)'
               PROVE  /\ workSession'[w] = session'
                      /\ \A q \in RunIds \cap (lineage'[w] \cup {owner'[w]}) : active' = q
    BY DEF NoOrphanWork
  <2>1. lease[w] = "held" /\ ~IsCancelled(w)
    BY <1>1 DEF CancelCurrent, workVars, IsCancelled
  <2>2. WorkOfRun(active) \subseteq cancelled' /\ active # NoId
    BY DEF CancelCurrent, Displaced
  <2>3. \A q \in RunIds : q \notin lineage[w] \cup {owner[w]}
    BY <1>1, <2>1, <2>2, RunWorkStopped
  <2>4. QED BY <2>1, <2>3 DEF CancelCurrent, workVars, IInv, NoOrphanWork
<1>7. RecordedRunIsOver'
  BY DEF CancelCurrent, Record, Displaced, IInv, RecordedRunIsOver
<1>8. QED BY <1>2, <1>3, <1>4, <1>5, <1>6, <1>7 DEF Strengthening

LEMMA ReplaceSessionInv ==
  ASSUME IInv, NEW reason \in Reasons, ReplaceSession(reason) PROVE Strengthening'
<1> PICK s \in SessionIds \ opened :
         /\ cancelled' = cancelled \cup (IF active = NoId THEN {} ELSE {active})
                                   \cup {session} \cup WorkOfSession(session)
         /\ session' = s /\ opened' = opened \cup {s} /\ active' = NoId
  BY DEF ReplaceSession
<1>1. UNCHANGED <<turn, runSession, lineage, workVars>> /\ cancelled \subseteq cancelled'
  BY DEF ReplaceSession
<1>2. /\ session \in SessionIds
      /\ WorkOfSession(session) \subseteq WorkIds
      /\ \A w \in WorkOfSession(session) : lease[w] # "free"
      /\ active \in RunIds \cup {NoId}
  BY DEF WorkOfSession, IInv, Types
<1>3. SessionsInv'
  BY <1>1, <1>2 DEF IInv, SessionsInv
<1>4. RunsInv'
  BY <1>1, <1>2 DEF IInv, RunsInv
<1>5. WorkInv'
  BY <1>1, <1>2, CancelKeepsWork DEF IInv, WorkInv, LineageInv
<1>6. \A t \in RunIds \cup WorkIds : ~IsCancelled(t)' => ~IsCancelled(t)
  BY <1>1 DEF IsCancelled
<1>7. LiveTurnIsActive'
  BY <1>1, <1>6 DEF IInv, LiveTurnIsActive, RunsInv, IsCancelled
<1>8. NoOrphanWork'
  BY <1>1, <1>6 DEF IInv, NoOrphanWork, LineageInv, IsCancelled, workVars
<1>9. RecordedRunIsOver'
  BY DEF ReplaceSession, Record, IInv, RecordedRunIsOver
<1>10. QED BY <1>3, <1>4, <1>5, <1>7, <1>8, <1>9 DEF Strengthening

LEMMA CompleteRunInv ==
  ASSUME IInv, NEW r \in RunIds, CompleteRun(r) PROVE Strengthening'
<1>1. /\ UNCHANGED <<session, opened, lastCancellation, runSession, lineage, workVars>>
      /\ cancelled \subseteq cancelled'
      /\ cancelled' \subseteq cancelled \cup WorkOfRun(r)
      /\ turn[r] = "running" /\ turn' = [turn EXCEPT ![r] = "gone"]
      /\ \/ active = r /\ active' = NoId /\ cancelled' = cancelled \cup WorkOfRun(r)
         \/ active' = active /\ cancelled' = cancelled
    BY DEF CompleteRun
<1>2. WorkOfRun(r) \subseteq WorkIds /\ \A w \in WorkOfRun(r) : lease[w] # "free"
  BY DEF WorkOfRun
<1>3. SessionsInv'
  BY <1>1, <1>2 DEF IInv, SessionsInv
<1>4. RunsInv'
  BY <1>1, <1>2 DEF IInv, RunsInv, Types
<1>5. WorkInv'
  BY <1>1, <1>2, CancelKeepsWork DEF IInv, WorkInv, LineageInv
<1>6. \A t \in RunIds \cup WorkIds : ~IsCancelled(t)' => ~IsCancelled(t)
  BY <1>1 DEF IsCancelled
<1>7. LiveTurnIsActive'
  BY <1>1, <1>6 DEF IInv, LiveTurnIsActive, Types
<1>8. NoOrphanWork'
  <2>1. CASE active' = active
    BY <1>1, <1>6, <2>1 DEF IInv, NoOrphanWork, workVars
  <2>2. CASE active = r /\ active' = NoId /\ cancelled' = cancelled \cup WorkOfRun(r)
    <3> SUFFICES ASSUME NEW w \in WorkIds, lease'[w] = "held", ~IsCancelled(w)'
                 PROVE  /\ workSession'[w] = session'
                        /\ \A q \in RunIds \cap (lineage'[w] \cup {owner'[w]}) : active' = q
      BY DEF NoOrphanWork
    <3>1. lease[w] = "held" /\ ~IsCancelled(w) /\ lineage'[w] = lineage[w]
          /\ active # NoId /\ WorkOfRun(active) \subseteq cancelled'
      BY <1>1, <1>6, <2>2 DEF workVars
    <3>2. \A q \in RunIds : q \notin lineage[w] \cup {owner[w]}
      BY <1>1, <3>1, RunWorkStopped
    <3>3. QED BY <1>1, <3>1, <3>2 DEF IInv, NoOrphanWork, workVars
  <2>3. QED BY <1>1, <2>1, <2>2
<1>9. RecordedRunIsOver'
  BY <1>1 DEF IInv, RecordedRunIsOver, Types
<1>10. QED BY <1>3, <1>4, <1>5, <1>7, <1>8, <1>9 DEF Strengthening

LEMMA TurnVanishesInv ==
  ASSUME IInv, NEW r \in RunIds, TurnVanishes(r) PROVE Strengthening'
<1>1. UNCHANGED <<session, opened, active, lastCancellation, runSession, lineage,
                  cancelled, workVars>>
      /\ turn[r] = "running" /\ turn' = [turn EXCEPT ![r] = "gone"]
  BY DEF TurnVanishes
<1>2. SessionsInv' /\ RunsInv' /\ RecordedRunIsOver'
  BY <1>1 DEF IInv, SessionsInv, RunsInv, RecordedRunIsOver, Types
<1>3. WorkInv'
  BY <1>1, CancelKeepsWork DEF IInv, WorkInv, LineageInv
<1>4. \A t \in RunIds \cup WorkIds : IsCancelled(t)' <=> IsCancelled(t)
  BY <1>1 DEF IsCancelled
<1>5. LiveTurnIsActive'
  BY <1>1, <1>4 DEF IInv, LiveTurnIsActive, Types
<1>6. NoOrphanWork'
  BY <1>1, <1>4 DEF IInv, NoOrphanWork, workVars
<1>7. QED BY <1>2, <1>3, <1>5, <1>6 DEF Strengthening

LEMMA CancelTokenInv ==
  ASSUME IInv, NEW t \in Tokens, CancelToken(t) PROVE Strengthening'
<1>1. /\ UNCHANGED <<session, opened, active, lastCancellation, turn, runSession,
                     lineage, workVars>>
      /\ t \in RunIds \cup WorkIds /\ lineage[t] # {} /\ cancelled' = cancelled \cup {t}
  BY DEF CancelToken
<1>2. SessionsInv' /\ RunsInv' /\ RecordedRunIsOver'
  BY <1>1 DEF IInv, SessionsInv, RunsInv, RecordedRunIsOver
<1>3. WorkInv'
  BY <1>1, CancelKeepsWork DEF IInv, WorkInv, LineageInv
<1>4. \A u \in RunIds \cup WorkIds : ~IsCancelled(u)' => ~IsCancelled(u)
  BY <1>1 DEF IsCancelled
<1>5. LiveTurnIsActive'
  BY <1>1, <1>4 DEF IInv, LiveTurnIsActive
<1>6. NoOrphanWork'
  BY <1>1, <1>4 DEF IInv, NoOrphanWork, workVars
<1>7. QED BY <1>2, <1>3, <1>5, <1>6 DEF Strengthening

\* What a caller may hang new work from: the session, the active run, or held
\* work, none of them cancelled, with a parent the record may name.
ParentOk(o, p) ==
  /\ ~IsCancelled(p)
  /\ \/ p = session /\ o = NoId
     \/ p \in RunIds /\ p = active /\ runSession[p] = session /\ o = p
     \/ p \in WorkIds /\ lease[p] = "held" /\ o \in {p, NoId} \cup (lineage[p] \cap RunIds)

\* The facts about a good parent that its new child inherits.
LEMMA ParentFacts ==
  ASSUME IInv, NEW p \in Tokens, NEW o, ParentOk(o, p)
  PROVE  /\ p \in lineage[p]
         /\ lineage[p] \in SUBSET Tokens
         /\ lineage[p] \cap SessionIds = {session}
         /\ \A t \in lineage[p] : t \in lineage[t] /\ lineage[t] \subseteq lineage[p]
         /\ \A v \in lineage[p] \cap WorkIds : lease[v] = "held"
         /\ \A r \in lineage[p] \cap RunIds : active = r
         /\ lineage[p] \cap cancelled = {}
<1>1. lineage[p] \in SUBSET Tokens /\ lineage[p] \cap cancelled = {}
  BY DEF IInv, Types, ParentOk, IsCancelled
<1>2. CASE p = session
  BY <1>1, <1>2 DEF IInv, Types, SessionsInv
<1>3. CASE p \in RunIds /\ p = active /\ runSession[p] = session
  <2>1. lineage[p] = {p, session} /\ lineage[session] = {session} /\ session \in SessionIds
    BY <1>3 DEF IInv, Types, SessionsInv, RunsInv
  <2>2. QED BY <1>1, <1>3, <2>1
<1>4. CASE p \in WorkIds /\ lease[p] = "held"
  <2>1. /\ p \in lineage[p]
        /\ lineage[p] \cap SessionIds = {workSession[p]}
        /\ \A t \in lineage[p] : t \in lineage[t] /\ lineage[t] \subseteq lineage[p]
    BY <1>4 DEF IInv, LineageInv
  <2>2. /\ workSession[p] = session
        /\ \A r \in lineage[p] \cap RunIds : active = r
    BY <1>4 DEF IInv, NoOrphanWork, ParentOk
  <2>3. \A v \in lineage[p] \cap WorkIds : lease[v] = "held"
    BY <1>4 DEF IInv, AncestorsHeld, ParentOk
  <2>4. QED BY <1>1, <2>1, <2>2, <2>3
<1>5. QED BY <1>2, <1>3, <1>4 DEF ParentOk

LEMMA RegisterInv ==
  ASSUME IInv, NEW w \in WorkIds, NEW p \in Tokens, NEW o, ParentOk(o, p),
         Register(w, session, o, p)
  PROVE  Strengthening'
<1> DEFINE L == lineage[p] \cup {w}
<1>1. /\ UNCHANGED <<session, opened, active, lastCancellation, turn, runSession, cancelled>>
      /\ lease[w] = "free" /\ lease' = [lease EXCEPT ![w] = "held"]
      /\ workSession' = [workSession EXCEPT ![w] = session]
      /\ owner' = [owner EXCEPT ![w] = o]
      /\ lineage' = [lineage EXCEPT ![w] = L]
  BY DEF Register
<1>2. lineage'[w] = L /\ lease'[w] = "held" /\ workSession'[w] = session /\ owner'[w] = o
  BY <1>1 DEF IInv, Types, Tokens
<1>3. /\ \A t \in Tokens \ {w} : lineage'[t] = lineage[t]
      /\ \A v \in WorkIds \ {w} : /\ lease'[v] = lease[v] /\ owner'[v] = owner[v]
                                  /\ workSession'[v] = workSession[v]
  BY <1>1 DEF IInv, Types
<1>4. lineage[w] = {} /\ w \notin cancelled
  BY <1>1 DEF IInv, LineageInv
<1>5. w \notin lineage[p] /\ \A v \in WorkIds \ {w} : w \notin lineage[v]
  BY <1>4, ParentFacts DEF IInv, LineageInv
<1>6. SessionsInv' /\ RunsInv' /\ RecordedRunIsOver'
  BY <1>1, <1>3 DEF IInv, SessionsInv, RunsInv, RecordedRunIsOver, Tokens
<1>7. o \in lineage[p] \cup {NoId}
  BY ParentFacts DEF ParentOk
<1>8. ~IsCancelled(w)'
  BY <1>1, <1>2, <1>4, ParentFacts DEF IsCancelled
<1>9. \A r \in L \cap RunIds : \E v \in L \cap WorkIds : owner'[v] = r
  <2> SUFFICES ASSUME NEW r \in RunIds, r \in lineage[p]
               PROVE  \E v \in L \cap WorkIds : owner'[v] = r
    OBVIOUS
  <2>1. CASE p = session
    BY <2>1 DEF IInv, Types, SessionsInv
  <2>2. CASE p \in RunIds /\ p = active /\ runSession[p] = session /\ o = p
    <3>1. r = p
      BY <2>2 DEF IInv, RunsInv, Types
    <3>2. QED BY <2>2, <3>1, <1>2
  <2>3. CASE p \in WorkIds /\ lease[p] = "held"
    <3>1. PICK v \in lineage[p] \cap WorkIds : owner[v] = r
      BY <2>3 DEF IInv, LineageInv
    <3>2. owner'[v] = owner[v]
      BY <1>3, <1>5
    <3>3. QED BY <3>1, <3>2
  <2>4. QED BY <2>1, <2>2, <2>3 DEF ParentOk
<1>10. LineageInv'
  <2> SUFFICES ASSUME NEW x \in WorkIds, lease'[x] # "free"
               PROVE  /\ x \in lineage'[x]
                      /\ lineage'[x] \cap SessionIds = {workSession'[x]}
                      /\ owner'[x] \in lineage'[x] \cup {NoId}
                      /\ \A t \in lineage'[x] :
                            t \in lineage'[t] /\ lineage'[t] \subseteq lineage'[x]
                      /\ \A r \in lineage'[x] \cap RunIds :
                            \E v \in lineage'[x] \cap WorkIds : owner'[v] = r
    BY <1>1, <1>2, <1>3 DEF IInv, LineageInv, Tokens
  <2>1. CASE x = w
    BY <2>1, <1>2, <1>3, <1>5, <1>7, <1>9, ParentFacts
  <2>2. CASE x # w
    <3>1. lease[x] # "free" /\ lineage'[x] = lineage[x] /\ owner'[x] = owner[x]
          /\ workSession'[x] = workSession[x] /\ w \notin lineage[x]
      BY <2>2, <1>3, <1>5 DEF Tokens
    <3>2. lineage[x] \subseteq Tokens
      BY DEF IInv, Types, Tokens
    <3>3. \A t \in lineage[x] : lineage'[t] = lineage[t]
      BY <1>3, <3>1, <3>2
    <3>4. \A v \in lineage[x] \cap WorkIds : owner'[v] = owner[v]
      BY <1>3, <3>1
    <3>5. QED BY <3>1, <3>3, <3>4 DEF IInv, LineageInv
  <2>3. QED BY <2>1, <2>2
<1>11. AncestorsHeld'
  BY <1>1, <1>2, <1>3, ParentFacts DEF IInv, AncestorsHeld, IsCancelled, Tokens
<1>12. LiveTurnIsActive'
  BY <1>1, <1>3 DEF IInv, LiveTurnIsActive, IsCancelled, Tokens
<1>13. NoOrphanWork'
  <2> SUFFICES ASSUME NEW x \in WorkIds, lease'[x] = "held", ~IsCancelled(x)'
               PROVE  /\ workSession'[x] = session'
                      /\ \A q \in RunIds \cap (lineage'[x] \cup {owner'[x]}) : active' = q
    BY DEF NoOrphanWork
  <2>1. CASE x = w
    BY <2>1, <1>1, <1>2, <1>7, ParentFacts
  <2>2. CASE x # w
    BY <2>2, <1>1, <1>3 DEF IInv, NoOrphanWork, IsCancelled, Tokens
  <2>3. QED BY <2>1, <2>2
<1>14. QED BY <1>6, <1>10, <1>11, <1>12, <1>13 DEF Strengthening, WorkInv

\* Whoever may call register_owned_session_resource is a good parent: a turn
\* that still runs and is not cancelled is the active one.
LEMMA OwnedParentOk ==
  ASSUME IInv, NEW w \in WorkIds, NEW p \in RunIds \cup WorkIds,
         RegisterOwnedSessionResource(w, p),
         NEW o \in {p} \cup (lineage[p] \cap RunIds)
                     \cup (IF p \in WorkIds THEN {NoId} ELSE {})
  PROVE  ParentOk(o, p)
<1>1. CASE p \in RunIds
  <2>1. turn[p] = "running" /\ ~IsCancelled(p)
    BY <1>1 DEF RegisterOwnedSessionResource
  <2>2. active = p /\ runSession[p] = session
    BY <1>1, <2>1 DEF IInv, LiveTurnIsActive
  <2>3. lineage[p] = {p, session} /\ session \in SessionIds
    BY <1>1, <2>1, <2>2 DEF IInv, RunsInv, Types
  <2>4. QED BY <1>1, <2>1, <2>2, <2>3 DEF ParentOk
<1>2. CASE p \in WorkIds
  BY <1>2 DEF RegisterOwnedSessionResource, ParentOk
<1>3. QED BY <1>1, <1>2

LEMMA WorkStepInv ==
  ASSUME IInv, NEW w \in WorkIds, WorkStep(w) PROVE Strengthening'
<1>1. ASSUME NEW r \in RunIds, RegisterRunResource(w, r) PROVE Strengthening'
  <2>1. ParentOk(r, r) /\ Register(w, session, r, r)
    BY <1>1 DEF RegisterRunResource, IsActive, ParentOk
  <2>2. QED BY <2>1, RegisterInv DEF Tokens
<1>2. ASSUME RegisterActiveRunResource(w) PROVE Strengthening'
  <2>1. active \in RunIds /\ runSession[active] = session
    BY <1>2 DEF RegisterActiveRunResource, IInv, Types, RunsInv
  <2>2. ParentOk(active, active) /\ Register(w, session, active, active)
    BY <1>2, <2>1 DEF RegisterActiveRunResource, ParentOk
  <2>3. QED BY <2>1, <2>2, RegisterInv DEF Tokens
<1>3. ASSUME NEW s \in SessionIds, RegisterSessionResource(w, s) PROVE Strengthening'
  <2>1. s = session /\ ParentOk(NoId, s) /\ Register(w, session, NoId, s)
    BY <1>3 DEF RegisterSessionResource, IsSessionActive, ParentOk
  <2>2. QED BY <2>1, RegisterInv DEF Tokens
<1>4. ASSUME NEW p \in RunIds \cup WorkIds, RegisterOwnedSessionResource(w, p)
      PROVE  Strengthening'
  <2>1. PICK o \in {p} \cup (lineage[p] \cap RunIds)
                      \cup (IF p \in WorkIds THEN {NoId} ELSE {}) :
          Register(w, session, o, p)
    BY <1>4 DEF RegisterOwnedSessionResource
  <2>2. ParentOk(o, p)
    BY <1>4, <2>1, OwnedParentOk
  <2>3. QED BY <2>1, <2>2, RegisterInv DEF Tokens
<1>5. ASSUME DropLease(w) PROVE Strengthening'
  <2>1. /\ UNCHANGED <<session, opened, active, lastCancellation, turn, runSession,
                       lineage, cancelled, workSession, owner>>
        /\ lease[w] = "held" /\ lease' = [lease EXCEPT ![w] = "dropped"]
        /\ \A v \in WorkIds \ {w} :
              lease[v] = "held" /\ w \in lineage[v] => IsCancelled(v)
    BY <1>5 DEF DropLease
  <2>2. \A t : IsCancelled(t)' <=> IsCancelled(t)
    BY <2>1 DEF IsCancelled
  <2>3. \A v \in WorkIds : /\ lease'[v] = "free" <=> lease[v] = "free"
                           /\ lease'[v] = "held" <=> lease[v] = "held" /\ v # w
    BY <2>1 DEF IInv, Types
  <2>4. SessionsInv' /\ RunsInv' /\ RecordedRunIsOver'
    BY <2>1 DEF IInv, SessionsInv, RunsInv, RecordedRunIsOver
  <2>5. LineageInv'
    BY <2>1, <2>3 DEF IInv, LineageInv
  <2>6. AncestorsHeld'
    BY <2>1, <2>2, <2>3 DEF IInv, AncestorsHeld
  <2>7. LiveTurnIsActive'
    BY <2>1, <2>2 DEF IInv, LiveTurnIsActive
  <2>8. NoOrphanWork'
    BY <2>1, <2>2, <2>3 DEF IInv, NoOrphanWork
  <2>9. QED BY <2>4, <2>5, <2>6, <2>7, <2>8 DEF Strengthening, WorkInv
<1>6. QED BY <1>1, <1>2, <1>3, <1>4, <1>5 DEF WorkStep
-----------------------------------------------------------------------------
(* The invariant holds, and with it the safety properties *)

LEMMA InitIInv == Init => IInv
<1> SUFFICES ASSUME Init PROVE IInv
  OBVIOUS
<1>1. Types
  BY DEF Init, Types, NoCancellation, Tokens
<1>2. SessionsInv /\ RunsInv /\ LineageInv
  BY DEF Init, SessionsInv, RunsInv, LineageInv, Tokens
<1>3. AncestorsHeld /\ LiveTurnIsActive /\ NoOrphanWork
  BY DEF Init, AncestorsHeld, LiveTurnIsActive, NoOrphanWork
<1>4. RecordedRunIsOver
  BY DEF Init, RecordedRunIsOver, NoCancellation
<1>5. QED BY <1>1, <1>2, <1>3, <1>4 DEF IInv

LEMMA StepIInv == IInv /\ [Next]_vars => IInv'
<1> SUFFICES ASSUME IInv, [Next]_vars PROVE IInv'
  OBVIOUS
<1>1. Types'
  BY TypeStep DEF IInv
<1>2. CASE Next
  <2>1. ASSUME NEW r \in RunIds, RunStep(r) PROVE Strengthening'
    BY <2>1, StartRunInv, CompleteRunInv, TurnVanishesInv DEF RunStep
  <2>2. ASSUME NEW reason \in Reasons, CancelCurrent(reason) \/ ReplaceSession(reason)
        PROVE  Strengthening'
    BY <2>2, CancelCurrentInv, ReplaceSessionInv
  <2>3. QED
    BY <1>1, <1>2, <2>1, <2>2, CancelTokenInv, WorkStepInv
    DEF Next, IInv, Strengthening, WorkInv
<1>3. CASE UNCHANGED vars
  BY <1>3 DEF vars, IInv, Types, SessionsInv, RunsInv, LineageInv, AncestorsHeld,
              LiveTurnIsActive, NoOrphanWork, RecordedRunIsOver, IsCancelled
<1>4. QED BY <1>2, <1>3

\* IInv is inductive: the coordinator and its callers never leave it.
THEOREM Inductive == Spec => []IInv
  BY InitIInv, StepIInv, PTL DEF Spec

\* The variables of the coordinator keep their types, and the active run is one
\* that was started and is of the current session, in every behaviour.
THEOREM TypeCorrect == Spec => []TypeOK
<1>1. IInv => TypeOK
  BY DEF IInv, RunsInv, TypeOK
<1>2. QED BY <1>1, Inductive, PTL

\* Whatever the dispatcher, the turn tasks and the background work interleave,
\* at most one turn is live and it is the active run of the current session.
THEOREM OneLiveTurn == Spec => []LiveTurnIsActive
<1>1. IInv => LiveTurnIsActive
  BY DEF IInv
<1>2. QED BY <1>1, Inductive, PTL

\* Registered work outlives neither its session nor the run above it.
THEOREM OrphanFreedom == Spec => []NoOrphanWork
<1>1. IInv => NoOrphanWork
  BY DEF IInv
<1>2. QED BY <1>1, Inductive, PTL

\* A run recorded as cancelled stays cancelled and is never active again.
THEOREM RecordedRunStaysOver == Spec => []RecordedRunIsOver
<1>1. IInv => RecordedRunIsOver
  BY DEF IInv
<1>2. QED BY <1>1, Inductive, PTL

\* A turn that goes away while another run holds the slot leaves it alone.
THEOREM StaleFinisherHarmless == Spec => StaleFinisherKeepsSlot
<1>1. ASSUME IInv, Next,
             NEW q \in RunIds, turn[q] = "running", turn'[q] = "gone", active # q
      PROVE  active' = active /\ cancelled' = cancelled
  <2>1. CASE \E r \in RunIds : StartRun(r)
    BY <1>1, <2>1 DEF StartRun, IInv, Types
  <2>2. CASE \E r \in RunIds : CompleteRun(r)
    BY <1>1, <2>2 DEF CompleteRun, IInv, Types
  <2>3. CASE \E r \in RunIds : TurnVanishes(r)
    BY <1>1, <2>3 DEF TurnVanishes
  <2>4. ASSUME UNCHANGED turn PROVE FALSE
    BY <1>1, <2>4
  <2>5. ASSUME NEW w \in WorkIds, WorkStep(w) PROVE UNCHANGED turn
    BY <2>5 DEF WorkStep, RegisterRunResource, RegisterActiveRunResource,
                RegisterSessionResource, RegisterOwnedSessionResource, Register, DropLease
  <2>6. QED
    BY <1>1, <2>1, <2>2, <2>3, <2>4, <2>5
    DEF Next, RunStep, CancelCurrent, ReplaceSession, CancelToken
<1>2. IInv /\ [Next]_vars
        => [\A r \in RunIds : turn[r] = "running" /\ turn'[r] = "gone" /\ active # r
              => active' = active /\ cancelled' = cancelled]_vars
  BY <1>1
<1>3. QED BY <1>2, Inductive, PTL DEF Spec, StaleFinisherKeepsSlot

-----------------------------------------------------------------------------
(* The refinement.  RuntimeCoordinator implements WorkOwnership: initial  *)
(* states map to initial states, and every step maps to a step or to a    *)
(* stutter, under the inductive invariant above.                          *)

(* Which live work a cancellation stops *)

\* Nothing holds on to None.
LEMMA NoneHoldsNothing ==
  Ownership!HeldBy(NoId) = {}
  BY DEF Ownership!HeldBy, Holders

\* A live item holds on to the lead exactly when the active run is above it.
LEMMA HoldsLead ==
  ASSUME IInv, NEW w \in WorkIds, Live(w), active # NoId
  PROVE  active \in lineage[w] <=> w \in Ownership!HeldBy(Lead)
<1>1. active \in RunIds /\ Holders[w] = lineage[w] \cap (SessionIds \cup RunIds)
  BY DEF IInv, Types, Holders
<1>2. ASSUME active \in lineage[w] PROVE w \in Ownership!HeldBy(Lead)
  <2>1. ~IsCancelled(active)
    BY <1>1, <1>2, LiveWorkRun DEF Live
  <2>2. QED BY <1>1, <1>2, <2>1 DEF Lead, Ownership!HeldBy
<1>3. ASSUME w \in Ownership!HeldBy(Lead) PROVE active \in lineage[w]
  <2>1. Lead = active
    BY <1>3, NoneHoldsNothing DEF Lead
  <2>2. QED BY <1>1, <1>3, <2>1 DEF Ownership!HeldBy
<1>4. QED BY <1>2, <1>3

\* An item that is not live holds on to nothing.
LEMMA DeadHoldsNothing ==
  ASSUME NEW w \in WorkIds, ~Live(w), NEW o
  PROVE  w \notin Ownership!HeldBy(o)
  BY DEF Ownership!HeldBy, Holders

\* A step that registers nothing and drops no lease maps to Stop(W) when W is
\* the live work that it cancels.
LEMMA CancelIsStop ==
  ASSUME UNCHANGED workVars, \A w \in WorkIds : lineage'[w] = lineage[w],
         cancelled \subseteq cancelled', NEW W,
         \A w \in WorkIds : w \in W <=> Live(w) /\ IsCancelled(w)'
  PROVE  Ownership!Stop(W)
<1>1. \A w \in WorkIds : lease'[w] = lease[w] /\ (IsCancelled(w) => IsCancelled(w)')
  BY DEF workVars, IsCancelled
<1>2. \A w \in WorkIds : Live(w)' <=> Live(w) /\ w \notin W
  BY <1>1 DEF Live
<1>3. Phase' = [w \in WorkIds |-> IF w \in W THEN "ended" ELSE Phase[w]]
  <2>1. \A w \in WorkIds : Phase'[w] = IF w \in W THEN "ended" ELSE Phase[w]
    BY <1>1, <1>2 DEF Phase, Live
  <2>2. QED BY <2>1 DEF Phase
<1>4. Holders' = [w \in WorkIds |-> IF w \in W THEN {} ELSE Holders[w]]
  BY <1>2 DEF Holders
<1>5. QED BY <1>3, <1>4 DEF Ownership!Stop

\* Cancelling what the registry holds under the active run, with or without the
\* run's own token, stops what holds on to the lead.
LEMMA RunCancelIsStop ==
  ASSUME IInv, active # NoId, UNCHANGED workVars,
         \A w \in WorkIds : lineage'[w] = lineage[w],
         NEW X, WorkOfRun(active) \subseteq X, X \subseteq {active} \cup WorkOfRun(active),
         cancelled' = cancelled \cup X
  PROVE  Ownership!Stop(Ownership!HeldBy(Lead))
<1>1. active \in RunIds
  BY DEF IInv, Types
<1>2. ASSUME NEW w \in WorkIds, Live(w), active \in lineage[w] PROVE IsCancelled(w)'
  BY <1>1, <1>2, ScanReachesDescendants DEF Live, IsCancelled
<1>3. ASSUME NEW w \in WorkIds, Live(w), IsCancelled(w)' PROVE active \in lineage[w]
  <2>1. PICK t \in lineage[w] : t \in {active} \cup WorkOfRun(active)
    BY <1>3 DEF Live, IsCancelled
  <2>2. CASE t \in WorkOfRun(active)
    <3>1. active \in lineage[t]
      BY <1>1, <2>2 DEF IInv, LineageInv, WorkOfRun
    <3>2. lineage[t] \subseteq lineage[w]
      BY <1>3, <2>1 DEF IInv, LineageInv, Live
    <3>3. QED BY <3>1, <3>2
  <2>3. QED BY <2>1, <2>2
<1>4. \A w \in WorkIds : w \in Ownership!HeldBy(Lead) <=> Live(w) /\ IsCancelled(w)'
  BY <1>2, <1>3, HoldsLead, DeadHoldsNothing
<1>5. QED BY <1>4, CancelIsStop

\* Stopping nothing changes nothing.
LEMMA StopNothing == Ownership!Stop({}) => UNCHANGED <<Phase, Holders>>
  BY DEF Ownership!Stop, Phase, Holders
-----------------------------------------------------------------------------
(* The actions *)

\* The step of the abstract specification, or a stutter.
AbstractStep == Ownership!Next \/ UNCHANGED Ownership!vars

LEMMA StartRunRefines ==
  ASSUME IInv, NEW r \in RunIds, StartRun(r) PROVE Ownership!Begin(r)
<1>1. /\ lineage' = [lineage EXCEPT ![r] = {r, session}]
      /\ cancelled' = cancelled \cup Displaced
      /\ UNCHANGED <<session, opened, workVars>> /\ active' = r
      /\ turn[r] = "unborn" /\ turn' = [turn EXCEPT ![r] = "running"]
  BY DEF StartRun
<1>2. lineage'[r] = {r, session} /\ \A t \in Tokens \ {r} : lineage'[t] = lineage[t]
  BY <1>1 DEF IInv, Types, Tokens
<1>3. r \notin Begun /\ Begun' = Begun \cup {r}
  BY <1>1 DEF Begun, IInv, Types
<1>4. Lead' = r
  <2>1. r \notin cancelled' /\ session \notin cancelled'
    BY <1>1, DisplacedKnown DEF IInv, Types, RunsInv, SessionsInv
  <2>2. QED BY <1>1, <1>2, <2>1 DEF Lead, IsCancelled
<1>5. Ownership!Stop(Ownership!HeldBy(Lead))
  <2>1. CASE active # NoId
    <3>1. \A w \in WorkIds : lineage'[w] = lineage[w]
      BY <1>2 DEF Tokens
    <3>2. /\ UNCHANGED workVars
          /\ cancelled' = cancelled \cup ({active} \cup WorkOfRun(active))
      BY <1>1, <2>1 DEF Displaced
    <3>3. QED BY <2>1, <3>1, <3>2, RunCancelIsStop
  <2>2. CASE active = NoId
    <3>1. Lead = NoId /\ cancelled' = cancelled
      BY <1>1, <2>2 DEF Lead, Displaced
    <3>2. \A w \in WorkIds : w \in {} <=> Live(w) /\ IsCancelled(w)'
      BY <1>2, <3>1 DEF Live, IsCancelled, Tokens
    <3>3. Ownership!Stop({})
      BY <1>1, <1>2, <3>1, <3>2, CancelIsStop DEF Tokens
    <3>4. QED BY <3>1, <3>3, NoneHoldsNothing
  <2>3. QED BY <2>1, <2>2
<1>6. QED BY <1>1, <1>3, <1>4, <1>5 DEF Ownership!Begin

\* Giving up the active run, cancelled or completed, ends the lead.
LEMMA EndRefines ==
  ASSUME IInv, active # NoId, UNCHANGED <<session, opened, lineage, workVars>>,
         NEW X, WorkOfRun(active) \subseteq X, X \subseteq {active} \cup WorkOfRun(active),
         cancelled' = cancelled \cup X, active' = NoId, Begun' = Begun
  PROVE  AbstractStep
<1>1. Lead' = NoId
  BY DEF Lead
<1>2. Ownership!Stop(Ownership!HeldBy(Lead))
  BY RunCancelIsStop
<1>3. CASE Lead # NoId
  BY <1>1, <1>2, <1>3 DEF Ownership!End, Ownership!Next, AbstractStep
<1>4. CASE Lead = NoId
  BY <1>1, <1>2, <1>4, NoneHoldsNothing, StopNothing DEF Ownership!vars, AbstractStep
<1>5. QED BY <1>3, <1>4

LEMMA CancelCurrentRefines ==
  ASSUME IInv, NEW reason \in Reasons, CancelCurrent(reason) PROVE AbstractStep
<1>1. UNCHANGED <<session, opened, turn, lineage, workVars>>
      /\ active # NoId /\ active' = NoId /\ cancelled' = cancelled \cup Displaced
  BY DEF CancelCurrent
<1>2. Begun' = Begun
  BY <1>1 DEF Begun
<1>3. QED BY <1>1, <1>2, EndRefines DEF Displaced

LEMMA CompleteRunRefines ==
  ASSUME IInv, NEW r \in RunIds, CompleteRun(r) PROVE AbstractStep
<1>1. /\ UNCHANGED <<session, opened, lineage, workVars>>
      /\ turn[r] = "running" /\ turn' = [turn EXCEPT ![r] = "gone"]
      /\ \/ active = r /\ active' = NoId /\ cancelled' = cancelled \cup WorkOfRun(r)
         \/ active' = active /\ cancelled' = cancelled
  BY DEF CompleteRun
<1>2. Begun' = Begun
  BY <1>1 DEF Begun, IInv, Types
<1>3. CASE active = r /\ active' = NoId /\ cancelled' = cancelled \cup WorkOfRun(r)
  BY <1>1, <1>2, <1>3, EndRefines
<1>4. CASE active' = active /\ cancelled' = cancelled
  BY <1>1, <1>2, <1>4
  DEF AbstractStep, Ownership!vars, Lead, Phase, Holders, Live, IsCancelled, workVars
<1>5. QED BY <1>1, <1>3, <1>4

LEMMA ReplaceSessionRefines ==
  ASSUME IInv, NEW reason \in Reasons, ReplaceSession(reason) PROVE Ownership!Switch
<1> PICK s \in SessionIds \ opened :
         /\ cancelled' = cancelled \cup (IF active = NoId THEN {} ELSE {active})
                                   \cup {session} \cup WorkOfSession(session)
         /\ session' = s /\ opened' = opened \cup {s} /\ active' = NoId
  BY DEF ReplaceSession
<1>1. UNCHANGED <<turn, lineage, workVars>> /\ cancelled \subseteq cancelled'
  BY DEF ReplaceSession
<1>2. Lead' = NoId /\ Begun' = Begun
  BY <1>1 DEF Lead, Begun
<1>3. ASSUME NEW w \in WorkIds, Live(w) PROVE session \in lineage[w] /\ IsCancelled(w)'
  <2>1. session \in lineage[w]
    BY <1>3 DEF Live, IInv, NoOrphanWork, LineageInv
  <2>2. QED BY <1>1, <2>1 DEF IsCancelled
<1>4. session \in SessionIds
  BY DEF IInv, Types
<1>5. \A w \in WorkIds :
        w \in Ownership!HeldBy(session) <=> Live(w) /\ IsCancelled(w)'
  BY <1>3, <1>4 DEF Ownership!HeldBy, Holders
<1>6. Ownership!Stop(Ownership!HeldBy(session))
  BY <1>1, <1>5, CancelIsStop
<1>7. QED BY <1>2, <1>6 DEF Ownership!Switch

LEMMA CancelTokenRefines ==
  ASSUME IInv, NEW t \in Tokens, CancelToken(t) PROVE AbstractStep
<1>1. /\ UNCHANGED <<session, opened, active, turn, lineage, workVars>>
      /\ t \in RunIds \cup WorkIds /\ cancelled' = cancelled \cup {t}
  BY DEF CancelToken
<1> DEFINE W == {w \in WorkIds : Live(w) /\ t \in lineage[w]}
<1>2. \A w \in WorkIds : w \in W <=> Live(w) /\ IsCancelled(w)'
  BY <1>1 DEF Live, IsCancelled
<1>3. Ownership!Stop(W)
  <2> HIDE DEF W
  <2>1. QED BY <1>1, <1>2, CancelIsStop
<1>4. Begun' = Begun
  BY <1>1 DEF Begun
<1>5. CASE t = active /\ ~IsCancelled(active)
  <2>1. active # NoId /\ Lead = active
    BY <1>1, <1>5 DEF Lead
  <2>2. active \in lineage[active]
    BY <1>5, <2>1 DEF IInv, RunsInv, Types
  <2>3. Lead' = NoId
    BY <1>1, <1>5, <2>2 DEF Lead, IsCancelled
  <2>4. \A w \in WorkIds : w \in W <=> w \in Ownership!HeldBy(Lead)
    BY <1>5, <2>1, HoldsLead, DeadHoldsNothing
  <2>5. W = Ownership!HeldBy(Lead)
    BY <2>4 DEF Ownership!HeldBy
  <2>6. QED
    BY <1>1, <1>3, <1>4, <2>1, <2>3, <2>5 DEF Ownership!End, Ownership!Next, AbstractStep
<1>6. CASE t # active \/ IsCancelled(active)
  <2>1. Lead' = Lead
    <3>1. CASE active = NoId
      BY <1>1, <3>1 DEF Lead
    <3>2. CASE active # NoId /\ IsCancelled(active)
      BY <1>1, <3>2 DEF Lead, IsCancelled
    <3>3. CASE active # NoId /\ t # active
      <4>1. lineage[active] = {active, session} /\ session \in SessionIds
        BY <3>3 DEF IInv, RunsInv, Types
      <4>2. IsCancelled(active)' <=> IsCancelled(active)
        BY <1>1, <3>3, <4>1 DEF IsCancelled
      <4>3. QED BY <1>1, <4>2 DEF Lead
    <3>4. QED BY <1>6, <3>1, <3>2, <3>3
  <2>2. CASE W # {}
    <3>1. W \in SUBSET WorkIds /\ \A w \in W : Phase[w] = "live"
      BY DEF Phase, Live
    <3>2. Ownership!Release(W)
      <4> HIDE DEF W
      <4>1. QED BY <1>1, <1>3, <1>4, <2>1, <2>2, <3>1 DEF Ownership!Release
    <3>3. QED
      <4> HIDE DEF W
      <4>1. QED BY <3>1, <3>2 DEF Ownership!Next, AbstractStep
  <2>3. CASE W = {}
    <3> HIDE DEF W
    <3>1. UNCHANGED <<Phase, Holders>>
      BY <1>3, <2>3, StopNothing
    <3>2. QED BY <1>1, <1>4, <2>1, <3>1 DEF AbstractStep, Ownership!vars
  <2>4. QED BY <2>2, <2>3
<1>7. QED BY <1>5, <1>6

\* Registration is an attachment: a good parent hangs from the session, and from
\* no run but the lead.
LEMMA RegisterRefines ==
  ASSUME IInv, NEW w \in WorkIds, NEW p \in Tokens, NEW o, ParentOk(o, p),
         Register(w, session, o, p)
  PROVE  Ownership!Attach(w)
<1>1. /\ UNCHANGED <<session, opened, active, turn, cancelled>>
      /\ lease[w] = "free" /\ lease' = [lease EXCEPT ![w] = "held"]
      /\ lineage' = [lineage EXCEPT ![w] = lineage[p] \cup {w}]
  BY DEF Register
<1>2. lineage'[w] = lineage[p] \cup {w} /\ lease'[w] = "held"
  BY <1>1 DEF IInv, Types, Tokens
<1>3. /\ \A t \in Tokens \ {w} : lineage'[t] = lineage[t]
      /\ \A v \in WorkIds \ {w} : lease'[v] = lease[v]
  BY <1>1 DEF IInv, Types
<1>4. Live(w)'
  BY <1>1, <1>2, ParentFacts DEF Live, IsCancelled, IInv, LineageInv
<1>5. \A v \in WorkIds \ {w} : Live(v)' <=> Live(v)
  BY <1>1, <1>3 DEF Live, IsCancelled, Tokens
<1>6. Lead' = Lead /\ Begun' = Begun
  BY <1>1, <1>3 DEF Lead, Begun, IsCancelled, IInv, Types, Tokens
<1>7. Phase[w] = "new"
  BY <1>1 DEF Phase, Live
<1>8. Phase' = [Phase EXCEPT ![w] = "live"]
  <2>1. \A v \in WorkIds \ {w} : Phase'[v] = Phase[v]
    BY <1>3, <1>5 DEF Phase
  <2>2. Phase'[w] = "live"
    BY <1>2, <1>4 DEF Phase
  <2>3. QED BY <2>1, <2>2 DEF Phase
<1> DEFINE O == lineage'[w] \cap (SessionIds \cup RunIds)
<1>9. Holders' = [Holders EXCEPT ![w] = O]
  <2>1. \A v \in WorkIds \ {w} : Holders'[v] = Holders[v]
    BY <1>3, <1>5 DEF Holders, Tokens
  <2>2. Holders'[w] = O
    BY <1>4 DEF Holders
  <2>3. QED BY <2>1, <2>2 DEF Holders
<1>10. O = lineage[p] \cap (SessionIds \cup RunIds)
  BY <1>2
<1>11. session \in O /\ O \subseteq {session, Lead} \ {NoId}
  <2>1. O \cap SessionIds = {session}
    BY <1>10, ParentFacts
  <2>2. ASSUME NEW r \in O \cap RunIds PROVE r = Lead
    <3>1. active = r /\ lineage[r] \subseteq lineage[p]
      BY <1>10, <2>2, ParentFacts
    <3>2. ~IsCancelled(r)
      BY <3>1, ParentFacts DEF IsCancelled
    <3>3. QED BY <3>1, <3>2, <2>2 DEF Lead
  <2>3. QED BY <2>1, <2>2
<1>12. QED
  BY <1>1, <1>6, <1>7, <1>8, <1>9, <1>11 DEF Ownership!Attach

LEMMA DropLeaseRefines ==
  ASSUME IInv, NEW w \in WorkIds, DropLease(w) PROVE AbstractStep
<1>1. /\ UNCHANGED <<session, opened, active, turn, lineage, cancelled>>
      /\ lease[w] = "held" /\ lease' = [lease EXCEPT ![w] = "dropped"]
  BY DEF DropLease
<1>2. lease'[w] = "dropped" /\ \A v \in WorkIds \ {w} : lease'[v] = lease[v]
  BY <1>1 DEF IInv, Types
<1>3. Lead' = Lead /\ Begun' = Begun
  BY <1>1 DEF Lead, Begun, IsCancelled
<1>4. ~Live(w)' /\ \A v \in WorkIds \ {w} : Live(v)' <=> Live(v)
  BY <1>1, <1>2 DEF Live, IsCancelled
<1>5. Phase' = [v \in WorkIds |-> IF v = w THEN "ended" ELSE Phase[v]]
  <2>1. \A v \in WorkIds : Phase'[v] = IF v = w THEN "ended" ELSE Phase[v]
    BY <1>1, <1>2, <1>4 DEF Phase
  <2>2. QED BY <2>1 DEF Phase
<1>6. Holders' = [v \in WorkIds |-> IF v = w THEN {} ELSE Holders[v]]
  BY <1>1, <1>4 DEF Holders
<1>7. CASE Live(w)
  <2>1. Ownership!Stop({w})
    BY <1>5, <1>6 DEF Ownership!Stop
  <2>2. Phase[w] = "live"
    BY <1>7 DEF Phase, Live
  <2>3. Ownership!Release({w})
    BY <1>1, <1>3, <2>1, <2>2 DEF Ownership!Release
  <2>4. QED BY <2>3 DEF Ownership!Next, AbstractStep
<1>8. CASE ~Live(w)
  <2>1. Phase[w] = "ended" /\ Holders[w] = {}
    BY <1>1, <1>8 DEF Phase, Holders, Live
  <2>2. Phase' = Phase /\ Holders' = Holders
    BY <1>5, <1>6, <2>1 DEF Phase, Holders
  <2>3. QED BY <1>1, <1>3, <2>2 DEF AbstractStep, Ownership!vars
<1>9. QED BY <1>7, <1>8

LEMMA WorkStepRefines ==
  ASSUME IInv, NEW w \in WorkIds, WorkStep(w) PROVE AbstractStep
<1>1. ASSUME NEW p \in Tokens, NEW o, ParentOk(o, p), Register(w, session, o, p)
      PROVE  AbstractStep
  BY <1>1, RegisterRefines DEF Ownership!Next, AbstractStep
<1>2. ASSUME NEW r \in RunIds, RegisterRunResource(w, r) PROVE AbstractStep
  BY <1>1, <1>2 DEF RegisterRunResource, IsActive, ParentOk, Tokens
<1>3. ASSUME RegisterActiveRunResource(w) PROVE AbstractStep
  <2>1. active \in RunIds /\ runSession[active] = session
    BY <1>3 DEF RegisterActiveRunResource, IInv, Types, RunsInv
  <2>2. QED BY <1>1, <1>3, <2>1 DEF RegisterActiveRunResource, ParentOk, Tokens
<1>4. ASSUME NEW s \in SessionIds, RegisterSessionResource(w, s) PROVE AbstractStep
  BY <1>1, <1>4 DEF RegisterSessionResource, IsSessionActive, ParentOk, Tokens
<1>5. ASSUME NEW p \in RunIds \cup WorkIds, RegisterOwnedSessionResource(w, p)
      PROVE  AbstractStep
  <2>1. PICK o \in {p} \cup (lineage[p] \cap RunIds)
                      \cup (IF p \in WorkIds THEN {NoId} ELSE {}) :
          Register(w, session, o, p)
    BY <1>5 DEF RegisterOwnedSessionResource
  <2>2. ParentOk(o, p)
    BY <1>5, <2>1, OwnedParentOk
  <2>3. QED BY <1>1, <2>1, <2>2 DEF Tokens
<1>6. ASSUME DropLease(w) PROVE AbstractStep
  BY <1>6, DropLeaseRefines
<1>7. QED BY <1>2, <1>3, <1>4, <1>5, <1>6 DEF WorkStep

-----------------------------------------------------------------------------
(* The refinement *)

LEMMA InitRefines == Init => Ownership!Init
<1> SUFFICES ASSUME Init PROVE Ownership!Init
  OBVIOUS
<1>1. Lead = NoId /\ Begun = {}
  BY DEF Init, Lead, Begun
<1>2. Phase = [w \in WorkIds |-> "new"]
  BY DEF Init, Phase, Live
<1>3. Holders = [w \in WorkIds |-> {}]
  BY DEF Init, Holders, Live
<1>4. QED BY <1>1, <1>2, <1>3 DEF Init, Ownership!Init

LEMMA StepRefines == IInv /\ [Next]_vars => [Ownership!Next]_(Ownership!vars)
<1> SUFFICES ASSUME IInv, [Next]_vars PROVE AbstractStep
  BY DEF AbstractStep
<1>1. ASSUME NEW r \in RunIds, RunStep(r) PROVE AbstractStep
  <2>1. ASSUME StartRun(r) PROVE AbstractStep
    BY <2>1, StartRunRefines DEF Ownership!Next, AbstractStep
  <2>2. ASSUME TurnVanishes(r) PROVE AbstractStep
    <3>1. /\ UNCHANGED <<session, opened, active, lineage, cancelled, workVars>>
          /\ turn[r] = "running" /\ turn' = [turn EXCEPT ![r] = "gone"]
      BY <2>2 DEF TurnVanishes
    <3>2. Begun' = Begun
      BY <3>1 DEF Begun, IInv, Types
    <3>3. QED
      BY <3>1, <3>2
      DEF AbstractStep, Ownership!vars, Lead, Phase, Holders, Live, IsCancelled, workVars
  <2>3. QED BY <1>1, <2>1, <2>2, CompleteRunRefines DEF RunStep
<1>2. ASSUME NEW reason \in Reasons, CancelCurrent(reason) \/ ReplaceSession(reason)
      PROVE  AbstractStep
  BY <1>2, CancelCurrentRefines, ReplaceSessionRefines DEF Ownership!Next, AbstractStep
<1>3. CASE UNCHANGED vars
  BY <1>3 DEF vars, AbstractStep, Ownership!vars, Lead, Begun, Phase, Holders, Live, IsCancelled
<1>4. QED
  BY <1>1, <1>2, <1>3, CancelTokenRefines, WorkStepRefines DEF Next

\* The coordinator, its registry and its tokens implement WorkOwnership: ending
\* an owner ends its work in one step, in every interleaving.
THEOREM Refinement == Spec => ImplementsOwnership
  BY InitRefines, StepRefines, Inductive, PTL DEF Spec, ImplementsOwnership, Ownership!Spec

=============================================================================
