--------------------------- MODULE WorkOwnership ----------------------------
(***************************************************************************)
(* What the runtime promises about ownership, with no token, registry or   *)
(* stale handle in sight: one session era at a time, at most one leading   *)
(* run in it, and work that holds on to the era and perhaps to the lead.   *)
(* Ending an owner ends all the work that holds on to it, in the same      *)
(* step, and nothing that ended ever lives again.                          *)
(***************************************************************************)
EXTENDS FiniteSets

CONSTANTS SessionIds, RunIds, WorkIds, NoId

VARIABLES
  era,      \* the current session
  eras,     \* the sessions there have been
  lead,     \* the leading run, or NoId
  begun,    \* the runs there have been
  phase,    \* of each work item: new, live, ended
  holders   \* the owners a live work item holds on to

vars == <<era, eras, lead, begun, phase, holders>>

Init ==
  /\ era \in SessionIds
  /\ eras = {era}
  /\ lead = NoId
  /\ begun = {}
  /\ phase = [w \in WorkIds |-> "new"]
  /\ holders = [w \in WorkIds |-> {}]

\* The work items in W stop, all at once.
Stop(W) ==
  /\ phase' = [w \in WorkIds |-> IF w \in W THEN "ended" ELSE phase[w]]
  /\ holders' = [w \in WorkIds |-> IF w \in W THEN {} ELSE holders[w]]

HeldBy(o) == {w \in WorkIds : o \in holders[w]}

\* A new run leads; the work of the one before it stops.
Begin(r) ==
  /\ r \notin begun
  /\ lead' = r
  /\ begun' = begun \cup {r}
  /\ Stop(HeldBy(lead))
  /\ UNCHANGED <<era, eras>>

\* The lead ends, completed or cancelled, and its work stops.
End ==
  /\ lead # NoId
  /\ lead' = NoId
  /\ Stop(HeldBy(lead))
  /\ UNCHANGED <<era, eras, begun>>

\* A new era: nothing of the old one goes on.
Switch ==
  /\ \E s \in SessionIds \ eras : era' = s /\ eras' = eras \cup {s}
  /\ lead' = NoId
  /\ Stop(HeldBy(era))
  /\ UNCHANGED begun

\* New work holds on to the era, and to the lead if it is the lead's.
Attach(w) ==
  /\ phase[w] = "new"
  /\ phase' = [phase EXCEPT ![w] = "live"]
  /\ \E O \in SUBSET ({era, lead} \ {NoId}) :
        era \in O /\ holders' = [holders EXCEPT ![w] = O]
  /\ UNCHANGED <<era, eras, lead, begun>>

\* Some live work ends by itself or is interrupted.
Release(W) ==
  /\ W # {}
  /\ \A w \in W : phase[w] = "live"
  /\ Stop(W)
  /\ UNCHANGED <<era, eras, lead, begun>>

Next ==
  \/ \E r \in RunIds : Begin(r)
  \/ End
  \/ Switch
  \/ \E w \in WorkIds : Attach(w)
  \/ \E W \in SUBSET WorkIds : Release(W)

Spec == Init /\ [][Next]_vars

=============================================================================
