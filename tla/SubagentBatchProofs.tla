------------------------ MODULE SubagentBatchProofs -------------------------
(***************************************************************************)
(* Theorems about SubagentBatch, for any number of children and files, any *)
(* way of running the batch and any bounds: type correctness, what reaches *)
(* the workspace, and the records that stay.                               *)
(***************************************************************************)
EXTENDS SubagentBatch, FiniteSetTheorems, TLAPS

-----------------------------------------------------------------------------
(* The inductive invariant *)

\* A commit holds nothing a child made; a batch reads its token after its
\* children, and nothing but a wave promotes while they are at work.
Settled ==
  /\ head \in [Path -> {Absent, Original}]
  /\ phase \in {"promoting", "over"} => \A i \in Child : child[i] # "running"
  /\ (mode = "parallel" /\ phase \in {"setup", "running", "dropped"}) =>
       \A p \in Path : main[p] \notin Child

\* Which worktrees exist, phase by phase, where TypeOK does not say it.
Standing ==
  /\ phase = "setup" =>
       /\ mode = "parallel" /\ next <= NumTasks /\ trees = 1 .. next - 1
       /\ \A i \in Child : child[i] = "idle"
  /\ (mode = "parallel" /\ phase \in {"running", "dropped"}) => next = 1 /\ trees = Child
  /\ mode \in {"shared", "chain"} => trees = {}
  /\ mode # "wave" => expired = {}
  /\ mode = "wave" =>
       /\ phase # "dropped"
       /\ phase = "promoting" => \A i \in trees : i \in expired /\ child[i] = "dropped"
       /\ \A i \in Child :
            /\ child[i] = "waiting" => i \notin trees \cup barred
            /\ child[i] = "running" => i \in trees
            /\ child[i] = "dropped" => i \in trees \cap expired

\* A cancellation bars the worktrees that have not been looked at; what a
\* parallel batch reads of its token is whether there was one in time.
Barring ==
  /\ (mode = "parallel" /\ phase \in {"setup", "running"}) =>
       barred = {i \in Child : Parent \in cancelled}
  /\ (mode = "parallel" /\ phase \in {"promoting", "over"}) =>
       barred = {i \in Child : stop} \/ \A i \in Child : child[i] = "idle"
  /\ mode = "wave" =>
       \A i \in trees : i \in barred <=> (Parent \in cancelled \/ i \in expired)

\* The end of a parallel batch: all worktrees have been looked at, or no child
\* was started.
Complete ==
  (mode = "parallel" /\ phase = "over") =>
     next = NumTasks + 1 \/ \A i \in Child : child[i] = "idle"

\* What a run of a wave made is in the workspace: it was looked at, and let in.
Reached(i) == mode = "wave" /\ child[i] = "ok" /\ i \notin barred \cup trees

\* A worktree holds what its own child made, and through its seed what was
\* promoted before it was made.
Seeds ==
  /\ \A i \in Child, p \in Path : tree[i][p] \in Child => tree[i][p] = i \/ Reached(tree[i][p])
  /\ mode = "wave" => \A p \in Path : main[p] \in Child => Reached(main[p])

\* The promotions of a parallel batch so far: the last successful child decides,
\* if its promotion did not fail.
LastSoFar ==
  (mode = "parallel" /\ phase \in {"promoting", "over"}) =>
    \A k \in Child \ (barred \cup spoilt) :
      (k < next /\ child[k] = "ok" /\ \A j \in k + 1 .. next - 1 : child[j] # "ok") =>
        \A p \in Path :
          (tree[k][p] # Absent \/ head[p] # Absent) => main[p] \in {tree[k][p], Edited}

\* The worktree of a child has been looked at.
HandedOver(i) ==
  \/ mode = "parallel" /\ phase \in {"promoting", "over"} /\ i < next
  \/ mode = "wave" /\ i \notin trees

\* Only child i has the file p, of all the successes that were handed over.
Alone(i, p) ==
  /\ child[i] = "ok" /\ tree[i][p] = i /\ head[p] = Absent
  /\ \A j \in Child \ {i} : child[j] = "ok" /\ HandedOver(j) => tree[j][p] = Absent

\* The new files that have been handed over so far.
NewSoFar ==
  \A i \in Child \ (barred \cup spoilt), p \in Path :
    HandedOver(i) /\ Alone(i, p) => main[p] \in {i, Edited}

IInv ==
  /\ TypeOK /\ Settled /\ Standing /\ Barring /\ Complete /\ Seeds
  /\ OnlySuccessIsPromoted /\ LastSoFar /\ NewSoFar /\ LiveRunsListed

-----------------------------------------------------------------------------
(* The operators the actions are built from *)

\* There are finitely many runs.
LEMMA RunsFinite == IsFiniteSet(Run)
<1>1. IsFiniteSet(1 .. NumTasks)
  BY FS_Interval, BatchAssumption
<1>2. QED BY <1>1, FS_AddElement, FS_Union, FS_Singleton DEF Run, Child, Parent

\* The end of a run gives its record an end state and its end a place.
LEMMA RecordType ==
  ASSUME TypeOK, NEW r \in Run, NEW state \in {"completed", "failed", "cancelled"},
         Record(r, state)
  PROVE  /\ ended' \in [Run -> Nat]
         /\ runs' \in [Run -> {"none", "running", "paused", "completed", "failed", "cancelled"}]
<1>1. Cardinality({s \in Run : ended[s] > 0}) \in Nat
  BY RunsFinite, FS_Subset, FS_CardinalityType, {s \in Run : ended[s] > 0} \subseteq Run
<1>2. QED BY <1>1 DEF TypeOK, Record, Pruned

\* The end of a run evicts no record of a run at work.
LEMMA RecordKeeps ==
  ASSUME TypeOK, NEW r \in Run, NEW state, Record(r, state),
         NEW q \in Run \ {r}, runs[q] \in {"running", "paused"}
  PROVE  runs'[q] = runs[q]
  BY DEF TypeOK, Record, Pruned, Oldest, Terminal

\* A run ends as completed, failed or cancelled.
LEMMA EndStateType ==
  ASSUME NEW r, NEW ok \in BOOLEAN
  PROVE  EndState(r, ok) \in {"completed", "failed", "cancelled"}
  BY DEF EndState

\* A worktree is seeded with what the workspace and the commit have.
LEMMA SeededValues ==
  ASSUME TypeOK
  PROVE  Seeded \in Tree /\ \A p \in Path : Seeded[p] \in {main[p], head[p], Absent}
  BY DEF TypeOK, Seeded, RemoveMissing, CopyTreeDiff, Tree, Content, Absent

\* A promotion copies what the worktree has and deletes what it lost of the
\* commit, and leaves the rest; one that fails leaves more.
LEMMA PromoteTreeValues ==
  ASSUME TypeOK, NEW i \in Child, PromoteTree(i)
  PROVE  /\ main' \in Tree
         /\ spoilt' \in {spoilt, spoilt \cup {i}}
         /\ \A p \in Path :
              \/ main'[p] = main[p]
              \/ tree[i][p] # Absent /\ main'[p] = tree[i][p]
              \/ tree[i][p] = Absent /\ head[p] # Absent /\ main'[p] = Absent
         /\ i \notin spoilt' =>
              \A p \in Path :
                main'[p] = IF tree[i][p] # Absent THEN tree[i][p]
                           ELSE IF head[p] # Absent THEN Absent ELSE main[p]
<1>1. PICK copied, deleted \in SUBSET Path :
        /\ main' = Promoted(i, copied, deleted)
        /\ spoilt' = IF copied = Path /\ deleted = Path THEN spoilt ELSE spoilt \cup {i}
  BY DEF PromoteTree
<1>2. main' = [p \in Path |->
        IF p \in deleted /\ head[p] # Absent /\ tree[i][p] = Absent THEN Absent
        ELSE IF p \in copied /\ tree[i][p] # Absent THEN tree[i][p] ELSE main[p]]
  BY <1>1 DEF Promoted, SyncGitDeletions, CopyTreeDiff
<1>3. main' \in Tree
  BY <1>2 DEF TypeOK, Tree, Content
<1>4. i \notin spoilt' => copied = Path /\ deleted = Path
  BY <1>1
<1>5. QED BY <1>1, <1>2, <1>3, <1>4

-----------------------------------------------------------------------------
(* The steps *)

\* Initially no child has started and nothing is promoted.
LEMMA InitInv == Init => IInv
<1> SUFFICES ASSUME Init PROVE IInv
  OBVIOUS
<1>1. TypeOK
  <2>1. head \in Tree /\ main \in Tree /\ tree \in [Child -> Tree]
    BY DEF Init, Tree, Content
  <2>2. runs \in [Run -> {"none", "running"}] /\ ended \in [Run -> Nat]
    BY DEF Init
  <2>3. child \in [Child -> {"idle", "waiting"}] /\ next \in 1 .. NumTasks + 1
    BY BatchAssumption DEF Init
  <2>4. /\ trees = {} /\ cancelled = {} /\ expired = {} /\ barred = {} /\ spoilt = {}
        /\ phase \in {"setup", "running"}
        /\ edits \in 0 .. MaxEdits /\ interrupts \in 0 .. MaxInterrupts
    BY BatchAssumption DEF Init
  <2>5. QED BY <2>1, <2>2, <2>3, <2>4 DEF Init, TypeOK
<1>2. Settled /\ Standing /\ Barring /\ Complete
  BY BatchAssumption
  DEF Init, Settled, Standing, Barring, Complete, Child, Parent, Absent, Original
<1>3. Seeds /\ OnlySuccessIsPromoted
  BY DEF Init, Seeds, OnlySuccessIsPromoted, Child, Absent, Original
<1>4. LastSoFar /\ NewSoFar
  BY DEF Init, LastSoFar, NewSoFar, Alone
<1>5. LiveRunsListed
  BY DEF Init, LiveRunsListed, Run, Parent, Child
<1>6. QED BY <1>1, <1>2, <1>3, <1>4, <1>5 DEF IInv

\* A failed set-up leaves no worktree and no child.
LEMMA SetUpFailsInv == ASSUME IInv, SetUpFails PROVE IInv'
<1> USE DEF SetUpFails, IInv
<1>1. TypeOK'
  BY RecordType DEF TypeOK, Standing, Run, how, tokens, bounds
<1>2. Settled' /\ Standing' /\ Barring' /\ Complete'
  BY DEF Settled, Standing, Barring, Complete, how, tokens
<1>3. Seeds' /\ OnlySuccessIsPromoted'
  BY DEF Seeds, OnlySuccessIsPromoted, Settled, Standing, Reached, Isolated, how
<1>4. LastSoFar' /\ NewSoFar'
  BY DEF LastSoFar, NewSoFar, Alone, Standing, how
<1>5. LiveRunsListed'
  BY DEF LiveRunsListed, Standing, how
<1>6. QED BY <1>1, <1>2, <1>3, <1>4, <1>5

\* A worktree is made while no child has started.
LEMMA SetUpInv == ASSUME IInv, SetUp PROVE IInv'
<1> USE DEF SetUp, IInv
<1>a. next \in Child /\ mode = "parallel"
  BY DEF TypeOK, Standing, Child
<1>b. (next < NumTasks => trees' = 1 .. next' - 1) /\ (next = NumTasks => trees' = Child)
  BY <1>a DEF TypeOK, Standing, Child
<1>1. TypeOK'
  <2>1. tree' \in [Child -> Tree] /\ trees' \subseteq Child
    BY <1>a, SeededValues DEF TypeOK
  <2>2. /\ next' \in 1 .. NumTasks + 1 /\ phase' \in {"setup", "running"}
        /\ child' \in [Child -> {"idle", "waiting", "running", "ok", "failed", "dropped"}]
    <3>1. CASE next < NumTasks
      BY <1>a, <3>1, BatchAssumption DEF TypeOK
    <3>2. CASE ~ (next < NumTasks)
      BY <3>2, BatchAssumption DEF TypeOK
    <3>3. QED BY <3>1, <3>2
  <2>3. QED BY <2>1, <2>2 DEF TypeOK, how, tokens, records, bounds
<1>2. Settled' /\ Barring'
  BY <1>a DEF Settled, Standing, Barring, how, tokens
<1>3. Standing'
  <2>1. CASE next < NumTasks
    <3>1. next + 1 <= NumTasks
      BY <1>a, <2>1, BatchAssumption DEF Child
    <3>2. QED BY <1>a, <1>b, <2>1, <3>1 DEF Standing, how, tokens
  <2>2. CASE next = NumTasks
    BY <1>a, <1>b, <2>2 DEF Standing, how, tokens
  <2>3. QED BY <1>a, <2>1, <2>2, BatchAssumption DEF Child
<1>4. Complete' /\ LastSoFar' /\ NewSoFar'
  BY <1>a DEF Complete, LastSoFar, NewSoFar, HandedOver, how
<1>5. Seeds'
  <2>1. \A p \in Path : Seeded[p] \notin Child
    BY <1>a, SeededValues DEF Settled, Absent, Original, Child
  <2>2. \A i \in Child, p \in Path : tree'[i][p] \in Child => tree'[i][p] = i
    <3>1. \A i \in Child, p \in Path : tree[i][p] \in Child => tree[i][p] = i
      BY <1>a DEF Seeds, Reached
    <3>2. QED BY <2>1, <3>1 DEF TypeOK
  <2>3. QED BY <1>a, <2>2 DEF Seeds, how
<1>6. OnlySuccessIsPromoted'
  BY <1>a DEF OnlySuccessIsPromoted, Settled, how
<1>7. LiveRunsListed'
  BY <1>a DEF LiveRunsListed, records, how
<1>8. QED BY <1>1, <1>2, <1>3, <1>4, <1>5, <1>6, <1>7

\* A child that does not start had nothing to hand over.
LEMMA RefuseInv == ASSUME IInv, NEW i \in Child, Refuse(i) PROVE IInv'
<1> USE DEF Refuse, IInv
<1>1. TypeOK'
  BY DEF TypeOK, Scheduled, how, files, tokens, records, bounds
<1>2. Settled' /\ Standing' /\ Barring' /\ Complete'
  BY DEF Settled, Standing, Barring, Complete, Scheduled, TypeOK, how, files, tokens
<1>3. Seeds' /\ OnlySuccessIsPromoted'
  BY DEF Seeds, Reached, OnlySuccessIsPromoted, Isolated, TypeOK, how, files, tokens
<1>4. LastSoFar' /\ NewSoFar'
  BY DEF LastSoFar, NewSoFar, HandedOver, Alone, TypeOK, how, files, tokens
<1>5. LiveRunsListed'
  BY DEF LiveRunsListed, TypeOK, records, how
<1>6. QED BY <1>1, <1>2, <1>3, <1>4, <1>5

\* A child that starts makes its worktree, if it has one of its own.
LEMMA StartInv == ASSUME IInv, NEW i \in Child, Start(i) PROVE IInv'
<1> USE DEF Start, IInv
<1>1. TypeOK'
  BY SeededValues DEF TypeOK, Scheduled, Run, how, tokens, bounds
<1>2. Settled' /\ Complete'
  BY DEF Settled, Complete, Scheduled, TypeOK, how
<1>3. Standing'
  BY DEF Standing, Scheduled, TypeOK, how, tokens
<1>4. Barring'
  <2>1. Parent \notin cancelled /\ i \notin expired /\ (mode = "wave" => i \notin barred)
    BY DEF Cancelled, Standing
  <2>2. QED BY <2>1 DEF Barring, Scheduled, TypeOK, how, tokens
<1>5. Seeds'
  <2>1. \A j \in Child : Reached(j) => Reached(j)'
    BY DEF Reached, TypeOK, how, tokens
  <2>2. ASSUME NEW p \in Path, Seeded[p] \in Child, mode = "wave" PROVE Reached(Seeded[p])
    BY <2>2, SeededValues DEF Settled, Seeds, Absent, Original, Child
  <2>3. QED BY <2>1, <2>2 DEF Seeds, TypeOK, how
<1>6. OnlySuccessIsPromoted'
  BY DEF OnlySuccessIsPromoted, Isolated, TypeOK, how, tokens
<1>7. LastSoFar'
  BY DEF LastSoFar, Scheduled, how
<1>8. NewSoFar'
  <2>1. \A j : HandedOver(j)' => HandedOver(j)
    BY DEF HandedOver, how
  <2>2. \A j \in Child : HandedOver(j) /\ child[j] = "ok" =>
          j # i /\ HandedOver(j)' /\ child'[j] = "ok" /\ tree'[j] = tree[j]
    BY DEF HandedOver, TypeOK, how
  <2>3. \A k \in Child, p \in Path : HandedOver(k)' /\ Alone(k, p)' => Alone(k, p)
    BY <2>1, <2>2 DEF Alone, TypeOK
  <2>4. QED BY <2>1, <2>3 DEF NewSoFar, tokens
<1>9. LiveRunsListed'
  BY DEF LiveRunsListed, TypeOK, Run, Parent, Child, how
<1>10. QED BY <1>1, <1>2, <1>3, <1>4, <1>5, <1>6, <1>7, <1>8, <1>9

\* A child at work writes its own worktree only.
LEMMA TouchInv == ASSUME IInv, NEW i \in Child, NEW p \in Path, Touch(i, p) PROVE IInv'
<1> USE DEF Touch, IInv
<1>a. PICK c \in {i, Absent} :
        IF mode \in {"parallel", "wave"}
        THEN tree' = [tree EXCEPT ![i][p] = c] /\ UNCHANGED main
        ELSE main' = [main EXCEPT ![p] = c] /\ UNCHANGED tree
  OBVIOUS
<1>b. c \in Content
  BY DEF Content
<1>1. TypeOK'
  <2>1. main' \in Tree
    BY <1>a, <1>b DEF TypeOK, Tree
  <2>2. tree' \in [Child -> Tree]
    <3>1. [tree[i] EXCEPT ![p] = c] \in Tree
      BY <1>b DEF TypeOK, Tree
    <3>2. QED BY <1>a, <3>1 DEF TypeOK
  <2>3. QED BY <2>1, <2>2 DEF TypeOK, how, tokens, records, bounds
<1>2. Settled'
  BY DEF Settled, how
<1>3. Standing' /\ Barring' /\ Complete'
  BY DEF Standing, Barring, Complete, how, tokens
<1>4. Seeds'
  <2>1. \A j : Reached(j)' <=> Reached(j)
    BY DEF Reached, how, tokens
  <2>2. ASSUME NEW k \in Child, NEW q \in Path
        PROVE  tree'[k][q] = tree[k][q] \/ (k = i /\ tree'[k][q] = c)
    BY <1>a DEF TypeOK, Tree
  <2>3. QED BY <2>1, <2>2 DEF Seeds, Absent, Child, how
<1>5. OnlySuccessIsPromoted'
  BY DEF OnlySuccessIsPromoted, Isolated, how, tokens
<1>6. LastSoFar'
  BY DEF LastSoFar, Settled, how
<1>7. NewSoFar'
  <2> SUFFICES ASSUME NEW k \in Child, k \notin barred \cup spoilt, NEW q \in Path,
                      HandedOver(k)', Alone(k, q)'
               PROVE  main'[q] \in {k, Edited}
    BY DEF NewSoFar, tokens
  <2>1. mode = "wave" /\ i \in trees
    BY DEF HandedOver, Settled, Standing, how
  <2>2. UNCHANGED main /\ \A j \in Child : HandedOver(j) => j # i /\ tree'[j] = tree[j]
    BY <2>1 DEF HandedOver, TypeOK
  <2>3. \A j : HandedOver(j)' <=> HandedOver(j)
    BY DEF HandedOver, how
  <2>4. QED BY <2>2, <2>3 DEF NewSoFar, Alone
<1>8. LiveRunsListed'
  BY DEF LiveRunsListed, records, how
<1>9. QED BY <1>1, <1>2, <1>3, <1>4, <1>5, <1>6, <1>7, <1>8

\* A run that ends leaves its worktree to be looked at.
LEMMA FinishInv == ASSUME IInv, NEW i \in Child, Finish(i) PROVE IInv'
<1> USE DEF Finish, IInv
<1>a. PICK ok \in BOOLEAN :
        /\ child' = [child EXCEPT ![i] = IF ok THEN "ok" ELSE "failed"]
        /\ Record(i, EndState(i, ok))
  OBVIOUS
<1>b. i \in Run
  BY DEF Run
<1>1. TypeOK'
  BY <1>a, <1>b, RecordType, EndStateType DEF TypeOK, Settled, how, files, tokens, bounds
<1>2. Settled' /\ Standing' /\ Barring' /\ Complete'
  BY <1>a DEF Settled, Standing, Barring, Complete, TypeOK, how, files, tokens
<1>3. Seeds' /\ OnlySuccessIsPromoted'
  BY <1>a DEF Seeds, Reached, OnlySuccessIsPromoted, Isolated, TypeOK, how, files, tokens
<1>4. LastSoFar'
  BY DEF LastSoFar, Settled, how, files
<1>5. NewSoFar'
  BY <1>a DEF NewSoFar, HandedOver, Alone, TypeOK, Standing, Settled, how, files, tokens
<1>6. LiveRunsListed'
  <2>1. \A q \in Run \ {i} : runs[q] \in {"running", "paused"} => runs'[q] = runs[q]
    BY <1>a, <1>b, RecordKeeps
  <2>2. QED BY <1>a, <2>1 DEF LiveRunsListed, TypeOK, Run, Parent, Child, how
<1>7. QED BY <1>1, <1>2, <1>3, <1>4, <1>5, <1>6

\* A run of a wave promotes its worktree if it succeeded and was not cancelled.
LEMMA HandsInv == ASSUME IInv, NEW i \in Child, Hands(i) PROVE IInv'
<1> USE DEF Hands, IInv
<1>a. \/ UNCHANGED <<main, spoilt>>
      \/ child[i] = "ok" /\ i \notin barred /\ PromoteTree(i)
  BY DEF Barring
<1>b. phase = "running"
  BY DEF Standing, TypeOK
<1>1. TypeOK'
  <2>1. main' \in Tree /\ spoilt' \subseteq Child
    BY <1>a, PromoteTreeValues DEF TypeOK
  <2>2. QED BY <1>b, <2>1 DEF TypeOK, how, tokens, records, bounds
<1>2. Settled' /\ Standing' /\ Barring' /\ Complete'
  BY DEF Settled, Standing, Barring, Complete, TypeOK, how, tokens
<1>3. LastSoFar' /\ LiveRunsListed'
  BY DEF LastSoFar, LiveRunsListed, records, how
<1>4. ASSUME NEW p \in Path, main'[p] \in Child, main'[p] # main[p]
      PROVE  child[i] = "ok" /\ i \notin barred /\ main'[p] = tree[i][p]
  BY <1>4, <1>a, PromoteTreeValues DEF Absent, Child
<1>5. Seeds'
  <2>1. \A j : Reached(j) => Reached(j)'
    BY DEF Reached, how, tokens
  <2>2. ASSUME NEW p \in Path, NEW j \in Child, main'[p] = j PROVE Reached(j)'
    <3>1. CASE main[p] = j
      BY <2>1, <3>1 DEF Seeds
    <3>2. CASE main[p] # j
      <4>1. child[i] = "ok" /\ i \notin barred /\ tree[i][p] = j
        BY <1>4, <2>2, <3>2
      <4>2. Reached(i)'
        BY <4>1 DEF Reached, how, tokens
      <4>3. QED BY <2>1, <4>1, <4>2 DEF Seeds
    <3>3. QED BY <3>1, <3>2
  <2>3. QED BY <2>1, <2>2 DEF Seeds, how
<1>6. OnlySuccessIsPromoted'
  BY <1>5 DEF Seeds, Reached, OnlySuccessIsPromoted, how
<1>7. NewSoFar'
  <2> SUFFICES ASSUME NEW k \in Child, k \notin barred \cup spoilt', NEW p \in Path,
                      HandedOver(k)', Alone(k, p)'
               PROVE  main'[p] \in {k, Edited}
    BY DEF NewSoFar, tokens
  <2>1. child[k] = "ok" /\ tree[k][p] = k /\ head[p] = Absent /\ Alone(k, p)
    BY DEF Alone, HandedOver, how
  <2>2. CASE k = i
    <3>1. Parent \notin cancelled /\ i \notin expired
      BY <2>2 DEF Barring
    <3>2. PromoteTree(i)
      BY <2>1, <2>2, <3>1
    <3>3. QED BY <2>1, <2>2, <3>2, PromoteTreeValues DEF Absent, Child
  <2>3. CASE k # i
    <3>1. k \notin trees /\ k \notin spoilt
      BY <1>a, <2>3, PromoteTreeValues DEF HandedOver, how
    <3>2. main[p] \in {k, Edited}
      BY <2>1, <3>1 DEF HandedOver, NewSoFar
    <3>3. child[i] = "ok" => tree[i][p] = Absent
      BY <2>3 DEF Alone, HandedOver, how
    <3>4. main'[p] = main[p]
      BY <1>a, <2>1, <3>3, PromoteTreeValues
    <3>5. QED BY <3>2, <3>4
  <2>4. QED BY <2>2, <2>3
<1>8. QED BY <1>1, <1>2, <1>3, <1>5, <1>6, <1>7

\* The time limit of a run bars its worktree, which has not been looked at.
LEMMA ExpireInv == ASSUME IInv, NEW i \in Child, Expire(i) PROVE IInv'
<1> USE DEF Expire, IInv
<1>1. TypeOK'
  BY DEF TypeOK, how, files, records, bounds
<1>2. Settled' /\ Standing' /\ Barring' /\ Complete'
  BY DEF Settled, Standing, Barring, Complete, how, files
<1>3. Seeds'
  <2>1. \A j : Reached(j) => Reached(j)'
    BY DEF Reached, how, files
  <2>2. QED BY <2>1 DEF Seeds, how, files
<1>4. OnlySuccessIsPromoted'
  BY <1>3 DEF Seeds, Reached, OnlySuccessIsPromoted, how, files
<1>5. LastSoFar' /\ NewSoFar' /\ LiveRunsListed'
  BY DEF LastSoFar, NewSoFar, HandedOver, Alone, LiveRunsListed, records, how, files
<1>6. QED BY <1>1, <1>2, <1>3, <1>4, <1>5

\* A run that is dropped was not promoted, and will not be.
LEMMA GiveUpInv == ASSUME IInv, NEW i \in Child, GiveUp(i) PROVE IInv'
<1> USE DEF GiveUp, IInv
<1>a. mode = "wave"
  BY DEF Standing
<1>1. TypeOK'
  BY DEF TypeOK, how, files, tokens, records, bounds
<1>2. Settled' /\ Standing' /\ Barring' /\ Complete'
  BY <1>a DEF Settled, Standing, Barring, Complete, TypeOK, how, files, tokens
<1>3. Seeds'
  <2>1. \A j \in Child : Reached(j) => Reached(j)'
    BY DEF Reached, TypeOK, how, files, tokens
  <2>2. QED BY <2>1 DEF Seeds, TypeOK, how, files
<1>4. OnlySuccessIsPromoted'
  BY <1>a, <1>3 DEF Seeds, Reached, OnlySuccessIsPromoted, how, files
<1>5. LastSoFar'
  BY <1>a DEF LastSoFar, how
<1>6. NewSoFar'
  <2>1. \A j : HandedOver(j)' <=> HandedOver(j)
    BY DEF HandedOver, how, files
  <2>2. \A j \in Child : HandedOver(j) => child'[j] = child[j]
    BY <1>a DEF HandedOver, TypeOK
  <2>3. \A j \in Child, p \in Path : HandedOver(j) /\ Alone(j, p)' => Alone(j, p)
    BY <2>1, <2>2 DEF Alone, files
  <2>4. QED BY <2>1, <2>3 DEF NewSoFar, files, tokens
<1>7. LiveRunsListed'
  BY DEF LiveRunsListed, TypeOK, records, how
<1>8. QED BY <1>1, <1>2, <1>3, <1>4, <1>5, <1>6, <1>7

\* The batch reads its token: what was handed over before stays accounted for.
LEMMA DecideInv == ASSUME IInv, Decide PROVE IInv'
<1> USE DEF Decide, IInv
<1>1. TypeOK'
  BY BatchAssumption DEF TypeOK, Standing, Child, how, files, tokens, records, bounds
<1>2. Settled'
  BY DEF Settled, Ended, how, files
<1>3. Standing' /\ Complete'
  BY DEF Standing, Complete, TypeOK, how, files, tokens
<1>4. Barring'
  BY DEF Barring, how, files, tokens
<1>5. Seeds' /\ OnlySuccessIsPromoted'
  BY DEF Seeds, Reached, OnlySuccessIsPromoted, Isolated, how, files, tokens
<1>6. LastSoFar'
  BY DEF LastSoFar, Standing, Child, how, files
<1>7. NewSoFar'
  BY DEF NewSoFar, HandedOver, Alone, Standing, Child, how, files, tokens
<1>8. LiveRunsListed'
  BY DEF LiveRunsListed, records, how
<1>9. QED BY <1>1, <1>2, <1>3, <1>4, <1>5, <1>6, <1>7, <1>8

\* The next worktree of a parallel batch is promoted, or only removed.
LEMMA PromoteInv == ASSUME IInv, Promote PROVE IInv'
<1> USE DEF Promote, IInv
<1>a. next \in Child
  BY DEF TypeOK, Child
<1>b. \/ UNCHANGED <<main, spoilt>>
      \/ child[next] = "ok" /\ next \notin barred /\ PromoteTree(next)
  BY <1>a DEF Barring
<1>1. TypeOK'
  <2>1. main' \in Tree /\ spoilt' \subseteq Child
    <3>1. CASE UNCHANGED <<main, spoilt>>
      BY <3>1 DEF TypeOK
    <3>2. CASE PromoteTree(next)
      <4>1. main' \in Tree /\ spoilt' \in {spoilt, spoilt \cup {next}}
        BY <1>a, <3>2, PromoteTreeValues
      <4>2. QED BY <1>a, <4>1 DEF TypeOK
    <3>3. QED BY <1>b, <3>1, <3>2
  <2>2. next' \in 1 .. NumTasks + 1 /\ trees' = (next .. NumTasks) \ {next}
    BY <1>a, BatchAssumption DEF TypeOK
  <2>3. trees' = next' .. NumTasks
    BY <1>a, <2>2 DEF Child
  <2>4. QED BY <2>1, <2>2, <2>3 DEF TypeOK, how, tokens, records, bounds
<1>2. Settled' /\ Standing' /\ Barring' /\ Complete'
  BY DEF Settled, Standing, Barring, Complete, TypeOK, how, tokens
<1>3. Seeds' /\ LiveRunsListed'
  BY DEF Seeds, Reached, LiveRunsListed, records, how, tokens
<1>4. OnlySuccessIsPromoted'
  <2>1. ASSUME NEW p \in Path, main'[p] \in Child, main'[p] # main[p]
        PROVE  child[next] = "ok" /\ next \notin barred /\ main'[p] = tree[next][p]
    BY <1>a, <1>b, <2>1, PromoteTreeValues DEF Absent, Child
  <2>2. QED BY <1>a, <2>1 DEF OnlySuccessIsPromoted, Isolated, Seeds, Reached, how, tokens
<1>5. ASSUME next \notin barred \cup spoilt', child[next] = "ok", NEW p \in Path
      PROVE  main'[p] = IF tree[next][p] # Absent THEN tree[next][p]
                        ELSE IF head[p] # Absent THEN Absent ELSE main[p]
  <2>1. ~ stop
    BY <1>a, <1>5 DEF Barring
  <2>2. PromoteTree(next)
    BY <1>5, <2>1
  <2>3. QED BY <1>a, <1>5, <2>2, PromoteTreeValues
<1>6. LastSoFar'
  <2> SUFFICES ASSUME NEW k \in Child, k \notin barred \cup spoilt', k < next + 1,
                      child[k] = "ok", \A j \in k + 1 .. next : child[j] # "ok",
                      NEW p \in Path, tree[k][p] # Absent \/ head[p] # Absent
               PROVE  main'[p] \in {tree[k][p], Edited}
    BY DEF LastSoFar, TypeOK, how, tokens
  <2>1. CASE k = next
    BY <1>5, <2>1 DEF Absent
  <2>2. CASE k < next
    <3>1. child[next] # "ok"
      BY <1>a, <2>2, next \in k + 1 .. next DEF Child
    <3>2. UNCHANGED <<main, spoilt>>
      BY <1>b, <3>1
    <3>3. main[p] \in {tree[k][p], Edited}
      BY <2>2, <3>2 DEF LastSoFar, TypeOK, Child
    <3>4. QED BY <3>2, <3>3
  <2>3. QED BY <1>a, <2>1, <2>2, BatchAssumption DEF Child
<1>7. NewSoFar'
  <2> SUFFICES ASSUME NEW k \in Child, k \notin barred \cup spoilt', NEW p \in Path,
                      HandedOver(k)', Alone(k, p)'
               PROVE  main'[p] \in {k, Edited}
    BY DEF NewSoFar, tokens
  <2>1. k < next + 1 /\ child[k] = "ok" /\ tree[k][p] = k /\ head[p] = Absent
    BY DEF Alone, HandedOver, how
  <2>2. CASE k = next
    BY <1>5, <2>1, <2>2 DEF Absent, Child
  <2>3. CASE k < next
    <3>1. k \notin spoilt
      BY <1>a, <1>b, <2>3, PromoteTreeValues DEF Child
    <3>2. Alone(k, p)
      BY <1>a DEF Alone, HandedOver, Child, how
    <3>3. main[p] \in {k, Edited}
      BY <2>3, <3>1, <3>2 DEF HandedOver, NewSoFar
    <3>4. child[next] = "ok" => tree[next][p] = Absent
      BY <1>a, <2>3 DEF Alone, HandedOver, Child, how
    <3>5. main'[p] = main[p]
      BY <1>a, <1>b, <2>1, <3>4, PromoteTreeValues
    <3>6. QED BY <3>3, <3>5
  <2>4. QED BY <1>a, <2>1, <2>2, <2>3 DEF Child
<1>8. QED BY <1>1, <1>2, <1>3, <1>4, <1>6, <1>7

\* The batch is over when its worktrees have been looked at.
LEMMA FinalizeInv == ASSUME IInv, Finalize PROVE IInv'
<1> USE DEF Finalize, IInv
<1>a. /\ Record(Parent, EndState(Parent, \A i \in Child : child[i] = "ok"))
      /\ Parent \in Run
  BY DEF Run
<1>1. TypeOK'
  <2>1. \A i \in trees : i \in expired /\ child[i] = "dropped"
    <3>1. mode = "parallel" => next .. NumTasks = {}
      BY BatchAssumption DEF TypeOK
    <3>2. QED BY <3>1, BatchAssumption DEF TypeOK, Standing
  <2>2. QED BY <1>a, <2>1, RecordType, EndStateType DEF TypeOK, how, files, tokens, bounds
<1>2. Settled' /\ Standing' /\ Barring' /\ Complete'
  BY BatchAssumption DEF Settled, Standing, Barring, Complete, TypeOK, how, files, tokens
<1>3. Seeds' /\ OnlySuccessIsPromoted' /\ LastSoFar'
  BY DEF Seeds, Reached, OnlySuccessIsPromoted, Isolated, LastSoFar, how, files, tokens
<1>4. NewSoFar'
  BY DEF NewSoFar, HandedOver, Alone, how, files, tokens
<1>5. LiveRunsListed'
  BY DEF LiveRunsListed, Settled
<1>6. QED BY <1>1, <1>2, <1>3, <1>4, <1>5

\* A cancellation that comes before the promotions bars them; a later one bars
\* nothing.
LEMMA CancelBars ==
  ASSUME IInv, NEW r \in Run, Cancel({r}),
         UNCHANGED <<how, files, phase, next, stop, child, expired, spoilt>>
  PROVE  /\ cancelled' \subseteq Run /\ barred' \subseteq Child
         /\ Settled' /\ Standing' /\ Barring' /\ Complete' /\ Seeds'
         /\ OnlySuccessIsPromoted' /\ LastSoFar' /\ NewSoFar'
<1> USE DEF IInv, Cancel
<1>1. cancelled' \subseteq Run /\ barred \subseteq barred' /\ barred' \subseteq Child
  BY DEF TypeOK, Unpromoted
<1>2. Settled' /\ Standing' /\ Complete'
  BY DEF Settled, Standing, Complete, Unpromoted, how, files
<1>3. Barring'
  BY <1>1 DEF Barring, Unpromoted, how, files
<1>4. Seeds'
  <2>1. \A j : Reached(j) => Reached(j)'
    BY DEF Reached, Unpromoted, how, files
  <2>2. QED BY <2>1 DEF Seeds, how, files
<1>5. OnlySuccessIsPromoted'
  <2>1. CASE mode = "wave"
    BY <1>4, <2>1 DEF Seeds, Reached, OnlySuccessIsPromoted, how, files
  <2>2. CASE mode = "parallel" /\ phase \in {"setup", "running", "dropped"}
    BY <2>2 DEF Settled, OnlySuccessIsPromoted, how, files
  <2>3. CASE mode = "parallel" /\ phase \in {"promoting", "over"}
    <3>1. barred' = barred
      BY <2>3 DEF Unpromoted
    <3>2. QED BY <3>1 DEF OnlySuccessIsPromoted, Isolated, how, files
  <2>4. QED BY <2>1, <2>2, <2>3 DEF OnlySuccessIsPromoted, Isolated, TypeOK, how
<1>6. LastSoFar' /\ NewSoFar'
  BY <1>1 DEF LastSoFar, NewSoFar, HandedOver, Alone, how, files
<1>7. QED BY <1>1, <1>2, <1>3, <1>4, <1>5, <1>6

\* The cancellation of the batch evicts no record.
LEMMA AbortInv == ASSUME IInv, Abort PROVE IInv'
<1> USE DEF Abort, IInv
<1>a. Parent \in Run
  BY DEF Run
<1>1. TypeOK'
  BY <1>a, CancelBars DEF TypeOK, how, files, records, bounds
<1>2. LiveRunsListed'
  BY DEF LiveRunsListed, records, how
<1>3. QED BY <1>a, <1>1, <1>2, CancelBars

\* A batch that is given up promotes nothing.
LEMMA ForceEndInv == ASSUME IInv, ForceEnd PROVE IInv'
<1> USE DEF ForceEnd, IInv
<1>1. TypeOK'
  BY DEF TypeOK, how, files, tokens, records, bounds
<1>2. Settled' /\ Standing' /\ Barring' /\ Complete' /\ LastSoFar'
  BY DEF Settled, Standing, Barring, Complete, LastSoFar, how, files, tokens
<1>3. Seeds' /\ OnlySuccessIsPromoted'
  BY DEF Seeds, Reached, Settled, OnlySuccessIsPromoted, Isolated, how, files, tokens
<1>4. NewSoFar'
  BY DEF NewSoFar, HandedOver, how, files
<1>5. LiveRunsListed'
  BY DEF LiveRunsListed, TypeOK, records, how
<1>6. QED BY <1>1, <1>2, <1>3, <1>4, <1>5

\* An interrupt cancels a token and marks a record, and evicts none.
LEMMA InterruptInv == ASSUME IInv, NEW r \in Run, Interrupt(r) PROVE IInv'
<1> USE DEF Interrupt, IInv
<1>a. PICK s \in Named(r) : Cancel({s}) /\ runs' = [runs EXCEPT ![s] = "paused"]
  OBVIOUS
<1>b. s \in Run
  BY DEF Named, Run
<1>c. /\ cancelled' \subseteq Run /\ barred' \subseteq Child
      /\ Settled' /\ Standing' /\ Barring' /\ Complete' /\ Seeds'
      /\ OnlySuccessIsPromoted' /\ LastSoFar' /\ NewSoFar'
  BY <1>a, <1>b, CancelBars
<1>1. TypeOK'
  <2>1. interrupts' \in 0 .. MaxInterrupts
    BY BatchAssumption DEF TypeOK
  <2>2. QED BY <1>a, <1>b, <1>c, <2>1 DEF TypeOK, how, files
<1>2. LiveRunsListed'
  BY <1>a, <1>b DEF LiveRunsListed, TypeOK, Run, how
<1>3. QED BY <1>c, <1>1, <1>2

\* An editor beside the batch leaves its own content.
LEMMA EditInv == ASSUME IInv, NEW p \in Path, Edit(p) PROVE IInv'
<1> USE DEF Edit, IInv
<1>1. TypeOK'
  BY BatchAssumption DEF TypeOK, Tree, Content, how, tokens, records
<1>2. Settled' /\ OnlySuccessIsPromoted'
  BY DEF Settled, OnlySuccessIsPromoted, Isolated, TypeOK, Tree, Edited, Child, how, tokens
<1>3. Seeds'
  BY DEF Seeds, Reached, TypeOK, Tree, Edited, Child, how, tokens
<1>4. Standing' /\ Barring' /\ Complete' /\ LiveRunsListed'
  BY DEF Standing, Barring, Complete, LiveRunsListed, records, how, tokens
<1>5. LastSoFar' /\ NewSoFar'
  BY DEF LastSoFar, NewSoFar, HandedOver, Alone, TypeOK, Tree, how, tokens
<1>6. QED BY <1>1, <1>2, <1>3, <1>4, <1>5

\* Every step keeps the invariant.
LEMMA StepInv == IInv /\ [Next]_vars => IInv'
<1> SUFFICES ASSUME IInv, [Next]_vars PROVE IInv'
  OBVIOUS
<1>1. CASE BatchStep
  BY <1>1, SetUpInv, SetUpFailsInv, DecideInv, PromoteInv, FinalizeInv DEF BatchStep
<1>2. CASE \E i \in Child : ChildStep(i) \/ Expire(i) \/ \E p \in Path : Touch(i, p)
  BY <1>2, RefuseInv, StartInv, FinishInv, HandsInv, GiveUpInv, ExpireInv, TouchInv DEF ChildStep
<1>3. CASE Abort \/ ForceEnd \/ (\E r \in Run : Interrupt(r)) \/ \E p \in Path : Edit(p)
  BY <1>3, AbortInv, ForceEndInv, InterruptInv, EditInv
<1>4. CASE UNCHANGED vars
  BY <1>4 DEF IInv, TypeOK, Settled, Standing, Barring, Complete, Seeds, Reached,
     OnlySuccessIsPromoted, Isolated, LastSoFar, NewSoFar, HandedOver, Alone, LiveRunsListed,
     vars, how, files, tokens, records, bounds
<1>5. QED BY <1>1, <1>2, <1>3, <1>4 DEF Next

\* The invariant holds in every reachable state.
LEMMA Inductive == Spec => []IInv
  BY InitInv, StepInv, PTL DEF Spec

-----------------------------------------------------------------------------
(* The theorems *)

\* Every variable keeps its type; the worktrees a batch leaves when it is over
\* are those of the runs of a wave that were dropped at their time limit
\* (run_parallel, execute).
THEOREM TypeCorrect == Spec => []TypeOK
<1>1. IInv => TypeOK
  BY DEF IInv
<1>2. QED BY <1>1, Inductive, PTL

\* What reaches the workspace from a worktree is the work of a child that
\* succeeded, and that neither its batch nor its time limit had cancelled before
\* the worktree was looked at.
THEOREM SuccessOnly == Spec => []OnlySuccessIsPromoted
<1>1. IInv => OnlySuccessIsPromoted
  BY DEF IInv
<1>2. QED BY <1>1, Inductive, PTL

\* The successful child with the greatest index decides its files, in whatever
\* order the children of a parallel batch end and wherever the promotions
\* before it failed, unless its own did.
THEOREM LastDecides == Spec => []LastIndexDecides
<1>1. IInv => LastIndexDecides
  <2> SUFFICES ASSUME IInv, mode = "parallel", phase = "over",
                      NEW k \in Child, k \notin barred \cup spoilt, child[k] = "ok",
                      \A j \in k + 1 .. NumTasks : child[j] # "ok",
                      NEW p \in Path, tree[k][p] # Absent \/ head[p] # Absent
               PROVE  main[p] \in {tree[k][p], Edited}
    BY DEF LastIndexDecides
  <2>1. next = NumTasks + 1
    BY DEF IInv, Complete
  <2>2. QED BY <2>1, BatchAssumption DEF IInv, LastSoFar, Child
<1>2. QED BY <1>1, Inductive, PTL

\* Promoting its siblings does not remove a file that one child made and that
\* its own promotion brought over.
THEOREM NewFilesStay == Spec => []NewFilesKept
<1>1. IInv => NewFilesKept
  <2> SUFFICES ASSUME IInv, Isolated, phase = "over",
                      NEW i \in Child, i \notin barred \cup spoilt, NEW p \in Path, child[i] = "ok",
                      tree[i][p] = i, head[p] = Absent,
                      \A j \in Child \ {i} : child[j] = "ok" => tree[j][p] = Absent
               PROVE  main[p] \in {i, Edited}
    BY DEF NewFilesKept
  <2>1. HandedOver(i)
    BY BatchAssumption DEF IInv, TypeOK, Complete, HandedOver, Isolated, Child
  <2>2. Alone(i, p)
    BY DEF Alone
  <2>3. QED BY <2>1, <2>2 DEF IInv, NewSoFar
<1>2. QED BY <1>1, Inductive, PTL

\* The record of a run at work is never evicted.
THEOREM LiveStaysListed == Spec => []LiveRunsListed
<1>1. IInv => LiveRunsListed
  BY DEF IInv
<1>2. QED BY <1>1, Inductive, PTL
=============================================================================
