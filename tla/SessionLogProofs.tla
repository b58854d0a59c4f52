-------------------------- MODULE SessionLogProofs --------------------------
(***************************************************************************)
(* What holds of the session journal for any number of tasks, calls,       *)
(* rewrites, runs and power failures: an undisturbed record is kept, an     *)
(* undisturbed journal is the conversation in memory, and the runs it       *)
(* reports as open are open.                                                *)
(***************************************************************************)
EXTENDS SessionLog, TLAPS, WellFoundedInduction, NaturalsInduction, SequenceTheorems

(* No file is one the core cannot load: none of a newer version, and none with a   *)
(* character that was cut, now or by a power failure.                              *)
FilesLoad ==
    /\ ~CutsCharacters
    /\ \A f \in OldFiles : f.missing \/ (Readable(f) /\ ~TooNew(f))

-----------------------------------------------------------------------------
(* The inductive invariant. *)

RunIds == Tasks \X Nat
MessageSet == [kind : {"message"}, id : Nat]
RunSet == [kind : {"run"}, run : RunIds, state : RunStates]
HeaderSet == [kind : {"header"}, version : Nat]
FragmentSet == [kind : {"fragment"}, of : RunSet]
RecordSet == MessageSet \cup RunSet
Line == RecordSet \cup HeaderSet \cup FragmentSet \cup {Junk}

Places == {"idle", "create", "boundary", "message", "head", "tail", "rename", "dirsync"}

(* A file that loads: its first line is not the header of a newer version. *)
LoadsLines(lines) ==
    (lines # <<>> /\ lines[1].kind = "header") => lines[1].version \leq SESSION_VERSION

FileSet == [lines : Seq(Line), open : BOOLEAN, missing : BOOLEAN]
Sound(f) ==
    /\ f \in FileSet
    /\ f.missing => f = NoFile
    /\ f.open => f.lines # <<>>

FileOK ==
    /\ Sound(file)
    /\ LoadsLines(file.lines)
    /\ Ordered(file.lines)
    /\ durable \in 0 .. Len(file.lines)

StateOK ==
    /\ gen \in Nat /\ boot \in Nat /\ down \in BOOLEAN
    /\ mem \in Seq(Nat)
    /\ life \in [Tasks -> {"new", "started", "over"}]
    /\ written \in [messages : Nat, rewrites : Nat, runs : Nat]
    /\ \A r \in pending : r \in RunIds /\ r[2] < boot
    /\ settled \subseteq RecordSet /\ exposed \subseteq RecordSet
    /\ firm \subseteq settled

JobsOK ==
    /\ job \in [Tasks -> [at : Places, rec : RecordSet \cup {None}, gen : Nat, keep : Seq(RunSet),
                          old : FileSet]]
    /\ \A t \in Tasks :
        /\ job[t].at = "idle" => job[t].rec = None
        /\ job[t].at = "message" => job[t].rec \in MessageSet
        /\ job[t].at \in {"head", "tail"} => job[t].rec \in RunSet
        /\ job[t].at \in {"create", "boundary"} => job[t].rec # None
        /\ job[t].at \in {"rename", "dirsync"} => t = Turn /\ job[t].rec = None
        /\ job[t].at \in {"boundary", "message", "head", "tail"} => ~file.missing
        /\ job[t].at # "idle" => ~down /\ pending = {}

(* A message is the turn's, a run record is that of the task's own run. *)
OwnRecords ==
    \A t \in Tasks :
        /\ IsMessage(job[t].rec) => t = Turn
        /\ IsRun(job[t].rec) =>
              /\ job[t].rec.run = RunOf(t)
              /\ life[t] = IF job[t].rec.state = "started" THEN "started" ELSE "over"

(* The runs of this process that have records are those that were started, and     *)
(* none that is not over has a record of its end.                                  *)
Known(recs, b, d, f) ==
    \A l \in recs : IsRun(l) =>
        /\ l.run[2] \leq b
        /\ \A t \in Tasks : (~d /\ l.run = <<t, b>>) =>
              f[t] # "new" /\ (l.state \in EndStates => f[t] = "over")

RunsKnown ==
    /\ Known(Records(file.lines), boot, down, life)
    /\ job[Turn].at = "rename" => Known(ToSet(job[Turn].keep), boot, down, life)
    /\ job[Turn].at = "dirsync" => Known(Records(job[Turn].old.lines), boot, down, life)

(* Records that no call overlapped are in the file, those that were synced before  *)
(* the mark of what a power failure leaves.                                        *)
Kept ==
    /\ UndisturbedKept
    /\ \A r \in firm \ exposed : \E i \in 1 .. durable : file.lines[i] = r

(* A call that found no file truncates the one another call has made. *)
CreateOverlaps ==
    (file.missing \/ \E t \in Tasks : job[t].at = "create") => settled \subseteq exposed

(* Between the boundary and the write of a record, the last line is closed or was  *)
(* opened by an overlapping call, and it is no record.                             *)
OpenedByOther ==
    \A t \in Tasks : (job[t].at \in {"message", "head"} /\ file.open) => job[t].rec \in exposed
OpenIsNoRecord ==
    \A t \in Tasks : (job[t].at \in {"message", "head", "tail"} /\ file.open) =>
        Last(file.lines) \notin RecordSet

(* The head of an undisturbed run record is the last line until its tail follows. *)
HeadIsLast ==
    \A t \in Tasks : (job[t].at = "tail" /\ job[t].rec \notin exposed) =>
        job[t].gen = gen /\ file.open /\ Last(file.lines) = Fragment(job[t].rec)

(* The undisturbed run records are among those a rewrite keeps; until its rename   *)
(* is synced, what was synced before is in the old file as well.                   *)
RewriteKeeps ==
    /\ job[Turn].at = "rename" =>
        /\ \A r \in settled \ exposed : IsRun(r) => r \in ToSet(job[Turn].keep)
        /\ Ordered(job[Turn].keep)
    /\ job[Turn].at = "dirsync" =>
        /\ Sound(job[Turn].old)
        /\ firm \ exposed \subseteq Records(job[Turn].old.lines)
        /\ LoadsLines(job[Turn].old.lines)
        /\ Ordered(job[Turn].old.lines)
        /\ \A r \in settled \ exposed :
              IsMessage(r) => \E i \in 1 .. durable : file.lines[i] = r

(* The runs that were started and not ended. *)
Open(recs) ==
    {r \in {l.run : l \in {l \in recs : IsRun(l)}} :
        RunRecord(r, "started") \in recs /\ \A s \in EndStates : RunRecord(r, s) \notin recs}

OpenAreMarked ==
    ~down =>
        /\ \A r \in Open(Records(file.lines)) : r[2] # boot => r \in pending
        /\ job[Turn].at = "rename" => \A r \in Open(ToSet(job[Turn].keep)) : r[2] = boot

(* The messages in the file are those in memory, but for the one being appended. *)
Undisturbed == ~down /\ ~\E r \in exposed : IsMessage(r)
Appending == IsMessage(job[Turn].rec)
MemoryIsJournal ==
    Undisturbed =>
        /\ Appending => mem = Append(Messages(file.lines), job[Turn].rec.id)
        /\ (~Appending /\ job[Turn].at # "rename") => mem = Messages(file.lines)
        /\ (file.missing \/ \E t \in Tasks : job[t].at = "create") =>
              Messages(file.lines) = <<>> /\ (~Appending => mem = <<>>)

IInv == FileOK /\ StateOK /\ JobsOK /\ OwnRecords /\ RunsKnown /\ Kept /\ CreateOverlaps /\ OpenedByOther
        /\ OpenIsNoRecord /\ HeadIsLast /\ RewriteKeeps /\ OpenAreMarked /\ MemoryIsJournal

(* t is s with the record x written, or with something that is no record. *)
Written(s, t, x) ==
    /\ t \in Seq(Line) /\ Len(s) \leq Len(t)
    /\ \A i \in DOMAIN s : s[i] \in RecordSet => t[i] = s[i]
    /\ Records(t) = IF x \in RecordSet THEN Records(s) \cup {x} ELSE Records(s)
    /\ Messages(t) = IF IsMessage(x) THEN Append(Messages(s), x.id) ELSE Messages(s)
    /\ (Ordered(s) /\ (IsRun(x) => x.state \in EndStates
                               \/ \A e \in EndStates : RunRecord(x.run, e) \notin Records(s)))
         => Ordered(t)
    /\ LoadsLines(s) => LoadsLines(t)

-----------------------------------------------------------------------------
(* Induction over data, with a set in the place of the predicate. *)

(* A set of numbers with 0 and the successor of each of its members has them all. *)
LEMMA NatSetInduction ==
  ASSUME NEW P, 0 \in P, \A n \in Nat : n \in P => n + 1 \in P
  PROVE  Nat \subseteq P
<1> DEFINE T == Nat \ P
<1>1. SUFFICES ASSUME T # {} PROVE FALSE
  OBVIOUS
<1>2. PICK n \in T : \A m \in T : <<m, n>> \notin OpToRel(<, Nat)
  <2>1. T \subseteq Nat
    OBVIOUS
  <2>2. QED BY <1>1, <2>1, WFMin, NatLessThanWellFounded, Zenon
<1>3. n \in Nat /\ n \notin P /\ \A m \in T : ~(m < n)
  BY <1>2 DEF OpToRel
<1>4. n # 0 /\ n - 1 \in Nat /\ (n - 1) + 1 = n /\ n - 1 < n
  BY <1>3
<1>5. n - 1 \in P
  BY <1>3, <1>4
<1>6. QED BY <1>3, <1>4, <1>5

(* A non-empty sequence is its front and its last member. *)
LEMMA FrontAndLast ==
  ASSUME NEW S, NEW s \in Seq(S), s # <<>>
  PROVE  /\ Front(s) \in Seq(S) /\ Last(s) \in S /\ s = Append(Front(s), Last(s))
         /\ Len(Front(s)) = Len(s) - 1 /\ Last(s) = s[Len(s)]
         /\ \A i \in 1 .. Len(s) - 1 : Front(s)[i] = s[i]
<1>1. Len(s) \in Nat /\ Len(s) # 0 /\ Len(s) \in DOMAIN s
  OBVIOUS
<1>2. Front(s) \in Seq(S) /\ Len(Front(s)) = Len(s) - 1 /\ \A i \in 1 .. Len(s) - 1 : Front(s)[i] = s[i]
  <2>1. \A i \in 1 .. Len(s) - 1 : s[i] \in S
    OBVIOUS
  <2>2. 1 \in Int /\ Len(s) - 1 \in Int /\ 0 \leq Len(s) - 1
    BY <1>1
  <2> DEFINE q == SubSeq(s, 1, Len(s) - 1)
  <2>3. /\ q \in Seq(S) /\ Len(q) = IF 1 \leq Len(s) - 1 THEN Len(s) - 1 - 1 + 1 ELSE 0
        /\ \A i \in 1 .. Len(s) - 1 - 1 + 1 : q[i] = s[1 + i - 1]
    BY <2>1, <2>2, SubSeqProperties
  <2> HIDE DEF q
  <2>4. Len(s) - 1 - 1 + 1 = Len(s) - 1 /\ \A i \in 1 .. Len(s) - 1 : 1 + i - 1 = i
    BY <2>2
  <2>5. \A i \in 1 .. Len(s) - 1 : q[i] = s[i]
    BY <2>3, <2>4
  <2>6. Len(q) = Len(s) - 1
    <3>1. CASE 1 \leq Len(s) - 1
      BY <2>3, <2>4, <3>1
    <3>2. CASE ~(1 \leq Len(s) - 1)
      <4>1. Len(s) - 1 = 0
        <5>1. ASSUME NEW n \in Nat, n # 0, ~(1 \leq n - 1) PROVE n - 1 = 0
          BY <5>1
        <5>2. QED BY <1>1, <3>2, <5>1
      <4>2. QED BY <2>3, <3>2, <4>1
    <3>3. QED BY <3>1, <3>2
  <2>7. QED BY <2>3, <2>5, <2>6 DEF q, Front
<1>3. Last(s) = s[Len(s)] /\ Last(s) \in S
  BY <1>1 DEF Last
<1>4. s = Append(Front(s), Last(s))
  BY <1>1, <1>2, <1>3
<1>5. QED BY <1>2, <1>3, <1>4

(* A set of sequences with the empty one and every extension of each of its        *)
(* members has them all.                                                           *)
LEMMA SeqInduction ==
  ASSUME NEW S, NEW P, <<>> \in P, \A s \in Seq(S), x \in S : s \in P => Append(s, x) \in P
  PROVE  Seq(S) \subseteq P
<1> DEFINE Q == {n \in Nat : \A s \in Seq(S) : Len(s) = n => s \in P}
<1>1. 0 \in Q
  <2>1. ASSUME NEW s \in Seq(S), Len(s) = 0 PROVE s \in P
    <3>1. s = <<>>
      BY <2>1
    <3>2. QED BY <3>1
  <2>2. QED BY <2>1
<1>2. ASSUME NEW n \in Nat, n \in Q PROVE n + 1 \in Q
  <2>1. ASSUME NEW s \in Seq(S), Len(s) = n + 1 PROVE s \in P
    <3>1. s # <<>>
      BY <2>1
    <3>2. Front(s) \in Seq(S) /\ Last(s) \in S /\ s = Append(Front(s), Last(s)) /\ Len(Front(s)) = n
      BY <2>1, <3>1, FrontAndLast
    <3>3. Front(s) \in P
      BY <1>2, <3>2
    <3>4. QED BY <3>2, <3>3
  <2>2. QED BY <2>1
<1> HIDE DEF Q
<1>3. Nat \subseteq Q
  BY <1>1, <1>2, NatSetInduction, Zenon
<1>4. QED BY <1>3 DEF Q

Follows(f, N, S, b, g) ==
    /\ f \in [0 .. N -> S]
    /\ f[0] = b
    /\ \A i \in 1 .. N : f[i] = g[<<f[i - 1], i>>]

(* A function on 0 .. N is given by its value at 0 and by its value at each next   *)
(* argument as a function of the one before.                                       *)
LEMMA Recursion ==
  ASSUME NEW N \in Nat, NEW S, NEW b \in S, NEW g \in [S \X (1 .. N) -> S]
  PROVE  \E f : Follows(f, N, S, b, g)
<1> DEFINE Ok(n) == \E f \in [0 .. n -> S] : f[0] = b /\ \A i \in 1 .. n : f[i] = g[<<f[i - 1], i>>]
           P == {n \in Nat : n \leq N => Ok(n)}
<1>1. Ok(0)
  <2>1. [i \in 0 .. 0 |-> b] \in [0 .. 0 -> S]
    OBVIOUS
  <2>2. [i \in 0 .. 0 |-> b][0] = b /\ \A i \in 1 .. 0 : FALSE
    OBVIOUS
  <2>3. QED BY <2>1, <2>2
<1>2. ASSUME NEW n \in Nat, n < N, Ok(n) PROVE Ok(n + 1)
  <2>1. PICK f \in [0 .. n -> S] : f[0] = b /\ \A i \in 1 .. n : f[i] = g[<<f[i - 1], i>>]
    BY <1>2
  <2> DEFINE v == g[<<f[n], n + 1>>]
             h == [i \in 0 .. n + 1 |-> IF i \leq n THEN f[i] ELSE v]
  <2>2. v \in S
    <3>1. f[n] \in S /\ n + 1 \in 1 .. N
      BY <1>2, <2>1
    <3>2. <<f[n], n + 1>> \in S \X (1 .. N)
      BY <3>1
    <3>3. QED BY <3>2
  <2> HIDE DEF v
  <2>3. h \in [0 .. n + 1 -> S]
    BY <2>2
  <2>4. h[0] = b
    BY <2>1
  <2>5. ASSUME NEW i \in 1 .. n PROVE h[i] = g[<<h[i - 1], i>>]
    <3>1. i - 1 \in 0 .. n /\ i \in 0 .. n
      OBVIOUS
    <3>2. h[i] = f[i] /\ h[i - 1] = f[i - 1]
      BY <3>1
    <3>3. QED BY <2>1, <3>2
  <2>6. h[n + 1] = g[<<h[n], n + 1>>]
    <3>1. h[n + 1] = v /\ h[n] = f[n]
      OBVIOUS
    <3>2. QED BY <3>1 DEF v
  <2> HIDE DEF h
  <2>7. ASSUME NEW i \in 1 .. n + 1 PROVE h[i] = g[<<h[i - 1], i>>]
    <3>1. CASE i = n + 1
      <4>1. i - 1 = n
        BY <3>1
      <4>2. QED BY <3>1, <4>1, <2>6
    <3>2. CASE i # n + 1
      BY <3>2, <2>5
    <3>3. QED BY <3>1, <3>2
  <2>8. QED BY <2>3, <2>4, <2>7
<1> HIDE DEF Ok
<1>3. 0 \in P /\ \A n \in Nat : n \in P => n + 1 \in P
  <2>1. ASSUME NEW n \in Nat, n \in P PROVE n + 1 \in P
    <3>1. n + 1 \leq N => n < N /\ Ok(n)
      BY <2>1
    <3>2. QED BY <1>2, <3>1
  <2>2. QED BY <1>1, <2>1
<1> HIDE DEF P
<1>4. Nat \subseteq P
  BY <1>3, NatSetInduction, Zenon
<1>5. Ok(N)
  BY <1>4 DEF P
<1>6. QED BY <1>5 DEF Ok, Follows

-----------------------------------------------------------------------------
(* What the operators on lines do. *)

(* OfKind goes through the lines one by one. *)
IsParts(part, lines, kind) ==
    /\ part \in [0 .. Len(lines) -> Seq(Line)]
    /\ part[0] = <<>>
    /\ \A i \in 1 .. Len(lines) :
         part[i] = IF lines[i].kind = kind THEN Append(part[i - 1], lines[i]) ELSE part[i - 1]
    /\ OfKind(lines, kind) = part[Len(lines)]

(* The positions' prefixes are what the recursion says they are. *)
LEMMA OfKindParts ==
  ASSUME NEW lines \in Seq(Line), NEW kind
  PROVE  \E part : IsParts(part, lines, kind)
<1> DEFINE N == Len(lines)
           g == [p \in Seq(Line) \X (1 .. N) |->
                   IF lines[p[2]].kind = kind THEN Append(p[1], lines[p[2]]) ELSE p[1]]
           F(f) == [i \in 0 .. N |-> IF i = 0 THEN <<>>
                                     ELSE IF lines[i].kind = kind THEN Append(f[i - 1], lines[i])
                                     ELSE f[i - 1]]
<1>1. g \in [Seq(Line) \X (1 .. N) -> Seq(Line)] /\ N \in Nat /\ <<>> \in Seq(Line)
  OBVIOUS
<1>2. ASSUME NEW s \in Seq(Line), NEW i \in 1 .. N
      PROVE  g[<<s, i>>] = IF lines[i].kind = kind THEN Append(s, lines[i]) ELSE s
  OBVIOUS
<1> HIDE DEF g, N
<1>3. PICK f \in [0 .. N -> Seq(Line)] : f[0] = <<>> /\ \A i \in 1 .. N : f[i] = g[<<f[i - 1], i>>]
  <2>1. N \in Nat /\ <<>> \in Seq(Line) /\ g \in [Seq(Line) \X (1 .. N) -> Seq(Line)]
    BY <1>1
  <2>2. \E f : Follows(f, N, Seq(Line), <<>>, g)
    BY <2>1, Recursion
  <2>3. QED BY <2>2 DEF Follows
<1>4. ASSUME NEW i \in 1 .. N
      PROVE  f[i] = IF lines[i].kind = kind THEN Append(f[i - 1], lines[i]) ELSE f[i - 1]
  <2>1. f[i - 1] \in Seq(Line)
    <3>1. i - 1 \in 0 .. N
      BY <1>1
    <3>2. QED BY <3>1, <1>3
  <2>2. QED BY <1>2, <1>3, <2>1
<1>5. f = F(f)
  <2>1. ASSUME NEW i \in 0 .. N
        PROVE  f[i] = IF i = 0 THEN <<>> ELSE IF lines[i].kind = kind THEN Append(f[i - 1], lines[i])
                      ELSE f[i - 1]
    <3>1. CASE i = 0
      BY <3>1, <1>3
    <3>2. CASE i # 0
      <4>1. i \in 1 .. N
        BY <1>1, <3>2
      <4>2. QED BY <1>4, <3>2, <4>1
    <3>3. QED BY <3>1, <3>2
  <2>2. f = [i \in 0 .. N |-> f[i]]
    BY <1>3
  <2>3. QED BY <2>1, <2>2
<1> DEFINE h == CHOOSE h : h = F(h)
<1>6. h = F(h)
  BY <1>5
<1>7. h[N] = OfKind(lines, kind)
  BY DEF OfKind, N
<1> HIDE DEF h
<1>8. h[0] = <<>>
  BY <1>1, <1>6
<1>9. ASSUME NEW i \in 1 .. N
      PROVE  h[i] = IF lines[i].kind = kind THEN Append(h[i - 1], lines[i]) ELSE h[i - 1]
  <2>1. i \in 0 .. N /\ i # 0
    BY <1>1
  <2>2. h[i] = IF i = 0 THEN <<>> ELSE IF lines[i].kind = kind THEN Append(h[i - 1], lines[i])
               ELSE h[i - 1]
    BY <1>6, <2>1
  <2>3. QED BY <2>1, <2>2
<1> DEFINE P == {n \in Nat : n \leq N => h[n] = f[n]}
<1>10. 0 \in P /\ \A n \in Nat : n \in P => n + 1 \in P
  <2>1. ASSUME NEW n \in Nat, n \in P, n + 1 \leq N PROVE h[n + 1] = f[n + 1]
    <3>1. n + 1 \in 1 .. N /\ (n + 1) - 1 = n /\ h[n] = f[n]
      BY <1>1, <2>1
    <3>2. QED BY <1>4, <1>9, <3>1
  <2>2. QED BY <1>3, <1>8, <2>1
<1>11. Nat \subseteq P
  <2> HIDE DEF P
  <2>1. QED BY <1>10, NatSetInduction, Zenon
<1>12. h[N] = f[N]
  BY <1>1, <1>11
<1>13. QED BY <1>3, <1>4, <1>7, <1>12 DEF N, IsParts

(* No lines, no lines of a kind. *)
LEMMA OfKindEmpty == ASSUME NEW kind PROVE OfKind(<<>>, kind) = <<>>
<1>1. <<>> \in Seq(Line) /\ Len(<<>>) = 0
  OBVIOUS
<1>2. PICK part : IsParts(part, <<>>, kind)
  BY <1>1, OfKindParts
<1>3. QED BY <1>1, <1>2 DEF IsParts

(* One line more is one of its kind more. *)
LEMMA OfKindAppend ==
  ASSUME NEW s \in Seq(Line), NEW x \in Line, NEW kind
  PROVE  /\ OfKind(s, kind) \in Seq(Line)
         /\ OfKind(Append(s, x), kind) =
              IF x.kind = kind THEN Append(OfKind(s, kind), x) ELSE OfKind(s, kind)
<1> DEFINE N == Len(s)  t == Append(s, x)
<1>1. t \in Seq(Line) /\ Len(t) = N + 1 /\ t[N + 1] = x /\ N \in Nat /\ \A i \in 1 .. N : t[i] = s[i]
  OBVIOUS
<1> HIDE DEF t
<1>2. PICK p : IsParts(p, s, kind)
  BY OfKindParts
<1>3. PICK q : IsParts(q, t, kind)
  BY <1>1, OfKindParts
<1>20. /\ p \in [0 .. N -> Seq(Line)] /\ p[0] = <<>> /\ OfKind(s, kind) = p[N]
      /\ \A i \in 1 .. N : p[i] = IF s[i].kind = kind THEN Append(p[i - 1], s[i]) ELSE p[i - 1]
  BY <1>2 DEF IsParts
<1>30. /\ q[0] = <<>> /\ OfKind(t, kind) = q[N + 1]
      /\ \A i \in 1 .. N + 1 : q[i] = IF t[i].kind = kind THEN Append(q[i - 1], t[i]) ELSE q[i - 1]
  BY <1>1, <1>3 DEF IsParts
<1> DEFINE P == {n \in Nat : n \leq N => p[n] = q[n]}
<1>4. 0 \in P /\ \A n \in Nat : n \in P => n + 1 \in P
  <2>1. ASSUME NEW n \in Nat, n \in P, n + 1 \leq N PROVE p[n + 1] = q[n + 1]
    <3>1. n + 1 \in 1 .. N /\ n + 1 \in 1 .. N + 1 /\ (n + 1) - 1 = n /\ p[n] = q[n] /\ t[n + 1] = s[n + 1]
      BY <1>1, <2>1
    <3>2. QED BY <1>20, <1>30, <3>1
  <2>2. QED BY <1>20, <1>30, <2>1
<1>5. p[N] = q[N]
  <2>1. Nat \subseteq P
    <3> HIDE DEF P
    <3>1. QED BY <1>4, NatSetInduction, Zenon
  <2>2. QED BY <1>1, <2>1
<1>6. q[N + 1] = IF x.kind = kind THEN Append(q[N], x) ELSE q[N]
  <2>1. N + 1 \in 1 .. N + 1 /\ (N + 1) - 1 = N
    BY <1>1
  <2>2. QED BY <1>1, <1>30, <2>1
<1>7. p[N] \in Seq(Line)
  <2>1. N \in 0 .. N
    BY <1>1
  <2>2. QED BY <2>1, <1>20
<1>8. QED BY <1>20, <1>30, <1>5, <1>6, <1>7 DEF t

(* The kinds of lines are told apart by their field. *)
LEMMA LineKinds ==
  /\ \A l \in Line : /\ IsMessage(l) <=> l \in MessageSet
                     /\ IsRun(l) <=> l \in RunSet
                     /\ l # BrokenCharacter
                     /\ Spoilt(l) = Junk
                     /\ l.kind = "fragment" => l \notin RecordSet
                     /\ l.kind = "header" => l \notin RecordSet
  /\ \A l \in MessageSet : l = Message(l.id) /\ l.id \in Nat /\ IsMessage(l) /\ ~IsRun(l)
  /\ \A l \in RunSet : /\ l = RunRecord(l.run, l.state) /\ l.run \in RunIds /\ l.state \in RunStates
                       /\ IsRun(l) /\ ~IsMessage(l)
                       /\ Fragment(l) \in Line \ RecordSet /\ Fragment(l).kind = "fragment"
  /\ Junk \in Line \ RecordSet /\ Junk.kind = "junk"
  /\ \A l \in RecordSet : l \in Line /\ l # None /\ l # Junk
  /\ None \notin RecordSet /\ ~IsMessage(None) /\ ~IsRun(None)
  /\ \A v \in Nat : Header(v) \in Line \ RecordSet /\ Header(v).kind = "header"
<1>1. \A l \in MessageSet : l = Message(l.id) /\ l.id \in Nat /\ IsMessage(l) /\ ~IsRun(l)
  BY DEF MessageSet, Message, IsMessage, IsRun
<1>2. \A l \in RunSet : /\ l = RunRecord(l.run, l.state) /\ l.run \in RunIds /\ l.state \in RunStates
                        /\ IsRun(l) /\ ~IsMessage(l)
  BY DEF RunSet, RunRecord, IsMessage, IsRun
<1>3. \A l \in HeaderSet \cup FragmentSet \cup {Junk} : ~IsRun(l) /\ ~IsMessage(l)
  BY DEF HeaderSet, FragmentSet, Junk, IsRun, IsMessage
<1>4. \A l \in Line : (IsMessage(l) <=> l \in MessageSet) /\ (IsRun(l) <=> l \in RunSet)
  <2>1. ASSUME NEW l \in Line PROVE (IsMessage(l) <=> l \in MessageSet) /\ (IsRun(l) <=> l \in RunSet)
    <3>1. l \in MessageSet \/ l \in RunSet \/ l \in HeaderSet \cup FragmentSet \cup {Junk}
      BY DEF Line, RecordSet
    <3>2. QED BY <3>1, <1>1, <1>2, <1>3
  <2>2. QED BY <2>1
<1>5. \A l \in Line : l # BrokenCharacter
  BY DEF Line, RecordSet, MessageSet, RunSet, HeaderSet, FragmentSet, Junk, BrokenCharacter
<1>6. \A l \in Line : Spoilt(l) = Junk
  BY <1>5 DEF Spoilt
<1>7. \A l \in RecordSet : l.kind = "message" \/ l.kind = "run"
  BY DEF RecordSet, MessageSet, RunSet
<1>8. \A l \in Line : (l.kind = "fragment" => l \notin RecordSet) /\ (l.kind = "header" => l \notin RecordSet)
  BY <1>7
<1>9. Junk.kind = "junk" /\ None.kind = "none"
  BY DEF Junk, None
<1>10. Junk \in Line \ RecordSet /\ None \notin RecordSet /\ ~IsMessage(None) /\ ~IsRun(None)
  BY <1>7, <1>9 DEF Line, IsMessage, IsRun
<1>11. \A l \in RecordSet : l \in Line /\ l # None /\ l # Junk
  BY <1>10 DEF Line
<1>12. \A v \in Nat : Header(v) \in Line \ RecordSet /\ Header(v).kind = "header"
  <2>1. ASSUME NEW v \in Nat PROVE Header(v) \in HeaderSet /\ Header(v).kind = "header"
    BY DEF Header, HeaderSet
  <2>2. QED BY <2>1, <1>7 DEF Line
<1>13. \A l \in RunSet : Fragment(l) \in Line \ RecordSet /\ Fragment(l).kind = "fragment"
  <2>1. ASSUME NEW l \in RunSet PROVE Fragment(l) \in FragmentSet /\ Fragment(l).kind = "fragment"
    BY DEF Fragment, FragmentSet
  <2>2. QED BY <2>1, <1>7 DEF Line
<1>14. QED BY <1>1, <1>2, <1>4, <1>5, <1>6, <1>8, <1>9, <1>10, <1>11, <1>12, <1>13

(* The records of a file are the lines that are records. *)
LEMMA RecordsAre ==
  ASSUME NEW s \in Seq(Line)
  PROVE  /\ Records(s) = ToSet(s) \cap RecordSet
         /\ \A l : l \in Records(s) <=> l \in RecordSet /\ \E i \in 1 .. Len(s) : s[i] = l
         /\ Records(s) \subseteq RecordSet
<1>1. \A l \in Line : (IsMessage(l) \/ IsRun(l)) <=> l \in RecordSet
  BY LineKinds DEF RecordSet
<1>2. ToSet(s) = {s[i] : i \in 1 .. Len(s)} /\ \A i \in 1 .. Len(s) : s[i] \in Line
  BY DEF ToSet
<1>3. QED BY <1>1, <1>2 DEF Records

(* One line more. *)
LEMMA Appended ==
  ASSUME NEW s \in Seq(Line), NEW x \in Line
  PROVE  /\ Append(s, x) \in Seq(Line) /\ Append(s, x) # <<>> /\ Len(Append(s, x)) = Len(s) + 1
         /\ \A i \in 1 .. Len(s) : Append(s, x)[i] = s[i]
         /\ Append(s, x)[Len(s) + 1] = x /\ Last(Append(s, x)) = x
         /\ ToSet(Append(s, x)) = ToSet(s) \cup {x}
         /\ Records(Append(s, x)) = IF x \in RecordSet THEN Records(s) \cup {x} ELSE Records(s)
<1> DEFINE t == Append(s, x)  N == Len(s)
<1>1. t \in Seq(Line) /\ Len(t) = N + 1 /\ N \in Nat /\ t[N + 1] = x /\ \A i \in 1 .. N : t[i] = s[i]
  OBVIOUS
<1>2. t # <<>>
  <2> HIDE DEF t, N
  <2>1. Len(<<>>) = 0
    OBVIOUS
  <2>2. QED BY <1>1, <2>1
<1>3. Last(t) = x
  BY <1>1 DEF Last
<1>4. ToSet(t) = ToSet(s) \cup {x}
  <2>1. ToSet(s) = {s[i] : i \in 1 .. N} /\ ToSet(t) = {t[i] : i \in 1 .. N + 1}
    BY <1>1 DEF ToSet
  <2>2. 1 .. N + 1 = 1 .. N \cup {N + 1}
    BY <1>1
  <2> HIDE DEF t, N
  <2>3. QED BY <1>1, <2>1, <2>2
<1> HIDE DEF t
<1>5. Records(t) = IF x \in RecordSet THEN Records(s) \cup {x} ELSE Records(s)
  BY <1>1, <1>4, RecordsAre
<1>6. QED BY <1>1, <1>2, <1>3, <1>4, <1>5 DEF t

(* The lines of a kind are the members of that kind. *)
LEMMA OfKindSet ==
  ASSUME NEW s \in Seq(Line), NEW kind
  PROVE  /\ OfKind(s, kind) \in Seq(Line)
         /\ ToSet(OfKind(s, kind)) = {l \in ToSet(s) : l.kind = kind}
<1> DEFINE P == {q \in Seq(Line) : /\ OfKind(q, kind) \in Seq(Line)
                                   /\ ToSet(OfKind(q, kind)) = {l \in ToSet(q) : l.kind = kind}}
<1>1. <<>> \in P
  <2>1. <<>> \in Seq(Line) /\ ToSet(<<>>) = {}
    BY DEF ToSet
  <2>2. QED BY <2>1, OfKindEmpty
<1>2. ASSUME NEW q \in Seq(Line), NEW x \in Line, q \in P PROVE Append(q, x) \in P
  <2>1. OfKind(q, kind) \in Seq(Line) /\ ToSet(OfKind(q, kind)) = {l \in ToSet(q) : l.kind = kind}
    BY <1>2
  <2>2. OfKind(Append(q, x), kind) = IF x.kind = kind THEN Append(OfKind(q, kind), x) ELSE OfKind(q, kind)
    BY OfKindAppend
  <2>3. Append(q, x) \in Seq(Line) /\ ToSet(Append(q, x)) = ToSet(q) \cup {x}
    BY Appended
  <2>4. /\ Append(OfKind(q, kind), x) \in Seq(Line)
        /\ ToSet(Append(OfKind(q, kind), x)) = ToSet(OfKind(q, kind)) \cup {x}
    BY <2>1, Appended
  <2>5. CASE x.kind = kind
    BY <2>1, <2>2, <2>3, <2>4, <2>5
  <2>6. CASE x.kind # kind
    BY <2>1, <2>2, <2>3, <2>6
  <2>7. QED BY <2>5, <2>6
<1> HIDE DEF P
<1>3. Seq(Line) \subseteq P
  BY <1>1, <1>2, SeqInduction, Zenon
<1>4. QED BY <1>3 DEF P

(* The messages of the lines, with one line more. *)
LEMMA MessagesAppend ==
  ASSUME NEW s \in Seq(Line), NEW x \in Line
  PROVE  /\ Messages(s) \in Seq(Nat)
         /\ Messages(Append(s, x)) = IF IsMessage(x) THEN Append(Messages(s), x.id) ELSE Messages(s)
<1> DEFINE ms == OfKind(s, "message")
           ids(q) == [i \in DOMAIN q |-> q[i].id]
<1>1. ms \in Seq(Line) /\ \A l \in ToSet(ms) : l.kind = "message"
  BY OfKindSet
<1>2. ASSUME NEW i \in DOMAIN ms PROVE ms[i].id \in Nat
  <2>1. ms[i] \in Line /\ ms[i] \in ToSet(ms)
    BY <1>1, <1>2 DEF ToSet
  <2>2. ms[i] \in MessageSet
    BY <1>1, <2>1, LineKinds DEF IsMessage
  <2>3. QED BY <2>2, LineKinds
<1>3. ids(ms) \in Seq(Nat)
  <2> HIDE DEF ms
  <2>1. DOMAIN ms = 1 .. Len(ms) /\ Len(ms) \in Nat
    BY <1>1
  <2>2. ids(ms) \in [1 .. Len(ms) -> Nat]
    BY <1>2, <2>1
  <2>3. QED BY <2>1, <2>2, IsASeq
<1>4. OfKind(Append(s, x), "message") = IF IsMessage(x) THEN Append(ms, x) ELSE ms
  BY OfKindAppend DEF IsMessage
<1>5. ids(Append(ms, x)) = Append(ids(ms), x.id)
  <2> HIDE DEF ms
  <2>1. Len(ms) \in Nat /\ DOMAIN ms = 1 .. Len(ms) /\ DOMAIN Append(ms, x) = 1 .. Len(ms) + 1
    BY <1>1
  <2>2. Len(ids(ms)) = Len(ms)
    BY <2>1
  <2>3. \A i \in 1 .. Len(ms) + 1 : Append(ms, x)[i] = IF i = Len(ms) + 1 THEN x ELSE ms[i]
    BY <1>1
  <2>4. \A i \in 1 .. Len(ms) + 1 : Append(ids(ms), x.id)[i] = IF i = Len(ms) + 1 THEN x.id ELSE ids(ms)[i]
    BY <1>3, <2>1, <2>2
  <2>5. DOMAIN Append(ids(ms), x.id) = 1 .. Len(ms) + 1
    BY <1>3, <2>1, <2>2
  <2>6. QED BY <2>1, <2>3, <2>4, <2>5
<1>6. QED BY <1>3, <1>4, <1>5 DEF Messages

(* No line, no message. *)
LEMMA MessagesEmpty == Messages(<<>>) = <<>>
BY OfKindEmpty DEF Messages

(* The last run record of a run is an end if one of them is, in order. *)
LEMMA OrderedAppend ==
  ASSUME NEW s \in Seq(Line), NEW x \in Line
  PROVE  Ordered(Append(s, x)) <=>
           /\ Ordered(s)
           /\ IsRun(x) => (x.state \in EndStates
                           \/ \A e \in EndStates : RunRecord(x.run, e) \notin Records(s))
<1> DEFINE t == Append(s, x)  N == Len(s)
           Fits(j) == IsRun(x) /\ IsRun(s[j]) /\ s[j].run = x.run /\ s[j].state \in EndStates
                        => x.state \in EndStates
<1>1. N \in Nat /\ DOMAIN s = 1 .. N /\ DOMAIN t = 1 .. N + 1 /\ t[N + 1] = x /\ \A i \in 1 .. N : t[i] = s[i]
  OBVIOUS
<1> HIDE DEF t, N
<1>2. Ordered(t) <=> Ordered(s) /\ \A i \in 1 .. N : Fits(i)
  <2>1. ASSUME Ordered(t) PROVE Ordered(s) /\ \A i \in 1 .. N : Fits(i)
    <3>1. ASSUME NEW i \in 1 .. N, NEW j \in 1 .. N, i < j, IsRun(s[i]), IsRun(s[j]),
                 s[i].run = s[j].run, s[i].state \in EndStates
          PROVE  s[j].state \in EndStates
      <4>1. i \in DOMAIN t /\ j \in DOMAIN t /\ t[i] = s[i] /\ t[j] = s[j]
        BY <1>1
      <4>2. QED BY <2>1, <3>1, <4>1 DEF Ordered
    <3>2. ASSUME NEW i \in 1 .. N PROVE Fits(i)
      <4>1. i \in DOMAIN t /\ N + 1 \in DOMAIN t /\ i < N + 1 /\ t[i] = s[i]
        BY <1>1
      <4>2. QED BY <1>1, <2>1, <4>1 DEF Ordered
    <3>3. Ordered(s)
      BY <1>1, <3>1 DEF Ordered
    <3>4. QED BY <3>2, <3>3
  <2>2. ASSUME Ordered(s), \A i \in 1 .. N : Fits(i) PROVE Ordered(t)
    <3>1. ASSUME NEW i \in 1 .. N + 1, NEW j \in 1 .. N + 1, i < j, IsRun(t[i]), IsRun(t[j]),
                 t[i].run = t[j].run, t[i].state \in EndStates
          PROVE  t[j].state \in EndStates
      <4>1. i \in 1 .. N /\ t[i] = s[i]
        BY <1>1, <3>1
      <4>2. CASE j \in 1 .. N
        <5>1. t[j] = s[j]
          BY <1>1, <4>2
        <5>2. i \in DOMAIN s /\ j \in DOMAIN s
          BY <1>1, <4>1, <4>2
        <5>3. QED BY <2>2, <3>1, <4>1, <5>1, <5>2 DEF Ordered
      <4>3. CASE j = N + 1
        <5>1. t[j] = x
          BY <1>1, <4>3
        <5>2. QED BY <2>2, <3>1, <4>1, <5>1
      <4>4. j \in 1 .. N \/ j = N + 1
        BY <1>1
      <4>5. QED BY <4>2, <4>3, <4>4
    <3>2. QED BY <1>1, <3>1 DEF Ordered
  <2>3. QED BY <2>1, <2>2
<1>3. (\A i \in 1 .. N : Fits(i)) <=>
        (IsRun(x) => (x.state \in EndStates \/ \A e \in EndStates : RunRecord(x.run, e) \notin Records(s)))
  <2>1. ASSUME NEW i \in 1 .. N, IsRun(s[i]), s[i].state \in EndStates
        PROVE  RunRecord(s[i].run, s[i].state) \in Records(s)
    <3>1. s[i] \in Line
      BY <1>1
    <3>2. s[i] \in RunSet /\ s[i] = RunRecord(s[i].run, s[i].state)
      BY <2>1, <3>1, LineKinds
    <3>3. s[i] \in Records(s)
      BY <3>2, RecordsAre DEF RecordSet, N
    <3>4. QED BY <3>2, <3>3
  <2>2. ASSUME NEW r, NEW e \in EndStates, RunRecord(r, e) \in Records(s)
        PROVE  \E i \in 1 .. N : IsRun(s[i]) /\ s[i].run = r /\ s[i].state = e
    <3>1. PICK i \in 1 .. N : s[i] = RunRecord(r, e)
      BY <2>2, RecordsAre DEF N
    <3>2. IsRun(RunRecord(r, e)) /\ RunRecord(r, e).run = r /\ RunRecord(r, e).state = e
      BY DEF RunRecord, IsRun
    <3>3. QED BY <3>1, <3>2
  <2>3. ASSUME \A i \in 1 .. N : Fits(i), IsRun(x), x.state \notin EndStates, NEW e \in EndStates
        PROVE  RunRecord(x.run, e) \notin Records(s)
    BY <2>2, <2>3
  <2>4. ASSUME IsRun(x) => (x.state \in EndStates
                            \/ \A e \in EndStates : RunRecord(x.run, e) \notin Records(s)),
               NEW i \in 1 .. N
        PROVE  Fits(i)
    BY <2>1, <2>4
  <2>5. QED BY <2>3, <2>4
<1>4. QED BY <1>2, <1>3 DEF t

(* The run records of lines in order are in order. *)
LEMMA RunLinesOrdered ==
  ASSUME NEW s \in Seq(Line), Ordered(s)
  PROVE  /\ Ordered(RunLines(s)) /\ RunLines(s) \in Seq(RunSet)
         /\ ToSet(RunLines(s)) = {l \in Records(s) : IsRun(l)}
<1> DEFINE P == {q \in Seq(Line) : Ordered(q) => Ordered(OfKind(q, "run"))}
<1>1. <<>> \in P
  <2>1. <<>> \in Seq(Line) /\ Ordered(<<>>)
    BY DEF Ordered
  <2>2. QED BY <2>1, OfKindEmpty
<1>2. ASSUME NEW q \in Seq(Line), NEW x \in Line, q \in P PROVE Append(q, x) \in P
  <2> DEFINE k == OfKind(q, "run")
  <2>1. Append(q, x) \in Seq(Line) /\ k \in Seq(Line) /\ ToSet(k) \subseteq ToSet(q)
    BY Appended, OfKindSet
  <2>2. OfKind(Append(q, x), "run") = IF x.kind = "run" THEN Append(k, x) ELSE k
    BY OfKindAppend
  <2> HIDE DEF k
  <2>3. Records(k) \subseteq Records(q)
    BY <2>1, RecordsAre
  <2>4. ASSUME Ordered(Append(q, x)) PROVE Ordered(OfKind(Append(q, x), "run"))
    <3>1. /\ Ordered(q)
          /\ IsRun(x) => (x.state \in EndStates \/ \A e \in EndStates : RunRecord(x.run, e) \notin Records(q))
      BY <2>4, OrderedAppend
    <3>2. Ordered(k)
      BY <1>2, <3>1 DEF k
    <3>3. Ordered(Append(k, x))
      BY <2>1, <2>3, <3>1, <3>2, OrderedAppend
    <3>4. QED BY <2>2, <3>2, <3>3
  <2>5. QED BY <2>1, <2>4
<1> HIDE DEF P
<1>3. Seq(Line) \subseteq P
  BY <1>1, <1>2, SeqInduction, Zenon
<1>4. Ordered(RunLines(s))
  BY <1>3 DEF P, RunLines
<1>5. RunLines(s) \in Seq(Line) /\ ToSet(RunLines(s)) = {l \in ToSet(s) : IsRun(l)}
  BY OfKindSet DEF RunLines, IsRun
<1>6. ToSet(RunLines(s)) = {l \in Records(s) : IsRun(l)}
  BY <1>5 DEF Records
<1>7. RunLines(s) \in Seq(RunSet)
  <2> DEFINE k == RunLines(s)
  <2>1. \A i \in 1 .. Len(k) : k[i] \in RunSet
    <3>1. ASSUME NEW i \in 1 .. Len(k) PROVE k[i] \in RunSet
      <4>1. k[i] \in Line /\ k[i] \in ToSet(k)
        BY <1>5 DEF ToSet
      <4>2. IsRun(k[i])
        BY <1>5, <4>1
      <4>3. QED BY <4>1, <4>2, LineKinds
    <3>2. QED BY <3>1
  <2>2. Len(k) \in Nat /\ k = [i \in 1 .. Len(k) |-> k[i]]
    BY <1>5
  <2> HIDE DEF k
  <2>3. QED BY <2>1, <2>2, IsASeq DEF k
<1>8. QED BY <1>4, <1>6, <1>7

(* A set of positions has a last one. *)
LEMMA MaxIsLast ==
  ASSUME NEW N \in Nat, NEW T, T \subseteq 1 .. N, T # {}
  PROVE  Max(T) \in T /\ \A i \in T : i \leq Max(T)
<1> DEFINE P == {n \in Nat : \A U : (U \subseteq 1 .. n /\ U # {}) => \E m \in U : \A i \in U : i \leq m}
<1>1. 0 \in P
  <2>1. 1 .. 0 = {}
    OBVIOUS
  <2>2. QED BY <2>1
<1>2. ASSUME NEW n \in Nat, n \in P PROVE n + 1 \in P
  <2>1. ASSUME NEW U, U \subseteq 1 .. n + 1, U # {} PROVE \E m \in U : \A i \in U : i \leq m
    <3>1. CASE n + 1 \in U
      <4>1. \A i \in U : i \leq n + 1
        BY <2>1
      <4>2. QED BY <3>1, <4>1
    <3>2. CASE n + 1 \notin U
      <4>1. U \subseteq 1 .. n
        <5>1. \A i \in 1 .. n + 1 : i # n + 1 => i \in 1 .. n
          OBVIOUS
        <5>2. QED BY <2>1, <3>2, <5>1
      <4>2. QED BY <1>2, <2>1, <4>1
    <3>3. QED BY <3>1, <3>2
  <2>2. QED BY <2>1
<1> HIDE DEF P
<1>3. Nat \subseteq P
  BY <1>1, <1>2, NatSetInduction, Zenon
<1>4. PICK m \in T : \A i \in T : i \leq m
  BY <1>3 DEF P
<1>5. \A i \in T : m >= i
  <2>1. \A i \in T : i \in Int
    OBVIOUS
  <2>2. QED BY <1>4, <2>1
<1>6. Max(T) \in T /\ \A i \in T : Max(T) >= i
  BY <1>5 DEF Max
<1>7. QED
  <2>1. \A i \in T : i \in Int
    OBVIOUS
  <2>2. QED BY <1>6, <2>1

(* The runs whose last record says started are those that have no record of an end. *)
LEMMA UnfinishedIsOpen ==
  ASSUME NEW s \in Seq(Line), Ordered(s)
  PROVE  {r \in RunsIn(s) : LastState(s, r) = "started"} = Open(Records(s))
<1> DEFINE N == Len(s)  At(r) == RecordsOf(s, r)
<1>1. N \in Nat /\ DOMAIN s = 1 .. N /\ \A i \in 1 .. N : s[i] \in Line
  OBVIOUS
<1>2. ASSUME NEW i \in 1 .. N, IsRun(s[i])
      PROVE  s[i] = RunRecord(s[i].run, s[i].state) /\ s[i].state \in RunStates /\ s[i] \in Records(s)
  <2>1. s[i] \in RunSet
    BY <1>1, <1>2, LineKinds
  <2>2. QED BY <2>1, LineKinds, RecordsAre DEF RecordSet
<1>3. ASSUME NEW r, NEW e, RunRecord(r, e) \in Records(s)
      PROVE  \E i \in At(r) : s[i].state = e
  <2>1. PICK i \in 1 .. N : s[i] = RunRecord(r, e)
    BY <1>3, RecordsAre
  <2>2. IsRun(RunRecord(r, e)) /\ RunRecord(r, e).run = r /\ RunRecord(r, e).state = e
    BY DEF RunRecord, IsRun
  <2>3. QED BY <1>1, <2>1, <2>2 DEF RecordsOf
<1>4. ASSUME NEW r, At(r) # {}
      PROVE  /\ Max(At(r)) \in At(r) /\ \A i \in At(r) : i \leq Max(At(r))
             /\ LastState(s, r) = s[Max(At(r))].state
  <2>1. At(r) \subseteq 1 .. N
    BY <1>1 DEF RecordsOf
  <2>2. QED BY <1>1, <1>4, <2>1, MaxIsLast DEF LastState
<1>5. ASSUME NEW r \in RunsIn(s), LastState(s, r) = "started" PROVE r \in Open(Records(s))
  <2>1. At(r) # {}
    BY <1>5 DEF LastState
  <2> DEFINE m == Max(At(r))
  <2>2. /\ m \in 1 .. N /\ IsRun(s[m]) /\ s[m].run = r /\ s[m].state = "started"
        /\ \A i \in At(r) : i \leq m
    BY <1>1, <1>4, <1>5, <2>1 DEF RecordsOf
  <2> HIDE DEF m
  <2>3. RunRecord(r, "started") \in Records(s)
    BY <1>2, <2>2
  <2>4. ASSUME NEW e \in EndStates, RunRecord(r, e) \in Records(s) PROVE FALSE
    <3>1. PICK i \in At(r) : s[i].state = e
      BY <1>3, <2>4
    <3>2. i \in 1 .. N /\ IsRun(s[i]) /\ s[i].run = r /\ i \leq m
      BY <1>1, <2>2, <3>1 DEF RecordsOf
    <3>3. e # "started"
      BY DEF EndStates
    <3>4. i < m
      <4>1. i # m
        BY <2>2, <3>1, <3>3
      <4>2. QED BY <2>2, <3>2, <4>1
    <3>5. s[m].state \in EndStates
      BY <1>1, <2>2, <3>1, <3>2, <3>4 DEF Ordered
    <3>6. QED BY <2>2, <3>5 DEF EndStates
  <2>5. IsRun(RunRecord(r, "started")) /\ RunRecord(r, "started").run = r
    BY DEF RunRecord, IsRun
  <2>6. QED BY <2>3, <2>4, <2>5 DEF Open
<1>6. ASSUME NEW r \in Open(Records(s)) PROVE r \in RunsIn(s) /\ LastState(s, r) = "started"
  <2>1. RunRecord(r, "started") \in Records(s) /\ \A e \in EndStates : RunRecord(r, e) \notin Records(s)
    BY <1>6 DEF Open
  <2>2. PICK i \in At(r) : s[i].state = "started"
    BY <1>3, <2>1
  <2>3. r \in RunsIn(s)
    <3>1. i \in 1 .. N /\ IsRun(s[i]) /\ s[i].run = r /\ s[i] \in ToSet(s)
      BY <1>1, <2>2 DEF RecordsOf, ToSet
    <3>2. QED BY <3>1 DEF RunsIn
  <2>4. Max(At(r)) \in At(r) /\ LastState(s, r) = s[Max(At(r))].state
    BY <1>4, <2>2
  <2> DEFINE m == Max(At(r))
  <2>5. m \in 1 .. N /\ IsRun(s[m]) /\ s[m].run = r
    BY <1>1, <2>4 DEF RecordsOf
  <2> HIDE DEF m
  <2>6. s[m] = RunRecord(r, s[m].state) /\ s[m].state \in RunStates /\ s[m] \in Records(s)
    BY <1>2, <2>5
  <2>7. s[m].state = "started"
    BY <2>1, <2>6 DEF EndStates
  <2>8. QED BY <2>3, <2>4, <2>7 DEF m
<1>7. QED BY <1>5, <1>6

-----------------------------------------------------------------------------
(* What a write makes of a file. *)

(* A file that is left alone has nothing written to it. *)
LEMMA WrittenSame == ASSUME NEW s \in Seq(Line) PROVE Written(s, s, Junk)
<1>1. Junk \notin RecordSet /\ ~IsMessage(Junk)
  BY LineKinds DEF IsMessage
<1>2. Len(s) \leq Len(s)
  OBVIOUS
<1>3. QED BY <1>1, <1>2 DEF Written

(* A line behind the others. *)
LEMMA WrittenAppend ==
  ASSUME NEW s \in Seq(Line), NEW x \in Line, x.kind # "header"
  PROVE  Written(s, Append(s, x), x)
<1> DEFINE t == Append(s, x)
<1>1. /\ t \in Seq(Line) /\ Len(t) = Len(s) + 1 /\ \A i \in 1 .. Len(s) : t[i] = s[i]
      /\ t[Len(s) + 1] = x
      /\ Records(t) = IF x \in RecordSet THEN Records(s) \cup {x} ELSE Records(s)
  BY Appended
<1>2. Messages(t) = IF IsMessage(x) THEN Append(Messages(s), x.id) ELSE Messages(s)
  BY MessagesAppend
<1>3. (Ordered(s) /\ (IsRun(x) => x.state \in EndStates
                                 \/ \A e \in EndStates : RunRecord(x.run, e) \notin Records(s)))
        => Ordered(t)
  BY OrderedAppend
<1>4. Len(s) \in Nat /\ DOMAIN s = 1 .. Len(s)
  OBVIOUS
<1> HIDE DEF t
<1>5. LoadsLines(s) => LoadsLines(t)
  <2>1. CASE s = <<>>
    <3>1. Len(s) = 0
      BY <2>1
    <3>2. t[1] = x
      BY <1>1, <3>1
    <3>3. QED BY <3>2 DEF LoadsLines
  <2>2. CASE s # <<>>
    <3>1. Len(s) # 0
      BY <2>2
    <3>2. 1 \in 1 .. Len(s)
      BY <1>4, <3>1
    <3>3. t[1] = s[1]
      BY <1>1, <3>2
    <3>4. QED BY <2>2, <3>3 DEF LoadsLines
  <2>3. QED BY <2>1, <2>2
<1>6. Len(s) \leq Len(t) /\ \A i \in DOMAIN s : t[i] = s[i]
  BY <1>1, <1>4
<1>7. QED BY <1>1, <1>2, <1>3, <1>5, <1>6 DEF Written, t

(* A line in the place of the last one, which was no record. *)
LEMMA WrittenReplace ==
  ASSUME NEW s \in Seq(Line), s # <<>>, Last(s) \notin RecordSet, NEW x \in Line, x.kind # "header"
  PROVE  Written(s, Append(Front(s), x), x)
<1> DEFINE f == Front(s)  t == Append(f, x)
<1>1. /\ f \in Seq(Line) /\ Last(s) \in Line /\ s = Append(f, Last(s)) /\ Len(f) = Len(s) - 1
      /\ Last(s) = s[Len(s)] /\ \A i \in 1 .. Len(s) - 1 : f[i] = s[i]
  BY FrontAndLast
<1>2. Len(s) \in Nat /\ Len(s) # 0 /\ DOMAIN s = 1 .. Len(s)
  OBVIOUS
<1> HIDE DEF f
<1>3. ~IsMessage(Last(s)) /\ ~IsRun(Last(s))
  BY <1>1, LineKinds DEF RecordSet
<1>4. Records(s) = Records(f)
  BY <1>1, Appended
<1>5. Messages(s) = Messages(f)
  BY <1>1, <1>3, MessagesAppend
<1>6. Ordered(s) => Ordered(f)
  BY <1>1, OrderedAppend
<1>7. Written(f, t, x)
  BY <1>1, WrittenAppend
<1> HIDE DEF t
<1>8. Len(t) = Len(s) /\ t \in Seq(Line)
  <2>1. Len(t) = Len(f) + 1 /\ t \in Seq(Line)
    BY <1>1, Appended DEF t
  <2>2. QED BY <1>1, <1>2, <2>1
<1>9. \A i \in DOMAIN s : s[i] \in RecordSet => t[i] = s[i]
  <2>1. ASSUME NEW i \in 1 .. Len(s), s[i] \in RecordSet PROVE t[i] = s[i]
    <3>1. i \in 1 .. Len(s) - 1
      <4>1. i # Len(s)
        BY <1>1, <2>1
      <4>2. \A n \in Nat : \A k \in 1 .. n : k # n => k \in 1 .. n - 1
        OBVIOUS
      <4>3. QED BY <1>2, <4>1, <4>2
    <3>2. i \in 1 .. Len(f) /\ f[i] = s[i]
      BY <1>1, <3>1
    <3>3. t[i] = f[i]
      BY <1>1, <3>2, Appended DEF t
    <3>4. QED BY <3>2, <3>3
  <2>2. QED BY <1>2, <2>1
<1>10. LoadsLines(s) => LoadsLines(t)
  <2>1. CASE f = <<>>
    <3>1. t[1] = x
      BY <2>1 DEF t
    <3>2. QED BY <3>1 DEF LoadsLines
  <2>2. CASE f # <<>>
    <3>1. Len(f) # 0 /\ Len(f) \in Nat
      BY <1>1, <2>2
    <3>2. 1 \in 1 .. Len(f) /\ 1 \in 1 .. Len(s) - 1
      BY <1>1, <3>1
    <3>3. f[1] = s[1]
      BY <1>1, <3>2
    <3>4. t[1] = f[1]
      BY <1>1, <3>2, Appended DEF t
    <3>5. QED BY <3>3, <3>4 DEF LoadsLines
  <2>3. QED BY <2>1, <2>2
<1>11. /\ Records(t) = IF x \in RecordSet THEN Records(s) \cup {x} ELSE Records(s)
       /\ Messages(t) = IF IsMessage(x) THEN Append(Messages(s), x.id) ELSE Messages(s)
       /\ (Ordered(s) /\ (IsRun(x) => x.state \in EndStates
                                \/ \A e \in EndStates : RunRecord(x.run, e) \notin Records(s)))
          => Ordered(t)
  BY <1>4, <1>5, <1>6, <1>7 DEF Written
<1>12. Len(s) \leq Len(t)
  BY <1>2, <1>8
<1>13. Written(s, t, x)
  BY <1>8, <1>9, <1>10, <1>11, <1>12 DEF Written
<1>14. QED BY <1>13 DEF t, f

(* Nothing written before a record is written. *)
LEMMA WrittenTwice ==
  ASSUME NEW s \in Seq(Line), NEW t, NEW u, NEW x, Written(s, t, Junk), Written(t, u, x)
  PROVE  Written(s, u, x)
<1>1. ~IsMessage(Junk) /\ ~IsRun(Junk) /\ Junk \notin RecordSet
  BY DEF IsMessage, IsRun, Junk, RecordSet, MessageSet, RunSet
<1>2. /\ t \in Seq(Line) /\ Len(s) \leq Len(t) /\ Records(t) = Records(s) /\ Messages(t) = Messages(s)
      /\ (Ordered(s) => Ordered(t)) /\ (LoadsLines(s) => LoadsLines(t))
      /\ \A i \in DOMAIN s : s[i] \in RecordSet => t[i] = s[i]
  BY <1>1 DEF Written
<1>3. u \in Seq(Line) /\ Len(t) \leq Len(u) /\ \A i \in DOMAIN t : t[i] \in RecordSet => u[i] = t[i]
  BY DEF Written
<1>4. Len(s) \in Nat /\ Len(t) \in Nat /\ Len(u) \in Nat /\ DOMAIN s = 1 .. Len(s) /\ DOMAIN t = 1 .. Len(t)
  BY <1>2, <1>3
<1>5. Len(s) \leq Len(u)
  BY <1>2, <1>3, <1>4
<1>6. \A i \in DOMAIN s : s[i] \in RecordSet => u[i] = s[i]
  <2>1. \A i \in DOMAIN s : i \in DOMAIN t
    BY <1>2, <1>4
  <2>2. QED BY <1>2, <1>3, <2>1
<1>7. QED BY <1>2, <1>3, <1>5, <1>6 DEF Written

(* A file is its lines. *)
LEMMA FileIs ==
  ASSUME NEW s \in Seq(Line), NEW o \in BOOLEAN, o => s # <<>>
  PROVE  /\ Sound(File(s, o)) /\ File(s, o).lines = s /\ File(s, o).open = o /\ ~File(s, o).missing
BY DEF Sound, File, FileSet

(* The file that is not there. *)
LEMMA NoFileIs == Sound(NoFile) /\ NoFile.lines = <<>> /\ NoFile.open = FALSE /\ NoFile.missing
<1>1. <<>> \in Seq(Line)
  OBVIOUS
<1>2. QED BY <1>1 DEF NoFile, Sound, FileSet

(* The boundary closes the last line and touches no record. *)
LEMMA BoundaryWrites ==
  ASSUME NEW f, Sound(f)
  PROVE  /\ Sound(RecordBoundary(f)) /\ RecordBoundary(f).open = FALSE
         /\ Written(f.lines, RecordBoundary(f).lines, Junk)
         /\ RecordBoundary(f).missing => f.missing
         /\ ~f.missing => ~RecordBoundary(f).missing
<1>1. f.lines \in Seq(Line) /\ f.open \in BOOLEAN
  BY DEF Sound, FileSet
<1>2. CASE ~f.open
  <2>1. RecordBoundary(f) = f
    BY <1>2 DEF RecordBoundary
  <2>2. QED BY <1>1, <1>2, <2>1, WrittenSame
<1>3. CASE f.open
  <2>1. f.lines # <<>> /\ ~f.missing
    BY <1>3, NoFileIs DEF Sound
  <2> DEFINE s == f.lines
             x == IF Last(s).kind = "fragment" THEN Junk ELSE Last(s)
             t == Append(Front(s), x)
  <2>2. Front(s) \in Seq(Line) /\ Last(s) \in Line /\ s = Append(Front(s), Last(s))
    BY <1>1, <2>1, FrontAndLast
  <2>3. RecordBoundary(f) = File(t, FALSE)
    BY <1>3 DEF RecordBoundary
  <2>4. x \in Line
    BY <2>2, LineKinds
  <2>5. t \in Seq(Line)
    BY <2>2, <2>4
  <2>6. Written(s, t, Junk)
    <3>1. CASE Last(s).kind = "fragment"
      <4>1. Last(s) \notin RecordSet /\ Junk \in Line /\ Junk.kind # "header"
        BY <2>2, <3>1, LineKinds
      <4>2. Written(s, Append(Front(s), Junk), Junk)
        BY <1>1, <2>1, <4>1, WrittenReplace
      <4>3. QED BY <3>1, <4>2
    <3>2. CASE Last(s).kind # "fragment"
      <4>1. t = s
        BY <2>2, <3>2
      <4>2. Written(s, s, Junk)
        BY <1>1, WrittenSame
      <4>3. QED BY <4>1, <4>2
    <3>3. QED BY <3>1, <3>2
  <2> HIDE DEF t, x
  <2>7. Sound(File(t, FALSE)) /\ File(t, FALSE).lines = t /\ File(t, FALSE).open = FALSE
        /\ ~File(t, FALSE).missing
    BY <2>5, FileIs
  <2>8. QED BY <2>1, <2>3, <2>6, <2>7
<1>4. QED BY <1>1, <1>2, <1>3

(* Behind a closed line a line is written; behind an open one there is junk. *)
LEMMA GlueWrites ==
  ASSUME NEW f, Sound(f), f.open => Last(f.lines) \notin RecordSet,
         NEW x \in Line, x.kind # "header", NEW o \in BOOLEAN
  PROVE  /\ Sound(Glue(f, x, o)) /\ Glue(f, x, o).open = o /\ ~Glue(f, x, o).missing
         /\ ~f.open => Written(f.lines, Glue(f, x, o).lines, x) /\ Last(Glue(f, x, o).lines) = x
         /\ f.open => Written(f.lines, Glue(f, x, o).lines, Junk) /\ Last(Glue(f, x, o).lines) = Junk
<1>1. f.lines \in Seq(Line) /\ f.open \in BOOLEAN
  BY DEF Sound, FileSet
<1> DEFINE s == f.lines  q == IF f.open THEN Front(s) ELSE s  y == IF f.open THEN Junk ELSE x
           t == Append(q, y)
<1>2. f.open => s # <<>> /\ Front(s) \in Seq(Line) /\ Last(s) \in Line
  BY <1>1, FrontAndLast DEF Sound
<1>3. Glue(f, x, o) = File(t, o)
  BY <1>2, LineKinds DEF Glue
<1>4. Junk \in Line /\ Junk.kind # "header"
  BY LineKinds
<1>5. q \in Seq(Line) /\ y \in Line /\ y.kind # "header"
  BY <1>1, <1>2, <1>4
<1>6. Written(s, t, y)
  <2>1. CASE f.open
    <3>1. Written(s, Append(Front(s), Junk), Junk)
      BY <1>1, <1>2, <1>4, <2>1, WrittenReplace
    <3>2. QED BY <2>1, <3>1
  <2>2. CASE ~f.open
    <3>1. Written(s, Append(s, x), x)
      BY <1>1, WrittenAppend
    <3>2. QED BY <2>2, <3>1
  <2>3. QED BY <1>1, <2>1, <2>2
<1> HIDE DEF q, y
<1>7. t \in Seq(Line) /\ t # <<>> /\ Last(t) = y
  BY <1>5, Appended
<1> HIDE DEF t
<1>8. Sound(File(t, o)) /\ File(t, o).lines = t /\ File(t, o).open = o /\ ~File(t, o).missing
  BY <1>7, FileIs
<1>9. QED BY <1>3, <1>6, <1>7, <1>8 DEF y

(* The lines up to a position. *)
LEMMA PrefixIs ==
  ASSUME NEW s \in Seq(Line), NEW n \in 0 .. Len(s)
  PROVE  /\ SubSeq(s, 1, n) \in Seq(Line) /\ Len(SubSeq(s, 1, n)) = n
         /\ \A i \in 1 .. n : SubSeq(s, 1, n)[i] = s[i]
         /\ Records(SubSeq(s, 1, n)) \subseteq Records(s)
         /\ Ordered(s) => Ordered(SubSeq(s, 1, n))
         /\ LoadsLines(s) => LoadsLines(SubSeq(s, 1, n))
<1> DEFINE p == SubSeq(s, 1, n)
<1>1. n \in Nat /\ n \leq Len(s) /\ Len(s) \in Nat /\ DOMAIN s = 1 .. Len(s)
      /\ \A i \in 1 .. Len(s) : s[i] \in Line
  OBVIOUS
<1>2. 1 .. n \subseteq 1 .. Len(s)
  BY <1>1
<1>3. \A i \in 1 .. n : s[i] \in Line
  BY <1>1, <1>2
<1>4. /\ p \in Seq(Line) /\ Len(p) = IF 1 \leq n THEN n - 1 + 1 ELSE 0
      /\ \A i \in 1 .. n - 1 + 1 : p[i] = s[1 + i - 1]
  <2>1. 1 \in Int /\ n \in Int
    BY <1>1
  <2>2. QED BY <1>3, <2>1, SubSeqProperties
<1> HIDE DEF p
<1>5. n - 1 + 1 = n /\ \A i \in 1 .. n : 1 + i - 1 = i
  BY <1>1
<1>6. Len(p) = n
  <2>1. CASE 1 \leq n
    BY <1>4, <1>5, <2>1
  <2>2. CASE ~(1 \leq n)
    <3>1. n = 0
      BY <1>1, <2>2
    <3>2. QED BY <1>4, <2>2, <3>1
  <2>3. QED BY <2>1, <2>2
<1>7. \A i \in 1 .. n : p[i] = s[i]
  BY <1>4, <1>5
<1>8. DOMAIN p = 1 .. n
  BY <1>4, <1>6
<1>9. Records(p) \subseteq Records(s)
  <2>1. ASSUME NEW l \in Records(p) PROVE l \in Records(s)
    <3>1. l \in RecordSet /\ \E i \in 1 .. n : p[i] = l
      BY <1>4, <1>6, RecordsAre
    <3>2. QED BY <1>2, <1>7, <3>1, RecordsAre
  <2>2. QED BY <2>1
<1>10. Ordered(s) => Ordered(p)
  <2>1. \A i \in DOMAIN p : i \in DOMAIN s /\ p[i] = s[i]
    BY <1>1, <1>2, <1>7, <1>8
  <2>2. QED BY <2>1 DEF Ordered
<1>11. LoadsLines(s) => LoadsLines(p)
  <2>1. CASE p = <<>>
    BY <2>1 DEF LoadsLines
  <2>2. CASE p # <<>>
    <3>1. n # 0
      BY <1>4, <1>6, <2>2
    <3>2. 1 \in 1 .. n /\ Len(s) # 0
      BY <1>1, <3>1
    <3>3. p[1] = s[1] /\ s # <<>>
      BY <1>7, <3>2
    <3>4. QED BY <3>3 DEF LoadsLines
  <2>3. QED BY <2>1, <2>2
<1>12. QED BY <1>4, <1>6, <1>7, <1>9, <1>10, <1>11 DEF p

(* Lines that differ in no record. *)
LEMMA SameRecords ==
  ASSUME NEW s \in Seq(Line), NEW t \in Seq(Line), Len(s) = Len(t),
         \A i \in 1 .. Len(s) : t[i] = s[i] \/ (t[i] \notin RecordSet /\ s[i] \notin RecordSet)
  PROVE  Records(t) = Records(s) /\ Messages(t) = Messages(s) /\ (Ordered(s) => Ordered(t))
<1> DEFINE Like(p, q) ==
             /\ Len(p) = Len(q)
             /\ \A i \in 1 .. Len(p) : q[i] = p[i] \/ (q[i] \notin RecordSet /\ p[i] \notin RecordSet)
           Same(p, q) ==
             Records(q) = Records(p) /\ Messages(q) = Messages(p) /\ (Ordered(p) => Ordered(q))
           P == {p \in Seq(Line) : \A q \in Seq(Line) : Like(p, q) => Same(p, q)}
<1>1. <<>> \in P
  <2>1. ASSUME NEW q \in Seq(Line), Like(<<>>, q) PROVE q = <<>>
    <3>1. Len(q) = 0
      BY <2>1
    <3>2. QED BY <3>1
  <2>2. <<>> \in Seq(Line)
    OBVIOUS
  <2>3. QED BY <2>1, <2>2
<1>2. ASSUME NEW p \in Seq(Line), NEW x \in Line, p \in P PROVE Append(p, x) \in P
  <2>1. /\ Append(p, x) \in Seq(Line) /\ Len(Append(p, x)) = Len(p) + 1 /\ Len(p) \in Nat
        /\ \A i \in 1 .. Len(p) : Append(p, x)[i] = p[i]
        /\ Append(p, x)[Len(p) + 1] = x
    BY Appended
  <2>2. ASSUME NEW q \in Seq(Line), Like(Append(p, x), q) PROVE Same(Append(p, x), q)
    <3>1. Len(q) = Len(p) + 1
      BY <2>1, <2>2
    <3>2. q # <<>>
      BY <2>1, <3>1
    <3> DEFINE f == Front(q)  y == Last(q)
    <3>3. /\ f \in Seq(Line) /\ y \in Line /\ q = Append(f, y) /\ Len(f) = Len(q) - 1
          /\ y = q[Len(q)] /\ \A i \in 1 .. Len(q) - 1 : f[i] = q[i]
      BY <3>2, FrontAndLast
    <3> HIDE DEF f, y
    <3>4. Len(f) = Len(p)
      BY <2>1, <3>1, <3>3
    <3>5. \A i \in 1 .. Len(p) : f[i] = p[i] \/ (f[i] \notin RecordSet /\ p[i] \notin RecordSet)
      <4>1. ASSUME NEW i \in 1 .. Len(p)
            PROVE  f[i] = p[i] \/ (f[i] \notin RecordSet /\ p[i] \notin RecordSet)
        <5>1. i \in 1 .. Len(Append(p, x)) /\ i \in 1 .. Len(q) - 1
          BY <2>1, <3>1
        <5>2. Append(p, x)[i] = p[i] /\ f[i] = q[i]
          BY <2>1, <3>3, <5>1
        <5>3. q[i] = Append(p, x)[i] \/ (q[i] \notin RecordSet /\ Append(p, x)[i] \notin RecordSet)
          BY <2>2, <5>1
        <5>4. QED BY <5>2, <5>3
      <4>2. QED BY <4>1
    <3>6. Same(p, f)
      BY <1>2, <3>3, <3>4, <3>5
    <3>7. y = x \/ (y \notin RecordSet /\ x \notin RecordSet)
      <4>1. Len(p) + 1 \in 1 .. Len(Append(p, x))
        BY <2>1
      <4>2. QED BY <2>1, <2>2, <3>1, <3>3, <4>1
    <3>8. ~(y = x) => ~IsRun(y) /\ ~IsMessage(y) /\ ~IsRun(x) /\ ~IsMessage(x)
      BY <3>3, <3>7, LineKinds DEF RecordSet
    <3>9. Records(Append(f, y)) = Records(Append(p, x))
      <4>1. Records(Append(f, y)) = IF y \in RecordSet THEN Records(f) \cup {y} ELSE Records(f)
        BY <3>3, Appended
      <4>2. Records(Append(p, x)) = IF x \in RecordSet THEN Records(p) \cup {x} ELSE Records(p)
        BY Appended
      <4>3. QED BY <3>6, <3>7, <4>1, <4>2
    <3>10. Messages(Append(f, y)) = Messages(Append(p, x))
      BY <3>3, <3>6, <3>8, MessagesAppend
    <3>11. Ordered(Append(p, x)) => Ordered(Append(f, y))
      BY <3>3, <3>6, <3>8, OrderedAppend
    <3>12. QED BY <3>3, <3>9, <3>10, <3>11
  <2>3. QED BY <2>1, <2>2
<1> HIDE DEF P
<1>3. Seq(Line) \subseteq P
  BY <1>1, <1>2, SeqInduction, Zenon
<1>4. QED BY <1>3 DEF P

(* A new file: its header, and no record. *)
LEMMA HeaderOnly ==
  /\ <<Header(SESSION_VERSION)>> \in Seq(Line)
  /\ Len(<<Header(SESSION_VERSION)>>) = 1 /\ <<Header(SESSION_VERSION)>>[1] = Header(SESSION_VERSION)
  /\ Records(<<Header(SESSION_VERSION)>>) = {}
  /\ Messages(<<Header(SESSION_VERSION)>>) = <<>>
  /\ Ordered(<<Header(SESSION_VERSION)>>)
  /\ LoadsLines(<<Header(SESSION_VERSION)>>)
<1> DEFINE h == Header(SESSION_VERSION)
<1>1. h \in Line /\ h \notin RecordSet /\ ~IsMessage(h) /\ ~IsRun(h) /\ h.version = SESSION_VERSION
  <2>1. SESSION_VERSION \in Nat
    BY DEF SESSION_VERSION
  <2>2. h \in Line \ RecordSet
    BY <2>1, LineKinds
  <2>3. h.version = SESSION_VERSION
    BY DEF Header
  <2>4. QED BY <2>2, <2>3, LineKinds DEF RecordSet
<1> HIDE DEF h
<1>2. <<h>> = Append(<<>>, h) /\ <<>> \in Seq(Line) /\ <<h>> \in Seq(Line) /\ Len(<<h>>) = 1 /\ <<h>>[1] = h
  BY <1>1
<1>3. Records(<<>>) = {} /\ Ordered(<<>>)
  BY DEF Records, Ordered, ToSet
<1>4. Records(<<h>>) = {}
  <2>1. Records(Append(<<>>, h)) = Records(<<>>)
    <3> HIDE <1>2
    <3>1. <<>> \in Seq(Line)
      OBVIOUS
    <3>2. QED BY <1>1, <3>1, Appended
  <2>2. QED BY <1>2, <1>3, <2>1
<1>5. Messages(<<h>>) = <<>>
  BY <1>1, <1>2, MessagesAppend, MessagesEmpty
<1>6. Ordered(<<h>>)
  BY <1>1, <1>2, <1>3, OrderedAppend
<1>7. LoadsLines(<<h>>)
  BY <1>1, <1>2 DEF LoadsLines, SESSION_VERSION
<1>8. QED BY <1>2, <1>4, <1>5, <1>6, <1>7 DEF h

(* ensure changes no record. *)
LEMMA EnsureIs ==
  ASSUME NEW f, Sound(f), LoadsLines(f.lines)
  PROVE  /\ Sound(Ensure(f)) /\ ~Ensure(f).missing
         /\ Records(Ensure(f).lines) = Records(f.lines)
         /\ Messages(Ensure(f).lines) = Messages(f.lines)
         /\ Ordered(f.lines) => Ordered(Ensure(f).lines)
         /\ LoadsLines(Ensure(f).lines)
<1> DEFINE h == Header(SESSION_VERSION)  s == f.lines
<1>1. s \in Seq(Line) /\ f.open \in BOOLEAN /\ f.missing \in BOOLEAN
  BY DEF Sound, FileSet
<1>2. CASE f.missing
  <2>1. f = NoFile /\ s = <<>>
    BY <1>2, NoFileIs DEF Sound
  <2>2. Ensure(f) = File(<<h>>, FALSE)
    BY <1>2 DEF Ensure
  <2>3. Sound(File(<<h>>, FALSE)) /\ File(<<h>>, FALSE).lines = <<h>> /\ ~File(<<h>>, FALSE).missing
    BY HeaderOnly, FileIs
  <2>4. Records(<<>>) = {}
    BY DEF Records, ToSet
  <2>5. QED BY <2>1, <2>2, <2>3, <2>4, HeaderOnly, MessagesEmpty
<1>3. CASE ~f.missing /\ Readable(f) /\ Versioned(f) /\ s[1].version < SESSION_VERSION /\ FirstEnds(f)
  <2> DEFINE t == <<h>> \o Tail(s)
  <2>1. Ensure(f) = File(t, f.open)
    BY <1>3 DEF Ensure
  <2>2. s # <<>> /\ s[1].kind = "header" /\ Len(s) \in Nat /\ Len(s) # 0
    BY <1>1, <1>3 DEF Versioned
  <2>3. s[1] \notin RecordSet
    <3>1. 1 \in 1 .. Len(s)
      BY <2>2
    <3>2. s[1] \in Line
      BY <1>1, <3>1
    <3>3. QED BY <2>2, <3>2, LineKinds
  <2>4. /\ Tail(s) \in Seq(Line) /\ Len(Tail(s)) = Len(s) - 1
        /\ \A i \in 1 .. Len(Tail(s)) : Tail(s)[i] = s[i + 1]
    BY <1>1, <2>2, HeadTailProperties
  <2>5. <<h>> \in Seq(Line) /\ Len(<<h>>) = 1 /\ <<h>>[1] = h
    BY HeaderOnly
  <2>6. /\ t \in Seq(Line) /\ Len(t) = Len(<<h>>) + Len(Tail(s))
        /\ \A i \in 1 .. Len(<<h>>) + Len(Tail(s)) :
             t[i] = IF i \leq Len(<<h>>) THEN <<h>>[i] ELSE Tail(s)[i - Len(<<h>>)]
    BY <2>4, <2>5, ConcatProperties
  <2> HIDE DEF t, h
  <2>7. Len(t) = Len(s)
    BY <2>2, <2>4, <2>5, <2>6
  <2>8. t[1] = h
    <3>1. 1 \in 1 .. Len(<<h>>) + Len(Tail(s)) /\ 1 \leq Len(<<h>>)
      BY <2>2, <2>4, <2>5
    <3>2. QED BY <2>5, <2>6, <3>1
  <2>9. ASSUME NEW i \in 1 .. Len(s), i # 1 PROVE t[i] = s[i]
    <3>1. i \in 1 .. Len(<<h>>) + Len(Tail(s)) /\ ~(i \leq Len(<<h>>)) /\ i - 1 \in 1 .. Len(Tail(s))
          /\ (i - 1) + 1 = i
      BY <2>2, <2>4, <2>5, <2>9
    <3>2. t[i] = Tail(s)[i - 1]
      BY <2>5, <2>6, <3>1
    <3>3. QED BY <2>4, <3>1, <3>2
  <2>10. h \notin RecordSet /\ h.version = SESSION_VERSION
    <3>1. SESSION_VERSION \in Nat
      BY DEF SESSION_VERSION
    <3>2. QED BY <3>1, LineKinds DEF h, Header
  <2>11. \A i \in 1 .. Len(s) : t[i] = s[i] \/ (t[i] \notin RecordSet /\ s[i] \notin RecordSet)
    BY <2>3, <2>8, <2>9, <2>10
  <2>12. Records(t) = Records(s) /\ Messages(t) = Messages(s) /\ (Ordered(s) => Ordered(t))
    BY <1>1, <2>6, <2>7, <2>11, SameRecords
  <2>13. LoadsLines(t)
    BY <2>8, <2>10 DEF LoadsLines, SESSION_VERSION
  <2>14. t # <<>>
    BY <2>2, <2>7
  <2>15. Sound(File(t, f.open)) /\ File(t, f.open).lines = t /\ ~File(t, f.open).missing
    BY <1>1, <2>6, <2>14, FileIs
  <2>16. QED BY <2>1, <2>12, <2>13, <2>15
<1>4. CASE ~f.missing /\ ~(Readable(f) /\ Versioned(f) /\ s[1].version < SESSION_VERSION /\ FirstEnds(f))
  <2>1. Ensure(f) = f
    BY <1>4 DEF Ensure
  <2>2. QED BY <1>4, <2>1
<1>5. QED BY <1>1, <1>2, <1>3, <1>4

(* Concatenation, one element at a time. *)
LEMMA ConcatAppend ==
  ASSUME NEW S, NEW s \in Seq(S), NEW t \in Seq(S), NEW x \in S
  PROVE  s \o Append(t, x) = Append(s \o t, x)
<1>1. <<x>> \in Seq(S) /\ s \o t \in Seq(S)
  OBVIOUS
<1>2. Append(t, x) = t \o <<x>> /\ Append(s \o t, x) = (s \o t) \o <<x>>
  BY <1>1, AppendIsConcat
<1>3. (s \o t) \o <<x>> = s \o (t \o <<x>>)
  BY <1>1, ConcatAssociative
<1>4. QED BY <1>2, <1>3

(* Two sequences of lines one after the other. *)
LEMMA ConcatLines ==
  ASSUME NEW s \in Seq(Line), NEW t \in Seq(Line)
  PROVE  /\ s \o t \in Seq(Line)
         /\ Records(s \o t) = Records(s) \cup Records(t)
         /\ Messages(t) = <<>> => Messages(s \o t) = Messages(s)
         /\ Messages(s) = <<>> => Messages(s \o t) = Messages(t)
         /\ ((\A l \in Records(s) : ~IsRun(l)) /\ Ordered(s) /\ Ordered(t)) => Ordered(s \o t)
<1> DEFINE NoRuns == \A l \in Records(s) : ~IsRun(l)
           P == {q \in Seq(Line) :
                  /\ Records(s \o q) = Records(s) \cup Records(q)
                  /\ Messages(q) = <<>> => Messages(s \o q) = Messages(s)
                  /\ Messages(s) = <<>> => Messages(s \o q) = Messages(q)
                  /\ (NoRuns /\ Ordered(s) /\ Ordered(q)) => Ordered(s \o q)}
<1>1. <<>> \in P
  <2>1. s \o <<>> = s /\ <<>> \in Seq(Line)
    BY ConcatEmptySeq
  <2>2. Records(<<>>) = {}
    BY DEF Records, ToSet
  <2>3. QED BY <2>1, <2>2, MessagesEmpty
<1>2. ASSUME NEW q \in Seq(Line), NEW x \in Line, q \in P PROVE Append(q, x) \in P
  <2>1. s \o Append(q, x) = Append(s \o q, x)
    BY ConcatAppend
  <2>2. s \o q \in Seq(Line) /\ Append(q, x) \in Seq(Line)
    BY Appended
  <2>3. Records(s \o Append(q, x)) = Records(s) \cup Records(Append(q, x))
    <3>1. /\ Records(Append(q, x)) = IF x \in RecordSet THEN Records(q) \cup {x} ELSE Records(q)
          /\ Records(Append(s \o q, x)) = IF x \in RecordSet THEN Records(s \o q) \cup {x} ELSE Records(s \o q)
      BY <2>2, Appended
    <3>2. QED BY <1>2, <2>1, <3>1
  <2>4. /\ Messages(q) \in Seq(Nat)
        /\ Messages(Append(q, x)) = IF IsMessage(x) THEN Append(Messages(q), x.id) ELSE Messages(q)
    BY MessagesAppend
  <2>10. Messages(Append(s \o q, x)) =
           IF IsMessage(x) THEN Append(Messages(s \o q), x.id) ELSE Messages(s \o q)
    BY <2>2, MessagesAppend
  <2>5. Messages(Append(q, x)) = <<>> => ~IsMessage(x) /\ Messages(q) = <<>>
    <3>1. IsMessage(x) => Append(Messages(q), x.id) # <<>>
      <4>1. ASSUME IsMessage(x) PROVE Append(Messages(q), x.id) # <<>>
        <5>1. x.id \in Nat
          BY <4>1, LineKinds
        <5>2. Len(Append(Messages(q), x.id)) = Len(Messages(q)) + 1 /\ Len(Messages(q)) \in Nat
          BY <2>4, <5>1
        <5>3. Len(<<>>) = 0
          OBVIOUS
        <5>4. QED BY <5>2, <5>3
      <4>2. QED BY <4>1
    <3>2. QED BY <2>4, <3>1
  <2>6. Messages(Append(q, x)) = <<>> => Messages(s \o Append(q, x)) = Messages(s)
    BY <1>2, <2>1, <2>4, <2>5, <2>10
  <2>7. Messages(s) = <<>> => Messages(s \o Append(q, x)) = Messages(Append(q, x))
    BY <1>2, <2>1, <2>4, <2>10
  <2>8. ASSUME NoRuns, Ordered(s), Ordered(Append(q, x)) PROVE Ordered(s \o Append(q, x))
    <3>1. /\ Ordered(q)
          /\ IsRun(x) => (x.state \in EndStates \/ \A e \in EndStates : RunRecord(x.run, e) \notin Records(q))
      BY <2>8, OrderedAppend
    <3>2. Ordered(s \o q) /\ Records(s \o q) = Records(s) \cup Records(q)
      BY <1>2, <2>8, <3>1
    <3>3. \A e \in EndStates : RunRecord(x.run, e) \notin Records(s)
      <4>1. \A e \in EndStates : IsRun(RunRecord(x.run, e))
        BY DEF RunRecord, IsRun
      <4>2. QED BY <2>8, <4>1
    <3>4. Ordered(Append(s \o q, x))
      BY <2>2, <3>1, <3>2, <3>3, OrderedAppend
    <3>5. QED BY <2>1, <3>4
  <2>9. QED BY <2>2, <2>3, <2>6, <2>7, <2>8
<1>3. s \o t \in Seq(Line)
  OBVIOUS
<1> HIDE DEF P
<1>4. Seq(Line) \subseteq P
  BY <1>1, <1>2, SeqInduction, Zenon
<1>5. QED BY <1>3, <1>4 DEF P

(* The conversation as lines. *)
Lines(m) == [i \in DOMAIN m |-> Message(m[i])]

(* They are those messages, in their order, and nothing else. *)
LEMMA LinesAre ==
  ASSUME NEW m \in Seq(Nat)
  PROVE  /\ Lines(m) \in Seq(Line) /\ Messages(Lines(m)) = m
         /\ Records(Lines(m)) = {Message(n) : n \in ToSet(m)}
         /\ \A l \in Records(Lines(m)) : ~IsRun(l)
         /\ Ordered(Lines(m))
<1> DEFINE P == {q \in Seq(Nat) : /\ Lines(q) \in Seq(Line) /\ Messages(Lines(q)) = q
                                  /\ Records(Lines(q)) = {Message(n) : n \in ToSet(q)}
                                  /\ Ordered(Lines(q))}
<1>1. \A n \in Nat : /\ Message(n) \in Line /\ Message(n) \in RecordSet /\ IsMessage(Message(n))
                     /\ ~IsRun(Message(n)) /\ Message(n).id = n
  BY DEF Message, IsMessage, IsRun, Line, RecordSet, MessageSet
<1>2. <<>> \in P
  <2>1. Lines(<<>>) = <<>> /\ <<>> \in Seq(Line) /\ <<>> \in Seq(Nat)
    BY DEF Lines
  <2>2. Records(<<>>) = {} /\ Ordered(<<>>) /\ ToSet(<<>>) = {}
    BY DEF Records, Ordered, ToSet
  <2>3. QED BY <2>1, <2>2, MessagesEmpty
<1>3. ASSUME NEW q \in Seq(Nat), NEW n \in Nat, q \in P PROVE Append(q, n) \in P
  <2>1. Lines(Append(q, n)) = Append(Lines(q), Message(n))
    <3>1. Lines(q) \in Seq(Line) /\ Len(Lines(q)) = Len(q)
      BY <1>3 DEF Lines
    <3> DEFINE a == Lines(Append(q, n))  b == Append(Lines(q), Message(n))
    <3>2. Len(q) \in Nat /\ DOMAIN a = 1 .. Len(q) + 1
      BY DEF Lines
    <3>3. \A i \in 1 .. Len(q) + 1 : a[i] = IF i = Len(q) + 1 THEN Message(n) ELSE Message(q[i])
      BY DEF Lines
    <3>4. DOMAIN b = 1 .. Len(q) + 1
      BY <3>1, <3>2
    <3>5. \A i \in 1 .. Len(q) + 1 : b[i] = IF i = Len(q) + 1 THEN Message(n) ELSE Lines(q)[i]
      BY <3>1, <3>2
    <3>6. \A i \in 1 .. Len(q) + 1 : i # Len(q) + 1 => Lines(q)[i] = Message(q[i])
      BY <3>2 DEF Lines
    <3>7. a = [i \in 1 .. Len(q) + 1 |-> a[i]] /\ b = [i \in 1 .. Len(q) + 1 |-> b[i]]
      <4>1. a = [i \in DOMAIN a |-> a[i]]
        BY DEF Lines
      <4>2. b \in Seq(Line)
        BY <1>1, <3>1
      <4>3. b = [i \in DOMAIN b |-> b[i]]
        <5> HIDE DEF b
        <5>1. QED BY <4>2
      <4>4. QED BY <3>2, <3>4, <4>1, <4>3
    <3>8. \A i \in 1 .. Len(q) + 1 : a[i] = b[i]
      BY <3>3, <3>5, <3>6
    <3> HIDE DEF a, b
    <3>9. a = b
      BY <3>7, <3>8
    <3>10. QED BY <3>9 DEF a, b
  <2>2. Append(q, n) \in Seq(Nat) /\ ToSet(Append(q, n)) = ToSet(q) \cup {n}
    <3>1. Append(q, n) \in Seq(Nat)
      OBVIOUS
    <3>2. DOMAIN q = 1 .. Len(q) /\ DOMAIN Append(q, n) = 1 .. Len(q) + 1 /\ Len(q) \in Nat
          /\ Append(q, n)[Len(q) + 1] = n /\ \A i \in 1 .. Len(q) : Append(q, n)[i] = q[i]
      OBVIOUS
    <3>3. 1 .. Len(q) + 1 = 1 .. Len(q) \cup {Len(q) + 1}
      BY <3>2
    <3>4. ToSet(Append(q, n)) = {Append(q, n)[i] : i \in 1 .. Len(q) \cup {Len(q) + 1}}
      BY <3>2, <3>3 DEF ToSet
    <3>5. ToSet(q) = {q[i] : i \in 1 .. Len(q)}
      BY <3>2 DEF ToSet
    <3>6. QED BY <3>1, <3>2, <3>4, <3>5
  <2>3. /\ Lines(q) \in Seq(Line) /\ Messages(Lines(q)) = q /\ Ordered(Lines(q))
        /\ Records(Lines(q)) = {Message(k) : k \in ToSet(q)}
    BY <1>3
  <2>4. Messages(Append(Lines(q), Message(n))) = Append(q, n)
    BY <1>1, <2>3, MessagesAppend
  <2>5. Append(Lines(q), Message(n)) \in Seq(Line)
        /\ Records(Append(Lines(q), Message(n))) = Records(Lines(q)) \cup {Message(n)}
    BY <1>1, <2>3, Appended
  <2>6. Ordered(Append(Lines(q), Message(n)))
    BY <1>1, <2>3, OrderedAppend
  <2>7. Records(Append(Lines(q), Message(n))) = {Message(k) : k \in ToSet(Append(q, n))}
    BY <2>2, <2>3, <2>5
  <2>8. QED BY <2>1, <2>2, <2>4, <2>5, <2>6, <2>7
<1> HIDE DEF P
<1>4. Seq(Nat) \subseteq P
  BY <1>2, <1>3, SeqInduction, Zenon
<1>5. /\ Lines(m) \in Seq(Line) /\ Messages(Lines(m)) = m /\ Ordered(Lines(m))
      /\ Records(Lines(m)) = {Message(n) : n \in ToSet(m)}
  BY <1>4 DEF P
<1>6. \A n \in ToSet(m) : n \in Nat
  BY DEF ToSet
<1>7. QED BY <1>1, <1>5, <1>6

(* The run records have no messages among them. *)
LEMMA RunsAlone ==
  ASSUME NEW k \in Seq(RunSet)
  PROVE  k \in Seq(Line) /\ Messages(k) = <<>> /\ Records(k) = ToSet(k)
<1>1. k \in Seq(Line)
  <2>1. RunSet \subseteq Line
    BY DEF Line, RecordSet
  <2>2. QED BY <2>1, SeqMonotonic
<1>2. \A l \in ToSet(k) : l \in RunSet
  BY DEF ToSet
<1>3. Records(k) = ToSet(k)
  BY <1>1, <1>2, RecordsAre DEF RecordSet
<1>4. ToSet(OfKind(k, "message")) = {} /\ OfKind(k, "message") \in Seq(Line)
  <2>1. \A l \in ToSet(k) : ~(l.kind = "message")
    BY <1>2, LineKinds DEF IsMessage
  <2>2. QED BY <1>1, <2>1, OfKindSet
<1>5. OfKind(k, "message") = <<>>
  <2> DEFINE o == OfKind(k, "message")
  <2> HIDE DEF o
  <2>1. o \in Seq(Line) /\ ToSet(o) = {}
    BY <1>4 DEF o
  <2>2. Len(o) = 0
    <3>1. Len(o) \in Nat /\ DOMAIN o = 1 .. Len(o)
      BY <2>1
    <3>2. Len(o) # 0 => o[1] \in ToSet(o)
      BY <3>1 DEF ToSet
    <3>3. QED BY <2>1, <3>2
  <2>3. o = <<>>
    BY <2>1, <2>2
  <2>4. QED BY <2>3 DEF o
<1>6. Messages(k) = <<>>
  BY <1>5 DEF Messages
<1>7. QED BY <1>1, <1>3, <1>6

(* The file a rewrite makes. *)
Rewritten(m, k) == <<Header(SESSION_VERSION)>> \o (Lines(m) \o k)

(* It has the messages of m, in their order, and the run records of k. *)
LEMMA RewrittenIs ==
  ASSUME NEW m \in Seq(Nat), NEW k \in Seq(RunSet)
  PROVE  /\ Rewritten(m, k) \in Seq(Line)
         /\ Len(Rewritten(m, k)) = Len(Lines(m) \o k) + 1 /\ Len(Lines(m) \o k) \in Nat
         /\ Records(Rewritten(m, k)) = {Message(n) : n \in ToSet(m)} \cup ToSet(k)
         /\ Messages(Rewritten(m, k)) = m
         /\ Ordered(k) => Ordered(Rewritten(m, k))
         /\ LoadsLines(Rewritten(m, k))
<1> DEFINE h == <<Header(SESSION_VERSION)>>  kept == Lines(m) \o k  s == h \o kept
<1>1. k \in Seq(Line) /\ Messages(k) = <<>> /\ Records(k) = ToSet(k)
  BY RunsAlone
<1>2. /\ Lines(m) \in Seq(Line) /\ Messages(Lines(m)) = m /\ Ordered(Lines(m))
      /\ Records(Lines(m)) = {Message(n) : n \in ToSet(m)} /\ \A l \in Records(Lines(m)) : ~IsRun(l)
  BY LinesAre
<1>3. /\ kept \in Seq(Line) /\ Records(kept) = {Message(n) : n \in ToSet(m)} \cup ToSet(k)
      /\ Messages(kept) = m /\ (Ordered(k) => Ordered(kept))
  BY <1>1, <1>2, ConcatLines
<1>4. /\ h \in Seq(Line) /\ Len(h) = 1 /\ h[1] = Header(SESSION_VERSION)
      /\ Records(h) = {} /\ Messages(h) = <<>> /\ Ordered(h)
  BY HeaderOnly
<1> HIDE DEF h, kept
<1>5. /\ s \in Seq(Line) /\ Records(s) = {Message(n) : n \in ToSet(m)} \cup ToSet(k)
      /\ Messages(s) = m /\ (Ordered(k) => Ordered(s))
  <2>1. s = h \o kept
    OBVIOUS
  <2>2. /\ h \o kept \in Seq(Line) /\ Records(h \o kept) = Records(h) \cup Records(kept)
        /\ Messages(h) = <<>> => Messages(h \o kept) = Messages(kept)
        /\ ((\A l \in Records(h) : ~IsRun(l)) /\ Ordered(h) /\ Ordered(kept)) => Ordered(h \o kept)
    <3>1. h \in Seq(Line) /\ kept \in Seq(Line)
      BY <1>3, <1>4
    <3>2. QED BY <3>1, ConcatLines
  <2>3. QED BY <1>3, <1>4, <2>1, <2>2
<1>6. Len(s) = Len(kept) + 1 /\ Len(kept) \in Nat /\ s[1] = h[1]
  <2>1. s = h \o kept
    OBVIOUS
  <2>2. /\ Len(h \o kept) = Len(h) + Len(kept)
        /\ \A i \in 1 .. Len(h) + Len(kept) :
             (h \o kept)[i] = IF i \leq Len(h) THEN h[i] ELSE kept[i - Len(h)]
    BY <1>3, <1>4, ConcatProperties
  <2>3. Len(kept) \in Nat
    BY <1>3
  <2>4. 1 \in 1 .. Len(h) + Len(kept) /\ 1 \leq Len(h)
    BY <1>4, <2>3
  <2>5. QED BY <1>4, <2>1, <2>2, <2>3, <2>4
<1>7. LoadsLines(s)
  BY <1>4, <1>6 DEF LoadsLines, Header, SESSION_VERSION
<1> HIDE DEF s
<1>8. Rewritten(m, k) = s /\ kept = Lines(m) \o k
  BY DEF Rewritten, s, h, kept
<1>9. QED BY <1>5, <1>6, <1>7, <1>8

(* What a power failure leaves keeps the durable lines and adds no record. *)
LEMMA RemainsAre ==
  ASSUME NEW f, Sound(f), ~f.missing, LoadsLines(f.lines), Ordered(f.lines),
         NEW d \in 0 .. Len(f.lines), ~CutsCharacters, NEW g \in Remains(f, d)
  PROVE  /\ Sound(g) /\ ~g.missing /\ LoadsLines(g.lines) /\ Ordered(g.lines)
         /\ Records(g.lines) \subseteq Records(f.lines)
         /\ d \leq Len(g.lines) /\ \A i \in 1 .. d : g.lines[i] = f.lines[i]
<1> DEFINE s == f.lines  p(n) == SubSeq(s, 1, n)
<1>1. s \in Seq(Line) /\ f.open \in BOOLEAN /\ Len(s) \in Nat /\ d \in Nat /\ d \leq Len(s)
  BY DEF Sound, FileSet
<1>2. CASE g = f
  BY <1>1, <1>2
<1>3. ASSUME NEW n \in 0 .. Len(s), d \leq n, NEW o \in BOOLEAN, o => n # 0, g = File(p(n), o)
      PROVE  /\ Sound(g) /\ ~g.missing /\ LoadsLines(g.lines) /\ Ordered(g.lines)
             /\ Records(g.lines) \subseteq Records(f.lines)
             /\ d \leq Len(g.lines) /\ \A i \in 1 .. d : g.lines[i] = f.lines[i]
  <2>1. /\ p(n) \in Seq(Line) /\ Len(p(n)) = n /\ \A i \in 1 .. n : p(n)[i] = s[i]
        /\ Records(p(n)) \subseteq Records(s) /\ Ordered(p(n)) /\ LoadsLines(p(n))
    BY <1>1, PrefixIs
  <2> HIDE DEF p
  <2>2. o => p(n) # <<>>
    <3>1. Len(<<>>) = 0
      OBVIOUS
    <3>2. QED BY <1>3, <2>1, <3>1
  <2>3. Sound(g) /\ ~g.missing /\ g.lines = p(n)
    BY <1>3, <2>1, <2>2, FileIs
  <2>4. \A i \in 1 .. d : i \in 1 .. n
    BY <1>1, <1>3
  <2>5. QED BY <1>3, <2>1, <2>3, <2>4
<1>4. ASSUME NEW n \in 0 .. Len(s), d \leq n, g = File(Append(p(n), Junk), TRUE)
      PROVE  /\ Sound(g) /\ ~g.missing /\ LoadsLines(g.lines) /\ Ordered(g.lines)
             /\ Records(g.lines) \subseteq Records(f.lines)
             /\ d \leq Len(g.lines) /\ \A i \in 1 .. d : g.lines[i] = f.lines[i]
  <2>1. /\ p(n) \in Seq(Line) /\ Len(p(n)) = n /\ \A i \in 1 .. n : p(n)[i] = s[i]
        /\ Records(p(n)) \subseteq Records(s) /\ Ordered(p(n)) /\ LoadsLines(p(n))
    BY <1>1, PrefixIs
  <2> HIDE DEF p
  <2> DEFINE t == Append(p(n), Junk)
  <2>2. Junk \in Line /\ Junk \notin RecordSet /\ Junk.kind # "header" /\ ~IsRun(Junk)
    BY LineKinds DEF IsRun
  <2>3. /\ t \in Seq(Line) /\ t # <<>> /\ Len(t) = n + 1 /\ \A i \in 1 .. n : t[i] = p(n)[i]
        /\ Records(t) = Records(p(n))
    BY <2>1, <2>2, Appended
  <2>4. Written(p(n), t, Junk)
    BY <2>1, <2>2, WrittenAppend
  <2>5. LoadsLines(t) /\ Ordered(t)
    BY <2>1, <2>2, <2>4 DEF Written
  <2> HIDE DEF t
  <2>6. Sound(g) /\ ~g.missing /\ g.lines = t
    BY <1>4, <2>3, FileIs DEF t
  <2>7. \A i \in 1 .. d : i \in 1 .. n
    BY <1>1, <1>4
  <2>8. d \leq n + 1
    BY <1>1, <1>4
  <2>9. QED BY <2>1, <2>3, <2>5, <2>6, <2>7, <2>8
<1>5. CASE g # f
  <2>1. PICK n \in d .. Len(s) - 1 :
          g \in {File(p(n), FALSE), File(p(n + 1), TRUE), File(Append(p(n), Junk), TRUE)}
    BY <1>5 DEF Remains
  <2>2. n \in 0 .. Len(s) /\ n + 1 \in 0 .. Len(s) /\ d \leq n /\ d \leq n + 1 /\ n + 1 # 0
    BY <1>1
  <2> HIDE DEF p
  <2>3. CASE g = File(p(n), FALSE)
    BY <1>3, <2>2, <2>3
  <2>4. CASE g = File(p(n + 1), TRUE)
    BY <1>3, <2>2, <2>4
  <2>5. CASE g = File(Append(p(n), Junk), TRUE)
    BY <1>4, <2>2, <2>5
  <2>6. QED BY <2>1, <2>3, <2>4, <2>5
<1>6. QED BY <1>2, <1>5

(* What is loaded from a file. *)
LEMMA LoadedIs ==
  ASSUME NEW f, Sound(f), LoadsLines(f.lines), Ordered(f.lines)
  PROVE  /\ LoadReport(f).messages = Messages(f.lines)
         /\ LoadReport(f).unfinished = Open(Records(f.lines))
         /\ ~f.missing => Readable(f)
         /\ ~TooNew(f)
<1>1. f.lines \in Seq(Line) /\ \A i \in DOMAIN f.lines : f.lines[i] \in Line
  BY DEF Sound, FileSet
<1>2. ~f.missing => Readable(f)
  BY <1>1, LineKinds DEF Readable
<1>3. ~TooNew(f)
  <2>1. ASSUME Versioned(f) PROVE ~(f.lines[1].version > SESSION_VERSION)
    <3>1. f.lines # <<>> /\ f.lines[1].kind = "header"
      BY <2>1 DEF Versioned
    <3>2. f.lines[1] \in Line
      <4>1. Len(f.lines) \in Nat /\ Len(f.lines) # 0
        BY <1>1, <3>1
      <4>2. 1 \in DOMAIN f.lines
        BY <1>1, <4>1
      <4>3. QED BY <1>1, <4>2
    <3>3. f.lines[1].version \in Nat
      BY <3>1, <3>2 DEF Line, RecordSet, MessageSet, RunSet, HeaderSet, FragmentSet, Junk
    <3>4. f.lines[1].version \leq SESSION_VERSION
      BY <3>1 DEF LoadsLines
    <3>5. QED BY <3>3, <3>4 DEF SESSION_VERSION
  <2>2. QED BY <2>1 DEF TooNew
<1>4. CASE f.missing
  <2>1. f.lines = <<>>
    BY <1>4, NoFileIs DEF Sound
  <2>2. LoadReport(f) = [messages |-> <<>>, unfinished |-> {}]
    BY <1>4 DEF LoadReport, Readable
  <2>3. Records(<<>>) = {}
    BY DEF Records, ToSet
  <2>4. Open({}) = {}
    BY DEF Open
  <2>5. QED BY <1>2, <1>3, <1>4, <2>1, <2>2, <2>3, <2>4, MessagesEmpty
<1>5. CASE ~f.missing
  <2>1. LoadReport(f) = [messages |-> Messages(f.lines),
                         unfinished |-> {r \in RunsIn(f.lines) : LastState(f.lines, r) = "started"}]
    BY <1>2, <1>3, <1>5 DEF LoadReport
  <2>2. QED BY <1>1, <1>2, <1>3, <2>1, UnfinishedIsOpen
<1>6. QED BY <1>4, <1>5

-----------------------------------------------------------------------------
(* The steps of a call. *)

JobSet == [at : Places, rec : RecordSet \cup {None}, gen : Nat, keep : Seq(RunSet), old : FileSet]

(* What a task's place in a call is. *)
LEMMA JobIs ==
  ASSUME JobsOK, NEW t \in Tasks
  PROVE  /\ job \in [Tasks -> JobSet] /\ job[t] \in JobSet /\ job[t].at \in Places
         /\ job[t].rec \in RecordSet \cup {None} /\ job[t].gen \in Nat
         /\ job[t].keep \in Seq(RunSet) /\ job[t].old \in FileSet
         /\ InCall(t) <=> job[t].at # "idle"
         /\ job[t].at = "idle" => job[t].rec = None
         /\ job[t].at = "message" => job[t].rec \in MessageSet
         /\ job[t].at \in {"head", "tail"} => job[t].rec \in RunSet
         /\ job[t].at \in {"create", "boundary", "message", "head", "tail"} => job[t].rec \in RecordSet
         /\ job[t].at \in {"rename", "dirsync"} => t = Turn /\ job[t].rec = None
         /\ job[t].at \in {"boundary", "message", "head", "tail"} => ~file.missing
         /\ job[t].at # "idle" => ~down /\ pending = {}
<1>1. job \in [Tasks -> JobSet]
  BY DEF JobsOK, JobSet
<1>2. job[t] \in JobSet
  BY <1>1
<1>3. /\ job[t].at \in Places /\ job[t].rec \in RecordSet \cup {None} /\ job[t].gen \in Nat
      /\ job[t].keep \in Seq(RunSet) /\ job[t].old \in FileSet
  BY <1>2 DEF JobSet
<1>4. MessageSet \subseteq RecordSet /\ RunSet \subseteq RecordSet
  BY DEF RecordSet
<1>5. QED BY <1>1, <1>2, <1>3, <1>4 DEF JobsOK, InCall

(* A call that overlaps another one exposes the records of both. *)
LEMMA Overlapping ==
  ASSUME JobsOK, exposed \subseteq RecordSet, NEW t \in Tasks, InCall(t), Expose(t)
  PROVE  /\ exposed \subseteq exposed' /\ exposed' \subseteq RecordSet
         /\ \A o \in Tasks \ {t} : InCall(o) =>
              \A p \in {o, t} : job[p].rec \in RecordSet => job[p].rec \in exposed'
<1>1. exposed' = exposed \cup Overlaps(t)
  BY DEF Expose
<1>2. Overlaps(t) \subseteq RecordSet
  <2>1. \A o \in Tasks : job[o].rec \in RecordSet \cup {None}
    BY JobIs
  <2>2. QED BY <2>1 DEF Overlaps
<1>3. ASSUME NEW o \in Tasks \ {t}, InCall(o), NEW p \in {o, t}, job[p].rec \in RecordSet
      PROVE  job[p].rec \in exposed'
  <2>1. p \in {q \in Tasks : InCall(q)} /\ job[p].rec # None
    BY <1>3, LineKinds
  <2>2. job[p].rec \in Overlaps(t)
    BY <1>3, <2>1 DEF Overlaps
  <2>3. QED BY <1>1, <2>2
<1>4. QED BY <1>1, <1>2, <1>3

(* A call of t writes x: its record, or something that is no record. *)
Writes(t, x) ==
    /\ t \in Tasks /\ job[t].at \in {"boundary", "message", "head", "tail"}
    /\ Sound(file') /\ ~file'.missing /\ Written(file.lines, file'.lines, x)
    /\ x \in {job[t].rec, Junk}
    /\ Expose(t)
    /\ \/ settled' = settled
       \/ settled' = settled \cup {job[t].rec} /\ job[t].rec \in exposed' \cup {x}
    /\ \A o \in Tasks \ {t} : job'[o] = job[o]
    /\ job'[t].at \notin {"create", "rename", "dirsync"}
    /\ UNCHANGED <<durable, mem, life, boot, pending, down, firm>>

(* The record of a call fits behind what is in the file. *)
LEMMA OwnFits ==
  ASSUME IInv, NEW t \in Tasks, job[t].rec \in RunSet, NEW recs, Known(recs, boot, down, life)
  PROVE  /\ job[t].rec.run = RunOf(t) /\ life[t] # "new" /\ ~down
         /\ job[t].rec.state \in EndStates => life[t] = "over"
         /\ \/ job[t].rec.state \in EndStates
            \/ \A e \in EndStates : RunRecord(job[t].rec.run, e) \notin recs
<1> USE DEF IInv
<1>1. job[t].rec = RunRecord(job[t].rec.run, job[t].rec.state) /\ job[t].rec.state \in RunStates
      /\ IsRun(job[t].rec)
  BY LineKinds
<1>2. /\ job[t].rec.run = RunOf(t)
      /\ life[t] = IF job[t].rec.state = "started" THEN "started" ELSE "over"
  BY <1>1 DEF OwnRecords
<1>3. ~down
  <2>1. job[t].rec # None
    BY LineKinds DEF RecordSet
  <2>2. QED BY <2>1, JobIs
<1>4. job[t].rec.state \in EndStates => life[t] = "over"
  BY <1>2 DEF EndStates
<1>5. ASSUME job[t].rec.state \notin EndStates, NEW e \in EndStates,
             RunRecord(job[t].rec.run, e) \in recs
      PROVE  FALSE
  <2>1. life[t] = "started"
    BY <1>1, <1>2, <1>5 DEF EndStates
  <2> DEFINE l == RunRecord(job[t].rec.run, e)
  <2>2. IsRun(l) /\ l.run = RunOf(t) /\ l.state = e
    BY <1>2 DEF RunRecord, IsRun
  <2> HIDE DEF l
  <2>3. l.state \in EndStates => life[t] = "over"
    <3>1. l \in recs
      BY <1>5 DEF l
    <3>2. QED BY <1>3, <2>2, <3>1 DEF Known, RunOf
  <2>4. QED BY <1>5, <2>1, <2>2, <2>3
<1>6. QED BY <1>2, <1>3, <1>4, <1>5

(* What a write leaves true of the file, its records and what overlaps. *)
LEMMA WritesKeep ==
  ASSUME IInv, NEW t \in Tasks, NEW x, Writes(t, x)
  PROVE  FileOK' /\ RunsKnown' /\ Kept' /\ CreateOverlaps' /\ RewriteKeeps' /\ OpenAreMarked'
<1> USE DEF IInv
<1>1. /\ t \in Tasks /\ job[t].at \in {"boundary", "message", "head", "tail"}
      /\ Sound(file') /\ ~file'.missing /\ Written(file.lines, file'.lines, x)
      /\ x \in {job[t].rec, Junk}
      /\ Expose(t)
      /\ \/ settled' = settled
         \/ settled' = settled \cup {job[t].rec} /\ job[t].rec \in exposed' \cup {x}
      /\ \A o \in Tasks \ {t} : job'[o] = job[o]
      /\ job'[t].at \notin {"create", "rename", "dirsync"}
      /\ durable' = durable /\ mem' = mem /\ life' = life /\ boot' = boot /\ pending' = pending
      /\ down' = down /\ firm' = firm
  BY DEF Writes
<1>2. InCall(t) /\ job[t].rec \in RecordSet /\ ~down
  BY <1>1, JobIs
<1>3. exposed \subseteq RecordSet /\ settled \subseteq RecordSet /\ firm \subseteq settled
  BY DEF StateOK
<1>4. /\ exposed \subseteq exposed'
      /\ \A o \in Tasks \ {t} : InCall(o) =>
           \A p \in {o, t} : job[p].rec \in RecordSet => job[p].rec \in exposed'
  BY <1>1, <1>2, <1>3, Overlapping
<1>5. /\ file.lines \in Seq(Line) /\ file'.lines \in Seq(Line) /\ durable \in 0 .. Len(file.lines)
      /\ LoadsLines(file.lines) /\ Ordered(file.lines)
  BY <1>1 DEF FileOK, Sound, FileSet
<1>6. /\ Len(file.lines) \leq Len(file'.lines)
      /\ \A i \in DOMAIN file.lines : file.lines[i] \in RecordSet => file'.lines[i] = file.lines[i]
      /\ Records(file'.lines) = IF x \in RecordSet THEN Records(file.lines) \cup {x} ELSE Records(file.lines)
      /\ (Ordered(file.lines) /\ (IsRun(x) => x.state \in EndStates
              \/ \A e \in EndStates : RunRecord(x.run, e) \notin Records(file.lines)))
         => Ordered(file'.lines)
      /\ LoadsLines(file.lines) => LoadsLines(file'.lines)
  BY <1>1 DEF Written
<1>7. IsRun(x) => /\ x = job[t].rec /\ x \in RunSet /\ x.run = RunOf(t) /\ life[t] # "new"
                  /\ (x.state \in EndStates => life[t] = "over")
                  /\ \/ x.state \in EndStates
                     \/ \A e \in EndStates : RunRecord(x.run, e) \notin Records(file.lines)
  <2>1. ASSUME IsRun(x) PROVE x = job[t].rec /\ x \in RunSet
    <3>1. ~IsRun(Junk)
      BY DEF IsRun, Junk
    <3>2. QED BY <1>1, <1>2, <2>1, <3>1, LineKinds
  <2>2. Known(Records(file.lines), boot, down, life)
    BY DEF RunsKnown
  <2>3. ASSUME IsRun(x)
        PROVE  /\ x.run = RunOf(t) /\ life[t] # "new" /\ (x.state \in EndStates => life[t] = "over")
               /\ \/ x.state \in EndStates
                  \/ \A e \in EndStates : RunRecord(x.run, e) \notin Records(file.lines)
    <3>1. x = job[t].rec /\ job[t].rec \in RunSet
      BY <2>1, <2>3
    <3>2. QED BY <2>2, <3>1, OwnFits
  <2>4. QED BY <2>1, <2>3
<1>8. ASSUME NEW r \in RecordSet, NEW i \in 1 .. durable, file.lines[i] = r
      PROVE  file'.lines[i] = r
  <2>1. i \in DOMAIN file.lines
    BY <1>5
  <2>2. QED BY <1>6, <1>8, <2>1
<1>9. Records(file.lines) \subseteq Records(file'.lines)
  BY <1>6
<1>10. FileOK'
  <2>1. durable' \in 0 .. Len(file'.lines)
    BY <1>1, <1>5, <1>6
  <2>2. Ordered(file'.lines) /\ LoadsLines(file'.lines)
    BY <1>5, <1>6, <1>7
  <2>3. QED BY <1>1, <2>1, <2>2 DEF FileOK
<1>11. RunsKnown'
  <2>1. /\ Known(Records(file.lines), boot, down, life)
        /\ job[Turn].at = "rename" => Known(ToSet(job[Turn].keep), boot, down, life)
        /\ job[Turn].at = "dirsync" => Known(Records(job[Turn].old.lines), boot, down, life)
    BY DEF RunsKnown
  <2>3. Known(Records(file'.lines), boot, down, life)
    <3>1. ASSUME NEW l \in Records(file'.lines), IsRun(l)
          PROVE  /\ l.run[2] \leq boot
                 /\ \A o \in Tasks : (~down /\ l.run = <<o, boot>>) =>
                      life[o] # "new" /\ (l.state \in EndStates => life[o] = "over")
      <4>1. CASE l \in Records(file.lines)
        BY <2>1, <3>1, <4>1 DEF Known
      <4>2. CASE l = x
        <5>1. x.run = <<t, boot>> /\ boot \in Nat
          BY <1>7, <3>1, <4>2 DEF RunOf, StateOK
        <5>2. x.run[2] \leq boot
          BY <5>1
        <5>3. \A o \in Tasks : x.run = <<o, boot>> => o = t
          BY <5>1
        <5>4. QED BY <1>7, <3>1, <4>2, <5>2, <5>3
      <4>3. QED BY <1>6, <3>1, <4>1, <4>2
    <3>2. QED BY <3>1 DEF Known
  <2>4. job'[Turn].at = "rename" => Known(ToSet(job'[Turn].keep), boot, down, life)
    BY <1>1, <2>1 DEF Tasks
  <2>5. job'[Turn].at = "dirsync" => Known(Records(job'[Turn].old.lines), boot, down, life)
    BY <1>1, <2>1 DEF Tasks
  <2>6. QED BY <1>1, <2>3, <2>4, <2>5 DEF RunsKnown
<1>12. Kept'
  <2>1. settled \ exposed \subseteq Records(file.lines)
        /\ \A r \in firm \ exposed : \E i \in 1 .. durable : file.lines[i] = r
    BY DEF Kept, UndisturbedKept
  <2>2. settled' \ exposed' \subseteq Records(file'.lines)
    <3>1. ASSUME NEW r \in settled' \ exposed' PROVE r \in Records(file'.lines)
      <4>1. CASE r \in settled
        BY <1>4, <1>9, <2>1, <3>1, <4>1
      <4>2. CASE r \notin settled
        <5>1. r = job[t].rec /\ r = x
          BY <1>1, <3>1, <4>2
        <5>2. QED BY <1>2, <1>6, <5>1
      <4>3. QED BY <4>1, <4>2
    <3>2. QED BY <3>1
  <2>3. ASSUME NEW r \in firm \ exposed' PROVE \E i \in 1 .. durable : file'.lines[i] = r
    <3>1. PICK i \in 1 .. durable : file.lines[i] = r
      BY <1>4, <2>1
    <3>2. r \in RecordSet
      BY <1>3
    <3>3. QED BY <1>8, <3>1, <3>2
  <2>4. QED BY <1>1, <2>2, <2>3 DEF Kept, UndisturbedKept
<1>13. CreateOverlaps'
  <2>1. ASSUME NEW o \in Tasks, job'[o].at = "create" PROVE settled' \subseteq exposed'
    <3>1. o # t /\ job[o].at = "create"
      BY <1>1, <2>1
    <3>2. settled \subseteq exposed
      BY <3>1 DEF CreateOverlaps
    <3>3. InCall(o)
      BY <3>1 DEF InCall
    <3>4. job[t].rec \in exposed'
      BY <1>2, <1>4, <3>1, <3>3
    <3>5. QED BY <1>1, <1>4, <3>2, <3>4
  <2>2. QED BY <1>1, <2>1 DEF CreateOverlaps
<1>14. RewriteKeeps'
  <2>1. CASE t = Turn
    BY <1>1, <2>1 DEF RewriteKeeps
  <2>2. CASE t # Turn
    <3>1. job'[Turn] = job[Turn]
      BY <1>1, <2>2 DEF Tasks
    <3>2. ASSUME job[Turn].at \in {"rename", "dirsync"} PROVE job[t].rec \in exposed'
      <4>1. InCall(Turn) /\ Turn \in Tasks \ {t}
        BY <2>2, <3>2 DEF InCall, Tasks
      <4>2. QED BY <1>2, <1>4, <4>1
    <3>3. ASSUME job[Turn].at \in {"rename", "dirsync"} PROVE settled' \ exposed' \subseteq settled \ exposed
      BY <1>1, <1>4, <3>2, <3>3
    <3>4. job[Turn].at = "rename" =>
            /\ \A r \in settled \ exposed : IsRun(r) => r \in ToSet(job[Turn].keep)
            /\ Ordered(job[Turn].keep)
      BY DEF RewriteKeeps
    <3>5. job[Turn].at = "dirsync" =>
            /\ Sound(job[Turn].old)
            /\ firm \ exposed \subseteq Records(job[Turn].old.lines)
            /\ LoadsLines(job[Turn].old.lines)
            /\ Ordered(job[Turn].old.lines)
            /\ \A r \in settled \ exposed : IsMessage(r) => \E i \in 1 .. durable : file.lines[i] = r
      BY DEF RewriteKeeps
    <3>6. job[Turn].at = "rename" => \A r \in settled' \ exposed' : IsRun(r) => r \in ToSet(job[Turn].keep)
      BY <3>3, <3>4
    <3>7. ASSUME job[Turn].at = "dirsync", NEW r \in settled' \ exposed', IsMessage(r)
          PROVE  \E i \in 1 .. durable : file'.lines[i] = r
      <4>1. r \in settled \ exposed /\ r \in RecordSet
        BY <1>3, <3>3, <3>7
      <4>2. PICK i \in 1 .. durable : file.lines[i] = r
        BY <3>5, <3>7, <4>1
      <4>3. QED BY <1>8, <4>1, <4>2
    <3>8. job[Turn].at = "dirsync" => firm' \ exposed' \subseteq Records(job[Turn].old.lines)
      BY <1>1, <1>4, <3>5
    <3>9. QED BY <1>1, <3>1, <3>4, <3>5, <3>6, <3>7, <3>8 DEF RewriteKeeps
  <2>3. QED BY <2>1, <2>2
<1>15. OpenAreMarked'
  <2>1. /\ \A r \in Open(Records(file.lines)) : r[2] # boot => r \in pending
        /\ job[Turn].at = "rename" => \A r \in Open(ToSet(job[Turn].keep)) : r[2] = boot
    BY <1>2 DEF OpenAreMarked
  <2>2. ASSUME NEW r \in Open(Records(file'.lines)), r[2] # boot PROVE r \in pending
    <3>1. RunRecord(r, "started") \in Records(file'.lines)
          /\ \A s \in EndStates : RunRecord(r, s) \notin Records(file'.lines)
      BY <2>2 DEF Open
    <3>2. IsRun(RunRecord(r, "started")) /\ RunRecord(r, "started").run = r
      BY DEF RunRecord, IsRun
    <3>3. RunRecord(r, "started") # x
      <4>1. ASSUME RunRecord(r, "started") = x PROVE FALSE
        <5>1. r = <<t, boot>>
          BY <1>7, <3>2, <4>1 DEF RunOf
        <5>2. QED BY <2>2, <5>1
      <4>2. QED BY <4>1
    <3>4. RunRecord(r, "started") \in Records(file.lines)
          /\ \A s \in EndStates : RunRecord(r, s) \notin Records(file.lines)
      BY <1>6, <1>9, <3>1, <3>3
    <3>5. r \in Open(Records(file.lines))
      BY <3>2, <3>4 DEF Open
    <3>6. QED BY <2>1, <2>2, <3>5
  <2>3. job'[Turn].at = "rename" => \A r \in Open(ToSet(job'[Turn].keep)) : r[2] = boot
    BY <1>1, <2>1 DEF Tasks
  <2>4. QED BY <1>1, <2>2, <2>3 DEF OpenAreMarked
<1>16. QED BY <1>10, <1>11, <1>12, <1>13, <1>14, <1>15

(* A call of t moves on or returns. *)
LEMMA JobMoves ==
  ASSUME JobsOK, NEW t \in Tasks
  PROVE  /\ Idle \in JobSet /\ Idle.at = "idle" /\ Idle.rec = None
         /\ \A a \in Places : Go(t, a) =>
              /\ job' \in [Tasks -> JobSet]
              /\ \A o \in Tasks \ {t} : job'[o] = job[o]
              /\ job'[t].at = a /\ job'[t].rec = job[t].rec
         /\ Return(t) =>
              /\ job' \in [Tasks -> JobSet]
              /\ \A o \in Tasks \ {t} : job'[o] = job[o]
              /\ job'[t] = Idle
<1>1. Idle \in JobSet /\ Idle.at = "idle" /\ Idle.rec = None
  <2>1. <<>> \in Seq(RunSet) /\ NoFile \in FileSet /\ "idle" \in Places
    BY NoFileIs DEF Sound, Places
  <2>2. QED BY <2>1 DEF Idle, JobSet
<1>2. job \in [Tasks -> JobSet] /\ job[t] \in JobSet
  BY JobIs
<1>3. ASSUME NEW a \in Places, Go(t, a)
      PROVE  /\ job' \in [Tasks -> JobSet]
             /\ \A o \in Tasks \ {t} : job'[o] = job[o]
             /\ job'[t].at = a /\ job'[t].rec = job[t].rec
  <2>1. job' = [job EXCEPT ![t] = [job[t] EXCEPT !.at = a]]
    BY <1>2, <1>3 DEF Go
  <2>2. [job[t] EXCEPT !.at = a] \in JobSet /\ [job[t] EXCEPT !.at = a].at = a
        /\ [job[t] EXCEPT !.at = a].rec = job[t].rec
    BY <1>2, <1>3 DEF JobSet
  <2>3. QED BY <1>2, <2>1, <2>2
<1>4. ASSUME Return(t)
      PROVE  /\ job' \in [Tasks -> JobSet]
             /\ \A o \in Tasks \ {t} : job'[o] = job[o]
             /\ job'[t] = Idle
  BY <1>1, <1>2, <1>4 DEF Return
<1>5. QED BY <1>1, <1>3, <1>4

(* A step of a call that goes on or returns. *)
Moves(t) ==
    /\ job[t].at \in {"create", "boundary", "message", "head", "tail"}
    /\ Expose(t)
    /\ job' \in [Tasks -> JobSet]
    /\ \A o \in Tasks \ {t} : job'[o] = job[o]
    /\ \/ job'[t] = Idle
       \/ /\ job'[t].rec = job[t].rec
          /\ \/ job'[t].at = "boundary"
             \/ job'[t].at = "message" /\ job[t].rec \in MessageSet
             \/ job'[t].at \in {"head", "tail"} /\ job[t].rec \in RunSet
    /\ ~file'.missing
    /\ settled' = settled \/ settled' = settled \cup {job[t].rec}
    /\ gen' = gen /\ mem' = mem /\ life' = life /\ boot' = boot /\ pending' = pending
    /\ down' = down /\ firm' = firm /\ written' = written

(* What a step of a call leaves true of the calls, and whom it exposes. *)
LEMMA MovesKeep ==
  ASSUME IInv, NEW t \in Tasks, Moves(t)
  PROVE  /\ StateOK' /\ JobsOK' /\ OwnRecords'
         /\ \A o \in Tasks \ {t} : job[o].at # "idle" /\ job[o].rec \in RecordSet => job[o].rec \in exposed'
<1> USE DEF IInv
<1>1. InCall(t) /\ job[t].rec \in RecordSet /\ ~down /\ pending = {}
  BY JobIs DEF Moves
<1>2. /\ exposed \subseteq exposed' /\ exposed' \subseteq RecordSet
      /\ \A o \in Tasks \ {t} : InCall(o) =>
           \A p \in {o, t} : job[p].rec \in RecordSet => job[p].rec \in exposed'
  BY <1>1, Overlapping DEF Moves, StateOK
<1>3. StateOK'
  <2>1. settled' \subseteq RecordSet /\ firm' \subseteq settled'
    BY <1>1 DEF StateOK, Moves
  <2>2. /\ gen' \in Nat /\ boot' \in Nat /\ down' \in BOOLEAN /\ mem' \in Seq(Nat)
        /\ life' \in [Tasks -> {"new", "started", "over"}]
        /\ written' \in [messages : Nat, rewrites : Nat, runs : Nat]
        /\ \A r \in pending' : r \in RunIds /\ r[2] < boot'
    BY DEF StateOK, Moves
  <2>3. QED BY <1>2, <2>1, <2>2 DEF StateOK
<1>4. JobsOK'
  <2>1. ASSUME NEW o \in Tasks
        PROVE  /\ job'[o].at = "idle" => job'[o].rec = None
               /\ job'[o].at = "message" => job'[o].rec \in MessageSet
               /\ job'[o].at \in {"head", "tail"} => job'[o].rec \in RunSet
               /\ job'[o].at \in {"create", "boundary"} => job'[o].rec # None
               /\ job'[o].at \in {"rename", "dirsync"} => o = Turn /\ job'[o].rec = None
               /\ job'[o].at \in {"boundary", "message", "head", "tail"} => ~file'.missing
               /\ job'[o].at # "idle" => ~down' /\ pending' = {}
    <3>1. CASE o # t
      BY <3>1 DEF JobsOK, Moves
    <3>2. CASE o = t
      <4>1. job[t].rec # None
        BY <1>1, LineKinds
      <4>2. Idle.at = "idle" /\ Idle.rec = None
        BY JobMoves
      <4>3. CASE job'[t] = Idle
        BY <3>2, <4>2, <4>3
      <4>4. CASE job'[t].rec = job[t].rec /\ job'[t].at = "boundary"
        BY <1>1, <3>2, <4>1, <4>4 DEF Moves
      <4>5. CASE job'[t].rec = job[t].rec /\ job'[t].at = "message" /\ job[t].rec \in MessageSet
        BY <1>1, <3>2, <4>1, <4>5 DEF Moves
      <4>6. CASE job'[t].rec = job[t].rec /\ job'[t].at \in {"head", "tail"} /\ job[t].rec \in RunSet
        BY <1>1, <3>2, <4>1, <4>6 DEF Moves
      <4>7. QED BY <4>3, <4>4, <4>5, <4>6 DEF Moves
    <3>3. QED BY <3>1, <3>2
  <2>2. job' \in [Tasks -> [at : Places, rec : RecordSet \cup {None}, gen : Nat, keep : Seq(RunSet),
                            old : FileSet]]
    BY DEF Moves, JobSet
  <2>3. QED BY <2>1, <2>2 DEF JobsOK
<1>5. OwnRecords'
  <2>1. ASSUME NEW o \in Tasks
        PROVE  /\ IsMessage(job'[o].rec) => o = Turn
               /\ IsRun(job'[o].rec) =>
                    /\ job'[o].rec.run = <<o, boot>>
                    /\ life[o] = IF job'[o].rec.state = "started" THEN "started" ELSE "over"
    <3>1. job'[o].rec = job[o].rec \/ job'[o].rec = None
      <4>1. Idle.rec = None
        BY JobMoves
      <4>2. QED BY <4>1 DEF Moves
    <3>2. ~IsMessage(None) /\ ~IsRun(None)
      BY LineKinds
    <3>3. QED BY <3>1, <3>2 DEF OwnRecords, RunOf
  <2>2. boot' = boot /\ life' = life
    BY DEF Moves
  <2>3. QED BY <2>1, <2>2 DEF OwnRecords, RunOf
<1>6. \A o \in Tasks \ {t} : job[o].at # "idle" /\ job[o].rec \in RecordSet => job[o].rec \in exposed'
  BY <1>2 DEF InCall
<1>7. QED BY <1>3, <1>4, <1>5, <1>6

(* What a write does to the messages. *)
LEMMA WritesMemory ==
  ASSUME IInv, NEW t \in Tasks, NEW x, Writes(t, x),
         \/ job'[t].rec = job[t].rec /\ x = Junk
         \/ job'[t] = Idle /\ (IsMessage(job[t].rec) => job[t].rec \in exposed' \cup {x})
  PROVE  MemoryIsJournal'
<1> USE DEF IInv
<1>1. /\ job[t].at \in {"boundary", "message", "head", "tail"}
      /\ ~file'.missing /\ Written(file.lines, file'.lines, x)
      /\ x \in {job[t].rec, Junk}
      /\ Expose(t)
      /\ \A o \in Tasks \ {t} : job'[o] = job[o]
      /\ job'[t].at \notin {"create", "rename", "dirsync"}
      /\ mem' = mem /\ down' = down
  BY DEF Writes
<1>2. InCall(t) /\ job[t].rec \in RecordSet
  BY <1>1, JobIs
<1>3. /\ exposed \subseteq exposed'
      /\ \A o \in Tasks \ {t} : InCall(o) =>
           \A p \in {o, t} : job[p].rec \in RecordSet => job[p].rec \in exposed'
  BY <1>1, <1>2, Overlapping DEF StateOK
<1>4. Messages(file'.lines) = IF IsMessage(x) THEN Append(Messages(file.lines), x.id)
                              ELSE Messages(file.lines)
  BY <1>1 DEF Written
<1>5. Turn \in Tasks /\ ~IsMessage(None) /\ Idle.rec = None /\ ~IsMessage(Junk)
  BY JobMoves, LineKinds DEF Tasks, IsMessage, Junk
<1>6. IsMessage(job[t].rec) => t = Turn
  BY DEF OwnRecords
<1>7. Appending => InCall(Turn) /\ job[Turn].rec \in RecordSet
  <2>1. Appending => job[Turn].rec # None
    BY <1>5 DEF Appending
  <2>2. QED BY <1>5, <2>1, JobIs
<1>8. SUFFICES ASSUME ~down, \A r \in exposed' : ~IsMessage(r)
      PROVE  /\ IsMessage(job'[Turn].rec) => mem = Append(Messages(file'.lines), job'[Turn].rec.id)
             /\ (~IsMessage(job'[Turn].rec) /\ job'[Turn].at # "rename") => mem = Messages(file'.lines)
             /\ (file'.missing \/ \E o \in Tasks : job'[o].at = "create") =>
                  Messages(file'.lines) = <<>> /\ (~IsMessage(job'[Turn].rec) => mem = <<>>)
  BY <1>1 DEF MemoryIsJournal, Undisturbed, Appending
<1>9. /\ Appending => mem = Append(Messages(file.lines), job[Turn].rec.id)
      /\ (~Appending /\ job[Turn].at # "rename") => mem = Messages(file.lines)
      /\ (file.missing \/ \E o \in Tasks : job[o].at = "create") =>
            Messages(file.lines) = <<>> /\ (~Appending => mem = <<>>)
  BY <1>3, <1>8 DEF MemoryIsJournal, Undisturbed
<1>10. Appending => t = Turn
  BY <1>3, <1>5, <1>7, <1>8 DEF Appending
<1>11. IsMessage(job'[Turn].rec) => Appending /\ job'[Turn].rec = job[Turn].rec /\ x = Junk
  <2>1. CASE t = Turn
    BY <1>5, <2>1 DEF Appending
  <2>2. CASE t # Turn
    <3>1. job'[Turn] = job[Turn]
      BY <1>1, <1>5, <2>2
    <3>2. QED BY <1>10, <2>2, <3>1 DEF Appending
  <2>3. QED BY <2>1, <2>2
<1>12. IsMessage(job'[Turn].rec) => mem = Append(Messages(file'.lines), job'[Turn].rec.id)
  BY <1>4, <1>5, <1>9, <1>11
<1>13. ASSUME ~IsMessage(job'[Turn].rec), job'[Turn].at # "rename" PROVE mem = Messages(file'.lines)
  <2>1. CASE Appending
    <3>1. t = Turn /\ IsMessage(job[t].rec)
      BY <1>10, <2>1 DEF Appending
    <3>2. x = job[t].rec
      BY <1>8, <1>13, <3>1
    <3>3. QED BY <1>4, <1>9, <2>1, <3>1, <3>2
  <2>2. CASE ~Appending
    <3>1. ~IsMessage(x)
      BY <1>1, <1>5, <1>6, <2>2 DEF Appending
    <3>2. job[Turn].at # "rename"
      BY <1>1, <1>5, <1>13
    <3>3. QED BY <1>4, <1>9, <2>2, <3>1, <3>2
  <2>3. QED BY <2>1, <2>2
<1>14. ASSUME file'.missing \/ \E o \in Tasks : job'[o].at = "create"
       PROVE  Messages(file'.lines) = <<>> /\ (~IsMessage(job'[Turn].rec) => mem = <<>>)
  <2>1. PICK o \in Tasks : job'[o].at = "create"
    BY <1>1, <1>14
  <2>2. o # t /\ job[o].at = "create"
    BY <1>1, <2>1
  <2>3. InCall(o)
    BY <2>2 DEF InCall
  <2>4. ~IsMessage(job[t].rec)
    BY <1>2, <1>3, <1>8, <2>2, <2>3
  <2>5. ~Appending /\ ~IsMessage(x)
    BY <1>1, <1>5, <1>10, <2>4 DEF Appending
  <2>6. QED BY <1>4, <1>9, <2>2, <2>5
<1>15. QED BY <1>12, <1>13, <1>14

(* What is no record is as good as junk. *)
LEMMA WrittenNothing ==
  ASSUME NEW s, NEW t, NEW x \in Line \ RecordSet, Written(s, t, x)
  PROVE  Written(s, t, Junk)
<1>1. ~IsMessage(x) /\ ~IsRun(x) /\ ~IsMessage(Junk) /\ ~IsRun(Junk) /\ Junk \notin RecordSet
  BY LineKinds DEF RecordSet, IsMessage, IsRun, Junk
<1>2. QED BY <1>1 DEF Written

(* The parts of the invariant about the end of the file, after a step of t's call. *)
LEMMA EndKeeps ==
  ASSUME IInv, NEW t \in Tasks, Moves(t),
         job'[t].at = "message" => ~file'.open,
         job'[t].at = "head" => ~file'.open,
         job'[t].at = "tail" /\ job[t].rec \notin exposed' =>
            job'[t].gen = gen /\ file'.open /\ Last(file'.lines) = Fragment(job[t].rec),
         \/ file'.open => Last(file'.lines) \notin RecordSet
         \/ file' = file /\ job'[t] = Idle
  PROVE  OpenedByOther' /\ OpenIsNoRecord' /\ HeadIsLast'
<1> USE DEF IInv
<1>1. \A o \in Tasks \ {t} : job'[o] = job[o] /\ (job[o].at # "idle" /\ job[o].rec \in RecordSet
                                                  => job[o].rec \in exposed')
  BY MovesKeep DEF Moves
<1>2. \A o \in Tasks : job[o].at \in {"message", "head", "tail"} => job[o].rec \in RecordSet
  BY JobIs
<1>3. Idle.at = "idle"
  BY JobMoves
<1>4. \/ job'[t] = Idle
      \/ job'[t].rec = job[t].rec
  BY DEF Moves
<1>5. OpenedByOther'
  <2>1. ASSUME NEW o \in Tasks, job'[o].at \in {"message", "head"}, file'.open
        PROVE  job'[o].rec \in exposed'
    <3>1. o # t
      BY <2>1
    <3>2. QED BY <1>1, <1>2, <2>1, <3>1
  <2>2. QED BY <2>1 DEF OpenedByOther
<1>6. OpenIsNoRecord'
  <2>1. ASSUME NEW o \in Tasks, job'[o].at \in {"message", "head", "tail"}, file'.open
        PROVE  Last(file'.lines) \notin RecordSet
    <3>1. CASE file' = file /\ job'[t] = Idle
      <4>1. o # t
        BY <1>3, <2>1, <3>1
      <4>2. job[o].at \in {"message", "head", "tail"}
        BY <1>1, <2>1, <4>1
      <4>3. QED BY <2>1, <3>1, <4>2 DEF OpenIsNoRecord
    <3>2. QED BY <2>1, <3>1
  <2>2. QED BY <2>1 DEF OpenIsNoRecord
<1>7. HeadIsLast'
  <2>1. ASSUME NEW o \in Tasks, job'[o].at = "tail", job'[o].rec \notin exposed'
        PROVE  job'[o].gen = gen' /\ file'.open /\ Last(file'.lines) = Fragment(job'[o].rec)
    <3>1. o = t
      BY <1>1, <1>2, <2>1
    <3>2. job'[t].rec = job[t].rec
      BY <1>3, <1>4, <2>1, <3>1
    <3>3. gen' = gen
      BY DEF Moves
    <3>4. QED BY <2>1, <3>1, <3>2, <3>3
  <2>2. QED BY <2>1 DEF HeadIsLast
<1>8. QED BY <1>5, <1>6, <1>7

(* The boundary is checked: the last line is closed. *)
LEMMA CheckBoundaryInv ==
  ASSUME IInv, NEW t \in Tasks, CheckBoundary(t)
  PROVE  IInv'
<1> DEFINE a == IF IsMessage(job[t].rec) THEN "message" ELSE "head"
<1>1. /\ job[t].at = "boundary" /\ file' = RecordBoundary(file) /\ Go(t, a) /\ Expose(t)
      /\ durable' = durable /\ gen' = gen /\ mem' = mem /\ life' = life /\ boot' = boot
      /\ pending' = pending /\ down' = down /\ written' = written /\ settled' = settled /\ firm' = firm
  BY DEF CheckBoundary
<1>2. JobsOK /\ FileOK
  BY DEF IInv
<1>3. job[t].rec \in RecordSet /\ ~file.missing
  BY <1>1, <1>2, JobIs
<1>4. a \in Places /\ a \in {"message", "head"}
      /\ (a = "message" => job[t].rec \in MessageSet) /\ (a = "head" => job[t].rec \in RunSet)
  BY <1>3, LineKinds DEF Places, RecordSet
<1> HIDE DEF a
<1>5. /\ job' \in [Tasks -> JobSet]
      /\ \A o \in Tasks \ {t} : job'[o] = job[o]
      /\ job'[t].at = a /\ job'[t].rec = job[t].rec
  BY <1>1, <1>2, <1>4, JobMoves
<1>6. /\ Sound(file') /\ file'.open = FALSE /\ ~file'.missing
      /\ Written(file.lines, file'.lines, Junk)
  BY <1>1, <1>2, <1>3, BoundaryWrites DEF FileOK
<1>7. Moves(t)
  BY <1>1, <1>4, <1>5, <1>6 DEF Moves
<1>8. Writes(t, Junk)
  BY <1>1, <1>4, <1>5, <1>6 DEF Writes
<1>9. StateOK' /\ JobsOK' /\ OwnRecords'
  BY <1>7, MovesKeep
<1>10. FileOK' /\ RunsKnown' /\ Kept' /\ CreateOverlaps' /\ RewriteKeeps' /\ OpenAreMarked'
  BY <1>8, WritesKeep
<1>11. MemoryIsJournal'
  BY <1>5, <1>8, WritesMemory
<1>12. OpenedByOther' /\ OpenIsNoRecord' /\ HeadIsLast'
  BY <1>4, <1>5, <1>6, <1>7, EndKeeps
<1>13. QED BY <1>9, <1>10, <1>11, <1>12 DEF IInv

(* A call that has settled its record is over. *)
LEMMA SettlesIs ==
  ASSUME IInv, NEW t \in Tasks, NEW x,
         job[t].at \in {"message", "head", "tail"}, Return(t), Expose(t), Settle(job[t].rec),
         Sound(file'), ~file'.missing, Written(file.lines, file'.lines, x),
         x = job[t].rec \/ (x = Junk /\ job[t].rec \in exposed'),
         \/ file'.open => Last(file'.lines) \notin RecordSet
         \/ file' = file,
         UNCHANGED <<durable, gen, mem, life, boot, pending, down, written, firm>>
  PROVE  IInv'
<1>1. JobsOK
  BY DEF IInv
<1>2. /\ job' \in [Tasks -> JobSet] /\ \A o \in Tasks \ {t} : job'[o] = job[o]
      /\ job'[t] = Idle /\ Idle.at = "idle"
  BY <1>1, JobMoves
<1>3. settled' = settled \cup {job[t].rec}
  BY DEF Settle
<1>4. Moves(t)
  BY <1>2, <1>3 DEF Moves
<1>5. Writes(t, x)
  BY <1>2, <1>3 DEF Writes
<1>6. StateOK' /\ JobsOK' /\ OwnRecords'
  BY <1>4, MovesKeep
<1>7. FileOK' /\ RunsKnown' /\ Kept' /\ CreateOverlaps' /\ RewriteKeeps' /\ OpenAreMarked'
  BY <1>5, WritesKeep
<1>8. MemoryIsJournal'
  BY <1>2, <1>5, WritesMemory
<1>9. OpenedByOther' /\ OpenIsNoRecord' /\ HeadIsLast'
  BY <1>2, <1>4, EndKeeps
<1>10. QED BY <1>6, <1>7, <1>8, <1>9 DEF IInv

(* append: the message is a line of its own, or spoilt and exposed. *)
LEMMA WriteMessageInv ==
  ASSUME IInv, NEW t \in Tasks, WriteMessage(t)
  PROVE  IInv'
<1>1. /\ job[t].at = "message" /\ file' = Glue(file, job[t].rec, FALSE)
      /\ Return(t) /\ Expose(t) /\ Settle(job[t].rec)
      /\ UNCHANGED <<durable, gen, mem, life, boot, pending, down, written, firm>>
  BY DEF WriteMessage
<1>2. /\ JobsOK /\ Sound(file)
      /\ (file.open => Last(file.lines) \notin RecordSet) /\ (file.open => job[t].rec \in exposed)
  BY <1>1 DEF IInv, FileOK, OpenIsNoRecord, OpenedByOther
<1>3. job[t].rec \in MessageSet /\ job[t].rec \in Line /\ job[t].rec.kind # "header"
  <2>1. job[t].rec \in MessageSet
    BY <1>1, <1>2, JobIs
  <2>2. QED BY <2>1 DEF Line, RecordSet, MessageSet
<1>4. exposed \subseteq exposed'
  BY <1>1 DEF Expose
<1>5. /\ Sound(file') /\ file'.open = FALSE /\ ~file'.missing
      /\ ~file.open => Written(file.lines, file'.lines, job[t].rec)
      /\ file.open => Written(file.lines, file'.lines, Junk)
  BY <1>1, <1>2, <1>3, GlueWrites
<1>6. /\ job[t].at \in {"message", "head", "tail"}
      /\ Return(t) /\ Expose(t) /\ Settle(job[t].rec)
      /\ UNCHANGED <<durable, gen, mem, life, boot, pending, down, written, firm>>
      /\ Sound(file') /\ file'.open = FALSE /\ ~file'.missing
  BY <1>1, <1>5
<1>7. CASE file.open
  <2>1. Written(file.lines, file'.lines, Junk) /\ job[t].rec \in exposed'
    BY <1>2, <1>4, <1>5, <1>7
  <2>2. QED BY <1>6, <2>1, SettlesIs
<1>8. CASE ~file.open
  <2>1. Written(file.lines, file'.lines, job[t].rec)
    BY <1>5, <1>8
  <2>2. QED BY <1>6, <2>1, SettlesIs
<1>9. QED BY <1>7, <1>8

(* The rest of a run record: behind its own head, or it was exposed. *)
LEMMA WriteTailInv ==
  ASSUME IInv, NEW t \in Tasks, WriteTail(t)
  PROVE  IInv'
<1>1. /\ job[t].at = "tail"
      /\ Return(t) /\ Expose(t) /\ Settle(job[t].rec)
      /\ UNCHANGED <<durable, gen, mem, life, boot, pending, down, written, firm>>
  BY DEF WriteTail
<1>2. /\ JobsOK /\ Sound(file)
      /\ (file.open => Last(file.lines) \notin RecordSet)
      /\ job[t].rec \notin exposed =>
            job[t].gen = gen /\ file.open /\ Last(file.lines) = Fragment(job[t].rec)
  BY <1>1 DEF IInv, FileOK, OpenIsNoRecord, HeadIsLast
<1>3. job[t].rec \in RunSet /\ job[t].rec \in Line /\ job[t].rec.kind # "header" /\ ~file.missing
  <2>1. job[t].rec \in RunSet /\ ~file.missing
    BY <1>1, <1>2, JobIs
  <2>2. QED BY <2>1 DEF Line, RecordSet, RunSet
<1>4. exposed \subseteq exposed'
  BY <1>1 DEF Expose
<1>5. file.lines \in Seq(Line) /\ (file.open => file.lines # <<>>)
  BY <1>2 DEF Sound, FileSet
<1>6. CASE job[t].gen # gen
  <2>1. file' = file
    BY <1>6 DEF WriteTail
  <2>2. Written(file.lines, file'.lines, Junk)
    BY <1>5, <2>1, WrittenSame
  <2>3. Sound(file') /\ ~file'.missing /\ job[t].rec \in exposed'
    BY <1>2, <1>3, <1>4, <1>6, <2>1
  <2>4. QED BY <1>1, <2>1, <2>2, <2>3, SettlesIs
<1>7. CASE job[t].gen = gen /\ file.open /\ Last(file.lines) = Fragment(job[t].rec)
  <2> DEFINE s == Append(Front(file.lines), job[t].rec)
  <2>1. file' = File(s, FALSE)
    BY <1>7 DEF WriteTail
  <2>2. Written(file.lines, s, job[t].rec)
    BY <1>2, <1>3, <1>5, <1>7, WrittenReplace
  <2>3. s \in Seq(Line)
    BY <2>2 DEF Written
  <2> HIDE DEF s
  <2>4. Sound(file') /\ ~file'.missing /\ file'.lines = s /\ file'.open = FALSE
    BY <2>1, <2>3, FileIs
  <2>5. QED BY <1>1, <2>2, <2>4, SettlesIs
<1>8. CASE job[t].gen = gen /\ ~(file.open /\ Last(file.lines) = Fragment(job[t].rec))
  <2>1. file' = Glue(file, Junk, FALSE)
    BY <1>8 DEF WriteTail
  <2>2. Junk \in Line /\ Junk.kind # "header"
    BY LineKinds
  <2>3. Sound(file') /\ file'.open = FALSE /\ ~file'.missing /\ Written(file.lines, file'.lines, Junk)
    <3>1. file.open \in BOOLEAN
      BY <1>2 DEF Sound, FileSet
    <3>2. QED BY <1>2, <2>1, <2>2, <3>1, GlueWrites
  <2>4. job[t].rec \in exposed'
    BY <1>2, <1>4, <1>8
  <2>5. QED BY <1>1, <2>3, <2>4, SettlesIs
<1>9. QED BY <1>6, <1>7, <1>8

(* The first part of a run record is no record yet. *)
LEMMA WriteHeadInv ==
  ASSUME IInv, NEW t \in Tasks, WriteHead(t)
  PROVE  IInv'
<1>1. /\ job[t].at = "head" /\ file' = Glue(file, Fragment(job[t].rec), TRUE)
      /\ job' = [job EXCEPT ![t].at = "tail", ![t].gen = gen]
      /\ Expose(t)
      /\ durable' = durable /\ gen' = gen /\ mem' = mem /\ life' = life /\ boot' = boot
      /\ pending' = pending /\ down' = down /\ written' = written /\ settled' = settled /\ firm' = firm
  BY DEF WriteHead
<1>2. /\ JobsOK /\ Sound(file) /\ gen \in Nat
      /\ (file.open => Last(file.lines) \notin RecordSet) /\ (file.open => job[t].rec \in exposed)
  BY <1>1 DEF IInv, FileOK, StateOK, OpenIsNoRecord, OpenedByOther
<1>3. job[t].rec \in RunSet /\ job \in [Tasks -> JobSet] /\ job[t] \in JobSet
  BY <1>1, <1>2, JobIs
<1>4. Fragment(job[t].rec) \in Line \ RecordSet /\ Fragment(job[t].rec).kind # "header"
      /\ Junk \in Line \ RecordSet
  BY <1>3, LineKinds
<1>5. exposed \subseteq exposed'
  BY <1>1 DEF Expose
<1>6. /\ job' \in [Tasks -> JobSet] /\ \A o \in Tasks \ {t} : job'[o] = job[o]
      /\ job'[t].at = "tail" /\ job'[t].rec = job[t].rec /\ job'[t].gen = gen
  <2> DEFINE j == [job[t] EXCEPT !.at = "tail", !.gen = gen]
  <2>1. job' = [job EXCEPT ![t] = j]
    BY <1>1, <1>3
  <2>2. "tail" \in Places
    BY DEF Places
  <2>3. j \in JobSet /\ j.at = "tail" /\ j.rec = job[t].rec /\ j.gen = gen
    BY <1>2, <1>3, <2>2 DEF JobSet
  <2> HIDE DEF j
  <2>4. QED BY <1>3, <2>1, <2>3
<1>7. /\ Sound(file') /\ file'.open = TRUE /\ ~file'.missing
      /\ ~file.open => /\ Written(file.lines, file'.lines, Fragment(job[t].rec))
                       /\ Last(file'.lines) = Fragment(job[t].rec)
      /\ file.open => Written(file.lines, file'.lines, Junk) /\ Last(file'.lines) = Junk
  BY <1>1, <1>2, <1>4, GlueWrites
<1>8. file.open \in BOOLEAN
  BY <1>2 DEF Sound, FileSet
<1>9. Written(file.lines, file'.lines, Junk) /\ Last(file'.lines) \notin RecordSet
  BY <1>4, <1>7, <1>8, WrittenNothing
<1>10. Moves(t)
  BY <1>1, <1>3, <1>6, <1>7 DEF Moves
<1>11. Writes(t, Junk)
  BY <1>1, <1>6, <1>7, <1>9 DEF Writes
<1>12. StateOK' /\ JobsOK' /\ OwnRecords'
  BY <1>10, MovesKeep
<1>13. FileOK' /\ RunsKnown' /\ Kept' /\ CreateOverlaps' /\ RewriteKeeps' /\ OpenAreMarked'
  BY <1>11, WritesKeep
<1>14. MemoryIsJournal'
  BY <1>6, <1>11, WritesMemory
<1>15. OpenedByOther' /\ OpenIsNoRecord' /\ HeadIsLast'
  <2>1. job[t].rec \notin exposed' => Last(file'.lines) = Fragment(job[t].rec)
    BY <1>2, <1>5, <1>7, <1>8
  <2>2. QED BY <1>6, <1>7, <1>9, <1>10, <2>1, EndKeeps
<1>16. QED BY <1>12, <1>13, <1>14, <1>15 DEF IInv

(* A file is made or truncated: the records it had were all exposed. *)
LEMMA CreateHeaderInv ==
  ASSUME IInv, NEW t \in Tasks, CreateHeader(t)
  PROVE  IInv'
<1> DEFINE h == <<Header(SESSION_VERSION)>>
<1>1. /\ job[t].at = "create" /\ file' = File(h, FALSE) /\ durable' = 1
      /\ Go(t, "boundary") /\ Expose(t)
      /\ gen' = gen /\ mem' = mem /\ life' = life /\ boot' = boot /\ pending' = pending
      /\ down' = down /\ written' = written /\ settled' = settled /\ firm' = firm
  BY DEF CreateHeader
<1>2. /\ h \in Seq(Line) /\ Len(h) = 1 /\ Records(h) = {} /\ Messages(h) = <<>>
      /\ Ordered(h) /\ LoadsLines(h)
  BY HeaderOnly
<1> HIDE DEF h
<1>3. JobsOK /\ exposed \subseteq RecordSet /\ settled \subseteq exposed /\ firm \subseteq settled
  BY <1>1 DEF IInv, StateOK, CreateOverlaps
<1>4. /\ job' \in [Tasks -> JobSet] /\ \A o \in Tasks \ {t} : job'[o] = job[o]
      /\ job'[t].at = "boundary" /\ job'[t].rec = job[t].rec
  <2>1. "boundary" \in Places
    BY DEF Places
  <2>2. QED BY <1>1, <1>3, <2>1, JobMoves
<1>5. Sound(file') /\ file'.open = FALSE /\ ~file'.missing /\ file'.lines = h
  BY <1>1, <1>2, FileIs
<1>6. exposed \subseteq exposed' /\ settled' \subseteq exposed' /\ firm' \subseteq exposed'
  BY <1>1, <1>3 DEF Expose
<1>7. Moves(t)
  BY <1>1, <1>4, <1>5 DEF Moves
<1>8. StateOK' /\ JobsOK' /\ OwnRecords'
  BY <1>7, MovesKeep
<1>9. FileOK'
  <2>1. durable' \in 0 .. Len(h)
    BY <1>1, <1>2
  <2>2. QED BY <1>2, <1>5, <2>1 DEF FileOK
<1>10. \/ job'[Turn] = job[Turn]
       \/ job'[Turn].at = "boundary" /\ job'[Turn].rec = job[Turn].rec
  BY <1>4 DEF Tasks
<1>11. RunsKnown'
  <2>1. /\ job[Turn].at = "rename" => Known(ToSet(job[Turn].keep), boot, down, life)
        /\ job[Turn].at = "dirsync" => Known(Records(job[Turn].old.lines), boot, down, life)
    BY DEF IInv, RunsKnown
  <2>2. Known(Records(file'.lines), boot, down, life)
    BY <1>2, <1>5 DEF Known
  <2>3. job'[Turn].at = "rename" => Known(ToSet(job'[Turn].keep), boot, down, life)
    BY <1>10, <2>1
  <2>4. job'[Turn].at = "dirsync" => Known(Records(job'[Turn].old.lines), boot, down, life)
    BY <1>10, <2>1
  <2>5. QED BY <1>1, <2>2, <2>3, <2>4 DEF RunsKnown
<1>12. Kept' /\ CreateOverlaps'
  BY <1>6 DEF Kept, UndisturbedKept, CreateOverlaps
<1>13. RewriteKeeps'
  BY <1>1, <1>6, <1>10 DEF IInv, RewriteKeeps
<1>14. OpenAreMarked'
  <2>1. Open(Records(file'.lines)) = {}
    BY <1>2, <1>5 DEF Open
  <2>2. ~down => (job[Turn].at = "rename" => \A r \in Open(ToSet(job[Turn].keep)) : r[2] = boot)
    BY DEF IInv, OpenAreMarked
  <2>3. ~down => (job'[Turn].at = "rename" => \A r \in Open(ToSet(job'[Turn].keep)) : r[2] = boot)
    BY <1>10, <2>2
  <2>4. QED BY <1>1, <2>1, <2>3 DEF OpenAreMarked
<1>15. MemoryIsJournal'
  <2>1. SUFFICES ASSUME Undisturbed'
        PROVE  /\ IsMessage(job'[Turn].rec) => mem = Append(<<>>, job'[Turn].rec.id)
               /\ ~IsMessage(job'[Turn].rec) => mem = <<>>
    BY <1>1, <1>2, <1>5 DEF MemoryIsJournal, Appending
  <2>2. Undisturbed
    BY <1>1, <1>6, <2>1 DEF Undisturbed
  <2>3. /\ Appending => mem = Append(Messages(file.lines), job[Turn].rec.id)
        /\ Messages(file.lines) = <<>> /\ (~Appending => mem = <<>>)
    BY <1>1, <2>2 DEF IInv, MemoryIsJournal
  <2>4. job'[Turn].rec = job[Turn].rec
    BY <1>10
  <2>5. QED BY <2>3, <2>4 DEF Appending
<1>16. OpenedByOther' /\ OpenIsNoRecord' /\ HeadIsLast'
  BY <1>4, <1>5, <1>7, EndKeeps
<1>17. QED BY <1>8, <1>9, <1>11, <1>12, <1>13, <1>14, <1>15, <1>16 DEF IInv

-----------------------------------------------------------------------------
(* What the tasks do with the journal. *)

(* A call of t begins with the record rec. *)
Begins(t, rec) ==
    /\ Running /\ ~InCall(t) /\ BeginAppend(t, rec)
    /\ rec \in RecordSet
    /\ IsMessage(rec) => t = Turn
    /\ IsRun(rec) => rec.run = RunOf(t)
                     /\ life'[t] = IF rec.state = "started" THEN "started" ELSE "over"
    /\ mem' = IF IsMessage(rec) THEN Append(mem, rec.id) ELSE mem
    /\ written' \in [messages : Nat, rewrites : Nat, runs : Nat]
    /\ life' \in [Tasks -> {"new", "started", "over"}]
    /\ \A o \in Tasks \ {t} : life'[o] = life[o]
    /\ life'[t] # "new" /\ (life[t] = "over" => life'[t] = "over")
    /\ file' = file /\ durable' = durable /\ gen' = gen /\ boot' = boot /\ pending' = pending
    /\ down' = down /\ settled' = settled /\ firm' = firm

(* The call waits for the file; nothing but its record is new. *)
LEMMA BeginIs ==
  ASSUME IInv, NEW t \in Tasks, NEW rec, Begins(t, rec)
  PROVE  /\ job' \in [Tasks -> JobSet] /\ \A o \in Tasks \ {t} : job'[o] = job[o]
         /\ job'[t].rec = rec /\ job'[t].at \in {"create", "boundary"}
         /\ job'[t].at = "create" <=> file.missing
         /\ job[t].at = "idle" /\ job[t].rec = None /\ ~down /\ pending = {}
         /\ exposed \subseteq exposed' /\ exposed' \subseteq RecordSet
<1>1. JobsOK /\ exposed \subseteq RecordSet /\ rec \in RecordSet /\ BeginAppend(t, rec)
      /\ Running /\ ~InCall(t)
  BY DEF IInv, StateOK, Begins
<1>2. /\ job \in [Tasks -> JobSet] /\ job[t].at = "idle" /\ job[t].rec = None
      /\ \A o \in Tasks : job[o].rec \in RecordSet \cup {None}
  BY <1>1, JobIs
<1>3. Idle \in JobSet
  BY <1>1, JobMoves
<1> DEFINE a == IF file.missing THEN "create" ELSE "boundary"
           j == [Idle EXCEPT !.at = a, !.rec = rec]
<1>4. a \in Places /\ a \in {"create", "boundary"} /\ (a = "create" <=> file.missing)
  BY DEF Places
<1>5. job' = [job EXCEPT ![t] = j]
  BY <1>1 DEF BeginAppend
<1> HIDE DEF a
<1>6. j \in JobSet /\ j.at = a /\ j.rec = rec
  BY <1>1, <1>3, <1>4 DEF JobSet
<1> HIDE DEF j
<1>7. job' \in [Tasks -> JobSet] /\ job'[t] = j /\ \A o \in Tasks \ {t} : job'[o] = job[o]
  BY <1>2, <1>5, <1>6
<1>8. exposed \subseteq exposed' /\ exposed' \subseteq RecordSet
  <2>1. Overlaps(t) \subseteq RecordSet
    BY <1>2 DEF Overlaps
  <2>2. exposed' = exposed \/ exposed' = exposed \cup (Overlaps(t) \cup {rec})
    BY <1>1 DEF BeginAppend
  <2>3. QED BY <1>1, <2>1, <2>2
<1>9. QED BY <1>1, <1>2, <1>4, <1>6, <1>7, <1>8 DEF Running

(* Each of these calls keeps the invariant when it begins. *)
LEMMA BeginInv ==
  ASSUME IInv, NEW t \in Tasks, NEW rec, Begins(t, rec)
  PROVE  IInv'
<1>1. /\ job' \in [Tasks -> JobSet] /\ \A o \in Tasks \ {t} : job'[o] = job[o]
      /\ job'[t].rec = rec /\ job'[t].at \in {"create", "boundary"}
      /\ job'[t].at = "create" <=> file.missing
      /\ job[t].at = "idle" /\ job[t].rec = None /\ ~down /\ pending = {}
      /\ exposed \subseteq exposed' /\ exposed' \subseteq RecordSet
  BY BeginIs
<1>2. /\ rec \in RecordSet
      /\ IsMessage(rec) => t = Turn
      /\ IsRun(rec) => rec.run = RunOf(t)
                       /\ life'[t] = IF rec.state = "started" THEN "started" ELSE "over"
      /\ mem' = IF IsMessage(rec) THEN Append(mem, rec.id) ELSE mem
      /\ life' \in [Tasks -> {"new", "started", "over"}]
      /\ \A o \in Tasks \ {t} : life'[o] = life[o]
      /\ life'[t] # "new" /\ (life[t] = "over" => life'[t] = "over")
      /\ file' = file /\ durable' = durable /\ gen' = gen /\ boot' = boot /\ pending' = pending
      /\ down' = down /\ settled' = settled /\ firm' = firm
  BY DEF Begins
<1>3. FileOK'
  BY <1>2 DEF IInv, FileOK
<1>4. StateOK'
  <2>1. mem' \in Seq(Nat)
    <3>1. mem \in Seq(Nat)
      BY DEF IInv, StateOK
    <3>2. IsMessage(rec) => rec.id \in Nat
      BY <1>2, LineKinds
    <3>3. QED BY <1>2, <3>1, <3>2
  <2>2. written' \in [messages : Nat, rewrites : Nat, runs : Nat]
    BY DEF Begins
  <2>3. QED BY <1>1, <1>2, <2>1, <2>2 DEF IInv, StateOK
<1>5. JobsOK'
  <2>1. rec # None
    BY <1>2, LineKinds
  <2>2. ASSUME NEW o \in Tasks
        PROVE  /\ job'[o].at = "idle" => job'[o].rec = None
               /\ job'[o].at = "message" => job'[o].rec \in MessageSet
               /\ job'[o].at \in {"head", "tail"} => job'[o].rec \in RunSet
               /\ job'[o].at \in {"create", "boundary"} => job'[o].rec # None
               /\ job'[o].at \in {"rename", "dirsync"} => o = Turn /\ job'[o].rec = None
               /\ job'[o].at \in {"boundary", "message", "head", "tail"} => ~file'.missing
               /\ job'[o].at # "idle" => ~down' /\ pending' = {}
    <3>1. CASE o # t
      BY <1>1, <1>2, <3>1 DEF IInv, JobsOK
    <3>2. CASE o = t
      BY <1>1, <1>2, <2>1, <3>2
    <3>3. QED BY <3>1, <3>2
  <2>3. job' \in [Tasks -> [at : Places, rec : RecordSet \cup {None}, gen : Nat, keep : Seq(RunSet),
                            old : FileSet]]
    BY <1>1 DEF JobSet
  <2>4. QED BY <2>2, <2>3 DEF JobsOK
<1>6. OwnRecords'
  BY <1>1, <1>2 DEF IInv, OwnRecords, RunOf
<1>7. /\ job'[Turn] = job[Turn] \/ (t = Turn /\ job'[Turn].at \in {"create", "boundary"})
      /\ Turn \in Tasks
  BY <1>1 DEF Tasks
<1>8. RunsKnown'
  <2>1. ASSUME NEW recs, Known(recs, boot, down, life) PROVE Known(recs, boot, down, life')
    BY <1>2, <2>1 DEF Known
  <2>2. /\ Known(Records(file.lines), boot, down, life)
        /\ job[Turn].at = "rename" => Known(ToSet(job[Turn].keep), boot, down, life)
        /\ job[Turn].at = "dirsync" => Known(Records(job[Turn].old.lines), boot, down, life)
    BY DEF IInv, RunsKnown
  <2>3. Known(Records(file.lines), boot, down, life')
    BY <2>1, <2>2
  <2>4. job'[Turn].at = "rename" => Known(ToSet(job'[Turn].keep), boot, down, life')
    BY <1>7, <2>1, <2>2
  <2>5. job'[Turn].at = "dirsync" => Known(Records(job'[Turn].old.lines), boot, down, life')
    BY <1>7, <2>1, <2>2
  <2>6. QED BY <1>2, <2>3, <2>4, <2>5 DEF RunsKnown
<1>9. Kept'
  BY <1>1, <1>2 DEF IInv, Kept, UndisturbedKept
<1>10. (file'.missing \/ \E o \in Tasks : job'[o].at = "create") =>
         (file.missing \/ \E o \in Tasks : job[o].at = "create")
  BY <1>1, <1>2
<1>11. CreateOverlaps'
  BY <1>1, <1>2, <1>10 DEF IInv, CreateOverlaps
<1>12. OpenedByOther' /\ OpenIsNoRecord' /\ HeadIsLast'
  <2>1. OpenedByOther'
    BY <1>1, <1>2 DEF IInv, OpenedByOther
  <2>2. OpenIsNoRecord'
    BY <1>1, <1>2 DEF IInv, OpenIsNoRecord
  <2>3. HeadIsLast'
    BY <1>1, <1>2 DEF IInv, HeadIsLast
  <2>4. QED BY <2>1, <2>2, <2>3
<1>13. RewriteKeeps'
  BY <1>1, <1>2, <1>7 DEF IInv, RewriteKeeps
<1>14. OpenAreMarked'
  BY <1>1, <1>2, <1>7 DEF IInv, OpenAreMarked
<1>15. MemoryIsJournal'
  <2>1. SUFFICES ASSUME Undisturbed'
        PROVE  /\ IsMessage(job'[Turn].rec) => mem' = Append(Messages(file.lines), job'[Turn].rec.id)
               /\ (~IsMessage(job'[Turn].rec) /\ job'[Turn].at # "rename") => mem' = Messages(file.lines)
               /\ (file'.missing \/ \E o \in Tasks : job'[o].at = "create") =>
                     Messages(file.lines) = <<>> /\ (~IsMessage(job'[Turn].rec) => mem' = <<>>)
    BY <1>2 DEF MemoryIsJournal, Appending
  <2>2. Undisturbed
    BY <1>1, <1>2, <2>1 DEF Undisturbed
  <2>3. /\ Appending => mem = Append(Messages(file.lines), job[Turn].rec.id)
        /\ (~Appending /\ job[Turn].at # "rename") => mem = Messages(file.lines)
        /\ (file.missing \/ \E o \in Tasks : job[o].at = "create") =>
              Messages(file.lines) = <<>> /\ (~Appending => mem = <<>>)
    BY <2>2 DEF IInv, MemoryIsJournal
  <2>4. CASE t = Turn
    <3>1. ~Appending /\ job[Turn].at # "rename"
      BY <1>1, <2>4, LineKinds DEF Appending
    <3>2. job'[Turn].rec = rec
      BY <1>1, <2>4
    <3>3. QED BY <1>2, <1>10, <2>3, <3>1, <3>2
  <2>5. CASE t # Turn
    <3>1. job'[Turn] = job[Turn] /\ ~IsMessage(rec)
      BY <1>2, <1>7, <2>5
    <3>2. QED BY <1>2, <1>10, <2>3, <3>1 DEF Appending
  <2>6. QED BY <2>4, <2>5
<1>16. QED BY <1>3, <1>4, <1>5, <1>6, <1>8, <1>9, <1>11, <1>12, <1>13, <1>14, <1>15 DEF IInv

(* A run starts. *)
LEMMA StartRunInv == ASSUME IInv, NEW t \in Tasks, StartRun(t) PROVE IInv'
<1> DEFINE rec == RunRecord(RunOf(t), "started")
<1>1. /\ Running /\ ~InCall(t) /\ life[t] = "new" /\ BeginAppend(t, rec)
      /\ written' = [written EXCEPT !.runs = @ + 1] /\ life' = [life EXCEPT ![t] = "started"]
      /\ file' = file /\ durable' = durable /\ gen' = gen /\ mem' = mem /\ boot' = boot
      /\ pending' = pending /\ down' = down /\ settled' = settled /\ firm' = firm
  BY DEF StartRun
<1>2. /\ written \in [messages : Nat, rewrites : Nat, runs : Nat] /\ boot \in Nat
      /\ life \in [Tasks -> {"new", "started", "over"}]
  BY DEF IInv, StateOK
<1>3. /\ rec \in RecordSet /\ ~IsMessage(rec) /\ rec.run = RunOf(t) /\ rec.state = "started"
  BY <1>2 DEF RunRecord, RecordSet, RunSet, RunIds, RunOf, RunStates, IsMessage
<1> HIDE DEF rec
<1>4. written' \in [messages : Nat, rewrites : Nat, runs : Nat]
  BY <1>1, <1>2
<1>5. life' \in [Tasks -> {"new", "started", "over"}] /\ life'[t] = "started"
      /\ \A o \in Tasks \ {t} : life'[o] = life[o]
  BY <1>1, <1>2
<1>6. Begins(t, rec)
  BY <1>1, <1>3, <1>4, <1>5 DEF Begins
<1>7. QED BY <1>6, BeginInv

(* A run ends. *)
LEMMA EndRunInv == ASSUME IInv, NEW t \in Tasks, EndRun(t) PROVE IInv'
<1> DEFINE rec == RunRecord(RunOf(t), "completed")
<1>1. /\ Running /\ ~InCall(t) /\ BeginAppend(t, rec)
      /\ life' = [life EXCEPT ![t] = "over"]
      /\ file' = file /\ durable' = durable /\ gen' = gen /\ mem' = mem /\ boot' = boot
      /\ pending' = pending /\ down' = down /\ written' = written /\ settled' = settled /\ firm' = firm
  BY DEF EndRun
<1>2. /\ written \in [messages : Nat, rewrites : Nat, runs : Nat] /\ boot \in Nat
      /\ life \in [Tasks -> {"new", "started", "over"}]
  BY DEF IInv, StateOK
<1>3. /\ rec \in RecordSet /\ ~IsMessage(rec) /\ rec.run = RunOf(t) /\ rec.state = "completed"
  BY <1>2 DEF RunRecord, RecordSet, RunSet, RunIds, RunOf, RunStates, IsMessage
<1> HIDE DEF rec
<1>4. life' \in [Tasks -> {"new", "started", "over"}] /\ life'[t] = "over"
      /\ \A o \in Tasks \ {t} : life'[o] = life[o]
  BY <1>1, <1>2
<1>5. Begins(t, rec)
  BY <1>1, <1>2, <1>3, <1>4 DEF Begins
<1>6. QED BY <1>5, BeginInv

(* The turn appends a message. *)
LEMMA AppendMessageInv == ASSUME IInv, AppendMessage PROVE IInv'
<1> DEFINE n == written.messages + 1  rec == Message(n)
<1>1. /\ Running /\ ~InCall(Turn) /\ life[Turn] = "started" /\ BeginAppend(Turn, rec)
      /\ written' = [written EXCEPT !.messages = n] /\ mem' = Append(mem, n)
      /\ file' = file /\ durable' = durable /\ gen' = gen /\ life' = life /\ boot' = boot
      /\ pending' = pending /\ down' = down /\ settled' = settled /\ firm' = firm
  BY DEF AppendMessage
<1>2. /\ written \in [messages : Nat, rewrites : Nat, runs : Nat]
      /\ life \in [Tasks -> {"new", "started", "over"}] /\ Turn \in Tasks
  BY DEF IInv, StateOK, Tasks
<1>3. n \in Nat
  BY <1>2
<1> HIDE DEF n
<1>4. /\ rec \in RecordSet /\ IsMessage(rec) /\ ~IsRun(rec) /\ rec.id = n
  BY <1>3 DEF Message, RecordSet, MessageSet, IsMessage, IsRun
<1> HIDE DEF rec
<1>5. written' \in [messages : Nat, rewrites : Nat, runs : Nat]
  BY <1>1, <1>2, <1>3
<1>6. Begins(Turn, rec)
  BY <1>1, <1>2, <1>4, <1>5 DEF Begins
<1>7. QED BY <1>2, <1>6, BeginInv

(* What has settled is synced. *)
LEMMA SyncInv == ASSUME IInv, Sync PROVE IInv'
<1>1. /\ Running /\ ~InCall(Turn) /\ durable' = Len(file.lines) /\ firm' = settled
      /\ file' = file /\ gen' = gen /\ mem' = mem /\ job' = job /\ life' = life /\ boot' = boot
      /\ pending' = pending /\ down' = down /\ written' = written /\ settled' = settled
      /\ exposed' = exposed
  BY DEF Sync
<1>2. job[Turn].at \notin {"rename", "dirsync"}
  BY <1>1 DEF InCall
<1>3. file.lines \in Seq(Line)
  BY DEF IInv, FileOK, Sound, FileSet
<1>4. FileOK'
  <2>1. Len(file.lines) \in 0 .. Len(file.lines)
    BY <1>3
  <2>2. QED BY <1>1, <2>1 DEF IInv, FileOK
<1>5. StateOK'
  BY <1>1 DEF IInv, StateOK
<1>6. JobsOK' /\ OwnRecords' /\ RunsKnown'
  <2>1. JobsOK'
    BY <1>1 DEF IInv, JobsOK
  <2>2. OwnRecords'
    BY <1>1 DEF IInv, OwnRecords, RunOf
  <2>3. RunsKnown'
    BY <1>1 DEF IInv, RunsKnown
  <2>4. QED BY <2>1, <2>2, <2>3
<1>7. Kept'
  <2>1. settled \ exposed \subseteq Records(file.lines)
    BY DEF IInv, Kept, UndisturbedKept
  <2>2. \A r \in settled \ exposed : \E i \in 1 .. Len(file.lines) : file.lines[i] = r
    BY <1>3, <2>1, RecordsAre
  <2>3. QED BY <1>1, <2>1, <2>2 DEF Kept, UndisturbedKept
<1>8. CreateOverlaps' /\ OpenedByOther' /\ OpenIsNoRecord' /\ HeadIsLast'
  BY <1>1 DEF IInv, CreateOverlaps, OpenedByOther, OpenIsNoRecord, HeadIsLast
<1>9. RewriteKeeps' /\ OpenAreMarked'
  BY <1>1, <1>2 DEF IInv, RewriteKeeps, OpenAreMarked
<1>10. MemoryIsJournal'
  BY <1>1 DEF IInv, MemoryIsJournal, Undisturbed, Appending
<1>11. QED BY <1>4, <1>5, <1>6, <1>7, <1>8, <1>9, <1>10 DEF IInv

-----------------------------------------------------------------------------
(* The rewrite. *)

(* What a rewrite is to keep: the run records of the file, and a part of the memory. *)
LEMMA RewriteBegins ==
  ASSUME IInv, BeginRewrite
  PROVE  /\ mem' \in Seq(Nat) /\ (mem = <<>> => mem' = <<>>)
         /\ job' \in [Tasks -> JobSet] /\ \A o \in Tasks \ {Turn} : job'[o] = job[o]
         /\ job'[Turn].at = "rename" /\ job'[Turn].rec = None
         /\ ToSet(job'[Turn].keep) = {l \in Records(file.lines) : IsRun(l)}
         /\ Ordered(job'[Turn].keep)
<1>1. /\ JobsOK /\ Sound(file) /\ LoadsLines(file.lines) /\ Ordered(file.lines) /\ mem \in Seq(Nat)
      /\ Turn \in Tasks
  BY DEF IInv, FileOK, StateOK, Tasks
<1>2. file.lines \in Seq(Line)
  BY <1>1 DEF Sound, FileSet
<1>3. mem' \in Seq(Nat) /\ (mem = <<>> => mem' = <<>>)
  <2>1. PICK from \in 0 .. Len(mem), to \in 0 .. Len(mem) : mem' = SubSeq(mem, from + 1, to)
    BY DEF BeginRewrite
  <2>2. Len(mem) \in Nat /\ \A i \in 1 .. Len(mem) : mem[i] \in Nat
    BY <1>1
  <2>3. from + 1 \in Int /\ to \in Int /\ \A i \in from + 1 .. to : i \in 1 .. Len(mem)
    BY <2>2
  <2>4. \A i \in from + 1 .. to : mem[i] \in Nat
    BY <2>2, <2>3
  <2>5. mem' \in Seq(Nat)
    BY <2>1, <2>3, <2>4, SubSeqProperties
  <2>6. ASSUME mem = <<>> PROVE mem' = <<>>
    <3>1. Len(mem) = 0
      BY <2>6
    <3>2. to < from + 1
      BY <3>1
    <3>3. QED BY <2>1, <2>3, <3>2, SubSeqEmpty
  <2>7. QED BY <2>5, <2>6
<1> DEFINE k == IF Readable(file) THEN RunLines(file.lines) ELSE <<>>
<1>4. k \in Seq(RunSet) /\ Ordered(k) /\ ToSet(k) = {l \in Records(file.lines) : IsRun(l)}
  <2>1. CASE Readable(file)
    BY <1>1, <1>2, <2>1, RunLinesOrdered
  <2>2. CASE ~Readable(file)
    <3>1. file.missing
      BY <1>1, <2>2, LoadedIs
    <3>2. file.lines = <<>>
      BY <1>1, <3>1, NoFileIs DEF Sound
    <3>3. Records(<<>>) = {} /\ ToSet(<<>>) = {} /\ Ordered(<<>>) /\ <<>> \in Seq(RunSet)
      BY DEF Records, ToSet, Ordered
    <3>4. QED BY <2>2, <3>2, <3>3
  <2>3. QED BY <2>1, <2>2
<1> DEFINE j == [Idle EXCEPT !.at = "rename", !.keep = k]
<1>5. job' = [job EXCEPT ![Turn] = j]
  BY DEF BeginRewrite
<1> HIDE DEF k
<1>6. j \in JobSet /\ j.at = "rename" /\ j.rec = None /\ j.keep = k
  <2>1. Idle \in JobSet /\ Idle.rec = None
    BY <1>1, JobMoves
  <2>2. "rename" \in Places
    BY DEF Places
  <2>3. QED BY <1>4, <2>1, <2>2 DEF JobSet
<1> HIDE DEF j
<1>7. job' \in [Tasks -> JobSet] /\ job'[Turn] = j /\ \A o \in Tasks \ {Turn} : job'[o] = job[o]
  BY <1>1, <1>5, <1>6, JobIs
<1>8. QED BY <1>3, <1>4, <1>6, <1>7

(* The rewrite has read what it is to keep. *)
LEMMA BeginRewriteInv == ASSUME IInv, BeginRewrite PROVE IInv'
<1>1. /\ mem' \in Seq(Nat) /\ (mem = <<>> => mem' = <<>>)
      /\ job' \in [Tasks -> JobSet] /\ \A o \in Tasks \ {Turn} : job'[o] = job[o]
      /\ job'[Turn].at = "rename" /\ job'[Turn].rec = None
      /\ ToSet(job'[Turn].keep) = {l \in Records(file.lines) : IsRun(l)}
      /\ Ordered(job'[Turn].keep)
  BY RewriteBegins
<1>2. /\ Running /\ ~InCall(Turn)
      /\ written' = [written EXCEPT !.rewrites = @ + 1]
      /\ exposed' = exposed \cup Overlaps(Turn)
      /\ file' = file /\ durable' = durable /\ gen' = gen /\ life' = life /\ boot' = boot
      /\ pending' = pending /\ down' = down /\ settled' = settled /\ firm' = firm
  BY DEF BeginRewrite
<1>3. JobsOK /\ job[Turn].at = "idle" /\ job[Turn].rec = None /\ Turn \in Tasks /\ ~down /\ pending = {}
  <2>1. JobsOK /\ Turn \in Tasks
    BY DEF IInv, Tasks
  <2>2. QED BY <1>2, <2>1, JobIs DEF Running
<1>4. exposed \subseteq exposed' /\ exposed' \subseteq RecordSet
  <2>1. \A o \in Tasks : job[o].rec \in RecordSet \cup {None}
    BY <1>3, JobIs
  <2>2. Overlaps(Turn) \subseteq RecordSet
    BY <2>1 DEF Overlaps
  <2>3. QED BY <1>2, <2>2 DEF IInv, StateOK
<1>5. FileOK' /\ StateOK'
  <2>1. written' \in [messages : Nat, rewrites : Nat, runs : Nat]
    BY <1>2 DEF IInv, StateOK
  <2>2. StateOK'
    BY <1>1, <1>2, <1>4, <2>1 DEF IInv, StateOK
  <2>3. QED BY <1>2, <2>2 DEF IInv, FileOK
<1>6. JobsOK'
  <2>1. ASSUME NEW o \in Tasks
        PROVE  /\ job'[o].at = "idle" => job'[o].rec = None
               /\ job'[o].at = "message" => job'[o].rec \in MessageSet
               /\ job'[o].at \in {"head", "tail"} => job'[o].rec \in RunSet
               /\ job'[o].at \in {"create", "boundary"} => job'[o].rec # None
               /\ job'[o].at \in {"rename", "dirsync"} => o = Turn /\ job'[o].rec = None
               /\ job'[o].at \in {"boundary", "message", "head", "tail"} => ~file'.missing
               /\ job'[o].at # "idle" => ~down' /\ pending' = {}
    <3>1. CASE o # Turn
      BY <1>1, <1>2, <3>1 DEF IInv, JobsOK
    <3>2. CASE o = Turn
      BY <1>1, <1>2, <1>3, <3>2
    <3>3. QED BY <3>1, <3>2
  <2>2. job' \in [Tasks -> [at : Places, rec : RecordSet \cup {None}, gen : Nat, keep : Seq(RunSet),
                            old : FileSet]]
    BY <1>1 DEF JobSet
  <2>3. QED BY <2>1, <2>2 DEF JobsOK
<1>7. OwnRecords'
  <2>1. ~IsMessage(None) /\ ~IsRun(None)
    BY LineKinds
  <2>2. QED BY <1>1, <1>2, <2>1 DEF IInv, OwnRecords, RunOf
<1>8. RunsKnown'
  <2>1. Known(Records(file.lines), boot, down, life)
    BY DEF IInv, RunsKnown
  <2>2. Known(ToSet(job'[Turn].keep), boot, down, life)
    BY <1>1, <2>1 DEF Known
  <2>3. QED BY <1>1, <1>2, <2>1, <2>2 DEF RunsKnown
<1>9. Kept'
  BY <1>2, <1>4 DEF IInv, Kept, UndisturbedKept
<1>10. (file'.missing \/ \E o \in Tasks : job'[o].at = "create") =>
         (file.missing \/ \E o \in Tasks : job[o].at = "create")
  BY <1>1, <1>2
<1>11. CreateOverlaps'
  BY <1>2, <1>4, <1>10 DEF IInv, CreateOverlaps
<1>12. OpenedByOther' /\ OpenIsNoRecord' /\ HeadIsLast'
  <2>1. OpenedByOther'
    BY <1>1, <1>2, <1>4 DEF IInv, OpenedByOther
  <2>2. OpenIsNoRecord'
    BY <1>1, <1>2 DEF IInv, OpenIsNoRecord
  <2>3. HeadIsLast'
    BY <1>1, <1>2, <1>4 DEF IInv, HeadIsLast
  <2>4. QED BY <2>1, <2>2, <2>3
<1>13. RewriteKeeps'
  <2>1. settled \ exposed \subseteq Records(file.lines)
    BY DEF IInv, Kept, UndisturbedKept
  <2>2. \A r \in settled' \ exposed' : IsRun(r) => r \in ToSet(job'[Turn].keep)
    BY <1>1, <1>2, <1>4, <2>1
  <2>3. QED BY <1>1, <2>2 DEF RewriteKeeps
<1>14. OpenAreMarked'
  <2>1. \A r \in Open(Records(file.lines)) : r[2] # boot => r \in pending
    BY <1>3 DEF IInv, OpenAreMarked
  <2>2. \A r \in Open(ToSet(job'[Turn].keep)) : r \in Open(Records(file.lines))
    <3>1. \A r, s : IsRun(RunRecord(r, s))
      BY DEF RunRecord, IsRun
    <3>2. QED BY <1>1, <3>1 DEF Open
  <2>3. QED BY <1>2, <1>3, <2>1, <2>2 DEF OpenAreMarked
<1>15. MemoryIsJournal'
  <2>1. ~IsMessage(None)
    BY LineKinds
  <2>2. SUFFICES ASSUME Undisturbed', file'.missing \/ \E o \in Tasks : job'[o].at = "create"
        PROVE  Messages(file.lines) = <<>> /\ mem' = <<>>
    BY <1>1, <1>2, <2>1 DEF MemoryIsJournal, Appending
  <2>3. Undisturbed
    BY <1>2, <1>4, <2>2 DEF Undisturbed
  <2>4. Messages(file.lines) = <<>> /\ mem = <<>>
    BY <1>3, <1>10, <2>1, <2>2, <2>3 DEF IInv, MemoryIsJournal, Appending
  <2>5. QED BY <1>1, <2>4
<1>16. QED BY <1>5, <1>6, <1>7, <1>8, <1>9, <1>11, <1>12, <1>13, <1>14, <1>15 DEF IInv

(* The new file has the conversation and the run records that were to be kept. *)
LEMMA RenameIs ==
  ASSUME IInv, Rename
  PROVE  /\ Sound(file') /\ ~file'.missing /\ file'.open = FALSE
         /\ durable' = Len(file'.lines) /\ durable' \in Nat
         /\ Records(file'.lines) = {Message(n) : n \in ToSet(mem)} \cup ToSet(job[Turn].keep)
         /\ Messages(file'.lines) = mem
         /\ Ordered(file'.lines) /\ LoadsLines(file'.lines)
         /\ settled' = {r \in settled : IsMessage(r) => r.id \in ToSet(mem)}
<1>1. job[Turn].at = "rename" /\ JobsOK /\ mem \in Seq(Nat) /\ Turn \in Tasks
  BY DEF IInv, StateOK, Rename, Tasks
<1>2. job[Turn].keep \in Seq(RunSet) /\ Ordered(job[Turn].keep)
  BY <1>1, JobIs DEF IInv, RewriteKeeps
<1> DEFINE s == Rewritten(mem, job[Turn].keep)  n == Len(Lines(mem) \o job[Turn].keep)
<1>3. /\ file' = File(s, FALSE) /\ durable' = n + 1
      /\ settled' = {r \in settled : IsMessage(r) => r.id \in ToSet(mem)}
  BY DEF Rename, Lines, Rewritten
<1>4. /\ s \in Seq(Line) /\ Len(s) = n + 1 /\ n \in Nat
      /\ Records(s) = {Message(i) : i \in ToSet(mem)} \cup ToSet(job[Turn].keep)
      /\ Messages(s) = mem /\ Ordered(s) /\ LoadsLines(s)
  BY <1>1, <1>2, RewrittenIs
<1> HIDE DEF s, n
<1>5. Sound(file') /\ ~file'.missing /\ file'.open = FALSE /\ file'.lines = s
  BY <1>3, <1>4, FileIs
<1>6. durable' = Len(s) /\ durable' \in Nat
  BY <1>3, <1>4
<1>7. QED BY <1>3, <1>4, <1>5, <1>6

(* The new file is in the place of the old one, which a power failure may bring back. *)
LEMMA RenameInv == ASSUME IInv, Rename PROVE IInv'
<1> DEFINE o1 == File(SubSeq(file.lines, 1, durable), FALSE)
<1>1. /\ Sound(file') /\ ~file'.missing /\ file'.open = FALSE
      /\ durable' = Len(file'.lines) /\ durable' \in Nat
      /\ Records(file'.lines) = {Message(n) : n \in ToSet(mem)} \cup ToSet(job[Turn].keep)
      /\ Messages(file'.lines) = mem
      /\ Ordered(file'.lines) /\ LoadsLines(file'.lines)
      /\ settled' = {r \in settled : IsMessage(r) => r.id \in ToSet(mem)}
  BY RenameIs
<1>2. /\ job[Turn].at = "rename"
      /\ firm' = firm \cap settled' /\ gen' = gen + 1
      /\ job' = [job EXCEPT ![Turn].at = "dirsync", ![Turn].old = o1]
      /\ Expose(Turn)
      /\ mem' = mem /\ life' = life /\ boot' = boot /\ pending' = pending
      /\ down' = down /\ written' = written
  BY DEF Rename
<1>3. /\ JobsOK /\ Turn \in Tasks /\ exposed \subseteq RecordSet /\ settled \subseteq RecordSet
      /\ firm \subseteq settled /\ file.lines \in Seq(Line) /\ durable \in 0 .. Len(file.lines)
      /\ LoadsLines(file.lines) /\ Ordered(file.lines)
  BY DEF IInv, StateOK, FileOK, Sound, FileSet, Tasks
<1>4. job \in [Tasks -> JobSet] /\ job[Turn] \in JobSet /\ job[Turn].rec = None /\ InCall(Turn)
      /\ ~down /\ pending = {}
  BY <1>2, <1>3, JobIs
<1>5. /\ exposed \subseteq exposed' /\ exposed' \subseteq RecordSet
      /\ \A o \in Tasks \ {Turn} : InCall(o) =>
           \A p \in {o, Turn} : job[p].rec \in RecordSet => job[p].rec \in exposed'
  BY <1>2, <1>3, <1>4, Overlapping
<1>6. /\ Sound(o1) /\ o1.lines = SubSeq(file.lines, 1, durable)
      /\ LoadsLines(o1.lines) /\ Ordered(o1.lines) /\ Records(o1.lines) \subseteq Records(file.lines)
      /\ Len(o1.lines) = durable /\ \A i \in 1 .. durable : o1.lines[i] = file.lines[i]
      /\ o1.lines \in Seq(Line)
  <2> DEFINE p == SubSeq(file.lines, 1, durable)
  <2>1. /\ p \in Seq(Line) /\ Len(p) = durable /\ \A i \in 1 .. durable : p[i] = file.lines[i]
        /\ Records(p) \subseteq Records(file.lines) /\ Ordered(p) /\ LoadsLines(p)
    BY <1>3, PrefixIs
  <2> HIDE DEF p
  <2>2. o1 = File(p, FALSE)
    BY DEF p
  <2>3. Sound(o1) /\ o1.lines = p
    BY <2>1, <2>2, FileIs
  <2>4. QED BY <2>1, <2>3 DEF p
<1> HIDE DEF o1
<1>7. /\ job' \in [Tasks -> JobSet] /\ \A o \in Tasks \ {Turn} : job'[o] = job[o]
      /\ job'[Turn].at = "dirsync" /\ job'[Turn].rec = None /\ job'[Turn].old = o1
  <2> DEFINE j == [job[Turn] EXCEPT !.at = "dirsync", !.old = o1]
  <2>1. job' = [job EXCEPT ![Turn] = j]
    BY <1>2, <1>4
  <2>2. o1 \in FileSet /\ "dirsync" \in Places
    BY <1>6 DEF Sound, Places
  <2>3. j \in JobSet /\ j.at = "dirsync" /\ j.rec = None /\ j.old = o1
    BY <1>4, <2>2 DEF JobSet
  <2> HIDE DEF j
  <2>4. QED BY <1>3, <1>4, <2>1, <2>3
<1>8. FileOK'
  BY <1>1 DEF FileOK
<1>9. StateOK'
  BY <1>1, <1>2, <1>5 DEF IInv, StateOK
<1>10. JobsOK'
  <2>1. ASSUME NEW o \in Tasks
        PROVE  /\ job'[o].at = "idle" => job'[o].rec = None
               /\ job'[o].at = "message" => job'[o].rec \in MessageSet
               /\ job'[o].at \in {"head", "tail"} => job'[o].rec \in RunSet
               /\ job'[o].at \in {"create", "boundary"} => job'[o].rec # None
               /\ job'[o].at \in {"rename", "dirsync"} => o = Turn /\ job'[o].rec = None
               /\ job'[o].at \in {"boundary", "message", "head", "tail"} => ~file'.missing
               /\ job'[o].at # "idle" => ~down' /\ pending' = {}
    <3>1. CASE o # Turn
      BY <1>1, <1>2, <1>7, <3>1 DEF IInv, JobsOK
    <3>2. CASE o = Turn
      BY <1>1, <1>2, <1>4, <1>7, <3>2
    <3>3. QED BY <3>1, <3>2
  <2>2. job' \in [Tasks -> [at : Places, rec : RecordSet \cup {None}, gen : Nat, keep : Seq(RunSet),
                            old : FileSet]]
    BY <1>7 DEF JobSet
  <2>3. QED BY <2>1, <2>2 DEF JobsOK
<1>11. OwnRecords'
  <2>1. ~IsMessage(None) /\ ~IsRun(None)
    BY LineKinds
  <2>2. QED BY <1>2, <1>7, <2>1 DEF IInv, OwnRecords, RunOf
<1>12. \A n : ~IsRun(Message(n)) /\ IsMessage(Message(n))
  BY DEF Message, IsRun, IsMessage
<1>13. RunsKnown'
  <2>1. Known(Records(file.lines), boot, down, life) /\ Known(ToSet(job[Turn].keep), boot, down, life)
    BY <1>2 DEF IInv, RunsKnown
  <2>2. Known(Records(file'.lines), boot, down, life)
    BY <1>1, <1>12, <2>1 DEF Known
  <2>3. Known(Records(o1.lines), boot, down, life)
    BY <1>6, <2>1 DEF Known
  <2>4. QED BY <1>2, <1>7, <2>2, <2>3 DEF RunsKnown
<1>14. settled' \ exposed' \subseteq Records(file'.lines)
  <2>1. \A r \in settled \ exposed : IsRun(r) => r \in ToSet(job[Turn].keep)
    BY <1>2 DEF IInv, RewriteKeeps
  <2>2. ASSUME NEW r \in settled' \ exposed' PROVE r \in Records(file'.lines)
    <3>1. r \in settled \ exposed /\ r \in RecordSet /\ (IsMessage(r) => r.id \in ToSet(mem))
      BY <1>1, <1>3, <1>5, <2>2
    <3>2. CASE r \in MessageSet
      <4>1. r = Message(r.id) /\ IsMessage(r)
        BY <3>2, LineKinds
      <4>2. QED BY <1>1, <3>1, <4>1
    <3>3. CASE r \in RunSet
      <4>1. IsRun(r)
        BY <3>3, LineKinds
      <4>2. QED BY <1>1, <2>1, <3>1, <4>1
    <3>4. QED BY <3>1, <3>2, <3>3 DEF RecordSet
  <2>3. QED BY <2>2
<1>15. \A r \in settled' \ exposed' : \E i \in 1 .. durable' : file'.lines[i] = r
  <2>1. file'.lines \in Seq(Line)
    BY <1>1 DEF Sound, FileSet
  <2>2. QED BY <1>1, <1>14, <2>1, RecordsAre
<1>16. Kept'
  <2>1. firm' \subseteq settled'
    BY <1>2
  <2>2. QED BY <1>14, <1>15, <2>1 DEF Kept, UndisturbedKept
<1>17. CreateOverlaps'
  <2>1. ASSUME NEW o \in Tasks, job'[o].at = "create" PROVE settled' \subseteq exposed'
    <3>1. job[o].at = "create"
      BY <1>7, <2>1
    <3>2. QED BY <1>1, <1>5, <3>1 DEF IInv, CreateOverlaps
  <2>2. QED BY <1>1, <2>1 DEF CreateOverlaps
<1>18. OpenedByOther' /\ OpenIsNoRecord'
  BY <1>1 DEF OpenedByOther, OpenIsNoRecord
<1>19. HeadIsLast'
  <2>1. ASSUME NEW o \in Tasks, job'[o].at = "tail" PROVE job'[o].rec \in exposed'
    <3>1. o # Turn /\ job'[o] = job[o]
      BY <1>7, <2>1
    <3>2. InCall(o) /\ job[o].rec \in RecordSet
      BY <1>3, <2>1, <3>1, JobIs
    <3>3. QED BY <1>5, <3>1, <3>2
  <2>2. QED BY <2>1 DEF HeadIsLast
<1>20. RewriteKeeps'
  <2>1. firm' \ exposed' \subseteq Records(o1.lines)
    <3>1. ASSUME NEW r \in firm' \ exposed' PROVE r \in Records(o1.lines)
      <4>1. r \in firm \ exposed /\ r \in RecordSet
        BY <1>2, <1>3, <1>5, <3>1
      <4>2. PICK i \in 1 .. durable : file.lines[i] = r
        BY <4>1 DEF IInv, Kept
      <4>3. o1.lines[i] = r /\ i \in 1 .. Len(o1.lines)
        BY <1>6, <4>2
      <4>4. QED BY <1>6, <4>1, <4>3, RecordsAre
    <3>2. QED BY <3>1
  <2>2. QED BY <1>6, <1>7, <1>15, <2>1 DEF RewriteKeeps
<1>21. OpenAreMarked'
  <2>1. \A r \in Open(ToSet(job[Turn].keep)) : r[2] = boot
    BY <1>2, <1>4 DEF IInv, OpenAreMarked
  <2>2. Open(Records(file'.lines)) \subseteq Open(ToSet(job[Turn].keep))
    <3>1. \A r, s : IsRun(RunRecord(r, s))
      BY DEF RunRecord, IsRun
    <3>2. QED BY <1>1, <1>12, <3>1 DEF Open
  <2>3. QED BY <1>2, <1>7, <2>1, <2>2 DEF OpenAreMarked
<1>22. MemoryIsJournal'
  <2>1. ~IsMessage(None)
    BY LineKinds
  <2>2. SUFFICES ASSUME Undisturbed', file'.missing \/ \E o \in Tasks : job'[o].at = "create"
        PROVE  Messages(file'.lines) = <<>> /\ mem' = <<>>
    BY <1>1, <1>2, <1>7, <2>1 DEF MemoryIsJournal, Appending
  <2>3. Undisturbed
    BY <1>2, <1>5, <2>2 DEF Undisturbed
  <2>4. \E o \in Tasks : job[o].at = "create"
    BY <1>1, <1>7, <2>2
  <2>5. mem = <<>>
    BY <1>4, <2>1, <2>3, <2>4 DEF IInv, MemoryIsJournal, Appending
  <2>6. QED BY <1>1, <1>2, <2>5
<1>23. QED BY <1>8, <1>9, <1>10, <1>11, <1>13, <1>16, <1>17, <1>18, <1>19, <1>20, <1>21, <1>22 DEF IInv

(* The rename survives: what is before the mark of the new file is synced. *)
LEMMA SyncDirectoryInv == ASSUME IInv, SyncDirectory PROVE IInv'
<1>1. /\ job[Turn].at = "dirsync"
      /\ firm' = {r \in settled : IsMessage(r) \/ r \in ToSet(SubSeq(file.lines, 1, durable))}
      /\ Return(Turn) /\ Expose(Turn)
      /\ file' = file /\ durable' = durable /\ gen' = gen /\ mem' = mem /\ life' = life
      /\ boot' = boot /\ pending' = pending /\ down' = down /\ written' = written /\ settled' = settled
  BY DEF SyncDirectory
<1>2. /\ JobsOK /\ Turn \in Tasks /\ exposed \subseteq RecordSet /\ settled \subseteq RecordSet
      /\ file.lines \in Seq(Line) /\ durable \in 0 .. Len(file.lines)
  BY DEF IInv, StateOK, FileOK, Sound, FileSet, Tasks
<1>3. /\ job' \in [Tasks -> JobSet] /\ \A o \in Tasks \ {Turn} : job'[o] = job[o]
      /\ job'[Turn] = Idle /\ Idle.at = "idle" /\ Idle.rec = None
      /\ job[Turn].rec = None /\ InCall(Turn) /\ ~down /\ pending = {}
  BY <1>1, <1>2, JobMoves, JobIs
<1>4. exposed \subseteq exposed' /\ exposed' \subseteq RecordSet
  BY <1>1, <1>2, <1>3, Overlapping
<1>5. FileOK' /\ StateOK'
  BY <1>1, <1>4 DEF IInv, FileOK, StateOK
<1>6. JobsOK'
  <2>1. ASSUME NEW o \in Tasks
        PROVE  /\ job'[o].at = "idle" => job'[o].rec = None
               /\ job'[o].at = "message" => job'[o].rec \in MessageSet
               /\ job'[o].at \in {"head", "tail"} => job'[o].rec \in RunSet
               /\ job'[o].at \in {"create", "boundary"} => job'[o].rec # None
               /\ job'[o].at \in {"rename", "dirsync"} => o = Turn /\ job'[o].rec = None
               /\ job'[o].at \in {"boundary", "message", "head", "tail"} => ~file'.missing
               /\ job'[o].at # "idle" => ~down' /\ pending' = {}
    <3>1. CASE o # Turn
      BY <1>1, <1>3, <3>1 DEF IInv, JobsOK
    <3>2. CASE o = Turn
      BY <1>3, <3>2
    <3>3. QED BY <3>1, <3>2
  <2>2. job' \in [Tasks -> [at : Places, rec : RecordSet \cup {None}, gen : Nat, keep : Seq(RunSet),
                            old : FileSet]]
    BY <1>3 DEF JobSet
  <2>3. QED BY <2>1, <2>2 DEF JobsOK
<1>7. OwnRecords'
  <2>1. ~IsMessage(None) /\ ~IsRun(None)
    BY LineKinds
  <2>2. QED BY <1>1, <1>3, <2>1 DEF IInv, OwnRecords, RunOf
<1>8. RunsKnown'
  BY <1>1, <1>3 DEF IInv, RunsKnown
<1>9. Kept'
  <2>1. settled' \ exposed' \subseteq Records(file'.lines)
    BY <1>1, <1>4 DEF IInv, Kept, UndisturbedKept
  <2>2. ASSUME NEW r \in firm' \ exposed' PROVE \E i \in 1 .. durable : file.lines[i] = r
    <3>1. r \in settled \ exposed
      BY <1>1, <1>4, <2>2
    <3>2. CASE IsMessage(r)
      BY <1>1, <3>1, <3>2 DEF IInv, RewriteKeeps
    <3>3. CASE r \in ToSet(SubSeq(file.lines, 1, durable))
      <4> DEFINE p == SubSeq(file.lines, 1, durable)
      <4>1. p \in Seq(Line) /\ Len(p) = durable /\ \A i \in 1 .. durable : p[i] = file.lines[i]
        BY <1>2, PrefixIs
      <4>2. r \in ToSet(p)
        BY <3>3
      <4> HIDE DEF p
      <4>3. \E i \in 1 .. durable : p[i] = r
        BY <4>1, <4>2 DEF ToSet
      <4>4. QED BY <4>1, <4>3
    <3>4. QED BY <1>1, <2>2, <3>2, <3>3
  <2>3. QED BY <1>1, <2>1, <2>2 DEF Kept, UndisturbedKept
<1>10. (file'.missing \/ \E o \in Tasks : job'[o].at = "create") =>
         (file.missing \/ \E o \in Tasks : job[o].at = "create")
  BY <1>1, <1>3
<1>11. CreateOverlaps'
  BY <1>1, <1>4, <1>10 DEF IInv, CreateOverlaps
<1>12. OpenedByOther' /\ OpenIsNoRecord' /\ HeadIsLast'
  <2>1. OpenedByOther'
    BY <1>1, <1>3, <1>4 DEF IInv, OpenedByOther
  <2>2. OpenIsNoRecord'
    BY <1>1, <1>3 DEF IInv, OpenIsNoRecord
  <2>3. HeadIsLast'
    BY <1>1, <1>3, <1>4 DEF IInv, HeadIsLast
  <2>4. QED BY <2>1, <2>2, <2>3
<1>13. RewriteKeeps' /\ OpenAreMarked'
  BY <1>1, <1>3 DEF IInv, RewriteKeeps, OpenAreMarked
<1>14. MemoryIsJournal'
  <2>1. ~IsMessage(None)
    BY LineKinds
  <2>2. SUFFICES ASSUME Undisturbed'
        PROVE  /\ mem = Messages(file.lines)
               /\ (file'.missing \/ \E o \in Tasks : job'[o].at = "create") =>
                     Messages(file.lines) = <<>> /\ mem = <<>>
    BY <1>1, <1>3, <2>1 DEF MemoryIsJournal, Appending
  <2>3. Undisturbed
    BY <1>1, <1>4, <2>2 DEF Undisturbed
  <2>4. QED BY <1>1, <1>3, <1>10, <2>1, <2>3 DEF IInv, MemoryIsJournal, Appending
<1>15. QED BY <1>5, <1>6, <1>7, <1>8, <1>9, <1>11, <1>12, <1>13, <1>14 DEF IInv

-----------------------------------------------------------------------------
(* Power failure and the next start. *)

(* No task is in a call. *)
AllIdle == \A t \in Tasks : job[t] \in JobSet /\ job[t].at = "idle" /\ job[t].rec = None

(* What the invariant says of the calls holds when there are none. *)
LEMMA IdleKeeps ==
  ASSUME AllIdle', job' \in [Tasks -> JobSet]
  PROVE  /\ JobsOK' /\ OwnRecords' /\ OpenedByOther' /\ OpenIsNoRecord' /\ HeadIsLast' /\ RewriteKeeps'
         /\ job'[Turn].at = "idle" /\ ~Appending'
         /\ ~\E t \in Tasks : job'[t].at = "create"
<1>1. Turn \in Tasks
  BY DEF Tasks
<1>2. ~IsMessage(None) /\ ~IsRun(None)
  BY LineKinds
<1>3. \A t \in Tasks : job'[t].at = "idle" /\ job'[t].rec = None
  BY DEF AllIdle
<1>4. JobsOK'
  <2>1. job' \in [Tasks -> [at : Places, rec : RecordSet \cup {None}, gen : Nat, keep : Seq(RunSet),
                            old : FileSet]]
    BY DEF JobSet
  <2>2. QED BY <1>3, <2>1 DEF JobsOK
<1>5. OwnRecords'
  BY <1>2, <1>3 DEF OwnRecords
<1>6. OpenedByOther' /\ OpenIsNoRecord' /\ HeadIsLast'
  BY <1>3 DEF OpenedByOther, OpenIsNoRecord, HeadIsLast
<1>7. RewriteKeeps'
  BY <1>1, <1>3 DEF RewriteKeeps
<1>8. QED BY <1>1, <1>2, <1>3, <1>4, <1>5, <1>6, <1>7 DEF Appending

(* The file that is left has what was synced and no overlap exposed. *)
LEMMA LeftIs ==
  ASSUME FilesLoad, IInv, PowerLoss
  PROVE  /\ Sound(file') /\ LoadsLines(file'.lines) /\ Ordered(file'.lines)
         /\ firm \ exposed \subseteq Records(file'.lines)
         /\ Known(Records(file'.lines), boot, down, life)
<1>1. /\ Sound(file) /\ LoadsLines(file.lines) /\ Ordered(file.lines)
      /\ durable \in 0 .. Len(file.lines) /\ file.lines \in Seq(Line)
      /\ settled \subseteq RecordSet /\ firm \subseteq settled
      /\ Known(Records(file.lines), boot, down, life)
  BY DEF IInv, FileOK, StateOK, Sound, FileSet, RunsKnown
<1>2. CASE file.missing /\ file' = file
  <2>1. firm \ exposed \subseteq Records(file.lines)
    BY <1>1 DEF IInv, Kept, UndisturbedKept
  <2>2. QED BY <1>1, <1>2, <2>1
<1>3. CASE ~file.missing /\ file' \in Remains(file, durable)
  <2>1. /\ Sound(file') /\ ~file'.missing /\ LoadsLines(file'.lines) /\ Ordered(file'.lines)
        /\ Records(file'.lines) \subseteq Records(file.lines)
        /\ durable \leq Len(file'.lines) /\ \A i \in 1 .. durable : file'.lines[i] = file.lines[i]
    <3>1. ~CutsCharacters
      BY DEF FilesLoad
    <3>2. \A g \in Remains(file, durable) :
            /\ Sound(g) /\ ~g.missing /\ LoadsLines(g.lines) /\ Ordered(g.lines)
            /\ Records(g.lines) \subseteq Records(file.lines)
            /\ durable \leq Len(g.lines) /\ \A i \in 1 .. durable : g.lines[i] = file.lines[i]
      BY <1>1, <1>3, <3>1, RemainsAre
    <3>3. QED BY <1>3, <3>2
  <2>2. file'.lines \in Seq(Line)
    BY <2>1 DEF Sound, FileSet
  <2>3. ASSUME NEW r \in firm \ exposed PROVE r \in Records(file'.lines)
    <3>1. PICK i \in 1 .. durable : file.lines[i] = r
      BY <2>3 DEF IInv, Kept
    <3>2. i \in 1 .. Len(file'.lines) /\ file'.lines[i] = r /\ r \in RecordSet
      <4>1. Len(file'.lines) \in Nat /\ durable \in Nat
        BY <1>1, <2>2
      <4>2. QED BY <1>1, <2>1, <2>3, <3>1, <4>1
    <3>3. QED BY <2>2, <3>2, RecordsAre
  <2>4. QED BY <1>1, <2>1, <2>3 DEF Known
<1>4. CASE job[Turn].at = "dirsync" /\ file' = job[Turn].old
  BY <1>4 DEF IInv, RewriteKeeps, RunsKnown
<1>5. QED BY <1>2, <1>3, <1>4 DEF PowerLoss

(* Power fails: what is left is a journal again. *)
LEMMA PowerLossInv == ASSUME FilesLoad, IInv, PowerLoss PROVE IInv'
<1>1. /\ Sound(file') /\ LoadsLines(file'.lines) /\ Ordered(file'.lines)
      /\ firm \ exposed \subseteq Records(file'.lines)
      /\ Known(Records(file'.lines), boot, down, life)
  BY LeftIs
<1>2. /\ down' = TRUE /\ durable' = Len(file'.lines) /\ settled' = firm /\ exposed' = exposed \cap firm
      /\ job' = [t \in Tasks |-> Idle] /\ mem' = <<>> /\ pending' = {} /\ gen' = 0
      /\ life' = [t \in Tasks |-> "new"]
      /\ boot' = boot /\ written' = written /\ firm' = firm
  BY DEF PowerLoss
<1>3. file'.lines \in Seq(Line) /\ settled \subseteq RecordSet /\ firm \subseteq settled /\ Turn \in Tasks
  BY <1>1 DEF IInv, StateOK, Sound, FileSet, Tasks
<1>4. Idle \in JobSet /\ Idle.at = "idle" /\ Idle.rec = None
  BY <1>3, JobMoves DEF IInv
<1>5. AllIdle' /\ job' \in [Tasks -> JobSet]
  BY <1>2, <1>4 DEF AllIdle
<1>6. /\ JobsOK' /\ OwnRecords' /\ OpenedByOther' /\ OpenIsNoRecord' /\ HeadIsLast' /\ RewriteKeeps'
      /\ job'[Turn].at = "idle" /\ ~\E t \in Tasks : job'[t].at = "create"
  BY <1>5, IdleKeeps
<1>7. FileOK'
  <2>1. Len(file'.lines) \in 0 .. Len(file'.lines)
    BY <1>3
  <2>2. QED BY <1>1, <1>2, <2>1 DEF FileOK
<1>8. StateOK'
  <2>1. exposed' \subseteq RecordSet /\ settled' \subseteq RecordSet /\ firm' \subseteq settled'
    BY <1>2, <1>3
  <2>2. mem' \in Seq(Nat) /\ gen' \in Nat /\ life' \in [Tasks -> {"new", "started", "over"}]
    BY <1>2
  <2>3. QED BY <1>2, <2>1, <2>2 DEF IInv, StateOK
<1>9. RunsKnown'
  <2>1. Known(Records(file'.lines), boot, TRUE, life')
    BY <1>1 DEF Known
  <2>2. QED BY <1>2, <1>6, <2>1 DEF RunsKnown
<1>10. settled' \ exposed' = firm \ exposed
  BY <1>2
<1>11. Kept'
  <2>1. \A r \in firm \ exposed : \E i \in 1 .. Len(file'.lines) : file'.lines[i] = r
    BY <1>1, <1>3, RecordsAre
  <2>2. firm' \ exposed' = firm \ exposed
    BY <1>2
  <2>3. QED BY <1>1, <1>2, <1>10, <2>1, <2>2 DEF Kept, UndisturbedKept
<1>12. CreateOverlaps'
  <2>1. ASSUME file'.missing PROVE settled' \subseteq exposed'
    <3>1. file'.lines = <<>>
      BY <1>1, <2>1, NoFileIs DEF Sound
    <3>2. Records(<<>>) = {}
      BY DEF Records, ToSet
    <3>3. QED BY <1>1, <1>10, <3>1, <3>2
  <2>2. QED BY <1>6, <2>1 DEF CreateOverlaps
<1>13. OpenAreMarked' /\ MemoryIsJournal'
  BY <1>2 DEF OpenAreMarked, MemoryIsJournal, Undisturbed
<1>14. QED BY <1>6, <1>7, <1>8, <1>9, <1>11, <1>12, <1>13 DEF IInv

(* The file is loaded; its open runs are those to be marked. *)
LEMMA RestartInv == ASSUME IInv, Restart PROVE IInv'
<1>1. /\ down /\ down' = FALSE /\ boot' = boot + 1
      /\ mem' = LoadReport(file).messages /\ pending' = LoadReport(file).unfinished
      /\ file' = Ensure(file) /\ durable' = Len(file'.lines)
      /\ gen' = gen /\ job' = job /\ life' = life /\ written' = written /\ settled' = settled
      /\ firm' = firm /\ exposed' = exposed
  BY DEF Restart
<1>2. /\ Sound(file) /\ LoadsLines(file.lines) /\ Ordered(file.lines) /\ file.lines \in Seq(Line)
      /\ JobsOK /\ boot \in Nat /\ firm \subseteq settled
      /\ Known(Records(file.lines), boot, down, life)
  BY DEF IInv, FileOK, StateOK, Sound, FileSet, RunsKnown
<1>3. /\ Sound(file') /\ ~file'.missing
      /\ Records(file'.lines) = Records(file.lines) /\ Messages(file'.lines) = Messages(file.lines)
      /\ Ordered(file'.lines) /\ LoadsLines(file'.lines)
  BY <1>1, <1>2, EnsureIs
<1>4. mem' = Messages(file.lines) /\ pending' = Open(Records(file.lines))
  BY <1>1, <1>2, LoadedIs
<1>5. file'.lines \in Seq(Line)
  BY <1>3 DEF Sound, FileSet
<1>6. AllIdle' /\ job' \in [Tasks -> JobSet]
  <2>1. ASSUME NEW t \in Tasks PROVE job[t] \in JobSet /\ job[t].at = "idle" /\ job[t].rec = None
    <3>1. /\ job[t] \in JobSet /\ (job[t].at = "idle" => job[t].rec = None)
          /\ (job[t].at # "idle" => ~down)
      BY <1>2, JobIs
    <3>2. QED BY <1>1, <3>1
  <2>2. job \in [Tasks -> JobSet]
    BY <1>2 DEF JobsOK, JobSet
  <2>3. QED BY <1>1, <2>1, <2>2 DEF AllIdle
<1>7. /\ JobsOK' /\ OwnRecords' /\ OpenedByOther' /\ OpenIsNoRecord' /\ HeadIsLast' /\ RewriteKeeps'
      /\ job'[Turn].at = "idle" /\ ~Appending' /\ ~\E t \in Tasks : job'[t].at = "create"
  BY <1>6, IdleKeeps
<1>8. FileOK'
  <2>1. Len(file'.lines) \in 0 .. Len(file'.lines)
    BY <1>5
  <2>2. QED BY <1>1, <1>3, <2>1 DEF FileOK
<1>9. ASSUME NEW l \in Records(file.lines), IsRun(l)
      PROVE  l.run \in RunIds /\ l.run[2] \leq boot /\ l.run[2] \in Nat
  <2>1. l \in Line
    BY <1>2, <1>9, RecordsAre, LineKinds
  <2>2. l.run \in RunIds
    BY <1>9, <2>1, LineKinds
  <2>3. QED BY <1>2, <1>9, <2>2 DEF Known, RunIds
<1>10. StateOK'
  <2>1. mem' \in Seq(Nat)
    <3>1. Junk \in Line
      BY LineKinds
    <3>2. QED BY <1>2, <1>4, <3>1, MessagesAppend
  <2>2. ASSUME NEW r \in pending' PROVE r \in RunIds /\ r[2] < boot'
    <3>1. RunRecord(r, "started") \in Records(file.lines)
      BY <1>4, <2>2 DEF Open
    <3>2. IsRun(RunRecord(r, "started")) /\ RunRecord(r, "started").run = r
      BY DEF RunRecord, IsRun
    <3>3. r \in RunIds /\ r[2] \leq boot /\ r[2] \in Nat
      BY <1>9, <3>1, <3>2
    <3>4. QED BY <1>1, <1>2, <3>3
  <2>3. boot' \in Nat
    BY <1>1, <1>2
  <2>4. down' \in BOOLEAN
    BY <1>1
  <2>5. QED BY <1>1, <2>1, <2>2, <2>3, <2>4 DEF IInv, StateOK
<1>11. RunsKnown'
  <2>1. Known(Records(file'.lines), boot + 1, FALSE, life)
    <3>1. ASSUME NEW l \in Records(file.lines), IsRun(l)
          PROVE  l.run[2] \leq boot + 1 /\ \A t \in Tasks : l.run # <<t, boot + 1>>
      <4>1. l.run[2] \leq boot /\ l.run[2] \in Nat
        BY <1>9, <3>1
      <4>2. l.run[2] \leq boot + 1 /\ l.run[2] # boot + 1
        BY <1>2, <4>1
      <4>3. QED BY <4>2
    <3>2. QED BY <1>3, <3>1 DEF Known
  <2>2. QED BY <1>1, <1>7, <2>1 DEF RunsKnown
<1>12. Kept'
  <2>1. settled \ exposed \subseteq Records(file.lines)
    BY DEF IInv, Kept, UndisturbedKept
  <2>2. \A r \in firm \ exposed : \E i \in 1 .. Len(file'.lines) : file'.lines[i] = r
    BY <1>2, <1>3, <1>5, <2>1, RecordsAre
  <2>3. QED BY <1>1, <1>3, <2>1, <2>2 DEF Kept, UndisturbedKept
<1>13. CreateOverlaps'
  BY <1>3, <1>7 DEF CreateOverlaps
<1>14. OpenAreMarked'
  BY <1>3, <1>4, <1>7 DEF OpenAreMarked
<1>15. MemoryIsJournal'
  BY <1>3, <1>4, <1>7 DEF MemoryIsJournal
<1>16. QED BY <1>7, <1>8, <1>10, <1>11, <1>12, <1>13, <1>14, <1>15 DEF IInv

(* An open run gets its interrupted record. *)
LEMMA MarkInterruptedInv ==
  ASSUME IInv, NEW r \in pending, MarkInterrupted(r)
  PROVE  IInv'
<1> DEFINE rec == RunRecord(r, "interrupted")  b == RecordBoundary(file)
<1>1. /\ ~down /\ pending' = pending \ {r} /\ file' = Glue(b, rec, FALSE)
      /\ settled' = settled \cup {rec}
      /\ durable' = durable /\ gen' = gen /\ mem' = mem /\ job' = job /\ life' = life
      /\ boot' = boot /\ down' = down /\ written' = written /\ firm' = firm /\ exposed' = exposed
  BY DEF MarkInterrupted, Settle
<1>2. /\ Sound(file) /\ LoadsLines(file.lines) /\ Ordered(file.lines) /\ file.lines \in Seq(Line)
      /\ durable \in 0 .. Len(file.lines)
      /\ JobsOK /\ boot \in Nat /\ firm \subseteq settled /\ settled \subseteq RecordSet
      /\ Known(Records(file.lines), boot, down, life)
      /\ r \in RunIds /\ r[2] < boot
  BY DEF IInv, FileOK, StateOK, Sound, FileSet, RunsKnown
<1>3. /\ rec \in RecordSet /\ rec \in Line /\ rec.kind # "header" /\ IsRun(rec) /\ ~IsMessage(rec)
      /\ rec.run = r /\ rec.state = "interrupted" /\ rec.state \in EndStates
  BY <1>2 DEF RunRecord, Line, RecordSet, RunSet, IsRun, IsMessage, EndStates, RunStates
<1>4. rec # RunRecord(r, "started") /\ \A x : rec # RunRecord(x, "started")
  BY DEF RunRecord
<1>5. Sound(b) /\ b.open = FALSE /\ Written(file.lines, b.lines, Junk)
  BY <1>2, BoundaryWrites
<1> HIDE DEF b
<1>6. Sound(file') /\ file'.open = FALSE /\ ~file'.missing /\ Written(b.lines, file'.lines, rec)
  <2> HIDE DEF rec
  <2>1. \A o \in BOOLEAN : /\ Sound(Glue(b, rec, o)) /\ Glue(b, rec, o).open = o /\ ~Glue(b, rec, o).missing
                           /\ Written(b.lines, Glue(b, rec, o).lines, rec)
    BY <1>3, <1>5, GlueWrites
  <2>2. QED BY <1>1, <2>1
<1>7. Written(file.lines, file'.lines, rec)
  BY <1>2, <1>5, <1>6, WrittenTwice
<1>8. /\ file'.lines \in Seq(Line) /\ Len(file.lines) \leq Len(file'.lines)
      /\ \A i \in DOMAIN file.lines : file.lines[i] \in RecordSet => file'.lines[i] = file.lines[i]
      /\ Records(file'.lines) = Records(file.lines) \cup {rec}
      /\ Messages(file'.lines) = Messages(file.lines)
      /\ Ordered(file'.lines) /\ LoadsLines(file'.lines)
  <2> HIDE DEF rec
  <2>1. QED BY <1>2, <1>3, <1>7 DEF Written
<1>9. AllIdle' /\ job' \in [Tasks -> JobSet]
  <2>1. ASSUME NEW t \in Tasks PROVE job[t] \in JobSet /\ job[t].at = "idle" /\ job[t].rec = None
    <3>1. /\ job[t] \in JobSet /\ (job[t].at = "idle" => job[t].rec = None)
          /\ (job[t].at # "idle" => pending = {})
      BY <1>2, JobIs
    <3>2. QED BY <3>1
  <2>2. job \in [Tasks -> JobSet]
    BY <1>2 DEF JobsOK, JobSet
  <2>3. QED BY <1>1, <2>1, <2>2 DEF AllIdle
<1>10. /\ JobsOK' /\ OwnRecords' /\ OpenedByOther' /\ OpenIsNoRecord' /\ HeadIsLast' /\ RewriteKeeps'
       /\ job'[Turn].at = "idle" /\ ~Appending' /\ ~\E t \in Tasks : job'[t].at = "create"
  BY <1>9, IdleKeeps
<1>11. FileOK'
  <2>1. durable' \in 0 .. Len(file'.lines)
    <3>1. Len(file'.lines) \in Nat /\ Len(file.lines) \leq Len(file'.lines)
      BY <1>8
    <3>2. Len(file.lines) \in Nat /\ durable \in Nat /\ durable \leq Len(file.lines)
      BY <1>2
    <3>3. durable' = durable
      BY <1>1
    <3>4. QED BY <3>1, <3>2, <3>3
  <2>2. QED BY <1>6, <1>8, <2>1 DEF FileOK
<1>12. StateOK'
  <2>1. settled' \subseteq RecordSet /\ firm' \subseteq settled'
    BY <1>1, <1>2, <1>3
  <2>2. QED BY <1>1, <2>1 DEF IInv, StateOK
<1>13. RunsKnown'
  <2>1. r[2] \leq boot /\ \A t \in Tasks : r # <<t, boot>>
    <3>1. r[2] \in Nat
      BY <1>2 DEF RunIds
    <3>2. r[2] \leq boot /\ r[2] # boot
      BY <1>2, <3>1
    <3>3. QED BY <3>2
  <2>2. Known(Records(file'.lines), boot, down, life)
    <3> HIDE DEF rec
    <3>1. QED BY <1>2, <1>3, <1>8, <2>1 DEF Known
  <2>3. QED BY <1>1, <1>10, <2>2 DEF RunsKnown
<1>14. Kept'
  <2>1. settled \ exposed \subseteq Records(file.lines)
        /\ \A x \in firm \ exposed : \E i \in 1 .. durable : file.lines[i] = x
    BY DEF IInv, Kept, UndisturbedKept
  <2>2. ASSUME NEW x \in firm \ exposed PROVE \E i \in 1 .. durable : file'.lines[i] = x
    <3>1. PICK i \in 1 .. durable : file.lines[i] = x
      BY <2>1
    <3>2. i \in DOMAIN file.lines
      <4>1. Len(file.lines) \in Nat /\ DOMAIN file.lines = 1 .. Len(file.lines) /\ durable \leq Len(file.lines)
            /\ durable \in Nat
        BY <1>2
      <4>2. QED BY <4>1
    <3>3. QED BY <1>2, <1>8, <3>1, <3>2
  <2>3. QED BY <1>1, <1>8, <2>1, <2>2 DEF Kept, UndisturbedKept
<1>15. CreateOverlaps'
  BY <1>6, <1>10 DEF CreateOverlaps
<1>16. OpenAreMarked'
  <2>1. \A x \in Open(Records(file.lines)) : x[2] # boot => x \in pending
    BY <1>1 DEF IInv, OpenAreMarked
  <2>2. ASSUME NEW x \in Open(Records(file'.lines)), x[2] # boot PROVE x \in pending'
    <3>1. RunRecord(x, "started") \in Records(file'.lines)
          /\ \A s \in EndStates : RunRecord(x, s) \notin Records(file'.lines)
      BY <2>2 DEF Open
    <3>2. x # r
      <4>1. "interrupted" \in EndStates
        BY DEF EndStates, RunStates
      <4>2. QED BY <1>8, <3>1, <4>1
    <3>3. RunRecord(x, "started") \in Records(file.lines)
          /\ \A s \in EndStates : RunRecord(x, s) \notin Records(file.lines)
      <4> HIDE DEF rec
      <4>1. QED BY <1>4, <1>8, <3>1
    <3>4. IsRun(RunRecord(x, "started")) /\ RunRecord(x, "started").run = x
      BY DEF RunRecord, IsRun
    <3>5. x \in Open(Records(file.lines))
      BY <3>3, <3>4 DEF Open
    <3>6. QED BY <1>1, <2>1, <2>2, <3>2, <3>5
  <2>3. QED BY <1>1, <1>10, <2>2 DEF OpenAreMarked
<1>17. MemoryIsJournal'
  <2>1. Turn \in Tasks
    BY DEF Tasks
  <2>2. job[Turn].at # "rename" /\ ~Appending
    BY <1>1, <1>10 DEF Appending
  <2>3. Undisturbed' => Undisturbed
    BY <1>1 DEF Undisturbed
  <2>4. Undisturbed => mem = Messages(file.lines)
    BY <2>2 DEF IInv, MemoryIsJournal
  <2>5. QED BY <1>1, <1>6, <1>8, <1>10, <2>3, <2>4 DEF MemoryIsJournal
<1>18. QED BY <1>10, <1>11, <1>12, <1>13, <1>14, <1>15, <1>16, <1>17 DEF IInv

-----------------------------------------------------------------------------
(* Every step. *)

(* The first process finds a file the core can load. *)
LEMMA OldFileIs ==
  ASSUME FilesLoad, NEW f \in OldFiles
  PROVE  /\ Sound(f) /\ LoadsLines(f.lines) /\ Ordered(f.lines) /\ f.lines \in Seq(Line)
         /\ \A l \in Records(f.lines) : IsRun(l) => l.run \in RunIds /\ l.run[2] = 0
<1>1. CASE f = NoFile
  <2>1. Sound(f) /\ f.lines = <<>>
    BY <1>1, NoFileIs
  <2>2. Ordered(<<>>) /\ LoadsLines(<<>>) /\ Records(<<>>) = {} /\ <<>> \in Seq(Line)
    BY DEF Ordered, LoadsLines, Records, ToSet
  <2>3. QED BY <2>1, <2>2
<1>2. CASE f # NoFile
  <2> DEFINE s == f.lines
             Old == [kind : {"header"}, version : Nat] \cup [kind : {"message"}, id : Nat]
                    \cup [kind : {"run"}, run : Tasks \X {0}, state : RunStates]
                    \cup {Junk, BrokenCharacter}
  <2>1. /\ f = File(s, f.open) /\ f.open \in BOOLEAN /\ s \in Seq(Old)
        /\ f.open => s # <<>>
        /\ Ordered(s)
    BY <1>2, OldFilesGiven
  <2>2. ~f.missing
    BY <2>1 DEF File
  <2>3. Readable(f) /\ ~TooNew(f)
    BY <2>2 DEF FilesLoad
  <2>4. \A i \in 1 .. Len(s) : s[i] \in Old /\ s[i] # BrokenCharacter
    BY <2>1, <2>3 DEF Readable
  <2>5. \A l \in Old : l # BrokenCharacter => l \in Line
    <3>1. Tasks \X {0} \subseteq RunIds
      BY DEF RunIds
    <3>2. [kind : {"run"}, run : Tasks \X {0}, state : RunStates] \subseteq RunSet
      BY <3>1 DEF RunSet
    <3>3. QED BY <3>2 DEF Line, RecordSet, HeaderSet, MessageSet
  <2>6. \A l \in Old : IsRun(l) => l.run[2] = 0
    <3>1. \A l \in [kind : {"run"}, run : Tasks \X {0}, state : RunStates] : l.run[2] = 0
      <4>1. \A r \in Tasks \X {0} : r[2] = 0
        OBVIOUS
      <4>2. QED BY <4>1
    <3>2. QED BY <3>1 DEF IsRun, Junk, BrokenCharacter
  <2> HIDE DEF Old
  <2>7. s \in Seq(Line)
    <3>1. \A i \in 1 .. Len(s) : s[i] \in Line
      BY <2>4, <2>5
    <3>2. QED BY <2>1, <3>1, IsASeq
  <2>8. Sound(f)
    <3> HIDE DEF s
    <3>1. Sound(File(s, f.open))
      BY <2>1, <2>7, FileIs
    <3>2. QED BY <2>1, <3>1
  <2>9. LoadsLines(s)
    <3>1. ASSUME s # <<>>, s[1].kind = "header" PROVE s[1].version \leq SESSION_VERSION
      <4>1. ~(s[1].version > SESSION_VERSION)
        BY <2>3, <3>1 DEF TooNew, Versioned
      <4>2. s[1] \in Line
        <5>1. Len(s) \in Nat /\ Len(s) # 0
          BY <2>7, <3>1
        <5>2. 1 \in 1 .. Len(s)
          BY <5>1
        <5>3. QED BY <2>7, <5>2
      <4>3. s[1].version \in Nat
        BY <3>1, <4>2 DEF Line, RecordSet, MessageSet, RunSet, HeaderSet, FragmentSet, Junk
      <4>4. QED BY <4>1, <4>3 DEF SESSION_VERSION
    <3>2. QED BY <3>1 DEF LoadsLines
  <2>10. ASSUME NEW l \in Records(s), IsRun(l) PROVE l.run \in RunIds /\ l.run[2] = 0
    <3>1. PICK i \in 1 .. Len(s) : s[i] = l
      BY <2>7, <2>10, RecordsAre
    <3>2. l \in Line /\ l \in Old
      BY <2>4, <2>5, <3>1
    <3>3. QED BY <2>6, <2>10, <3>2, LineKinds
  <2>11. QED BY <2>1, <2>7, <2>8, <2>9, <2>10
<1>3. QED BY <1>1, <1>2

(* The first process starts with the invariant. *)
LEMMA InitInv == ASSUME FilesLoad, Init PROVE IInv
<1>1. /\ file \in OldFiles /\ durable = Len(file.lines)
      /\ mem = LoadReport(file).messages /\ pending = LoadReport(file).unfinished
      /\ gen = 0 /\ boot = 1 /\ down = FALSE
      /\ job = [t \in Tasks |-> Idle] /\ life = [t \in Tasks |-> "new"]
      /\ written = [messages |-> 0, rewrites |-> 0, runs |-> 0]
      /\ settled = Records(file.lines) /\ firm = settled /\ exposed = {}
  BY DEF Init, Records
<1>2. /\ Sound(file) /\ LoadsLines(file.lines) /\ Ordered(file.lines) /\ file.lines \in Seq(Line)
      /\ \A l \in Records(file.lines) : IsRun(l) => l.run \in RunIds /\ l.run[2] = 0
  BY <1>1, OldFileIs
<1>3. mem = Messages(file.lines) /\ pending = Open(Records(file.lines))
  BY <1>1, <1>2, LoadedIs
<1>4. Turn \in Tasks /\ ~IsMessage(None) /\ ~IsRun(None)
  BY LineKinds DEF Tasks
<1>5. Idle \in JobSet /\ Idle.at = "idle" /\ Idle.rec = None
  <2>1. <<>> \in Seq(RunSet) /\ NoFile \in FileSet /\ "idle" \in Places
    BY NoFileIs DEF Sound, Places
  <2>2. QED BY <2>1 DEF Idle, JobSet
<1>6. /\ job \in [Tasks -> JobSet] /\ \A t \in Tasks : job[t].at = "idle" /\ job[t].rec = None
  BY <1>1, <1>5
<1>7. FileOK
  <2>1. Len(file.lines) \in 0 .. Len(file.lines)
    BY <1>2
  <2>2. QED BY <1>1, <1>2, <2>1 DEF FileOK
<1>8. StateOK
  <2>1. mem \in Seq(Nat)
    <3>1. Junk \in Line
      BY LineKinds
    <3>2. QED BY <1>2, <1>3, <3>1, MessagesAppend
  <2>2. ASSUME NEW r \in pending PROVE r \in RunIds /\ r[2] < boot
    <3>1. RunRecord(r, "started") \in Records(file.lines)
      BY <1>3, <2>2 DEF Open
    <3>2. IsRun(RunRecord(r, "started")) /\ RunRecord(r, "started").run = r
      BY DEF RunRecord, IsRun
    <3>3. r \in RunIds /\ r[2] = 0
      BY <1>2, <3>1, <3>2
    <3>4. QED BY <1>1, <3>3
  <2>3. Records(file.lines) \subseteq RecordSet
    BY <1>2, RecordsAre
  <2>4. /\ gen \in Nat /\ boot \in Nat /\ written \in [messages : Nat, rewrites : Nat, runs : Nat]
        /\ life \in [Tasks -> {"new", "started", "over"}]
    BY <1>1
  <2>5. down \in BOOLEAN
    BY <1>1
  <2>6. QED BY <1>1, <2>1, <2>2, <2>3, <2>4, <2>5 DEF StateOK
<1>9. JobsOK
  <2>1. job \in [Tasks -> [at : Places, rec : RecordSet \cup {None}, gen : Nat, keep : Seq(RunSet),
                           old : FileSet]]
    BY <1>6 DEF JobSet
  <2>2. QED BY <1>6, <2>1 DEF JobsOK
<1>10. OwnRecords /\ OpenedByOther /\ OpenIsNoRecord /\ HeadIsLast /\ RewriteKeeps
  BY <1>4, <1>6 DEF OwnRecords, OpenedByOther, OpenIsNoRecord, HeadIsLast, RewriteKeeps
<1>11. RunsKnown
  <2>1. Known(Records(file.lines), 1, FALSE, life)
    <3>1. ASSUME NEW l \in Records(file.lines), IsRun(l)
          PROVE  l.run[2] \leq 1 /\ \A t \in Tasks : l.run # <<t, 1>>
      <4>1. l.run[2] = 0
        BY <1>2, <3>1
      <4>2. QED BY <4>1
    <3>2. QED BY <3>1 DEF Known
  <2>2. QED BY <1>1, <1>4, <1>6, <2>1 DEF RunsKnown
<1>12. Kept
  BY <1>1, <1>2, RecordsAre DEF Kept, UndisturbedKept
<1>13. CreateOverlaps
  <2>1. ASSUME file.missing PROVE settled = {}
    <3>1. file.lines = <<>>
      BY <1>2, <2>1, NoFileIs DEF Sound
    <3>2. Records(<<>>) = {}
      BY DEF Records, ToSet
    <3>3. QED BY <1>1, <3>1, <3>2
  <2>2. QED BY <1>6, <2>1 DEF CreateOverlaps
<1>14. OpenAreMarked
  BY <1>3, <1>4, <1>6 DEF OpenAreMarked
<1>15. MemoryIsJournal
  <2>1. ASSUME file.missing PROVE Messages(file.lines) = <<>>
    BY <1>2, <2>1, NoFileIs, MessagesEmpty DEF Sound
  <2>2. QED BY <1>3, <1>4, <1>6, <2>1 DEF MemoryIsJournal, Appending
<1>16. QED BY <1>7, <1>8, <1>9, <1>10, <1>11, <1>12, <1>13, <1>14, <1>15 DEF IInv

(* Nothing changes. *)
LEMMA StutterInv == ASSUME IInv, UNCHANGED vars PROVE IInv'
<1>1. /\ file' = file /\ durable' = durable /\ gen' = gen /\ mem' = mem /\ job' = job /\ life' = life
      /\ boot' = boot /\ pending' = pending /\ down' = down /\ written' = written
      /\ settled' = settled /\ firm' = firm /\ exposed' = exposed
  BY DEF vars
<1>2. FileOK' /\ StateOK' /\ JobsOK'
  BY <1>1 DEF IInv, FileOK, StateOK, JobsOK
<1>3. OwnRecords' /\ RunsKnown' /\ Kept' /\ CreateOverlaps'
  BY <1>1 DEF IInv, OwnRecords, RunOf, RunsKnown, Kept, UndisturbedKept, CreateOverlaps
<1>4. OpenedByOther' /\ OpenIsNoRecord' /\ HeadIsLast' /\ RewriteKeeps' /\ OpenAreMarked'
  BY <1>1 DEF IInv, OpenedByOther, OpenIsNoRecord, HeadIsLast, RewriteKeeps, OpenAreMarked
<1>5. MemoryIsJournal'
  BY <1>1 DEF IInv, MemoryIsJournal, Undisturbed, Appending
<1>6. QED BY <1>2, <1>3, <1>4, <1>5 DEF IInv

(* Every step keeps it. *)
LEMMA StepInv == ASSUME FilesLoad, IInv, [Next]_vars PROVE IInv'
<1>1. ASSUME NEW t \in Tasks, Call(t) PROVE IInv'
  BY <1>1, CreateHeaderInv, CheckBoundaryInv, WriteMessageInv, WriteHeadInv, WriteTailInv DEF Call
<1>2. ASSUME NEW t \in Tasks, StartRun(t) PROVE IInv'
  BY <1>2, StartRunInv
<1>3. ASSUME NEW t \in Tasks, EndRun(t) PROVE IInv'
  BY <1>3, EndRunInv
<1>4. CASE AppendMessage
  BY <1>4, AppendMessageInv
<1>5. CASE Sync
  BY <1>5, SyncInv
<1>6. CASE BeginRewrite
  BY <1>6, BeginRewriteInv
<1>7. CASE Rename
  BY <1>7, RenameInv
<1>8. CASE SyncDirectory
  BY <1>8, SyncDirectoryInv
<1>9. CASE PowerLoss
  BY <1>9, PowerLossInv
<1>10. CASE Restart
  BY <1>10, RestartInv
<1>11. ASSUME NEW r \in pending, MarkInterrupted(r) PROVE IInv'
  BY <1>11, MarkInterruptedInv
<1>12. CASE UNCHANGED vars
  BY <1>12, StutterInv
<1>13. QED
  BY <1>1, <1>2, <1>3, <1>4, <1>5, <1>6, <1>7, <1>8, <1>9, <1>10, <1>11, <1>12 DEF Next

(* It holds in every state that can be reached. *)
LEMMA Inductive == ASSUME FilesLoad PROVE Spec => []IInv
<1>1. Init => IInv
  BY InitInv
<1>2. IInv /\ [Next]_vars => IInv'
  BY StepInv
<1>3. QED BY <1>1, <1>2, PTL DEF Spec

-----------------------------------------------------------------------------
(* The theorems. *)

(* Damage is contained (ensure_record_boundary, rewrite): whatever is torn, glued   *)
(* or cut behind a record that no call overlapped, the record stays readable until  *)
(* a rewrite drops it or the power fails before it was synced.                      *)
THEOREM DamageIsContained == ASSUME FilesLoad PROVE Spec => []UndisturbedKept
<1>1. IInv => UndisturbedKept
  BY DEF IInv, Kept
<1>2. QED BY <1>1, Inductive, PTL

(* What load_report would return is the conversation in memory whenever the turn is *)
(* in no call and no message was exposed.                                           *)
THEOREM JournalIsConversation == ASSUME FilesLoad PROVE Spec => []JournalIsMemory
<1>1. IInv => JournalIsMemory
  <2>1. SUFFICES ASSUME IInv, Running, ~InCall(Turn), ~\E r \in exposed : IsMessage(r)
        PROVE  LoadReport(file).messages = mem
    BY DEF JournalIsMemory
  <2>2. Turn \in Tasks /\ JobsOK /\ Sound(file) /\ LoadsLines(file.lines) /\ Ordered(file.lines)
    BY <2>1 DEF IInv, FileOK, Tasks
  <2>3. job[Turn].at = "idle" /\ job[Turn].rec = None
    BY <2>1, <2>2, JobIs
  <2>4. ~Appending /\ Undisturbed
    BY <2>1, <2>3, LineKinds DEF Appending, Undisturbed, Running
  <2>5. mem = Messages(file.lines)
    BY <2>1, <2>3, <2>4 DEF IInv, MemoryIsJournal
  <2>6. QED BY <2>2, <2>5, LoadedIs
<1>2. QED BY <1>1, Inductive, PTL

(* No run is reported as open whose end was recorded undisturbed, and once the      *)
(* start-up has dealt with the open runs, none of an earlier process is.            *)
THEOREM ReportedRunsAreOpen == ASSUME FilesLoad PROVE Spec => []OpenRunsAreOpen
<1>1. IInv => OpenRunsAreOpen
  <2>1. SUFFICES ASSUME IInv, NEW r \in LoadReport(file).unfinished
        PROVE  /\ ~\E s \in {"completed", "interrupted"} : RunRecord(r, s) \in settled \ exposed
               /\ Running => r[2] = boot
    BY DEF OpenRunsAreOpen
  <2>2. Sound(file) /\ LoadsLines(file.lines) /\ Ordered(file.lines)
    BY <2>1 DEF IInv, FileOK
  <2>3. r \in Open(Records(file.lines))
    BY <2>1, <2>2, LoadedIs
  <2>4. \A s \in EndStates : RunRecord(r, s) \notin Records(file.lines)
    BY <2>3 DEF Open
  <2>5. EndStates = {"completed", "interrupted"}
    BY DEF EndStates, RunStates
  <2>6. settled \ exposed \subseteq Records(file.lines)
    BY <2>1 DEF IInv, Kept, UndisturbedKept
  <2>7. Running => r[2] = boot
    BY <2>1, <2>3 DEF IInv, OpenAreMarked, Running
  <2>8. QED BY <2>4, <2>5, <2>6, <2>7
<1>2. QED BY <1>1, Inductive, PTL

(* What was synced and no overlap exposed is loaded, whatever the power did since   *)
(* (load_report): only a cut character or a newer file takes it away.               *)
THEOREM SyncedIsLoaded == ASSUME FilesLoad PROVE Spec => []SyncedHistoryLoads
<1>1. IInv => SyncedHistoryLoads
  <2>1. SUFFICES ASSUME IInv, NEW r \in firm \ exposed, IsMessage(r)
        PROVE  r.id \in ToSet(LoadReport(file).messages)
    BY DEF SyncedHistoryLoads
  <2>2. Sound(file) /\ LoadsLines(file.lines) /\ Ordered(file.lines) /\ file.lines \in Seq(Line)
    BY <2>1 DEF IInv, FileOK, Sound, FileSet
  <2>3. r \in ToSet(file.lines) /\ r.kind = "message"
    BY <2>1 DEF IInv, StateOK, Kept, UndisturbedKept, Records, IsMessage
  <2> DEFINE ms == OfKind(file.lines, "message")
  <2>4. ms \in Seq(Line) /\ r \in ToSet(ms)
    BY <2>2, <2>3, OfKindSet
  <2>5. LoadReport(file).messages = [i \in DOMAIN ms |-> ms[i].id]
    BY <2>2, LoadedIs DEF Messages
  <2> HIDE DEF ms
  <2>6. QED BY <2>4, <2>5 DEF ToSet
<1>2. QED BY <1>1, Inductive, PTL
=============================================================================
