----------------------------- MODULE SessionLog -----------------------------
(***************************************************************************)
(* The session journal of the core (session.rs): a file of JSON lines that *)
(* starts with a version header and holds the messages of the conversation *)
(* and the life-cycle records of runs, tools, subagents and goals.  The    *)
(* turn task appends messages, rewrites the file and syncs it; workers     *)
(* append run records beside it, without a common lock.  Power may fail;   *)
(* the next process loads what is left and closes the runs it finds open.  *)
(*                                                                         *)
(* A line is a record, or Junk that no parser accepts, or a Fragment: the  *)
(* first part of a run record whose writer has not written the rest.       *)
(***************************************************************************)
EXTENDS Integers, Sequences, FiniteSets, SequencesExt

CONSTANTS
    Turn,           \* the task of the turn: messages, rewrites, syncs, its own run
    Workers,        \* tasks that append only the records of their run
    OldFiles,       \* what the first process may find on disk
    CutsCharacters, \* may a lost tail end inside a multi-byte character?
    MaxMessages, MaxRewrites, MaxRuns, MaxCrashes

ASSUME SessionLogAssumption ==
    /\ Turn \notin Workers
    /\ CutsCharacters \in BOOLEAN
    /\ {MaxMessages, MaxRewrites, MaxRuns, MaxCrashes} \subseteq Nat

VARIABLES
    file,       \* [lines, open]: open when the last line has no newline; or NoFile
    durable,    \* how many lines of the file a power failure leaves alone
    gen,        \* how often a new file was renamed over the old one
    mem,        \* State.conversation: the identities of its messages
    job,        \* for each task, the call into session.rs it is in
    life,       \* for each task, the life of its run: "new", "started", "over"
    boot,       \* how many times the core was started
    pending,    \* runs the starting core has still to mark as interrupted
    down,       \* the power failed and the core was not started again
    written,    \* number of messages, rewrites and runs so far
    settled,    \* the records whose append has returned and that no rewrite dropped
    firm,       \* those of them that were synced
    exposed     \* the records whose append overlapped another call

vars == <<file, durable, gen, mem, job, life, boot, pending, down, written,
          settled, firm, exposed>>

Tasks == {Turn} \cup Workers

-----------------------------------------------------------------------------
(* Lines and files. *)

SESSION_VERSION == 2
NoFile == [lines |-> <<>>, open |-> FALSE, missing |-> TRUE]
File(lines, open) == [lines |-> lines, open |-> open, missing |-> FALSE]

Header(v) == [kind |-> "header", version |-> v]
Message(n) == [kind |-> "message", id |-> n]
RunRecord(r, s) == [kind |-> "run", run |-> r, state |-> s]
Junk == [kind |-> "junk", utf8 |-> TRUE]
BrokenCharacter == [kind |-> "junk", utf8 |-> FALSE]
Fragment(rec) == [kind |-> "fragment", of |-> rec]
None == [kind |-> "none"]

IsMessage(l) == l.kind = "message"
IsRun(l) == l.kind = "run"
Spoilt(l) == IF l = BrokenCharacter THEN l ELSE Junk

(* Text that is written behind a line without its newline makes one line of both. *)
Glue(f, l, open) ==
    IF f.open THEN File(Append(Front(f.lines), Spoilt(Last(f.lines))), open)
              ELSE File(Append(f.lines, l), open)

(* Mutant of RecordBoundary: the file is taken as it is. *)
RecordBoundaryUnchecked(f) == f

(* ensure_record_boundary: an unterminated line gets its newline.  A fragment ends *)
(* there and is junk; a record that lacked only the newline is whole.              *)
RecordBoundary(f) ==
    IF ~f.open THEN f
    ELSE File(Append(Front(f.lines),
                     IF Last(f.lines).kind = "fragment" THEN Junk ELSE Last(f.lines)),
              FALSE)

(* read_to_string succeeds on valid UTF-8 only. *)
Readable(f) == ~f.missing /\ \A i \in DOMAIN f.lines : f.lines[i] # BrokenCharacter
Versioned(f) == f.lines # <<>> /\ f.lines[1].kind = "header"
TooNew(f) == Readable(f) /\ Versioned(f) /\ f.lines[1].version > SESSION_VERSION

(* The lines of one kind, in order: SelectSeq, as a function on the positions. *)
OfKind(lines, kind) ==
    LET part[i \in 0 .. Len(lines)] ==
            IF i = 0 THEN <<>>
            ELSE IF lines[i].kind = kind THEN Append(part[i - 1], lines[i])
            ELSE part[i - 1]
    IN part[Len(lines)]

Messages(lines) == LET ms == OfKind(lines, "message") IN [i \in DOMAIN ms |-> ms[i].id]
RunLines(lines) == OfKind(lines, "run")

RecordsOf(lines, r) == {i \in DOMAIN lines : IsRun(lines[i]) /\ lines[i].run = r}

(* Mutant of LastState: the first record decides. *)
FirstState(lines, r) ==
    IF RecordsOf(lines, r) = {} THEN "none" ELSE lines[Min(RecordsOf(lines, r))].state

(* The last record of a run decides its state. *)
LastState(lines, r) ==
    IF RecordsOf(lines, r) = {} THEN "none" ELSE lines[Max(RecordsOf(lines, r))].state

RunsIn(lines) == {l.run : l \in {l \in ToSet(lines) : IsRun(l)}}

(* load_report: the messages, and the runs that were started and not ended. *)
LoadReport(f) ==
    IF ~Readable(f) \/ TooNew(f) THEN [messages |-> <<>>, unfinished |-> {}]
    ELSE [messages |-> Messages(f.lines),
          unfinished |-> {r \in RunsIn(f.lines) : LastState(f.lines, r) = "started"}]

RunStates == {"started", "completed", "interrupted"}
EndStates == RunStates \ {"started"}

(* No run is started after its end. *)
Ordered(lines) ==
    \A i, j \in DOMAIN lines :
        (/\ i < j /\ IsRun(lines[i]) /\ IsRun(lines[j]) /\ lines[i].run = lines[j].run
         /\ lines[i].state \in EndStates) => lines[j].state \in EndStates

(* What an earlier process may have left: the lines it wrote, and at the end what *)
(* a power failure made of the last one.                                          *)
ASSUME OldFilesGiven ==
    \A f \in OldFiles :
        \/ f = NoFile
        \/ /\ f = File(f.lines, f.open) /\ f.open \in BOOLEAN
           /\ f.lines \in Seq([kind : {"header"}, version : Nat]
                             \cup [kind : {"message"}, id : Nat]
                             \cup [kind : {"run"}, run : Tasks \X {0}, state : RunStates]
                             \cup {Junk, BrokenCharacter})
           /\ f.open => f.lines # <<>>
           /\ Ordered(f.lines)

(* The first line has its newline. *)
FirstEnds(f) == Len(f.lines) > 1 \/ ~f.open

(* ensure: a header for a missing file, the current version in an older header. *)
Ensure(f) ==
    IF f.missing THEN File(<<Header(SESSION_VERSION)>>, FALSE)
    ELSE IF Readable(f) /\ Versioned(f) /\ f.lines[1].version < SESSION_VERSION /\ FirstEnds(f)
         THEN File(<<Header(SESSION_VERSION)>> \o Tail(f.lines), f.open)
         ELSE f

-----------------------------------------------------------------------------
(* Calls in progress. *)

Idle == [at |-> "idle", rec |-> None, gen |-> 0, keep |-> <<>>, old |-> NoFile]
InCall(t) == job[t].at # "idle"
Running == ~down /\ pending = {}
RunOf(t) == <<t, boot>>

Go(t, at) == job' = [job EXCEPT ![t].at = at]
Return(t) == job' = [job EXCEPT ![t] = Idle]

(* What a step of t's call overlaps: every other call in progress, and its own. *)
Overlaps(t) ==
    IF \E o \in Tasks \ {t} : InCall(o)
    THEN {job[o].rec : o \in {o \in Tasks : InCall(o)}} \ {None}
    ELSE {}
Expose(t) == exposed' = exposed \cup Overlaps(t)

Settle(rec) == settled' = settled \cup {rec}

(* The first step of append and append_activity_state: does the file exist? *)
BeginAppend(t, rec) ==
    /\ job' = [job EXCEPT ![t] =
                 [Idle EXCEPT !.at = IF file.missing THEN "create" ELSE "boundary",
                              !.rec = rec]]
    /\ exposed' = exposed \cup (IF \E o \in Tasks \ {t} : InCall(o)
                                THEN Overlaps(t) \cup {rec} ELSE {})

(* ensure_header: the file is created or truncated, gets its header and is synced. *)
CreateHeader(t) ==
    /\ job[t].at = "create"
    /\ file' = File(<<Header(SESSION_VERSION)>>, FALSE)
    /\ durable' = 1
    /\ Go(t, "boundary") /\ Expose(t)
    /\ UNCHANGED <<gen, mem, life, boot, pending, down, written, settled, firm>>

CheckBoundary(t) ==
    /\ job[t].at = "boundary"
    /\ file' = RecordBoundary(file)
    /\ Go(t, IF IsMessage(job[t].rec) THEN "message" ELSE "head") /\ Expose(t)
    /\ UNCHANGED <<durable, gen, mem, life, boot, pending, down, written, settled, firm>>

(* append writes line and newline in one call. *)
WriteMessage(t) ==
    /\ job[t].at = "message"
    /\ file' = Glue(file, job[t].rec, FALSE)
    /\ Return(t) /\ Expose(t) /\ Settle(job[t].rec)
    /\ UNCHANGED <<durable, gen, mem, life, boot, pending, down, written, firm>>

(* append_activity_state formats the record into the file in several writes. *)
WriteHead(t) ==
    /\ job[t].at = "head"
    /\ file' = Glue(file, Fragment(job[t].rec), TRUE)
    /\ job' = [job EXCEPT ![t].at = "tail", ![t].gen = gen]
    /\ Expose(t)
    /\ UNCHANGED <<durable, gen, mem, life, boot, pending, down, written, settled, firm>>

WriteTail(t) ==
    /\ job[t].at = "tail"
    /\ file' = CASE job[t].gen # gen -> file    \* the file it had opened was replaced
                 [] /\ job[t].gen = gen /\ file.open
                    /\ Last(file.lines) = Fragment(job[t].rec) ->
                      File(Append(Front(file.lines), job[t].rec), FALSE)
                 [] OTHER -> Glue(file, Junk, FALSE)
    /\ Return(t) /\ Expose(t) /\ Settle(job[t].rec)
    /\ UNCHANGED <<durable, gen, mem, life, boot, pending, down, written, firm>>

-----------------------------------------------------------------------------
(* What the tasks of the core do with the journal. *)

StartRun(t) ==
    /\ Running /\ ~InCall(t) /\ life[t] = "new"
    /\ written.runs < MaxRuns
    /\ written' = [written EXCEPT !.runs = @ + 1]
    /\ life' = [life EXCEPT ![t] = "started"]
    /\ BeginAppend(t, RunRecord(RunOf(t), "started"))
    /\ UNCHANGED <<file, durable, gen, mem, boot, pending, down, settled, firm>>

EndRun(t) ==
    /\ Running /\ ~InCall(t) /\ life[t] = "started"
    /\ life' = [life EXCEPT ![t] = "over"]
    /\ BeginAppend(t, RunRecord(RunOf(t), "completed"))
    /\ UNCHANGED <<file, durable, gen, mem, boot, pending, down, written, settled, firm>>

AppendMessage ==
    /\ Running /\ ~InCall(Turn) /\ life[Turn] = "started"
    /\ written.messages < MaxMessages
    /\ LET n == written.messages + 1
       IN /\ written' = [written EXCEPT !.messages = n]
          /\ mem' = Append(mem, n)
          /\ BeginAppend(Turn, Message(n))
    /\ UNCHANGED <<file, durable, gen, life, boot, pending, down, settled, firm>>

(* sync, at the end of a turn. *)
Sync ==
    /\ Running /\ ~InCall(Turn) /\ life[Turn] = "over" /\ ~file.missing
    /\ durable' = Len(file.lines)
    /\ firm' = settled
    /\ UNCHANGED <<file, gen, mem, job, life, boot, pending, down, written, settled, exposed>>

(* Compaction drops the oldest messages, undo the newest, reset all of them; the   *)
(* run records to keep are read when the new file is begun.                        *)
BeginRewrite ==
    /\ Running /\ ~InCall(Turn) /\ life[Turn] = "started"
    /\ written.rewrites < MaxRewrites
    /\ written' = [written EXCEPT !.rewrites = @ + 1]
    /\ \E from, to \in 0 .. Len(mem) : mem' = SubSeq(mem, from + 1, to)
    /\ job' = [job EXCEPT ![Turn] =
                 [Idle EXCEPT !.at = "rename",
                              !.keep = IF Readable(file) THEN RunLines(file.lines) ELSE <<>>]]
    /\ exposed' = exposed \cup Overlaps(Turn)
    /\ UNCHANGED <<file, durable, gen, life, boot, pending, down, settled, firm>>

(* Mutants of Rename: the oldest message is left out; the length of the old file    *)
(* is taken for that of the new one.                                               *)
RenameWithoutOldest ==
    /\ job[Turn].at = "rename"
    /\ LET kept == [i \in 1 .. Len(mem) - 1 |-> Message(mem[i + 1])] \o job[Turn].keep
       IN /\ file' = File(<<Header(SESSION_VERSION)>> \o kept, FALSE)
          /\ durable' = Len(kept) + 1
          /\ settled' = {r \in settled : IsMessage(r) => r.id \in ToSet(mem)}
    /\ firm' = firm \cap settled'
    /\ gen' = gen + 1
    /\ job' = [job EXCEPT ![Turn].at = "dirsync",
                          ![Turn].old = File(SubSeq(file.lines, 1, durable), FALSE)]
    /\ Expose(Turn)
    /\ UNCHANGED <<mem, life, boot, pending, down, written>>

(* The new file is complete and synced when it is renamed over the old one. *)
Rename ==
    /\ job[Turn].at = "rename"
    /\ LET kept == [i \in DOMAIN mem |-> Message(mem[i])] \o job[Turn].keep
       IN /\ file' = File(<<Header(SESSION_VERSION)>> \o kept, FALSE)
          /\ durable' = Len(kept) + 1
          /\ settled' = {r \in settled : IsMessage(r) => r.id \in ToSet(mem)}
    /\ firm' = firm \cap settled'
    /\ gen' = gen + 1
    /\ job' = [job EXCEPT ![Turn].at = "dirsync",
                          ![Turn].old = File(SubSeq(file.lines, 1, durable), FALSE)]
    /\ Expose(Turn)
    /\ UNCHANGED <<mem, life, boot, pending, down, written>>

(* The parent directory is synced: from here on the rename survives. *)
SyncDirectory ==
    /\ job[Turn].at = "dirsync"
    /\ firm' = {r \in settled : IsMessage(r) \/ r \in ToSet(SubSeq(file.lines, 1, durable))}
    /\ Return(Turn) /\ Expose(Turn)
    /\ UNCHANGED <<file, durable, gen, mem, life, boot, pending, down, written, settled>>

-----------------------------------------------------------------------------
(* Power failure and the next start. *)

(* What is left of a file: its durable lines, some of the others, and of the first *)
(* lost line nothing, all but the newline, a part, or a part of a character.       *)
Remains(f, from) ==
    {f} \cup
    UNION {{File(SubSeq(f.lines, 1, n), FALSE), File(SubSeq(f.lines, 1, n + 1), TRUE),
            File(Append(SubSeq(f.lines, 1, n), Junk), TRUE)}
           \cup (IF CutsCharacters
                 THEN {File(Append(SubSeq(f.lines, 1, n), BrokenCharacter), TRUE)} ELSE {})
           : n \in from .. Len(f.lines) - 1}

PowerLoss ==
    /\ ~down /\ boot <= MaxCrashes
    /\ down' = TRUE
    /\ \/ file' \in (IF file.missing THEN {file} ELSE Remains(file, durable))
       \/ job[Turn].at = "dirsync" /\ file' = job[Turn].old
    /\ durable' = Len(file'.lines)
    /\ settled' = firm
    /\ exposed' = exposed \cap firm
    /\ job' = [t \in Tasks |-> Idle]
    /\ mem' = <<>> /\ pending' = {}
    /\ gen' = 0 /\ life' = [t \in Tasks |-> "new"]
    /\ UNCHANGED <<boot, written, firm>>

(* dispatcher::run loads the session, ensures the file and lists the open runs. *)
Restart ==
    /\ down
    /\ down' = FALSE /\ boot' = boot + 1
    /\ mem' = LoadReport(file).messages
    /\ pending' = LoadReport(file).unfinished
    /\ file' = Ensure(file)
    /\ durable' = Len(file'.lines)
    /\ UNCHANGED <<gen, job, life, written, settled, firm, exposed>>

(* One open run after the other gets an interrupted record, before any task runs. *)
MarkInterrupted(r) ==
    /\ ~down /\ r \in pending
    /\ pending' = pending \ {r}
    /\ file' = Glue(RecordBoundary(file), RunRecord(r, "interrupted"), FALSE)
    /\ Settle(RunRecord(r, "interrupted"))
    /\ UNCHANGED <<durable, gen, mem, job, life, boot, down, written, firm, exposed>>

-----------------------------------------------------------------------------
Init ==
    /\ file \in OldFiles
    /\ durable = Len(file.lines)
    /\ mem = LoadReport(file).messages
    /\ pending = LoadReport(file).unfinished
    /\ gen = 0 /\ boot = 1 /\ down = FALSE
    /\ job = [t \in Tasks |-> Idle]
    /\ life = [t \in Tasks |-> "new"]
    /\ written = [messages |-> 0, rewrites |-> 0, runs |-> 0]
    /\ settled = {l \in ToSet(file.lines) : IsMessage(l) \/ IsRun(l)}
    /\ firm = settled
    /\ exposed = {}

Call(t) == CreateHeader(t) \/ CheckBoundary(t) \/ WriteMessage(t) \/ WriteHead(t) \/ WriteTail(t)

Next ==
    \/ \E t \in Tasks : Call(t) \/ StartRun(t) \/ EndRun(t)
    \/ AppendMessage \/ Sync \/ BeginRewrite \/ Rename \/ SyncDirectory
    \/ PowerLoss \/ Restart
    \/ \E r \in pending : MarkInterrupted(r)

Spec == Init /\ [][Next]_vars

-----------------------------------------------------------------------------
(* Properties. *)

Records(lines) == {l \in ToSet(lines) : IsMessage(l) \/ IsRun(l)}

(* Damage is contained: a record whose append overlapped no other call stays       *)
(* readable, whatever is torn, glued or cut behind it later, until a rewrite drops *)
(* it or the power fails before it was synced (ensure_record_boundary, rewrite).   *)
UndisturbedKept == settled \ exposed \subseteq Records(file.lines)

(* What a restart would load is the conversation in memory, message for message    *)
(* and in order, whenever the turn is in no call and no message was exposed.       *)
JournalIsMemory ==
    (Running /\ ~InCall(Turn) /\ ~\E r \in exposed : IsMessage(r)) =>
        LoadReport(file).messages = mem

(* A run whose end was recorded is not reported as open, and once the start-up     *)
(* has dealt with the open runs none of an earlier process is reported again.      *)
OpenRunsAreOpen ==
    \A r \in LoadReport(file).unfinished :
        /\ ~\E s \in {"completed", "interrupted"} : RunRecord(r, s) \in settled \ exposed
        /\ Running => r[2] = boot

(* "Malformed records do not erase valid history; an incomplete final line is      *)
(* treated as a crash-truncated append" (load_report): what was synced is loaded.  *)
SyncedHistoryLoads ==
    \A r \in firm \ exposed : IsMessage(r) => r.id \in ToSet(LoadReport(file).messages)

(* "not loaded to avoid corrupting it" (load_report): the core removes no record   *)
(* from the journal of a newer version.                                            *)
NewerFileKept ==
    [][TooNew(file) /\ ~down /\ ~down' => Records(file.lines) \subseteq Records(file'.lines)]_vars
=============================================================================
