----------------------------- MODULE Transcript -----------------------------
(***************************************************************************)
(* The three copies of a conversation: State.conversation, the working     *)
(* buffer `messages` that a turn clones from it, and the session file.     *)
(* One turn (agent/turn_loop.rs) shrinks and repairs the buffer, sends it, *)
(* adds the reply, executes its tool calls and records their results; the  *)
(* dispatcher steers, undoes, compacts, clears and runs bang commands next *)
(* to it.  A second turn that runs beside a steered one is left out.       *)
(* Writes to the session file are whole here: SessionLog takes them apart. *)
(*                                                                         *)
(* A message keeps its kind and what pairs calls with results; what a text *)
(* says is left out.                                                       *)
(***************************************************************************)
EXTENDS Integers, Sequences, FiniteSets, SequencesExt

CONSTANTS
    Batches,            \* the tool calls a reply may carry: sequences of tool names
    MIN_TAIL,           \* messages a compaction keeps in any case
    SUMMARY_NUDGE_MAX,
    Tails,              \* how many transient messages a request may carry
    Commands,           \* the dispatcher's commands in this instance
    MaxPrompts, MaxReplies, MaxRounds, MaxShrinks, MaxCommands

ASSUME TranscriptAssumption ==
    /\ Batches \subseteq Seq({"read", "write", "finish"}) \ {<<>>}
    /\ Tails \subseteq Nat /\ Commands \subseteq {"abort", "steer", "bash", "undo", "compact", "clear"}
    /\ {MIN_TAIL, SUMMARY_NUDGE_MAX, MaxPrompts, MaxReplies, MaxRounds, MaxShrinks, MaxCommands} \subseteq Nat

VARIABLES
    conv,       \* State.conversation
    buffer,     \* messages, the turn's own copy
    journal,    \* the messages of the session file
    turn,       \* where the turn is, and its local flags
    cancelled,  \* its cancellation token
    freed,      \* State.current is empty while the turn is still there
    shell,      \* what handle_user_bash is about to do with its message
    bang,       \* State.pending_bash: how many results wait for the turn to end
    copy,       \* what a manual compaction is summarizing, or NoCopy
    used,       \* what happened how often
    meddled,    \* the dispatcher rewrote the conversation of a running turn
    strewn      \* a bang's message was recorded while the calls of a reply were open

transcriptVars ==
    <<conv, buffer, journal, turn, cancelled, freed, shell, bang, copy, used, meddled, strewn>>

-----------------------------------------------------------------------------
(* Messages. *)

System == [kind |-> "system"]
User(n) == [kind |-> "user", n |-> n]
Bash == [kind |-> "bash"]
Note == [kind |-> "note"]
Transient == [kind |-> "transient"]
Assistant(n, calls) == [kind |-> "assistant", n |-> n, calls |-> calls]
Tool(n, k, lost) == [kind |-> "tool", n |-> n, k |-> k, lost |-> lost]
NoCopy == <<Transient>>

IsTool(m) == m.kind = "tool"
IsAssistant(m) == m.kind = "assistant"
IsUser(m) == m.kind \in {"user", "bash"}

CallsIn(s) == UNION {{<<m.n, k>> : k \in DOMAIN m.calls} : m \in {m \in ToSet(s) : IsAssistant(m)}}
ResultsIn(s) == {<<m.n, m.k>> : m \in {m \in ToSet(s) : IsTool(m)}}

(* The sequences of ss one after the other. *)
Concat(ss) ==
    LET upto[n \in 0 .. Len(ss)] == IF n = 0 THEN <<>> ELSE upto[n - 1] \o ss[n]
    IN upto[Len(ss)]

(* The members of s that are in S, in their order. *)
Only(s, S) == Concat([i \in DOMAIN s |-> IF s[i] \in S THEN <<s[i]>> ELSE <<>>])
Count(n) == [k \in 1 .. n |-> k]

(* Synthetic results for the calls of m that have none in s. *)
Lost(s, m) ==
    LET missing == Only(Count(Len(m.calls)),
                        {k \in DOMAIN m.calls : <<m.n, k>> \notin ResultsIn(s)})
    IN [i \in DOMAIN missing |->
          Tool(m.n, missing[i], m.calls[missing[i]] # "finish")]

(* Mutant of sanitize_orphaned_tool_calls: only the missing results are looked for. *)
sanitize_calls_only(s) ==
    Concat([i \in DOMAIN s |-> IF IsAssistant(s[i]) THEN <<s[i]>> \o Lost(s, s[i]) ELSE <<s[i]>>])

(* Results without a call go, calls without a result get one right behind them. *)
sanitize_orphaned_tool_calls(s) ==
    Concat([i \in DOMAIN s |->
              CASE IsAssistant(s[i]) -> <<s[i]>> \o Lost(s, s[i])
                [] IsTool(s[i]) /\ <<s[i].n, s[i].k>> \notin CallsIn(s) -> <<>>
                [] OTHER -> <<s[i]>>])

(* A compaction keeps the first message and marks what it dropped before the tail,  *)
(* which is MIN_TAIL messages: the budget of this instance has room for no more.   *)
Compacted(s) ==
    IF Len(s) <= 2 THEN s
    ELSE LET start == IF Len(s) <= MIN_TAIL THEN 2 ELSE Len(s) - MIN_TAIL + 1
         IN <<s[1], Note>> \o SubSeq(s, start, Len(s))

(* Undo drops the last user message and what follows it, or all there is. *)
Undone(s) ==
    LET users == {i \in DOMAIN s : IsUser(s[i])}
    IN IF users = {} THEN <<>>
       ELSE SubSeq(s, 1, (CHOOSE i \in users : \A j \in users : j <= i) - 1)

-----------------------------------------------------------------------------
(* Steps of the turn. *)

NoTurn == [at |-> "idle"]
Beginning == [at |-> "clone", reply |-> Note, next |-> 1, tails |-> 0, ready |-> <<>>,
              reflected |-> FALSE, answered |-> FALSE, nudges |-> 0, retried |-> FALSE]
At(p) == turn.at = p
Resting == At("idle")
GoTo(p) == turn' = [turn EXCEPT !.at = p]
End == turn' = [at |-> "ending"]
Use(what) == used' = [used EXCEPT ![what] = @ + 1]

Record(m) == conv' = Append(conv, m) /\ journal' = Append(journal, m)
Persist(s) == buffer' = s /\ conv' = s /\ journal' = s
ThisTurn == UNCHANGED <<cancelled, freed, shell, bang, copy, meddled, strewn>>

(* Mutant of BeginTurn: the system prompt is not written to the session file. *)
BeginTurnUnsaved ==
    /\ Resting /\ copy = NoCopy /\ used.prompts < MaxPrompts
    /\ LET new == (IF conv = <<>> THEN <<System>> ELSE <<>>) \o <<User(used.prompts + 1)>>
       IN conv' = conv \o new /\ journal' = Append(journal, User(used.prompts + 1))
    /\ turn' = Beginning /\ cancelled' = FALSE /\ buffer' = <<>>
    /\ Use("prompts") /\ UNCHANGED <<freed, shell, bang, copy, meddled, strewn>>

(* run_turn adds the prompt, and before it the system prompt to an empty conversation. *)
BeginTurn ==
    /\ Resting /\ copy = NoCopy /\ used.prompts < MaxPrompts
    /\ LET new == (IF conv = <<>> THEN <<System>> ELSE <<>>) \o <<User(used.prompts + 1)>>
       IN conv' = conv \o new /\ journal' = journal \o new
    /\ turn' = Beginning /\ cancelled' = FALSE /\ buffer' = <<>>
    /\ Use("prompts") /\ UNCHANGED <<freed, shell, bang, copy, meddled, strewn>>

CloneConversation ==
    /\ At("clone")
    /\ buffer' = conv /\ GoTo("top")
    /\ ThisTurn /\ UNCHANGED <<conv, journal, used>>

(* Automatic compaction; the turn ends when that was not enough. *)
Shrink ==
    /\ At("top") /\ ~cancelled /\ used.shrinks < MaxShrinks
    /\ Persist(Compacted(buffer))
    /\ \/ GoTo("shrunk")
       \/ End
    /\ IF Len(buffer) <= 2 THEN UNCHANGED used ELSE Use("shrinks")
    /\ ThisTurn

(* The buffer is repaired, and what was repaired is persisted; transient messages   *)
(* go with this request only.                                                      *)
SendRequest ==
    /\ (At("top") /\ ~cancelled) \/ At("shrunk")
    /\ LET s == sanitize_orphaned_tool_calls(buffer)
       IN \E tails \in Tails :
            /\ buffer' = s \o [i \in 1 .. tails |-> Transient]
            /\ turn' = [turn EXCEPT !.at = "request", !.tails = tails]
            /\ IF s = buffer THEN UNCHANGED <<conv, journal>> ELSE conv' = s /\ journal' = s
    /\ ThisTurn /\ UNCHANGED used

WithoutTransient == SubSeq(buffer, 1, Len(buffer) - turn.tails)

(* An error, the abort of the stream, or no budget, key or model for it. *)
RequestFails ==
    /\ At("request") /\ End /\ buffer' = <<>>
    /\ ThisTurn /\ UNCHANGED <<conv, journal, used>>

(* The first time the provider finds the context too long, it is compacted. *)
ContextTooLong ==
    /\ At("request") /\ ~turn.retried
    /\ Persist(Compacted(WithoutTransient))
    /\ turn' = [turn EXCEPT !.at = "top", !.retried = TRUE, !.tails = 0] \/ End
    /\ ThisTurn /\ UNCHANGED used

Replies == IF used.rounds < MaxRounds THEN Batches \cup {<<>>, <<"finish">>}
           ELSE {<<>>, <<"finish">>}

(* The reply goes to the buffer, and the buffer replaces the conversation. *)
Respond ==
    /\ At("request") /\ used.replies < MaxReplies
    /\ \E calls \in Replies, answers \in BOOLEAN :
         LET m == Assistant(used.replies + 1, calls)
         IN /\ buffer' = Append(WithoutTransient, m)
            /\ conv' = buffer'
            /\ journal' = Append(journal, m)
            /\ turn' = [turn EXCEPT !.at = IF calls = <<>> THEN "complete" ELSE "batch",
                                    !.reply = m, !.next = 1, !.tails = 0,
                                    !.answered = @ \/ answers]
            /\ used' = [used EXCEPT !.replies = @ + 1,
                                    !.rounds = IF Len(calls) > 0 /\ calls # <<"finish">>
                                               THEN @ + 1 ELSE @]
    /\ ThisTurn

(* The top of the loop and the look before every call notice a cancellation. *)
StopTurn ==
    /\ cancelled /\ (At("top") \/ At("batch")) /\ End
    /\ ThisTurn /\ UNCHANGED <<conv, buffer, journal, used>>

-----------------------------------------------------------------------------
(* The calls of a reply. *)

Calls == turn.reply.calls
Wave == LET writes == {k \in DOMAIN Calls : Calls[k] # "read"}
        IN IF writes = {} THEN Len(Calls) ELSE (CHOOSE k \in writes : \A j \in writes : k <= j) - 1
InWave == turn.next = 1 /\ Wave >= 2
CallNow == At("batch") /\ turn.next <= Len(Calls) /\ ~InWave
Result(k) == Tool(turn.reply.n, k, FALSE)

(* Two or more leading reads pass their gates together.  A call that is denied is   *)
(* answered at once, in the conversation only; an abort drops the others.          *)
GateWave ==
    /\ At("batch") /\ InWave
    /\ \E passed \in 0 .. Wave : \E denied \in SUBSET (1 .. passed) :
         LET answered == Only(Count(passed), denied)
             answers == [i \in DOMAIN answered |-> Result(answered[i])]
         IN /\ passed < Wave => cancelled
            /\ conv' = conv \o answers /\ journal' = journal \o answers
            /\ IF passed < Wave THEN End
               ELSE turn' = [turn EXCEPT !.at = "wave",
                               !.ready = Only(Count(Wave), 1 .. Wave \ denied)]
    /\ ThisTurn /\ UNCHANGED <<buffer, used>>

(* They run together; when the turn is cancelled or stale nothing is recorded. *)
RunWave ==
    /\ At("wave")
    /\ GoTo("record") \/ (cancelled /\ End)
    /\ ThisTurn /\ UNCHANGED <<conv, buffer, journal, used>>

RecordWave ==
    /\ At("record")
    /\ IF turn.ready = <<>>
       THEN /\ turn' = [turn EXCEPT !.at = "batch", !.next = Wave + 1]
            /\ UNCHANGED <<conv, journal>>
       ELSE /\ Record(Result(Head(turn.ready)))
            /\ turn' = [turn EXCEPT !.ready = Tail(@)]
    /\ ThisTurn /\ UNCHANGED <<buffer, used>>

(* A malformed, unknown, denied or refused call is answered in the conversation only. *)
DenyCall ==
    /\ CallNow /\ ~cancelled
    /\ Record(Result(turn.next))
    /\ turn' = [turn EXCEPT !.next = @ + 1]
    /\ ThisTurn /\ UNCHANGED <<buffer, used>>

ExecuteCall ==
    /\ CallNow /\ ~cancelled
    /\ GoTo("exec")
    /\ ThisTurn /\ UNCHANGED <<conv, buffer, journal, used>>

(* The result of a call goes to the buffer, the conversation and the file. *)
RecordBoth(m) == Record(m) /\ buffer' = Append(buffer, m)

RecordCall ==
    /\ At("exec") /\ Calls[turn.next] # "finish"
    /\ \/ /\ RecordBoth(Result(turn.next))
          /\ turn' = [turn EXCEPT !.at = "batch", !.next = @ + 1]
       \/ /\ cancelled /\ End     \* an aborted question, or a stale result
          /\ UNCHANGED <<conv, buffer, journal>>
    /\ ThisTurn /\ UNCHANGED used

(* A turn of some size reflects once, and may not end without a summary. *)
MayReflect == ~turn.reflected /\ ~turn.answered /\ ~cancelled
MustSummarize ==
    turn.reflected /\ ~turn.answered /\ ~cancelled /\ turn.nudges < SUMMARY_NUDGE_MAX

GoOn(then) ==
    \/ MayReflect /\ turn' = [then EXCEPT !.reflected = TRUE]
    \/ MustSummarize /\ turn' = [then EXCEPT !.nudges = @ + 1]

(* finish is answered with the nudge, and the batch goes on. *)
RefuseFinish ==
    /\ At("exec") /\ Calls[turn.next] = "finish"
    /\ GoOn([turn EXCEPT !.at = "batch", !.next = @ + 1])
    /\ RecordBoth(Result(turn.next))
    /\ ThisTurn /\ UNCHANGED used

(* The turn ends, and the conversation becomes what the buffer holds. *)
AcceptFinish ==
    /\ At("exec") /\ Calls[turn.next] = "finish" /\ ~MustSummarize
    /\ buffer' = Append(buffer, Result(turn.next))
    /\ conv' = buffer'
    /\ journal' = Append(journal, Result(turn.next))
    /\ End
    /\ ThisTurn /\ UNCHANGED used

(* Mutant of EndBatch: the buffer is kept as it is. *)
EndBatchUnsynced ==
    /\ At("batch") /\ turn.next > Len(Calls)
    /\ \/ UNCHANGED <<buffer, conv, journal>> /\ (GoTo("top") \/ End)
       \/ Record(Note) /\ buffer' = Append(buffer, Note) /\ GoTo("top")
    /\ ThisTurn /\ UNCHANGED used

(* After the batch the buffer takes over the results that went past it; a plan that *)
(* was written ends the turn, a model that repeats itself gets a note.             *)
EndBatch ==
    /\ At("batch") /\ turn.next > Len(Calls)
    /\ \/ buffer' = conv /\ UNCHANGED <<conv, journal>> /\ (GoTo("top") \/ End)
       \/ Record(Note) /\ buffer' = Append(conv, Note) /\ GoTo("top")
    /\ ThisTurn /\ UNCHANGED used

(* A reply without calls: the advisor may add a note; then the turn is complete, or  *)
(* goes on with a nudge.                                                           *)
Complete ==
    /\ At("complete")
    /\ \E advice \in {<<>>, <<Note>>} :
         LET add == advice \o (IF turn'.at = "top" THEN <<User(0)>> ELSE <<>>)
         IN /\ GoOn([turn EXCEPT !.at = "top"]) \/ (~MustSummarize /\ End)
            /\ buffer' = buffer \o add /\ conv' = conv \o add /\ journal' = journal \o add
    /\ ThisTurn /\ UNCHANGED used

(* run_turn_and_drain empties State.current, unless a steer did, ... *)
FreeCurrent ==
    /\ At("ending") /\ ~freed
    /\ freed' = TRUE
    /\ UNCHANGED <<conv, buffer, journal, turn, cancelled, shell, bang, copy, used, meddled, strewn>>

(* ... and then come what bang commands left: flush_pending_bash. *)
FlushBang ==
    /\ At("ending") /\ freed
    /\ LET waiting == [i \in 1 .. bang |-> Bash]
       IN conv' = conv \o waiting /\ journal' = journal \o waiting
    /\ bang' = 0 /\ turn' = NoTurn /\ buffer' = <<>> /\ cancelled' = FALSE /\ freed' = FALSE
    /\ UNCHANGED <<shell, copy, used, meddled, strewn>>

-----------------------------------------------------------------------------
(* The dispatcher, one command at a time. *)

Waiting(c) == copy = NoCopy /\ shell = "none" /\ c \in Commands
Command(c) == Waiting(c) /\ used.commands < MaxCommands

Abort ==
    /\ ~Resting /\ ~cancelled /\ Command("abort")
    /\ cancelled' = TRUE
    /\ Use("commands")
    /\ UNCHANGED <<conv, buffer, journal, turn, freed, shell, bang, copy, meddled, strewn>>

(* The turn is cancelled and State.current emptied; the dispatcher does not wait   *)
(* for the turn, which goes on to its next look at the token.  The prompt of the   *)
(* steer is one of the prompts a turn begins with.  Once per turn.                 *)
Steer ==
    /\ ~Resting /\ ~freed /\ Waiting("steer")
    /\ cancelled' = TRUE /\ freed' = TRUE
    /\ UNCHANGED <<conv, buffer, journal, turn, shell, bang, copy, used, meddled, strewn>>

(* handle_user_bash has run its command and looks whether a turn is running, ... *)
UserBash ==
    /\ Command("bash")
    /\ shell' = IF Resting \/ freed THEN "record" ELSE "defer"
    /\ Use("commands")
    /\ UNCHANGED <<conv, buffer, journal, turn, cancelled, freed, bang, copy, meddled, strewn>>

Unanswered == turn.at \in {"batch", "wave", "record", "exec"}

(* ... and then, whatever has begun or ended since, does what it saw fit. *)
BashPush ==
    /\ shell # "none" /\ shell' = "none"
    /\ \/ /\ shell = "record" /\ Record(Bash)
          /\ strewn' = (strewn \/ Unanswered) /\ UNCHANGED bang
       \/ /\ shell = "defer" /\ bang' = bang + 1
          /\ UNCHANGED <<conv, journal, strewn>>
    /\ UNCHANGED <<buffer, turn, cancelled, freed, copy, used, meddled>>

(* Nobody asks whether a turn is running. *)
Undo ==
    /\ Command("undo")
    /\ conv' = Undone(conv) /\ journal' = conv'
    /\ meddled' = (meddled \/ ~Resting)
    /\ Use("commands") /\ UNCHANGED <<buffer, turn, cancelled, freed, shell, bang, copy, strewn>>

BeginCompact ==
    /\ Command("compact") /\ Len(conv) > 2
    /\ copy' = conv
    /\ Use("commands")
    /\ UNCHANGED <<conv, buffer, journal, turn, cancelled, freed, shell, bang, meddled, strewn>>

EndCompact ==
    /\ copy # NoCopy
    /\ conv' = Compacted(copy) /\ journal' = conv'
    /\ copy' = NoCopy
    /\ meddled' = (meddled \/ ~Resting \/ conv # copy)
    /\ UNCHANGED <<buffer, turn, cancelled, freed, shell, bang, used, strewn>>

(* clear and reset end the turn wherever it is; only reset empties the file. *)
ClearConversation ==
    /\ Command("clear")
    /\ turn' = NoTurn /\ cancelled' = FALSE /\ freed' = FALSE
    /\ conv' = <<>> /\ buffer' = <<>> /\ bang' = 0
    /\ journal' \in {journal, <<>>}
    /\ meddled' = FALSE /\ strewn' = FALSE
    /\ Use("commands") /\ UNCHANGED <<copy, shell>>

-----------------------------------------------------------------------------
TranscriptInit ==
    /\ conv = <<>> /\ buffer = <<>> /\ journal = <<>>
    /\ turn = NoTurn /\ cancelled = FALSE /\ bang = 0 /\ copy = NoCopy
    /\ freed = FALSE /\ shell = "none" /\ strewn = FALSE
    /\ used = [prompts |-> 0, replies |-> 0, rounds |-> 0, shrinks |-> 0, commands |-> 0]
    /\ meddled = FALSE

TurnStep ==
    \/ CloneConversation \/ SendRequest \/ RequestFails \/ ContextTooLong \/ Respond
    \/ StopTurn \/ GateWave \/ RunWave \/ RecordWave \/ DenyCall \/ ExecuteCall \/ RecordCall
    \/ RefuseFinish \/ AcceptFinish \/ EndBatch \/ Complete \/ FreeCurrent \/ FlushBang \/ Shrink

TranscriptNext ==
    \/ TurnStep \/ BeginTurn
    \/ Abort \/ Steer \/ UserBash \/ BashPush
    \/ Undo \/ BeginCompact \/ EndCompact \/ ClearConversation

(* A stream, a tool and a question end: each has a timeout or the cancellation. *)
TranscriptSpec == TranscriptInit /\ [][TranscriptNext]_transcriptVars /\ WF_transcriptVars(TurnStep)

-----------------------------------------------------------------------------
(* Properties. *)

Answers(i) ==
    {j \in i + 1 .. i + Len(buffer[i].calls) :
        j \in DOMAIN buffer /\ IsTool(buffer[j]) /\ buffer[j].n = buffer[i].n}

(* Every reply is followed by the results of its calls, each exactly once, and there *)
(* is no other result.  A provider refuses anything else.                          *)
Paired ==
    LET replies == {i \in DOMAIN buffer : IsAssistant(buffer[i])}
    IN /\ \A i \in replies : {buffer[j].k : j \in Answers(i)} = DOMAIN buffer[i].calls
       /\ {j \in DOMAIN buffer : IsTool(buffer[j])} = UNION {Answers(i) : i \in replies}

(* What is sent is paired (sanitize_orphaned_tool_calls), whatever was aborted,     *)
(* denied, steered, compacted, undone or cleared before, unless undoing the first  *)
(* prompt of a running turn left its reply at the head of the conversation, or the *)
(* message of a bang command was recorded while the calls of a reply were open: it *)
(* may stand between them and their results then.                                  *)
RequestIsValid ==
    At("request") /\ ~strewn /\ buffer # <<>> /\ ~IsAssistant(buffer[1]) => Paired

(* s is what is left of t when some of its members go: reading t, one finds those   *)
(* of s one after the other.                                                       *)
Within(s, t) ==
    LET found[n \in 0 .. Len(t)] ==
          IF n = 0 THEN 0
          ELSE LET m == found[n - 1] IN IF m < Len(s) /\ s[m + 1] = t[n] THEN m + 1 ELSE m
    IN found[Len(t)] = Len(s)

(* The session file has every message of the conversation, in its order: a restart  *)
(* forgets nothing the model was told.  A nudge meant for one request is in neither. *)
JournalHoldsConversation ==
    /\ Transient \notin ToSet(conv) \cup ToSet(journal)
    /\ ~meddled => Within(conv, journal)

IsLost(m) == IsTool(m) /\ m.lost
WithFinish(n) == \E m \in ToSet(conv) : IsAssistant(m) /\ m.n = n /\ "finish" \in ToSet(m.calls)

(* A result that was recorded is not replaced by the note that it was lost, unless  *)
(* the dispatcher took it away or its batch also held a finish.                    *)
ResultsStay ==
    [][\A m \in ToSet(conv') :
         (IsLost(m) /\ m \notin ToSet(conv) /\ ~meddled /\ ~WithFinish(m.n))
            => <<m.n, m.k>> \notin ResultsIn(journal)]_transcriptVars

(* A turn ends, however often a model that stopped calling tools is nudged.         *)
TurnEnds == ~Resting ~> Resting

(* "so a divergent mid-turn sync can't leave finish unpaired" (finish): no result   *)
(* of the same batch is unpaired either.                                           *)
FinishKeepsResults ==
    [][At("exec") /\ turn' # turn => ResultsIn(conv) \subseteq ResultsIn(conv')]_transcriptVars

(* "Ensure system prompt is present" (run_turn). *)
SystemPromptPresent == At("request") => System \in ToSet(buffer)

(* "Drop the last turn" (undo): what was undone does not come back.                 *)
UndoneStaysUndone ==
    [][\A m \in ToSet(conv') : (m.kind = "user" /\ m.n > 0 /\ m \notin ToSet(conv))
          => m.n = used'.prompts /\ used'.prompts # used.prompts]_transcriptVars

(* "Defer while a turn is running so we don't break tool_use/tool_result order"     *)
(* (handle_user_bash): a steer empties State.current before the turn it cancelled  *)
(* has recorded its last result, and the drain starts the next turn between the    *)
(* look and the push.                                                              *)
BangKeepsOrder == At("request") /\ buffer # <<>> /\ ~IsAssistant(buffer[1]) => Paired

(* "verifies that the sanitizer doesn't leave behind a broken conversation"         *)
(* (sanitize_orphaned_tool_calls): a compaction keeps a reply at the head and puts  *)
(* its marker between the reply and the results, and only their presence is looked *)
(* at.                                                                             *)
EveryRequestIsPaired == At("request") => Paired
=============================================================================
