------------------------------ MODULE Intercom ------------------------------
(***************************************************************************)
(* The intercom bus of the core (core/src/intercom.rs) and the subagent    *)
(* runs that use it (run_single of core/src/subagent.rs): mailboxes, known *)
(* targets and pending asks, each behind a lock of its own, so that every  *)
(* operation takes several steps and others come in between.               *)
(*                                                                         *)
(* An asker waits on a tokio Notify.  notify_one leaves a permit when      *)
(* nobody listens yet; notify_waiters reaches only who listens already.    *)
(***************************************************************************)
EXTENDS Naturals, Sequences, FiniteSets

CONSTANTS
  Agents,         \* subagent runs
  Names,          \* intercom targets
  NameOf,         \* subagent_target: the name of each run
  Asks,           \* ask ids
  Boxes,          \* mailboxes: one for each registration
  Orchestrator,   \* the parent session, which has no mailbox
  MaxMail,        \* MAX_MAILBOX_MESSAGES
  MaxPending,     \* MAX_PENDING_ASKS
  MaxSent,        \* bound on the messages and asks
  MaxResets,      \* bound on the session boundaries
  None

ASSUME NamesGiven == NameOf \in [Agents -> Names]
ASSUME LimitsNat == {MaxMail, MaxPending, MaxSent, MaxResets} \subseteq Nat
Reset == "reset"    \* the task that executes reset: the dispatcher
Note == "note"      \* a fire-and-forget message of a peer
Steer == "steer"    \* one of the orchestrator

ASSUME OutsidersDistinct ==
  /\ Orchestrator \notin Agents \cup Names
  /\ Reset \notin Agents \cup {Orchestrator} /\ {Note, Steer} \cap Asks = {}
  /\ None \notin Agents \cup Names \cup Asks \cup Boxes \cup {Orchestrator}

VARIABLES
  mailboxes,   \* IntercomBus.mailboxes: the box of each name
  mail,        \* Mailbox.messages of each box
  known,       \* IntercomBus.known_targets
  pending,     \* IntercomBus.pending_asks
  asker, to,   \* PendingAsk.from, PendingAsk.to
  reply,       \* PendingAsk.reply
  woken,       \* the asker's Notify has a permit, or woke it
  at,          \* where each run, the orchestrator and a reset are
  posting,     \* what an actor is about to post, and to whom
  mine,        \* the ask a run waits for
  taken,       \* asks removed by an unregister or a reset and not told yet
  heard,       \* the asks whose id each party has seen
  cancelled,   \* runs whose token is cancelled
  sent, resets

bus == <<mailboxes, mail, known>>
askVars == <<pending, asker, to, reply, woken>>
vars == <<bus, askVars, at, posting, mine, taken, heard, cancelled, sent, resets>>

Parties == Agents \cup {Orchestrator}
Nothing == <<None, None>>
Replies == {None, "answer", "agent finished", "session replaced", "interrupted"}

\* Where a party is between its registration and its end, and elsewhere.
AtWork == {"running", "post_check", "post_push", "listen", "waiting"}
Places == AtWork \cup {"new", "launched", "add_known", "admission", "drop_known",
                      "drop_asks", "tell", "gone", "clear", "forget"}

Running(a) == at[a] \in AtWork
-----------------------------------------------------------------------------
TypeOK ==
  /\ mailboxes \in [Names -> Boxes \cup {None}]
  /\ mail \in [Boxes -> Seq(Asks \cup {Note, Steer})]
  /\ \A b \in Boxes : Len(mail[b]) <= MaxMail
  /\ known \subseteq Names
  /\ pending \subseteq Asks /\ Cardinality(pending) <= MaxPending
  /\ asker \in [Asks -> Agents \cup {None}]
  /\ to \in [Asks -> Names \cup {Orchestrator, None}]
  /\ reply \in [Asks -> Replies]
  /\ woken \in [Asks -> BOOLEAN]
  /\ at \in [Parties \cup {Reset} -> Places]
  /\ posting \in [Parties -> (Asks \cup {Note, Steer, None}) \X (Names \cup {None})]
  /\ mine \in [Agents -> Asks \cup {None}]
  /\ taken \in [Agents \cup {Reset} -> SUBSET Asks]
  /\ heard \in [Parties -> SUBSET Asks]
  /\ cancelled \subseteq Agents
  /\ sent \in 0 .. MaxSent /\ resets \in 0 .. MaxResets

Init ==
  /\ mailboxes = [n \in Names |-> None]
  /\ mail = [b \in Boxes |-> <<>>]
  /\ known = {}
  /\ pending = {}
  /\ asker = [q \in Asks |-> None] /\ to = [q \in Asks |-> None]
  /\ reply = [q \in Asks |-> None] /\ woken = [q \in Asks |-> FALSE]
  /\ at = [x \in Parties \cup {Reset} |-> IF x \in Agents THEN "new" ELSE "running"]
  /\ posting = [x \in Parties |-> Nothing]
  /\ mine = [a \in Agents |-> None]
  /\ taken = [x \in Agents \cup {Reset} |-> {}]
  /\ heard = [x \in Parties |-> {}]
  /\ cancelled = {}
  /\ sent = 0 /\ resets = 0

Go(x, from, next) == at[x] = from /\ at' = [at EXCEPT ![x] = next]
-----------------------------------------------------------------------------
(* The life of a run: run_single *)

Launch(a) ==
  /\ Go(a, "new", "launched")
  /\ UNCHANGED <<bus, askVars, posting, mine, taken, heard, cancelled, sent, resets>>

IsFresh(b) == mail[b] = <<>> /\ \A n \in Names : mailboxes[n] # b
SomeBoxLeft == \E b \in Boxes : IsFresh(b)     \* bound on the mailboxes
FreshBox == CHOOSE b \in Boxes : IsFresh(b)

\* register_target, first lock: a mailbox unless the name has one.
AddMailbox(a) ==
  /\ Go(a, "launched", "add_known")
  /\ IF mailboxes[NameOf[a]] = None
       THEN SomeBoxLeft /\ mailboxes' = [mailboxes EXCEPT ![NameOf[a]] = FreshBox]
       ELSE UNCHANGED mailboxes
  /\ UNCHANGED <<mail, known, askVars, posting, mine, taken, heard, cancelled, sent, resets>>

AddKnown(a) ==
  /\ Go(a, "add_known", "admission")
  /\ known' = known \cup {NameOf[a]}
  /\ UNCHANGED <<mailboxes, mail, askVars, posting, mine, taken, heard, cancelled,
                 sent, resets>>

\* register_owned_session_resource: a run that is refused returns at once.
Admit(a) ==
  /\ Go(a, "admission", IF a \in cancelled THEN "gone" ELSE "running")
  /\ UNCHANGED <<bus, askVars, posting, mine, taken, heard, cancelled, sent, resets>>

\* The run ended, or panicked, and is finalized: unregister, in three locks.
DropMailbox(a) ==
  /\ Go(a, "running", "drop_known")
  /\ mailboxes' = [mailboxes EXCEPT ![NameOf[a]] = None]
  /\ UNCHANGED <<mail, known, askVars, posting, mine, taken, heard, cancelled, sent, resets>>

DropKnown(a) ==
  /\ Go(a, "drop_known", "drop_asks")
  /\ known' = known \ {NameOf[a]}
  /\ UNCHANGED <<mailboxes, mail, askVars, posting, mine, taken, heard, cancelled,
                 sent, resets>>

AsksOf(n) == {q \in pending : NameOf[asker[q]] = n \/ to[q] = n}

DropAsks(a) ==
  /\ Go(a, "drop_asks", "tell")
  /\ taken' = [taken EXCEPT ![a] = AsksOf(NameOf[a])]
  /\ pending' = pending \ AsksOf(NameOf[a])
  /\ UNCHANGED <<bus, asker, to, reply, woken, posting, mine, heard, cancelled,
                 sent, resets>>

\* notify_waiters for each ask that x removed.
NotifyWaiters(x, text) ==
  /\ reply' = [q \in Asks |-> IF q \in taken[x] THEN text ELSE reply[q]]
  /\ woken' = [q \in Asks |->
                 \/ woken[q]
                 \/ q \in taken[x] /\ at[asker[q]] = "waiting" /\ mine[asker[q]] = q]
  /\ taken' = [taken EXCEPT ![x] = {}]

Tell(a) ==
  /\ Go(a, "tell", "gone")
  /\ NotifyWaiters(a, "agent finished")
  /\ UNCHANGED <<bus, pending, asker, to, posting, mine, heard, cancelled, sent, resets>>

\* interrupt_action, or a token above the run's.
Interrupt(a) ==
  /\ at[a] \notin {"new", "gone"}
  /\ cancelled' = cancelled \cup {a}
  /\ UNCHANGED <<bus, askVars, at, posting, mine, taken, heard, sent, resets>>
-----------------------------------------------------------------------------
(* Messages: post *)

\* intercom send between peers; steer_action and resume_action, which look the
\* target up among the known ones first.
Send(x, n) ==
  /\ Go(x, "running", "post_check")
  /\ sent < MaxSent
  /\ x = Orchestrator => n \in known
  /\ sent' = sent + 1
  /\ posting' = [posting EXCEPT ![x] = <<IF x = Orchestrator THEN Steer ELSE Note, n>>]
  /\ UNCHANGED <<bus, askVars, mine, taken, heard, cancelled, resets>>

\* An ask whose post failed is removed again and the error returned.
Withdraw(x) ==
  /\ pending' = pending \ {posting[x][1]}
  /\ at' = [at EXCEPT ![x] = "running"]
  /\ posting' = [posting EXCEPT ![x] = Nothing]

\* The post is over; an ask goes on to wait.
Posted(x) ==
  /\ at' = [at EXCEPT ![x] = IF posting[x][1] \in Asks THEN "listen" ELSE "running"]
  /\ posting' = [posting EXCEPT ![x] = Nothing]

\* The target must have a mailbox, or the post fails at once.
PostCheck(x) ==
  /\ at[x] = "post_check"
  /\ IF mailboxes[posting[x][2]] = None
       THEN Withdraw(x)
       ELSE at' = [at EXCEPT ![x] = "post_push"] /\ UNCHANGED <<pending, posting>>
  /\ UNCHANGED <<bus, asker, to, reply, woken, mine, taken, heard, cancelled,
                 sent, resets>>

\* Mutant of PostPush: the limit is compared with <=.
PostPushOneMore(x) ==
  /\ at[x] = "post_push"
  /\ LET b == mailboxes[posting[x][2]]
     IN \/ b = None /\ Posted(x) /\ UNCHANGED <<mail, pending>>
        \/ /\ b # None /\ Len(mail[b]) <= MaxMail
           /\ mail' = [mail EXCEPT ![b] = Append(@, posting[x][1])]
           /\ Posted(x) /\ UNCHANGED pending
        \/ b # None /\ Len(mail[b]) > MaxMail /\ Withdraw(x) /\ UNCHANGED mail
  /\ UNCHANGED <<mailboxes, known, asker, to, reply, woken, mine, taken, heard,
                 cancelled, sent, resets>>

\* The mailbox is looked up again.  One that is gone by now loses the message
\* and the post succeeds; a full one fails it.
PostPush(x) ==
  /\ at[x] = "post_push"
  /\ LET b == mailboxes[posting[x][2]]
     IN \/ b = None /\ Posted(x) /\ UNCHANGED <<mail, pending>>
        \/ /\ b # None /\ Len(mail[b]) < MaxMail
           /\ mail' = [mail EXCEPT ![b] = Append(@, posting[x][1])]
           /\ Posted(x) /\ UNCHANGED pending
        \/ b # None /\ Len(mail[b]) >= MaxMail /\ Withdraw(x) /\ UNCHANGED mail
  /\ UNCHANGED <<mailboxes, known, asker, to, reply, woken, mine, taken, heard,
                 cancelled, sent, resets>>

\* receive: the oldest message of the run's own mailbox.
Receive(a) ==
  LET b == mailboxes[NameOf[a]] IN
  /\ at[a] = "running"
  /\ b # None /\ mail[b] # <<>>
  /\ mail' = [mail EXCEPT ![b] = Tail(@)]
  /\ heard' = [heard EXCEPT ![a] = @ \cup (Asks \cap {Head(mail[b])})]
  /\ UNCHANGED <<mailboxes, known, askVars, at, posting, mine, taken, cancelled,
                 sent, resets>>

\* receive_from, polled by the run's loop: the oldest message of the orchestrator.
ReceiveSteer(a) ==
  LET b == mailboxes[NameOf[a]] IN
  /\ at[a] = "running"
  /\ b # None
  /\ \E i \in DOMAIN mail[b] :
       /\ mail[b][i] = Steer
       /\ \A j \in 1 .. i - 1 : mail[b][j] # Steer
       /\ mail' = [mail EXCEPT ![b] = SubSeq(@, 1, i - 1) \o SubSeq(@, i + 1, Len(@))]
  /\ UNCHANGED <<mailboxes, known, askVars, at, posting, mine, taken, heard,
                 cancelled, sent, resets>>
-----------------------------------------------------------------------------
(* Asks *)

\* Ask ids come from a counter (next_id).
SomeAskLeft == \E q \in Asks : asker[q] = None   \* bound on the asks
NextAsk == CHOOSE q \in Asks : asker[q] = None

\* create_ask: the ask is inserted, then surfaced to the orchestrator or posted.
Ask(a, n) ==
  /\ Go(a, "running", IF n = Orchestrator THEN "listen" ELSE "post_check")
  /\ Cardinality(pending) < MaxPending
  /\ SomeAskLeft /\ sent < MaxSent
  /\ sent' = sent + 1
  /\ LET q == NextAsk IN
       /\ pending' = pending \cup {q}
       /\ asker' = [asker EXCEPT ![q] = a]
       /\ to' = [to EXCEPT ![q] = n]
       /\ mine' = [mine EXCEPT ![a] = q]
       /\ posting' = IF n = Orchestrator THEN posting
                     ELSE [posting EXCEPT ![a] = <<q, n>>]
       /\ heard' = IF n = Orchestrator
                   THEN [heard EXCEPT ![Orchestrator] = @ \cup {q}] ELSE heard
  /\ UNCHANGED <<bus, reply, woken, taken, cancelled, resets>>

\* The select creates the Notified future.
Listen(a) ==
  /\ Go(a, "listen", "waiting")
  /\ UNCHANGED <<bus, askVars, posting, mine, taken, heard, cancelled, sent, resets>>

\* The asker was notified and reads the reply.
Woken(a) ==
  /\ Go(a, "waiting", "running")
  /\ woken[mine[a]]
  /\ mine' = [mine EXCEPT ![a] = None]
  /\ UNCHANGED <<bus, askVars, posting, taken, heard, cancelled, sent, resets>>

\* Mutant of Settle: the ask is looked up (get) instead of removed.
SettleInPlace(q, text) ==
  IF q \in pending
    THEN /\ reply' = [reply EXCEPT ![q] = text]
         /\ woken' = [woken EXCEPT ![q] = TRUE]
         /\ UNCHANGED pending
    ELSE UNCHANGED <<pending, reply, woken>>

\* Mutant of Settle: notify_waiters, as reset and unregister use it.
SettleWaiters(q, text) ==
  IF q \in pending
    THEN /\ pending' = pending \ {q}
         /\ reply' = [reply EXCEPT ![q] = text]
         /\ woken' = [woken EXCEPT ![q] = @ \/ at[asker[q]] = "waiting"]
    ELSE UNCHANGED <<pending, reply, woken>>

\* resolve_ask and cancel_ask: whoever removes the ask replies to it.
Settle(q, text) ==
  IF q \in pending
    THEN /\ pending' = pending \ {q}
         /\ reply' = [reply EXCEPT ![q] = text]
         /\ woken' = [woken EXCEPT ![q] = TRUE]
    ELSE UNCHANGED <<pending, reply, woken>>

\* The cancellation or the five minutes come first.
GiveUp(a) ==
  /\ Go(a, "waiting", "running")
  /\ Settle(mine[a], "interrupted")
  /\ mine' = [mine EXCEPT ![a] = None]
  /\ UNCHANGED <<bus, asker, to, posting, taken, heard, cancelled, sent, resets>>

\* intercom_reply of the user, or a peer's reply to an ask it received.
Reply(x, q) ==
  /\ at[x] = "running"
  /\ q \in heard[x]
  /\ Settle(q, "answer")
  /\ UNCHANGED <<bus, asker, to, at, posting, mine, taken, heard, cancelled, sent, resets>>
-----------------------------------------------------------------------------
(* The session boundary: reset, called after all the runs were cancelled *)

TakeAll ==
  /\ Go(Reset, "running", "tell")
  /\ resets < MaxResets
  /\ resets' = resets + 1
  /\ cancelled' = cancelled \cup {a \in Agents : at[a] \notin {"new", "gone"}}
  /\ taken' = [taken EXCEPT ![Reset] = pending]
  /\ pending' = {}
  /\ UNCHANGED <<bus, asker, to, reply, woken, posting, mine, heard, sent>>

TellAll ==
  /\ Go(Reset, "tell", "clear")
  /\ NotifyWaiters(Reset, "session replaced")
  /\ UNCHANGED <<bus, pending, asker, to, posting, mine, heard, cancelled, sent, resets>>

ClearMailboxes ==
  /\ Go(Reset, "clear", "forget")
  /\ mailboxes' = [n \in Names |-> None]
  /\ UNCHANGED <<mail, known, askVars, posting, mine, taken, heard, cancelled, sent, resets>>

ForgetTargets ==
  /\ Go(Reset, "forget", "running")
  /\ known' = {}
  /\ UNCHANGED <<mailboxes, mail, askVars, posting, mine, taken, heard, cancelled,
                 sent, resets>>

ResetStep == TakeAll \/ TellAll \/ ClearMailboxes \/ ForgetTargets
-----------------------------------------------------------------------------
RunStep(a) ==
  \/ Launch(a) \/ AddMailbox(a) \/ AddKnown(a) \/ Admit(a)
  \/ DropMailbox(a) \/ DropKnown(a) \/ DropAsks(a) \/ Tell(a)
  \/ Interrupt(a) \/ Receive(a) \/ ReceiveSteer(a)
  \/ \E n \in Names \cup {Orchestrator} : Ask(a, n)
  \/ Listen(a) \/ Woken(a) \/ GiveUp(a)

MessageStep(x) ==
  \/ \E n \in Names : Send(x, n)
  \/ PostCheck(x) \/ PostPush(x)
  \/ \E q \in Asks : Reply(x, q)

Next ==
  \/ \E a \in Agents : RunStep(a)
  \/ \E x \in Parties : MessageStep(x)
  \/ ResetStep

Spec == Init /\ [][Next]_vars
-----------------------------------------------------------------------------
(* Properties *)

\* An ask has one outcome: of a reply, a timeout, a cancellation, the end of a
\* peer and a session boundary, whoever removes the ask from the pending ones
\* decides what its asker reads, and nobody writes after it.
SettledOnce ==
  [][\A q \in Asks : reply[q] # None => reply'[q] = reply[q]]_vars

\* The inductive invariant behind it: an ask is held by one place at most, the
\* pending asks or whoever took it from them, and only what is held is unsettled.
AskTypes ==
  /\ asker \in [Asks -> Agents \cup {None}]
  /\ reply \in [Asks -> Replies]
  /\ taken \in [Agents \cup {Reset} -> SUBSET Asks]
  /\ pending \subseteq Asks

HeldOnce ==
  /\ \A x \in DOMAIN taken : taken[x] \cap pending = {}
  /\ \A x, y \in DOMAIN taken : x # y => taken[x] \cap taken[y] = {}

HeldIsUnsettled ==
  /\ \A q \in pending : asker[q] # None /\ reply[q] = None
  /\ \A x \in DOMAIN taken : \A q \in taken[x] : asker[q] # None /\ reply[q] = None
  /\ \A q \in Asks : asker[q] = None => reply[q] = None

AskInv == AskTypes /\ HeldOnce /\ HeldIsUnsettled

\* Somebody will still wake a for its ask, or has done so.
WillWake(a) ==
  \/ mine[a] \in pending
  \/ woken[mine[a]]
  \/ a \in cancelled

\* No other run goes by the name of a (subagent_target cuts names short).
NameIsOwn(a) == \A b \in Agents \ {a} : NameOf[b] # NameOf[a]

\* A run blocked in contact_supervisor is not forgotten: its ask can be answered,
\* or it was woken or cancelled ("so no subagent can remain blocked on an intercom
\* reply from the old session", reset).  The end of a namesake takes its ask too.
SupervisorAskNotLost ==
  \A a \in Agents :
    at[a] = "waiting" /\ to[mine[a]] = Orchestrator /\ NameIsOwn(a) => WillWake(a)

\* The same for an ask to a peer that ends: unregister wakes the askers, so that
\* none is left to "wedge until the 5-min timeout" (unregister).
PeerAskNotLost ==
  \A a \in Agents :
    at[a] = "waiting" /\ (\A x \in DOMAIN taken : taken[x] = {}) => WillWake(a)

\* "Also drop it from the known-targets list so targets() no longer advertises a
\* peer whose mailbox (and run) is gone" (unregister): a known target has a run.
KnownTargetHasRun ==
  \A n \in known : \E a \in Agents : NameOf[a] = n /\ at[a] # "gone"

\* "Drop a mailbox when its subagent finishes" (unregister), not another's: until
\* a session boundary a run that was admitted has a mailbox.
RunHasMailbox ==
  \A a \in Agents : Running(a) /\ resets = 0 => mailboxes[NameOf[a]] # None
=============================================================================
