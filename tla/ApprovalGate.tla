---------------------------- MODULE ApprovalGate ----------------------------
(***************************************************************************)
(* The questions the core puts to its user and the tasks blocked on them:  *)
(* request_approval, request_ask and request_sudo of core/src/main.rs, the *)
(* commands that answer them and the cancellation that sweeps them away    *)
(* (cancel_in_flight_turn).                                                *)
(*                                                                         *)
(* A request waits on a tokio Notify.  notify_one leaves a permit when     *)
(* nobody listens yet; notify_waiters reaches only who listens already.    *)
(* The dispatcher handles one command at a time; a bang command (`!cmd`)   *)
(* runs inside it, and may itself ask for the sudo password.               *)
(***************************************************************************)
EXTENDS Naturals, FiniteSets

CONSTANTS
  Requests,     \* request ids
  KindOf,       \* "approval", "ask" or "sudo" for each request
  Inline,       \* sudo requests that a bang command may make
  Risks,        \* permission kinds: readonly, destructive
  RiskOf,       \* the permission kind of the tool an approval is about
  MaxAborts,    \* bound on the cancellations
  None

ASSUME RequestsGiven ==
  /\ KindOf \in [Requests -> {"approval", "ask", "sudo"}]
  /\ RiskOf \in [Requests -> Risks]
  /\ Inline \subseteq {r \in Requests : KindOf[r] = "sudo"}
  /\ MaxAborts \in Nat
  /\ None \notin Requests \cup Risks \cup {"yes", "no"}

VARIABLES
  pending,     \* State.pending, pending_asks and pending_sudos
  at,          \* where the task that makes each request is
  decision,    \* granted, answers or result
  always,      \* PendingApproval.escalated
  permit,      \* the request's Notify has a permit, or woke its task
  verdict,     \* what the task read
  stopped,     \* requests whose cancellation token, or resource, is cancelled
  aborted,     \* those that were live at a cancellation
  agreed,      \* those of them the user had agreed to before it
  escalated,   \* State.escalated_kinds
  dispatcher,  \* what the dispatcher does: where, for which request, the decision
  aborts

waiters == <<at, verdict, escalated>>
words == <<decision, always, permit>>
tokens == <<stopped, aborted, agreed, aborts>>
vars == <<pending, waiters, words, tokens, dispatcher>>

Idle == [at |-> "idle", req |-> None, word |-> None]
Live(r) == at[r] \notin {"new", "done"}
Approvals == {r \in Requests : KindOf[r] = "approval"}

\* The decisions a request offers.  always stands for the ones that outlive the
\* call, allow_session and allow_pattern among them.
Words(r) == {"yes", "no"} \cup (IF r \in Approvals THEN {"always"} ELSE {})
-----------------------------------------------------------------------------
Types ==
  /\ pending \subseteq Requests
  /\ at \in [Requests -> {"new", "registered", "published", "waiting", "woken",
                          "settled", "done"}]
  /\ decision \in [Requests -> {None, "yes", "no"}]
  /\ always \in [Requests -> BOOLEAN]
  /\ permit \in [Requests -> BOOLEAN]
  /\ verdict \in [Requests -> {None, "granted", "denied", "aborted"}]
  /\ stopped \subseteq Requests /\ aborted \subseteq stopped /\ agreed \subseteq aborted
  /\ escalated \subseteq Risks
  /\ dispatcher \in [at : {"idle", "decide", "notify", "sweep", "join", "bang"},
                     req : Requests \cup {None}, word : {None, "yes", "no", "always"}]
  /\ aborts \in 0 .. MaxAborts

\* A request that is over has no entry left, but for one whose task a cancellation
\* has just dropped and whose entry it is about to clear.
NoStaleEntry == \A r \in pending : at[r] = "done" => dispatcher.at = "join"

\* The gate's state has the shape the code gives it, and its maps name only
\* requests that are still open (request_approval, request_ask, request_sudo).
TypeOK == Types /\ NoStaleEntry

Init ==
  /\ pending = {}
  /\ at = [r \in Requests |-> "new"]
  /\ decision = [r \in Requests |-> None]
  /\ always = [r \in Requests |-> FALSE]
  /\ permit = [r \in Requests |-> FALSE]
  /\ verdict = [r \in Requests |-> None]
  /\ stopped = {} /\ aborted = {} /\ agreed = {}
  /\ escalated = {}
  /\ dispatcher = Idle
  /\ aborts = 0

Go(r, from, next) == at[r] = from /\ at' = [at EXCEPT ![r] = next]
-----------------------------------------------------------------------------
(* The task that asks *)

\* The request's resource is registered under whichever run is active: a turn
\* that was superseded may still ask, with its own token cancelled already.
Register(r) ==
  /\ Go(r, "new", "registered")
  /\ \E superseded \in BOOLEAN :
       stopped' = IF superseded THEN stopped \cup {r} ELSE stopped
  /\ UNCHANGED <<pending, verdict, escalated, words, aborted, agreed, aborts, dispatcher>>

\* The request is inserted and the event that shows it emitted.
Publish(r) ==
  /\ Go(r, "registered", "published")
  /\ pending' = pending \cup {r}
  /\ UNCHANGED <<verdict, escalated, words, tokens, dispatcher>>

\* The select is polled for the first time.
Wait(r) ==
  /\ Go(r, "published", "waiting")
  /\ UNCHANGED <<pending, verdict, escalated, words, tokens, dispatcher>>

\* The select takes one of the branches that are ready, in no fixed order.
Wake(r) ==
  /\ permit[r]
  /\ Go(r, "waiting", IF r \in Approvals THEN "woken" ELSE "settled")
  /\ verdict' = [verdict EXCEPT ![r] = IF decision[r] = "yes" THEN "granted" ELSE "denied"]
  /\ UNCHANGED <<pending, escalated, words, tokens, dispatcher>>

\* Mutant of Stop: the branch returns and leaves the entry.
StopLeaving(r) ==
  /\ r \in stopped
  /\ Go(r, "waiting", "done")
  /\ verdict' = [verdict EXCEPT ![r] = "aborted"]
  /\ UNCHANGED <<pending, escalated, words, tokens, dispatcher>>

Stop(r) ==
  /\ r \in stopped
  /\ Go(r, "waiting", "settled")
  /\ verdict' = [verdict EXCEPT ![r] = "aborted"]
  /\ UNCHANGED <<pending, escalated, words, tokens, dispatcher>>

\* APPROVAL_TIMEOUT: a question or a password prompt has none.
Expire(r) ==
  /\ r \in Approvals
  /\ Go(r, "waiting", "settled")
  /\ verdict' = [verdict EXCEPT ![r] = "denied"]
  /\ UNCHANGED <<pending, escalated, words, tokens, dispatcher>>

\* "always" is read after the task woke, and recorded for the kind of the tool.
Escalate(r) ==
  /\ Go(r, "woken", "settled")
  /\ escalated' = IF always[r] THEN escalated \cup {RiskOf[r]} ELSE escalated
  /\ UNCHANGED <<pending, verdict, words, tokens, dispatcher>>

Withdraw(r) ==
  /\ Go(r, "settled", "done")
  /\ pending' = pending \ {r}
  /\ UNCHANGED <<verdict, escalated, words, tokens, dispatcher>>
-----------------------------------------------------------------------------
(* The commands that answer *)

\* Mutant of LookUp: Approve without the identity check.
LookUpAnyone(r, word) ==
  /\ dispatcher = Idle
  /\ r \in pending
  /\ word \in Words(r)
  /\ dispatcher' = [at |-> "decide", req |-> r, word |-> word]
  /\ UNCHANGED <<pending, waiters, words, tokens>>

\* Approve, AskReply and SudoReply: the request is looked up and left in its map.
\* An approval of a run or session that is over is refused and removed.
LookUp(r, word) ==
  /\ dispatcher = Idle
  /\ r \in pending
  /\ word \in Words(r)
  /\ IF r \in Approvals \cap stopped
       THEN pending' = pending \ {r} /\ UNCHANGED dispatcher
       ELSE /\ dispatcher' = [at |-> "decide", req |-> r, word |-> word]
            /\ UNCHANGED pending
  /\ UNCHANGED <<waiters, words, tokens>>

Decide ==
  /\ dispatcher.at = "decide"
  /\ decision' = [decision EXCEPT ![dispatcher.req] =
                    IF dispatcher.word = "no" THEN "no" ELSE "yes"]
  /\ dispatcher' = [dispatcher EXCEPT !.at = "notify"]
  /\ UNCHANGED <<pending, waiters, always, permit, tokens>>

\* Mutant of Notify: notify_waiters, as the sweep uses it.
NotifyWaiters ==
  /\ dispatcher.at = "notify"
  /\ always' = [always EXCEPT ![dispatcher.req] = @ \/ dispatcher.word = "always"]
  /\ permit' = [permit EXCEPT ![dispatcher.req] = @ \/ at[dispatcher.req] = "waiting"]
  /\ dispatcher' = Idle
  /\ UNCHANGED <<pending, waiters, decision, tokens>>

Notify ==
  /\ dispatcher.at = "notify"
  /\ always' = [always EXCEPT ![dispatcher.req] = @ \/ dispatcher.word = "always"]
  /\ permit' = [permit EXCEPT ![dispatcher.req] = TRUE]
  /\ dispatcher' = Idle
  /\ UNCHANGED <<pending, waiters, decision, tokens>>
-----------------------------------------------------------------------------
(* Bang commands and cancellations *)

\* handle_user_bash: the dispatcher itself is the task that asks, unless approvals
\* are off and sudo needs no password.
Bang(r) ==
  /\ dispatcher = Idle
  /\ r \in Inline
  /\ \E prompts \in BOOLEAN : Go(r, "new", IF prompts THEN "registered" ELSE "done")
  /\ dispatcher' = [Idle EXCEPT !.at = "bang", !.req = r]
  /\ UNCHANGED <<pending, verdict, escalated, words, tokens>>

BangDone ==
  /\ dispatcher.at = "bang" /\ at[dispatcher.req] = "done"
  /\ dispatcher' = Idle
  /\ UNCHANGED <<pending, waiters, words, tokens>>

\* A steer, an interrupt: tokens are cancelled and nothing else.
Interrupt(r) ==
  /\ Live(r)
  /\ ~(dispatcher.at = "bang" /\ dispatcher.req = r)
  /\ stopped' = stopped \cup {r}
  /\ UNCHANGED <<pending, waiters, words, aborted, agreed, aborts, dispatcher>>

\* The requests a cancellation meets, and those of them with a permission to read
\* or one that was read.
Meets ==
  /\ aborted' = aborted \cup {r \in Requests : Live(r)}
  /\ agreed' = agreed \cup {r \in Requests \ aborted :
                              Live(r) /\ (decision[r] = "yes" \/ verdict[r] = "granted")}

\* Mutant of CancelTokens: the cancellation relies on the wake-up of the sweep.
CancelNothing ==
  /\ dispatcher = Idle /\ aborts < MaxAborts
  /\ aborts' = aborts + 1
  /\ Meets
  /\ dispatcher' = [Idle EXCEPT !.at = "sweep"]
  /\ UNCHANGED <<pending, waiters, words, stopped>>

\* cancel_in_flight_turn: the tokens of the run, of its subagents and of the goal.
CancelTokens ==
  /\ dispatcher = Idle /\ aborts < MaxAborts
  /\ aborts' = aborts + 1
  /\ Meets
  /\ stopped' = stopped \cup {r \in Requests : Live(r)}
  /\ dispatcher' = [Idle EXCEPT !.at = "sweep"]
  /\ UNCHANGED <<pending, waiters, words>>

\* Every pending request is answered with a refusal.
Sweep ==
  /\ dispatcher.at = "sweep"
  /\ decision' = [r \in Requests |-> IF r \in pending THEN "no" ELSE decision[r]]
  /\ permit' = [r \in Requests |-> permit[r] \/ (r \in pending /\ at[r] = "waiting")]
  /\ dispatcher' = [dispatcher EXCEPT !.at = "join"]
  /\ UNCHANGED <<pending, waiters, always, tokens>>

\* The turn did not end within two seconds and its task is dropped.
Dropped(r) ==
  /\ dispatcher.at = "join"
  /\ r \in aborted /\ Live(r)
  /\ at' = [at EXCEPT ![r] = "done"]
  /\ verdict' = [verdict EXCEPT ![r] = "aborted"]
  /\ UNCHANGED <<pending, escalated, words, tokens, dispatcher>>

Clear ==
  /\ dispatcher.at = "join"
  /\ pending' = {}
  /\ dispatcher' = Idle
  /\ UNCHANGED <<waiters, words, tokens>>
-----------------------------------------------------------------------------
TaskStep(r) ==
  Publish(r) \/ Wait(r) \/ Wake(r) \/ Stop(r) \/ Escalate(r) \/ Withdraw(r)

DispatcherStep ==
  Decide \/ Notify \/ BangDone \/ Sweep \/ Clear

Answer(r) == \E word \in {"yes", "no", "always"} : LookUp(r, word)

Next ==
  \/ \E r \in Requests :
       \/ Register(r) \/ TaskStep(r) \/ Expire(r) \/ Answer(r)
       \/ Bang(r) \/ Interrupt(r) \/ Dropped(r)
  \/ DispatcherStep
  \/ CancelTokens

Spec == Init /\ [][Next]_vars

\* Tasks and the dispatcher are scheduled; nobody has to answer, and the fifteen
\* minutes of an approval need not be over.
FairSpec ==
  /\ Spec
  /\ WF_vars(DispatcherStep)
  /\ \A r \in Requests : WF_vars(TaskStep(r))

\* Besides, the user answers what can be answered.
AnsweringSpec ==
  /\ FairSpec
  /\ \A r \in Requests : WF_vars(Answer(r))
-----------------------------------------------------------------------------
(* Properties *)

\* An approval of a run that is over "cannot authorize a tool call" (Approve): of
\* the approvals a cancellation met, request_approval returns a permission only for
\* those the user had agreed to before it, whatever is answered, swept, woken and
\* published afterwards.
NoLateApproval ==
  \A r \in Approvals \cap aborted : verdict[r] = "granted" => r \in agreed

\* The inductive invariant behind it: requests are answered only after they were
\* published, Approve works on a request that no cancellation had met, and a
\* permission such a request holds is from before.
PublishedFirst ==
  \A r \in Requests :
    at[r] \in {"new", "registered"} =>
      /\ r \notin pending /\ decision[r] = None
      /\ dispatcher.at = "decide" => dispatcher.req # r

WorksOnLive ==
  dispatcher.at = "decide" => dispatcher.req \in Requests \ (Approvals \cap aborted)

AgreedBefore ==
  \A r \in Approvals \cap aborted : decision[r] = "yes" => r \in agreed

AbortInv == TypeOK /\ PublishedFirst /\ WorksOnLive /\ AgreedBefore /\ NoLateApproval

\* "Wake every interactive waiter" (cancel_in_flight_turn): a request that is live
\* when a cancellation starts ends without an answer and without a timeout,
\* wherever its task is between registering and listening.
AbortEndsRequests ==
  \A r \in Requests : r \in aborted ~> at[r] = "done"

\* An answer that was looked up reaches its task, also when the task has not
\* begun to listen, and when a cancellation empties the maps in between.
AnswerArrives ==
  \A r \in Requests :
    dispatcher.at = "notify" /\ dispatcher.req = r ~> at[r] = "done"

\* request_sudo "Blocks until the user approves (with a password) or declines":
\* a user who answers ends it.
SudoAnswered ==
  \A r \in Requests :
    KindOf[r] = "sudo" /\ at[r] = "waiting" ~> at[r] # "waiting"

\* A decision on a request that is "already resolved" is refused (Approve): the
\* kinds that skip the gate are those some request of which was granted.
EscalatedWasGranted ==
  \A k \in escalated :
    \E r \in Approvals : RiskOf[r] = k /\ verdict[r] = "granted"

\* request_ask blocks "until answered, skipped, or aborted": one of the three can
\* still happen to a task that waits.
WaiterCanEnd ==
  \A r \in Requests :
    at[r] = "waiting" => r \in pending \/ permit[r] \/ r \in stopped
=============================================================================
