--------------------------- MODULE IntercomProofs ---------------------------
(***************************************************************************)
(* Theorems about Intercom, for any number of runs, asks, mailboxes and    *)
(* session boundaries, and whatever the runs are called: type correctness  *)
(* with the limits, an ask is settled once, and no run stays blocked on an *)
(* ask to its supervisor that nobody holds any more.                       *)
(***************************************************************************)
EXTENDS Intercom, SequenceTheorems, FiniteSetTheorems, TLAPS

USE OutsidersDistinct

\* What a step does to the asks: nothing, or it opens one that was not used.
Opens(a, q) ==
  /\ q \in Asks /\ a \in Agents
  /\ asker[q] = None
  /\ pending' = pending \cup {q}
  /\ asker' = [asker EXCEPT ![q] = a]
  /\ UNCHANGED <<reply, taken>>

\* Or it moves some of them to the party that will tell their askers.
Takes(x, qs) ==
  /\ x \in Agents \cup {Reset}
  /\ qs \subseteq pending
  /\ pending' = pending \ qs
  /\ taken' = [taken EXCEPT ![x] = qs]
  /\ UNCHANGED <<asker, reply>>

\* Or that party tells them.
Tells(x, text) ==
  /\ x \in Agents \cup {Reset} /\ text \in Replies
  /\ reply' = [q \in Asks |-> IF q \in taken[x] THEN text ELSE reply[q]]
  /\ taken' = [taken EXCEPT ![x] = {}]
  /\ UNCHANGED <<asker, pending>>

\* Or some are removed, at most one of them with a reply.
Settles(qs) ==
  /\ qs \subseteq pending
  /\ pending' = pending \ qs
  /\ \/ UNCHANGED reply
     \/ \E q \in qs, text \in Replies : reply' = [reply EXCEPT ![q] = text]
  /\ UNCHANGED <<asker, taken>>

AskStep ==
  \/ \E a \in Agents, q \in Asks : Opens(a, q)
  \/ \E x \in Agents \cup {Reset}, qs \in SUBSET Asks : Takes(x, qs)
  \/ \E x \in Agents \cup {Reset}, text \in Replies : Tells(x, text)
  \/ \E qs \in SUBSET Asks : Settles(qs)

\* An ask step keeps the invariant.
LEMMA AskStepKeepsInv == AskInv /\ AskStep => AskInv'
<1> SUFFICES ASSUME AskInv, AskStep PROVE AskInv'
  OBVIOUS
<1> USE DEF AskInv, AskTypes, HeldOnce, HeldIsUnsettled
<1>1. ASSUME NEW a \in Agents, NEW q \in Asks, Opens(a, q) PROVE AskInv'
  BY <1>1 DEF Opens
<1>2. ASSUME NEW x \in Agents \cup {Reset}, NEW qs \in SUBSET Asks, Takes(x, qs)
      PROVE  AskInv'
  BY <1>2 DEF Takes
<1>3. ASSUME NEW x \in Agents \cup {Reset}, NEW text \in Replies, Tells(x, text)
      PROVE  AskInv'
  BY <1>3 DEF Tells
<1>4. ASSUME NEW qs \in SUBSET Asks, Settles(qs) PROVE AskInv'
  BY <1>4 DEF Settles
<1>5. QED BY <1>1, <1>2, <1>3, <1>4 DEF AskStep

\* An ask step leaves every reply that was given.
LEMMA AskStepKeepsReplies ==
  AskInv /\ AskStep => \A q \in Asks : reply[q] # None => reply'[q] = reply[q]
<1> SUFFICES ASSUME AskInv, AskStep, NEW q \in Asks, reply[q] # None
             PROVE  reply'[q] = reply[q]
  OBVIOUS
<1> USE DEF AskInv, AskTypes, HeldIsUnsettled
<1>1. ASSUME NEW x \in Agents \cup {Reset}, NEW text \in Replies, Tells(x, text)
      PROVE  reply'[q] = reply[q]
  BY <1>1 DEF Tells
<1>2. ASSUME NEW qs \in SUBSET Asks, Settles(qs) PROVE reply'[q] = reply[q]
  BY <1>2 DEF Settles
<1>3. QED BY <1>1, <1>2 DEF AskStep, Opens, Takes

\* resolve_ask and cancel_ask, whoever calls them.
LEMMA SettleIsAskStep ==
  ASSUME AskInv, NEW q, NEW text \in Replies, Settle(q, text), UNCHANGED <<asker, taken>>
  PROVE  AskStep
<1>1. CASE q \in pending
  <2>1. Settles({q})
    BY <1>1 DEF Settle, Settles, AskInv, AskTypes
  <2>2. {q} \in SUBSET Asks
    BY <1>1 DEF AskInv, AskTypes
  <2>3. QED BY <2>1, <2>2 DEF AskStep
<1>2. CASE q \notin pending
  <2>1. Settles({})
    BY <1>2 DEF Settle, Settles
  <2>2. QED BY <2>1 DEF AskStep
<1>3. QED BY <1>1, <1>2

\* A failed post withdraws the ask it was for.
LEMMA PostIsAskStep ==
  ASSUME AskInv, NEW x, PostCheck(x) \/ PostPush(x)
  PROVE  AskStep
<1> DEFINE qs == pending \ pending'
<1>1. pending' \subseteq pending /\ UNCHANGED <<asker, reply, taken>>
  BY DEF PostCheck, PostPush, Withdraw, Posted
<1>2. Settles(qs) /\ qs \in SUBSET Asks
  BY <1>1 DEF Settles, AskInv, AskTypes
<1>3. QED BY <1>2 DEF AskStep

\* Every step of the bus and of the runs is an ask step.
LEMMA NextIsAskStep == AskInv /\ [Next]_vars => AskStep
<1> SUFFICES ASSUME AskInv, [Next]_vars PROVE AskStep
  OBVIOUS
<1>0. ASSUME UNCHANGED <<pending, asker, reply, taken>> PROVE AskStep
  <2>1. Settles({})
    BY <1>0 DEF Settles
  <2>2. QED BY <2>1 DEF AskStep
<1>1. ASSUME NEW a \in Agents, RunStep(a) PROVE AskStep
  <2>1. ASSUME NEW n \in Names \cup {Orchestrator}, Ask(a, n) PROVE AskStep
    <3>1. NextAsk \in Asks /\ asker[NextAsk] = None
      BY <2>1 DEF Ask, SomeAskLeft, NextAsk
    <3>2. Opens(a, NextAsk)
      BY <2>1, <3>1 DEF Ask, Opens
    <3>3. QED BY <3>1, <3>2 DEF AskStep
  <2>2. CASE DropAsks(a)
    <3>1. Takes(a, AsksOf(NameOf[a])) /\ AsksOf(NameOf[a]) \in SUBSET Asks
      BY <2>2 DEF DropAsks, Takes, AsksOf, AskInv, AskTypes
    <3>2. QED BY <3>1 DEF AskStep
  <2>3. CASE Tell(a)
    <3>1. Tells(a, "agent finished") /\ "agent finished" \in Replies
      BY <2>3 DEF Tell, NotifyWaiters, Tells, Replies
    <3>2. QED BY <3>1 DEF AskStep
  <2>4. CASE GiveUp(a)
    BY <2>4, SettleIsAskStep DEF GiveUp, Replies
  <2>5. CASE Launch(a) \/ AddMailbox(a) \/ AddKnown(a) \/ Admit(a)
    BY <2>5, <1>0 DEF Launch, AddMailbox, AddKnown, Admit, askVars
  <2>6. CASE DropMailbox(a) \/ DropKnown(a) \/ Interrupt(a)
    BY <2>6, <1>0 DEF DropMailbox, DropKnown, Interrupt, askVars
  <2>7. CASE Receive(a) \/ ReceiveSteer(a)
    BY <2>7, <1>0 DEF Receive, ReceiveSteer, askVars
  <2>8. CASE Listen(a) \/ Woken(a)
    BY <2>8, <1>0 DEF Listen, Woken, askVars
  <2>9. QED
    BY <1>1, <2>1, <2>2, <2>3, <2>4, <2>5, <2>6, <2>7, <2>8 DEF RunStep
<1>2. ASSUME NEW x \in Parties, MessageStep(x) PROVE AskStep
  <2>1. ASSUME NEW n \in Names, Send(x, n) PROVE AskStep
    BY <2>1, <1>0 DEF Send, askVars
  <2>2. ASSUME NEW q \in Asks, Reply(x, q) PROVE AskStep
    BY <2>2, SettleIsAskStep DEF Reply, Replies
  <2>3. QED BY <1>2, <2>1, <2>2, PostIsAskStep DEF MessageStep
<1>3. CASE ResetStep
  <2>1. CASE TakeAll
    <3>1. Takes(Reset, pending) /\ pending \in SUBSET Asks
      BY <2>1 DEF TakeAll, Takes, AskInv, AskTypes
    <3>2. QED BY <3>1 DEF AskStep
  <2>2. CASE TellAll
    <3>1. Tells(Reset, "session replaced") /\ "session replaced" \in Replies
      BY <2>2 DEF TellAll, NotifyWaiters, Tells, Replies
    <3>2. QED BY <3>1 DEF AskStep
  <2>3. CASE ClearMailboxes \/ ForgetTargets
    BY <2>3, <1>0 DEF ClearMailboxes, ForgetTargets, askVars
  <2>4. QED BY <1>3, <2>1, <2>2, <2>3 DEF ResetStep
<1>4. CASE UNCHANGED vars
  BY <1>4, <1>0 DEF vars, askVars
<1>5. QED BY <1>1, <1>2, <1>3, <1>4 DEF Next

\* An ask has one outcome: what resolve_ask, cancel_ask, unregister or reset wrote
\* first is never overwritten by another of them.
THEOREM AskSettledOnce == Spec => SettledOnce
<1>1. Init => AskInv
  BY DEF Init, AskInv, AskTypes, HeldOnce, HeldIsUnsettled, Replies
<1>2. AskInv /\ [Next]_vars => AskInv'
  BY NextIsAskStep, AskStepKeepsInv
<1>3. AskInv /\ [Next]_vars =>
        [\A q \in Asks : reply[q] # None => reply'[q] = reply[q]]_vars
  BY NextIsAskStep, AskStepKeepsReplies
<1>4. QED BY <1>1, <1>2, <1>3, PTL DEF Spec, SettledOnce

-----------------------------------------------------------------------------
(* Type correctness and the asks to the supervisor *)

\* What an actor is about to post is a message, or the ask it waits for, and to
\* a peer.
PostOK ==
  \A x \in Parties : at[x] \in {"post_check", "post_push"} =>
    /\ posting[x][1] \in Asks \cup {Note, Steer} /\ posting[x][2] \in Names
    /\ posting[x][1] \in Asks =>
         x \in Agents /\ mine[x] = posting[x][1] /\ to[mine[x]] = posting[x][2]

\* A run that posts an ask, or waits, has made that ask.
Asking(a) ==
  \/ at[a] \in {"listen", "waiting"}
  \/ at[a] \in {"post_check", "post_push"} /\ posting[a][1] \in Asks

MineOK == \A a \in Agents : Asking(a) => mine[a] \in Asks /\ asker[mine[a]] = a

\* The orchestrator asks nobody.
OrchestratorOK == at[Orchestrator] \in {"running", "post_check", "post_push"}

\* The ask is not lost before its asker listens either.
AskHeld ==
  \A a \in Agents :
    at[a] \in {"listen", "waiting"} /\ to[mine[a]] = Orchestrator /\ NameIsOwn(a) => WillWake(a)

IInv ==
  /\ TypeOK /\ IsFiniteSet(pending)
  /\ PostOK /\ MineOK /\ OrchestratorOK /\ AskHeld

\* There are finitely many pending asks after any part of them was removed, and
\* not more of them.
LEMMA FewerPending ==
  ASSUME TypeOK, IsFiniteSet(pending), pending' \subseteq pending
  PROVE  /\ pending' \subseteq Asks /\ IsFiniteSet(pending')
         /\ Cardinality(pending') <= MaxPending
<1>1. IsFiniteSet(pending') /\ Cardinality(pending') <= Cardinality(pending)
  BY FS_Subset
<1>2. Cardinality(pending) \in Nat /\ Cardinality(pending') \in Nat
  BY <1>1, FS_CardinalityType
<1>3. QED BY <1>1, <1>2, LimitsNat DEF TypeOK

\* Where a party goes is a place.
LEMMA GoType ==
  ASSUME TypeOK, NEW x \in Parties \cup {Reset}, NEW from, NEW next \in Places, Go(x, from, next)
  PROVE  at' \in [Parties \cup {Reset} -> Places]
  BY DEF TypeOK, Go

\* Telling the askers keeps the types of the asks.
LEMMA NotifyType ==
  ASSUME TypeOK, NEW x \in Agents \cup {Reset}, NEW text \in Replies, NotifyWaiters(x, text)
  PROVE  /\ reply' \in [Asks -> Replies] /\ woken' \in [Asks -> BOOLEAN]
         /\ taken' \in [Agents \cup {Reset} -> SUBSET Asks]
<1>1. woken' \in [Asks -> BOOLEAN]
  BY DEF TypeOK, NotifyWaiters
<1>2. QED BY <1>1 DEF TypeOK, NotifyWaiters

\* Settling an ask keeps the types, and never takes back a wake-up.
LEMMA SettleType ==
  ASSUME TypeOK, NEW q, NEW text \in Replies, Settle(q, text)
  PROVE  /\ reply' \in [Asks -> Replies] /\ woken' \in [Asks -> BOOLEAN]
         /\ pending' \subseteq pending
         /\ \A r \in Asks : r \in pending \/ woken[r] => r \in pending' \/ woken'[r]
<1>1. CASE q \in pending
  <2>1. /\ q \in Asks /\ pending' = pending \ {q}
        /\ reply' = [reply EXCEPT ![q] = text] /\ woken' = [woken EXCEPT ![q] = TRUE]
    BY <1>1 DEF TypeOK, Settle
  <2>2. reply' \in [Asks -> Replies] /\ woken' \in [Asks -> BOOLEAN]
    BY <2>1 DEF TypeOK
  <2>3. \A r \in Asks : r \in pending \/ woken[r] => r \in pending' \/ woken'[r]
    BY <2>1 DEF TypeOK
  <2>4. QED BY <2>1, <2>2, <2>3
<1>2. CASE q \notin pending
  BY <1>2 DEF TypeOK, Settle
<1>3. QED BY <1>1, <1>2

\* Initially every party is new or at rest and nothing is asked.
LEMMA InitInv == Init => IInv
<1> SUFFICES ASSUME Init PROVE IInv
  OBVIOUS
<1>1. TypeOK
  <2>1. mail \in [Boxes -> Seq(Asks \cup {Note, Steer})] /\ \A b \in Boxes : Len(mail[b]) <= MaxMail
    BY EmptySeq, LimitsNat DEF Init
  <2>2. at \in [Parties \cup {Reset} -> Places]
    BY DEF Init, Places, AtWork
  <2>3. posting \in [Parties -> (Asks \cup {Note, Steer, None}) \X (Names \cup {None})]
    BY DEF Init, Nothing
  <2>4. Cardinality(pending) <= MaxPending /\ sent \in 0 .. MaxSent /\ resets \in 0 .. MaxResets
    BY FS_EmptySet, LimitsNat DEF Init
  <2>5. /\ mailboxes \in [Names -> Boxes \cup {None}] /\ known \subseteq Names /\ pending \subseteq Asks
        /\ asker \in [Asks -> Agents \cup {None}] /\ to \in [Asks -> Names \cup {Orchestrator, None}]
        /\ reply \in [Asks -> Replies] /\ woken \in [Asks -> BOOLEAN]
        /\ mine \in [Agents -> Asks \cup {None}] /\ taken \in [Agents \cup {Reset} -> SUBSET Asks]
        /\ heard \in [Parties -> SUBSET Asks] /\ cancelled \subseteq Agents
    BY DEF Init, Replies
  <2>6. QED BY <2>1, <2>2, <2>3, <2>4, <2>5 DEF TypeOK
<1>2. IsFiniteSet(pending)
  BY FS_EmptySet DEF Init
<1>3. PostOK /\ MineOK /\ OrchestratorOK /\ AskHeld
  BY DEF Init, PostOK, MineOK, Asking, OrchestratorOK, AskHeld, Parties
<1>4. QED BY <1>1, <1>2, <1>3 DEF IInv

\* A step in the life of a run that touches neither asks nor messages.
LEMMA LifeInv ==
  ASSUME IInv, NEW a \in Agents,
         \/ Launch(a) \/ AddMailbox(a) \/ AddKnown(a) \/ Admit(a)
         \/ DropMailbox(a) \/ DropKnown(a) \/ Interrupt(a)
  PROVE  IInv'
<1> USE DEF IInv
<1>1. /\ UNCHANGED <<mail, askVars, posting, mine, taken, heard, sent, resets>>
      /\ cancelled \subseteq cancelled'
  BY DEF Launch, AddMailbox, AddKnown, Admit, DropMailbox, DropKnown, Interrupt, bus
<1> DEFINE Moves ==
             /\ \A x \in Parties \cup {Reset} : at'[x] # at[x] =>
                  x = a /\ at'[x] \notin {"post_check", "post_push", "listen", "waiting"}
             /\ at' \in [Parties \cup {Reset} -> Places]
<1>2. Moves
  <2>1. \/ UNCHANGED at
        \/ \E next \in {"launched", "add_known", "admission", "running", "drop_known",
                       "drop_asks", "gone"} : at' = [at EXCEPT ![a] = next]
    BY DEF Launch, AddMailbox, AddKnown, Admit, DropMailbox, DropKnown, Interrupt, Go
  <2>2. ASSUME NEW next \in {"launched", "add_known", "admission", "running", "drop_known",
                             "drop_asks", "gone"}, at' = [at EXCEPT ![a] = next]
        PROVE  Moves
    <3>1. next \in Places
      BY DEF Places, AtWork
    <3>2. at' \in [Parties \cup {Reset} -> Places]
      BY <2>2, <3>1 DEF TypeOK
    <3>3. \A x \in Parties \cup {Reset} : at'[x] # at[x] => x = a /\ at'[x] = next
      BY <2>2 DEF TypeOK
    <3>4. QED BY <3>2, <3>3
  <2>3. ASSUME UNCHANGED at PROVE Moves
    BY <2>3 DEF TypeOK
  <2>4. QED BY <2>1, <2>2, <2>3
<1>3. TypeOK'
  <2>1. mailboxes' \in [Names -> Boxes \cup {None}]
    <3>1. SomeBoxLeft => FreshBox \in Boxes
      BY DEF SomeBoxLeft, FreshBox
    <3>2. \/ UNCHANGED mailboxes
          \/ SomeBoxLeft /\ mailboxes' = [mailboxes EXCEPT ![NameOf[a]] = FreshBox]
          \/ mailboxes' = [mailboxes EXCEPT ![NameOf[a]] = None]
      BY DEF Launch, AddMailbox, AddKnown, Admit, DropMailbox, DropKnown, Interrupt, bus
    <3>3. QED BY <3>1, <3>2 DEF TypeOK
  <2>2. known' \subseteq Names /\ cancelled' \subseteq Agents
    BY NamesGiven
    DEF TypeOK, Launch, AddMailbox, AddKnown, Admit, DropMailbox, DropKnown, Interrupt, bus
  <2>3. QED BY <1>1, <1>2, <2>1, <2>2 DEF TypeOK, askVars
<1>4. IsFiniteSet(pending)' /\ PostOK'
  BY <1>1, <1>2 DEF PostOK, askVars
<1>5. MineOK'
  BY <1>1, <1>2 DEF MineOK, Asking, Parties, askVars
<1>6. OrchestratorOK'
  BY <1>2 DEF OrchestratorOK, Parties
<1>7. AskHeld'
  BY <1>1, <1>2 DEF AskHeld, WillWake, NameIsOwn, Parties, askVars
<1>8. QED BY <1>3, <1>4, <1>5, <1>6, <1>7

\* A run reads its mailbox.
LEMMA ReceiveInv ==
  ASSUME IInv, NEW a \in Agents, Receive(a) \/ ReceiveSteer(a)
  PROVE  IInv'
<1> USE DEF IInv
<1> DEFINE b == mailboxes[NameOf[a]]
           Mail == Asks \cup {Note, Steer}
<1>1. UNCHANGED <<mailboxes, known, askVars, at, posting, mine, taken, cancelled, sent, resets>>
  BY DEF Receive, ReceiveSteer
<1>2. b \in Boxes /\ mail[b] \in Seq(Mail) /\ Len(mail[b]) \in Nat /\ Len(mail[b]) <= MaxMail
  <2>1. b \in Boxes
    BY NamesGiven DEF TypeOK, Receive, ReceiveSteer
  <2>2. QED BY <2>1, LenProperties DEF TypeOK
<1>3. \E m \in Seq(Mail) : Len(m) <= Len(mail[b]) /\ mail' = [mail EXCEPT ![b] = m]
  <2>1. CASE Receive(a)
    <3>1. mail[b] # <<>>
      BY <2>1 DEF Receive
    <3>2. Tail(mail[b]) \in Seq(Mail) /\ Len(Tail(mail[b])) = Len(mail[b]) - 1
      BY <1>2, <3>1, HeadTailProperties
    <3>3. mail' = [mail EXCEPT ![b] = Tail(mail[b])]
      BY <2>1, <1>2 DEF Receive, TypeOK
    <3>4. Len(Tail(mail[b])) <= Len(mail[b])
      BY <1>2, <3>2
    <3>5. QED BY <3>2, <3>3, <3>4
  <2>2. CASE ReceiveSteer(a)
    <3>1. PICK i \in DOMAIN mail[b] :
            mail' = [mail EXCEPT ![b] = SubSeq(@, 1, i - 1) \o SubSeq(@, i + 1, Len(@))]
      BY <2>2 DEF ReceiveSteer
    <3> DEFINE front == SubSeq(mail[b], 1, i - 1)
               back == SubSeq(mail[b], i + 1, Len(mail[b]))
    <3>2. i \in 1 .. Len(mail[b]) /\ \A j \in 1 .. Len(mail[b]) : mail[b][j] \in Mail
      BY <1>2, <3>1, LenProperties, ElementOfSeq
    <3>3. front \in Seq(Mail) /\ Len(front) = i - 1
      <4>1. \A j \in 1 .. i - 1 : mail[b][j] \in Mail
        BY <1>2, <3>2
      <4>2. QED BY <1>2, <3>2, <4>1, SubSeqProperties
    <3>4. back \in Seq(Mail) /\ Len(back) = Len(mail[b]) - i
      <4>1. \A j \in i + 1 .. Len(mail[b]) : mail[b][j] \in Mail
        BY <1>2, <3>2
      <4>2. Len(back) = IF i + 1 <= Len(mail[b]) THEN Len(mail[b]) - (i + 1) + 1 ELSE 0
        BY <1>2, <3>2, <4>1, SubSeqProperties
      <4>3. QED BY <1>2, <3>2, <4>1, <4>2, SubSeqProperties
    <3>5. front \o back \in Seq(Mail) /\ Len(front \o back) <= Len(mail[b])
      BY <1>2, <3>2, <3>3, <3>4, ConcatProperties
    <3>6. QED BY <1>2, <3>1, <3>5
  <2>3. QED BY <2>1, <2>2
<1>4. TypeOK'
  <2>1. mail' \in [Boxes -> Seq(Mail)] /\ \A c \in Boxes : Len(mail'[c]) <= MaxMail
    <3>1. PICK m \in Seq(Mail) : Len(m) <= Len(mail[b]) /\ mail' = [mail EXCEPT ![b] = m]
      BY <1>3
    <3>2. Len(m) <= MaxMail
      BY <1>2, <3>1, LimitsNat, LenProperties
    <3>3. QED BY <1>2, <3>1, <3>2 DEF TypeOK
  <2>2. heard' \in [Parties -> SUBSET Asks]
    <3>1. UNCHANGED heard \/ \E qs \in SUBSET Asks : heard' = [heard EXCEPT ![a] = @ \cup qs]
      BY DEF Receive, ReceiveSteer
    <3>2. heard[a] \in SUBSET Asks
      BY DEF TypeOK, Parties
    <3>3. QED BY <3>1, <3>2 DEF TypeOK
  <2>3. QED BY <1>1, <2>1, <2>2 DEF TypeOK, askVars
<1>5. IsFiniteSet(pending)' /\ PostOK' /\ MineOK' /\ OrchestratorOK'
  BY <1>1 DEF PostOK, MineOK, Asking, OrchestratorOK, askVars
<1>6. AskHeld'
  BY <1>1 DEF AskHeld, WillWake, NameIsOwn, askVars
<1>7. QED BY <1>4, <1>5, <1>6

\* An ask is made: it is held, and its asker is who it says.
LEMMA AskInvStep ==
  ASSUME IInv, NEW a \in Agents, NEW n \in Names \cup {Orchestrator}, Ask(a, n)
  PROVE  IInv'
<1> USE DEF IInv
<1> DEFINE q == NextAsk
<1>1. /\ q \in Asks /\ asker[q] = None
      /\ pending' = pending \cup {q} /\ asker' = [asker EXCEPT ![q] = a]
      /\ to' = [to EXCEPT ![q] = n] /\ mine' = [mine EXCEPT ![a] = q]
      /\ at[a] = "running" /\ UNCHANGED <<bus, reply, woken, taken, cancelled, resets>>
      /\ sent < MaxSent /\ sent' = sent + 1 /\ Cardinality(pending) < MaxPending
  BY DEF Ask, Go, SomeAskLeft, NextAsk
<1>2. /\ at' = [at EXCEPT ![a] = IF n = Orchestrator THEN "listen" ELSE "post_check"]
      /\ posting' = IF n = Orchestrator THEN posting ELSE [posting EXCEPT ![a] = <<q, n>>]
      /\ heard' = IF n = Orchestrator THEN [heard EXCEPT ![Orchestrator] = @ \cup {q}] ELSE heard
  BY DEF Ask, Go
<1>3. \A b \in Agents : Asking(b) => b # a /\ mine[b] \in Asks /\ mine[b] # q
  BY <1>1 DEF MineOK, Asking
<1>4. TypeOK' /\ IsFiniteSet(pending)'
  <2>1. IsFiniteSet(pending') /\ Cardinality(pending') <= MaxPending
    <3>1. /\ IsFiniteSet(pending \cup {q})
          /\ Cardinality(pending \cup {q}) = IF q \in pending THEN Cardinality(pending)
                                            ELSE Cardinality(pending) + 1
      BY FS_AddElement
    <3>2. Cardinality(pending) \in Nat
      BY FS_CardinalityType
    <3>3. QED BY <1>1, <3>1, <3>2, LimitsNat
  <2>2. at' \in [Parties \cup {Reset} -> Places]
    BY <1>2 DEF TypeOK, Places, AtWork, Parties
  <2>3. posting' \in [Parties -> (Asks \cup {Note, Steer, None}) \X (Names \cup {None})]
    <3>1. n # Orchestrator => <<q, n>> \in (Asks \cup {Note, Steer, None}) \X (Names \cup {None})
      BY <1>1
    <3>2. QED BY <1>2, <3>1 DEF TypeOK
  <2>4. heard' \in [Parties -> SUBSET Asks]
    BY <1>1, <1>2 DEF TypeOK, Parties
  <2>5. sent' \in 0 .. MaxSent
    BY <1>1, LimitsNat DEF TypeOK
  <2>6. pending' \subseteq Asks /\ asker' \in [Asks -> Agents \cup {None}]
        /\ to' \in [Asks -> Names \cup {Orchestrator, None}] /\ mine' \in [Agents -> Asks \cup {None}]
    BY <1>1 DEF TypeOK
  <2>7. QED BY <1>1, <2>1, <2>2, <2>3, <2>4, <2>5, <2>6 DEF TypeOK, bus
<1>5. PostOK'
  <2> SUFFICES ASSUME NEW x \in Parties, at'[x] \in {"post_check", "post_push"}
               PROVE  /\ posting'[x][1] \in Asks \cup {Note, Steer} /\ posting'[x][2] \in Names
                      /\ posting'[x][1] \in Asks =>
                           x \in Agents /\ mine'[x] = posting'[x][1] /\ to'[mine'[x]] = posting'[x][2]
    BY DEF PostOK
  <2>1. CASE x = a
    BY <1>1, <1>2, <2>1 DEF TypeOK, Parties
  <2>2. CASE x # a
    <3>1. at'[x] = at[x] /\ posting'[x] = posting[x]
      BY <1>2, <2>2 DEF TypeOK, Parties
    <3>2. x \in Agents => mine'[x] = mine[x] /\ (posting[x][1] \in Asks => to'[mine[x]] = to[mine[x]])
      BY <1>1, <1>3, <2>2, <3>1 DEF TypeOK, Asking
    <3>3. QED BY <3>1, <3>2 DEF PostOK
  <2>3. QED BY <2>1, <2>2
<1>6. MineOK'
  <2> SUFFICES ASSUME NEW b \in Agents, Asking(b)'
               PROVE  mine'[b] \in Asks /\ asker'[mine'[b]] = b
    BY DEF MineOK
  <2>1. CASE b = a
    BY <1>1, <2>1 DEF TypeOK
  <2>2. CASE b # a
    <3>1. Asking(b) /\ mine'[b] = mine[b]
      BY <1>1, <1>2, <2>2 DEF TypeOK, Asking, Parties
    <3>2. QED BY <1>1, <1>3, <3>1 DEF TypeOK, MineOK
  <2>3. QED BY <2>1, <2>2
<1>7. OrchestratorOK'
  BY <1>2 DEF OrchestratorOK, TypeOK, Parties
<1>8. AskHeld'
  <2> SUFFICES ASSUME NEW b \in Agents, at'[b] \in {"listen", "waiting"},
                      to'[mine'[b]] = Orchestrator, NameIsOwn(b)
               PROVE  WillWake(b)'
    BY DEF AskHeld, NameIsOwn
  <2>1. CASE b = a
    BY <1>1, <2>1 DEF TypeOK, WillWake
  <2>2. CASE b # a
    <3>1. at[b] = at'[b] /\ mine'[b] = mine[b]
      BY <1>1, <1>2, <2>2 DEF TypeOK, Parties
    <3>2. to[mine[b]] = Orchestrator
      BY <1>1, <1>3, <3>1 DEF TypeOK, Asking
    <3>3. WillWake(b)
      BY <3>1, <3>2 DEF AskHeld
    <3>4. QED BY <1>1, <3>1, <3>3 DEF WillWake
  <2>3. QED BY <2>1, <2>2
<1>9. QED BY <1>4, <1>5, <1>6, <1>7, <1>8
\* A run whose ask was posted listens, and then waits.
LEMMA ListenInv == ASSUME IInv, NEW a \in Agents, Listen(a) PROVE IInv'
<1> USE DEF IInv
<1>1. /\ at[a] = "listen" /\ at' = [at EXCEPT ![a] = "waiting"]
      /\ UNCHANGED <<bus, askVars, posting, mine, taken, heard, cancelled, sent, resets>>
  BY DEF Listen, Go
<1>2. TypeOK' /\ IsFiniteSet(pending)'
  <2>1. at' \in [Parties \cup {Reset} -> Places]
    BY <1>1 DEF TypeOK, Places, AtWork
  <2>2. QED BY <1>1, <2>1 DEF TypeOK, bus, askVars
<1>3. PostOK' /\ MineOK' /\ OrchestratorOK'
  BY <1>1 DEF PostOK, MineOK, Asking, OrchestratorOK, TypeOK, Parties, askVars
<1>4. AskHeld'
  BY <1>1 DEF AskHeld, WillWake, NameIsOwn, TypeOK, Parties, askVars
<1>5. QED BY <1>2, <1>3, <1>4

\* A run stops waiting: it was woken, or gives its ask up.
LEMMA StopsWaitingInv ==
  ASSUME IInv, NEW a \in Agents, Woken(a) \/ GiveUp(a)
  PROVE  IInv'
<1> USE DEF IInv
<1>1. /\ at[a] = "waiting" /\ at' = [at EXCEPT ![a] = "running"]
      /\ mine' = [mine EXCEPT ![a] = None]
      /\ UNCHANGED <<bus, asker, to, posting, taken, heard, cancelled, sent, resets>>
  BY DEF Woken, GiveUp, Go, askVars
<1>2. /\ reply' \in [Asks -> Replies] /\ woken' \in [Asks -> BOOLEAN] /\ pending' \subseteq pending
      /\ \A r \in Asks : r \in pending \/ woken[r] => r \in pending' \/ woken'[r]
  <2>1. CASE Woken(a)
    BY <2>1 DEF Woken, TypeOK, askVars
  <2>2. CASE GiveUp(a)
    BY <2>2, SettleType DEF GiveUp, Replies
  <2>3. QED BY <2>1, <2>2
<1>3. TypeOK' /\ IsFiniteSet(pending)'
  <2>1. at' \in [Parties \cup {Reset} -> Places] /\ mine' \in [Agents -> Asks \cup {None}]
    BY <1>1 DEF TypeOK, Places, AtWork
  <2>2. QED BY <1>1, <1>2, <2>1, FewerPending DEF TypeOK, bus
<1>4. /\ \A x \in Parties \ {a} : at'[x] = at[x]
      /\ \A b \in Agents \ {a} : mine'[b] = mine[b]
      /\ at'[a] = "running"
  BY <1>1 DEF TypeOK, Parties
<1>5. PostOK'
  BY <1>1, <1>4 DEF PostOK, Parties
<1>6. MineOK' /\ OrchestratorOK'
  BY <1>1, <1>4 DEF MineOK, Asking, OrchestratorOK, Parties
<1>7. AskHeld'
  BY <1>1, <1>2, <1>4 DEF AskHeld, WillWake, NameIsOwn, MineOK, Asking, Parties
<1>8. QED BY <1>3, <1>5, <1>6, <1>7

\* Somebody replies to an ask it has heard of.
LEMMA ReplyInv ==
  ASSUME IInv, NEW x \in Parties, NEW q \in Asks, Reply(x, q)
  PROVE  IInv'
<1> USE DEF IInv
<1>1. UNCHANGED <<bus, asker, to, at, posting, mine, taken, heard, cancelled, sent, resets>>
  BY DEF Reply
<1>2. /\ reply' \in [Asks -> Replies] /\ woken' \in [Asks -> BOOLEAN] /\ pending' \subseteq pending
      /\ \A r \in Asks : r \in pending \/ woken[r] => r \in pending' \/ woken'[r]
  BY SettleType DEF Reply, Replies
<1>3. TypeOK' /\ IsFiniteSet(pending)'
  BY <1>1, <1>2, FewerPending DEF TypeOK, bus
<1>4. PostOK' /\ MineOK' /\ OrchestratorOK'
  BY <1>1 DEF PostOK, MineOK, Asking, OrchestratorOK
<1>5. AskHeld'
  BY <1>1, <1>2 DEF AskHeld, WillWake, NameIsOwn, MineOK, Asking
<1>6. QED BY <1>3, <1>4, <1>5

\* A message is about to be posted.
LEMMA SendInv ==
  ASSUME IInv, NEW x \in Parties, NEW n \in Names, Send(x, n)
  PROVE  IInv'
<1> USE DEF IInv
<1> DEFINE m == IF x = Orchestrator THEN Steer ELSE Note
<1>1. /\ at[x] = "running" /\ at' = [at EXCEPT ![x] = "post_check"]
      /\ posting' = [posting EXCEPT ![x] = <<m, n>>]
      /\ sent < MaxSent /\ sent' = sent + 1
      /\ UNCHANGED <<bus, askVars, mine, taken, heard, cancelled, resets>>
  BY DEF Send, Go
<1>2. m \in {Note, Steer} /\ m \notin Asks
  OBVIOUS
<1>3. TypeOK' /\ IsFiniteSet(pending)'
  <2>1. at' \in [Parties \cup {Reset} -> Places]
    BY <1>1 DEF TypeOK, Places, AtWork
  <2>2. posting' \in [Parties -> (Asks \cup {Note, Steer, None}) \X (Names \cup {None})]
    <3>1. <<m, n>> \in (Asks \cup {Note, Steer, None}) \X (Names \cup {None})
      BY <1>2
    <3>2. QED BY <1>1, <3>1 DEF TypeOK
  <2>3. sent' \in 0 .. MaxSent
    BY <1>1, LimitsNat DEF TypeOK
  <2>4. QED BY <1>1, <2>1, <2>2, <2>3 DEF TypeOK, bus, askVars
<1>4. /\ \A y \in Parties \ {x} : at'[y] = at[y] /\ posting'[y] = posting[y]
      /\ at'[x] = "post_check" /\ posting'[x] = <<m, n>>
  BY <1>1 DEF TypeOK
<1>5. PostOK'
  BY <1>1, <1>2, <1>4 DEF PostOK, askVars
<1>6. MineOK' /\ OrchestratorOK'
  BY <1>1, <1>2, <1>4 DEF MineOK, Asking, OrchestratorOK, Parties, askVars
<1>7. AskHeld'
  BY <1>1, <1>4 DEF AskHeld, WillWake, NameIsOwn, Parties, askVars
<1>8. QED BY <1>3, <1>5, <1>6, <1>7

\* A message is posted, or its post fails and the ask it was for is withdrawn:
\* it is not one for the supervisor.
LEMMA PostInv ==
  ASSUME IInv, NEW x \in Parties, PostCheck(x) \/ PostPush(x)
  PROVE  IInv'
<1> USE DEF IInv
<1> DEFINE it == posting[x][1]
           Mail == Asks \cup {Note, Steer}
<1>1. /\ at[x] \in {"post_check", "post_push"}
      /\ UNCHANGED <<mailboxes, known, asker, to, reply, woken, mine, taken, heard, cancelled,
                     sent, resets>>
  BY DEF PostCheck, PostPush, bus
<1>2. /\ it \in Mail /\ posting[x][2] \in Names
      /\ it \in Asks => x \in Agents /\ mine[x] = it /\ to[it] \in Names /\ asker[it] = x
  BY <1>1 DEF PostOK, MineOK, Asking
<1>3. \/ Withdraw(x)
      \/ Posted(x) /\ UNCHANGED pending
      \/ at' = [at EXCEPT ![x] = "post_push"] /\ UNCHANGED <<pending, posting>>
  BY DEF PostCheck, PostPush
<1>4. \E next \in {"running", "listen", "post_push"} :
        /\ at' = [at EXCEPT ![x] = next]
        /\ next = "listen" => it \in Asks
        /\ next = "post_push" => UNCHANGED posting
        /\ next # "post_push" => posting' = [posting EXCEPT ![x] = Nothing]
  BY <1>3 DEF Withdraw, Posted
<1>5. UNCHANGED pending \/ (pending' = pending \ {it} /\ at'[x] = "running")
  <2>1. Withdraw(x) => pending' = pending \ {it} /\ at'[x] = "running"
    BY DEF Withdraw, TypeOK
  <2>2. QED BY <1>3, <2>1
<1>6. mail' \in [Boxes -> Seq(Mail)] /\ \A b \in Boxes : Len(mail'[b]) <= MaxMail
  <2> DEFINE b == mailboxes[posting[x][2]]
  <2>1. CASE UNCHANGED mail
    BY <2>1 DEF TypeOK
  <2>2. CASE b # None /\ Len(mail[b]) < MaxMail /\ mail' = [mail EXCEPT ![b] = Append(@, it)]
    <3>1. b \in Boxes /\ mail[b] \in Seq(Mail) /\ Len(mail[b]) \in Nat
      BY <1>2, <2>2, LenProperties DEF TypeOK
    <3>2. Append(mail[b], it) \in Seq(Mail) /\ Len(Append(mail[b], it)) = Len(mail[b]) + 1
      BY <1>2, <3>1, AppendProperties
    <3>3. Len(Append(mail[b], it)) <= MaxMail
      BY <2>2, <3>1, <3>2, LimitsNat
    <3>4. QED BY <2>2, <3>1, <3>2, <3>3 DEF TypeOK
  <2>3. QED BY <2>1, <2>2 DEF PostCheck, PostPush, bus
<1>7. /\ \A y \in Parties \ {x} : at'[y] = at[y] /\ posting'[y] = posting[y]
      /\ at'[x] \in {"running", "listen", "post_push"}
      /\ at'[x] = "listen" => it \in Asks
      /\ at'[x] = "post_push" => posting' = posting
  BY <1>4 DEF TypeOK
<1>8. TypeOK' /\ IsFiniteSet(pending)'
  <2>1. at' \in [Parties \cup {Reset} -> Places]
    BY <1>4 DEF TypeOK, Places, AtWork
  <2>2. posting' \in [Parties -> (Asks \cup {Note, Steer, None}) \X (Names \cup {None})]
    <3>1. Nothing \in (Asks \cup {Note, Steer, None}) \X (Names \cup {None})
      BY DEF Nothing
    <3>2. UNCHANGED posting \/ posting' = [posting EXCEPT ![x] = Nothing]
      BY <1>4
    <3>3. QED BY <3>1, <3>2 DEF TypeOK
  <2>3. QED BY <1>1, <1>5, <1>6, <2>1, <2>2, FewerPending DEF TypeOK
<1>9. PostOK' /\ MineOK' /\ OrchestratorOK'
  <2>1. PostOK'
    BY <1>1, <1>7 DEF PostOK
  <2>2. MineOK'
    BY <1>1, <1>2, <1>7 DEF MineOK, Asking, Parties
  <2>3. OrchestratorOK'
    BY <1>2, <1>7 DEF OrchestratorOK, Parties
  <2>4. QED BY <2>1, <2>2, <2>3
<1>10. AskHeld'
  <2> SUFFICES ASSUME NEW a \in Agents, at'[a] \in {"listen", "waiting"},
                      to[mine[a]] = Orchestrator, NameIsOwn(a)
               PROVE  WillWake(a)'
    BY <1>1 DEF AskHeld, NameIsOwn
  <2>1. a # x
    BY <1>2, <1>7
  <2>2. WillWake(a)
    BY <1>7, <2>1 DEF AskHeld, Parties
  <2>3. mine[a] # it
    BY <1>2, <1>7, <2>1 DEF MineOK, Asking, Parties
  <2>4. QED BY <1>1, <1>5, <2>2, <2>3 DEF WillWake
<1>11. QED BY <1>8, <1>9, <1>10

\* The end of a run takes the asks from and to its name, and none of those that
\* runs of other names made to the supervisor.
LEMMA DropAsksInv == ASSUME IInv, NEW a \in Agents, DropAsks(a) PROVE IInv'
<1> USE DEF IInv
<1> DEFINE qs == AsksOf(NameOf[a])
<1>1. /\ at[a] = "drop_asks" /\ at' = [at EXCEPT ![a] = "tell"]
      /\ taken' = [taken EXCEPT ![a] = qs] /\ pending' = pending \ qs
      /\ UNCHANGED <<bus, asker, to, reply, woken, posting, mine, heard, cancelled, sent, resets>>
  BY DEF DropAsks, Go
<1>2. /\ \A x \in Parties \ {a} : at'[x] = at[x]
      /\ at'[a] = "tell" /\ a # Orchestrator
  BY <1>1 DEF TypeOK, Parties
<1>3. TypeOK' /\ IsFiniteSet(pending)'
  <2>1. at' \in [Parties \cup {Reset} -> Places]
    BY <1>1 DEF TypeOK, Places
  <2>2. taken' \in [Agents \cup {Reset} -> SUBSET Asks]
    BY <1>1 DEF TypeOK, AsksOf
  <2>3. QED BY <1>1, <2>1, <2>2, FewerPending DEF TypeOK, bus
<1>4. PostOK' /\ MineOK' /\ OrchestratorOK'
  BY <1>1, <1>2 DEF PostOK, MineOK, Asking, OrchestratorOK, Parties
<1>5. AskHeld'
  <2> SUFFICES ASSUME NEW b \in Agents, at'[b] \in {"listen", "waiting"},
                      to[mine[b]] = Orchestrator, NameIsOwn(b)
               PROVE  WillWake(b)'
    BY <1>1 DEF AskHeld, NameIsOwn
  <2>1. b # a /\ at[b] \in {"listen", "waiting"}
    BY <1>2 DEF Parties
  <2>2. WillWake(b)
    BY <2>1 DEF AskHeld
  <2>3. mine[b] \notin qs
    BY <2>1, NamesGiven DEF MineOK, Asking, AsksOf, NameIsOwn
  <2>4. QED BY <1>1, <2>2, <2>3 DEF WillWake
<1>6. QED BY <1>3, <1>4, <1>5

\* The end of a run tells those whose asks it took.
LEMMA TellInv == ASSUME IInv, NEW a \in Agents, Tell(a) PROVE IInv'
<1> USE DEF IInv
<1>1. /\ at' = [at EXCEPT ![a] = "gone"]
      /\ UNCHANGED <<bus, pending, asker, to, posting, mine, heard, cancelled, sent, resets>>
  BY DEF Tell, Go
<1>2. /\ \A x \in Parties \ {a} : at'[x] = at[x]
      /\ at'[a] = "gone" /\ a # Orchestrator
  BY <1>1 DEF TypeOK, Parties
<1>3. /\ reply' \in [Asks -> Replies] /\ woken' \in [Asks -> BOOLEAN]
      /\ taken' \in [Agents \cup {Reset} -> SUBSET Asks]
  BY NotifyType DEF Tell, Replies
<1>4. \A q \in Asks : woken[q] => woken'[q]
  BY DEF Tell, NotifyWaiters
<1>5. TypeOK' /\ IsFiniteSet(pending)'
  <2>1. at' \in [Parties \cup {Reset} -> Places]
    BY <1>1 DEF TypeOK, Places
  <2>2. QED BY <1>1, <1>3, <2>1 DEF TypeOK, bus
<1>6. PostOK' /\ MineOK' /\ OrchestratorOK'
  BY <1>1, <1>2 DEF PostOK, MineOK, Asking, OrchestratorOK, Parties
<1>7. AskHeld'
  BY <1>1, <1>2, <1>4 DEF AskHeld, WillWake, NameIsOwn, MineOK, Asking, Parties
<1>8. QED BY <1>5, <1>6, <1>7

\* A session boundary cancels every run that waits before it takes the asks.
LEMMA TakeAllInv == ASSUME IInv, TakeAll PROVE IInv'
<1> USE DEF IInv
<1>1. /\ at' = [at EXCEPT ![Reset] = "tell"]
      /\ resets < MaxResets /\ resets' = resets + 1
      /\ cancelled' = cancelled \cup {a \in Agents : at[a] \notin {"new", "gone"}}
      /\ taken' = [taken EXCEPT ![Reset] = pending] /\ pending' = {}
      /\ UNCHANGED <<bus, asker, to, reply, woken, posting, mine, heard, sent>>
  BY DEF TakeAll, Go
<1>2. \A x \in Parties : at'[x] = at[x]
  BY <1>1 DEF TypeOK, Parties
<1>3. TypeOK' /\ IsFiniteSet(pending)'
  <2>1. at' \in [Parties \cup {Reset} -> Places] /\ taken' \in [Agents \cup {Reset} -> SUBSET Asks]
    BY <1>1 DEF TypeOK, Places
  <2>2. resets' \in 0 .. MaxResets
    BY <1>1, LimitsNat DEF TypeOK
  <2>3. QED BY <1>1, <2>1, <2>2, FewerPending DEF TypeOK, bus
<1>4. PostOK' /\ MineOK' /\ OrchestratorOK'
  BY <1>1, <1>2 DEF PostOK, MineOK, Asking, OrchestratorOK, Parties
<1>5. AskHeld'
  BY <1>1, <1>2 DEF AskHeld, WillWake, Parties
<1>6. QED BY <1>3, <1>4, <1>5

\* The boundary tells the askers, then forgets mailboxes and targets.
LEMMA BoundaryInv ==
  ASSUME IInv, TellAll \/ ClearMailboxes \/ ForgetTargets
  PROVE  IInv'
<1> USE DEF IInv
<1>1. /\ \E next \in {"clear", "forget", "running"} : at' = [at EXCEPT ![Reset] = next]
      /\ UNCHANGED <<mail, pending, asker, to, posting, mine, heard, cancelled, sent, resets>>
  BY DEF TellAll, ClearMailboxes, ForgetTargets, Go, bus, askVars
<1>2. \A x \in Parties : at'[x] = at[x]
  BY <1>1 DEF TypeOK, Parties
<1>3. /\ reply' \in [Asks -> Replies] /\ woken' \in [Asks -> BOOLEAN]
      /\ taken' \in [Agents \cup {Reset} -> SUBSET Asks]
      /\ \A q \in Asks : woken[q] => woken'[q]
  <2>1. CASE TellAll
    <3>1. NotifyWaiters(Reset, "session replaced") /\ "session replaced" \in Replies
      BY <2>1 DEF TellAll, Replies
    <3>2. QED BY <3>1, NotifyType DEF NotifyWaiters
  <2>2. CASE ClearMailboxes \/ ForgetTargets
    BY <2>2 DEF ClearMailboxes, ForgetTargets, TypeOK, askVars
  <2>3. QED BY <2>1, <2>2
<1>4. TypeOK' /\ IsFiniteSet(pending)'
  <2>1. at' \in [Parties \cup {Reset} -> Places]
    BY <1>1 DEF TypeOK, Places, AtWork
  <2>2. mailboxes' \in [Names -> Boxes \cup {None}] /\ known' \subseteq Names
    BY DEF TypeOK, TellAll, ClearMailboxes, ForgetTargets, bus
  <2>3. QED BY <1>1, <1>3, <2>1, <2>2 DEF TypeOK
<1>5. PostOK' /\ MineOK' /\ OrchestratorOK'
  BY <1>1, <1>2 DEF PostOK, MineOK, Asking, OrchestratorOK, Parties
<1>6. AskHeld'
  BY <1>1, <1>2, <1>3 DEF AskHeld, WillWake, NameIsOwn, MineOK, Asking, Parties
<1>7. QED BY <1>4, <1>5, <1>6

\* Every step keeps the invariant.
LEMMA StepInv == IInv /\ [Next]_vars => IInv'
<1> SUFFICES ASSUME IInv, [Next]_vars PROVE IInv'
  OBVIOUS
<1>1. ASSUME NEW a \in Agents, RunStep(a) PROVE IInv'
  BY <1>1, LifeInv, DropAsksInv, TellInv, ReceiveInv, AskInvStep, ListenInv, StopsWaitingInv
  DEF RunStep
<1>2. ASSUME NEW x \in Parties, MessageStep(x) PROVE IInv'
  BY <1>2, SendInv, PostInv, ReplyInv DEF MessageStep
<1>3. CASE ResetStep
  BY <1>3, TakeAllInv, BoundaryInv DEF ResetStep
<1>4. CASE UNCHANGED vars
  BY <1>4 DEF IInv, TypeOK, PostOK, MineOK, Asking, OrchestratorOK, AskHeld, WillWake, NameIsOwn,
     vars, bus, askVars
<1>5. QED BY <1>1, <1>2, <1>3, <1>4 DEF Next

\* The invariant holds in every reachable state.
LEMMA Inductive == Spec => []IInv
  BY InitInv, StepInv, PTL DEF Spec

\* Types and limits: no mailbox and no list of pending asks outgrows its bound,
\* although the bounds are looked at under other locks than they are used.
THEOREM TypeCorrect == Spec => []TypeOK
<1>1. IInv => TypeOK
  BY DEF IInv
<1>2. QED BY <1>1, Inductive, PTL

\* No run whose name is its own stays blocked on an ask to its supervisor that
\* nobody holds: it is pending, or the run was woken or cancelled.
THEOREM SupervisorAnswers == Spec => []SupervisorAskNotLost
<1>1. IInv => SupervisorAskNotLost
  BY DEF IInv, AskHeld, SupervisorAskNotLost
<1>2. QED BY <1>1, Inductive, PTL
=============================================================================
