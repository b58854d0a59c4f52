---------------------------- MODULE ToolCallProofs ----------------------------
(***************************************************************************)
(* Theorems about the three places a tool call passes: the cache of        *)
(* outputs (OutputCache), the transcript of the turn (Transcript) and the  *)
(* gate of approvals (ApprovalGate).  They share no variable and are       *)
(* joined here for their proofs only.                                      *)
(*                                                                         *)
(* The cache, for any agents, workspaces, paths, sizes and limits: it      *)
(* keeps its accounts and limits whatever is stored, wiped or digested,    *)
(* and what it holds of the current epoch is right.  The transcript, for   *)
(* any batches and commands: the session file has what the conversation    *)
(* has, a result that was recorded is not replaced by the note that it     *)
(* was lost, and a request pairs every call with its result.  The gate,    *)
(* for any requests: its types, and that no approval given after an abort  *)
(* reaches the request it met.                                             *)
(***************************************************************************)
EXTENDS ApprovalGate, OutputCache, Transcript, TLAPS, WellFoundedInduction, NaturalsInduction,
        SequenceTheorems, FiniteSetTheorems

-----------------------------------------------------------------------------
(* Induction over data, with a set in the place of the predicate. *)

(* A set of numbers with 0 and the successor of each of its members has them all. *)
LEMMA NatSetInduction ==
  ASSUME NEW P, 0 \in P, \A n \in Nat : n \in P => n + 1 \in P
  PROVE  Nat \subseteq P
<1> DEFINE T == Nat \ P
<1>1. SUFFICES ASSUME T # {} PROVE FALSE
  OBVIOUS
<1>2. PICK n \in T : \A m \in T : <<m, n>> \notin OpToRel(<, Nat)
  <2>1. T \subseteq Nat
    OBVIOUS
  <2>2. QED BY <1>1, <2>1, WFMin, NatLessThanWellFounded, Zenon
<1>3. n \in Nat /\ n \notin P /\ \A m \in T : ~(m < n)
  BY <1>2 DEF OpToRel
<1>4. n # 0 /\ n - 1 \in Nat /\ (n - 1) + 1 = n /\ n - 1 < n
  BY <1>3
<1>5. n - 1 \in P
  BY <1>3, <1>4
<1>6. QED BY <1>3, <1>4, <1>5

(* A non-empty sequence is its front and its last member. *)
LEMMA FrontAndLast ==
  ASSUME NEW S, NEW s \in Seq(S), s # <<>>
  PROVE  /\ Front(s) \in Seq(S) /\ Last(s) \in S /\ s = Append(Front(s), Last(s))
         /\ Len(Front(s)) = Len(s) - 1 /\ Last(s) = s[Len(s)]
         /\ \A i \in 1 .. Len(s) - 1 : Front(s)[i] = s[i]
<1>1. Len(s) \in Nat /\ Len(s) # 0 /\ Len(s) \in DOMAIN s
  OBVIOUS
<1>2. Front(s) \in Seq(S) /\ Len(Front(s)) = Len(s) - 1 /\ \A i \in 1 .. Len(s) - 1 : Front(s)[i] = s[i]
  <2>1. \A i \in 1 .. Len(s) - 1 : s[i] \in S
    OBVIOUS
  <2>2. 1 \in Int /\ Len(s) - 1 \in Int /\ 0 \leq Len(s) - 1
    BY <1>1
  <2> DEFINE q == SubSeq(s, 1, Len(s) - 1)
  <2>3. /\ q \in Seq(S) /\ Len(q) = IF 1 \leq Len(s) - 1 THEN Len(s) - 1 - 1 + 1 ELSE 0
        /\ \A i \in 1 .. Len(s) - 1 - 1 + 1 : q[i] = s[1 + i - 1]
    BY <2>1, <2>2, SubSeqProperties
  <2> HIDE DEF q
  <2>4. Len(s) - 1 - 1 + 1 = Len(s) - 1 /\ \A i \in 1 .. Len(s) - 1 : 1 + i - 1 = i
    BY <2>2
  <2>5. \A i \in 1 .. Len(s) - 1 : q[i] = s[i]
    BY <2>3, <2>4
  <2>6. Len(q) = Len(s) - 1
    <3>1. CASE 1 \leq Len(s) - 1
      BY <2>3, <2>4, <3>1
    <3>2. CASE ~(1 \leq Len(s) - 1)
      <4>1. Len(s) - 1 = 0
        <5>1. ASSUME NEW n \in Nat, n # 0, ~(1 \leq n - 1) PROVE n - 1 = 0
          BY <5>1
        <5>2. QED BY <1>1, <3>2, <5>1
      <4>2. QED BY <2>3, <3>2, <4>1
    <3>3. QED BY <3>1, <3>2
  <2>7. QED BY <2>3, <2>5, <2>6 DEF q, Front
<1>3. Last(s) = s[Len(s)] /\ Last(s) \in S
  BY <1>1 DEF Last
<1>4. s = Append(Front(s), Last(s))
  BY <1>1, <1>2, <1>3
<1>5. QED BY <1>2, <1>3, <1>4

(* A set of sequences with the empty one and every extension of each of its        *)
(* members has them all.                                                           *)
LEMMA SeqInduction ==
  ASSUME NEW S, NEW P, <<>> \in P, \A s \in Seq(S), x \in S : s \in P => Append(s, x) \in P
  PROVE  Seq(S) \subseteq P
<1> DEFINE Q == {n \in Nat : \A s \in Seq(S) : Len(s) = n => s \in P}
<1>1. 0 \in Q
  <2>1. ASSUME NEW s \in Seq(S), Len(s) = 0 PROVE s \in P
    <3>1. s = <<>>
      BY <2>1
    <3>2. QED BY <3>1
  <2>2. QED BY <2>1
<1>2. ASSUME NEW n \in Nat, n \in Q PROVE n + 1 \in Q
  <2>1. ASSUME NEW s \in Seq(S), Len(s) = n + 1 PROVE s \in P
    <3>1. s # <<>>
      BY <2>1
    <3>2. Front(s) \in Seq(S) /\ Last(s) \in S /\ s = Append(Front(s), Last(s)) /\ Len(Front(s)) = n
      BY <2>1, <3>1, FrontAndLast
    <3>3. Front(s) \in P
      BY <1>2, <3>2
    <3>4. QED BY <3>2, <3>3
  <2>2. QED BY <2>1
<1> HIDE DEF Q
<1>3. Nat \subseteq Q
  BY <1>1, <1>2, NatSetInduction, Zenon
<1>4. QED BY <1>3 DEF Q

(* A set of numbers has a least one. *)
LEMMA Least ==
  ASSUME NEW S, S \subseteq Nat, S # {}
  PROVE  \E n \in S : \A m \in S : ~(m < n)
<1>1. PICK n \in S : \A m \in S : <<m, n>> \notin OpToRel(<, Nat)
  BY WFMin, NatLessThanWellFounded, Zenon
<1>2. ASSUME NEW m \in S PROVE ~(m < n)
  BY <1>1 DEF OpToRel
<1>3. QED BY <1>2

Follows(f, N, S, b, g) ==
    /\ f \in [0 .. N -> S]
    /\ f[0] = b
    /\ \A i \in 1 .. N : f[i] = g[<<f[i - 1], i>>]

(* A function on 0 .. N is given by its value at 0 and by its value at each next   *)
(* argument as a function of the one before.                                       *)
LEMMA Recursion ==
  ASSUME NEW N \in Nat, NEW S, NEW b \in S, NEW g \in [S \X (1 .. N) -> S]
  PROVE  \E f : Follows(f, N, S, b, g)
<1> DEFINE Ok(n) == \E f \in [0 .. n -> S] : f[0] = b /\ \A i \in 1 .. n : f[i] = g[<<f[i - 1], i>>]
           P == {n \in Nat : n \leq N => Ok(n)}
<1>1. Ok(0)
  <2>1. [i \in 0 .. 0 |-> b] \in [0 .. 0 -> S]
    OBVIOUS
  <2>2. [i \in 0 .. 0 |-> b][0] = b /\ \A i \in 1 .. 0 : FALSE
    OBVIOUS
  <2>3. QED BY <2>1, <2>2
<1>2. ASSUME NEW n \in Nat, n < N, Ok(n) PROVE Ok(n + 1)
  <2>1. PICK f \in [0 .. n -> S] : f[0] = b /\ \A i \in 1 .. n : f[i] = g[<<f[i - 1], i>>]
    BY <1>2
  <2> DEFINE v == g[<<f[n], n + 1>>]
             h == [i \in 0 .. n + 1 |-> IF i \leq n THEN f[i] ELSE v]
  <2>2. v \in S
    <3>1. f[n] \in S /\ n + 1 \in 1 .. N
      BY <1>2, <2>1
    <3>2. <<f[n], n + 1>> \in S \X (1 .. N)
      BY <3>1
    <3>3. QED BY <3>2
  <2> HIDE DEF v
  <2>3. h \in [0 .. n + 1 -> S]
    BY <2>2
  <2>4. h[0] = b
    BY <2>1
  <2>5. ASSUME NEW i \in 1 .. n PROVE h[i] = g[<<h[i - 1], i>>]
    <3>1. i - 1 \in 0 .. n /\ i \in 0 .. n
      OBVIOUS
    <3>2. h[i] = f[i] /\ h[i - 1] = f[i - 1]
      BY <3>1
    <3>3. QED BY <2>1, <3>2
  <2>6. h[n + 1] = g[<<h[n], n + 1>>]
    <3>1. h[n + 1] = v /\ h[n] = f[n]
      OBVIOUS
    <3>2. QED BY <3>1 DEF v
  <2> HIDE DEF h
  <2>7. ASSUME NEW i \in 1 .. n + 1 PROVE h[i] = g[<<h[i - 1], i>>]
    <3>1. CASE i = n + 1
      <4>1. i - 1 = n
        BY <3>1
      <4>2. QED BY <3>1, <4>1, <2>6
    <3>2. CASE i # n + 1
      BY <3>2, <2>5
    <3>3. QED BY <3>1, <3>2
  <2>8. QED BY <2>3, <2>4, <2>7
<1> HIDE DEF Ok
<1>3. 0 \in P /\ \A n \in Nat : n \in P => n + 1 \in P
  <2>1. ASSUME NEW n \in Nat, n \in P PROVE n + 1 \in P
    <3>1. n + 1 \leq N => n < N /\ Ok(n)
      BY <2>1
    <3>2. QED BY <1>2, <3>1
  <2>2. QED BY <1>1, <2>1
<1> HIDE DEF P
<1>4. Nat \subseteq P
  BY <1>3, NatSetInduction, Zenon
<1>5. Ok(N)
  BY <1>4 DEF P
<1>6. QED BY <1>5 DEF Ok, Follows

-----------------------------------------------------------------------------
(* After, the fold over a function. *)

(* A step leads from S to S. *)
Stays(step, S, T) == \A x \in S, y \in T : step[<<x, y>>] \in S

(* The results after each number of items. *)
IsAfter(f, items, base, step, S) ==
    /\ f \in [0 .. Len(items) -> S]
    /\ f[0] = base
    /\ \A i \in 1 .. Len(items) : f[i] = step[<<f[i - 1], items[i]>>]
    /\ After(items, base, step) = f[Len(items)]

(* They are what the recursion says they are, in any set that the steps stay in. *)
LEMMA AfterIs ==
  ASSUME NEW S, NEW T, NEW items \in Seq(T), NEW base \in S, NEW step,
         Stays(step, S, T)
  PROVE  \E f : IsAfter(f, items, base, step, S)
<1> DEFINE N == Len(items)
           g == [p \in S \X (1 .. N) |-> step[<<p[1], items[p[2]]>>]]
           F(f) == [i \in 0 .. N |-> IF i = 0 THEN base ELSE step[<<f[i - 1], items[i]>>]]
<1>1. N \in Nat /\ \A i \in 1 .. N : items[i] \in T
  OBVIOUS
<1> HIDE DEF N
<1>2. ASSUME NEW x \in S, NEW i \in 1 .. N PROVE g[<<x, i>>] = step[<<x, items[i]>>]
  OBVIOUS
<1>3. g \in [S \X (1 .. N) -> S]
  <2>1. ASSUME NEW p \in S \X (1 .. N) PROVE step[<<p[1], items[p[2]]>>] \in S
    <3>1. p[1] \in S /\ p[2] \in 1 .. N
      OBVIOUS
    <3>2. items[p[2]] \in T
      BY <1>1, <3>1
    <3>3. QED BY <3>1, <3>2 DEF Stays
  <2>2. QED BY <2>1
<1> HIDE DEF g
<1>4. PICK f : f \in [0 .. N -> S] /\ f[0] = base /\ \A i \in 1 .. N : f[i] = g[<<f[i - 1], i>>]
  <2>1. \E f : Follows(f, N, S, base, g)
    BY <1>1, <1>3, Recursion
  <2>2. QED BY <2>1 DEF Follows
<1>5. ASSUME NEW i \in 1 .. N PROVE f[i] = step[<<f[i - 1], items[i]>>]
  <2>1. f[i - 1] \in S
    <3>1. i - 1 \in 0 .. N
      BY <1>1
    <3>2. QED BY <3>1, <1>4
  <2>2. QED BY <1>2, <1>4, <2>1
<1>6. f = F(f)
  <2>1. ASSUME NEW i \in 0 .. N PROVE f[i] = IF i = 0 THEN base ELSE step[<<f[i - 1], items[i]>>]
    <3>1. CASE i = 0
      BY <3>1, <1>4
    <3>2. CASE i # 0
      <4>1. i \in 1 .. N
        BY <1>1, <3>2
      <4>2. QED BY <1>5, <3>2, <4>1
    <3>3. QED BY <3>1, <3>2
  <2>2. f = [i \in 0 .. N |-> f[i]]
    BY <1>4
  <2>3. QED BY <2>1, <2>2
<1> DEFINE h == CHOOSE h : h = F(h)
<1>7. h = F(h)
  BY <1>6
<1>8. h[N] = After(items, base, step)
  BY DEF After, N
<1> HIDE DEF h
<1>9. h[0] = base
  BY <1>1, <1>7
<1>10. ASSUME NEW i \in 1 .. N PROVE h[i] = step[<<h[i - 1], items[i]>>]
  <2>1. i \in 0 .. N /\ i # 0
    BY <1>1
  <2>2. h[i] = IF i = 0 THEN base ELSE step[<<h[i - 1], items[i]>>]
    BY <1>7, <2>1
  <2>3. QED BY <2>1, <2>2
<1> DEFINE P == {n \in Nat : n \leq N => h[n] = f[n]}
<1>11. 0 \in P /\ \A n \in Nat : n \in P => n + 1 \in P
  <2>1. ASSUME NEW n \in Nat, n \in P, n + 1 \leq N PROVE h[n + 1] = f[n + 1]
    <3>1. n + 1 \in 1 .. N /\ (n + 1) - 1 = n /\ h[n] = f[n]
      BY <1>1, <2>1
    <3>2. QED BY <1>5, <1>10, <3>1
  <2>2. QED BY <1>4, <1>9, <2>1
<1>12. Nat \subseteq P
  <2> HIDE DEF P
  <2>1. QED BY <1>11, NatSetInduction, Zenon
<1>13. h[N] = f[N]
  BY <1>1, <1>12
<1>14. QED BY <1>4, <1>5, <1>8, <1>13 DEF N, IsAfter

(* What the steps keep holds at the end. *)
LEMMA AfterKeeps ==
  ASSUME NEW S, NEW T, NEW items \in Seq(T), NEW base \in S, NEW step,
         Stays(step, S, T)
  PROVE  After(items, base, step) \in S
<1>1. PICK f : IsAfter(f, items, base, step, S)
  BY AfterIs
<1>2. Len(items) \in 0 .. Len(items)
  OBVIOUS
<1>3. QED BY <1>1, <1>2 DEF IsAfter

(* No items, no step. *)
LEMMA AfterEmpty ==
  ASSUME NEW base, NEW step
  PROVE  After(<<>>, base, step) = base
<1> DEFINE F(f) == [i \in 0 .. 0 |-> IF i = 0 THEN base ELSE step[<<f[i - 1], <<>>[i]>>]]
           h == CHOOSE h : h = F(h)
<1>1. [i \in 0 .. 0 |-> base] = F([i \in 0 .. 0 |-> base])
  <2>1. \A i \in 0 .. 0 : i = 0
    OBVIOUS
  <2>2. QED BY <2>1
<1>2. h = F(h)
  BY <1>1
<1>3. Len(<<>>) = 0
  OBVIOUS
<1>4. After(<<>>, base, step) = h[0]
  BY <1>3 DEF After
<1> HIDE DEF h
<1>5. QED BY <1>2, <1>4

(* One item more is one step more. *)
StepsOn(s, x, base, step) == After(Append(s, x), base, step) = step[<<After(s, base, step), x>>]

LEMMA AfterAppend ==
  ASSUME NEW S, NEW T, NEW s \in Seq(T), NEW x \in T, NEW base \in S, NEW step,
         Stays(step, S, T)
  PROVE  StepsOn(s, x, base, step)
<1> DEFINE N == Len(s)  t == Append(s, x)
<1>1. t \in Seq(T) /\ Len(t) = N + 1 /\ t[N + 1] = x /\ N \in Nat /\ \A i \in 1 .. N : t[i] = s[i]
  OBVIOUS
<1> HIDE DEF t
<1>2. PICK p : IsAfter(p, s, base, step, S)
  BY AfterIs
<1>3. PICK q : IsAfter(q, t, base, step, S)
  BY <1>1, AfterIs
<1>4. /\ p[0] = base /\ After(s, base, step) = p[N]
      /\ \A i \in 1 .. N : p[i] = step[<<p[i - 1], s[i]>>]
  BY <1>2 DEF IsAfter
<1>5. /\ q[0] = base /\ After(t, base, step) = q[N + 1]
      /\ \A i \in 1 .. N + 1 : q[i] = step[<<q[i - 1], t[i]>>]
  BY <1>1, <1>3 DEF IsAfter
<1> DEFINE P == {n \in Nat : n \leq N => p[n] = q[n]}
<1>6. 0 \in P /\ \A n \in Nat : n \in P => n + 1 \in P
  <2>1. ASSUME NEW n \in Nat, n \in P, n + 1 \leq N PROVE p[n + 1] = q[n + 1]
    <3>1. n + 1 \in 1 .. N /\ n + 1 \in 1 .. N + 1 /\ (n + 1) - 1 = n /\ p[n] = q[n] /\ t[n + 1] = s[n + 1]
      BY <1>1, <2>1
    <3>2. p[n + 1] = step[<<p[n], s[n + 1]>>]
      BY <1>4, <3>1
    <3>3. q[n + 1] = step[<<q[n], t[n + 1]>>]
      BY <1>5, <3>1
    <3>4. QED BY <3>1, <3>2, <3>3
  <2>2. QED BY <1>4, <1>5, <2>1
<1>7. p[N] = q[N]
  <2>1. Nat \subseteq P
    <3> HIDE DEF P
    <3>1. QED BY <1>6, NatSetInduction, Zenon
  <2>2. QED BY <1>1, <2>1
<1>8. q[N + 1] = step[<<q[N], x>>]
  <2>1. N + 1 \in 1 .. N + 1 /\ (N + 1) - 1 = N
    BY <1>1
  <2>2. QED BY <1>1, <1>5, <2>1
<1>9. QED BY <1>4, <1>5, <1>7, <1>8 DEF t, StepsOn

-----------------------------------------------------------------------------
(* Keys in a sequence, and the bytes of their entries. *)

(* One key more. *)
LEMMA Appended ==
  ASSUME NEW T, NEW s \in Seq(T), NEW x \in T
  PROVE  /\ Append(s, x) \in Seq(T) /\ ToSet(Append(s, x)) = ToSet(s) \cup {x}
         /\ IsInjective(Append(s, x)) <=> IsInjective(s) /\ x \notin ToSet(s)
<1> DEFINE N == Len(s)  t == Append(s, x)
<1>1. /\ t \in Seq(T) /\ Len(t) = N + 1 /\ t[N + 1] = x /\ N \in Nat /\ \A i \in 1 .. N : t[i] = s[i]
      /\ DOMAIN t = 1 .. N + 1 /\ DOMAIN s = 1 .. N
  OBVIOUS
<1> HIDE DEF t, N
<1>2. 1 .. N + 1 = (1 .. N) \cup {N + 1} /\ N + 1 \notin 1 .. N
  BY <1>1
<1>3. ToSet(t) = ToSet(s) \cup {x}
  BY <1>1, <1>2 DEF ToSet
<1>4. IsInjective(t) <=> IsInjective(s) /\ x \notin ToSet(s)
  <2>1. ASSUME IsInjective(t) PROVE IsInjective(s) /\ x \notin ToSet(s)
    BY <1>1, <1>2, <2>1 DEF ToSet, IsInjective
  <2>2. ASSUME IsInjective(s), x \notin ToSet(s) PROVE IsInjective(t)
    BY <1>1, <1>2, <2>2 DEF ToSet, IsInjective
  <2>3. QED BY <2>1, <2>2
<1>5. QED BY <1>1, <1>3, <1>4 DEF t

(* A sequence is one of the keys that are in it. *)
LEMMA OfItsKeys ==
  ASSUME NEW T, NEW s \in Seq(T), NEW U, ToSet(s) \subseteq U
  PROVE  s \in Seq(U)
<1>1. \A i \in 1 .. Len(s) : s[i] \in U
  BY DEF ToSet
<1>2. s = [i \in 1 .. Len(s) |-> s[i]] /\ Len(s) \in Nat
  OBVIOUS
<1>3. QED BY <1>1, <1>2

(* Entries of keys in T have a size. *)
Sized(c, T) == T \subseteq Keys /\ \A k \in T : c.map[k].out.size \in Nat

(* The bytes of one entry more. *)
LEMMA SizeOfAppend ==
  ASSUME NEW c, NEW T, Sized(c, T), NEW s \in Seq(T), NEW x \in T
  PROVE  /\ SizeOf(c, s) \in Nat
         /\ SizeOf(c, Append(s, x)) = SizeOf(c, s) + c.map[x].out.size
<1> DEFINE step == [p \in Int \X Keys |-> p[1] + c.map[p[2]].out.size]
<1>1. \A n \in Nat, k \in T : step[<<n, k>>] = n + c.map[k].out.size
  BY DEF Sized
<1>2. Stays(step, Nat, T)
  <2>1. ASSUME NEW n \in Nat, NEW k \in T PROVE step[<<n, k>>] \in Nat
    <3>1. step[<<n, k>>] = n + c.map[k].out.size /\ c.map[k].out.size \in Nat
      BY <1>1 DEF Sized
    <3> HIDE DEF step
    <3>2. QED BY <3>1
  <2>2. QED BY <2>1 DEF Stays
<1>3. SizeOf(c, s) = After(s, 0, step) /\ SizeOf(c, Append(s, x)) = After(Append(s, x), 0, step)
  BY DEF SizeOf
<1> HIDE DEF step
<1>4. 0 \in Nat
  OBVIOUS
<1>5. After(s, 0, step) \in Nat
  BY <1>2, <1>4, AfterKeeps
<1>6. After(Append(s, x), 0, step) = step[<<After(s, 0, step), x>>]
  <2>1. StepsOn(s, x, 0, step)
    BY <1>2, <1>4, AfterAppend
  <2>2. QED BY <2>1 DEF StepsOn
<1>7. QED BY <1>1, <1>3, <1>5, <1>6

(* Nothing has no bytes. *)
LEMMA SizeOfEmpty == ASSUME NEW c PROVE SizeOf(c, <<>>) = 0
  BY AfterEmpty DEF SizeOf

(* Whatever keys there are, their bytes are a number. *)
LEMMA SizeOfType ==
  ASSUME NEW c, NEW T, Sized(c, T), NEW s \in Seq(T)
  PROVE  SizeOf(c, s) \in Nat
<1>1. CASE s = <<>>
  BY <1>1, SizeOfEmpty
<1>2. CASE s # <<>>
  <2>1. s[1] \in T
    BY <1>2
  <2>2. QED BY <2>1, SizeOfAppend
<1>3. QED BY <1>1, <1>2

(* The bytes of two sequences. *)
LEMMA SizeOfConcat ==
  ASSUME NEW c, NEW T, Sized(c, T), NEW s \in Seq(T), NEW t \in Seq(T)
  PROVE  SizeOf(c, s \o t) = SizeOf(c, s) + SizeOf(c, t)
<1> DEFINE P == {q \in Seq(T) : SizeOf(c, s \o q) = SizeOf(c, s) + SizeOf(c, q)}
<1>1. <<>> \in P
  <2>1. s \o <<>> = s /\ <<>> \in Seq(T) /\ SizeOf(c, s) \in Nat
    BY SizeOfType
  <2>2. QED BY <2>1, SizeOfEmpty
<1>2. ASSUME NEW q \in Seq(T), NEW x \in T, q \in P PROVE Append(q, x) \in P
  <2>1. /\ s \o q \in Seq(T) /\ Append(q, x) \in Seq(T)
        /\ s \o Append(q, x) = Append(s \o q, x)
    OBVIOUS
  <2>2. SizeOf(c, Append(s \o q, x)) = SizeOf(c, s \o q) + c.map[x].out.size
    BY <2>1, SizeOfAppend
  <2>3. SizeOf(c, Append(q, x)) = SizeOf(c, q) + c.map[x].out.size
    BY SizeOfAppend
  <2>4. SizeOf(c, s) \in Nat /\ SizeOf(c, q) \in Nat /\ c.map[x].out.size \in Nat
    BY SizeOfType DEF Sized
  <2>5. SizeOf(c, s \o q) = SizeOf(c, s) + SizeOf(c, q)
    BY <1>2
  <2> HIDE DEF P
  <2>6. \A a, b, d \in Nat : (a + b) + d = a + (b + d)
    OBVIOUS
  <2>7. SizeOf(c, s \o Append(q, x)) = SizeOf(c, s) + SizeOf(c, Append(q, x))
    BY <2>1, <2>2, <2>3, <2>4, <2>5, <2>6
  <2>8. QED BY <2>1, <2>7 DEF P
<1> HIDE DEF P
<1>3. Seq(T) \subseteq P
  BY <1>1, <1>2, SeqInduction
<1>4. QED BY <1>3 DEF P

(* Only the entries' sizes count. *)
LEMMA SizeOfSame ==
  ASSUME NEW c, NEW d, NEW T, Sized(c, T), Sized(d, T),
         \A k \in T : c.map[k].out.size = d.map[k].out.size, NEW s \in Seq(T)
  PROVE  SizeOf(c, s) = SizeOf(d, s)
<1> DEFINE P == {q \in Seq(T) : SizeOf(c, q) = SizeOf(d, q)}
<1>1. <<>> \in P
  BY SizeOfEmpty
<1>2. ASSUME NEW q \in Seq(T), NEW x \in T, q \in P PROVE Append(q, x) \in P
  <2>1. SizeOf(c, Append(q, x)) = SizeOf(c, q) + c.map[x].out.size
    BY SizeOfAppend
  <2>2. SizeOf(d, Append(q, x)) = SizeOf(d, q) + d.map[x].out.size
    BY SizeOfAppend
  <2>3. Append(q, x) \in Seq(T)
    OBVIOUS
  <2>4. QED BY <1>2, <2>1, <2>2, <2>3
<1> HIDE DEF P
<1>3. Seq(T) \subseteq P
  BY <1>1, <1>2, SeqInduction
<1>4. QED BY <1>3 DEF P

(* retain goes through the order key by key. *)
LEMMA RetainedAppend ==
  ASSUME NEW s \in Seq(Keys), NEW x \in Keys, NEW k
  PROVE  /\ Retained(s, k) \in Seq(Keys)
         /\ Retained(Append(s, x), k) = IF x = k THEN Retained(s, k) ELSE Append(Retained(s, k), x)
<1> DEFINE step == [p \in Seq(Keys) \X Keys |-> IF p[2] = k THEN p[1] ELSE Append(p[1], p[2])]
<1>1. \A q \in Seq(Keys), o \in Keys : step[<<q, o>>] = IF o = k THEN q ELSE Append(q, o)
  OBVIOUS
<1>2. Stays(step, Seq(Keys), Keys)
  <2>1. ASSUME NEW q \in Seq(Keys), NEW o \in Keys PROVE step[<<q, o>>] \in Seq(Keys)
    <3>1. step[<<q, o>>] = IF o = k THEN q ELSE Append(q, o)
      BY <1>1
    <3>2. Append(q, o) \in Seq(Keys)
      OBVIOUS
    <3> HIDE DEF step
    <3>3. QED BY <3>1, <3>2
  <2>2. QED BY <2>1 DEF Stays
<1>3. Retained(s, k) = After(s, <<>>, step) /\ Retained(Append(s, x), k) = After(Append(s, x), <<>>, step)
  BY DEF Retained
<1> HIDE DEF step
<1>4. <<>> \in Seq(Keys)
  OBVIOUS
<1>5. After(s, <<>>, step) \in Seq(Keys)
  BY <1>2, <1>4, AfterKeeps
<1>6. After(Append(s, x), <<>>, step) = step[<<After(s, <<>>, step), x>>]
  <2>1. StepsOn(s, x, <<>>, step)
    BY <1>2, <1>4, AfterAppend
  <2>2. QED BY <2>1 DEF StepsOn
<1>7. QED BY <1>1, <1>3, <1>5, <1>6

(* What retain leaves of an order that has each key once. *)
Leaves(c, T, k, s) ==
    LET r == Retained(s, k)
    IN /\ r \in Seq(T) /\ IsInjective(r) /\ ToSet(r) = ToSet(s) \ {k} /\ Len(r) \leq Len(s)
       /\ SizeOf(c, r) = IF k \in ToSet(s) THEN SizeOf(c, s) - c.map[k].out.size ELSE SizeOf(c, s)

(* It leaves the other keys, each once, and their bytes. *)
LEMMA RetainedLeaves ==
  ASSUME NEW c, NEW T, Sized(c, T), NEW k \in Keys, NEW s \in Seq(T), IsInjective(s)
  PROVE  Leaves(c, T, k, s)
<1> DEFINE P == {q \in Seq(T) : IsInjective(q) => Leaves(c, T, k, q)}
<1>1. <<>> \in P
  <2>1. Retained(<<>>, k) = <<>>
    BY AfterEmpty DEF Retained
  <2>2. <<>> \in Seq(T) /\ ToSet(<<>>) = {} /\ Len(<<>>) = 0
    BY DEF ToSet
  <2>3. Leaves(c, T, k, <<>>)
    <3>1. IsInjective(<<>>)
      BY DEF IsInjective
    <3> HIDE DEF P
    <3>2. k \notin {} /\ {} \ {k} = {} /\ 0 \leq 0
      OBVIOUS
    <3>3. /\ <<>> \in Seq(T) /\ ToSet(<<>>) = ToSet(<<>>) \ {k} /\ Len(<<>>) \leq Len(<<>>)
          /\ k \notin ToSet(<<>>)
      BY <2>2, <3>2
    <3>4. QED BY <2>1, <3>1, <3>3, Zenon DEF Leaves
  <2>4. QED BY <2>2, <2>3
<1>2. ASSUME NEW q \in Seq(T), NEW x \in T, q \in P PROVE Append(q, x) \in P
  <2> DEFINE t == Append(q, x)  r == Retained(q, k)
  <2>1. t \in Seq(T) /\ ToSet(t) = ToSet(q) \cup {x} /\ (IsInjective(t) <=> IsInjective(q) /\ x \notin ToSet(q))
    BY Appended
  <2>2. ASSUME IsInjective(t) PROVE Leaves(c, T, k, t)
    <3>1. IsInjective(q) /\ x \notin ToSet(q) /\ Leaves(c, T, k, q)
      BY <1>2, <2>1, <2>2
    <3>2. /\ r \in Seq(T) /\ IsInjective(r) /\ ToSet(r) = ToSet(q) \ {k} /\ Len(r) \leq Len(q)
          /\ SizeOf(c, r) = IF k \in ToSet(q) THEN SizeOf(c, q) - c.map[k].out.size ELSE SizeOf(c, q)
      BY <3>1 DEF Leaves
    <3>3. q \in Seq(Keys) /\ x \in Keys
      <4>1. T \subseteq Keys
        BY DEF Sized
      <4>2. ToSet(q) \subseteq Keys
        <5>1. \A i \in 1 .. Len(q) : q[i] \in T
          OBVIOUS
        <5>2. QED BY <4>1, <5>1 DEF ToSet
      <4>3. q \in Seq(Keys)
        BY <4>2, OfItsKeys
      <4>4. QED BY <4>1, <4>3
    <3>4. Retained(t, k) = IF x = k THEN r ELSE Append(r, x)
      BY <3>3, RetainedAppend
    <3>5. SizeOf(c, t) = SizeOf(c, q) + c.map[x].out.size
      BY SizeOfAppend
    <3>6. SizeOf(c, q) \in Nat /\ SizeOf(c, r) \in Nat /\ c.map[x].out.size \in Nat
      BY <3>2, SizeOfType DEF Sized
    <3>7. Len(q) \in Nat /\ Len(r) \in Nat /\ Len(t) = Len(q) + 1
      BY <3>2
    <3> HIDE DEF t, r, P
    <3>8. CASE x = k
      <4>1. k \notin ToSet(q) /\ k \in ToSet(t) /\ ToSet(t) \ {k} = ToSet(q) \ {k}
        BY <2>1, <3>1, <3>8
      <4>2. SizeOf(c, r) = SizeOf(c, t) - c.map[k].out.size
        <5>1. SizeOf(c, r) = SizeOf(c, q)
          BY <3>2, <4>1
        <5>2. \A a, b \in Int : a = (a + b) - b
          OBVIOUS
        <5>3. QED BY <3>5, <3>6, <3>8, <5>1, <5>2
      <4>3. Len(r) \leq Len(t)
        BY <3>2, <3>7
      <4>4. Retained(t, k) = r
        BY <3>4, <3>8
      <4>5. QED BY <3>2, <4>1, <4>2, <4>3, <4>4 DEF Leaves
    <3>9. CASE x # k
      <4>1. Retained(t, k) = Append(r, x)
        BY <3>4, <3>9
      <4>2. /\ Append(r, x) \in Seq(T) /\ ToSet(Append(r, x)) = ToSet(r) \cup {x}
            /\ (IsInjective(Append(r, x)) <=> IsInjective(r) /\ x \notin ToSet(r))
        BY <3>2, Appended
      <4>3. x \notin ToSet(r) /\ ToSet(r) \cup {x} = ToSet(t) \ {k} /\ (k \in ToSet(t) <=> k \in ToSet(q))
        BY <2>1, <3>1, <3>2, <3>9
      <4>4. SizeOf(c, Append(r, x)) = SizeOf(c, r) + c.map[x].out.size
        BY <3>2, SizeOfAppend
      <4>5. SizeOf(c, Append(r, x)) = IF k \in ToSet(t) THEN SizeOf(c, t) - c.map[k].out.size ELSE SizeOf(c, t)
        <5>1. CASE k \in ToSet(q)
          <6>1. SizeOf(c, r) = SizeOf(c, q) - c.map[k].out.size
            BY <3>2, <5>1
          <6>2. k \in T
            <7>1. PICK i \in 1 .. Len(q) : k = q[i]
              BY <5>1 DEF ToSet
            <7>2. QED BY <7>1
          <6>3. c.map[k].out.size \in Nat
            BY <6>2 DEF Sized
          <6>4. \A a, b, d \in Nat : (a - b) + d = (a + d) - b
            OBVIOUS
          <6>5. SizeOf(c, Append(r, x)) = SizeOf(c, t) - c.map[k].out.size
            <7>1. (SizeOf(c, q) - c.map[k].out.size) + c.map[x].out.size
                    = (SizeOf(c, q) + c.map[x].out.size) - c.map[k].out.size
              BY <3>6, <6>3, <6>4
            <7>2. QED BY <3>5, <4>4, <6>1, <7>1, Zenon
          <6>6. QED BY <4>3, <5>1, <6>5
        <5>2. CASE k \notin ToSet(q)
          <6>1. SizeOf(c, r) = SizeOf(c, q)
            BY <3>2, <5>2
          <6>2. QED BY <3>5, <4>3, <4>4, <5>2, <6>1
        <5>3. QED BY <5>1, <5>2
      <4>6. Len(Append(r, x)) \leq Len(t)
        <5>1. Len(Append(r, x)) = Len(r) + 1
          BY <3>2
        <5>2. \A a, b \in Nat : a \leq b => a + 1 \leq b + 1
          OBVIOUS
        <5>3. QED BY <3>2, <3>7, <5>1, <5>2
      <4>7. QED BY <3>2, <4>1, <4>2, <4>3, <4>5, <4>6 DEF Leaves
    <3>10. QED BY <3>8, <3>9
  <2>3. QED BY <2>1, <2>2
<1> HIDE DEF P
<1>3. Seq(T) \subseteq P
  BY <1>1, <1>2, SeqInduction
<1>4. QED BY <1>3 DEF P

(* The first n of a sequence that has each member once, and the rest of it. *)
Splits(T, s, n) ==
    LET a == SubSeq(s, 1, n)
        b == SubSeq(s, n + 1, Len(s))
    IN /\ a \in Seq(T) /\ b \in Seq(T) /\ s = a \o b
       /\ Len(b) = Len(s) - n /\ IsInjective(b)
       /\ ToSet(b) = ToSet(s) \ ToSet(a) /\ ToSet(a) \subseteq ToSet(s)

(* They make up the sequence and have no member in common. *)
LEMMA Split ==
  ASSUME NEW T, NEW s \in Seq(T), IsInjective(s), NEW n \in 0 .. Len(s)
  PROVE  Splits(T, s, n)
<1> DEFINE N == Len(s)  a == SubSeq(s, 1, n)  b == SubSeq(s, n + 1, N)
<1>1. N \in Nat /\ n \in Nat /\ n \leq N /\ DOMAIN s = 1 .. N /\ \A i \in 1 .. N : s[i] \in T
  OBVIOUS
<1>2. a \in Seq(T) /\ Len(a) = n /\ \A i \in 1 .. n : a[i] = s[i]
  <2>1. \A i \in 1 .. n : s[i] \in T
    BY <1>1
  <2>2. /\ a \in Seq(T) /\ Len(a) = IF 1 \leq n THEN n - 1 + 1 ELSE 0
        /\ \A i \in 1 .. n - 1 + 1 : a[i] = s[1 + i - 1]
    BY <1>1, <2>1, SubSeqProperties
  <2> HIDE DEF a
  <2>3. n - 1 + 1 = n /\ (~(1 \leq n) => n = 0) /\ \A i \in 1 .. n : 1 + i - 1 = i
    BY <1>1
  <2>4. QED BY <2>2, <2>3
<1>3. b \in Seq(T) /\ Len(b) = N - n /\ \A i \in 1 .. N - n : b[i] = s[n + i]
  <2>1. \A i \in n + 1 .. N : s[i] \in T
    <3>1. \A i \in n + 1 .. N : i \in 1 .. N
      BY <1>1
    <3>2. QED BY <1>1, <3>1
  <2>2. /\ b \in Seq(T) /\ Len(b) = IF n + 1 \leq N THEN N - (n + 1) + 1 ELSE 0
        /\ \A i \in 1 .. N - (n + 1) + 1 : b[i] = s[n + 1 + i - 1]
    <3>1. n + 1 \in Int /\ N \in Int
      BY <1>1
    <3>2. QED BY <2>1, <3>1, SubSeqProperties
  <2> HIDE DEF b, N
  <2>3. N - (n + 1) + 1 = N - n /\ (~(n + 1 \leq N) => N - n = 0) /\ \A i \in 1 .. N - n : n + 1 + i - 1 = n + i
    BY <1>1
  <2>4. QED BY <2>2, <2>3
<1> HIDE DEF a, b, N
<1>4. DOMAIN a = 1 .. n /\ DOMAIN b = 1 .. N - n /\ N - n \in Nat
  BY <1>1, <1>2, <1>3
<1>5. s = a \o b
  <2>1. /\ a \o b \in Seq(T) /\ Len(a \o b) = Len(a) + Len(b)
        /\ \A i \in 1 .. Len(a) + Len(b) : (a \o b)[i] = IF i \leq Len(a) THEN a[i] ELSE b[i - Len(a)]
    BY <1>2, <1>3, ConcatProperties
  <2>2. Len(a) + Len(b) = N
    BY <1>1, <1>2, <1>3
  <2>3. ASSUME NEW i \in 1 .. N PROVE (a \o b)[i] = s[i]
    <3>1. CASE i \leq n
      <4>1. i \in 1 .. n
        BY <1>1, <3>1
      <4>2. QED BY <1>2, <2>1, <2>2, <3>1, <4>1
    <3>2. CASE ~(i \leq n)
      <4>1. i - n \in 1 .. N - n /\ n + (i - n) = i
        BY <1>1, <3>2
      <4>2. QED BY <1>2, <1>3, <2>1, <2>2, <3>2, <4>1
    <3>3. QED BY <3>1, <3>2
  <2>4. Len(s) = N
    BY DEF N
  <2>5. QED BY <2>1, <2>2, <2>3, <2>4, SeqEqual
<1>6. IsInjective(b)
  <2>1. ASSUME NEW i \in 1 .. N - n, NEW j \in 1 .. N - n, b[i] = b[j] PROVE i = j
    <3>1. n + i \in 1 .. N /\ n + j \in 1 .. N
      BY <1>1, <1>4
    <3>2. s[n + i] = s[n + j]
      BY <1>3, <2>1
    <3>3. n + i = n + j
      BY <1>1, <3>1, <3>2 DEF IsInjective
    <3>4. QED BY <1>1, <3>3
  <2>2. QED BY <1>4, <2>1 DEF IsInjective
<1>7. ToSet(a) = {s[i] : i \in 1 .. n}
  BY <1>2, <1>4 DEF ToSet
<1>8. ToSet(b) = {s[i] : i \in n + 1 .. N}
  <2>1. ASSUME NEW i \in 1 .. N - n PROVE \E j \in n + 1 .. N : b[i] = s[j]
    <3>1. n + i \in n + 1 .. N
      BY <1>1, <1>4
    <3>2. QED BY <1>3, <3>1
  <2>2. ASSUME NEW j \in n + 1 .. N PROVE \E i \in 1 .. N - n : b[i] = s[j]
    <3>1. j - n \in 1 .. N - n /\ n + (j - n) = j
      BY <1>1
    <3>2. QED BY <1>3, <3>1
  <2>3. ToSet(b) = {b[i] : i \in 1 .. N - n}
    BY <1>4 DEF ToSet
  <2>4. ASSUME NEW x \in ToSet(b) PROVE x \in {s[i] : i \in n + 1 .. N}
    <3>1. PICK i \in 1 .. N - n : x = b[i]
      BY <2>3
    <3>2. PICK j \in n + 1 .. N : b[i] = s[j]
      BY <2>1
    <3>3. QED BY <3>1, <3>2
  <2>5. ASSUME NEW x \in {s[i] : i \in n + 1 .. N} PROVE x \in ToSet(b)
    <3>1. PICK j \in n + 1 .. N : x = s[j]
      OBVIOUS
    <3>2. PICK i \in 1 .. N - n : b[i] = s[j]
      BY <2>2
    <3>3. QED BY <2>3, <3>1, <3>2
  <2>6. QED BY <2>4, <2>5
<1>9. ToSet(b) = ToSet(s) \ ToSet(a) /\ ToSet(a) \subseteq ToSet(s)
  <2>1. \A i \in 1 .. N : (i \in 1 .. n) \/ (i \in n + 1 .. N)
    BY <1>1
  <2>2. \A i \in 1 .. n, j \in n + 1 .. N : i # j /\ i \in 1 .. N /\ j \in 1 .. N
    BY <1>1
  <2>3. ToSet(s) = {s[i] : i \in 1 .. N}
    BY <1>1 DEF ToSet
  <2>4. \A i \in 1 .. n, j \in n + 1 .. N : s[i] # s[j]
    BY <1>1, <2>2 DEF IsInjective
  <2>5. \A i \in n + 1 .. N : i \in 1 .. N
    BY <1>1
  <2>6. \A i \in 1 .. n : i \in 1 .. N
    BY <1>1
  <2>7. QED BY <1>7, <1>8, <2>1, <2>3, <2>4, <2>5, <2>6
<1>10. QED BY <1>2, <1>3, <1>5, <1>6, <1>9 DEF a, b, N, Splits

-----------------------------------------------------------------------------
(* The accounts of the cache. *)

Held(c) == {k \in Keys : c.map[k] # NoEntry}

(* The order lists the keys of the map, each once, and the total is their bytes. *)
Accounts(c) ==
    /\ c \in Caches
    /\ ToSet(c.order) = Held(c) /\ IsInjective(c.order)
    /\ c.total = SizeOf(c, c.order)

Limits(c) ==
    /\ Len(c.order) \leq MAX_ENTRIES
    /\ c.total \leq MAX_TOTAL \/ Len(c.order) = 1

(* d has no entry that c has not. *)
Fewer(d, c) == \A j \in Keys : d.map[j] \in {c.map[j], NoEntry}

(* The fields of a cache. *)
LEMMA CacheFields ==
  ASSUME NEW m \in [Keys -> Entries \cup {NoEntry}], NEW o \in Seq(Keys), NEW n \in Int
  PROVE  /\ [map |-> m, order |-> o, total |-> n] \in Caches
         /\ [map |-> m, order |-> o, total |-> n].map = m
         /\ [map |-> m, order |-> o, total |-> n].order = o
         /\ [map |-> m, order |-> o, total |-> n].total = n
  BY DEF Caches

(* An entry is none that is missing. *)
LEMMA EntryIs ==
  ASSUME NEW e \in Entries
  PROVE  e # NoEntry /\ e.out \in Outputs /\ e.out.size \in Nat /\ e.epoch \in Int
<1>1. e.at \in {"run", "digest"} /\ NoEntry.at = "none"
  BY DEF Entries, NoEntry
<1>2. e # NoEntry
  BY <1>1
<1>3. e.out \in Outputs /\ e.epoch \in Int
  BY DEF Entries
<1>4. e.out.size \in Nat
  BY <1>3 DEF Outputs
<1>5. QED BY <1>2, <1>3, <1>4

(* What is held has a size. *)
LEMMA HeldSized ==
  ASSUME NEW c \in Caches, NEW T, T \subseteq Held(c)
  PROVE  Sized(c, T)
<1>1. ASSUME NEW k \in T PROVE k \in Keys /\ c.map[k].out.size \in Nat
  <2>1. k \in Keys /\ c.map[k] # NoEntry /\ c.map[k] \in Entries \cup {NoEntry}
    BY DEF Held, Caches
  <2>2. QED BY <2>1, EntryIs
<1>2. QED BY <1>1 DEF Sized

(* An order with the accounts of another map is one of what is held. *)
LEMMA OrderOfHeld ==
  ASSUME NEW c, Accounts(c)
  PROVE  c \in Caches /\ c.order \in Seq(Held(c)) /\ Sized(c, Held(c)) /\ c.total \in Nat
<1>1. c \in Caches /\ c.order \in Seq(Keys) /\ ToSet(c.order) \subseteq Held(c)
  BY DEF Accounts, Caches
<1>2. c.order \in Seq(Held(c))
  BY <1>1, OfItsKeys
<1>3. Sized(c, Held(c))
  BY <1>1, HeldSized
<1>4. QED BY <1>1, <1>2, <1>3, SizeOfType DEF Accounts

(* The bytes of an order count only what both caches hold of it. *)
LEMMA SizeOfHeld ==
  ASSUME NEW c \in Caches, NEW d \in Caches, NEW s \in Seq(Keys),
         ToSet(s) \subseteq Held(c) \cap Held(d), \A k \in ToSet(s) : d.map[k] = c.map[k]
  PROVE  SizeOf(d, s) = SizeOf(c, s) /\ SizeOf(c, s) \in Nat
<1> DEFINE T == ToSet(s)
<1>1. s \in Seq(T)
  BY OfItsKeys
<1>2. Sized(c, T) /\ Sized(d, T)
  BY HeldSized
<1>3. \A k \in T : c.map[k].out.size = d.map[k].out.size
  OBVIOUS
<1> HIDE DEF T
<1>4. SizeOf(c, s) = SizeOf(d, s)
  BY <1>1, <1>2, <1>3, SizeOfSame
<1>5. QED BY <1>1, <1>2, <1>4, SizeOfType

(* The entry that is replaced goes first. *)
LEMMA WithoutAccounts ==
  ASSUME NEW c, Accounts(c), NEW k \in Keys
  PROVE  /\ Accounts(Without(c, k)) /\ Fewer(Without(c, k), c)
         /\ Without(c, k).map[k] = NoEntry
<1>1. c \in Caches /\ c.order \in Seq(Held(c)) /\ Sized(c, Held(c)) /\ c.total \in Nat
  BY OrderOfHeld
<1>2. /\ ToSet(c.order) = Held(c) /\ IsInjective(c.order) /\ c.total = SizeOf(c, c.order)
      /\ c.map \in [Keys -> Entries \cup {NoEntry}]
  BY <1>1 DEF Accounts, Caches
<1>3. CASE c.map[k] = NoEntry
  <2>1. Without(c, k) = c
    BY <1>3 DEF Without
  <2>2. QED BY <1>3, <2>1 DEF Fewer
<1>4. CASE c.map[k] # NoEntry
  <2> DEFINE m == [c.map EXCEPT ![k] = NoEntry]
             r == Retained(c.order, k)
             n == c.total - c.map[k].out.size
             d == [map |-> m, order |-> r, total |-> n]
  <2>1. Without(c, k) = d
    BY <1>4 DEF Without
  <2>2. k \in Held(c)
    BY <1>4 DEF Held
  <2>3. /\ r \in Seq(Held(c)) /\ IsInjective(r) /\ ToSet(r) = Held(c) \ {k}
        /\ SizeOf(c, r) = SizeOf(c, c.order) - c.map[k].out.size
    <3>1. Leaves(c, Held(c), k, c.order)
      BY <1>1, <1>2, RetainedLeaves
    <3>2. QED BY <1>2, <2>2, <3>1 DEF Leaves
  <2>4. m \in [Keys -> Entries \cup {NoEntry}] /\ m[k] = NoEntry /\ \A j \in Keys \ {k} : m[j] = c.map[j]
    BY <1>2
  <2>5. n \in Int
    <3>1. c.map[k].out.size \in Nat
      BY <1>1, <2>2 DEF Sized
    <3>2. QED BY <1>1, <3>1
  <2>6. r \in Seq(Keys)
    <3>1. ToSet(r) \subseteq Keys
      BY <2>3 DEF Held
    <3>2. QED BY <2>3, <3>1, OfItsKeys
  <2> HIDE DEF m, r, n
  <2>7. d \in Caches /\ d.map = m /\ d.order = r /\ d.total = n
    BY <2>4, <2>5, <2>6, CacheFields
  <2> HIDE DEF d
  <2>8. Held(d) = Held(c) \ {k}
    BY <2>4, <2>7 DEF Held
  <2>9. SizeOf(d, r) = SizeOf(c, r)
    <3>1. ToSet(r) \subseteq Held(c) \cap Held(d)
      BY <2>3, <2>8
    <3>2. \A j \in ToSet(r) : d.map[j] = c.map[j]
      BY <2>3, <2>4, <2>7 DEF Held
    <3>3. QED BY <1>1, <2>6, <2>7, <3>1, <3>2, SizeOfHeld
  <2>10. d.total = SizeOf(d, d.order)
    BY <1>2, <2>3, <2>7, <2>9 DEF n
  <2>11. Accounts(d)
    BY <2>3, <2>7, <2>8, <2>10 DEF Accounts
  <2>12. Fewer(d, c)
    BY <2>4, <2>7 DEF Fewer
  <2>13. QED BY <2>1, <2>4, <2>7, <2>11, <2>12
<1>5. QED BY <1>3, <1>4

(* There is room when the n oldest entries are gone. *)
Room(c, size, n) ==
    /\ Len(c.order) - n < MAX_ENTRIES
    /\ \/ c.total - SizeOf(c, SubSeq(c.order, 1, n)) + size <= MAX_TOTAL
       \/ n = Len(c.order)

Gone(c, n) ==
    [map |-> [k \in Keys |-> IF k \in ToSet(SubSeq(c.order, 1, n)) THEN NoEntry ELSE c.map[k]],
     order |-> SubSeq(c.order, n + 1, Len(c.order)),
     total |-> c.total - SizeOf(c, SubSeq(c.order, 1, n))]

(* Some number of them makes room: all of them do. *)
LEMMA EvictIs ==
  ASSUME NEW c, Accounts(c), NEW size
  PROVE  \E n \in 0 .. Len(c.order) : Room(c, size, n) /\ Evict(c, size) = Gone(c, n)
<1> DEFINE N == Len(c.order)
           S == {n \in 0 .. N : Room(c, size, n)}
           Enough(n) == Room(c, size, n) /\ \A m \in 0 .. n - 1 : ~Room(c, size, m)
           f == CHOOSE n \in 0 .. N : Enough(n)
<1>1. N \in Nat
  BY OrderOfHeld
<1>2. Room(c, size, N)
  <2>1. N - N = 0 /\ 0 < MAX_ENTRIES
    BY <1>1, OutputCacheAssumption
  <2>2. QED BY <2>1 DEF Room
<1>3. PICK n \in S : \A m \in S : ~(m < n)
  <2>1. N \in S /\ S \subseteq Nat
    BY <1>1, <1>2
  <2> HIDE DEF S
  <2>2. QED BY <2>1, Least
<1>4. n \in 0 .. N /\ Enough(n)
  <2>1. \A m \in 0 .. n - 1 : m \in 0 .. N /\ m < n
    BY <1>1, <1>3
  <2>2. QED BY <1>3, <2>1
<1>5. f \in 0 .. N /\ Enough(f)
  BY <1>4
<1>6. Evict(c, size) = Gone(c, f)
  BY DEF Evict, Gone, Room
<1>7. QED BY <1>5, <1>6

(* What is left when the oldest entries are gone. *)
LEMMA GoneAccounts ==
  ASSUME NEW c, Accounts(c), NEW n \in 0 .. Len(c.order)
  PROVE  /\ Accounts(Gone(c, n)) /\ Fewer(Gone(c, n), c)
         /\ Len(Gone(c, n).order) = Len(c.order) - n
         /\ Gone(c, n).total = c.total - SizeOf(c, SubSeq(c.order, 1, n))
<1> DEFINE a == SubSeq(c.order, 1, n)
           b == SubSeq(c.order, n + 1, Len(c.order))
           m == [k \in Keys |-> IF k \in ToSet(a) THEN NoEntry ELSE c.map[k]]
           z == c.total - SizeOf(c, a)
           d == [map |-> m, order |-> b, total |-> z]
<1>1. c \in Caches /\ c.order \in Seq(Held(c)) /\ Sized(c, Held(c)) /\ c.total \in Nat
  BY OrderOfHeld
<1>2. /\ ToSet(c.order) = Held(c) /\ IsInjective(c.order) /\ c.total = SizeOf(c, c.order)
      /\ c.map \in [Keys -> Entries \cup {NoEntry}]
  BY <1>1 DEF Accounts, Caches
<1>3. Gone(c, n) = d
  BY DEF Gone
<1>4. /\ a \in Seq(Held(c)) /\ b \in Seq(Held(c)) /\ c.order = a \o b
      /\ Len(b) = Len(c.order) - n /\ IsInjective(b)
      /\ ToSet(b) = Held(c) \ ToSet(a) /\ ToSet(a) \subseteq Held(c)
  <2>1. Splits(Held(c), c.order, n)
    BY <1>1, <1>2, Split
  <2>2. QED BY <1>2, <2>1 DEF Splits
<1>5. /\ m \in [Keys -> Entries \cup {NoEntry}]
      /\ \A k \in Keys : m[k] = IF k \in ToSet(a) THEN NoEntry ELSE c.map[k]
  BY <1>2
<1> HIDE DEF a, b, m
<1>6. SizeOf(c, a) \in Nat /\ SizeOf(c, b) \in Nat /\ c.total = SizeOf(c, a) + SizeOf(c, b)
  <2>1. SizeOf(c, a \o b) = SizeOf(c, a) + SizeOf(c, b)
    BY <1>1, <1>4, SizeOfConcat
  <2>2. QED BY <1>1, <1>2, <1>4, <2>1, SizeOfType
<1>7. z \in Int /\ z = SizeOf(c, b)
  BY <1>6
<1>8. b \in Seq(Keys)
  <2>1. ToSet(b) \subseteq Keys
    BY <1>4 DEF Held
  <2>2. QED BY <1>4, <2>1, OfItsKeys
<1> HIDE DEF z
<1>9. d \in Caches /\ d.map = m /\ d.order = b /\ d.total = z
  BY <1>5, <1>7, <1>8, CacheFields
<1> HIDE DEF d
<1>10. Held(d) = ToSet(b)
  BY <1>4, <1>5, <1>9 DEF Held
<1>11. SizeOf(d, b) = SizeOf(c, b)
  <2>1. ToSet(b) \subseteq Held(c) \cap Held(d)
    BY <1>4, <1>10
  <2>2. \A k \in ToSet(b) : d.map[k] = c.map[k]
    BY <1>4, <1>5, <1>9 DEF Held
  <2>3. QED BY <1>1, <1>8, <1>9, <2>1, <2>2, SizeOfHeld
<1>12. Accounts(d)
  BY <1>4, <1>7, <1>9, <1>10, <1>11 DEF Accounts
<1>13. Fewer(d, c)
  BY <1>5, <1>9 DEF Fewer
<1>14. QED BY <1>3, <1>4, <1>9, <1>12, <1>13 DEF z, a

(* After the eviction there is room for one entry more. *)
LEMMA EvictAccounts ==
  ASSUME NEW c, Accounts(c), NEW size \in Nat
  PROVE  /\ Accounts(Evict(c, size)) /\ Fewer(Evict(c, size), c)
         /\ Len(Evict(c, size).order) < MAX_ENTRIES
         /\ Evict(c, size).total + size \leq MAX_TOTAL \/ Len(Evict(c, size).order) = 0
<1>1. PICK n \in 0 .. Len(c.order) : Room(c, size, n) /\ Evict(c, size) = Gone(c, n)
  BY EvictIs
<1> DEFINE d == Gone(c, n)
<1>2. /\ Accounts(d) /\ Fewer(d, c) /\ Len(d.order) = Len(c.order) - n
      /\ d.total = c.total - SizeOf(c, SubSeq(c.order, 1, n))
  BY GoneAccounts
<1>3. Len(c.order) \in Nat
  BY OrderOfHeld
<1> HIDE DEF d
<1>4. Len(d.order) < MAX_ENTRIES
  BY <1>1, <1>2 DEF Room
<1>5. d.total + size \leq MAX_TOTAL \/ Len(d.order) = 0
  <2>1. CASE n = Len(c.order)
    BY <1>2, <1>3, <2>1
  <2>2. CASE n # Len(c.order)
    BY <1>1, <1>2, <2>2 DEF Room
  <2>3. QED BY <2>1, <2>2
<1>6. QED BY <1>1, <1>2, <1>4, <1>5 DEF d

(* What insert makes of a cache with good accounts. *)
Inserts(c, k, e) ==
    LET d == insert(c, k, e)
    IN /\ Accounts(d) /\ Limits(d)
       /\ d.map[k] = e /\ \A j \in Keys \ {k} : d.map[j] \in {c.map[j], NoEntry}

(* The accounts stay good and both limits hold: the entry is there, and no other    *)
(* has come.                                                                       *)
LEMMA InsertAccounts ==
  ASSUME NEW c, Accounts(c), NEW k \in Keys, NEW e \in Entries
  PROVE  Inserts(c, k, e)
<1> DEFINE w == Without(c, k)  size == e.out.size  r == Evict(w, size)
           m == [r.map EXCEPT ![k] = e]
           o == Append(r.order, k)
           n == r.total + size
           d == [map |-> m, order |-> o, total |-> n]
<1>1. insert(c, k, e) = d
  BY DEF insert
<1>2. Accounts(w) /\ Fewer(w, c) /\ w.map[k] = NoEntry
  BY WithoutAccounts
<1>3. size \in Nat /\ e # NoEntry
  BY EntryIs
<1> HIDE DEF w, size
<1>4. /\ Accounts(r) /\ Fewer(r, w) /\ Len(r.order) < MAX_ENTRIES
      /\ r.total + size \leq MAX_TOTAL \/ Len(r.order) = 0
  BY <1>2, <1>3, EvictAccounts
<1> HIDE DEF r
<1>5. r \in Caches /\ r.order \in Seq(Held(r)) /\ Sized(r, Held(r)) /\ r.total \in Nat
  BY <1>4, OrderOfHeld
<1>6. /\ ToSet(r.order) = Held(r) /\ IsInjective(r.order) /\ r.total = SizeOf(r, r.order)
      /\ r.map \in [Keys -> Entries \cup {NoEntry}] /\ r.order \in Seq(Keys)
  BY <1>4, <1>5 DEF Accounts, Caches
<1>7. r.map[k] = NoEntry /\ k \notin Held(r)
  BY <1>2, <1>4 DEF Fewer, Held
<1>8. /\ m \in [Keys -> Entries \cup {NoEntry}] /\ m[k] = e
      /\ \A j \in Keys \ {k} : m[j] = r.map[j]
  BY <1>6
<1>9. /\ o \in Seq(Keys) /\ ToSet(o) = ToSet(r.order) \cup {k}
      /\ (IsInjective(o) <=> IsInjective(r.order) /\ k \notin ToSet(r.order))
      /\ Len(o) = Len(r.order) + 1 /\ Len(r.order) \in Nat
  <2>1. Len(o) = Len(r.order) + 1 /\ Len(r.order) \in Nat
    BY <1>6
  <2>2. QED BY <1>6, <2>1, Appended
<1>10. n \in Int
  BY <1>3, <1>5
<1> HIDE DEF m, o, n
<1>11. d \in Caches /\ d.map = m /\ d.order = o /\ d.total = n
  BY <1>8, <1>9, <1>10, CacheFields
<1> HIDE DEF d
<1>12. Held(d) = Held(r) \cup {k}
  BY <1>3, <1>8, <1>11 DEF Held
<1>13. SizeOf(d, o) = n
  <2>1. d.map[k] = e /\ \A j \in Held(r) : d.map[j] = r.map[j]
    BY <1>7, <1>8, <1>11 DEF Held
  <2>2. SizeOf(d, r.order) = SizeOf(r, r.order)
    <3>1. ToSet(r.order) \subseteq Held(r) \cap Held(d)
      BY <1>6, <1>12
    <3>2. QED BY <1>5, <1>6, <1>11, <2>1, <3>1, SizeOfHeld
  <2>3. Sized(d, Held(d))
    BY <1>11, HeldSized
  <2>4. r.order \in Seq(Held(d)) /\ k \in Held(d)
    BY <1>6, <1>12, OfItsKeys
  <2>5. SizeOf(d, o) = SizeOf(d, r.order) + d.map[k].out.size
    BY <2>3, <2>4, SizeOfAppend DEF o
  <2>6. QED BY <1>6, <2>1, <2>2, <2>5 DEF n, size
<1>14. Accounts(d)
  BY <1>6, <1>7, <1>9, <1>11, <1>12, <1>13 DEF Accounts
<1>15. Limits(d)
  <2>1. Len(o) \leq MAX_ENTRIES
    BY <1>4, <1>9, OutputCacheAssumption
  <2>2. n \leq MAX_TOTAL \/ Len(o) = 1
    BY <1>4, <1>9 DEF n
  <2>3. QED BY <1>11, <2>1, <2>2 DEF Limits
<1>16. \A j \in Keys \ {k} : d.map[j] \in {c.map[j], NoEntry}
  <2>1. ASSUME NEW j \in Keys \ {k} PROVE d.map[j] \in {c.map[j], NoEntry}
    BY <1>2, <1>4, <1>8, <1>11 DEF Fewer
  <2>2. QED BY <2>1
<1>17. QED BY <1>1, <1>8, <1>11, <1>14, <1>15, <1>16 DEF Inserts

(* An empty cache. *)
LEMMA EmptyAccounts == Accounts(Empty) /\ Limits(Empty) /\ \A k \in Keys : Empty.map[k] = NoEntry
<1>1. /\ [k \in Keys |-> NoEntry] \in [Keys -> Entries \cup {NoEntry}] /\ <<>> \in Seq(Keys)
      /\ 0 \in Int
  OBVIOUS
<1>2. Empty \in Caches /\ Empty.map = [k \in Keys |-> NoEntry] /\ Empty.order = <<>> /\ Empty.total = 0
  BY <1>1, CacheFields DEF Empty
<1>3. Held(Empty) = {} /\ ToSet(<<>>) = {} /\ IsInjective(<<>>) /\ Len(<<>>) = 0
  BY <1>2 DEF Held, ToSet, IsInjective
<1>4. 0 \leq MAX_ENTRIES /\ 0 \leq MAX_TOTAL
  BY OutputCacheAssumption
<1>5. QED BY <1>2, <1>3, <1>4, SizeOfEmpty DEF Accounts, Limits

(* Every entry of d is one of c or came from a digest. *)
Digests(d, c) == \A k \in Keys : d.map[k] \in {c.map[k], NoEntry} \/ d.map[k].epoch = -1

(* The digests of a conversation keep the accounts and the limits. *)
LEMMA DigestAccounts ==
  ASSUME Accounts(cache), Limits(cache), NEW h \in Seq(Outputs)
  PROVE  LET d == cache_tool_results_before_digest(h)
         IN Accounts(d) /\ Limits(d) /\ Digests(d, cache)
<1> DEFINE S == {c \in Caches : Accounts(c) /\ Limits(c) /\ Digests(c, cache)}
           next(c, out) == IF Large(out) THEN insert(c, <<"session", out.path>>, Digested(out)) ELSE c
           step == [p \in Caches \X Outputs |-> next(p[1], p[2])]
<1>1. cache \in S
  BY DEF Accounts, Digests
<1>2. ASSUME NEW c \in S, NEW out \in Outputs PROVE next(c, out) \in S
  <2> DEFINE k == <<"session", out.path>>  e == Digested(out)  d == insert(c, k, e)
  <2>1. k \in Keys
    BY DEF Keys, Scopes, Outputs
  <2>2. e \in Entries /\ e.epoch = -1
    BY DEF Digested, Entries
  <2> HIDE DEF k, e
  <2>3. Inserts(c, k, e)
    BY <2>1, <2>2, InsertAccounts
  <2>4. Accounts(d) /\ Limits(d) /\ d.map[k] = e /\ \A j \in Keys \ {k} : d.map[j] \in {c.map[j], NoEntry}
    BY <2>3 DEF Inserts
  <2> HIDE DEF d
  <2>5. Digests(d, cache)
    BY <2>2, <2>4 DEF Digests
  <2>6. d \in S
    BY <2>4, <2>5 DEF Accounts
  <2>7. QED BY <2>6 DEF d, k, e
<1>3. ASSUME NEW c \in S, NEW out \in Outputs PROVE step[<<c, out>>] = next(c, out)
  OBVIOUS
<1> HIDE DEF next, S
<1>4. Stays(step, S, Outputs)
  BY <1>2, <1>3 DEF Stays
<1>5. cache_tool_results_before_digest(h) = After(h, cache, step)
  BY DEF cache_tool_results_before_digest, next
<1> HIDE DEF step
<1>6. After(h, cache, step) \in S
  BY <1>1, <1>4, AfterKeeps
<1>7. QED BY <1>5, <1>6 DEF S

-----------------------------------------------------------------------------
(* The inductive invariant of the cache. *)

Jobs == {NoCall}
        \cup [at : {"cache", "history", "execute", "wipe"}, path : Paths]
        \cup [at : {"answer", "prefetch"}, path : Paths, out : Outputs, epoch : Int]

Carries(j) == j.at \in {"answer", "prefetch"}
Storing(j) == j.at = "prefetch" \/ Stores(j.out)

Shape ==
    /\ tree \in [Workspaces -> [Paths -> Nat]]
    /\ wipes \in Nat
    /\ hist \in [Agents -> Seq(Outputs)]
    /\ job \in [Agents -> Jobs]

(* What a conversation holds is short, and so is what is not capped on its way to    *)
(* it, unless a failed call printed it.                                            *)
Capped(out) == out.mark = "error" \/ out.size \leq INGRESS_MAX

Short ==
    /\ \A a \in Agents : \A i \in DOMAIN hist[a] : Capped(hist[a][i])
    /\ \A a \in Agents : Carries(job[a]) /\ ~Stores(job[a].out) => Capped(job[a].out)

(* The output is that of the path of the workspace: as it is, but for a change that *)
(* nothing wipes and for one whose wipe is due.                                    *)
Rightly(out, w, p, t, o, j) ==
    /\ out.ws = w /\ out.path = p
    /\ \/ out.version = t[w][p]
       \/ <<w, p>> \in o
       \/ \E b \in Agents : j[b].at = "wipe" /\ Home[b] = w /\ j[b].path = p

(* No output is from a later epoch, and one that no wipe has overtaken is right:    *)
(* among the entries and on its way there.                                         *)
FreshEntries ==
    \A k \in Keys : cache.map[k] # NoEntry =>
        /\ cache.map[k].epoch \leq wipes
        /\ cache.map[k].epoch = wipes =>
             Rightly(cache.map[k].out, ScopeOf(k), k[2], tree, outside, job)

FreshJobs ==
    \A a \in Agents : Carries(job[a]) =>
        /\ job[a].epoch \leq wipes
        /\ job[a].epoch = wipes /\ Storing(job[a]) =>
             Rightly(job[a].out, Home[a], job[a].path, tree, outside, job)

CacheInv ==
    /\ Shape
    /\ Accounts(cache) /\ Limits(cache)
    /\ Short
    /\ FreshEntries
    /\ FreshJobs

(* What the invariant says is what the runs check. *)
LEMMA CacheInvIsFresh == ASSUME CacheInv PROVE CacheTypeOK /\ FreshUnlessRaced
<1>1. WithinBudget
  BY DEF CacheInv, Accounts, Limits, WithinBudget, Held, Cached
<1>2. cache.order \in Seq(Keys) /\ cache.total \in Nat
  BY OrderOfHeld DEF CacheInv, Accounts, Caches
<1>3. \A a \in Agents : \A i \in DOMAIN hist[a] : hist[a][i] \in Outputs /\ Capped(hist[a][i])
  BY DEF CacheInv, Shape, Short
<1>4. ASSUME NEW a \in Agents
      PROVE  job[a].at \in {"idle", "cache", "history", "execute", "answer", "prefetch", "wipe"}
  BY DEF CacheInv, Shape, Jobs, NoCall
<1>5. FreshUnlessRaced
  <2>1. ASSUME NEW k \in Keys, Cached(k), cache.map[k].epoch = wipes
        PROVE  /\ cache.map[k].out.ws = ScopeOf(k)
               /\ \/ Current(cache.map[k].out)
                  \/ <<ScopeOf(k), k[2]>> \in outside
                  \/ \E b \in Wiping : Home[b] = ScopeOf(k) /\ job[b].path = k[2]
    <3>1. Rightly(cache.map[k].out, ScopeOf(k), k[2], tree, outside, job)
      BY <2>1 DEF CacheInv, FreshEntries, Cached
    <3>2. QED BY <3>1 DEF Rightly, Current, Wiping
  <2>2. QED BY <2>1 DEF FreshUnlessRaced
<1>6. QED BY <1>1, <1>2, <1>3, <1>4, <1>5 DEF CacheTypeOK, Capped

(* It holds when the program starts. *)
LEMMA CacheInitInv == ASSUME CacheInit PROVE CacheInv
<1>1. Shape
  BY DEF CacheInit, Shape, Jobs
<1>2. Accounts(cache) /\ Limits(cache) /\ \A k \in Keys : cache.map[k] = NoEntry
  BY EmptyAccounts DEF CacheInit
<1>3. \A a \in Agents : hist[a] = <<>> /\ job[a] = NoCall /\ ~Carries(job[a])
  BY DEF CacheInit, NoCall, Carries
<1>4. Short /\ FreshEntries /\ FreshJobs
  BY <1>2, <1>3 DEF Short, FreshEntries, FreshJobs
<1>5. QED BY <1>1, <1>2, <1>4 DEF CacheInv

-----------------------------------------------------------------------------
(* What a step may do to the entries, to the outputs on their way, and to what      *)
(* excuses an output that is not current.                                          *)

EntriesFrom ==
    \A k \in Keys :
        \/ cache'.map[k] \in {cache.map[k], NoEntry}
        \/ cache'.map[k].epoch = -1
        \/ \E a \in Agents : /\ Carries(job[a]) /\ Storing(job[a])
                             /\ k = KeyOf(a, job[a].path)
                             /\ cache'.map[k] = Executed(job[a].out, job[a].epoch)

JobsFrom ==
    \A a \in Agents :
        \/ job'[a] = job[a]
        \/ ~Carries(job'[a])
        \/ job'[a].epoch = -1
        \/ /\ job'[a].epoch = wipes /\ job'[a].path \in Paths
           /\ Storing(job'[a]) => job'[a].out = Fresh(Home[a], job'[a].path)
           /\ tree' = tree

Excuses ==
    \A out \in Outputs, w \in Workspaces, p \in Paths :
        Rightly(out, w, p, tree, outside, job) => Rightly(out, w, p, tree', outside', job')

Carried == wipes' = wipes /\ EntriesFrom /\ JobsFrom /\ Excuses

Wiped ==
    /\ wipes' = wipes + 1 /\ cache' = Empty
    /\ \A a \in Agents : job'[a] = job[a] \/ ~Carries(job'[a])

Keeps == Shape' /\ Accounts(cache') /\ Limits(cache') /\ Short' /\ (Carried \/ Wiped)

(* The fields of a job. *)
LEMMA JobIs ==
  ASSUME NEW j \in Jobs
  PROVE  /\ j.at \in {"idle", "cache", "history", "execute", "wipe", "answer", "prefetch"}
         /\ j.at # "idle" => j.path \in Paths
         /\ Carries(j) => j.out \in Outputs /\ j.epoch \in Int
<1>1. CASE j = NoCall
  BY <1>1 DEF NoCall, Carries
<1>2. CASE j \in [at : {"cache", "history", "execute", "wipe"}, path : Paths]
  BY <1>2 DEF Carries
<1>3. CASE j \in [at : {"answer", "prefetch"}, path : Paths, out : Outputs, epoch : Int]
  BY <1>3 DEF Carries
<1>4. QED BY <1>1, <1>2, <1>3 DEF Jobs

(* The records the actions make are jobs. *)
LEMMA MakesJobs ==
  /\ NoCall \in Jobs /\ NoCall.at = "idle" /\ ~Carries(NoCall)
  /\ \A s \in {"cache", "history", "execute", "wipe"}, p \in Paths :
       /\ [at |-> s, path |-> p] \in Jobs /\ ~Carries([at |-> s, path |-> p])
       /\ [at |-> s, path |-> p].at = s /\ [at |-> s, path |-> p].path = p
  /\ \A p \in Paths, out \in Outputs, n \in Int :
       /\ Answering(p, out, n) \in Jobs /\ Answering(p, out, n).out = out
       /\ Answering(p, out, n).epoch = n /\ Answering(p, out, n).at = "answer"
       /\ Answering(p, out, n).path = p /\ Carries(Answering(p, out, n))
<1>1. NoCall \in Jobs /\ NoCall.at = "idle" /\ ~Carries(NoCall)
  BY DEF NoCall, Jobs, Carries
<1>2. ASSUME NEW s \in {"cache", "history", "execute", "wipe"}, NEW p \in Paths
      PROVE  /\ [at |-> s, path |-> p] \in Jobs /\ ~Carries([at |-> s, path |-> p])
             /\ [at |-> s, path |-> p].at = s /\ [at |-> s, path |-> p].path = p
  BY DEF Jobs, Carries
<1>3. ASSUME NEW p \in Paths, NEW out \in Outputs, NEW n \in Int
      PROVE  /\ Answering(p, out, n) \in Jobs /\ Answering(p, out, n).out = out
             /\ Answering(p, out, n).epoch = n /\ Answering(p, out, n).at = "answer"
             /\ Answering(p, out, n).path = p /\ Carries(Answering(p, out, n))
  BY DEF Jobs, Carries, Answering
<1>4. QED BY <1>1, <1>2, <1>3

(* A key belongs to the agent's workspace and to the path. *)
LEMMA KeyIs ==
  ASSUME NEW a \in Agents, NEW p \in Paths
  PROVE  /\ KeyOf(a, p) \in Keys /\ KeyOf(a, p)[2] = p /\ ScopeOf(KeyOf(a, p)) = Home[a]
         /\ Home[a] \in Workspaces
<1>1. Home[a] \in Workspaces /\ Home[a] # "session"
  BY OutputCacheAssumption DEF Workspaces
<1>2. CASE a = Main
  BY <1>1, <1>2 DEF KeyOf, Keys, Scopes, ScopeOf
<1>3. CASE a # Main
  BY <1>1, <1>3 DEF KeyOf, Keys, Scopes, ScopeOf
<1>4. QED BY <1>1, <1>2, <1>3

(* Executing reads the tree or fails. *)
LEMMA FreshIs ==
  ASSUME Shape, NEW a \in Agents, NEW p \in Paths
  PROVE  /\ Fresh(Home[a], p) \in Outputs /\ Fresh(Home[a], p).ws = Home[a]
         /\ Fresh(Home[a], p).path = p /\ Fresh(Home[a], p).version = tree[Home[a]][p]
         /\ Stores(Fresh(Home[a], p))
         /\ \A n \in ErrorSizes : LET out == Failed(Home[a], p, n)
                                   IN out \in Outputs /\ out.mark = "error" /\ ~Stores(out)
<1>1. Home[a] \in Workspaces /\ tree[Home[a]][p] \in Nat /\ Size[p] \in Nat
  BY KeyIs, OutputCacheAssumption DEF Shape
<1> DEFINE fresh == Fresh(Home[a], p)
<1>2. /\ fresh \in Outputs /\ fresh.ws = Home[a] /\ fresh.path = p
      /\ fresh.version = tree[Home[a]][p] /\ Stores(fresh)
  BY <1>1 DEF Fresh, Outputs, Marks, Stores, Pointer
<1> HIDE DEF fresh
<1>3. ASSUME NEW n \in ErrorSizes
      PROVE  LET out == [fresh EXCEPT !.mark = "error", !.size = n]
             IN out \in Outputs /\ out.mark = "error" /\ ~Stores(out)
  <2>1. n \in Nat
    BY OutputCacheAssumption
  <2>2. QED BY <1>2, <2>1 DEF Outputs, Marks, Stores
<1>4. QED BY <1>2, <1>3 DEF fresh, Failed

(* What the caps make of an output. *)
LEMMA CapsAre ==
  ASSUME NEW out \in Outputs
  PROVE  /\ apply_ingress_cap(out) \in Outputs /\ apply_ingress_cap(out).size \leq INGRESS_MAX
         /\ apply_restore_cap(out) \in Outputs
         /\ ~Stores(apply_restore_cap(out)) => apply_restore_cap(out).size \leq INGRESS_MAX
<1>1. /\ out.size \in Nat /\ INGRESS_MAX \in Nat /\ RESTORE_MAX \in Nat /\ RESTORE_MAX < INGRESS_MAX
  BY OutputCacheAssumption DEF Outputs
<1>2. Cut(out, INGRESS_MAX) \in Outputs /\ Cut(out, INGRESS_MAX).size = INGRESS_MAX
  BY <1>1 DEF Cut, Outputs
<1>3. apply_ingress_cap(out) \in Outputs /\ apply_ingress_cap(out).size \leq INGRESS_MAX
  <2>1. CASE out.size \leq INGRESS_MAX
    BY <2>1 DEF apply_ingress_cap
  <2>2. CASE ~(out.size \leq INGRESS_MAX)
    <3>1. apply_ingress_cap(out) = Cut(out, INGRESS_MAX)
      BY <2>2 DEF apply_ingress_cap
    <3>2. QED BY <1>1, <1>2, <3>1
  <2>3. QED BY <2>1, <2>2
<1>4. CASE out.size \leq RESTORE_MAX
  <2>1. apply_restore_cap(out) = [out EXCEPT !.mark = "restored"]
    BY <1>4 DEF apply_restore_cap
  <2>2. [out EXCEPT !.mark = "restored"] \in Outputs /\ [out EXCEPT !.mark = "restored"].size = out.size
    BY DEF Outputs, Marks
  <2>3. out.size \leq INGRESS_MAX
    BY <1>1, <1>4
  <2>4. QED BY <1>3, <2>1, <2>2, <2>3
<1>5. CASE ~(out.size \leq RESTORE_MAX)
  <2> DEFINE c == Cut(out, RESTORE_MAX)  r == [c EXCEPT !.mark = "restored_cut"]
  <2>1. apply_restore_cap(out) = r
    BY <1>5 DEF apply_restore_cap
  <2>2. c \in Outputs
    BY <1>1 DEF Cut, Outputs
  <2> HIDE DEF c
  <2>3. r \in Outputs /\ r.mark = "restored_cut"
    BY <2>2 DEF Outputs, Marks
  <2>4. Stores(r)
    BY <2>3 DEF Stores, Pointer
  <2>5. QED BY <1>3, <2>1, <2>3, <2>4
<1>6. QED BY <1>4, <1>5

(* A result that repeats one in history is short. *)
LEMMA DuplicateIs ==
  ASSUME NEW h \in Seq(Outputs), NEW p, Verbatim(h, p) # {}
  PROVE  /\ find_duplicate_tool_result(h, p) \in Outputs
         /\ find_duplicate_tool_result(h, p).size \leq INGRESS_MAX
<1> DEFINE V == Verbatim(h, p)
           i == CHOOSE n \in V : \A m \in V : m <= n
           c == Cut(h[i], Preview)
           d == [c EXCEPT !.mark = "duplicate"]
<1>1. \E n \in V : \A m \in V : m <= n
  <2>1. V \subseteq 1 .. Len(h) /\ Len(h) \in Nat /\ V # {}
    BY DEF Verbatim
  <2> HIDE DEF V
  <2> DEFINE S == {Len(h) - n : n \in V}
  <2>2. S \subseteq Nat /\ S # {}
    <3>1. ASSUME NEW n \in V PROVE Len(h) - n \in Nat
      BY <2>1
    <3>2. QED BY <2>1, <3>1
  <2> HIDE DEF S
  <2>3. PICK s \in S : \A m \in S : ~(m < s)
    BY <2>2, Least
  <2>4. PICK n \in V : s = Len(h) - n
    BY DEF S
  <2>5. ASSUME NEW m \in V PROVE m <= n
    <3>1. ~(Len(h) - m < Len(h) - n)
      BY <2>3, <2>4 DEF S
    <3>2. m \in Int /\ n \in Int
      BY <2>1
    <3>3. QED BY <2>1, <3>1, <3>2
  <2>6. QED BY <2>5
<1>2. i \in V
  BY <1>1
<1>3. h[i] \in Outputs
  BY <1>2 DEF Verbatim
<1>4. find_duplicate_tool_result(h, p) = d
  BY DEF find_duplicate_tool_result
<1> HIDE DEF i
<1>5. Preview \in Nat /\ Preview \leq INGRESS_MAX
  BY OutputCacheAssumption
<1>6. c \in Outputs /\ c.size = Preview
  BY <1>3, <1>5 DEF Cut, Outputs
<1> HIDE DEF c
<1>7. d \in Outputs /\ d.size = Preview
  BY <1>6 DEF Outputs, Marks
<1>8. QED BY <1>4, <1>5, <1>7

-----------------------------------------------------------------------------
(* The actions. *)

(* An excuse stays when nothing it names changes: the tree and the outside changes  *)
(* are the same, and no wipe that was due is taken from its agent.                 *)
LEMMA ExcusesStay ==
  ASSUME tree' = tree, outside' = outside,
         \A a \in Agents : job[a].at = "wipe" => job'[a] = job[a]
  PROVE  Excuses
  BY DEF Excuses, Rightly

(* Nothing goes into the cache. *)
LEMMA EntriesStay == ASSUME cache' = cache PROVE EntriesFrom
  BY DEF EntriesFrom

(* One job is replaced by another, and nothing else changes. *)
LEMMA JobReplaced ==
  ASSUME CacheInv, NEW a \in Agents, job[a].at # "wipe", NEW j \in Jobs,
         job' = [job EXCEPT ![a] = j],
         tree' = tree, cache' = cache, hist' = hist, wipes' = wipes, outside' = outside,
         Carries(j) /\ ~Stores(j.out) => Capped(j.out),
         Carries(j) => \/ j.epoch = -1
                       \/ /\ j.epoch = wipes /\ j.path \in Paths
                          /\ Storing(j) => j.out = Fresh(Home[a], j.path)
  PROVE  Keeps
<1>1. Shape /\ Accounts(cache) /\ Limits(cache) /\ Short /\ job \in [Agents -> Jobs]
  BY DEF CacheInv, Shape
<1>2. job' \in [Agents -> Jobs] /\ job'[a] = j /\ \A b \in Agents \ {a} : job'[b] = job[b]
  BY <1>1
<1>3. Shape'
  BY <1>1, <1>2 DEF Shape
<1>4. Short'
  <2>1. ASSUME NEW b \in Agents, Carries(job'[b]), ~Stores(job'[b].out) PROVE Capped(job'[b].out)
    BY <1>1, <1>2, <2>1 DEF Short
  <2>2. QED BY <1>1, <2>1 DEF Short
<1>5. Carried
  <2>1. JobsFrom
    BY <1>2 DEF JobsFrom
  <2>2. Excuses
    BY <1>2, ExcusesStay
  <2>3. QED BY <2>1, <2>2, EntriesStay DEF Carried
<1>6. QED BY <1>1, <1>3, <1>4, <1>5 DEF Keeps

(* A look-up finds its agent in no write, and sends it on to the next place. *)
LEMMA ComesIdle ==
  ASSUME NEW a \in Agents, NEW p \in Paths, NEW place \in {"cache", "history"}, Comes(a, p, place)
  PROVE  job[a].at # "wipe"
  BY DEF Comes, Busy

LEMMA OnwardIs ==
  ASSUME NEW a \in Agents, NEW p \in Paths, NEW place \in {"cache", "history"}
  PROVE  Onward(a, p, place) \in Jobs /\ ~Carries(Onward(a, p, place)) /\ Onward(a, p, place).at # "wipe"
<1>1. PICK s \in {"cache", "history", "execute"} : Onward(a, p, place) = [at |-> s, path |-> p]
  BY DEF Onward, First, Second
<1>2. QED BY <1>1, MakesJobs

(* A call that is answered from the cache, or not. *)
LEMMA LookInCacheKeeps ==
  ASSUME CacheInv, NEW a \in Agents, NEW p \in Paths, LookInCache(a, p)
  PROVE  Keeps
<1> DEFINE k == KeyOf(a, p)
           j == IF Cached(k) THEN Answering(p, apply_restore_cap(cache.map[k].out), -1)
                ELSE Onward(a, p, "cache")
<1>1. /\ job[a].at # "wipe" /\ job' = [job EXCEPT ![a] = j]
      /\ tree' = tree /\ cache' = cache /\ hist' = hist /\ wipes' = wipes /\ outside' = outside
  BY ComesIdle DEF LookInCache
<1>2. cache \in Caches
  BY DEF CacheInv, Accounts
<1>3. k \in Keys
  BY KeyIs
<1>4. /\ j \in Jobs /\ j.at # "wipe"
      /\ Carries(j) => j.epoch = -1
      /\ Carries(j) /\ ~Stores(j.out) => Capped(j.out)
  <2>1. CASE Cached(k)
    <3>1. cache.map[k] \in Entries
      BY <1>2, <1>3, <2>1 DEF Cached, Caches
    <3> DEFINE out == cache.map[k].out
    <3>2. out \in Outputs
      BY <3>1, EntryIs
    <3> HIDE DEF out, k
    <3>3. /\ apply_restore_cap(out) \in Outputs
          /\ ~Stores(apply_restore_cap(out)) => apply_restore_cap(out).size \leq INGRESS_MAX
      BY <3>2, CapsAre
    <3>4. j = Answering(p, apply_restore_cap(out), -1)
      BY <2>1 DEF out
    <3> HIDE DEF j
    <3>5. -1 \in Int
      OBVIOUS
    <3>6. QED BY <3>3, <3>4, <3>5, MakesJobs DEF Capped
  <2>2. CASE ~Cached(k)
    <3>1. j = Onward(a, p, "cache")
      BY <2>2
    <3> HIDE DEF j
    <3>2. QED BY <3>1, OnwardIs
  <2>3. QED BY <2>1, <2>2
<1> HIDE DEF j
<1>5. QED BY <1>1, <1>4, JobReplaced

(* An agent's look at its own history. *)
LEMMA LookBackKeeps ==
  ASSUME CacheInv, NEW a \in Agents, NEW p \in Paths, LookBack(a, p)
  PROVE  Keeps
<1> DEFINE j == IF Verbatim(hist[a], p) # {}
                THEN Answering(p, find_duplicate_tool_result(hist[a], p), -1)
                ELSE Onward(a, p, "history")
<1>1. /\ job[a].at # "wipe" /\ job' = [job EXCEPT ![a] = j]
      /\ tree' = tree /\ cache' = cache /\ hist' = hist /\ wipes' = wipes /\ outside' = outside
  BY ComesIdle DEF LookBack
<1>2. hist[a] \in Seq(Outputs)
  BY DEF CacheInv, Shape
<1>3. /\ j \in Jobs
      /\ Carries(j) => j.epoch = -1
      /\ Carries(j) /\ ~Stores(j.out) => Capped(j.out)
  <2>1. CASE Verbatim(hist[a], p) # {}
    <3> DEFINE out == find_duplicate_tool_result(hist[a], p)
    <3>1. out \in Outputs /\ Capped(out)
      BY <1>2, <2>1, DuplicateIs DEF Capped
    <3>2. j = Answering(p, out, -1) /\ -1 \in Int
      BY <2>1
    <3> HIDE DEF j, out
    <3>3. QED BY <3>1, <3>2, MakesJobs
  <2>2. CASE Verbatim(hist[a], p) = {}
    <3>1. j = Onward(a, p, "history")
      BY <2>2
    <3> HIDE DEF j
    <3>2. QED BY <3>1, OnwardIs
  <2>3. QED BY <2>1, <2>2
<1> HIDE DEF j
<1>4. QED BY <1>1, <1>3, JobReplaced

(* Executing reads the tree as it is. *)
LEMMA ExecuteKeeps ==
  ASSUME CacheInv, NEW a \in Agents, Execute(a)
  PROVE  Keeps
<1> DEFINE p == job[a].path
<1>1. PICK out \in {Fresh(Home[a], p)} \cup {Failed(Home[a], p, n) : n \in ErrorSizes} :
         job' = [job EXCEPT ![a] = Answering(p, out, wipes)]
  BY DEF Execute
<1>2. /\ job[a].at = "execute"
      /\ tree' = tree /\ cache' = cache /\ hist' = hist /\ wipes' = wipes /\ outside' = outside
  BY DEF Execute
<1>3. Shape /\ job[a] \in Jobs /\ wipes \in Int
  BY DEF CacheInv, Shape
<1>4. p \in Paths
  BY <1>2, <1>3, JobIs
<1> HIDE DEF p
<1>5. /\ out \in Outputs
      /\ Stores(out) => out = Fresh(Home[a], p)
      /\ ~Stores(out) => Capped(out)
  BY <1>1, <1>3, <1>4, FreshIs DEF Capped
<1> DEFINE j == Answering(p, out, wipes)
<1>6. j \in Jobs /\ j.out = out /\ j.epoch = wipes /\ j.path = p /\ j.at = "answer"
  BY <1>3, <1>4, <1>5, MakesJobs
<1>7. job' = [job EXCEPT ![a] = j]
  BY <1>1
<1> HIDE DEF j
<1>8. QED BY <1>2, <1>4, <1>5, <1>6, <1>7, JobReplaced DEF Storing

(* So does a search that is executed ahead. *)
LEMMA PrefetchKeeps ==
  ASSUME CacheInv, NEW p \in Paths, Prefetch(p)
  PROVE  Keeps
<1> DEFINE out == Fresh(Home[Main], p)
           j == [at |-> "prefetch", path |-> p, out |-> out, epoch |-> wipes]
<1>1. /\ job[Main].at = "idle" /\ job' = [job EXCEPT ![Main] = j]
      /\ tree' = tree /\ cache' = cache /\ hist' = hist /\ wipes' = wipes /\ outside' = outside
  BY DEF Prefetch, Busy
<1>2. Shape /\ Main \in Agents /\ wipes \in Int
  BY DEF CacheInv, Shape, Agents
<1>3. out \in Outputs /\ Stores(out)
  BY <1>2, FreshIs
<1> HIDE DEF out
<1>4. j \in Jobs /\ j.out = out /\ j.epoch = wipes /\ j.path = p
  BY <1>2, <1>3 DEF Jobs
<1> HIDE DEF j
<1>5. QED BY <1>1, <1>2, <1>3, <1>4, JobReplaced DEF out

(* An output that its agent carries may be stored under the key of its call. *)
LEMMA StoreKeeps ==
  ASSUME CacheInv, NEW a \in Agents, Carries(job[a]), Storing(job[a]),
         cache' = insert(cache, KeyOf(a, job[a].path), Executed(job[a].out, job[a].epoch))
  PROVE  Accounts(cache') /\ Limits(cache') /\ EntriesFrom
<1> DEFINE k == KeyOf(a, job[a].path)  e == Executed(job[a].out, job[a].epoch)
<1>1. job[a].path \in Paths /\ job[a].out \in Outputs /\ job[a].epoch \in Int
  <2>1. job[a] \in Jobs /\ job[a].at # "idle"
    BY DEF CacheInv, Shape, Carries
  <2>2. QED BY <2>1, JobIs
<1>2. k \in Keys
  BY <1>1, KeyIs
<1>3. e \in Entries
  BY <1>1 DEF Executed, Entries
<1>4. Inserts(cache, k, e)
  BY <1>2, <1>3, InsertAccounts DEF CacheInv
<1>5. /\ Accounts(cache') /\ Limits(cache')
      /\ cache'.map[k] = e /\ \A i \in Keys \ {k} : cache'.map[i] \in {cache.map[i], NoEntry}
  BY <1>4 DEF Inserts
<1>6. EntriesFrom
  BY <1>5 DEF EntriesFrom
<1>7. QED BY <1>5, <1>6

(* An answer goes into the conversation, and into the cache if it is worth keeping. *)
LEMMA DeliverKeeps ==
  ASSUME CacheInv, NEW a \in Agents, Deliver(a)
  PROVE  Keeps
<1> DEFINE out == job[a].out
           said == IF Stores(out) THEN apply_ingress_cap(out) ELSE out
<1>1. /\ job[a].at = "answer" /\ job' = [job EXCEPT ![a] = NoCall]
      /\ cache' = IF Stores(out)
                  THEN insert(cache, KeyOf(a, job[a].path), Executed(out, job[a].epoch))
                  ELSE cache
      /\ hist' = [hist EXCEPT ![a] = Append(@, said)]
      /\ tree' = tree /\ wipes' = wipes /\ outside' = outside
  BY DEF Deliver
<1>2. /\ Shape /\ Short /\ Accounts(cache) /\ Limits(cache)
      /\ job \in [Agents -> Jobs] /\ hist \in [Agents -> Seq(Outputs)]
  BY DEF CacheInv, Shape
<1>3. Carries(job[a]) /\ out \in Outputs
  BY <1>1, <1>2, JobIs DEF Carries
<1>4. said \in Outputs /\ Capped(said)
  <2>1. CASE Stores(out)
    BY <1>3, <2>1, CapsAre DEF Capped
  <2>2. CASE ~Stores(out)
    BY <1>2, <1>3, <2>2 DEF Short
  <2>3. QED BY <2>1, <2>2
<1> HIDE DEF said
<1>5. /\ hist' \in [Agents -> Seq(Outputs)]
      /\ hist'[a] = Append(hist[a], said) /\ \A b \in Agents \ {a} : hist'[b] = hist[b]
  BY <1>1, <1>2, <1>4
<1>6. job' \in [Agents -> Jobs] /\ ~Carries(job'[a]) /\ \A b \in Agents \ {a} : job'[b] = job[b]
  BY <1>1, <1>2, MakesJobs
<1>7. Shape'
  BY <1>1, <1>2, <1>5, <1>6 DEF Shape
<1>8. Short'
  <2>1. ASSUME NEW b \in Agents, NEW i \in DOMAIN hist'[b] PROVE Capped(hist'[b][i])
    <3>1. CASE b = a
      <4>1. hist[a] \in Seq(Outputs) /\ hist'[b] = Append(hist[a], said)
        BY <1>2, <1>5, <3>1
      <4>2. i = Len(hist[a]) + 1 \/ i \in DOMAIN hist[a]
        BY <4>1
      <4>3. CASE i = Len(hist[a]) + 1
        BY <1>4, <4>1, <4>3
      <4>4. CASE i \in DOMAIN hist[a]
        <5>1. hist'[b][i] = hist[a][i]
          BY <4>1, <4>4
        <5>2. QED BY <1>2, <4>4, <5>1 DEF Short
      <4>5. QED BY <4>2, <4>3, <4>4
    <3>2. CASE b # a
      BY <1>2, <1>5, <3>2 DEF Short
    <3>3. QED BY <3>1, <3>2
  <2>2. ASSUME NEW b \in Agents, Carries(job'[b]), ~Stores(job'[b].out) PROVE Capped(job'[b].out)
    BY <1>2, <1>6, <2>2 DEF Short
  <2>3. QED BY <2>1, <2>2 DEF Short
<1>9. Accounts(cache') /\ Limits(cache') /\ EntriesFrom
  <2>1. CASE Stores(out)
    BY <1>1, <1>3, <2>1, StoreKeeps DEF Storing
  <2>2. CASE ~Stores(out)
    BY <1>1, <1>2, <2>2, EntriesStay
  <2>3. QED BY <2>1, <2>2
<1>10. Carried
  <2>1. JobsFrom
    BY <1>6 DEF JobsFrom
  <2>2. Excuses
    BY <1>1, <1>6, ExcusesStay
  <2>3. QED BY <1>1, <1>9, <2>1, <2>2 DEF Carried
<1>11. QED BY <1>7, <1>8, <1>9, <1>10 DEF Keeps

(* A job that ends carries nothing. *)
LEMMA JobEnds ==
  ASSUME CacheInv, NEW a \in Agents, job' = [job EXCEPT ![a] = NoCall],
         tree' = tree, hist' = hist, wipes' \in Nat
  PROVE  /\ Shape' /\ Short'
         /\ \A b \in Agents : job'[b] = job[b] \/ ~Carries(job'[b])
         /\ \A b \in Agents \ {a} : job'[b] = job[b]
<1>1. Shape /\ Short /\ job \in [Agents -> Jobs]
  BY DEF CacheInv, Shape
<1>2. job' \in [Agents -> Jobs] /\ ~Carries(job'[a]) /\ \A b \in Agents \ {a} : job'[b] = job[b]
  BY <1>1, MakesJobs
<1>3. Shape'
  BY <1>1, <1>2 DEF Shape
<1>4. ASSUME NEW b \in Agents, Carries(job'[b]), ~Stores(job'[b].out) PROVE Capped(job'[b].out)
  BY <1>1, <1>2, <1>4 DEF Short
<1>5. Short'
  BY <1>1, <1>4 DEF Short
<1>6. QED BY <1>2, <1>3, <1>5

(* The search that was executed ahead is stored. *)
LEMMA PrefetchDoneKeeps ==
  ASSUME CacheInv, PrefetchDone
  PROVE  Keeps
<1>1. /\ job[Main].at = "prefetch" /\ job' = [job EXCEPT ![Main] = NoCall]
      /\ cache' = insert(cache, KeyOf(Main, job[Main].path), Executed(job[Main].out, job[Main].epoch))
      /\ tree' = tree /\ hist' = hist /\ wipes' = wipes /\ outside' = outside
  BY DEF PrefetchDone
<1>2. Main \in Agents /\ Carries(job[Main]) /\ Storing(job[Main]) /\ Shape /\ wipes \in Nat
  BY <1>1 DEF Agents, Carries, Storing, CacheInv, Shape
<1>3. /\ Shape' /\ Short'
      /\ \A b \in Agents : job'[b] = job[b] \/ ~Carries(job'[b])
      /\ \A b \in Agents \ {Main} : job'[b] = job[b]
  BY <1>1, <1>2, JobEnds
<1>4. Accounts(cache') /\ Limits(cache') /\ EntriesFrom
  BY <1>1, <1>2, StoreKeeps
<1>5. JobsFrom
  BY <1>3 DEF JobsFrom
<1>6. Excuses
  BY <1>1, <1>3, ExcusesStay
<1>7. QED BY <1>1, <1>3, <1>4, <1>5, <1>6 DEF Carried, Keeps

(* A change of one path. *)
LEMMA TouchIs ==
  ASSUME Shape, NEW w \in Workspaces, NEW p \in Paths, Touch(w, p)
  PROVE  /\ tree' \in [Workspaces -> [Paths -> Nat]]
         /\ \A v \in Workspaces, q \in Paths : (v = w /\ q = p) \/ tree'[v][q] = tree[v][q]
<1> DEFINE f == [tree[w] EXCEPT ![p] = tree[w][p] + 1]
<1>1. tree \in [Workspaces -> [Paths -> Nat]] /\ tree[w] \in [Paths -> Nat]
  BY DEF Shape
<1>2. tree[w][p] \in Nat /\ tree[w][p] + 1 \in Nat
  BY <1>1
<1>3. f \in [Paths -> Nat] /\ \A q \in Paths : q = p \/ f[q] = tree[w][q]
  BY <1>1, <1>2
<1>4. tree' = [tree EXCEPT ![w] = f]
  BY <1>1 DEF Touch
<1> HIDE DEF f
<1>5. tree' \in [Workspaces -> [Paths -> Nat]] /\ tree'[w] = f
      /\ \A v \in Workspaces \ {w} : tree'[v] = tree[v]
  BY <1>1, <1>3, <1>4
<1>6. QED BY <1>3, <1>5

(* Writing makes the outputs of one path old, and says so by the wipe that is due.  *)
LEMMA WriteKeeps ==
  ASSUME CacheInv, NEW a \in Agents, NEW p \in Paths, Write(a, p)
  PROVE  Keeps
<1> DEFINE w == Home[a]  j == [at |-> "wipe", path |-> p]
<1>1. /\ job[a].at = "idle" /\ job' = [job EXCEPT ![a] = j]
      /\ Touch(w, p) /\ w \in Workspaces
      /\ cache' = cache /\ hist' = hist /\ wipes' = wipes /\ outside' = outside
  BY KeyIs DEF Write, Busy
<1>2. /\ Shape /\ Accounts(cache) /\ Limits(cache) /\ Short
      /\ job \in [Agents -> Jobs]
  BY DEF CacheInv, Shape
<1>3. j \in Jobs /\ ~Carries(j) /\ j.at = "wipe" /\ j.path = p
  BY MakesJobs
<1> HIDE DEF j
<1>4. job' \in [Agents -> Jobs] /\ job'[a] = j /\ \A b \in Agents \ {a} : job'[b] = job[b]
  BY <1>1, <1>2, <1>3
<1>5. /\ tree' \in [Workspaces -> [Paths -> Nat]]
      /\ \A v \in Workspaces, q \in Paths : (v = w /\ q = p) \/ tree'[v][q] = tree[v][q]
  BY <1>1, <1>2, TouchIs
<1>6. Shape'
  BY <1>1, <1>2, <1>4, <1>5 DEF Shape
<1>7. Short'
  <2>1. ASSUME NEW b \in Agents, Carries(job'[b]), ~Stores(job'[b].out) PROVE Capped(job'[b].out)
    BY <1>2, <1>3, <1>4, <2>1 DEF Short
  <2>2. QED BY <1>1, <1>2, <2>1 DEF Short
<1>8. Excuses
  <2>1. ASSUME NEW out \in Outputs, NEW v \in Workspaces, NEW q \in Paths,
               Rightly(out, v, q, tree, outside, job)
        PROVE  Rightly(out, v, q, tree', outside', job')
    <3>1. CASE v = w /\ q = p
      BY <1>3, <1>4, <2>1, <3>1 DEF Rightly
    <3>2. CASE ~(v = w /\ q = p)
      <4>1. tree'[v][q] = tree[v][q]
        BY <1>5, <3>2
      <4>2. \A b \in Agents : job[b].at = "wipe" => job'[b] = job[b]
        BY <1>1, <1>4
      <4>3. QED BY <1>1, <2>1, <4>1, <4>2 DEF Rightly
    <3>3. QED BY <3>1, <3>2
  <2>2. QED BY <2>1 DEF Excuses
<1>9. JobsFrom
  BY <1>3, <1>4 DEF JobsFrom
<1>10. QED BY <1>1, <1>2, <1>6, <1>7, <1>8, <1>9, EntriesStay DEF Carried, Keeps

(* A change that no tool reports is noted outside. *)
LEMMA ChangeOutsideKeeps ==
  ASSUME CacheInv, NEW w \in Workspaces, NEW p \in Paths, ChangeOutside(w, p)
  PROVE  Keeps
<1>1. /\ Touch(w, p) /\ outside' = outside \cup {<<w, p>>}
      /\ cache' = cache /\ hist' = hist /\ wipes' = wipes /\ job' = job
  BY DEF ChangeOutside, OnlyChanges
<1>2. /\ Shape /\ Accounts(cache) /\ Limits(cache) /\ Short
  BY DEF CacheInv, Shape
<1>3. /\ tree' \in [Workspaces -> [Paths -> Nat]]
      /\ \A v \in Workspaces, q \in Paths : (v = w /\ q = p) \/ tree'[v][q] = tree[v][q]
  BY <1>1, <1>2, TouchIs
<1>4. Shape' /\ Short'
  BY <1>1, <1>2, <1>3 DEF Shape, Short
<1>5. Excuses
  <2>1. ASSUME NEW out \in Outputs, NEW v \in Workspaces, NEW q \in Paths,
               Rightly(out, v, q, tree, outside, job)
        PROVE  Rightly(out, v, q, tree', outside', job')
    <3>1. CASE v = w /\ q = p
      BY <1>1, <2>1, <3>1 DEF Rightly
    <3>2. CASE ~(v = w /\ q = p)
      <4>1. tree'[v][q] = tree[v][q]
        BY <1>3, <3>2
      <4>2. QED BY <1>1, <2>1, <4>1 DEF Rightly
    <3>3. QED BY <3>1, <3>2
  <2>2. QED BY <2>1 DEF Excuses
<1>6. JobsFrom
  BY <1>1 DEF JobsFrom
<1>7. QED BY <1>1, <1>2, <1>4, <1>5, <1>6, EntriesStay DEF Carried, Keeps

(* The wipe leaves nothing to be old. *)
LEMMA InvalidateKeeps ==
  ASSUME CacheInv, NEW a \in Agents, invalidate_all(a)
  PROVE  Keeps
<1>1. /\ job' = [job EXCEPT ![a] = NoCall] /\ cache' = Empty /\ wipes' = wipes + 1
      /\ tree' = tree /\ hist' = hist
  BY DEF invalidate_all
<1>2. wipes' \in Nat
  BY <1>1 DEF CacheInv, Shape
<1>3. /\ Shape' /\ Short'
      /\ \A b \in Agents : job'[b] = job[b] \/ ~Carries(job'[b])
  BY <1>1, <1>2, JobEnds
<1>4. Accounts(cache') /\ Limits(cache')
  BY <1>1, EmptyAccounts
<1>5. QED BY <1>1, <1>3, <1>4 DEF Wiped, Keeps

(* A call that is dropped leaves what it changed, and says so by a change outside. *)
LEMMA DropCallKeeps ==
  ASSUME CacheInv, NEW a \in Agents, DropCall(a)
  PROVE  Keeps
<1>1. /\ job' = [job EXCEPT ![a] = NoCall]
      /\ tree' = tree /\ cache' = cache /\ hist' = hist /\ wipes' = wipes
      /\ outside' = IF job[a].at = "wipe" THEN outside \cup {<<Home[a], job[a].path>>} ELSE outside
  BY DEF DropCall, OnlyChanges
<1>2. Accounts(cache) /\ Limits(cache) /\ wipes \in Nat
  BY DEF CacheInv, Shape
<1>3. /\ Shape' /\ Short'
      /\ \A b \in Agents : job'[b] = job[b] \/ ~Carries(job'[b])
      /\ \A b \in Agents \ {a} : job'[b] = job[b]
  BY <1>1, <1>2, JobEnds
<1>4. Excuses
  <2>1. ASSUME NEW out \in Outputs, NEW v \in Workspaces, NEW q \in Paths,
               Rightly(out, v, q, tree, outside, job)
        PROVE  Rightly(out, v, q, tree', outside', job')
    <3>1. CASE job[a].at = "wipe" /\ Home[a] = v /\ job[a].path = q
      BY <1>1, <2>1, <3>1 DEF Rightly
    <3>2. CASE ~(job[a].at = "wipe" /\ Home[a] = v /\ job[a].path = q)
      <4>1. outside \subseteq outside'
        BY <1>1
      <4>2. QED BY <1>1, <1>3, <2>1, <3>2, <4>1 DEF Rightly
    <3>3. QED BY <3>1, <3>2
  <2>2. QED BY <2>1 DEF Excuses
<1>5. JobsFrom
  BY <1>3 DEF JobsFrom
<1>6. QED BY <1>1, <1>2, <1>3, <1>4, <1>5, EntriesStay DEF Carried, Keeps

(* So does a conversation that is forgotten, with every call in it. *)
LEMMA ForgetKeeps ==
  ASSUME CacheInv, Forget
  PROVE  Keeps
<1>1. /\ job' = [a \in Agents |-> NoCall] /\ cache' = Empty /\ wipes' = wipes + 1
      /\ tree' = tree /\ hist' = [a \in Agents |-> <<>>]
  BY DEF Forget
<1>2. \A a \in Agents : job'[a] = NoCall /\ ~Carries(job'[a]) /\ hist'[a] = <<>>
  BY <1>1, MakesJobs
<1>3. Shape'
  <2>1. wipes' \in Nat /\ tree' \in [Workspaces -> [Paths -> Nat]]
    BY <1>1 DEF CacheInv, Shape
  <2>2. hist' \in [Agents -> Seq(Outputs)] /\ job' \in [Agents -> Jobs]
    BY <1>1, MakesJobs
  <2>3. QED BY <2>1, <2>2 DEF Shape
<1>4. Short'
  BY <1>2 DEF Short
<1>5. Accounts(cache') /\ Limits(cache')
  BY <1>1, EmptyAccounts
<1>6. QED BY <1>1, <1>2, <1>3, <1>4, <1>5 DEF Wiped, Keeps

(* Digests are stored first, and then collapse what is large. *)
LEMMA SoftDigestKeeps ==
  ASSUME CacheInv, NEW a \in Agents, soft_digest_conversation(a)
  PROVE  Keeps
<1> DEFINE digested(out) == [Cut(out, DIGEST_MIN) EXCEPT !.mark = "digested"]
           after(n) == [i \in DOMAIN hist[a] |->
                          IF i <= n /\ Large(hist[a][i]) THEN digested(hist[a][i]) ELSE hist[a][i]]
<1>1. PICK n \in 1 .. Len(hist[a]) : hist' = [hist EXCEPT ![a] = after(n)]
  BY DEF soft_digest_conversation
<1>2. /\ cache' = cache_tool_results_before_digest(hist[a])
      /\ tree' = tree /\ job' = job /\ wipes' = wipes /\ outside' = outside
  BY DEF soft_digest_conversation
<1>3. /\ Shape /\ Short /\ Accounts(cache) /\ Limits(cache) /\ hist \in [Agents -> Seq(Outputs)]
  BY DEF CacheInv, Shape
<1>4. ASSUME NEW out \in Outputs
      PROVE  digested(out) \in Outputs /\ Capped(digested(out))
  <2>1. DIGEST_MIN \in Nat /\ DIGEST_MIN \leq INGRESS_MAX
    BY OutputCacheAssumption
  <2> DEFINE c == Cut(out, DIGEST_MIN)
  <2>2. c \in Outputs /\ c.size = DIGEST_MIN
    BY <2>1 DEF Cut, Outputs
  <2> HIDE DEF c
  <2>3. [c EXCEPT !.mark = "digested"] \in Outputs /\ [c EXCEPT !.mark = "digested"].size = DIGEST_MIN
    BY <2>2 DEF Outputs, Marks
  <2>4. QED BY <2>1, <2>3 DEF c, Capped
<1> HIDE DEF digested
<1>5. /\ after(n) \in Seq(Outputs) /\ DOMAIN after(n) = DOMAIN hist[a]
      /\ \A i \in DOMAIN hist[a] : Capped(after(n)[i])
  <2>1. hist[a] \in Seq(Outputs) /\ DOMAIN hist[a] = 1 .. Len(hist[a])
    BY <1>3
  <2>2. ASSUME NEW i \in DOMAIN hist[a]
        PROVE  after(n)[i] \in Outputs /\ Capped(after(n)[i])
    <3>1. hist[a][i] \in Outputs /\ Capped(hist[a][i])
      BY <1>3, <2>1 DEF Short
    <3>2. after(n)[i] \in {digested(hist[a][i]), hist[a][i]}
      OBVIOUS
    <3> HIDE DEF after
    <3>3. QED BY <1>4, <3>1, <3>2
  <2>3. after(n) \in [1 .. Len(hist[a]) -> Outputs]
    BY <2>1, <2>2
  <2>4. DOMAIN after(n) = DOMAIN hist[a]
    OBVIOUS
  <2> HIDE DEF after
  <2>5. QED BY <2>1, <2>2, <2>3, <2>4
<1> HIDE DEF after
<1>6. /\ hist' \in [Agents -> Seq(Outputs)]
      /\ hist'[a] = after(n) /\ \A b \in Agents \ {a} : hist'[b] = hist[b]
  BY <1>1, <1>3, <1>5
<1>7. Shape'
  BY <1>2, <1>3, <1>6 DEF Shape
<1>8. Short'
  BY <1>2, <1>3, <1>5, <1>6 DEF Short
<1>9. Accounts(cache') /\ Limits(cache') /\ EntriesFrom
  <2>1. hist[a] \in Seq(Outputs)
    BY <1>3
  <2> DEFINE d == cache_tool_results_before_digest(hist[a])
  <2>2. Accounts(d) /\ Limits(d) /\ Digests(d, cache)
    BY <1>3, <2>1, DigestAccounts
  <2> HIDE DEF d
  <2>3. cache' = d
    BY <1>2 DEF d
  <2>4. QED BY <2>2, <2>3 DEF EntriesFrom, Digests
<1>10. Excuses
  BY <1>2, ExcusesStay
<1>11. JobsFrom
  BY <1>2 DEF JobsFrom
<1>12. QED BY <1>2, <1>7, <1>8, <1>9, <1>10, <1>11 DEF Carried, Keeps

-----------------------------------------------------------------------------
(* The invariant holds throughout. *)

(* Every action keeps it, and so does no action. *)
LEMMA ActionsKeep == ASSUME CacheInv, CacheNext PROVE Keeps
<1>1. CASE \E a \in Agents, p \in Paths : LookInCache(a, p) \/ LookBack(a, p) \/ Write(a, p)
  BY <1>1, LookInCacheKeeps, LookBackKeeps, WriteKeeps
<1>2. CASE \E a \in Agents :
             Execute(a) \/ Deliver(a) \/ invalidate_all(a) \/ DropCall(a) \/ soft_digest_conversation(a)
  BY <1>2, ExecuteKeeps, DeliverKeeps, InvalidateKeeps, DropCallKeeps, SoftDigestKeeps
<1>3. CASE PrefetchDone \/ Forget
  BY <1>3, PrefetchDoneKeeps, ForgetKeeps
<1>4. CASE \E p \in Paths : Prefetch(p)
  BY <1>4, PrefetchKeeps
<1>5. CASE \E w \in Workspaces, p \in Paths : ChangeOutside(w, p)
  BY <1>5, ChangeOutsideKeeps
<1>6. QED BY <1>1, <1>2, <1>3, <1>4, <1>5 DEF CacheNext

(* An entry that is right stays right until the wipe. *)
LEMMA CarriedKeepsFresh ==
  ASSUME CacheInv, Shape', Accounts(cache'), Carried
  PROVE  FreshEntries' /\ FreshJobs'
<1>1. /\ FreshEntries /\ FreshJobs /\ Shape /\ cache \in Caches /\ cache' \in Caches
      /\ wipes \in Nat /\ job \in [Agents -> Jobs]
  BY DEF CacheInv, Accounts, Shape
<1>2. wipes' = wipes /\ EntriesFrom /\ JobsFrom /\ Excuses
  BY DEF Carried
<1>3. ASSUME NEW out \in Outputs, NEW w \in Workspaces, NEW p \in Paths,
             Rightly(out, w, p, tree, outside, job)
      PROVE  Rightly(out, w, p, tree', outside', job')
  BY <1>2, <1>3 DEF Excuses
<1>4. ASSUME NEW a \in Agents, Carries(job[a])
      PROVE  /\ job[a].path \in Paths /\ job[a].out \in Outputs /\ job[a].epoch \in Int
             /\ job[a].epoch \leq wipes
             /\ job[a].epoch = wipes /\ Storing(job[a]) =>
                  Rightly(job[a].out, Home[a], job[a].path, tree', outside', job')
  <2>1. job[a] \in Jobs /\ job[a].at # "idle"
    BY <1>1, <1>4 DEF Carries
  <2>2. job[a].path \in Paths /\ job[a].out \in Outputs /\ job[a].epoch \in Int
    BY <1>4, <2>1, JobIs
  <2>3. Home[a] \in Workspaces
    BY <2>2, KeyIs
  <2>4. /\ job[a].epoch \leq wipes
        /\ job[a].epoch = wipes /\ Storing(job[a]) =>
             Rightly(job[a].out, Home[a], job[a].path, tree, outside, job)
    BY <1>1, <1>4 DEF FreshJobs
  <2>5. QED BY <1>3, <2>2, <2>3, <2>4
<1>5. ASSUME NEW k \in Keys, cache'.map[k] # NoEntry
      PROVE  /\ cache'.map[k].epoch \leq wipes
             /\ cache'.map[k].epoch = wipes =>
                  Rightly(cache'.map[k].out, ScopeOf(k), k[2], tree', outside', job')
  <2>1. CASE cache'.map[k] \in {cache.map[k], NoEntry}
    <3>1. cache'.map[k] = cache.map[k] /\ cache.map[k] \in Entries
      BY <1>1, <1>5, <2>1 DEF Caches
    <3>2. cache.map[k].out \in Outputs
      BY <3>1, EntryIs
    <3>3. ScopeOf(k) \in Workspaces /\ k[2] \in Paths
      BY DEF Keys, Scopes, ScopeOf, Workspaces, Agents
    <3>4. /\ cache.map[k].epoch \leq wipes
          /\ cache.map[k].epoch = wipes =>
               Rightly(cache.map[k].out, ScopeOf(k), k[2], tree, outside, job)
      BY <1>1, <1>5, <3>1 DEF FreshEntries
    <3>5. QED BY <1>3, <3>1, <3>2, <3>3, <3>4
  <2>2. CASE cache'.map[k].epoch = -1
    BY <1>1, <2>2
  <2>3. CASE \E a \in Agents : /\ Carries(job[a]) /\ Storing(job[a])
                               /\ k = KeyOf(a, job[a].path)
                               /\ cache'.map[k] = Executed(job[a].out, job[a].epoch)
    <3>1. PICK a \in Agents : /\ Carries(job[a]) /\ Storing(job[a])
                              /\ k = KeyOf(a, job[a].path)
                              /\ cache'.map[k] = Executed(job[a].out, job[a].epoch)
      BY <2>3
    <3>2. cache'.map[k].out = job[a].out /\ cache'.map[k].epoch = job[a].epoch
      BY <3>1 DEF Executed
    <3>3. ScopeOf(k) = Home[a] /\ k[2] = job[a].path
      BY <1>4, <3>1, KeyIs
    <3>4. QED BY <1>4, <3>1, <3>2, <3>3
  <2>4. QED BY <1>2, <2>1, <2>2, <2>3 DEF EntriesFrom
<1>6. ASSUME NEW a \in Agents, Carries(job'[a])
      PROVE  /\ job'[a].epoch \leq wipes
             /\ job'[a].epoch = wipes /\ Storing(job'[a]) =>
                  Rightly(job'[a].out, Home[a], job'[a].path, tree', outside', job')
  <2>1. CASE job'[a] = job[a]
    BY <1>4, <1>6, <2>1
  <2>2. CASE job'[a].epoch = -1
    BY <1>1, <2>2
  <2>3. CASE /\ job'[a].epoch = wipes /\ job'[a].path \in Paths
             /\ Storing(job'[a]) => job'[a].out = Fresh(Home[a], job'[a].path)
             /\ tree' = tree
    <3> DEFINE p == job'[a].path
    <3>1. ASSUME Storing(job'[a]) PROVE Rightly(job'[a].out, Home[a], p, tree', outside', job')
      <4>1. job'[a].out = Fresh(Home[a], p) /\ p \in Paths
        BY <2>3, <3>1
      <4>2. /\ job'[a].out.ws = Home[a] /\ job'[a].out.path = p
            /\ job'[a].out.version = tree'[Home[a]][p]
        BY <1>1, <2>3, <4>1, FreshIs
      <4>3. QED BY <4>2 DEF Rightly
    <3>2. QED BY <1>1, <2>3, <3>1
  <2>4. QED BY <1>2, <1>6, <2>1, <2>2, <2>3 DEF JobsFrom
<1>7. QED BY <1>2, <1>5, <1>6 DEF FreshEntries, FreshJobs

(* After a wipe everything that is on its way is overtaken. *)
LEMMA WipedKeepsFresh ==
  ASSUME CacheInv, Wiped
  PROVE  FreshEntries' /\ FreshJobs'
<1>1. \A k \in Keys : cache'.map[k] = NoEntry
  BY EmptyAccounts DEF Wiped
<1>2. FreshEntries'
  BY <1>1 DEF FreshEntries
<1>3. ASSUME NEW a \in Agents, Carries(job'[a])
      PROVE  job'[a].epoch \leq wipes' /\ job'[a].epoch # wipes'
  <2>1. job'[a] = job[a] /\ Carries(job[a]) /\ wipes' = wipes + 1
    BY <1>3 DEF Wiped
  <2>2. job[a] \in Jobs /\ job[a].epoch \leq wipes /\ wipes \in Nat
    BY <2>1 DEF CacheInv, Shape, FreshJobs
  <2>3. job[a].epoch \in Int
    BY <2>1, <2>2, JobIs
  <2>4. QED BY <2>1, <2>2, <2>3
<1>4. FreshJobs'
  BY <1>3 DEF FreshJobs
<1>5. QED BY <1>2, <1>4

(* One step. *)
LEMMA CacheStep == CacheInv /\ [CacheNext]_cacheVars => CacheInv'
<1>1. ASSUME CacheInv, CacheNext PROVE CacheInv'
  <2>1. Shape' /\ Accounts(cache') /\ Limits(cache') /\ Short' /\ (Carried \/ Wiped)
    BY <1>1, ActionsKeep DEF Keeps
  <2>2. FreshEntries' /\ FreshJobs'
    BY <1>1, <2>1, CarriedKeepsFresh, WipedKeepsFresh
  <2>3. QED BY <2>1, <2>2 DEF CacheInv
<1>2. ASSUME CacheInv, UNCHANGED cacheVars PROVE CacheInv'
  BY <1>2 DEF cacheVars, CacheInv, Shape, Short, FreshEntries, FreshJobs
<1>3. QED BY <1>1, <1>2

LEMMA CacheInvariance == CacheSpec => []CacheInv
<1>1. CacheInit => CacheInv
  BY CacheInitInv
<1>2. QED BY <1>1, CacheStep, PTL DEF CacheSpec

(* The cache keeps its accounts and its two limits, and no result in a conversation *)
(* but a failed call's is longer than the ingress cap, for any number of agents,    *)
(* paths, sizes and limits (ToolOutputCache::insert, apply_ingress_cap).           *)
THEOREM CacheTypeCorrect == CacheSpec => []CacheTypeOK
<1>1. CacheInv => CacheTypeOK
  BY CacheInvIsFresh
<1>2. QED BY <1>1, CacheInvariance, PTL

(* What the cache holds of the current epoch is of its own workspace and is what     *)
(* the file is now, but for what changed since the last wipe and is still to be     *)
(* wiped, or never will be: a write whose result nobody handles, a change that no   *)
(* tool reports (invalidate_all, cancelled runs).                                  *)
THEOREM CacheIsFresh == CacheSpec => []FreshUnlessRaced
<1>1. CacheInv => FreshUnlessRaced
  BY CacheInvIsFresh
<1>2. QED BY <1>1, CacheInvariance, PTL

-----------------------------------------------------------------------------
(* Recursive functions over a sequence. *)

Goes(h, N, S, g) == \A i \in 1 .. N : h[i - 1] \in S => h[i] = g[<<h[i - 1], i>>]
Remains(h, N, S) == \A i \in 0 .. N : h[i] \in S

(* A function that goes on as g does stays in S. *)
LEMMA Along ==
  ASSUME NEW N \in Nat, NEW S, NEW b \in S, NEW g \in [S \X (1 .. N) -> S], NEW h, h[0] = b,
         Goes(h, N, S, g)
  PROVE  Remains(h, N, S)
<1> DEFINE P == {n \in Nat : n \leq N => h[n] \in S}
<1>1. 0 \in P /\ \A n \in Nat : n \in P => n + 1 \in P
  <2>1. ASSUME NEW n \in Nat, n \in P, n + 1 \leq N PROVE h[n + 1] \in S
    <3>1. n + 1 \in 1 .. N /\ (n + 1) - 1 = n /\ h[n] \in S
      BY <2>1
    <3>2. h[n + 1] = g[<<h[n], n + 1>>] /\ <<h[n], n + 1>> \in S \X (1 .. N)
      BY <3>1 DEF Goes
    <3>3. QED BY <3>2
  <2>2. QED BY <2>1
<1>2. Nat \subseteq P
  <2> HIDE DEF P
  <2>1. QED BY <1>1, NatSetInduction, Zenon
<1>3. QED BY <1>2 DEF Remains

(* The beginnings of a concatenation. *)
Joins(f, ss, S) ==
    /\ f \in [0 .. Len(ss) -> Seq(S)]
    /\ f[0] = <<>>
    /\ \A i \in 1 .. Len(ss) : f[i] = f[i - 1] \o ss[i]
    /\ Concat(ss) = f[Len(ss)]

LEMMA ConcatIs == ASSUME NEW S, NEW ss \in Seq(Seq(S)) PROVE \E f : Joins(f, ss, S)
<1> DEFINE N == Len(ss)
           g == [p \in Seq(S) \X (1 .. N) |-> p[1] \o ss[p[2]]]
           F(f) == [n \in 0 .. N |-> IF n = 0 THEN <<>> ELSE f[n - 1] \o ss[n]]
           h == CHOOSE h : h = F(h)
<1>1. N \in Nat /\ \A i \in 1 .. N : ss[i] \in Seq(S)
  OBVIOUS
<1> HIDE DEF N
<1>2. ASSUME NEW x \in Seq(S), NEW i \in 1 .. N PROVE g[<<x, i>>] = x \o ss[i]
  OBVIOUS
<1>3. g \in [Seq(S) \X (1 .. N) -> Seq(S)]
  <2>1. ASSUME NEW p \in Seq(S) \X (1 .. N) PROVE p[1] \o ss[p[2]] \in Seq(S)
    <3>1. p[1] \in Seq(S) /\ p[2] \in 1 .. N
      OBVIOUS
    <3>2. QED BY <1>1, <3>1
  <2>2. QED BY <2>1
<1> HIDE DEF g
<1>4. PICK f : f \in [0 .. N -> Seq(S)] /\ f[0] = <<>> /\ \A i \in 1 .. N : f[i] = g[<<f[i - 1], i>>]
  <2>1. <<>> \in Seq(S)
    OBVIOUS
  <2>2. \E f : Follows(f, N, Seq(S), <<>>, g)
    BY <1>1, <1>3, <2>1, Recursion
  <2>3. QED BY <2>2 DEF Follows
<1>5. f = F(f)
  <2>1. ASSUME NEW i \in 0 .. N PROVE f[i] = IF i = 0 THEN <<>> ELSE f[i - 1] \o ss[i]
    <3>1. CASE i = 0
      BY <3>1, <1>4
    <3>2. CASE i # 0
      <4>1. i \in 1 .. N /\ i - 1 \in 0 .. N
        BY <1>1, <3>2
      <4>2. QED BY <1>2, <1>4, <3>2, <4>1
    <3>3. QED BY <3>1, <3>2
  <2>2. f = [i \in 0 .. N |-> f[i]]
    BY <1>4
  <2>3. QED BY <2>1, <2>2
<1>6. h = F(h)
  BY <1>5
<1>7. Concat(ss) = h[N]
  BY DEF Concat, N
<1> HIDE DEF h
<1>8. h[0] = <<>> /\ h = [n \in 0 .. N |-> h[n]]
  <2>1. 0 \in 0 .. N
    BY <1>1
  <2>2. QED BY <1>6, <2>1
<1>9. ASSUME NEW i \in 1 .. N PROVE h[i] = h[i - 1] \o ss[i]
  <2>1. i \in 0 .. N /\ i # 0
    BY <1>1
  <2>2. h[i] = IF i = 0 THEN <<>> ELSE h[i - 1] \o ss[i]
    BY <1>6, <2>1
  <2>3. QED BY <2>1, <2>2
<1>10. Remains(h, N, Seq(S))
  <2>1. <<>> \in Seq(S)
    OBVIOUS
  <2>2. Goes(h, N, Seq(S), g)
    BY <1>2, <1>9 DEF Goes
  <2>3. N \in Nat /\ h[0] = <<>>
    BY <1>1, <1>8
  <2>4. QED BY <1>3, <2>1, <2>2, <2>3, Along
<1>11. h \in [0 .. N -> Seq(S)]
  BY <1>8, <1>10 DEF Remains
<1>12. QED BY <1>7, <1>8, <1>9, <1>11 DEF Joins, N

(* Where the members of a concatenation are: member y is number in[y] of part pos[y]. *)
Layout(pos, in, ss, t) ==
    /\ \A y \in DOMAIN t : /\ pos[y] \in DOMAIN ss /\ in[y] \in DOMAIN ss[pos[y]]
                           /\ t[y] = ss[pos[y]][in[y]]
    /\ \A y, z \in DOMAIN t : y < z => pos[y] < pos[z] \/ (pos[y] = pos[z] /\ in[y] < in[z])
    /\ \A i \in DOMAIN ss : \A j \in DOMAIN ss[i] : \E y \in DOMAIN t : pos[y] = i /\ in[y] = j

(* One part more at the end. *)
LEMMA LayoutMore ==
  ASSUME NEW S, NEW ss \in Seq(Seq(S)), NEW n \in Nat, n + 1 \in DOMAIN ss, NEW t \in Seq(S),
         NEW pos, NEW in, Layout(pos, in, SubSeq(ss, 1, n), t)
  PROVE  \E pos2, in2 : Layout(pos2, in2, SubSeq(ss, 1, n + 1), t \o ss[n + 1])
<1> DEFINE u == ss[n + 1]  T == Len(t)  U == Len(u)  w == t \o u
           front == SubSeq(ss, 1, n)  more == SubSeq(ss, 1, n + 1)
           pos2 == [y \in 1 .. T + U |-> IF y \leq T THEN pos[y] ELSE n + 1]
           in2 == [y \in 1 .. T + U |-> IF y \leq T THEN in[y] ELSE y - T]
<1>1. u \in Seq(S) /\ T \in Nat /\ U \in Nat
  OBVIOUS
<1>2. /\ DOMAIN w = 1 .. T + U /\ DOMAIN t = 1 .. T /\ DOMAIN u = 1 .. U
      /\ \A y \in 1 .. T : w[y] = t[y]
      /\ \A j \in 1 .. U : w[T + j] = u[j]
  BY <1>1
<1>3. /\ DOMAIN front = 1 .. n /\ DOMAIN more = 1 .. n + 1 /\ more[n + 1] = u
      /\ \A i \in 1 .. n : more[i] = front[i]
  <2>1. Len(ss) \in Nat /\ DOMAIN ss = 1 .. Len(ss)
    OBVIOUS
  <2>2. n + 1 \leq Len(ss)
    BY <2>1
  <2>3. QED BY <2>1, <2>2
<1>4. /\ \A y \in 1 .. T : pos2[y] = pos[y] /\ in2[y] = in[y]
      /\ \A j \in 1 .. U : pos2[T + j] = n + 1 /\ in2[T + j] = j
  BY <1>1
<1>13. Layout(pos, in, front, t)
  OBVIOUS
<1> HIDE DEF u, T, U, w, front, more, pos2, in2
<1>5. /\ \A y \in 1 .. T : /\ pos[y] \in 1 .. n /\ in[y] \in DOMAIN front[pos[y]]
                           /\ t[y] = front[pos[y]][in[y]]
      /\ \A y, z \in 1 .. T : y < z => pos[y] < pos[z] \/ (pos[y] = pos[z] /\ in[y] < in[z])
      /\ \A i \in 1 .. n : \A j \in DOMAIN front[i] : \E y \in 1 .. T : pos[y] = i /\ in[y] = j
  <2>1. DOMAIN t = 1 .. T /\ DOMAIN front = 1 .. n
    BY <1>2, <1>3
  <2>2. ASSUME NEW y \in 1 .. T
        PROVE  pos[y] \in 1 .. n /\ in[y] \in DOMAIN front[pos[y]] /\ t[y] = front[pos[y]][in[y]]
    BY <1>13, <2>1 DEF Layout
  <2>3. ASSUME NEW y \in 1 .. T, NEW z \in 1 .. T, y < z
        PROVE  pos[y] < pos[z] \/ (pos[y] = pos[z] /\ in[y] < in[z])
    BY <1>13, <2>1, <2>3 DEF Layout
  <2>4. ASSUME NEW i \in 1 .. n, NEW j \in DOMAIN front[i] PROVE \E y \in 1 .. T : pos[y] = i /\ in[y] = j
    <3>1. i \in DOMAIN front
      BY <2>1
    <3>2. \E y \in DOMAIN t : pos[y] = i /\ in[y] = j
      BY <1>13, <3>1 DEF Layout
    <3>3. QED BY <2>1, <3>2
  <2>5. QED BY <2>2, <2>3, <2>4
<1>6. ASSUME NEW y \in 1 .. T + U, y \notin 1 .. T
      PROVE  \E j \in 1 .. U : y = T + j
  <2>1. y - T \in 1 .. U /\ y = T + (y - T)
    BY <1>1, <1>6
  <2>2. QED BY <2>1
<1>7. \A y \in 1 .. T + U : /\ pos2[y] \in 1 .. n + 1 /\ in2[y] \in DOMAIN more[pos2[y]]
                            /\ w[y] = more[pos2[y]][in2[y]]
  <2>1. ASSUME NEW y \in 1 .. T
        PROVE  /\ pos2[y] \in 1 .. n + 1 /\ in2[y] \in DOMAIN more[pos2[y]]
               /\ w[y] = more[pos2[y]][in2[y]]
    <3>1. /\ pos[y] \in 1 .. n /\ in[y] \in DOMAIN front[pos[y]] /\ t[y] = front[pos[y]][in[y]]
          /\ w[y] = t[y] /\ pos2[y] = pos[y] /\ in2[y] = in[y]
      BY <1>2, <1>4, <1>5
    <3>2. pos[y] \in 1 .. n + 1 /\ more[pos[y]] = front[pos[y]]
      BY <1>3, <3>1
    <3>3. QED BY <3>1, <3>2
  <2>2. ASSUME NEW j \in 1 .. U
        PROVE  /\ pos2[T + j] \in 1 .. n + 1 /\ in2[T + j] \in DOMAIN more[pos2[T + j]]
               /\ w[T + j] = more[pos2[T + j]][in2[T + j]]
    <3>1. n + 1 \in 1 .. n + 1
      OBVIOUS
    <3>2. QED BY <1>2, <1>3, <1>4, <3>1
  <2>3. QED BY <1>6, <2>1, <2>2
<1>8. ASSUME NEW y \in 1 .. T + U, NEW z \in 1 .. T + U, y < z
      PROVE  pos2[y] < pos2[z] \/ (pos2[y] = pos2[z] /\ in2[y] < in2[z])
  <2>1. CASE z \in 1 .. T
    <3>1. y \in 1 .. T
      BY <1>1, <1>8, <2>1
    <3>2. QED BY <1>4, <1>5, <1>8, <2>1, <3>1
  <2>2. CASE z \notin 1 .. T
    <3>1. PICK j \in 1 .. U : z = T + j
      BY <1>6, <2>2
    <3>2. CASE y \in 1 .. T
      <4>1. pos2[y] = pos[y] /\ pos[y] \in 1 .. n /\ pos2[z] = n + 1
        BY <1>4, <1>5, <3>1, <3>2
      <4>2. QED BY <4>1
    <3>3. CASE y \notin 1 .. T
      <4>1. PICK h \in 1 .. U : y = T + h
        BY <1>6, <3>3
      <4>2. h < j
        BY <1>1, <1>8, <3>1, <4>1
      <4>3. QED BY <1>4, <3>1, <4>1, <4>2
    <3>4. QED BY <3>2, <3>3
  <2>3. QED BY <2>1, <2>2
<1>9. ASSUME NEW i \in 1 .. n + 1, NEW j \in DOMAIN more[i]
      PROVE  \E y \in 1 .. T + U : pos2[y] = i /\ in2[y] = j
  <2>1. CASE i \in 1 .. n
    <3>1. PICK y \in 1 .. T : pos[y] = i /\ in[y] = j
      BY <1>3, <1>5, <1>9, <2>1
    <3>2. y \in 1 .. T + U
      BY <1>1
    <3>3. QED BY <1>4, <3>1, <3>2
  <2>2. CASE i = n + 1
    <3>1. j \in 1 .. U
      BY <1>2, <1>3, <1>9, <2>2
    <3>2. T + j \in 1 .. T + U
      BY <1>1, <3>1
    <3>3. QED BY <1>4, <2>2, <3>1, <3>2
  <2>3. i \in 1 .. n \/ i = n + 1
    OBVIOUS
  <2>4. QED BY <2>1, <2>2, <2>3
<1>10. Layout(pos2, in2, more, w)
  <2>1. DOMAIN w = 1 .. T + U /\ DOMAIN more = 1 .. n + 1
    BY <1>2, <1>3
  <2>2. ASSUME NEW i \in DOMAIN more, NEW j \in DOMAIN more[i]
        PROVE  \E y \in DOMAIN w : pos2[y] = i /\ in2[y] = j
    <3>1. i \in 1 .. n + 1
      BY <2>1
    <3>2. \E y \in 1 .. T + U : pos2[y] = i /\ in2[y] = j
      BY <1>9, <3>1
    <3>3. QED BY <2>1, <3>2
  <2>3. \A y, z \in DOMAIN w : y < z => pos2[y] < pos2[z] \/ (pos2[y] = pos2[z] /\ in2[y] < in2[z])
    BY <1>8, <2>1
  <2>4. QED BY <1>7, <2>1, <2>2, <2>3 DEF Layout
<1>11. QED BY <1>10 DEF more, w, u

LEMMA ConcatLayout ==
  ASSUME NEW S, NEW ss \in Seq(Seq(S))
  PROVE  \E pos, in : Layout(pos, in, ss, Concat(ss))
<1> DEFINE N == Len(ss)
<1>1. PICK f : Joins(f, ss, S)
  BY ConcatIs
<1>2. /\ N \in Nat /\ f[0] = <<>> /\ Concat(ss) = f[N] /\ DOMAIN ss = 1 .. N
      /\ \A i \in 1 .. N : f[i] = f[i - 1] \o ss[i] /\ \A j \in 0 .. N : f[j] \in Seq(S)
      /\ SubSeq(ss, 1, N) = ss
  <2>1. N \in Nat /\ DOMAIN ss = 1 .. N /\ SubSeq(ss, 1, N) = ss
    OBVIOUS
  <2>2. f[0] = <<>> /\ Concat(ss) = f[N] /\ \A i \in 1 .. N : f[i] = f[i - 1] \o ss[i]
    BY <1>1 DEF Joins
  <2>3. f \in [0 .. N -> Seq(S)]
    BY <1>1 DEF Joins
  <2> HIDE DEF N
  <2>4. QED BY <2>1, <2>2, <2>3
<1> HIDE DEF N
<1> DEFINE Laid(n) == \E pos, in : Layout(pos, in, SubSeq(ss, 1, n), f[n])
           P == {n \in Nat : n \leq N => Laid(n)}
<1>3. Laid(0)
  <2>1. SubSeq(ss, 1, 0) = <<>>
    OBVIOUS
  <2>2. DOMAIN f[0] = {} /\ DOMAIN SubSeq(ss, 1, 0) = {}
    BY <1>2, <2>1
  <2>3. Layout(0, 0, SubSeq(ss, 1, 0), f[0])
    BY <2>2 DEF Layout
  <2>4. QED BY <2>3
<1>4. ASSUME NEW n \in Nat, n + 1 \leq N, Laid(n) PROVE Laid(n + 1)
  <2>1. n + 1 \in 1 .. N /\ n \in 0 .. N /\ (n + 1) - 1 = n
    BY <1>2, <1>4
  <2>2. f[n + 1] = f[n] \o ss[n + 1] /\ f[n] \in Seq(S) /\ n + 1 \in DOMAIN ss
    BY <1>2, <2>1
  <2>3. PICK pos, in : Layout(pos, in, SubSeq(ss, 1, n), f[n])
    BY <1>4
  <2>4. QED BY <2>2, <2>3, LayoutMore
<1> HIDE DEF Laid
<1>5. 0 \in P /\ \A n \in Nat : n \in P => n + 1 \in P
  <2>1. 0 \in P
    BY <1>3
  <2>2. ASSUME NEW n \in Nat, n \in P PROVE n + 1 \in P
    <3>1. n + 1 \leq N => n \leq N
      BY <1>2
    <3>2. QED BY <1>4, <2>2, <3>1
  <2>3. QED BY <2>1, <2>2
<1> HIDE DEF P
<1>6. Nat \subseteq P
  BY <1>5, NatSetInduction, Zenon
<1>7. Laid(N)
  BY <1>2, <1>6 DEF P
<1>8. QED BY <1>2, <1>7 DEF Laid

(* How far a sequence is found after each member of another. *)
Finds(f, s, t) ==
    /\ f \in [0 .. Len(t) -> 0 .. Len(s)]
    /\ f[0] = 0
    /\ \A i \in 1 .. Len(t) :
         f[i] = IF f[i - 1] < Len(s) /\ s[f[i - 1] + 1] = t[i] THEN f[i - 1] + 1 ELSE f[i - 1]
    /\ Within(s, t) <=> f[Len(t)] = Len(s)

LEMMA WithinIs == ASSUME NEW S, NEW s \in Seq(S), NEW t \in Seq(S) PROVE \E f : Finds(f, s, t)
<1> DEFINE N == Len(t)  M == 0 .. Len(s)
           next(m, i) == IF m < Len(s) /\ s[m + 1] = t[i] THEN m + 1 ELSE m
           g == [p \in M \X (1 .. N) |-> next(p[1], p[2])]
           F(f) == [n \in 0 .. N |-> IF n = 0 THEN 0 ELSE next(f[n - 1], n)]
           h == CHOOSE h : h = F(h)
<1>1. N \in Nat /\ Len(s) \in Nat /\ 0 \in M
  OBVIOUS
<1>2. ASSUME NEW m \in M, NEW i \in 1 .. N PROVE next(m, i) \in M
  BY <1>1
<1> HIDE DEF next, N, M
<1>3. ASSUME NEW m \in M, NEW i \in 1 .. N PROVE g[<<m, i>>] = next(m, i)
  OBVIOUS
<1>4. g \in [M \X (1 .. N) -> M]
  <2>1. ASSUME NEW p \in M \X (1 .. N) PROVE next(p[1], p[2]) \in M
    <3>1. p[1] \in M /\ p[2] \in 1 .. N
      OBVIOUS
    <3>2. QED BY <1>2, <3>1
  <2>2. QED BY <2>1
<1> HIDE DEF g
<1>5. PICK f : f \in [0 .. N -> M] /\ f[0] = 0 /\ \A i \in 1 .. N : f[i] = g[<<f[i - 1], i>>]
  <2>1. \E f : Follows(f, N, M, 0, g)
    BY <1>1, <1>4, Recursion
  <2>2. QED BY <2>1 DEF Follows
<1>6. f = F(f)
  <2>1. ASSUME NEW i \in 0 .. N PROVE f[i] = IF i = 0 THEN 0 ELSE next(f[i - 1], i)
    <3>1. CASE i = 0
      BY <3>1, <1>5
    <3>2. CASE i # 0
      <4>1. i \in 1 .. N /\ i - 1 \in 0 .. N
        BY <1>1, <3>2
      <4>2. QED BY <1>3, <1>5, <3>2, <4>1
    <3>3. QED BY <3>1, <3>2
  <2>2. f = [i \in 0 .. N |-> f[i]]
    BY <1>5
  <2>3. QED BY <2>1, <2>2
<1>7. h = F(h)
  BY <1>6
<1>8. Within(s, t) <=> h[N] = Len(s)
  BY DEF Within, next, N
<1> HIDE DEF h
<1>9. h[0] = 0 /\ h = [n \in 0 .. N |-> h[n]]
  <2>1. 0 \in 0 .. N
    BY <1>1
  <2>2. QED BY <1>7, <2>1
<1>10. ASSUME NEW i \in 1 .. N PROVE h[i] = next(h[i - 1], i)
  <2>1. i \in 0 .. N /\ i # 0
    BY <1>1
  <2>2. h[i] = IF i = 0 THEN 0 ELSE next(h[i - 1], i)
    BY <1>7, <2>1
  <2>3. QED BY <2>1, <2>2
<1>11. \A i \in 0 .. N : h[i] \in M
  <2>1. Goes(h, N, M, g)
    BY <1>3, <1>10 DEF Goes
  <2>2. Remains(h, N, M)
    BY <1>1, <1>4, <1>9, <2>1, Along
  <2>3. QED BY <2>2 DEF Remains
<1>12. h \in [0 .. N -> M]
  BY <1>9, <1>11
<1>13. QED BY <1>8, <1>9, <1>10, <1>12 DEF Finds, next, N, M

(* Nothing is within everything. *)
LEMMA WithinEmpty == ASSUME NEW S, NEW t \in Seq(S) PROVE Within(<<>>, t)
<1>1. <<>> \in Seq(S) /\ Len(<<>>) = 0 /\ Len(t) \in Nat
  OBVIOUS
<1>2. PICK f : Finds(f, <<>>, t)
  BY <1>1, WithinIs
<1>3. f[Len(t)] \in 0 .. 0
  BY <1>1, <1>2 DEF Finds
<1>4. QED BY <1>1, <1>2, <1>3 DEF Finds

(* What was found is found again when the other sequence grows, *)
LEMMA WithinMore ==
  ASSUME NEW S, NEW s \in Seq(S), NEW t \in Seq(S), NEW x \in S, Within(s, t)
  PROVE  Within(s, Append(t, x))
<1> DEFINE N == Len(t)  u == Append(t, x)
<1>1. N \in Nat /\ u \in Seq(S) /\ Len(u) = N + 1 /\ \A i \in 1 .. N : u[i] = t[i]
  OBVIOUS
<1> HIDE DEF N, u
<1>2. PICK p : Finds(p, s, t)
  BY WithinIs
<1>3. PICK q : Finds(q, s, u)
  BY <1>1, WithinIs
<1>4. /\ p[0] = 0 /\ p[N] = Len(s)
      /\ \A i \in 1 .. N :
           p[i] = IF p[i - 1] < Len(s) /\ s[p[i - 1] + 1] = t[i] THEN p[i - 1] + 1 ELSE p[i - 1]
  BY <1>2 DEF Finds, N
<1>5. /\ q[0] = 0 /\ (Within(s, u) <=> q[N + 1] = Len(s))
      /\ \A i \in 1 .. N + 1 :
           q[i] = IF q[i - 1] < Len(s) /\ s[q[i - 1] + 1] = u[i] THEN q[i - 1] + 1 ELSE q[i - 1]
  BY <1>1, <1>3 DEF Finds
<1> DEFINE P == {n \in Nat : n \leq N => q[n] = p[n]}
<1>6. 0 \in P /\ \A n \in Nat : n \in P => n + 1 \in P
  <2>1. ASSUME NEW n \in Nat, n \in P, n + 1 \leq N PROVE q[n + 1] = p[n + 1]
    <3>1. n + 1 \in 1 .. N /\ n + 1 \in 1 .. N + 1 /\ (n + 1) - 1 = n /\ q[n] = p[n] /\ u[n + 1] = t[n + 1]
      <4>1. ASSUME NEW z \in Nat, n + 1 \leq z
            PROVE  n + 1 \in 1 .. z /\ n + 1 \in 1 .. z + 1 /\ (n + 1) - 1 = n /\ n \leq z
        BY <4>1
      <4>2. n + 1 \in 1 .. N /\ n + 1 \in 1 .. N + 1 /\ (n + 1) - 1 = n /\ n \leq N
        BY <1>1, <2>1, <4>1
      <4>3. QED BY <1>1, <2>1, <4>2
    <3>2. p[n + 1] = IF p[n] < Len(s) /\ s[p[n] + 1] = t[n + 1] THEN p[n] + 1 ELSE p[n]
      BY <1>4, <3>1
    <3>3. q[n + 1] = IF q[n] < Len(s) /\ s[q[n] + 1] = u[n + 1] THEN q[n] + 1 ELSE q[n]
      BY <1>5, <3>1
    <3>4. QED BY <3>1, <3>2, <3>3
  <2>2. QED BY <1>4, <1>5, <2>1
<1>7. q[N] = Len(s)
  <2>1. Nat \subseteq P
    <3> HIDE DEF P
    <3>1. QED BY <1>6, NatSetInduction, Zenon
  <2>2. QED BY <1>1, <1>4, <2>1
<1>8. q[N + 1] = Len(s)
  <2>1. N + 1 \in 1 .. N + 1 /\ (N + 1) - 1 = N
    BY <1>1
  <2>2. q[N + 1] = IF q[N] < Len(s) /\ s[q[N] + 1] = u[N + 1] THEN q[N] + 1 ELSE q[N]
    BY <1>5, <2>1
  <2>3. ~(Len(s) < Len(s))
    OBVIOUS
  <2>4. QED BY <1>7, <2>2, <2>3
<1>9. QED BY <1>5, <1>8 DEF u

(* and when both grow by the same member. *)
LEMMA WithinBoth ==
  ASSUME NEW S, NEW s \in Seq(S), NEW t \in Seq(S), NEW x \in S, Within(s, t)
  PROVE  Within(Append(s, x), Append(t, x))
<1> DEFINE N == Len(t)  u == Append(t, x)  M == Len(s)  r == Append(s, x)
<1>1. N \in Nat /\ u \in Seq(S) /\ Len(u) = N + 1 /\ u[N + 1] = x /\ \A i \in 1 .. N : u[i] = t[i]
  OBVIOUS
<1>2. M \in Nat /\ r \in Seq(S) /\ Len(r) = M + 1 /\ r[M + 1] = x /\ \A i \in 1 .. M : r[i] = s[i]
  OBVIOUS
<1> HIDE DEF N, u, M, r
<1>3. PICK p : Finds(p, s, t)
  BY WithinIs
<1>4. PICK q : Finds(q, r, u)
  BY <1>1, <1>2, WithinIs
<1>5. /\ p \in [0 .. N -> 0 .. M] /\ p[0] = 0 /\ p[N] = M
      /\ \A i \in 1 .. N :
           p[i] = IF p[i - 1] < M /\ s[p[i - 1] + 1] = t[i] THEN p[i - 1] + 1 ELSE p[i - 1]
  BY <1>3 DEF Finds, N, M
<1>6. /\ q \in [0 .. N + 1 -> 0 .. M + 1] /\ q[0] = 0 /\ (Within(r, u) <=> q[N + 1] = M + 1)
      /\ \A i \in 1 .. N + 1 :
           q[i] = IF q[i - 1] < M + 1 /\ r[q[i - 1] + 1] = u[i] THEN q[i - 1] + 1 ELSE q[i - 1]
  BY <1>1, <1>2, <1>4 DEF Finds
<1> DEFINE Ok(n) == q[n] = p[n] \/ (p[n] = M /\ q[n] = M + 1)
           P == {n \in Nat : n \leq N => Ok(n)}
<1>7. ASSUME NEW n \in Nat, Ok(n), n + 1 \leq N PROVE Ok(n + 1)
  <2>1. n + 1 \in 1 .. N /\ n + 1 \in 1 .. N + 1 /\ (n + 1) - 1 = n /\ n \in 0 .. N /\ u[n + 1] = t[n + 1]
    <3>1. ASSUME NEW z \in Nat, n + 1 \leq z
          PROVE  n + 1 \in 1 .. z /\ n + 1 \in 1 .. z + 1 /\ (n + 1) - 1 = n /\ n \in 0 .. z
      BY <3>1
    <3>2. n + 1 \in 1 .. N /\ n + 1 \in 1 .. N + 1 /\ (n + 1) - 1 = n /\ n \in 0 .. N
      BY <1>1, <1>7, <3>1
    <3>3. QED BY <1>1, <3>2
  <2>2. p[n + 1] = IF p[n] < M /\ s[p[n] + 1] = t[n + 1] THEN p[n] + 1 ELSE p[n]
    BY <1>5, <2>1
  <2>3. q[n + 1] = IF q[n] < M + 1 /\ r[q[n] + 1] = t[n + 1] THEN q[n] + 1 ELSE q[n]
    BY <1>6, <2>1
  <2>4. p[n] \in 0 .. M
    BY <1>5, <2>1
  <2>5. CASE p[n] = M /\ q[n] = M + 1
    BY <1>2, <2>2, <2>3, <2>5
  <2>6. CASE q[n] = p[n] /\ p[n] = M
    <3>1. p[n + 1] = M
      BY <1>2, <2>2, <2>6
    <3>2. q[n + 1] = M \/ q[n + 1] = M + 1
      BY <2>3, <2>6
    <3>3. QED BY <3>1, <3>2
  <2>7. CASE q[n] = p[n] /\ p[n] # M
    <3>1. p[n] < M /\ p[n] < M + 1 /\ p[n] + 1 \in 1 .. M
      BY <1>2, <2>4, <2>7
    <3>2. r[p[n] + 1] = s[p[n] + 1]
      BY <1>2, <3>1
    <3>3. QED BY <2>2, <2>3, <2>7, <3>1, <3>2
  <2>8. QED BY <1>7, <2>5, <2>6, <2>7
<1> HIDE DEF Ok
<1>8. Nat \subseteq P
  <2>1. Ok(0)
    BY <1>5, <1>6 DEF Ok
  <2>2. 0 \in P /\ \A n \in Nat : n \in P => n + 1 \in P
    <3>1. ASSUME NEW n \in Nat, n \in P, n + 1 \leq N PROVE Ok(n + 1)
      <4>1. n \leq N
        BY <1>1, <3>1
      <4>2. QED BY <1>7, <3>1, <4>1
    <3>2. QED BY <2>1, <3>1
  <2> HIDE DEF P
  <2>3. QED BY <2>2, NatSetInduction, Zenon
<1>9. q[N] = M \/ q[N] = M + 1
  <2>1. Ok(N)
    BY <1>1, <1>8
  <2>2. QED BY <1>5, <2>1 DEF Ok
<1>10. q[N + 1] = M + 1
  <2>1. N + 1 \in 1 .. N + 1 /\ (N + 1) - 1 = N
    <3>1. N \in Nat
      BY <1>1
    <3>2. QED BY <3>1
  <2>2. q[N + 1] = IF q[N] < M + 1 /\ r[q[N] + 1] = u[N + 1] THEN q[N] + 1 ELSE q[N]
    BY <1>6, <2>1
  <2>3. M < M + 1
    BY <1>2
  <2>4. CASE q[N] = M
    BY <1>1, <1>2, <2>2, <2>3, <2>4
  <2>5. CASE q[N] = M + 1
    BY <1>2, <2>2, <2>5
  <2>6. QED BY <1>9, <2>4, <2>5
<1>11. QED BY <1>6, <1>10 DEF r, u

(* The same for a whole sequence. *)
LEMMA WithinConcat ==
  ASSUME NEW S, NEW s \in Seq(S), NEW t \in Seq(S), Within(s, t), NEW u \in Seq(S)
  PROVE  Within(s, t \o u) /\ Within(s \o u, t \o u)
<1> DEFINE P == {v \in Seq(S) : Within(s, t \o v) /\ Within(s \o v, t \o v)}
<1>1. <<>> \in P
  <2>1. s \o <<>> = s /\ t \o <<>> = t /\ <<>> \in Seq(S)
    OBVIOUS
  <2>2. QED BY <2>1
<1>2. ASSUME NEW v \in Seq(S), NEW x \in S, v \in P PROVE Append(v, x) \in P
  <2>1. /\ t \o v \in Seq(S) /\ s \o v \in Seq(S) /\ Append(v, x) \in Seq(S)
        /\ t \o Append(v, x) = Append(t \o v, x) /\ s \o Append(v, x) = Append(s \o v, x)
    OBVIOUS
  <2>2. Within(s, t \o v) /\ Within(s \o v, t \o v)
    BY <1>2
  <2>3. Within(s, Append(t \o v, x)) /\ Within(Append(s \o v, x), Append(t \o v, x))
    BY <2>1, <2>2, WithinMore, WithinBoth
  <2>4. QED BY <2>1, <2>3
<1> HIDE DEF P
<1>3. Seq(S) \subseteq P
  BY <1>1, <1>2, SeqInduction
<1>4. QED BY <1>3 DEF P

LEMMA WithinItself == ASSUME NEW S, NEW s \in Seq(S) PROVE Within(s, s)
<1>1. <<>> \in Seq(S) /\ <<>> \o s = s
  OBVIOUS
<1>2. Within(<<>>, <<>>)
  BY <1>1, WithinEmpty
<1>3. QED BY <1>1, <1>2, WithinConcat

-----------------------------------------------------------------------------
(* Messages and the sequences made of them. *)

Names == {"read", "write", "finish"}

(* What a conversation may hold: a nudge for one request is none of it. *)
Messages ==
    [kind : {"system", "bash", "note"}]
    \cup [kind : {"user"}, n : Nat]
    \cup [kind : {"assistant"}, n : Nat, calls : Seq(Names)]
    \cup [kind : {"tool"}, n : Nat, k : Nat, lost : BOOLEAN]

(* The fields of a message. *)
LEMMA MessageIs ==
  ASSUME NEW m \in Messages
  PROVE  /\ m # Transient
         /\ m.kind \in {"system", "bash", "note", "user", "assistant", "tool"}
         /\ m.kind = "assistant" => m.n \in Nat /\ m.calls \in Seq(Names)
         /\ m.kind = "tool" => m.n \in Nat /\ m.k \in Nat
<1>1. Transient.kind = "transient"
  BY DEF Transient
<1>2. CASE m \in [kind : {"system", "bash", "note"}]
  BY <1>1, <1>2
<1>3. CASE m \in [kind : {"user"}, n : Nat]
  BY <1>1, <1>3
<1>4. CASE m \in [kind : {"assistant"}, n : Nat, calls : Seq(Names)]
  BY <1>1, <1>4
<1>5. CASE m \in [kind : {"tool"}, n : Nat, k : Nat, lost : BOOLEAN]
  BY <1>1, <1>5
<1>6. QED BY <1>2, <1>3, <1>4, <1>5 DEF Messages

(* The messages the program makes. *)
LEMMA MakesMessages ==
  /\ System \in Messages /\ Bash \in Messages /\ Note \in Messages
  /\ \A n \in Nat : User(n) \in Messages
  /\ \A n \in Nat, calls \in Seq(Names) :
       /\ Assistant(n, calls) \in Messages /\ Assistant(n, calls).kind = "assistant"
       /\ Assistant(n, calls).n = n /\ Assistant(n, calls).calls = calls
  /\ \A n \in Nat, k \in Nat, lost \in BOOLEAN :
       /\ Tool(n, k, lost) \in Messages /\ Tool(n, k, lost).kind = "tool"
       /\ Tool(n, k, lost).n = n /\ Tool(n, k, lost).k = k /\ Tool(n, k, lost).lost = lost
<1>1. System \in Messages /\ Bash \in Messages /\ Note \in Messages
  BY DEF System, Bash, Note, Messages
<1>2. ASSUME NEW n \in Nat PROVE User(n) \in Messages
  BY DEF User, Messages
<1>3. ASSUME NEW n \in Nat, NEW calls \in Seq(Names)
      PROVE  /\ Assistant(n, calls) \in Messages /\ Assistant(n, calls).kind = "assistant"
             /\ Assistant(n, calls).n = n /\ Assistant(n, calls).calls = calls
  BY DEF Assistant, Messages
<1>4. ASSUME NEW n \in Nat, NEW k \in Nat, NEW lost \in BOOLEAN
      PROVE  /\ Tool(n, k, lost) \in Messages /\ Tool(n, k, lost).kind = "tool"
             /\ Tool(n, k, lost).n = n /\ Tool(n, k, lost).k = k /\ Tool(n, k, lost).lost = lost
  BY DEF Tool, Messages
<1>5. QED BY <1>1, <1>2, <1>3, <1>4

(* A part of a sequence is a sequence of the same. *)
LEMMA PartType ==
  ASSUME NEW S, NEW s \in Seq(S), NEW m \in Nat, m # 0, NEW n \in 0 .. Len(s)
  PROVE  SubSeq(s, m, n) \in Seq(S)
<1>1. \A i \in m .. n : s[i] \in S
  OBVIOUS
<1>2. m \in Int /\ n \in Int
  OBVIOUS
<1>3. QED BY <1>1, <1>2, SubSeqProperties

(* What is joined keeps its type. *)
LEMMA ConcatType == ASSUME NEW S, NEW ss \in Seq(Seq(S)) PROVE Concat(ss) \in Seq(S)
<1>1. PICK f : Joins(f, ss, S)
  BY ConcatIs
<1>2. Len(ss) \in 0 .. Len(ss)
  OBVIOUS
<1>3. QED BY <1>1, <1>2 DEF Joins

LEMMA OnlyType ==
  ASSUME NEW T, NEW s \in Seq(T), NEW A
  PROVE  Only(s, A) \in Seq(T \cap A) /\ Only(s, A) \in Seq(T)
<1> DEFINE part(i) == IF s[i] \in A THEN <<s[i]>> ELSE <<>>
           ss == [i \in DOMAIN s |-> part(i)]
<1>1. DOMAIN s = 1 .. Len(s) /\ Len(s) \in Nat
  OBVIOUS
<1>2. ASSUME NEW i \in 1 .. Len(s) PROVE part(i) \in Seq(T \cap A) /\ part(i) \in Seq(T)
  <2>1. s[i] \in T
    OBVIOUS
  <2>2. CASE s[i] \in A
    <3>1. s[i] \in T \cap A
      BY <2>1, <2>2
    <3>2. <<s[i]>> \in Seq(T \cap A) /\ <<s[i]>> \in Seq(T)
      BY <2>1, <3>1
    <3>3. QED BY <2>2, <3>2
  <2>3. CASE s[i] \notin A
    <3>1. <<>> \in Seq(T \cap A) /\ <<>> \in Seq(T)
      OBVIOUS
    <3>2. QED BY <2>3, <3>1
  <2>4. QED BY <2>2, <2>3
<1> HIDE DEF part
<1>3. ss \in Seq(Seq(T \cap A)) /\ ss \in Seq(Seq(T))
  <2>1. ss \in [1 .. Len(s) -> Seq(T \cap A)] /\ ss \in [1 .. Len(s) -> Seq(T)]
    BY <1>1, <1>2
  <2> HIDE DEF ss
  <2>2. QED BY <1>1, <2>1
<1>4. Only(s, A) = Concat(ss)
  BY DEF Only, part
<1> HIDE DEF ss
<1>5. QED BY <1>3, <1>4, ConcatType

LEMMA CountType ==
  ASSUME NEW n \in Nat
  PROVE  /\ Count(n) \in Seq(1 .. n) /\ Len(Count(n)) = n
         /\ \A k \in 1 .. n : Count(n)[k] = k
<1>1. Count(n) \in [1 .. n -> 1 .. n] /\ \A k \in 1 .. n : Count(n)[k] = k
  BY DEF Count
<1>2. QED BY <1>1

(* o lists the members of B, each once. *)
Lists(o, B) == o \in Seq(B) /\ IsInjective(o) /\ ToSet(o) = B

LEMMA OnlyCount ==
  ASSUME NEW n \in Nat, NEW A
  PROVE  Lists(Only(Count(n), A), A \cap (1 .. n))
<1> DEFINE c == Count(n)
           part(i) == IF c[i] \in A THEN <<c[i]>> ELSE <<>>
           ss == [i \in DOMAIN c |-> part(i)]  o == Only(c, A)
<1>1. c \in Seq(1 .. n) /\ DOMAIN c = 1 .. n /\ \A i \in 1 .. n : c[i] = i
  BY CountType
<1>2. \A i \in 1 .. n : part(i) = IF i \in A THEN <<i>> ELSE <<>>
  BY <1>1
<1>3. o = Concat(ss) /\ o \in Seq((1 .. n) \cap A)
  BY <1>1, OnlyType DEF Only
<1> HIDE DEF c, part
<1>4. ss \in Seq(Seq(1 .. n)) /\ DOMAIN ss = 1 .. n /\ \A i \in 1 .. n : ss[i] = part(i)
  <2>1. ASSUME NEW i \in 1 .. n PROVE part(i) \in Seq(1 .. n)
    <3>1. <<i>> \in Seq(1 .. n) /\ <<>> \in Seq(1 .. n)
      OBVIOUS
    <3>2. QED BY <1>2, <3>1
  <2>2. ss \in [1 .. n -> Seq(1 .. n)]
    BY <1>1, <2>1
  <2>3. QED BY <1>1, <2>2
<1> HIDE DEF ss, o
<1>5. PICK pos, in : Layout(pos, in, ss, o)
  BY <1>3, <1>4, ConcatLayout
<1>6. ASSUME NEW y \in DOMAIN o PROVE pos[y] \in 1 .. n /\ in[y] = 1 /\ o[y] = pos[y]
  <2>1. pos[y] \in DOMAIN ss /\ in[y] \in DOMAIN ss[pos[y]] /\ o[y] = ss[pos[y]][in[y]]
    BY <1>5 DEF Layout
  <2>2. pos[y] \in 1 .. n /\ ss[pos[y]] = IF pos[y] \in A THEN <<pos[y]>> ELSE <<>>
    BY <1>2, <1>4, <2>1
  <2>3. CASE pos[y] \in A
    <3>1. DOMAIN <<pos[y]>> = {1} /\ <<pos[y]>>[1] = pos[y]
      OBVIOUS
    <3>2. QED BY <2>1, <2>2, <2>3, <3>1
  <2>4. CASE pos[y] \notin A
    <3>1. DOMAIN <<>> = {}
      OBVIOUS
    <3>2. QED BY <2>1, <2>2, <2>4, <3>1
  <2>5. QED BY <2>3, <2>4
<1>7. IsInjective(o)
  <2>1. ASSUME NEW y \in DOMAIN o, NEW z \in DOMAIN o, o[y] = o[z], y < z PROVE FALSE
    <3>1. pos[y] = pos[z] /\ in[y] = in[z] /\ pos[y] \in Int /\ in[y] \in Int
      BY <1>6, <2>1
    <3>2. pos[y] < pos[z] \/ (pos[y] = pos[z] /\ in[y] < in[z])
      BY <1>5, <2>1 DEF Layout
    <3>3. QED BY <3>1, <3>2
  <2>2. ASSUME NEW y \in DOMAIN o, NEW z \in DOMAIN o, o[y] = o[z] PROVE y = z
    <3>1. DOMAIN o = 1 .. Len(o) /\ Len(o) \in Nat
      BY <1>3
    <3>2. y < z \/ z < y \/ y = z
      BY <3>1
    <3>3. QED BY <2>1, <2>2, <3>2
  <2>3. QED BY <2>2 DEF IsInjective
<1>8. ToSet(o) = A \cap (1 .. n)
  <2>1. ASSUME NEW k \in A \cap (1 .. n) PROVE k \in ToSet(o)
    <3>1. k \in DOMAIN ss /\ ss[k] = <<k>>
      BY <1>2, <1>4
    <3>2. 1 \in DOMAIN ss[k]
      BY <3>1
    <3>3. PICK y \in DOMAIN o : pos[y] = k
      BY <1>5, <3>1, <3>2 DEF Layout
    <3>4. QED BY <1>6, <3>3 DEF ToSet
  <2>2. ASSUME NEW k \in ToSet(o) PROVE k \in A \cap (1 .. n)
    BY <1>3 DEF ToSet
  <2>3. QED BY <2>1, <2>2
<1>9. QED BY <1>3, <1>7, <1>8 DEF Lists, o, c

(* The results that are made up are results. *)
LEMMA LostType ==
  ASSUME NEW m \in Messages, IsAssistant(m), NEW s
  PROVE  Lost(s, m) \in Seq(Messages)
<1> DEFINE A == {k \in DOMAIN m.calls : <<m.n, k>> \notin ResultsIn(s)}
           missing == Only(Count(Len(m.calls)), A)
           lost(i) == Tool(m.n, missing[i], m.calls[missing[i]] # "finish")
<1>1. m.n \in Nat /\ m.calls \in Seq(Names) /\ Len(m.calls) \in Nat
  BY MessageIs DEF IsAssistant
<1>2. missing \in Seq(1 .. Len(m.calls))
  BY <1>1, CountType, OnlyType
<1>3. Lost(s, m) = [i \in DOMAIN missing |-> lost(i)]
  BY DEF Lost
<1> HIDE DEF missing
<1>4. DOMAIN missing = 1 .. Len(missing) /\ Len(missing) \in Nat
  BY <1>2
<1>5. ASSUME NEW i \in 1 .. Len(missing) PROVE lost(i) \in Messages
  <2>1. missing[i] \in Nat /\ (m.calls[missing[i]] # "finish") \in BOOLEAN
    BY <1>1, <1>2
  <2>2. QED BY <1>1, <2>1, MakesMessages
<1> HIDE DEF lost
<1>6. [i \in 1 .. Len(missing) |-> lost(i)] \in Seq(Messages)
  BY <1>4, <1>5
<1>7. QED BY <1>3, <1>4, <1>6

(* What a message becomes in the repair. *)
Repaired(s, m) ==
    CASE IsAssistant(m) -> <<m>> \o Lost(s, m)
      [] IsTool(m) /\ <<m.n, m.k>> \notin CallsIn(s) -> <<>>
      [] OTHER -> <<m>>

LEMMA RepairedType ==
  ASSUME NEW m \in Messages, NEW s
  PROVE  Repaired(s, m) \in Seq(Messages)
<1>1. <<m>> \in Seq(Messages) /\ <<>> \in Seq(Messages)
  OBVIOUS
<1>2. CASE IsAssistant(m)
  <2>1. Lost(s, m) \in Seq(Messages)
    BY <1>2, LostType
  <2>2. <<m>> \o Lost(s, m) \in Seq(Messages)
    BY <1>1, <2>1
  <2>3. Repaired(s, m) = <<m>> \o Lost(s, m)
    BY <1>2 DEF Repaired, IsAssistant, IsTool
  <2>4. QED BY <2>2, <2>3
<1>3. CASE ~IsAssistant(m)
  BY <1>1, <1>3 DEF Repaired
<1>4. QED BY <1>2, <1>3

LEMMA SanitizeType ==
  ASSUME NEW s \in Seq(Messages)
  PROVE  /\ sanitize_orphaned_tool_calls(s) = Concat([i \in DOMAIN s |-> Repaired(s, s[i])])
         /\ [i \in DOMAIN s |-> Repaired(s, s[i])] \in Seq(Seq(Messages))
         /\ sanitize_orphaned_tool_calls(s) \in Seq(Messages)
<1> DEFINE ss == [i \in DOMAIN s |-> Repaired(s, s[i])]
<1>1. DOMAIN s = 1 .. Len(s) /\ Len(s) \in Nat
  OBVIOUS
<1>2. ASSUME NEW i \in 1 .. Len(s) PROVE Repaired(s, s[i]) \in Seq(Messages)
  BY RepairedType
<1>3. ss \in [1 .. Len(s) -> Seq(Messages)]
  BY <1>1, <1>2
<1>4. sanitize_orphaned_tool_calls(s) = Concat(ss)
  BY DEF sanitize_orphaned_tool_calls, Repaired
<1> HIDE DEF ss
<1>5. ss \in Seq(Seq(Messages))
  BY <1>1, <1>3
<1>6. QED BY <1>4, <1>5, ConcatType DEF ss

LEMMA CompactedType == ASSUME NEW s \in Seq(Messages) PROVE Compacted(s) \in Seq(Messages)
<1> DEFINE start == IF Len(s) <= MIN_TAIL THEN 2 ELSE Len(s) - MIN_TAIL + 1
<1>1. Len(s) \in Nat /\ MIN_TAIL \in Nat
  BY TranscriptAssumption
<1>2. CASE Len(s) <= 2
  BY <1>2 DEF Compacted
<1>3. CASE ~(Len(s) <= 2)
  <2>1. start \in Nat /\ start # 0
    BY <1>1
  <2>2. Compacted(s) = <<s[1], Note>> \o SubSeq(s, start, Len(s))
    BY <1>3 DEF Compacted
  <2> HIDE DEF start
  <2>3. SubSeq(s, start, Len(s)) \in Seq(Messages)
    <3>1. Len(s) \in 0 .. Len(s)
      BY <1>1
    <3>2. QED BY <2>1, <3>1, PartType
  <2>4. s[1] \in Messages /\ Note \in Messages
    BY <1>1, <1>3, MakesMessages
  <2>5. <<s[1], Note>> \in Seq(Messages)
    BY <2>4
  <2>6. QED BY <2>2, <2>3, <2>5
<1>4. QED BY <1>2, <1>3

(* A set of positions has a greatest. *)
LEMMA Greatest ==
  ASSUME NEW n \in Nat, NEW S \in SUBSET (1 .. n), S # {}
  PROVE  \E i \in S : \A j \in S : j <= i
<1> DEFINE T == {n - i : i \in S}
<1>1. T \subseteq Nat /\ T # {}
  <2>1. ASSUME NEW i \in S PROVE n - i \in Nat
    OBVIOUS
  <2>2. QED BY <2>1
<1> HIDE DEF T
<1>2. PICK t \in T : \A u \in T : <<u, t>> \notin OpToRel(<, Nat)
  BY <1>1, WFMin, NatLessThanWellFounded, Zenon
<1>3. PICK i \in S : t = n - i
  BY DEF T
<1>4. ASSUME NEW j \in S PROVE j <= i
  <2>1. n - j \in T /\ n - j \in Nat /\ n - i \in Nat
    BY DEF T
  <2>2. ~(n - j < n - i)
    BY <1>2, <1>3, <2>1 DEF OpToRel
  <2>3. i \in Nat /\ j \in Nat
    OBVIOUS
  <2>4. QED BY <2>2, <2>3
<1>5. QED BY <1>4

LEMMA UndoneType == ASSUME NEW s \in Seq(Messages) PROVE Undone(s) \in Seq(Messages)
<1> DEFINE users == {i \in DOMAIN s : IsUser(s[i])}
           last == CHOOSE i \in users : \A j \in users : j <= i
<1>1. users \in SUBSET (1 .. Len(s)) /\ Len(s) \in Nat
  OBVIOUS
<1>2. CASE users = {}
  <2>1. Undone(s) = <<>>
    BY <1>2 DEF Undone
  <2>2. QED BY <2>1
<1>3. CASE users # {}
  <2>1. Undone(s) = SubSeq(s, 1, last - 1)
    BY <1>3 DEF Undone
  <2> HIDE DEF users
  <2>2. last \in users
    BY <1>1, <1>3, Greatest
  <2> HIDE DEF last
  <2>3. last - 1 \in 0 .. Len(s)
    BY <1>1, <2>2
  <2>4. QED BY <2>1, <2>3, PartType
<1>4. QED BY <1>2, <1>3

(* The messages of one request are taken off again. *)
LEMMA TakenOff ==
  ASSUME NEW s \in Seq(Messages), NEW n \in Nat
  PROVE  LET b == s \o [i \in 1 .. n |-> Transient]
         IN SubSeq(b, 1, Len(b) - n) = s
<1> DEFINE S == Messages \cup {Transient}
           t == [i \in 1 .. n |-> Transient]  b == s \o t  N == Len(s)
<1>1. t \in Seq(S) /\ Len(t) = n
  <2>1. t \in [1 .. n -> S]
    OBVIOUS
  <2> HIDE DEF t, S
  <2>2. QED BY <2>1
<1>2. s \in Seq(S) /\ N \in Nat /\ \A i \in 1 .. N : s[i] \in S
  OBVIOUS
<1> HIDE DEF t, S
<1>3. b \in Seq(S) /\ Len(b) = N + n /\ \A i \in 1 .. N : b[i] = s[i]
  <2>1. /\ b \in Seq(S) /\ Len(b) = Len(s) + Len(t)
        /\ \A i \in 1 .. Len(s) + Len(t) : b[i] = IF i <= Len(s) THEN s[i] ELSE t[i - Len(s)]
    BY <1>1, <1>2, ConcatProperties
  <2>2. \A i \in 1 .. N : i \in 1 .. Len(s) + Len(t) /\ i <= Len(s)
    BY <1>1, <1>2
  <2>3. QED BY <1>1, <2>1, <2>2
<1> HIDE DEF b, N
<1>4. Len(b) - n = N
  BY <1>2, <1>3
<1> DEFINE q == SubSeq(b, 1, N)
<1>5. q \in Seq(S) /\ Len(q) = N /\ \A i \in 1 .. N : q[i] = b[i]
  <2>1. 1 \in Int /\ N \in Int
    BY <1>2
  <2>2. \A i \in 1 .. N : b[i] \in S
    BY <1>2, <1>3
  <2>3. /\ q \in Seq(S) /\ Len(q) = IF 1 \leq N THEN N - 1 + 1 ELSE 0
        /\ \A i \in 1 .. N - 1 + 1 : q[i] = b[1 + i - 1]
    BY <2>1, <2>2, SubSeqProperties
  <2> HIDE DEF q
  <2>4. N - 1 + 1 = N /\ (~(1 \leq N) => N = 0) /\ \A i \in 1 .. N : 1 + i - 1 = i
    BY <1>2
  <2>5. QED BY <2>3, <2>4
<1> HIDE DEF q
<1>6. q = s
  <2>1. Len(q) = Len(s) /\ \A i \in 1 .. Len(q) : q[i] = s[i]
    BY <1>3, <1>5 DEF N
  <2>2. QED BY <1>2, <1>5, <2>1, SeqEqual
<1>7. QED BY <1>4, <1>6 DEF b, q, t, N

-----------------------------------------------------------------------------
(* The transcript: the session file has the conversation, and what the turn keeps  *)
(* of it, unless the dispatcher rewrote it under the turn.                         *)

Places ==
    {"clone", "top", "shrunk", "request", "batch", "wave", "record", "exec", "complete"}

Turns ==
    [at : Places, reply : Messages, next : Nat, tails : Nat, ready : Seq(Nat),
     reflected : BOOLEAN, answered : BOOLEAN, nudges : Nat, retried : BOOLEAN]

Used == [prompts : Nat, replies : Nat, rounds : Nat, shrinks : Nat, commands : Nat]

(* The buffer without what goes with one request only. *)
Own == IF At("request") THEN WithoutTransient ELSE buffer

TurnShape ==
    /\ turn \in Turns \cup {NoTurn, [at |-> "ending"]}
    /\ turn.at \in {"batch", "wave", "record", "exec"} => IsAssistant(turn.reply)
    /\ Resting => buffer = <<>>

TranscriptShape ==
    /\ conv \in Seq(Messages) /\ journal \in Seq(Messages) /\ Own \in Seq(Messages)
    /\ copy \in Seq(Messages) \cup {NoCopy}
    /\ cancelled \in BOOLEAN /\ bang \in Nat /\ meddled \in BOOLEAN /\ used \in Used
    /\ TurnShape

Kept == ~meddled => Within(conv, journal) /\ Within(Own, journal)

TranscriptInv == TranscriptShape /\ Kept

(* Where a turn is, it has its fields. *)
LEMMA TurnIs ==
  ASSUME TurnShape, NEW p \in Places, At(p)
  PROVE  turn \in Turns
BY DEF TurnShape, At, Places, NoTurn

LEMMA TurnFields ==
  ASSUME NEW t \in Turns
  PROVE  /\ t.at \in Places /\ t.reply \in Messages /\ t.next \in Nat /\ t.tails \in Nat
         /\ t.ready \in Seq(Nat) /\ t.nudges \in Nat
BY DEF Turns

(* What it takes for a step of the turn to keep the invariant. *)
Continues ==
    /\ conv' \in Seq(Messages) /\ journal' \in Seq(Messages) /\ Own' \in Seq(Messages)
    /\ ~meddled => Within(conv', journal') /\ Within(Own', journal')

LEMMA TurnKeeps ==
  ASSUME TranscriptInv, ThisTurn, used' \in Used, Continues, TurnShape'
  PROVE  TranscriptInv'
BY DEF TranscriptInv, TranscriptShape, Kept, ThisTurn, Continues

LEMMA EndIs ==
  ASSUME End
  PROVE  TurnShape' /\ Own' = buffer'
<1>1. turn' = [at |-> "ending"]
  BY DEF End
<1>2. turn'.at = "ending"
  BY <1>1
<1>3. TurnShape'
  BY <1>1, <1>2 DEF TurnShape, Resting, At
<1>4. QED BY <1>2, <1>3 DEF Own, At

LEMMA MovesTo ==
  ASSUME turn' \in Turns, turn'.at # "request",
         turn'.at \in {"batch", "wave", "record", "exec"} => IsAssistant(turn'.reply)
  PROVE  TurnShape' /\ Own' = buffer'
<1>1. turn'.at # "idle"
  BY TurnFields DEF Places
<1>2. TurnShape'
  BY <1>1 DEF TurnShape, Resting, At
<1>3. QED BY <1>2 DEF Own, At

(* Outside of a request the buffer is the turn's own. *)
LEMMA BufferIs ==
  ASSUME TranscriptInv, ~At("request")
  PROVE  /\ buffer \in Seq(Messages) /\ conv \in Seq(Messages) /\ journal \in Seq(Messages)
         /\ ~meddled => Within(conv, journal) /\ Within(buffer, journal)
BY DEF TranscriptInv, TranscriptShape, Kept, Own

(* The three copies are made the same. *)
LEMMA PersistContinues ==
  ASSUME NEW s \in Seq(Messages), conv' = s, journal' = s, Own' = s
  PROVE  Continues
<1>1. Within(s, s)
  BY WithinItself
<1>2. QED BY <1>1 DEF Continues

(* The conversation and the file grow by the same, the buffer too or not. *)
LEMMA GrowthContinues ==
  ASSUME TranscriptInv, ~At("request"), NEW u \in Seq(Messages),
         conv' = conv \o u, journal' = journal \o u, Own' = buffer',
         buffer' \in {<<>>, buffer, buffer \o u, conv, conv \o u}
  PROVE  Continues
<1>1. /\ buffer \in Seq(Messages) /\ conv \in Seq(Messages) /\ journal \in Seq(Messages)
      /\ ~meddled => Within(conv, journal) /\ Within(buffer, journal)
  BY BufferIs
<1>2. /\ conv' \in Seq(Messages) /\ journal' \in Seq(Messages) /\ buffer \o u \in Seq(Messages)
      /\ <<>> \in Seq(Messages)
  BY <1>1
<1>3. buffer' \in Seq(Messages)
  BY <1>1, <1>2
<1>4. ASSUME ~meddled PROVE Within(conv', journal') /\ Within(buffer', journal')
  <2>1. Within(conv, journal \o u) /\ Within(conv \o u, journal \o u)
    BY <1>1, <1>4, WithinConcat
  <2>2. Within(buffer, journal \o u) /\ Within(buffer \o u, journal \o u)
    BY <1>1, <1>4, WithinConcat
  <2>3. Within(<<>>, journal \o u)
    BY <1>2, WithinEmpty
  <2>4. QED BY <2>1, <2>2, <2>3
<1>5. QED BY <1>2, <1>3, <1>4 DEF Continues

LEMMA AppendJoins ==
  ASSUME NEW S, NEW s \in Seq(S), NEW x \in S
  PROVE  Append(s, x) = s \o <<x>> /\ <<x>> \in Seq(S) /\ s \o <<>> = s /\ <<>> \in Seq(S)
OBVIOUS

(* One message is recorded. *)
LEMMA RecordContinues ==
  ASSUME TranscriptInv, ~At("request"), NEW m \in Messages, Record(m), Own' = buffer',
         buffer' \in {buffer, Append(buffer, m), Append(conv, m)}
  PROVE  Continues
<1>1. buffer \in Seq(Messages) /\ conv \in Seq(Messages) /\ journal \in Seq(Messages)
  BY BufferIs
<1>2. /\ Append(buffer, m) = buffer \o <<m>> /\ Append(conv, m) = conv \o <<m>>
      /\ Append(journal, m) = journal \o <<m>> /\ <<m>> \in Seq(Messages)
  BY <1>1, AppendJoins
<1>3. QED BY <1>2, GrowthContinues DEF Record

(* Nothing is recorded. *)
LEMMA NothingContinues ==
  ASSUME TranscriptInv, ~At("request"), conv' = conv, journal' = journal, Own' = buffer',
         buffer' \in {<<>>, buffer, conv}
  PROVE  Continues
<1>1. buffer \in Seq(Messages) /\ conv \in Seq(Messages) /\ journal \in Seq(Messages)
  BY BufferIs
<1>2. <<>> \in Seq(Messages) /\ conv \o <<>> = conv /\ journal \o <<>> = journal
  BY <1>1
<1>3. QED BY <1>2, GrowthContinues

LEMMA UsedIs ==
  ASSUME TranscriptInv
  PROVE  /\ used \in Used /\ used.prompts \in Nat /\ used.replies \in Nat /\ used.rounds \in Nat
         /\ TurnShape /\ bang \in Nat
BY DEF TranscriptInv, TranscriptShape, Used

LEMMA UseType ==
  ASSUME NEW u \in Used, NEW w \in {"prompts", "replies", "rounds", "shrinks", "commands"}
  PROVE  [u EXCEPT ![w] = @ + 1] \in Used
BY DEF Used

(* Each step of the turn. *)

LEMMA CloneKeeps == ASSUME TranscriptInv, CloneConversation PROVE TranscriptInv'
<1>1. turn \in Turns /\ ~At("request") /\ used' \in Used
  BY UsedIs, TurnIs DEF CloneConversation, Places, At
<1>2. turn' \in Turns /\ turn'.at = "top"
  BY <1>1 DEF CloneConversation, GoTo, Places, Turns
<1>3. TurnShape' /\ Own' = buffer'
  BY <1>2, MovesTo
<1>4. Continues
  BY <1>1, <1>3, NothingContinues DEF CloneConversation
<1>5. QED BY <1>1, <1>3, <1>4, TurnKeeps DEF CloneConversation

LEMMA ShrinkKeeps == ASSUME TranscriptInv, Shrink PROVE TranscriptInv'
<1>1. turn \in Turns /\ ~At("request") /\ used \in Used
  BY UsedIs, TurnIs DEF Shrink, Places, At
<1>2. TurnShape' /\ Own' = buffer'
  <2>1. CASE End
    BY <2>1, EndIs
  <2>2. CASE GoTo("shrunk")
    <3>1. turn' \in Turns /\ turn'.at = "shrunk"
      BY <1>1, <2>2 DEF GoTo, Places, Turns
    <3>2. QED BY <3>1, MovesTo
  <2>3. QED BY <2>1, <2>2 DEF Shrink
<1>3. Compacted(buffer) \in Seq(Messages)
  BY <1>1, BufferIs, CompactedType
<1>4. Continues
  BY <1>2, <1>3, PersistContinues DEF Shrink, Persist
<1>5. used' \in Used
  BY <1>1, UseType DEF Shrink, Use
<1>6. QED BY <1>2, <1>4, <1>5, TurnKeeps DEF Shrink

LEMMA SendRequestIs ==
  ASSUME TranscriptInv, SendRequest
  PROVE  LET s == sanitize_orphaned_tool_calls(buffer)
         IN /\ s \in Seq(Messages) /\ Own' = s /\ TurnShape' /\ turn'.at = "request"
            /\ \/ s = buffer /\ conv' = conv /\ journal' = journal
               \/ conv' = s /\ journal' = s
<1>1. turn \in Turns /\ ~At("request")
  BY UsedIs, TurnIs DEF SendRequest, Places, At
<1>2. buffer \in Seq(Messages)
  BY <1>1, BufferIs
<1> DEFINE s == sanitize_orphaned_tool_calls(buffer)
<1>3. s \in Seq(Messages)
  BY <1>2, SanitizeType
<1>4. PICK tails \in Tails :
        /\ buffer' = s \o [i \in 1 .. tails |-> Transient]
        /\ turn' = [turn EXCEPT !.at = "request", !.tails = tails]
        /\ IF s = buffer THEN UNCHANGED <<conv, journal>> ELSE conv' = s /\ journal' = s
  BY DEF SendRequest
<1> HIDE DEF s
<1>5. tails \in Nat
  BY TranscriptAssumption
<1>6. turn' \in Turns /\ turn'.at = "request" /\ turn'.tails = tails
  BY <1>1, <1>4, <1>5 DEF Turns, Places
<1>7. TurnShape'
  BY <1>6 DEF TurnShape, Resting, At
<1>8. Own' = s
  <2>1. Own' = SubSeq(buffer', 1, Len(buffer') - tails)
    BY <1>6 DEF Own, At, WithoutTransient
  <2>2. QED BY <1>3, <1>4, <1>5, <2>1, TakenOff
<1>9. \/ s = buffer /\ conv' = conv /\ journal' = journal
      \/ conv' = s /\ journal' = s
  BY <1>4
<1>10. QED BY <1>3, <1>6, <1>7, <1>8, <1>9 DEF s

LEMMA SendRequestKeeps == ASSUME TranscriptInv, SendRequest PROVE TranscriptInv'
<1> DEFINE s == sanitize_orphaned_tool_calls(buffer)
<1>1. /\ s \in Seq(Messages) /\ Own' = s /\ TurnShape'
      /\ \/ s = buffer /\ conv' = conv /\ journal' = journal
         \/ conv' = s /\ journal' = s
  BY SendRequestIs
<1> HIDE DEF s
<1>2. ~At("request") /\ used' \in Used
  BY UsedIs DEF SendRequest, At
<1>3. Continues
  <2>1. CASE s = buffer /\ conv' = conv /\ journal' = journal
    BY <1>1, <1>2, <2>1, BufferIs DEF Continues
  <2>2. CASE conv' = s /\ journal' = s
    BY <1>1, <2>2, PersistContinues
  <2>3. QED BY <1>1, <2>1, <2>2
<1>4. QED BY <1>1, <1>2, <1>3, TurnKeeps DEF SendRequest

LEMMA RequestFailsKeeps == ASSUME TranscriptInv, RequestFails PROVE TranscriptInv'
<1>1. TurnShape' /\ Own' = buffer' /\ used' \in Used
  BY UsedIs, EndIs DEF RequestFails
<1>2. conv \in Seq(Messages) /\ journal \in Seq(Messages) /\ (~meddled => Within(conv, journal))
  BY DEF TranscriptInv, TranscriptShape, Kept
<1>3. <<>> \in Seq(Messages) /\ Within(<<>>, journal)
  BY <1>2, WithinEmpty
<1>4. Continues
  BY <1>1, <1>2, <1>3 DEF Continues, RequestFails
<1>5. QED BY <1>1, <1>4, TurnKeeps DEF RequestFails

(* At a request the buffer without the transient messages is the turn's own. *)
LEMMA OwnIs ==
  ASSUME TranscriptInv, At("request")
  PROVE  /\ WithoutTransient \in Seq(Messages) /\ turn \in Turns
         /\ conv \in Seq(Messages) /\ journal \in Seq(Messages)
         /\ ~meddled => Within(conv, journal) /\ Within(WithoutTransient, journal)
<1>1. turn \in Turns
  BY UsedIs, TurnIs DEF Places
<1>2. QED BY <1>1 DEF TranscriptInv, TranscriptShape, Kept, Own

LEMMA ContextTooLongKeeps == ASSUME TranscriptInv, ContextTooLong PROVE TranscriptInv'
<1>1. WithoutTransient \in Seq(Messages) /\ turn \in Turns /\ used' \in Used
  BY OwnIs, UsedIs DEF ContextTooLong
<1>2. Compacted(WithoutTransient) \in Seq(Messages)
  BY <1>1, CompactedType
<1>3. TurnShape' /\ Own' = buffer'
  <2>1. CASE End
    BY <2>1, EndIs
  <2>2. CASE turn' = [turn EXCEPT !.at = "top", !.retried = TRUE, !.tails = 0]
    <3>1. turn' \in Turns /\ turn'.at = "top"
      BY <1>1, <2>2 DEF Turns, Places
    <3>2. QED BY <3>1, MovesTo
  <2>3. QED BY <2>1, <2>2 DEF ContextTooLong
<1>4. Continues
  BY <1>2, <1>3, PersistContinues DEF ContextTooLong, Persist
<1>5. QED BY <1>1, <1>3, <1>4, TurnKeeps DEF ContextTooLong

LEMMA RepliesType == Replies \subseteq Seq(Names)
<1>1. <<>> \in Seq(Names) /\ <<"finish">> \in Seq(Names)
  BY DEF Names
<1>2. QED BY <1>1, TranscriptAssumption DEF Replies, Names

(* The reply: a new number, at the end of all three copies. *)
Replied(m) ==
    /\ m \in Messages /\ IsAssistant(m) /\ m.n = used.replies + 1
    /\ buffer' = Append(WithoutTransient, m) /\ conv' = buffer' /\ journal' = Append(journal, m)
    /\ turn' \in Turns /\ turn'.at \in {"complete", "batch"} /\ turn'.reply = m /\ turn'.next = 1
    /\ used' \in Used /\ used'.replies = used.replies + 1

LEMMA RespondIs == ASSUME TranscriptInv, Respond PROVE \E m : Replied(m)
<1>1. turn \in Turns
  BY OwnIs DEF Respond
<1>2. used \in Used /\ used.replies \in Nat /\ used.rounds \in Nat
  BY UsedIs
<1>3. PICK calls \in Replies, answers \in BOOLEAN :
        LET m == Assistant(used.replies + 1, calls)
        IN /\ buffer' = Append(WithoutTransient, m)
           /\ conv' = buffer'
           /\ journal' = Append(journal, m)
           /\ turn' = [turn EXCEPT !.at = IF calls = <<>> THEN "complete" ELSE "batch",
                                   !.reply = m, !.next = 1, !.tails = 0,
                                   !.answered = @ \/ answers]
           /\ used' = [used EXCEPT !.replies = @ + 1,
                                   !.rounds = IF Len(calls) > 0 /\ calls # <<"finish">>
                                              THEN @ + 1 ELSE @]
  BY DEF Respond
<1> DEFINE m == Assistant(used.replies + 1, calls)
<1>4. m \in Messages /\ IsAssistant(m) /\ m.n = used.replies + 1
  <2>1. calls \in Seq(Names)
    BY RepliesType
  <2>2. QED BY <1>2, <2>1, MakesMessages DEF IsAssistant
<1>5. /\ buffer' = Append(WithoutTransient, m) /\ conv' = buffer' /\ journal' = Append(journal, m)
      /\ turn' = [turn EXCEPT !.at = IF calls = <<>> THEN "complete" ELSE "batch",
                              !.reply = m, !.next = 1, !.tails = 0, !.answered = @ \/ answers]
  BY <1>3
<1> HIDE DEF m
<1>6. turn' \in Turns /\ turn'.at \in {"complete", "batch"} /\ turn'.reply = m /\ turn'.next = 1
  BY <1>1, <1>4, <1>5 DEF Turns, Places
<1>7. used' \in Used /\ used'.replies = used.replies + 1
  <2> DEFINE rounds == IF Len(calls) > 0 /\ calls # <<"finish">>
                       THEN used.rounds + 1 ELSE used.rounds
  <2>1. used' = [used EXCEPT !.replies = used.replies + 1, !.rounds = rounds]
    BY <1>3
  <2>2. rounds \in Nat /\ used.replies + 1 \in Nat
    BY <1>2
  <2> HIDE DEF rounds
  <2>3. QED BY <1>2, <2>1, <2>2 DEF Used
<1>8. QED BY <1>4, <1>5, <1>6, <1>7 DEF Replied

LEMMA RespondKeeps == ASSUME TranscriptInv, Respond PROVE TranscriptInv'
<1>1. /\ WithoutTransient \in Seq(Messages) /\ journal \in Seq(Messages)
      /\ ~meddled => Within(conv, journal) /\ Within(WithoutTransient, journal)
  BY OwnIs DEF Respond
<1>2. PICK m : Replied(m)
  BY RespondIs
<1>3. TurnShape' /\ Own' = buffer'
  BY <1>2, MovesTo DEF Replied
<1>4. Continues
  <2>1. buffer' \in Seq(Messages) /\ journal' \in Seq(Messages) /\ conv' = buffer'
    BY <1>1, <1>2 DEF Replied
  <2>2. ~meddled => Within(buffer', journal')
    BY <1>1, <1>2, WithinBoth DEF Replied
  <2>3. QED BY <1>3, <2>1, <2>2 DEF Continues
<1>5. QED BY <1>2, <1>3, <1>4, TurnKeeps DEF Respond, Replied

LEMMA StopTurnKeeps == ASSUME TranscriptInv, StopTurn PROVE TranscriptInv'
<1>1. TurnShape' /\ Own' = buffer' /\ used' \in Used /\ ~At("request")
  BY UsedIs, EndIs DEF StopTurn, At
<1>2. Continues
  BY <1>1, NothingContinues DEF StopTurn
<1>3. QED BY <1>1, <1>2, TurnKeeps DEF StopTurn

(* The calls of a reply. *)

LEMMA ReplyIs ==
  ASSUME TranscriptInv, turn.at \in {"batch", "wave", "record", "exec"}
  PROVE  /\ turn \in Turns /\ ~At("request") /\ turn.next \in Nat /\ turn.ready \in Seq(Nat)
         /\ IsAssistant(turn.reply) /\ Calls \in Seq(Names)
         /\ \A k \in Nat : Result(k) \in Messages
<1>1. TurnShape
  BY DEF TranscriptInv, TranscriptShape
<1>2. turn \in Turns /\ IsAssistant(turn.reply)
  BY <1>1, TurnIs DEF Places, At, TurnShape
<1>3. turn.next \in Nat /\ turn.ready \in Seq(Nat) /\ turn.reply \in Messages
  BY <1>2, TurnFields
<1>4. turn.reply.n \in Nat /\ turn.reply.calls \in Seq(Names)
  BY <1>2, <1>3, MessageIs DEF IsAssistant
<1>5. \A k \in Nat : Result(k) \in Messages
  BY <1>4, MakesMessages DEF Result
<1>6. QED BY <1>2, <1>3, <1>4, <1>5 DEF Calls, At

LEMMA WaveIs == ASSUME Calls \in Seq(Names) PROVE Wave \in Nat /\ Wave <= Len(Calls)
<1> DEFINE writes == {k \in DOMAIN Calls : Calls[k] # "read"}
           first == CHOOSE k \in writes : \A j \in writes : k <= j
<1>1. Len(Calls) \in Nat /\ writes \subseteq 1 .. Len(Calls)
  OBVIOUS
<1>2. CASE writes = {}
  BY <1>1, <1>2 DEF Wave
<1>3. CASE writes # {}
  <2>1. Wave = first - 1
    BY <1>3 DEF Wave
  <2>2. writes \subseteq Nat
    BY <1>1
  <2> HIDE DEF writes
  <2>3. PICK k \in writes : \A j \in writes : ~(j < k)
    BY <1>3, <2>2, Least
  <2>4. \A j \in writes : k <= j
    BY <2>2, <2>3
  <2>5. first \in writes
    BY <2>4
  <2> HIDE DEF first
  <2>6. QED BY <1>1, <2>1, <2>5
<1>4. QED BY <1>2, <1>3

OfReply(m, n) == IsTool(m) /\ m.n = n

(* u has results of reply n for the calls in M, at most one for each. *)
ResultsFor(u, n, M) ==
    /\ \A y \in DOMAIN u : OfReply(u[y], n) /\ u[y].k \in M
    /\ \A y, z \in DOMAIN u : u[y].k = u[z].k => y = z

(* The wave passes its gates: the calls in M are denied and get their results, in   *)
(* the conversation only.                                                          *)
Gated(u, M) ==
    /\ u \in Seq(Messages) /\ \A i \in 1 .. Len(u) : \E k \in Nat : u[i] = Result(k)
    /\ M \subseteq 1 .. Wave /\ ResultsFor(u, turn.reply.n, M)
    /\ conv' = conv \o u /\ journal' = journal \o u
    /\ \/ End
       \/ /\ turn' \in Turns /\ turn'.at = "wave"
          /\ turn'.reply = turn.reply /\ turn'.next = turn.next
          /\ Lists(turn'.ready, 1 .. Wave \ M)

LEMMA GateWaveIs == ASSUME TranscriptInv, GateWave PROVE \E u, M : Gated(u, M)
<1>1. turn \in Turns /\ Calls \in Seq(Names) /\ \A k \in Nat : Result(k) \in Messages
  BY ReplyIs DEF GateWave, At
<1>2. PICK passed \in 0 .. Wave : \E denied \in SUBSET (1 .. passed) :
        LET answered == Only(Count(passed), denied)
            answers == [i \in DOMAIN answered |-> Result(answered[i])]
        IN /\ conv' = conv \o answers /\ journal' = journal \o answers
           /\ IF passed < Wave THEN End
              ELSE turn' = [turn EXCEPT !.at = "wave",
                              !.ready = Only(Count(Wave), 1 .. Wave \ denied)]
  BY DEF GateWave
<1>3. PICK denied \in SUBSET (1 .. passed) :
        LET answered == Only(Count(passed), denied)
            answers == [i \in DOMAIN answered |-> Result(answered[i])]
        IN /\ conv' = conv \o answers /\ journal' = journal \o answers
           /\ IF passed < Wave THEN End
              ELSE turn' = [turn EXCEPT !.at = "wave",
                              !.ready = Only(Count(Wave), 1 .. Wave \ denied)]
  BY <1>2
<1>4. Wave \in Nat /\ passed \in Nat /\ denied \subseteq 1 .. passed /\ denied \subseteq 1 .. Wave
  BY <1>1, WaveIs
<1> DEFINE answered == Only(Count(passed), denied)
           answers == [i \in DOMAIN answered |-> Result(answered[i])]
           ready == Only(Count(Wave), 1 .. Wave \ denied)
<1>5. /\ answers \in Seq(Messages) /\ \A i \in 1 .. Len(answers) : \E k \in Nat : answers[i] = Result(k)
      /\ ResultsFor(answers, turn.reply.n, denied)
  <2>1. Lists(answered, denied)
    <3>1. Lists(answered, denied \cap (1 .. passed))
      BY <1>4, OnlyCount
    <3>2. denied \cap (1 .. passed) = denied
      BY <1>4
    <3> HIDE DEF answered
    <3>3. QED BY <3>1, <3>2
  <2> HIDE DEF answered
  <2>2. answered \in Seq(denied) /\ \A i, j \in DOMAIN answered : answered[i] = answered[j] => i = j
    BY <2>1 DEF Lists, IsInjective
  <2>3. /\ DOMAIN answered = 1 .. Len(answered) /\ Len(answered) \in Nat
        /\ \A i \in 1 .. Len(answered) : answered[i] \in denied /\ answered[i] \in Nat
    <3>1. /\ DOMAIN answered = 1 .. Len(answered) /\ Len(answered) \in Nat
          /\ \A i \in 1 .. Len(answered) : answered[i] \in denied
      BY <2>2
    <3>2. \A k \in denied : k \in Nat
      BY <1>4
    <3>3. QED BY <3>1, <3>2
  <2>4. \A i \in 1 .. Len(answered) : Result(answered[i]) \in Messages
    BY <1>1, <2>3
  <2>5. answers = [i \in 1 .. Len(answered) |-> Result(answered[i])]
    BY <2>3
  <2>6. answers \in Seq(Messages) /\ Len(answers) = Len(answered) /\ DOMAIN answers = DOMAIN answered
    BY <2>3, <2>4, <2>5
  <2>7. \A i \in 1 .. Len(answered) : answers[i] = Result(answered[i])
    BY <2>5
  <2>8. \A k : OfReply(Result(k), turn.reply.n) /\ Result(k).k = k
    BY DEF OfReply, Result, Tool, IsTool
  <2> HIDE DEF answers
  <2>9. ResultsFor(answers, turn.reply.n, denied)
    BY <2>2, <2>3, <2>6, <2>7, <2>8 DEF ResultsFor
  <2>10. QED BY <2>3, <2>6, <2>7, <2>9
<1>6. ready \in Seq(Nat) /\ Lists(ready, 1 .. Wave \ denied)
  <2>1. Lists(ready, (1 .. Wave \ denied) \cap (1 .. Wave))
    BY <1>4, OnlyCount
  <2>2. (1 .. Wave \ denied) \cap (1 .. Wave) = 1 .. Wave \ denied
    OBVIOUS
  <2> HIDE DEF ready
  <2>3. Lists(ready, 1 .. Wave \ denied)
    BY <2>1, <2>2
  <2>4. ready \in Seq(1 .. Wave \ denied) /\ 1 .. Wave \ denied \subseteq Nat
    BY <1>4, <2>3 DEF Lists
  <2>5. ready \in Seq(Nat)
    BY <2>4
  <2>6. QED BY <2>3, <2>5
<1>7. conv' = conv \o answers /\ journal' = journal \o answers
  BY <1>3
<1>8. End \/ turn' = [turn EXCEPT !.at = "wave", !.ready = ready]
  BY <1>3
<1> HIDE DEF answered, answers, ready
<1>9. turn' = [turn EXCEPT !.at = "wave", !.ready = ready]
      => /\ turn' \in Turns /\ turn'.at = "wave"
         /\ turn'.reply = turn.reply /\ turn'.next = turn.next /\ turn'.ready = ready
  BY <1>1, <1>6 DEF Turns, Places
<1>10. QED BY <1>4, <1>5, <1>6, <1>7, <1>8, <1>9 DEF Gated

LEMMA GateWaveKeeps == ASSUME TranscriptInv, GateWave PROVE TranscriptInv'
<1>1. turn \in Turns /\ ~At("request") /\ IsAssistant(turn.reply)
  BY ReplyIs DEF GateWave, At
<1>2. PICK u, M : Gated(u, M)
  BY GateWaveIs
<1>3. TurnShape' /\ Own' = buffer'
  <2>1. CASE End
    BY <2>1, EndIs
  <2>2. CASE turn' \in Turns /\ turn'.at = "wave" /\ turn'.reply = turn.reply
    BY <1>1, <2>2, MovesTo
  <2>3. QED BY <1>2, <2>1, <2>2 DEF Gated
<1>4. Continues
  <2>1. buffer' = buffer /\ u \in Seq(Messages) /\ conv' = conv \o u /\ journal' = journal \o u
    BY <1>2 DEF GateWave, Gated
  <2>2. QED BY <1>1, <1>3, <2>1, GrowthContinues
<1>5. QED BY <1>3, <1>4, UsedIs, TurnKeeps DEF GateWave

LEMMA RunWaveKeeps == ASSUME TranscriptInv, RunWave PROVE TranscriptInv'
<1>1. turn \in Turns /\ ~At("request") /\ IsAssistant(turn.reply) /\ used' \in Used
  BY ReplyIs, UsedIs DEF RunWave, At
<1>2. TurnShape' /\ Own' = buffer'
  <2>1. CASE End
    BY <2>1, EndIs
  <2>2. CASE GoTo("record")
    <3>1. turn' \in Turns /\ turn'.at = "record" /\ turn'.reply = turn.reply
      BY <1>1, <2>2 DEF GoTo, Turns, Places
    <3>2. QED BY <1>1, <3>1, MovesTo
  <2>3. QED BY <2>1, <2>2 DEF RunWave
<1>3. Continues
  BY <1>1, <1>2, NothingContinues DEF RunWave
<1>4. QED BY <1>1, <1>2, <1>3, TurnKeeps DEF RunWave

LEMMA RecordWaveKeeps == ASSUME TranscriptInv, RecordWave PROVE TranscriptInv'
<1>1. /\ turn \in Turns /\ ~At("request") /\ IsAssistant(turn.reply) /\ turn.ready \in Seq(Nat)
      /\ Calls \in Seq(Names) /\ \A k \in Nat : Result(k) \in Messages
  BY ReplyIs DEF RecordWave, At
<1>2. used' \in Used /\ buffer' = buffer
  BY UsedIs DEF RecordWave
<1>3. CASE turn.ready = <<>>
  <2>1. turn' = [turn EXCEPT !.at = "batch", !.next = Wave + 1] /\ UNCHANGED <<conv, journal>>
    BY <1>3 DEF RecordWave
  <2>2. Wave + 1 \in Nat
    BY <1>1, WaveIs
  <2>3. turn' \in Turns /\ turn'.at = "batch" /\ turn'.reply = turn.reply
    BY <1>1, <2>1, <2>2 DEF Turns, Places
  <2>4. TurnShape' /\ Own' = buffer'
    BY <1>1, <2>3, MovesTo
  <2>5. Continues
    BY <1>1, <1>2, <2>1, <2>4, NothingContinues
  <2>6. QED BY <1>2, <2>4, <2>5, TurnKeeps DEF RecordWave
<1>4. CASE turn.ready # <<>>
  <2>1. Record(Result(Head(turn.ready))) /\ turn' = [turn EXCEPT !.ready = Tail(@)]
    BY <1>4 DEF RecordWave
  <2>2. Head(turn.ready) \in Nat /\ Tail(turn.ready) \in Seq(Nat)
    BY <1>1, <1>4
  <2>3. turn' \in Turns /\ turn'.at = turn.at /\ turn'.reply = turn.reply
    BY <1>1, <2>1, <2>2 DEF Turns
  <2>4. TurnShape' /\ Own' = buffer'
    BY <1>1, <2>3, MovesTo DEF At
  <2>5. Continues
    BY <1>1, <1>2, <2>1, <2>2, <2>4, RecordContinues
  <2>6. QED BY <1>2, <2>4, <2>5, TurnKeeps DEF RecordWave
<1>5. QED BY <1>3, <1>4

(* The batch goes on with its next call. *)
LEMMA NextCall ==
  ASSUME TranscriptInv, turn.at \in {"batch", "wave", "record", "exec"},
         NEW t \in Turns, t.at = "batch", t.reply = turn.reply, turn' = t
  PROVE  TurnShape' /\ Own' = buffer'
BY ReplyIs, MovesTo

LEMMA DenyCallKeeps == ASSUME TranscriptInv, DenyCall PROVE TranscriptInv'
<1>1. turn.at = "batch" /\ used' \in Used /\ buffer' = buffer /\ Record(Result(turn.next))
  BY UsedIs DEF DenyCall, CallNow, At
<1>2. turn \in Turns /\ ~At("request") /\ Result(turn.next) \in Messages /\ turn.next + 1 \in Nat
  BY <1>1, ReplyIs
<1>3. turn' \in Turns /\ turn'.at = "batch" /\ turn'.reply = turn.reply
  BY <1>1, <1>2 DEF DenyCall, Turns
<1>4. TurnShape' /\ Own' = buffer'
  BY <1>1, <1>3, NextCall
<1>5. Continues
  BY <1>1, <1>2, <1>4, RecordContinues
<1>6. QED BY <1>1, <1>4, <1>5, TurnKeeps DEF DenyCall

LEMMA ExecuteCallKeeps == ASSUME TranscriptInv, ExecuteCall PROVE TranscriptInv'
<1>1. turn.at = "batch" /\ used' \in Used
  BY UsedIs DEF ExecuteCall, CallNow, At
<1>2. turn \in Turns /\ ~At("request") /\ IsAssistant(turn.reply)
  BY <1>1, ReplyIs
<1>3. turn' \in Turns /\ turn'.at = "exec" /\ turn'.reply = turn.reply
  BY <1>2 DEF ExecuteCall, GoTo, Turns, Places
<1>4. TurnShape' /\ Own' = buffer'
  BY <1>2, <1>3, MovesTo
<1>5. Continues
  BY <1>2, <1>4, NothingContinues DEF ExecuteCall
<1>6. QED BY <1>1, <1>4, <1>5, TurnKeeps DEF ExecuteCall

LEMMA RecordCallKeeps == ASSUME TranscriptInv, RecordCall PROVE TranscriptInv'
<1>1. turn.at = "exec" /\ used' \in Used
  BY UsedIs DEF RecordCall, At
<1>2. turn \in Turns /\ ~At("request") /\ Result(turn.next) \in Messages /\ turn.next + 1 \in Nat
  BY <1>1, ReplyIs
<1>3. CASE RecordBoth(Result(turn.next)) /\ turn' = [turn EXCEPT !.at = "batch", !.next = @ + 1]
  <2>1. turn' \in Turns /\ turn'.at = "batch" /\ turn'.reply = turn.reply
    BY <1>2, <1>3 DEF Turns, Places
  <2>2. TurnShape' /\ Own' = buffer'
    BY <1>1, <2>1, NextCall
  <2>3. Continues
    BY <1>2, <1>3, <2>2, RecordContinues DEF RecordBoth
  <2>4. QED BY <1>1, <2>2, <2>3, TurnKeeps DEF RecordCall
<1>4. CASE cancelled /\ End /\ UNCHANGED <<conv, buffer, journal>>
  <2>1. TurnShape' /\ Own' = buffer'
    BY <1>4, EndIs
  <2>2. Continues
    BY <1>2, <1>4, <2>1, NothingContinues
  <2>3. QED BY <1>1, <2>1, <2>2, TurnKeeps DEF RecordCall
<1>5. QED BY <1>3, <1>4 DEF RecordCall

(* A nudge leaves the turn where it is said to go. *)
LEMMA GoOnIs ==
  ASSUME NEW t \in Turns, GoOn(t), turn \in Turns
  PROVE  turn' \in Turns /\ turn'.at = t.at /\ turn'.reply = t.reply
<1>1. CASE turn' = [t EXCEPT !.reflected = TRUE]
  BY <1>1 DEF Turns
<1>2. CASE turn' = [t EXCEPT !.nudges = @ + 1]
  <2>1. t.nudges + 1 \in Nat
    BY TurnFields
  <2>2. turn' = [t EXCEPT !.nudges = t.nudges + 1]
    BY <1>2
  <2>3. QED BY <2>1, <2>2 DEF Turns
<1>3. QED BY <1>1, <1>2 DEF GoOn

LEMMA RefuseFinishKeeps == ASSUME TranscriptInv, RefuseFinish PROVE TranscriptInv'
<1> DEFINE t == [turn EXCEPT !.at = "batch", !.next = @ + 1]
<1>1. turn.at = "exec" /\ used' \in Used /\ RecordBoth(Result(turn.next)) /\ GoOn(t)
  BY UsedIs DEF RefuseFinish, At
<1>2. turn \in Turns /\ ~At("request") /\ Result(turn.next) \in Messages /\ turn.next + 1 \in Nat
  BY <1>1, ReplyIs
<1>3. t \in Turns /\ t.at = "batch" /\ t.reply = turn.reply
  BY <1>2 DEF Turns, Places
<1> HIDE DEF t
<1>4. turn' \in Turns /\ turn'.at = "batch" /\ turn'.reply = turn.reply
  BY <1>1, <1>2, <1>3, GoOnIs
<1>5. TurnShape' /\ Own' = buffer'
  BY <1>1, <1>4, NextCall
<1>6. Continues
  BY <1>1, <1>2, <1>5, RecordContinues DEF RecordBoth
<1>7. QED BY <1>1, <1>5, <1>6, TurnKeeps DEF RefuseFinish

LEMMA AcceptFinishKeeps == ASSUME TranscriptInv, AcceptFinish PROVE TranscriptInv'
<1> DEFINE r == Result(turn.next)
<1>1. /\ turn.at = "exec" /\ used' \in Used
      /\ buffer' = Append(buffer, r) /\ conv' = buffer' /\ journal' = Append(journal, r)
  BY UsedIs DEF AcceptFinish, At
<1>2. ~At("request") /\ r \in Messages
  BY <1>1, ReplyIs
<1> HIDE DEF r
<1>3. /\ buffer \in Seq(Messages) /\ journal \in Seq(Messages)
      /\ ~meddled => Within(buffer, journal)
  BY <1>2, BufferIs
<1>4. TurnShape' /\ Own' = buffer'
  BY EndIs DEF AcceptFinish
<1>5. buffer' \in Seq(Messages) /\ journal' \in Seq(Messages)
  BY <1>1, <1>2, <1>3
<1>6. ~meddled => Within(buffer', journal')
  BY <1>1, <1>2, <1>3, WithinBoth
<1>7. Continues
  BY <1>1, <1>4, <1>5, <1>6 DEF Continues
<1>8. QED BY <1>1, <1>4, <1>7, TurnKeeps DEF AcceptFinish

LEMMA EndBatchKeeps == ASSUME TranscriptInv, EndBatch PROVE TranscriptInv'
<1>1. turn.at = "batch" /\ used' \in Used
  BY UsedIs DEF EndBatch, At
<1>2. turn \in Turns /\ ~At("request")
  BY <1>1, ReplyIs
<1>3. TurnShape' /\ Own' = buffer'
  <2>1. CASE End
    BY <2>1, EndIs
  <2>2. CASE GoTo("top")
    <3>1. turn' \in Turns /\ turn'.at = "top"
      BY <1>2, <2>2 DEF GoTo, Turns, Places
    <3>2. QED BY <3>1, MovesTo
  <2>3. QED BY <2>1, <2>2 DEF EndBatch
<1>4. Continues
  <2>1. CASE buffer' = conv /\ UNCHANGED <<conv, journal>>
    BY <1>2, <1>3, <2>1, NothingContinues
  <2>2. CASE Record(Note) /\ buffer' = Append(conv, Note)
    BY <1>2, <1>3, <2>2, MakesMessages, RecordContinues
  <2>3. QED BY <2>1, <2>2 DEF EndBatch
<1>5. QED BY <1>1, <1>3, <1>4, TurnKeeps DEF EndBatch

(* The turn is complete or goes on: with an advice, a nudge or neither. *)
Completed(u) ==
    /\ u \in Seq(Messages) /\ \A i \in 1 .. Len(u) : u[i] \in {Note, User(0)}
    /\ buffer' = buffer \o u /\ conv' = conv \o u /\ journal' = journal \o u
    /\ End \/ (turn' \in Turns /\ turn'.at = "top")

LEMMA CompleteIs == ASSUME TranscriptInv, Complete PROVE \E u : Completed(u)
<1>1. turn \in Turns
  BY UsedIs, TurnIs DEF Complete, Places
<1>2. PICK advice \in {<<>>, <<Note>>} :
        LET add == advice \o (IF turn'.at = "top" THEN <<User(0)>> ELSE <<>>)
        IN /\ GoOn([turn EXCEPT !.at = "top"]) \/ (~MustSummarize /\ End)
           /\ buffer' = buffer \o add /\ conv' = conv \o add /\ journal' = journal \o add
  BY DEF Complete
<1> DEFINE nudge == IF turn'.at = "top" THEN <<User(0)>> ELSE <<>>
           add == advice \o nudge  N == {Note, User(0)}
<1>3. add \in Seq(N) /\ N \subseteq Messages
  <2>1. Note \in Messages /\ User(0) \in Messages
    BY MakesMessages
  <2>2. Note \in N /\ User(0) \in N
    OBVIOUS
  <2> HIDE DEF N
  <2>3. <<>> \in Seq(N) /\ <<Note>> \in Seq(N) /\ <<User(0)>> \in Seq(N)
    BY <2>2
  <2>4. advice \in Seq(N) /\ nudge \in Seq(N)
    BY <2>3
  <2> HIDE DEF nudge
  <2>5. QED BY <2>1, <2>4 DEF N
<1>4. /\ GoOn([turn EXCEPT !.at = "top"]) \/ End
      /\ buffer' = buffer \o add /\ conv' = conv \o add /\ journal' = journal \o add
  BY <1>2
<1> HIDE DEF add
<1>5. add \in Seq(Messages) /\ \A i \in 1 .. Len(add) : add[i] \in N
  BY <1>3
<1>6. ASSUME GoOn([turn EXCEPT !.at = "top"]) PROVE turn' \in Turns /\ turn'.at = "top"
  <2>1. [turn EXCEPT !.at = "top"] \in Turns /\ [turn EXCEPT !.at = "top"].at = "top"
    BY <1>1 DEF Turns, Places
  <2>2. QED BY <1>1, <1>6, <2>1, GoOnIs
<1>7. QED BY <1>4, <1>5, <1>6 DEF Completed

LEMMA CompleteKeeps == ASSUME TranscriptInv, Complete PROVE TranscriptInv'
<1>1. ~At("request") /\ used' \in Used
  BY UsedIs DEF Complete, At
<1>2. PICK u : Completed(u)
  BY CompleteIs
<1>3. TurnShape' /\ Own' = buffer'
  <2>1. CASE End
    BY <2>1, EndIs
  <2>2. CASE turn' \in Turns /\ turn'.at = "top"
    BY <2>2, MovesTo
  <2>3. QED BY <1>2, <2>1, <2>2 DEF Completed
<1>4. Continues
  BY <1>1, <1>2, <1>3, GrowthContinues DEF Completed
<1>5. QED BY <1>1, <1>3, <1>4, TurnKeeps DEF Complete

(* Each step without a turn and of the dispatcher. *)

(* What the other steps have to keep. *)
LEMMA ShapeAndKept ==
  ASSUME Continues, copy' \in Seq(Messages) \cup {NoCopy}, cancelled' \in BOOLEAN,
         bang' \in Nat, meddled' \in BOOLEAN, used' \in Used, TurnShape', meddled' \/ ~meddled
  PROVE  TranscriptInv'
BY DEF TranscriptInv, TranscriptShape, Kept, Continues

LEMMA StateIs ==
  ASSUME TranscriptInv
  PROVE  /\ conv \in Seq(Messages) /\ journal \in Seq(Messages)
         /\ copy \in Seq(Messages) \cup {NoCopy} /\ cancelled \in BOOLEAN /\ bang \in Nat
         /\ meddled \in BOOLEAN /\ used \in Used /\ TurnShape
BY DEF TranscriptInv, TranscriptShape

(* Without a turn there is no buffer. *)
LEMMA NoTurnIs ==
  ASSUME turn' = NoTurn, buffer' = <<>>
  PROVE  TurnShape' /\ Own' = buffer'
<1>1. turn'.at = "idle"
  BY DEF NoTurn
<1>2. QED BY <1>1 DEF TurnShape, Resting, At, Own

LEMMA BeginTurnKeeps == ASSUME TranscriptInv, BeginTurn PROVE TranscriptInv'
<1> DEFINE new == (IF conv = <<>> THEN <<System>> ELSE <<>>) \o <<User(used.prompts + 1)>>
<1>1. /\ ~At("request") /\ conv' = conv \o new /\ journal' = journal \o new /\ buffer' = <<>>
      /\ turn' = Beginning /\ cancelled' = FALSE /\ Use("prompts") /\ UNCHANGED <<bang, copy, meddled>>
  BY DEF BeginTurn, Resting, At
<1>2. new \in Seq(Messages)
  <2>1. <<>> \in Seq(Messages) /\ <<System>> \in Seq(Messages)
    BY MakesMessages
  <2>2. User(used.prompts + 1) \in Messages
    BY UsedIs, MakesMessages
  <2>3. <<User(used.prompts + 1)>> \in Seq(Messages)
    BY <2>2
  <2>4. QED BY <2>1, <2>3
<1> HIDE DEF new
<1>3. Beginning \in Turns /\ Beginning.at = "clone"
  <2>1. Note \in Messages /\ <<>> \in Seq(Nat)
    BY MakesMessages
  <2>2. QED BY <2>1 DEF Beginning, Turns, Places
<1>4. TurnShape' /\ Own' = buffer'
  BY <1>1, <1>3, MovesTo
<1>5. Continues
  BY <1>1, <1>2, <1>4, GrowthContinues
<1>6. used' \in Used
  BY <1>1, StateIs, UseType DEF Use
<1>7. QED BY <1>1, <1>4, <1>5, <1>6, StateIs, ShapeAndKept

LEMMA FlushBangKeeps == ASSUME TranscriptInv, FlushBang PROVE TranscriptInv'
<1> DEFINE waiting == [i \in 1 .. bang |-> Bash]
<1>1. /\ ~At("request") /\ conv' = conv \o waiting /\ journal' = journal \o waiting
      /\ bang' = 0 /\ turn' = NoTurn /\ buffer' = <<>> /\ cancelled' = FALSE
      /\ UNCHANGED <<copy, used, meddled>>
  BY DEF FlushBang, At
<1>2. waiting \in Seq(Messages)
  <2>1. bang \in Nat /\ Bash \in Messages
    BY StateIs, MakesMessages
  <2>2. waiting \in [1 .. bang -> Messages]
    BY <2>1
  <2> HIDE DEF waiting
  <2>3. QED BY <2>1, <2>2
<1> HIDE DEF waiting
<1>3. TurnShape' /\ Own' = buffer'
  BY <1>1, NoTurnIs
<1>4. Continues
  BY <1>1, <1>2, <1>3, GrowthContinues
<1>5. QED BY <1>1, <1>3, <1>4, StateIs, ShapeAndKept

(* The turn is left where it is, with its buffer. *)
LEMMA TurnStays ==
  ASSUME TranscriptInv, turn' = turn, buffer' = buffer
  PROVE  TurnShape' /\ Own' = Own
BY StateIs DEF TurnShape, Own, At, Resting, WithoutTransient

LEMMA NothingChanges ==
  ASSUME TranscriptInv, UNCHANGED <<conv, journal, turn, buffer>>
  PROVE  Continues
<1>1. Own' = Own
  BY TurnStays
<1>2. QED BY <1>1 DEF Continues, TranscriptInv, TranscriptShape, Kept

LEMMA AbortKeeps == ASSUME TranscriptInv, Abort PROVE TranscriptInv'
<1>1. used' \in Used
  BY StateIs, UseType DEF Abort, Use
<1>2. TurnShape' /\ Continues
  BY TurnStays, NothingChanges DEF Abort
<1>3. QED BY <1>1, <1>2, StateIs, ShapeAndKept DEF Abort

LEMMA BeginCompactKeeps == ASSUME TranscriptInv, BeginCompact PROVE TranscriptInv'
<1>1. used' \in Used
  BY StateIs, UseType DEF BeginCompact, Use
<1>2. TurnShape' /\ Continues
  BY TurnStays, NothingChanges DEF BeginCompact
<1>3. QED BY <1>1, <1>2, StateIs, ShapeAndKept DEF BeginCompact

LEMMA SteerKeeps == ASSUME TranscriptInv, Steer PROVE TranscriptInv'
<1>1. used' \in Used /\ TurnShape' /\ Continues
  BY StateIs, TurnStays, NothingChanges DEF Steer
<1>2. QED BY <1>1, StateIs, ShapeAndKept DEF Steer

LEMMA FreeCurrentKeeps == ASSUME TranscriptInv, FreeCurrent PROVE TranscriptInv'
<1>1. used' \in Used /\ TurnShape' /\ Continues
  BY StateIs, TurnStays, NothingChanges DEF FreeCurrent
<1>2. QED BY <1>1, StateIs, ShapeAndKept DEF FreeCurrent

LEMMA UserBashKeeps == ASSUME TranscriptInv, UserBash PROVE TranscriptInv'
<1>1. used' \in Used
  BY StateIs, UseType DEF UserBash, Use
<1>2. TurnShape' /\ Continues
  BY TurnStays, NothingChanges DEF UserBash
<1>3. QED BY <1>1, <1>2, StateIs, ShapeAndKept DEF UserBash

(* What a bang command adds goes to the conversation and the file, wherever the    *)
(* turn is.                                                                        *)
LEMMA BashPushKeeps == ASSUME TranscriptInv, BashPush PROVE TranscriptInv'
<1>1. used' \in Used /\ TurnShape' /\ Own' = Own
  BY StateIs, TurnStays DEF BashPush
<1>2. CASE Record(Bash) /\ UNCHANGED bang
  <2>1. conv \in Seq(Messages) /\ journal \in Seq(Messages) /\ Own \in Seq(Messages) /\ Bash \in Messages
    BY StateIs, MakesMessages DEF TranscriptInv, TranscriptShape
  <2> DEFINE u == <<Bash>>
  <2>2. u \in Seq(Messages) /\ conv' = conv \o u /\ journal' = journal \o u
    BY <1>2, <2>1, AppendJoins DEF Record
  <2> HIDE DEF u
  <2>3. ~meddled => Within(conv', journal') /\ Within(Own', journal')
    BY <1>1, <2>1, <2>2, WithinConcat DEF TranscriptInv, Kept
  <2>4. Continues
    BY <1>1, <2>1, <2>2, <2>3 DEF Continues
  <2>5. QED BY <1>1, <1>2, <2>4, StateIs, ShapeAndKept DEF BashPush
<1>3. CASE bang' = bang + 1 /\ UNCHANGED <<conv, journal>>
  <2>1. Continues
    BY <1>3, NothingChanges DEF BashPush
  <2>2. bang' \in Nat
    BY <1>3, StateIs
  <2>3. QED BY <1>1, <2>1, <2>2, StateIs, ShapeAndKept DEF BashPush
<1>4. QED BY <1>2, <1>3 DEF BashPush

(* The conversation is rewritten, next to a turn or without one. *)
LEMMA RewriteKeeps ==
  ASSUME TranscriptInv, NEW s \in Seq(Messages), conv' = s, journal' = s,
         turn' = turn, buffer' = buffer, NEW other \in BOOLEAN, meddled' = (meddled \/ ~Resting \/ other),
         UNCHANGED <<cancelled, bang>>, used' \in Used, copy' \in Seq(Messages) \cup {NoCopy}
  PROVE  TranscriptInv'
<1>1. TurnShape' /\ Own' = Own
  BY TurnStays
<1>2. conv' \in Seq(Messages) /\ journal' \in Seq(Messages) /\ Own' \in Seq(Messages)
  BY <1>1 DEF TranscriptInv, TranscriptShape
<1>3. ~meddled' => Within(conv', journal') /\ Within(Own', journal')
  <2>1. SUFFICES ASSUME ~meddled' PROVE Within(s, s) /\ Within(Own, s)
    BY <1>1
  <2>2. Own = <<>>
    BY <2>1, StateIs DEF Own, At, Resting, TurnShape
  <2>3. QED BY <2>2, WithinItself, WithinEmpty
<1>4. QED BY <1>1, <1>2, <1>3, StateIs DEF TranscriptInv, TranscriptShape, Kept

LEMMA UndoKeeps == ASSUME TranscriptInv, Undo PROVE TranscriptInv'
<1>1. used' \in Used
  BY StateIs, UseType DEF Undo, Use
<1>2. Undone(conv) \in Seq(Messages)
  BY StateIs, UndoneType
<1>3. QED BY <1>1, <1>2, StateIs, RewriteKeeps DEF Undo

LEMMA EndCompactKeeps == ASSUME TranscriptInv, EndCompact PROVE TranscriptInv'
<1>1. copy \in Seq(Messages) /\ used' \in Used
  BY StateIs DEF EndCompact
<1>2. Compacted(copy) \in Seq(Messages)
  BY <1>1, CompactedType
<1>3. QED BY <1>1, <1>2, RewriteKeeps DEF EndCompact

LEMMA ClearKeeps == ASSUME TranscriptInv, ClearConversation PROVE TranscriptInv'
<1>1. used' \in Used
  BY StateIs, UseType DEF ClearConversation, Use
<1>2. TurnShape' /\ Own' = buffer'
  BY NoTurnIs DEF ClearConversation
<1>3. <<>> \in Seq(Messages)
  OBVIOUS
<1>4. conv' = <<>> /\ buffer' = <<>> /\ journal' \in Seq(Messages)
  BY <1>3, StateIs DEF ClearConversation
<1>5. Within(<<>>, journal')
  BY <1>4, WithinEmpty
<1>6. QED BY <1>1, <1>2, <1>3, <1>4, <1>5, StateIs
          DEF ClearConversation, TranscriptInv, TranscriptShape, Kept

-----------------------------------------------------------------------------

LEMMA TranscriptInitInv == ASSUME TranscriptInit PROVE TranscriptInv
<1>1. <<>> \in Seq(Messages) /\ Within(<<>>, <<>>)
  <2>1. <<>> \in Seq(Messages)
    OBVIOUS
  <2>2. QED BY <2>1, WithinEmpty
<1>2. Own = <<>> /\ TurnShape
  BY DEF TranscriptInit, NoTurn, Own, At, TurnShape, Resting
<1>3. used \in Used
  BY DEF TranscriptInit, Used
<1>4. QED BY <1>1, <1>2, <1>3 DEF TranscriptInit, TranscriptInv, TranscriptShape, Kept

LEMMA TranscriptStep == TranscriptInv /\ [TranscriptNext]_transcriptVars => TranscriptInv'
<1>1. SUFFICES ASSUME TranscriptInv, [TranscriptNext]_transcriptVars PROVE TranscriptInv'
  OBVIOUS
<1>2. CASE TurnStep
  BY <1>1, <1>2, CloneKeeps, SendRequestKeeps, RequestFailsKeeps, ContextTooLongKeeps,
     RespondKeeps, StopTurnKeeps, GateWaveKeeps, RunWaveKeeps, RecordWaveKeeps, DenyCallKeeps,
     ExecuteCallKeeps, RecordCallKeeps, RefuseFinishKeeps, AcceptFinishKeeps, EndBatchKeeps,
     CompleteKeeps, FreeCurrentKeeps, FlushBangKeeps, ShrinkKeeps DEF TurnStep
<1>3. CASE \/ BeginTurn \/ Abort \/ Steer \/ UserBash \/ BashPush
           \/ Undo \/ BeginCompact \/ EndCompact \/ ClearConversation
  BY <1>1, <1>3, BeginTurnKeeps, AbortKeeps, SteerKeeps, UserBashKeeps, BashPushKeeps, UndoKeeps,
     BeginCompactKeeps, EndCompactKeeps, ClearKeeps
<1>4. CASE UNCHANGED transcriptVars
  <2>1. TurnShape' /\ Continues
    BY <1>1, <1>4, TurnStays, NothingChanges DEF transcriptVars
  <2>2. QED BY <1>1, <1>4, <2>1, StateIs, ShapeAndKept DEF transcriptVars
<1>5. QED BY <1>1, <1>2, <1>3, <1>4 DEF TranscriptNext

(* The session file has every message of the conversation, in its order, as long   *)
(* as the dispatcher rewrites no conversation under a running turn; and what was   *)
(* meant for one request is in neither.  For any commands, batches and bounds.     *)
THEOREM JournalKept == TranscriptSpec => []JournalHoldsConversation
<1>1. TranscriptInit => TranscriptInv
  BY TranscriptInitInv
<1>2. TranscriptInv => JournalHoldsConversation
  <2>1. SUFFICES ASSUME TranscriptInv PROVE JournalHoldsConversation
    OBVIOUS
  <2>2. ASSUME NEW s \in Seq(Messages) PROVE Transient \notin ToSet(s)
    <3>1. \A i \in DOMAIN s : s[i] \in Messages
      BY <2>2
    <3>2. QED BY <3>1, MessageIs DEF ToSet
  <2>3. QED BY <2>1, <2>2, StateIs DEF JournalHoldsConversation, TranscriptInv, Kept
<1>3. QED BY <1>1, <1>2, TranscriptStep, PTL DEF TranscriptSpec

-----------------------------------------------------------------------------
(* Results that are recorded stay: what holds of the messages of the conversation  *)
(* (C), of the session file (J) and of what a manual compaction reads (K).         *)

Alike(m, t) == t.n = m.n /\ t.k = m.k
Finishing(a) == \E k \in DOMAIN a.calls : a.calls[k] = "finish"
Plain(m) == ~IsAssistant(m) /\ ~IsTool(m)
ResultOf(m, n) == IsTool(m) /\ m.n = n /\ ~m.lost

(* A reply has its number to itself, and a result that was lost its call; no finish *)
(* is lost; a reply that did not finish has all its results of the file in the     *)
(* conversation; a lost result that left the conversation is not in the file.      *)
Sound(C, J, K) ==
    /\ \A a, b \in C : IsAssistant(a) /\ IsAssistant(b) /\ a.n = b.n => a = b
    /\ \A m, t \in C : IsLost(m) /\ IsTool(t) /\ Alike(m, t) => t = m
    /\ \A m \in C \cup K, a \in C :
         IsLost(m) /\ IsAssistant(a) /\ a.n = m.n /\ m.k \in DOMAIN a.calls => a.calls[m.k] # "finish"
    /\ \A a \in C, t \in J :
         IsAssistant(a) /\ ~Finishing(a) /\ IsTool(t) /\ t.n = a.n
           => \E r \in C : IsTool(r) /\ Alike(t, r)
    /\ \A m \in K, t \in J : IsLost(m) /\ m \notin C /\ IsTool(t) => ~Alike(m, t)
    /\ C \subseteq J

LEMMA KindsDiffer == \A m : ~(IsTool(m) /\ IsAssistant(m)) /\ (IsLost(m) => IsTool(m) /\ m.lost)
BY DEF IsTool, IsAssistant, IsLost

LEMMA SoundGrows ==
  ASSUME NEW C, NEW J, NEW K, NEW U, NEW n, Sound(C, J, K),
         \A m \in U : Plain(m) \/ ResultOf(m, n),
         \A m \in C \cup K : IsLost(m) => m.n # n
  PROVE  Sound(C \cup U, J \cup U, K)
<1>1. \A m \in U : ~IsAssistant(m) /\ ~IsLost(m) /\ (IsTool(m) => m.n = n)
  BY KindsDiffer DEF Plain, ResultOf
<1>2. ASSUME NEW a \in C \cup U, NEW b \in C \cup U, IsAssistant(a), IsAssistant(b), a.n = b.n
      PROVE  a = b
  BY <1>1, <1>2 DEF Sound
<1>3. ASSUME NEW m \in C \cup U, NEW t \in C \cup U, IsLost(m), IsTool(t), Alike(m, t) PROVE t = m
  <2>1. m \in C /\ m.n # n
    BY <1>1, <1>3
  <2>2. t \in C
    BY <1>1, <1>3, <2>1 DEF Alike
  <2>3. QED BY <1>3, <2>1, <2>2 DEF Sound
<1>4. ASSUME NEW m \in C \cup U \cup K, NEW a \in C \cup U,
             IsLost(m), IsAssistant(a), a.n = m.n, m.k \in DOMAIN a.calls
      PROVE  a.calls[m.k] # "finish"
  <2>1. m \in C \cup K /\ a \in C
    BY <1>1, <1>4
  <2>2. QED BY <1>4, <2>1 DEF Sound
<1>5. ASSUME NEW a \in C \cup U, NEW t \in J \cup U, IsAssistant(a), ~Finishing(a), IsTool(t), t.n = a.n
      PROVE  \E r \in C \cup U : IsTool(r) /\ Alike(t, r)
  <2>1. a \in C
    BY <1>1, <1>5
  <2>2. CASE t \in U
    BY <1>5, <2>2 DEF Alike
  <2>3. CASE t \in J
    BY <1>5, <2>1, <2>3 DEF Sound
  <2>4. QED BY <2>2, <2>3
<1>6. ASSUME NEW m \in K, NEW t \in J \cup U, IsLost(m), m \notin C \cup U, IsTool(t) PROVE ~Alike(m, t)
  <2>1. CASE t \in U
    BY <1>1, <1>6, <2>1 DEF Alike
  <2>2. CASE t \in J
    BY <1>6, <2>2 DEF Sound
  <2>3. QED BY <2>1, <2>2
<1>7. C \cup U \subseteq J \cup U
  BY DEF Sound
<1>8. QED BY <1>2, <1>3, <1>4, <1>5, <1>6, <1>7 DEF Sound

LEMMA SoundCut ==
  ASSUME NEW C, NEW J, NEW K, NEW D, Sound(C, J, K), D \subseteq C \cup {Note}, NEW L \in {K, {}}
  PROVE  Sound(D, D, L)
<1>1. ~IsAssistant(Note) /\ ~IsTool(Note) /\ ~IsLost(Note)
  BY DEF Note, IsAssistant, IsTool, IsLost
<1>2. \A m \in D : IsAssistant(m) \/ IsTool(m) => m \in C
  BY <1>1
<1>3. L \subseteq K
  OBVIOUS
<1>4. ASSUME NEW a \in D, NEW b \in D, IsAssistant(a), IsAssistant(b), a.n = b.n PROVE a = b
  BY <1>2, <1>4 DEF Sound
<1>5. ASSUME NEW m \in D, NEW t \in D, IsLost(m), IsTool(t), Alike(m, t) PROVE t = m
  BY <1>2, <1>5, KindsDiffer DEF Sound
<1>6. ASSUME NEW m \in D \cup L, NEW a \in D,
             IsLost(m), IsAssistant(a), a.n = m.n, m.k \in DOMAIN a.calls
      PROVE  a.calls[m.k] # "finish"
  <2>1. m \in C \cup K /\ a \in C
    BY <1>2, <1>3, <1>6, KindsDiffer
  <2>2. QED BY <1>6, <2>1 DEF Sound
<1>7. ASSUME NEW a \in D, NEW t \in D, IsTool(t) PROVE \E r \in D : IsTool(r) /\ Alike(t, r)
  BY <1>7 DEF Alike
<1>8. ASSUME NEW m \in L, NEW t \in D, IsLost(m), m \notin D, IsTool(t), Alike(m, t) PROVE FALSE
  <2>1. t \in C /\ t \in J /\ m \in K
    BY <1>2, <1>3, <1>8 DEF Sound
  <2>2. CASE m \in C
    BY <1>8, <2>1, <2>2 DEF Sound
  <2>3. CASE m \notin C
    BY <1>8, <2>1, <2>3 DEF Sound
  <2>4. QED BY <2>2, <2>3
<1>9. QED BY <1>4, <1>5, <1>6, <1>7, <1>8 DEF Sound

(* The results that are made up for a reply of C. *)
MadeUp(m, C) ==
    \E a \in C : \E k \in DOMAIN a.calls :
        /\ IsAssistant(a) /\ m = Tool(a.n, k, a.calls[k] # "finish")
        /\ \A t \in C : IsTool(t) => ~(t.n = a.n /\ t.k = k)

(* What is made up is lost, but the answer to a finish. *)
MadeFor(m, a, k, C) ==
    /\ IsAssistant(a) /\ IsTool(m) /\ m.n = a.n /\ m.k = k
    /\ IsLost(m) <=> a.calls[k] # "finish"
    /\ IsLost(m) => m = Tool(a.n, k, TRUE)
    /\ ~IsLost(m) => m = Tool(a.n, k, FALSE)
    /\ \A t \in C : IsTool(t) => ~Alike(m, t)

LEMMA MadeUpIs ==
  ASSUME NEW C, NEW m, MadeUp(m, C)
  PROVE  \E a \in C : \E k \in DOMAIN a.calls : MadeFor(m, a, k, C)
<1>1. PICK a \in C : \E k \in DOMAIN a.calls :
        /\ IsAssistant(a) /\ m = Tool(a.n, k, a.calls[k] # "finish")
        /\ \A t \in C : IsTool(t) => ~(t.n = a.n /\ t.k = k)
  BY DEF MadeUp
<1>2. PICK k \in DOMAIN a.calls :
        /\ IsAssistant(a) /\ m = Tool(a.n, k, a.calls[k] # "finish")
        /\ \A t \in C : IsTool(t) => ~(t.n = a.n /\ t.k = k)
  BY <1>1
<1>3. CASE a.calls[k] = "finish"
  <2>1. (a.calls[k] # "finish") = FALSE
    BY <1>3
  <2>2. m = Tool(a.n, k, FALSE)
    BY <1>2, <2>1
  <2>3. IsTool(m) /\ ~IsLost(m) /\ m.n = a.n /\ m.k = k
    BY <2>2 DEF Tool, IsTool, IsLost
  <2>4. QED BY <1>2, <1>3, <2>2, <2>3 DEF MadeFor, Alike
<1>4. CASE a.calls[k] # "finish"
  <2>1. (a.calls[k] # "finish") = TRUE
    BY <1>4
  <2>2. m = Tool(a.n, k, TRUE)
    BY <1>2, <2>1
  <2>3. IsTool(m) /\ IsLost(m) /\ m.n = a.n /\ m.k = k
    BY <2>2 DEF Tool, IsTool, IsLost
  <2>4. QED BY <1>2, <1>4, <2>2, <2>3 DEF MadeFor, Alike
<1>5. QED BY <1>3, <1>4

LEMMA SoundRepair ==
  ASSUME NEW C, NEW J, NEW K, NEW D, Sound(C, J, K), \A m \in D : m \in C \/ MadeUp(m, C),
         \A m \in K : IsLost(m) => m = Tool(m.n, m.k, TRUE)
  PROVE  Sound(D, D, K)
<1>1. ASSUME NEW a \in D, IsAssistant(a) PROVE a \in C
  BY <1>1, MadeUpIs, KindsDiffer DEF MadeFor
<1>2. ASSUME NEW a \in D, NEW b \in D, IsAssistant(a), IsAssistant(b), a.n = b.n PROVE a = b
  BY <1>1, <1>2 DEF Sound
<1>3. ASSUME NEW m \in D, NEW t \in D, IsLost(m), IsTool(t), Alike(m, t) PROVE t = m
  <2>1. CASE m \in C /\ t \in C
    BY <1>3, <2>1 DEF Sound
  <2>2. CASE m \in C /\ MadeUp(t, C)
    BY <1>3, <2>2, MadeUpIs, KindsDiffer DEF MadeFor, Alike
  <2>3. CASE MadeUp(m, C) /\ t \in C
    <3>1. PICK a \in C : \E k \in DOMAIN a.calls : MadeFor(m, a, k, C)
      BY <2>3, MadeUpIs
    <3>2. QED BY <1>3, <2>3, <3>1 DEF MadeFor
  <2>4. CASE MadeUp(m, C) /\ MadeUp(t, C)
    <3>1. PICK a \in C : \E k \in DOMAIN a.calls : MadeFor(m, a, k, C)
      BY <2>4, MadeUpIs
    <3>2. PICK b \in C : \E k \in DOMAIN b.calls : MadeFor(t, b, k, C)
      BY <2>4, MadeUpIs
    <3>3. a.n = b.n /\ m.k = t.k /\ IsAssistant(a) /\ IsAssistant(b) /\ IsLost(m)
      BY <1>3, <3>1, <3>2 DEF Alike, MadeFor
    <3>4. a = b
      BY <3>3 DEF Sound
    <3>5. IsLost(t)
      BY <3>1, <3>2, <3>3, <3>4 DEF MadeFor
    <3>6. QED BY <3>1, <3>2, <3>3, <3>4, <3>5 DEF MadeFor
  <2>5. QED BY <2>1, <2>2, <2>3, <2>4
<1>4. ASSUME NEW m \in D \cup K, NEW a \in D,
             IsLost(m), IsAssistant(a), a.n = m.n, m.k \in DOMAIN a.calls
      PROVE  a.calls[m.k] # "finish"
  <2>1. a \in C
    BY <1>1, <1>4
  <2>2. CASE m \in C \cup K
    BY <1>4, <2>1, <2>2 DEF Sound
  <2>3. CASE MadeUp(m, C)
    <3>1. PICK b \in C : \E k \in DOMAIN b.calls : MadeFor(m, b, k, C)
      BY <2>3, MadeUpIs
    <3>2. a = b
      BY <1>4, <2>1, <3>1 DEF Sound, MadeFor
    <3>3. QED BY <1>4, <3>1, <3>2 DEF MadeFor
  <2>4. QED BY <2>2, <2>3
<1>5. ASSUME NEW t \in D, IsTool(t) PROVE \E r \in D : IsTool(r) /\ Alike(t, r)
  BY <1>5 DEF Alike
<1>6. ASSUME NEW m \in K, NEW t \in D, IsLost(m), m \notin D, IsTool(t), Alike(m, t) PROVE FALSE
  <2>1. CASE t \in C
    <3>1. t \in J
      BY <2>1 DEF Sound
    <3>2. m \in C
      BY <1>6, <3>1 DEF Sound
    <3>3. t = m
      BY <1>6, <2>1, <3>2 DEF Sound
    <3>4. QED BY <1>6, <3>3
  <2>2. CASE MadeUp(t, C)
    <3>1. PICK a \in C : \E k \in DOMAIN a.calls : MadeFor(t, a, k, C)
      BY <2>2, MadeUpIs
    <3>2. PICK k \in DOMAIN a.calls : MadeFor(t, a, k, C)
      BY <3>1
    <3>3. m.n = a.n /\ m.k = k /\ IsAssistant(a)
      BY <1>6, <3>2 DEF Alike, MadeFor
    <3>4. a.calls[k] # "finish"
      BY <1>6, <3>3 DEF Sound
    <3>5. t = Tool(m.n, m.k, TRUE)
      BY <3>2, <3>3, <3>4 DEF MadeFor
    <3>6. QED BY <1>6, <3>5
  <2>3. QED BY <2>1, <2>2
<1>7. QED BY <1>2, <1>3, <1>4, <1>5, <1>6 DEF Sound

(* A new reply has a number that nothing else has. *)
LEMMA SoundReplies ==
  ASSUME NEW C, NEW J, NEW K, NEW m, Sound(C, J, K), IsAssistant(m),
         \A x \in C \cup J \cup K : IsAssistant(x) \/ IsTool(x) => x.n # m.n
  PROVE  Sound(C \cup {m}, J \cup {m}, K)
<1>1. ~IsTool(m) /\ ~IsLost(m) /\ m \notin C
  BY KindsDiffer
<1>2. ASSUME NEW a \in C \cup {m}, NEW b \in C \cup {m}, IsAssistant(a), IsAssistant(b), a.n = b.n
      PROVE  a = b
  BY <1>2 DEF Sound
<1>3. ASSUME NEW x \in C \cup {m}, NEW t \in C \cup {m}, IsLost(x), IsTool(t), Alike(x, t) PROVE t = x
  BY <1>1, <1>3 DEF Sound
<1>4. ASSUME NEW x \in C \cup {m} \cup K, NEW a \in C \cup {m},
             IsLost(x), IsAssistant(a), a.n = x.n, x.k \in DOMAIN a.calls
      PROVE  a.calls[x.k] # "finish"
  <2>1. x \in C \cup K /\ IsTool(x)
    BY <1>1, <1>4, KindsDiffer
  <2>2. a \in C
    BY <1>4, <2>1
  <2>3. QED BY <1>4, <2>1, <2>2 DEF Sound
<1>5. ASSUME NEW a \in C \cup {m}, NEW t \in J \cup {m}, IsAssistant(a), ~Finishing(a), IsTool(t), t.n = a.n
      PROVE  \E r \in C \cup {m} : IsTool(r) /\ Alike(t, r)
  <2>1. t \in J
    BY <1>1, <1>5
  <2>2. a \in C
    BY <1>5, <2>1
  <2>3. QED BY <1>5, <2>1, <2>2 DEF Sound
<1>6. ASSUME NEW x \in K, NEW t \in J \cup {m}, IsLost(x), x \notin C \cup {m}, IsTool(t) PROVE ~Alike(x, t)
  BY <1>1, <1>6 DEF Sound
<1>7. C \cup {m} \subseteq J \cup {m}
  BY DEF Sound
<1>8. QED BY <1>2, <1>3, <1>4, <1>5, <1>6, <1>7 DEF Sound

(* A batch with a finish loses what is not in the buffer. *)
LEMMA SoundFinish ==
  ASSUME NEW C, NEW J, NEW K, NEW B, NEW p, NEW r, Sound(C, J, K), B \subseteq C,
         p \in C, IsAssistant(p), Finishing(p), ResultOf(r, p.n),
         \A m \in C \ B : Plain(m) \/ ResultOf(m, p.n),
         \A m \in C \cup K : IsLost(m) => m.n # p.n
  PROVE  Sound(B \cup {r}, J \cup {r}, K)
<1>1. IsTool(r) /\ ~IsAssistant(r) /\ ~IsLost(r) /\ r.n = p.n
  BY KindsDiffer DEF ResultOf
<1>2. ASSUME NEW a \in B \cup {r}, IsAssistant(a) PROVE a \in C
  BY <1>1, <1>2
<1>3. ASSUME NEW a \in B \cup {r}, NEW b \in B \cup {r}, IsAssistant(a), IsAssistant(b), a.n = b.n
      PROVE  a = b
  BY <1>2, <1>3 DEF Sound
<1>4. ASSUME NEW m \in B \cup {r}, NEW t \in B \cup {r}, IsLost(m), IsTool(t), Alike(m, t) PROVE t = m
  <2>1. m \in C /\ m.n # p.n
    BY <1>1, <1>4
  <2>2. t \in C
    BY <1>1, <1>4, <2>1 DEF Alike
  <2>3. QED BY <1>4, <2>1, <2>2 DEF Sound
<1>5. ASSUME NEW m \in B \cup {r} \cup K, NEW a \in B \cup {r},
             IsLost(m), IsAssistant(a), a.n = m.n, m.k \in DOMAIN a.calls
      PROVE  a.calls[m.k] # "finish"
  <2>1. m \in C \cup K /\ a \in C
    BY <1>1, <1>2, <1>5
  <2>2. QED BY <1>5, <2>1 DEF Sound
<1>6. ASSUME NEW a \in B \cup {r}, NEW t \in J \cup {r}, IsAssistant(a), ~Finishing(a), IsTool(t), t.n = a.n
      PROVE  \E x \in B \cup {r} : IsTool(x) /\ Alike(t, x)
  <2>1. a \in C
    BY <1>2, <1>6
  <2>2. a.n # p.n
    BY <1>6, <2>1 DEF Sound
  <2>3. t \in J
    BY <1>1, <1>6, <2>2
  <2>4. PICK x \in C : IsTool(x) /\ Alike(t, x)
    BY <1>6, <2>1, <2>3 DEF Sound
  <2>5. x \in B
    BY <1>6, <2>2, <2>4 DEF Alike, Plain, ResultOf
  <2>6. QED BY <2>4, <2>5
<1>7. ASSUME NEW m \in K, NEW t \in J \cup {r}, IsLost(m), m \notin B \cup {r}, IsTool(t), Alike(m, t)
      PROVE  FALSE
  <2>1. m.n # p.n
    BY <1>7
  <2>2. m \notin C
    BY <1>7, <2>1, KindsDiffer DEF Plain, ResultOf
  <2>3. t \in J
    BY <1>1, <1>7, <2>1 DEF Alike
  <2>4. QED BY <1>7, <2>2, <2>3 DEF Sound
<1>8. B \cup {r} \subseteq J \cup {r}
  BY DEF Sound
<1>9. QED BY <1>3, <1>4, <1>5, <1>6, <1>7, <1>8 DEF Sound

(* What goes is neither a reply nor a result. *)
LEMMA SoundWithout ==
  ASSUME NEW C, NEW J, NEW K, NEW B, Sound(C, J, K), B \subseteq C, \A m \in C \ B : Plain(m)
  PROVE  Sound(B, J, K)
<1>1. ASSUME NEW m \in C, IsTool(m) PROVE m \in B
  BY <1>1 DEF Plain
<1>2. ASSUME NEW a \in B, NEW t \in J, IsAssistant(a), ~Finishing(a), IsTool(t), t.n = a.n
      PROVE  \E r \in B : IsTool(r) /\ Alike(t, r)
  <2>1. PICK r \in C : IsTool(r) /\ Alike(t, r)
    BY <1>2 DEF Sound
  <2>2. QED BY <1>1, <2>1
<1>3. ASSUME NEW m \in K, NEW t \in J, IsLost(m), m \notin B, IsTool(t) PROVE ~Alike(m, t)
  BY <1>1, <1>3, KindsDiffer DEF Sound
<1>4. ASSUME NEW m \in B \cup K, NEW a \in B, IsLost(m), IsAssistant(a), a.n = m.n, m.k \in DOMAIN a.calls
      PROVE  a.calls[m.k] # "finish"
  BY <1>4 DEF Sound
<1>5. QED BY <1>2, <1>3, <1>4 DEF Sound

LEMMA SoundCopies ==
  ASSUME NEW C, NEW J, NEW K, Sound(C, J, K)
  PROVE  Sound(C, J, C) /\ Sound({}, J, {})
<1>1. ASSUME NEW m \in C, NEW a \in C, IsLost(m), IsAssistant(a), a.n = m.n, m.k \in DOMAIN a.calls
      PROVE  a.calls[m.k] # "finish"
  BY <1>1 DEF Sound
<1>2. QED BY <1>1 DEF Sound

(* The messages of sequences. *)

LEMMA SetOf ==
  ASSUME NEW S, NEW s \in Seq(S)
  PROVE  \A x : x \in ToSet(s) <=> \E i \in 1 .. Len(s) : x = s[i]
<1>1. DOMAIN s = 1 .. Len(s)
  OBVIOUS
<1>2. QED BY <1>1 DEF ToSet

LEMMA SetOfBoth ==
  ASSUME NEW S, NEW s \in Seq(S), NEW u \in Seq(S)
  PROVE  ToSet(s \o u) = ToSet(s) \cup ToSet(u)
<1> DEFINE t == s \o u
<1>1. /\ t \in Seq(S) /\ Len(t) = Len(s) + Len(u) /\ Len(s) \in Nat /\ Len(u) \in Nat
      /\ \A i \in 1 .. Len(s) + Len(u) : t[i] = IF i <= Len(s) THEN s[i] ELSE u[i - Len(s)]
  BY ConcatProperties
<1> HIDE DEF t
<1>2. ASSUME NEW x \in ToSet(t) PROVE x \in ToSet(s) \cup ToSet(u)
  <2>1. PICK i \in 1 .. Len(t) : x = t[i]
    BY <1>1, SetOf
  <2>2. CASE i <= Len(s)
    <3>1. i \in 1 .. Len(s) /\ x = s[i]
      BY <1>1, <2>1, <2>2
    <3>2. QED BY <3>1, SetOf
  <2>3. CASE ~(i <= Len(s))
    <3>1. i - Len(s) \in 1 .. Len(u) /\ x = u[i - Len(s)]
      BY <1>1, <2>1, <2>3
    <3>2. QED BY <3>1, SetOf
  <2>4. QED BY <2>2, <2>3
<1>3. ASSUME NEW x \in ToSet(s) PROVE x \in ToSet(t)
  <2>1. PICK i \in 1 .. Len(s) : x = s[i]
    BY SetOf
  <2>2. i \in 1 .. Len(t) /\ t[i] = s[i]
    BY <1>1
  <2>3. QED BY <1>1, <2>1, <2>2, SetOf
<1>4. ASSUME NEW x \in ToSet(u) PROVE x \in ToSet(t)
  <2>1. PICK i \in 1 .. Len(u) : x = u[i]
    BY SetOf
  <2>2. /\ i + Len(s) \in 1 .. Len(s) + Len(u) /\ ~(i + Len(s) <= Len(s))
        /\ (i + Len(s)) - Len(s) = i
    BY <1>1
  <2>3. t[i + Len(s)] = u[i]
    BY <1>1, <2>2
  <2>4. i + Len(s) \in 1 .. Len(t)
    BY <1>1, <2>2
  <2>5. QED BY <1>1, <2>1, <2>3, <2>4, SetOf
<1>5. QED BY <1>2, <1>3, <1>4 DEF t

LEMMA SetOfMore ==
  ASSUME NEW S, NEW s \in Seq(S), NEW x \in S
  PROVE  ToSet(Append(s, x)) = ToSet(s) \cup {x}
<1> DEFINE one == <<x>>
<1>1. Append(s, x) = s \o one /\ one \in Seq(S)
  BY AppendJoins
<1>2. ToSet(one) = {x}
  BY DEF ToSet
<1> HIDE DEF one
<1>3. QED BY <1>1, <1>2, SetOfBoth

LEMMA SetOfPart ==
  ASSUME NEW S, NEW s \in Seq(S), NEW m \in Nat, m # 0, NEW n \in 0 .. Len(s)
  PROVE  ToSet(SubSeq(s, m, n)) \subseteq ToSet(s)
<1> DEFINE q == SubSeq(s, m, n)
<1>1. \A i \in m .. n : s[i] \in S
  OBVIOUS
<1>2. m \in Int /\ n \in Int /\ Len(s) \in Nat
  OBVIOUS
<1>3. /\ q \in Seq(S) /\ Len(q) = IF m \leq n THEN n - m + 1 ELSE 0
      /\ \A i \in 1 .. n - m + 1 : q[i] = s[m + i - 1]
  BY <1>1, <1>2, SubSeqProperties
<1> HIDE DEF q
<1>4. ASSUME NEW x \in ToSet(q) PROVE x \in ToSet(s)
  <2>1. PICK i \in 1 .. Len(q) : x = q[i]
    BY <1>3, SetOf
  <2>2. m \leq n /\ Len(q) = n - m + 1
    <3>1. Len(q) # 0
      BY <2>1
    <3>2. QED BY <1>3, <3>1
  <2>3. i \in 1 .. n - m + 1
    BY <2>1, <2>2
  <2>4. x = s[m + i - 1]
    BY <1>3, <2>1, <2>3
  <2>5. m + i - 1 \in 1 .. Len(s)
    BY <1>2, <2>3
  <2>6. QED BY <2>4, <2>5, SetOf
<1>5. QED BY <1>4 DEF q

LEMMA SetOfCompacted ==
  ASSUME NEW s \in Seq(Messages)
  PROVE  ToSet(Compacted(s)) \subseteq ToSet(s) \cup {Note}
<1> DEFINE start == IF Len(s) <= MIN_TAIL THEN 2 ELSE Len(s) - MIN_TAIL + 1
           tail == SubSeq(s, start, Len(s))
<1>1. Len(s) \in Nat /\ MIN_TAIL \in Nat
  BY TranscriptAssumption
<1>2. CASE Len(s) <= 2
  BY <1>2 DEF Compacted
<1>3. CASE ~(Len(s) <= 2)
  <2>1. start \in Nat /\ start # 0 /\ Len(s) \in 0 .. Len(s)
    BY <1>1
  <2>2. Compacted(s) = <<s[1], Note>> \o tail
    BY <1>3 DEF Compacted
  <2> HIDE DEF start
  <2>3. tail \in Seq(Messages) /\ ToSet(tail) \subseteq ToSet(s)
    BY <2>1, PartType, SetOfPart
  <2> HIDE DEF tail
  <2>4. s[1] \in Messages /\ Note \in Messages /\ s[1] \in ToSet(s)
    <3>1. 1 \in 1 .. Len(s)
      BY <1>1, <1>3
    <3>2. QED BY <3>1, SetOf, MakesMessages
  <2> DEFINE head == <<s[1], Note>>
  <2>5. head \in Seq(Messages) /\ ToSet(head) = {s[1], Note} /\ Compacted(s) = head \o tail
    BY <2>2, <2>4 DEF ToSet
  <2> HIDE DEF head
  <2>6. ToSet(Compacted(s)) = ToSet(head) \cup ToSet(tail)
    BY <2>3, <2>5, SetOfBoth
  <2>7. QED BY <2>3, <2>4, <2>5, <2>6
<1>4. QED BY <1>2, <1>3

LEMMA SetOfUndone ==
  ASSUME NEW s \in Seq(Messages)
  PROVE  ToSet(Undone(s)) \subseteq ToSet(s)
<1> DEFINE users == {i \in DOMAIN s : IsUser(s[i])}
           last == CHOOSE i \in users : \A j \in users : j <= i
<1>1. users \in SUBSET (1 .. Len(s)) /\ Len(s) \in Nat
  OBVIOUS
<1>2. CASE users = {}
  BY <1>2 DEF Undone, ToSet
<1>3. CASE users # {}
  <2>1. Undone(s) = SubSeq(s, 1, last - 1)
    BY <1>3 DEF Undone
  <2> HIDE DEF users
  <2>2. last \in users
    BY <1>1, <1>3, Greatest
  <2> HIDE DEF last
  <2>3. last - 1 \in 0 .. Len(s)
    BY <1>1, <2>2
  <2>4. QED BY <2>1, <2>3, SetOfPart
<1>4. QED BY <1>2, <1>3

(* What is in a concatenation is in one of its parts. *)
LEMMA SetOfConcat ==
  ASSUME NEW S, NEW ss \in Seq(Seq(S)), NEW x \in ToSet(Concat(ss))
  PROVE  \E i \in 1 .. Len(ss) : x \in ToSet(ss[i])
<1> DEFINE N == Len(ss)  In == \E i \in 1 .. N : x \in ToSet(ss[i])
<1>1. PICK f : Joins(f, ss, S)
  BY ConcatIs
<1>2. /\ N \in Nat /\ f[0] = <<>> /\ Concat(ss) = f[N]
      /\ \A i \in 1 .. N : f[i] = f[i - 1] \o ss[i] /\ ss[i] \in Seq(S)
      /\ \A i \in 0 .. N : f[i] \in Seq(S)
  <2>1. N \in Nat /\ \A i \in 1 .. N : ss[i] \in Seq(S)
    OBVIOUS
  <2>2. f[0] = <<>> /\ Concat(ss) = f[N] /\ \A i \in 1 .. N : f[i] = f[i - 1] \o ss[i]
    BY <1>1 DEF Joins
  <2>3. f \in [0 .. N -> Seq(S)]
    BY <1>1 DEF Joins
  <2> HIDE DEF N
  <2>4. QED BY <2>1, <2>2, <2>3
<1> HIDE DEF N
<1> DEFINE P == {n \in Nat : n \leq N /\ x \in ToSet(f[n]) => In}
<1>3. 0 \in P
  BY <1>2 DEF ToSet
<1>4. ASSUME NEW n \in Nat, n \in P, n + 1 \leq N, x \in ToSet(f[n + 1]) PROVE In
  <2>1. n + 1 \in 1 .. N /\ (n + 1) - 1 = n /\ n \in 0 .. N /\ n \leq N
    <3>1. ASSUME NEW z \in Nat, n + 1 \leq z
          PROVE  n + 1 \in 1 .. z /\ (n + 1) - 1 = n /\ n \in 0 .. z /\ n \leq z
      BY <3>1
    <3>2. QED BY <1>2, <1>4, <3>1
  <2>2. f[n + 1] = f[n] \o ss[n + 1] /\ f[n] \in Seq(S) /\ ss[n + 1] \in Seq(S)
    BY <1>2, <2>1
  <2>3. x \in ToSet(f[n]) \/ x \in ToSet(ss[n + 1])
    BY <1>4, <2>2, SetOfBoth
  <2>4. CASE x \in ToSet(ss[n + 1])
    BY <2>1, <2>4
  <2>5. CASE x \in ToSet(f[n])
    BY <1>4, <2>1, <2>5
  <2>6. QED BY <2>3, <2>4, <2>5
<1> HIDE DEF In
<1>5. \A n \in Nat : n \in P => n + 1 \in P
  BY <1>4
<1> HIDE DEF P
<1>6. Nat \subseteq P
  BY <1>3, <1>5, NatSetInduction, Zenon
<1>7. In
  BY <1>2, <1>6 DEF P
<1>8. QED BY <1>7 DEF In, N

(* A result that is made up answers a call that nothing answers. *)
LEMMA LostIs ==
  ASSUME NEW s, NEW a \in Messages, IsAssistant(a), a \in ToSet(s), NEW m \in ToSet(Lost(s, a))
  PROVE  MadeUp(m, ToSet(s))
<1> DEFINE A == {k \in DOMAIN a.calls : <<a.n, k>> \notin ResultsIn(s)}
           missing == Only(Count(Len(a.calls)), A)
<1>1. a.calls \in Seq(Names) /\ Len(a.calls) \in Nat
  BY MessageIs DEF IsAssistant
<1>2. Lost(s, a) = [i \in DOMAIN missing |-> Tool(a.n, missing[i], a.calls[missing[i]] # "finish")]
  BY DEF Lost
<1>3. missing \in Seq(1 .. Len(a.calls) \cap A)
  BY <1>1, CountType, OnlyType
<1> HIDE DEF missing
<1>4. PICK i \in DOMAIN missing : m = Tool(a.n, missing[i], a.calls[missing[i]] # "finish")
  BY <1>2 DEF ToSet
<1>5. missing[i] \in A
  BY <1>3, <1>4
<1>6. ASSUME NEW t \in ToSet(s), IsTool(t), t.n = a.n, t.k = missing[i] PROVE FALSE
  BY <1>5, <1>6 DEF ResultsIn
<1>7. QED BY <1>4, <1>5, <1>6 DEF MadeUp

LEMMA SetOfRepaired ==
  ASSUME NEW s \in Seq(Messages)
  PROVE  \A m \in ToSet(sanitize_orphaned_tool_calls(s)) : m \in ToSet(s) \/ MadeUp(m, ToSet(s))
<1> DEFINE ss == [i \in DOMAIN s |-> Repaired(s, s[i])]
<1>1. sanitize_orphaned_tool_calls(s) = Concat(ss) /\ ss \in Seq(Seq(Messages))
  BY SanitizeType
<1>2. DOMAIN s = 1 .. Len(s) /\ Len(s) \in Nat
  OBVIOUS
<1>3. Len(ss) = Len(s) /\ \A i \in 1 .. Len(s) : ss[i] = Repaired(s, s[i])
  BY <1>2
<1> HIDE DEF ss
<1>4. ASSUME NEW m \in ToSet(Concat(ss)) PROVE m \in ToSet(s) \/ MadeUp(m, ToSet(s))
  <2>1. PICK i \in 1 .. Len(s) : m \in ToSet(ss[i])
    BY <1>1, <1>3, SetOfConcat
  <2>2. s[i] \in Messages /\ s[i] \in ToSet(s) /\ m \in ToSet(Repaired(s, s[i]))
    BY <1>3, <2>1, SetOf
  <2>3. ToSet(<<s[i]>>) = {s[i]} /\ ToSet(<<>>) = {} /\ <<s[i]>> \in Seq(Messages)
    BY <2>2 DEF ToSet
  <2>4. CASE IsAssistant(s[i])
    <3> DEFINE one == <<s[i]>>  lost == Lost(s, s[i])
    <3>4. lost \in Seq(Messages)
      BY <2>2, <2>4, LostType
    <3>1. Repaired(s, s[i]) = one \o lost
      BY <2>4 DEF Repaired, IsAssistant, IsTool
    <3>5. one \in Seq(Messages) /\ ToSet(one) = {s[i]}
      BY <2>3
    <3> HIDE DEF one, lost
    <3>6. ToSet(Repaired(s, s[i])) = {s[i]} \cup ToSet(lost)
      BY <3>1, <3>4, <3>5, SetOfBoth
    <3>2. m = s[i] \/ m \in ToSet(Lost(s, s[i]))
      BY <2>2, <3>6 DEF lost
    <3>3. QED BY <2>2, <2>4, <3>2, LostIs
  <2>5. CASE ~IsAssistant(s[i])
    BY <2>2, <2>3, <2>5 DEF Repaired
  <2>6. QED BY <2>4, <2>5
<1>5. QED BY <1>1, <1>4

-----------------------------------------------------------------------------
(* Results stay: the invariant. *)

LoopPlaces == {"top", "shrunk", "request", "complete"}
BatchPlaces == {"batch", "wave", "record", "exec"}

Copied == IF copy = NoCopy THEN {} ELSE ToSet(copy)
Everywhere == ToSet(conv) \cup ToSet(journal) \cup ToSet(Own) \cup Copied
Numbered(m, n) == IsAssistant(m) \/ IsTool(m) => m.n <= n

BatchShape ==
    turn.at \in BatchPlaces =>
       /\ turn.reply.n = used.replies /\ turn.next # 0
       /\ turn.at = "exec" => turn.next \in DOMAIN Calls

(* Between two batches the buffer lacks at most what bang commands added to the     *)
(* conversation; in a batch it also lacks results of its reply, which none of the  *)
(* lost ones is.                                                                   *)
Lacks(s, t) == ToSet(s) \subseteq ToSet(t) /\ \A m \in ToSet(t) \ ToSet(s) : Plain(m)
Mirror ==
    /\ turn.at \in LoopPlaces => Lacks(Own, conv)
    /\ turn.at \in BatchPlaces =>
         /\ turn.reply \in ToSet(conv) /\ ToSet(buffer) \subseteq ToSet(conv)
         /\ \A m \in ToSet(conv) \ ToSet(buffer) : Plain(m) \/ ResultOf(m, turn.reply.n)
         /\ \A m \in ToSet(conv) \cup Copied : IsLost(m) => m.n # turn.reply.n

ResultsInv ==
    /\ TranscriptInv /\ BatchShape
    /\ \A m \in Everywhere : Numbered(m, used.replies)
    /\ ~meddled => Mirror /\ Sound(ToSet(conv), ToSet(journal), Copied)

(* A step that replaces no recorded result by a lost one. *)
NoResultLost ==
    \A m \in ToSet(conv') :
       (IsLost(m) /\ m \notin ToSet(conv) /\ ~meddled /\ ~WithFinish(m.n))
          => <<m.n, m.k>> \notin ResultsIn(journal)

(* What every step keeps of the messages. *)
MessagesKept ==
    /\ \A m \in Everywhere' : Numbered(m, used'.replies)
    /\ ~meddled' => Sound(ToSet(conv'), ToSet(journal'), Copied')
    /\ NoResultLost

LEMMA SetsAre ==
  ASSUME TranscriptInv
  PROVE  \A m \in ToSet(conv) \cup ToSet(journal) \cup Copied : m \in Messages
<1>1. ASSUME NEW s \in Seq(Messages), NEW m \in ToSet(s) PROVE m \in Messages
  BY <1>1, SetOf
<1>2. QED BY <1>1, StateIs DEF Copied

LEMMA NumbersAre ==
  ASSUME TranscriptInv, NEW m \in Messages, IsAssistant(m) \/ IsTool(m)
  PROVE  m.n \in Nat /\ used.replies \in Nat
BY MessageIs, UsedIs DEF IsAssistant, IsTool

LEMMA LostMessage ==
  ASSUME NEW m \in Messages, IsLost(m)
  PROVE  m = Tool(m.n, m.k, TRUE)
<1>1. m \in [kind : {"tool"}, n : Nat, k : Nat, lost : BOOLEAN]
  BY DEF IsLost, IsTool, Messages
<1>2. m.kind = "tool" /\ m.lost = TRUE
  BY <1>1 DEF IsLost
<1>3. QED BY <1>1, <1>2 DEF Tool

(* Messages that are no reply and no lost result are added. *)
LEMMA GrowthKeeps ==
  ASSUME ResultsInv, NEW u \in Seq(Messages),
         \A m \in ToSet(u) : Plain(m) \/ (turn.at \in BatchPlaces /\ ResultOf(m, turn.reply.n)),
         conv' = conv \o u, journal' = journal \o u, copy' = copy, meddled' = meddled,
         used'.replies = used.replies, ToSet(Own') \subseteq Everywhere \cup ToSet(u)
  PROVE  MessagesKept
<1>1. TranscriptInv /\ conv \in Seq(Messages) /\ journal \in Seq(Messages) /\ used.replies \in Nat
  BY StateIs, UsedIs DEF ResultsInv
<1>2. /\ ToSet(conv') = ToSet(conv) \cup ToSet(u) /\ ToSet(journal') = ToSet(journal) \cup ToSet(u)
      /\ Copied' = Copied
  BY <1>1, SetOfBoth DEF Copied
<1>3. ASSUME NEW m \in Everywhere' PROVE Numbered(m, used'.replies)
  <2>1. CASE m \in Everywhere
    BY <2>1 DEF ResultsInv
  <2>2. CASE m \in ToSet(u)
    <3>1. turn.at \in BatchPlaces /\ IsTool(m) => m.n = used.replies
      BY <2>2 DEF Plain, ResultOf, ResultsInv, BatchShape
    <3>2. ~IsAssistant(m) /\ (IsTool(m) => turn.at \in BatchPlaces)
      BY <2>2, KindsDiffer DEF Plain, ResultOf
    <3>3. QED BY <1>1, <3>1, <3>2 DEF Numbered
  <2>3. QED BY <1>2, <1>3, <2>1, <2>2 DEF Everywhere
<1>4. ASSUME ~meddled' PROVE Sound(ToSet(conv'), ToSet(journal'), Copied')
  <2> DEFINE n == IF turn.at \in BatchPlaces THEN turn.reply.n ELSE used.replies + 1
  <2>1. \A m \in ToSet(u) : Plain(m) \/ ResultOf(m, n)
    OBVIOUS
  <2>2. ASSUME NEW m \in ToSet(conv) \cup Copied, IsLost(m) PROVE m.n # n
    <3>1. CASE turn.at \in BatchPlaces
      BY <1>4, <2>2, <3>1 DEF ResultsInv, Mirror
    <3>2. CASE turn.at \notin BatchPlaces
      <4>1. m.n \in Nat /\ m.n <= used.replies
        BY <1>1, <2>2, SetsAre, NumbersAre, KindsDiffer DEF ResultsInv, Everywhere, Numbered
      <4>2. QED BY <1>1, <3>2, <4>1
    <3>3. QED BY <3>1, <3>2
  <2> HIDE DEF n
  <2>3. Sound(ToSet(conv), ToSet(journal), Copied)
    BY <1>4 DEF ResultsInv
  <2> DEFINE C == ToSet(conv)  J == ToSet(journal)  K == Copied  U == ToSet(u)
  <2>4. /\ Sound(C, J, K) /\ \A m \in U : Plain(m) \/ ResultOf(m, n)
        /\ \A m \in C \cup K : IsLost(m) => m.n # n
        /\ ToSet(conv') = C \cup U /\ ToSet(journal') = J \cup U /\ Copied' = K
    BY <1>2, <2>1, <2>2, <2>3
  <2> HIDE DEF C, J, K, U
  <2>5. Sound(C \cup U, J \cup U, K)
    BY <2>4, SoundGrows
  <2>6. QED BY <2>4, <2>5
<1>5. NoResultLost
  BY <1>2, KindsDiffer DEF NoResultLost, Plain, ResultOf
<1>6. QED BY <1>3, <1>4, <1>5 DEF MessagesKept

(* Nothing is added. *)
LEMMA QuietKeeps ==
  ASSUME ResultsInv, conv' = conv, journal' = journal, copy' = copy, meddled' = meddled,
         used'.replies = used.replies, ToSet(Own') \subseteq Everywhere
  PROVE  MessagesKept
<1>1. Copied' = Copied
  BY DEF Copied
<1>2. \A m \in Everywhere' : m \in Everywhere
  BY <1>1 DEF Everywhere
<1>3. QED BY <1>1, <1>2 DEF MessagesKept, ResultsInv, NoResultLost

LEMMA RecordMore ==
  ASSUME ResultsInv, NEW m \in Messages, Record(m),
         Plain(m) \/ (turn.at \in BatchPlaces /\ ResultOf(m, turn.reply.n)),
         copy' = copy, meddled' = meddled,
         used'.replies = used.replies, ToSet(Own') \subseteq Everywhere \cup {m}
  PROVE  MessagesKept
<1>1. conv \in Seq(Messages) /\ journal \in Seq(Messages)
  BY StateIs DEF ResultsInv
<1> DEFINE u == <<m>>
<1>2. u \in Seq(Messages) /\ Append(conv, m) = conv \o u /\ Append(journal, m) = journal \o u
  BY <1>1, AppendJoins
<1>3. ToSet(u) = {m}
  BY DEF ToSet
<1> HIDE DEF u
<1>4. QED BY <1>2, <1>3, GrowthKeeps DEF Record

(* The conversation and the file become the same, with nothing new but a note. *)
LEMMA CutKeeps ==
  ASSUME ResultsInv, NEW D, ToSet(conv') = D, ToSet(journal') = D,
         D \subseteq Everywhere \cup {Note},
         ~meddled' => ~meddled /\ D \subseteq ToSet(conv) \cup {Note},
         Copied' \in {Copied, {}}, used'.replies = used.replies,
         ToSet(Own') \subseteq Everywhere \cup {Note}, NoResultLost
  PROVE  MessagesKept
<1>1. ASSUME NEW m \in Everywhere' PROVE Numbered(m, used'.replies)
  <2>1. m \in Everywhere \cup {Note}
    BY <1>1 DEF Everywhere
  <2>2. ~IsAssistant(Note) /\ ~IsTool(Note)
    BY DEF Note, IsAssistant, IsTool
  <2>3. QED BY <2>1, <2>2 DEF ResultsInv, Numbered
<1>2. ASSUME ~meddled' PROVE Sound(ToSet(conv'), ToSet(journal'), Copied')
  <2>1. Sound(ToSet(conv), ToSet(journal), Copied) /\ D \subseteq ToSet(conv) \cup {Note}
    BY <1>2 DEF ResultsInv
  <2>2. QED BY <2>1, SoundCut
<1>3. QED BY <1>1, <1>2 DEF MessagesKept

(* Where no batch is and no buffer that counts. *)
LEMMA NoMirror ==
  ASSUME TranscriptInv', turn'.at \in {"idle", "ending", "clone"}, MessagesKept
  PROVE  ResultsInv'
BY DEF ResultsInv, BatchShape, Mirror, MessagesKept, LoopPlaces, BatchPlaces

LEMMA LoopMirror ==
  ASSUME TranscriptInv', turn'.at \in LoopPlaces, ~meddled' => Lacks(Own', conv'), MessagesKept
  PROVE  ResultsInv'
BY DEF ResultsInv, BatchShape, Mirror, MessagesKept, LoopPlaces, BatchPlaces

LEMMA LacksNothing == \A s : Lacks(s, s)
BY DEF Lacks

(* The batch goes on with real results of its own. *)
LEMMA BatchMirror ==
  ASSUME ResultsInv, TranscriptInv', MessagesKept, turn.at \in BatchPlaces, turn'.at \in BatchPlaces,
         turn'.reply = turn.reply, turn'.next # 0, turn'.at = "exec" => turn'.next \in DOMAIN Calls,
         used'.replies = used.replies, copy' = copy, meddled' = meddled,
         NEW U, \A m \in U : ResultOf(m, turn.reply.n), ToSet(conv') = ToSet(conv) \cup U,
         ToSet(buffer') \in {ToSet(buffer), ToSet(buffer) \cup U}
  PROVE  ResultsInv'
<1>1. BatchShape'
  BY DEF BatchShape, ResultsInv, Calls
<1>2. ASSUME ~meddled' PROVE Mirror'
  <2>1. /\ turn.reply \in ToSet(conv) /\ ToSet(buffer) \subseteq ToSet(conv)
        /\ \A m \in ToSet(conv) \ ToSet(buffer) : Plain(m) \/ ResultOf(m, turn.reply.n)
        /\ \A m \in ToSet(conv) \cup Copied : IsLost(m) => m.n # turn.reply.n
    BY <1>2 DEF ResultsInv, Mirror
  <2>2. Copied' = Copied
    BY DEF Copied
  <2>3. \A m \in ToSet(conv') \cup Copied' : IsLost(m) => m.n # turn'.reply.n
    BY <2>1, <2>2, KindsDiffer DEF ResultOf
  <2>4. turn'.at \notin LoopPlaces
    BY DEF LoopPlaces, BatchPlaces
  <2>5. QED BY <2>1, <2>3, <2>4 DEF Mirror
<1>3. QED BY <1>1, <1>2 DEF ResultsInv, MessagesKept

(* Results stay: each step of the turn. *)

LEMMA EndAt == ASSUME End PROVE turn'.at = "ending" /\ Own' = buffer'
BY DEF End, Own, At

LEMMA GoToAt ==
  ASSUME turn \in Turns, NEW p \in Places, p # "request", GoTo(p)
  PROVE  turn'.at = p /\ turn'.reply = turn.reply /\ turn'.next = turn.next /\ Own' = buffer'
<1>1. turn'.at = p /\ turn'.reply = turn.reply /\ turn'.next = turn.next
  BY DEF GoTo, Turns
<1>2. QED BY <1>1 DEF Own, At

LEMMA OwnBuffer == ASSUME turn'.at # "request" PROVE Own' = buffer'
BY DEF Own, At

LEMMA NowOwn == ASSUME ~At("request") PROVE Own = buffer
BY DEF Own

LEMMA CloneStays == ASSUME ResultsInv, CloneConversation PROVE ResultsInv' /\ NoResultLost
<1>1. TranscriptInv' /\ turn \in Turns
  BY CloneKeeps, UsedIs, TurnIs DEF ResultsInv, CloneConversation, Places
<1>2. turn'.at = "top" /\ Own' = conv'
  BY <1>1, GoToAt DEF CloneConversation, Places
<1>3. MessagesKept
  BY <1>2, QuietKeeps DEF CloneConversation, ThisTurn, Everywhere
<1>4. QED BY <1>1, <1>2, <1>3, LacksNothing, LoopMirror DEF LoopPlaces, MessagesKept

(* A compaction by the turn. *)
LEMMA PersistStays ==
  ASSUME ResultsInv, TranscriptInv', turn.at \in LoopPlaces, Persist(Compacted(Own)), Own' = buffer',
         turn'.at \in {"ending", "top", "shrunk"}, copy' = copy, meddled' = meddled,
         used'.replies = used.replies
  PROVE  ResultsInv' /\ NoResultLost
<1> DEFINE s == Compacted(Own)
<1>1. conv' = s /\ journal' = s /\ Own' = s
  BY DEF Persist
<1>2. ToSet(s) \subseteq ToSet(Own) \cup {Note}
  BY SetOfCompacted DEF ResultsInv, TranscriptInv, TranscriptShape
<1> HIDE DEF s
<1>3. ~meddled => ToSet(Own) \subseteq ToSet(conv)
  BY DEF ResultsInv, Mirror, Lacks
<1>4. NoResultLost
  BY <1>1, <1>2, <1>3 DEF NoResultLost, Note, IsLost, IsTool
<1>5. MessagesKept
  <2>1. Copied' = Copied
    BY DEF Copied
  <2>2. ToSet(s) \subseteq Everywhere \cup {Note}
    BY <1>2 DEF Everywhere
  <2>3. ~meddled' => ~meddled /\ ToSet(s) \subseteq ToSet(conv) \cup {Note}
    BY <1>2, <1>3
  <2>4. QED BY <1>1, <1>4, <2>1, <2>2, <2>3, CutKeeps
<1>6. CASE turn'.at = "ending"
  BY <1>4, <1>5, <1>6, NoMirror
<1>7. CASE turn'.at \in {"top", "shrunk"}
  BY <1>1, <1>4, <1>5, <1>7, LacksNothing, LoopMirror DEF LoopPlaces
<1>8. QED BY <1>6, <1>7

LEMMA UseReplies ==
  ASSUME TranscriptInv, NEW w \in {"prompts", "rounds", "shrinks", "commands"}, Use(w)
  PROVE  used'.replies = used.replies
BY UsedIs DEF Use, Used

LEMMA ShrinkStays == ASSUME ResultsInv, Shrink PROVE ResultsInv' /\ NoResultLost
<1>1. TranscriptInv' /\ turn \in Turns /\ turn.at = "top" /\ Own = buffer
  BY ShrinkKeeps, UsedIs, TurnIs, NowOwn DEF ResultsInv, Shrink, Places, At
<1>2. turn'.at \in {"ending", "shrunk"} /\ Own' = buffer'
  BY <1>1, EndAt, GoToAt DEF Shrink, Places
<1>3. used'.replies = used.replies
  BY UseReplies DEF Shrink, ResultsInv
<1>4. QED BY <1>1, <1>2, <1>3, PersistStays DEF Shrink, ThisTurn, LoopPlaces

LEMMA ContextTooLongStays == ASSUME ResultsInv, ContextTooLong PROVE ResultsInv' /\ NoResultLost
<1>1. TranscriptInv' /\ turn \in Turns /\ turn.at = "request" /\ Own = WithoutTransient
  BY ContextTooLongKeeps, UsedIs, TurnIs DEF ResultsInv, ContextTooLong, Places, At, Own
<1>2. turn'.at \in {"ending", "top"}
  <2>1. CASE End
    BY <2>1, EndAt
  <2>2. CASE turn' = [turn EXCEPT !.at = "top", !.retried = TRUE, !.tails = 0]
    BY <1>1, <2>2 DEF Turns
  <2>3. QED BY <2>1, <2>2 DEF ContextTooLong
<1>3. Own' = buffer'
  BY <1>2, OwnBuffer
<1>4. QED BY <1>1, <1>2, <1>3, PersistStays DEF ContextTooLong, ThisTurn, LoopPlaces

LEMMA SendRequestStays == ASSUME ResultsInv, SendRequest PROVE ResultsInv' /\ NoResultLost
<1> DEFINE s == sanitize_orphaned_tool_calls(buffer)
<1>1. /\ s \in Seq(Messages) /\ Own' = s /\ turn'.at = "request"
      /\ \/ s = buffer /\ conv' = conv /\ journal' = journal
         \/ conv' = s /\ journal' = s
  BY SendRequestIs DEF ResultsInv
<1>2. /\ TranscriptInv' /\ turn.at \in LoopPlaces /\ Own = buffer /\ ~At("request") /\ TranscriptInv
      /\ copy' = copy /\ meddled' = meddled /\ used' = used
  BY SendRequestKeeps DEF ResultsInv, SendRequest, At, LoopPlaces, ThisTurn, Own
<1>3. buffer \in Seq(Messages) /\ \A m \in ToSet(s) : m \in ToSet(buffer) \/ MadeUp(m, ToSet(buffer))
  BY <1>2, BufferIs, SetOfRepaired
<1> HIDE DEF s
<1>4. ~meddled => Lacks(buffer, conv)
  BY <1>2 DEF ResultsInv, Mirror
<1>41. ASSUME ~meddled, NEW m \in ToSet(s) PROVE m \in ToSet(conv) \/ MadeUp(m, ToSet(conv))
  BY <1>3, <1>4, <1>41 DEF Lacks, Plain, MadeUp
<1>5. Copied' = Copied
  BY <1>2 DEF Copied
<1>6. CASE s = buffer /\ conv' = conv /\ journal' = journal
  <2>1. ToSet(Own') \subseteq Everywhere
    BY <1>1, <1>2, <1>6 DEF Everywhere
  <2>2. MessagesKept
    BY <1>2, <1>6, <2>1, QuietKeeps
  <2>3. ~meddled' => Lacks(Own', conv')
    BY <1>1, <1>2, <1>4, <1>6
  <2>4. QED BY <1>1, <1>2, <2>2, <2>3, LoopMirror DEF LoopPlaces, MessagesKept
<1>7. CASE conv' = s /\ journal' = s
  <2>1. ASSUME NEW m \in Everywhere' PROVE Numbered(m, used'.replies)
    <3>1. CASE m \in Everywhere
      BY <1>2, <3>1 DEF ResultsInv
    <3>2. CASE MadeUp(m, ToSet(buffer))
      <4>1. PICK a \in ToSet(buffer) : \E k \in DOMAIN a.calls : MadeFor(m, a, k, ToSet(buffer))
        BY <3>2, MadeUpIs
      <4>2. IsAssistant(a) /\ m.n = a.n
        BY <4>1 DEF MadeFor
      <4>3. Numbered(a, used.replies)
        BY <1>2 DEF ResultsInv, Everywhere
      <4>4. QED BY <1>2, <4>2, <4>3 DEF Numbered
    <3>3. m \in Copied \/ m \in ToSet(s)
      BY <1>1, <1>5, <1>7, <2>1 DEF Everywhere
    <3>4. m \in Everywhere \/ MadeUp(m, ToSet(buffer))
      BY <1>2, <1>3, <3>3 DEF Everywhere
    <3>5. QED BY <3>1, <3>2, <3>4
  <2>2. ASSUME ~meddled PROVE Sound(ToSet(s), ToSet(s), Copied)
    <3> DEFINE C == ToSet(conv)  D == ToSet(s)  J == ToSet(journal)
    <3>1. Sound(C, J, Copied)
      BY <2>2 DEF ResultsInv
    <3>2. \A m \in D : m \in C \/ MadeUp(m, C)
      BY <1>41, <2>2
    <3>3. \A m \in Copied : IsLost(m) => m = Tool(m.n, m.k, TRUE)
      BY <1>2, SetsAre, LostMessage
    <3> HIDE DEF C, D, J
    <3>4. Sound(D, D, Copied)
      BY <3>1, <3>2, <3>3, SoundRepair
    <3>5. QED BY <3>4 DEF D
  <2>3. NoResultLost
    <3>1. SUFFICES ASSUME NEW m \in ToSet(s), IsLost(m), m \notin ToSet(conv), ~meddled,
                          ~WithFinish(m.n), <<m.n, m.k>> \in ResultsIn(journal)
                   PROVE  FALSE
      BY <1>7 DEF NoResultLost
    <3>2. MadeUp(m, ToSet(conv)) /\ Sound(ToSet(conv), ToSet(journal), Copied)
      BY <1>41, <3>1 DEF ResultsInv
    <3>3. PICK a \in ToSet(conv) : \E k \in DOMAIN a.calls : MadeFor(m, a, k, ToSet(conv))
      BY <3>2, MadeUpIs
    <3>4. IsAssistant(a) /\ a.n = m.n /\ \A t \in ToSet(conv) : IsTool(t) => ~Alike(m, t)
      BY <3>3 DEF MadeFor
    <3>5. ~Finishing(a)
      <4>1. "finish" \notin ToSet(a.calls)
        BY <3>1, <3>4 DEF WithFinish
      <4>2. QED BY <4>1 DEF Finishing, ToSet
    <3>6. PICK t \in ToSet(journal) : IsTool(t) /\ t.n = m.n /\ t.k = m.k
      BY <3>1 DEF ResultsIn
    <3>7. PICK r \in ToSet(conv) : IsTool(r) /\ Alike(t, r)
      BY <3>2, <3>4, <3>5, <3>6 DEF Sound
    <3>8. QED BY <3>4, <3>6, <3>7 DEF Alike
  <2>4. MessagesKept
    BY <1>2, <1>5, <1>7, <2>1, <2>2, <2>3 DEF MessagesKept
  <2>5. QED BY <1>1, <1>2, <1>7, <2>3, <2>4, LacksNothing, LoopMirror DEF LoopPlaces
<1>8. QED BY <1>1, <1>6, <1>7

(* The turn ends with what it has, or with an empty buffer. *)
LEMMA EndStays ==
  ASSUME ResultsInv, TranscriptInv', ~At("request") \/ buffer' = <<>>, End,
         UNCHANGED <<conv, journal, used>>, buffer' \in {buffer, <<>>}, ThisTurn
  PROVE  ResultsInv' /\ NoResultLost
<1>1. turn'.at = "ending" /\ Own' = buffer'
  BY EndAt
<1>2. ToSet(Own') \subseteq Everywhere
  <2>1. CASE buffer' = <<>>
    BY <1>1, <2>1 DEF ToSet
  <2>2. CASE buffer' = buffer /\ ~At("request")
    BY <1>1, <2>2 DEF Own, Everywhere
  <2>3. QED BY <2>1, <2>2
<1>3. MessagesKept
  BY <1>2, QuietKeeps DEF ThisTurn
<1>4. QED BY <1>1, <1>3, NoMirror DEF MessagesKept

LEMMA RequestFailsStays == ASSUME ResultsInv, RequestFails PROVE ResultsInv' /\ NoResultLost
<1>1. TranscriptInv'
  BY RequestFailsKeeps DEF ResultsInv
<1>2. QED BY <1>1, EndStays DEF RequestFails

LEMMA StopTurnStays == ASSUME ResultsInv, StopTurn PROVE ResultsInv' /\ NoResultLost
<1>1. TranscriptInv' /\ ~At("request")
  BY StopTurnKeeps DEF ResultsInv, StopTurn, At
<1>2. QED BY <1>1, EndStays DEF StopTurn

LEMMA RespondStays == ASSUME ResultsInv, Respond PROVE ResultsInv' /\ NoResultLost
<1>1. /\ TranscriptInv /\ TranscriptInv' /\ turn.at = "request" /\ Own = WithoutTransient
      /\ copy' = copy /\ meddled' = meddled
  BY RespondKeeps DEF ResultsInv, Respond, At, Own, ThisTurn
<1>2. PICK m : Replied(m)
  BY <1>1, RespondIs
<1>3. /\ Own \in Seq(Messages) /\ journal \in Seq(Messages) /\ used.replies \in Nat /\ m \in Messages
      /\ IsAssistant(m) /\ m.n = used.replies + 1 /\ used'.replies = used.replies + 1
  BY <1>1, <1>2, StateIs, UsedIs DEF Replied, TranscriptInv, TranscriptShape
<1>4. Own' = buffer' /\ conv' = Append(Own, m) /\ journal' = Append(journal, m) /\ Own' = conv'
  BY <1>1, <1>2, OwnBuffer DEF Replied
<1>5. ToSet(conv') = ToSet(Own) \cup {m} /\ ToSet(journal') = ToSet(journal) \cup {m} /\ Copied' = Copied
  BY <1>1, <1>3, <1>4, SetOfMore DEF Copied
<1>6. ~meddled => Lacks(Own, conv)
  BY <1>1 DEF ResultsInv, Mirror, LoopPlaces
<1>7. ASSUME NEW x \in ToSet(conv) \cup ToSet(journal) \cup Copied, IsAssistant(x) \/ IsTool(x)
      PROVE  x.n # m.n
  <2>1. x.n \in Nat /\ x.n <= used.replies
    BY <1>1, <1>7, SetsAre, NumbersAre DEF ResultsInv, Everywhere, Numbered
  <2>2. QED BY <1>3, <2>1
<1>8. ASSUME NEW x \in Everywhere' PROVE Numbered(x, used'.replies)
  <2>1. x \in Everywhere \/ x = m
    BY <1>4, <1>5, <1>8 DEF Everywhere
  <2>2. CASE x = m
    BY <1>3, <2>2 DEF Numbered
  <2>3. CASE x \in Everywhere
    <3>1. x \in Messages
      <4>1. x \in ToSet(Own) => x \in Messages
        BY <1>3, SetOf
      <4>2. QED BY <1>1, <2>3, <4>1, SetsAre DEF Everywhere
    <3>2. SUFFICES ASSUME IsAssistant(x) \/ IsTool(x) PROVE x.n <= used'.replies
      BY DEF Numbered
    <3>3. x.n \in Nat /\ x.n <= used.replies
      BY <1>1, <2>3, <3>1, <3>2, NumbersAre DEF ResultsInv, Numbered
    <3>4. QED BY <1>3, <3>3
  <2>4. QED BY <2>1, <2>2, <2>3
<1>9. ASSUME ~meddled PROVE Sound(ToSet(conv'), ToSet(journal'), Copied')
  <2> DEFINE A == ToSet(conv)  C == ToSet(Own)  J == ToSet(journal)  K == Copied
  <2>11. Sound(A, J, K) /\ C \subseteq A /\ \A x \in A \ C : Plain(x)
    BY <1>6, <1>9 DEF ResultsInv, Lacks
  <2>12. \A x \in A \cup J \cup K : IsAssistant(x) \/ IsTool(x) => x.n # m.n
    BY <1>7
  <2> HIDE DEF A, C, J, K
  <2>1. Sound(C, J, K) /\ \A x \in C \cup J \cup K : IsAssistant(x) \/ IsTool(x) => x.n # m.n
    BY <2>11, <2>12, SoundWithout
  <2> USE DEF C, J, K
  <2>2. ToSet(conv') = C \cup {m} /\ ToSet(journal') = J \cup {m} /\ Copied' = K
    BY <1>5, <1>6, <1>9
  <2> HIDE DEF C, J, K
  <2>3. Sound(C \cup {m}, J \cup {m}, K)
    BY <1>3, <2>1, SoundReplies
  <2>4. QED BY <2>2, <2>3
<1>10. NoResultLost
  BY <1>3, <1>5, <1>6, KindsDiffer DEF NoResultLost, Lacks
<1>11. MessagesKept
  BY <1>1, <1>8, <1>9, <1>10 DEF MessagesKept
<1>12. CASE turn'.at = "complete"
  BY <1>1, <1>4, <1>10, <1>11, <1>12, LacksNothing, LoopMirror DEF LoopPlaces
<1>13. CASE turn'.at = "batch"
  <2>1. BatchShape'
    BY <1>2, <1>3, <1>13 DEF BatchShape, Replied
  <2>2. ASSUME ~meddled' PROVE Mirror'
    <3>1. turn'.reply = m /\ turn'.at \notin LoopPlaces /\ buffer' = conv' /\ m \in ToSet(conv')
      BY <1>2, <1>4, <1>5, <1>13 DEF Replied, LoopPlaces
    <3>2. ASSUME NEW x \in ToSet(conv') \cup Copied', IsLost(x) PROVE x.n # m.n
      <4>1. x \in ToSet(conv) \cup Copied /\ IsTool(x)
        BY <1>1, <1>3, <1>5, <1>6, <2>2, <3>2, KindsDiffer DEF Lacks
      <4>2. QED BY <1>7, <4>1
    <3>3. QED BY <3>1, <3>2 DEF Mirror
  <2>3. QED BY <1>1, <1>10, <1>11, <2>1, <2>2 DEF ResultsInv, MessagesKept
<1>14. QED BY <1>2, <1>12, <1>13 DEF Replied

LEMMA ResultIsReal == \A k : ResultOf(Result(k), turn.reply.n)
BY DEF ResultOf, Result, Tool, IsTool

(* A step in a batch, from what it records. *)
LEMMA BatchStays ==
  ASSUME ResultsInv, TranscriptInv', turn.at \in BatchPlaces, turn'.at \in BatchPlaces \ {"exec"},
         turn'.reply = turn.reply, turn'.next # 0,
         used'.replies = used.replies, copy' = copy, meddled' = meddled,
         NEW u \in Seq(Messages), \A m \in ToSet(u) : ResultOf(m, turn.reply.n),
         conv' = conv \o u, journal' = journal \o u, buffer' \in {buffer, buffer \o u}
  PROVE  ResultsInv' /\ NoResultLost
<1>1. TranscriptInv /\ ~At("request") /\ conv \in Seq(Messages)
  BY StateIs DEF ResultsInv, BatchPlaces, At
<1>2. buffer \in Seq(Messages)
  BY <1>1, BufferIs
<1>3. ToSet(conv') = ToSet(conv) \cup ToSet(u) /\ ToSet(buffer \o u) = ToSet(buffer) \cup ToSet(u)
  BY <1>1, <1>2, SetOfBoth
<1>4. Own' = buffer' /\ Own = buffer
  BY <1>1, OwnBuffer, NowOwn DEF BatchPlaces
<1>5. MessagesKept
  <2>1. ToSet(Own') \subseteq Everywhere \cup ToSet(u)
    BY <1>3, <1>4 DEF Everywhere
  <2>2. QED BY <2>1, GrowthKeeps
<1>6. ResultsInv'
  <2> DEFINE U == ToSet(u)
  <2>1. \A m \in U : ResultOf(m, turn.reply.n)
    OBVIOUS
  <2>2. ToSet(conv') = ToSet(conv) \cup U /\ ToSet(buffer') \in {ToSet(buffer), ToSet(buffer) \cup U}
    BY <1>3
  <2> HIDE DEF U
  <2>3. QED BY <1>5, <2>1, <2>2, BatchMirror
<1>7. QED BY <1>5, <1>6 DEF MessagesKept

LEMMA RecordStays ==
  ASSUME ResultsInv, TranscriptInv', turn.at \in BatchPlaces, turn'.at \in BatchPlaces \ {"exec"},
         turn'.reply = turn.reply, turn'.next # 0,
         used'.replies = used.replies, copy' = copy, meddled' = meddled,
         NEW k \in Nat, Record(Result(k)), buffer' \in {buffer, Append(buffer, Result(k))}
  PROVE  ResultsInv' /\ NoResultLost
<1>1. /\ conv \in Seq(Messages) /\ journal \in Seq(Messages) /\ buffer \in Seq(Messages)
      /\ Result(k) \in Messages
  BY BufferIs, ReplyIs DEF ResultsInv, BatchPlaces, At
<1> DEFINE u == <<Result(k)>>
<1>2. /\ u \in Seq(Messages) /\ Append(conv, Result(k)) = conv \o u
      /\ Append(journal, Result(k)) = journal \o u /\ Append(buffer, Result(k)) = buffer \o u
  BY <1>1, AppendJoins
<1>3. \A m \in ToSet(u) : ResultOf(m, turn.reply.n)
  BY ResultIsReal DEF ToSet
<1> HIDE DEF u
<1>4. QED BY <1>2, <1>3, BatchStays DEF Record

LEMMA BatchQuiet ==
  ASSUME ResultsInv, TranscriptInv', turn.at \in BatchPlaces, turn'.at \in BatchPlaces \ {"exec"},
         turn'.reply = turn.reply, turn'.next # 0,
         ThisTurn, UNCHANGED <<conv, buffer, journal, used>>
  PROVE  ResultsInv' /\ NoResultLost
<1>1. conv \in Seq(Messages) /\ journal \in Seq(Messages)
  BY StateIs DEF ResultsInv
<1> DEFINE u == <<>>
<1>2. u \in Seq(Messages) /\ conv = conv \o u /\ journal = journal \o u
  BY <1>1
<1>3. \A m \in ToSet(u) : ResultOf(m, turn.reply.n)
  BY DEF ToSet
<1> HIDE DEF u
<1>4. QED BY <1>2, <1>3, BatchStays DEF ThisTurn

LEMMA InBatch ==
  ASSUME ResultsInv, turn.at \in BatchPlaces
  PROVE  /\ TranscriptInv /\ turn \in Turns /\ ~At("request") /\ turn.next \in Nat /\ turn.next # 0
         /\ turn.ready \in Seq(Nat) /\ Calls \in Seq(Names)
         /\ turn.reply.n = used.replies /\ IsAssistant(turn.reply)
         /\ turn.at = "exec" => turn.next \in DOMAIN Calls
BY ReplyIs DEF ResultsInv, BatchShape, BatchPlaces

LEMMA GateWaveStays == ASSUME ResultsInv, GateWave PROVE ResultsInv' /\ NoResultLost
<1>1. TranscriptInv /\ TranscriptInv' /\ turn.at = "batch" /\ ~At("request")
  BY GateWaveKeeps DEF ResultsInv, GateWave, At
<1>2. PICK u, M : Gated(u, M)
  BY <1>1, GateWaveIs
<1>3. \A m \in ToSet(u) : ResultOf(m, turn.reply.n)
  <2>1. ASSUME NEW m \in ToSet(u) PROVE ResultOf(m, turn.reply.n)
    <3>1. PICK i \in 1 .. Len(u) : m = u[i]
      BY <1>2, SetOf DEF Gated
    <3>2. PICK k \in Nat : u[i] = Result(k)
      BY <1>2 DEF Gated
    <3>3. QED BY <3>1, <3>2, ResultIsReal
  <2>2. QED BY <2>1
<1>4. /\ u \in Seq(Messages) /\ conv' = conv \o u /\ journal' = journal \o u /\ buffer' = buffer
      /\ copy' = copy /\ meddled' = meddled /\ used'.replies = used.replies
  BY <1>2 DEF Gated, GateWave, ThisTurn
<1>5. CASE End
  <2>1. turn'.at = "ending" /\ Own' = buffer' /\ Own = buffer
    BY <1>1, <1>5, EndAt, NowOwn
  <2>2. MessagesKept
    <3>1. ToSet(Own') \subseteq Everywhere \cup ToSet(u)
      BY <1>4, <2>1 DEF Everywhere
    <3>2. turn.at \in BatchPlaces
      BY <1>1 DEF BatchPlaces
    <3>3. QED BY <1>3, <1>4, <3>1, <3>2, GrowthKeeps
  <2>3. QED BY <1>1, <2>1, <2>2, NoMirror DEF MessagesKept
<1>6. CASE turn'.at = "wave" /\ turn'.reply = turn.reply /\ turn'.next = turn.next
  <2>1. turn.at \in BatchPlaces /\ turn'.at \in BatchPlaces \ {"exec"}
    BY <1>1, <1>6 DEF BatchPlaces
  <2>2. turn'.next # 0
    BY <1>6, <2>1, InBatch
  <2>3. QED BY <1>1, <1>3, <1>4, <1>6, <2>1, <2>2, BatchStays
<1>7. QED BY <1>2, <1>5, <1>6 DEF Gated

LEMMA RunWaveStays == ASSUME ResultsInv, RunWave PROVE ResultsInv' /\ NoResultLost
<1>1. TranscriptInv' /\ turn.at = "wave" /\ ~At("request") /\ turn.at \in BatchPlaces
  BY RunWaveKeeps DEF ResultsInv, RunWave, At, BatchPlaces
<1>2. CASE End
  BY <1>1, <1>2, EndStays DEF RunWave
<1>3. CASE GoTo("record")
  <2>1. turn'.at = "record" /\ turn'.reply = turn.reply /\ turn'.next = turn.next /\ turn.next # 0
    BY <1>1, <1>3, InBatch, GoToAt DEF Places
  <2>2. QED BY <1>1, <2>1, BatchQuiet DEF RunWave, BatchPlaces
<1>4. QED BY <1>2, <1>3 DEF RunWave

LEMMA RecordWaveStays == ASSUME ResultsInv, RecordWave PROVE ResultsInv' /\ NoResultLost
<1>1. TranscriptInv' /\ turn.at = "record" /\ turn.at \in BatchPlaces /\ buffer' = buffer
  BY RecordWaveKeeps DEF ResultsInv, RecordWave, At, BatchPlaces
<1>2. turn \in Turns /\ turn.ready \in Seq(Nat) /\ turn.next # 0 /\ Calls \in Seq(Names)
  BY <1>1, InBatch
<1>3. CASE turn.ready = <<>>
  <2>1. turn' = [turn EXCEPT !.at = "batch", !.next = Wave + 1] /\ UNCHANGED <<conv, journal>>
    BY <1>3 DEF RecordWave
  <2>2. Wave + 1 # 0
    <3>1. Wave \in Nat
      BY <1>2, WaveIs
    <3>2. QED BY <3>1
  <2>3. turn'.at = "batch" /\ turn'.reply = turn.reply /\ turn'.next # 0
    BY <1>2, <2>1, <2>2 DEF Turns
  <2>4. QED BY <1>1, <2>1, <2>3, BatchQuiet DEF RecordWave, BatchPlaces
<1>4. CASE turn.ready # <<>>
  <2>1. Record(Result(Head(turn.ready))) /\ turn' = [turn EXCEPT !.ready = Tail(@)]
    BY <1>4 DEF RecordWave
  <2>2. turn'.at = "record" /\ turn'.reply = turn.reply /\ turn'.next # 0
    BY <1>1, <1>2, <2>1 DEF Turns
  <2>3. Head(turn.ready) \in Nat
    BY <1>2, <1>4
  <2>4. /\ used'.replies = used.replies /\ copy' = copy /\ meddled' = meddled
        /\ turn'.at \in BatchPlaces \ {"exec"}
    BY <2>2 DEF RecordWave, ThisTurn, BatchPlaces
  <2>5. QED BY <1>1, <2>1, <2>2, <2>3, <2>4, RecordStays
<1>5. QED BY <1>3, <1>4

LEMMA DenyCallStays == ASSUME ResultsInv, DenyCall PROVE ResultsInv' /\ NoResultLost
<1>1. TranscriptInv' /\ turn.at = "batch" /\ turn.at \in BatchPlaces
  BY DenyCallKeeps DEF ResultsInv, DenyCall, CallNow, At, BatchPlaces
<1>2. turn \in Turns /\ turn.next \in Nat
  BY <1>1, InBatch
<1>3. turn' = [turn EXCEPT !.next = turn.next + 1] /\ turn.next + 1 # 0
  BY <1>2 DEF DenyCall
<1>4. turn'.at = "batch" /\ turn'.reply = turn.reply /\ turn'.next # 0
  BY <1>1, <1>2, <1>3 DEF Turns
<1>5. /\ Record(Result(turn.next)) /\ buffer' = buffer /\ used'.replies = used.replies
      /\ copy' = copy /\ meddled' = meddled /\ turn'.at \in BatchPlaces \ {"exec"}
  BY <1>4 DEF DenyCall, ThisTurn, BatchPlaces
<1>6. QED BY <1>1, <1>2, <1>4, <1>5, RecordStays

LEMMA ExecuteCallStays == ASSUME ResultsInv, ExecuteCall PROVE ResultsInv' /\ NoResultLost
<1>1. TranscriptInv' /\ turn.at = "batch" /\ turn.at \in BatchPlaces /\ turn.next <= Len(Calls)
  BY ExecuteCallKeeps DEF ResultsInv, ExecuteCall, CallNow, At, BatchPlaces
<1>2. turn \in Turns /\ turn.next \in Nat /\ turn.next # 0 /\ Calls \in Seq(Names) /\ ~At("request")
  BY <1>1, InBatch
<1>3. turn'.at = "exec" /\ turn'.reply = turn.reply /\ turn'.next = turn.next /\ Own' = buffer'
  BY <1>2, GoToAt DEF ExecuteCall, Places
<1>4. turn.next \in DOMAIN Calls
  BY <1>1, <1>2
<1>5. MessagesKept
  <2>1. ToSet(Own') \subseteq Everywhere
    BY <1>2, <1>3, NowOwn DEF Everywhere, ExecuteCall
  <2>2. QED BY <2>1, QuietKeeps DEF ExecuteCall, ThisTurn
<1>6. ResultsInv'
  <2> DEFINE U == {}
  <2>1. /\ \A m \in U : ResultOf(m, turn.reply.n)
        /\ ToSet(conv') = ToSet(conv) \cup U /\ ToSet(buffer') = ToSet(buffer)
    BY DEF ExecuteCall
  <2>2. /\ used'.replies = used.replies /\ copy' = copy /\ meddled' = meddled
        /\ turn'.at \in BatchPlaces /\ turn'.next # 0 /\ turn'.next \in DOMAIN Calls
    BY <1>2, <1>3, <1>4 DEF ExecuteCall, ThisTurn, BatchPlaces
  <2> HIDE DEF U
  <2>3. QED BY <1>1, <1>3, <1>5, <2>1, <2>2, BatchMirror
<1>7. QED BY <1>5, <1>6 DEF MessagesKept

LEMMA RecordCallStays == ASSUME ResultsInv, RecordCall PROVE ResultsInv' /\ NoResultLost
<1>1. TranscriptInv' /\ turn.at = "exec" /\ turn.at \in BatchPlaces
  BY RecordCallKeeps DEF ResultsInv, RecordCall, At, BatchPlaces
<1>2. turn \in Turns /\ turn.next \in Nat /\ ~At("request")
  BY <1>1, InBatch
<1>3. CASE RecordBoth(Result(turn.next)) /\ turn' = [turn EXCEPT !.at = "batch", !.next = turn.next + 1]
  <2>1. turn'.at = "batch" /\ turn'.reply = turn.reply /\ turn'.next # 0
    <3>1. turn.next + 1 # 0
      BY <1>2
    <3>2. QED BY <1>2, <1>3, <3>1 DEF Turns
  <2>2. /\ Record(Result(turn.next)) /\ buffer' = Append(buffer, Result(turn.next))
        /\ used'.replies = used.replies /\ copy' = copy /\ meddled' = meddled
        /\ turn'.at \in BatchPlaces \ {"exec"}
    BY <1>3, <2>1 DEF RecordCall, RecordBoth, ThisTurn, BatchPlaces
  <2>3. QED BY <1>1, <1>2, <2>1, <2>2, RecordStays
<1>4. CASE End /\ UNCHANGED <<conv, buffer, journal>>
  BY <1>1, <1>2, <1>4, EndStays DEF RecordCall
<1>5. QED BY <1>3, <1>4 DEF RecordCall

LEMMA RefuseFinishStays == ASSUME ResultsInv, RefuseFinish PROVE ResultsInv' /\ NoResultLost
<1> DEFINE k == turn.next + 1  t == [turn EXCEPT !.at = "batch", !.next = k]
<1>1. TranscriptInv' /\ turn.at = "exec" /\ turn.at \in BatchPlaces /\ GoOn(t)
  BY RefuseFinishKeeps DEF ResultsInv, RefuseFinish, At, BatchPlaces
<1>2. turn \in Turns /\ turn.next \in Nat
  BY <1>1, InBatch
<1>21. k \in Nat /\ k # 0
  BY <1>2
<1>3. t \in Turns /\ t.at = "batch" /\ t.reply = turn.reply /\ t.next # 0
  <2> HIDE DEF k
  <2>1. QED BY <1>2, <1>21 DEF Turns, Places
<1> HIDE DEF t
<1>4. turn'.at = "batch" /\ turn'.reply = turn.reply /\ turn'.next # 0
  BY <1>1, <1>3 DEF GoOn, Turns
<1>5. /\ Record(Result(turn.next)) /\ buffer' = Append(buffer, Result(turn.next))
      /\ used'.replies = used.replies /\ copy' = copy /\ meddled' = meddled
      /\ turn'.at \in BatchPlaces \ {"exec"}
  BY <1>4 DEF RefuseFinish, RecordBoth, ThisTurn, BatchPlaces
<1>6. QED BY <1>1, <1>2, <1>4, <1>5, RecordStays

LEMMA AcceptFinishStays == ASSUME ResultsInv, AcceptFinish PROVE ResultsInv' /\ NoResultLost
<1> DEFINE r == Result(turn.next)  p == turn.reply
<1>1. /\ TranscriptInv' /\ turn.at = "exec" /\ turn.at \in BatchPlaces /\ Calls[turn.next] = "finish"
      /\ buffer' = Append(buffer, r) /\ conv' = buffer' /\ journal' = Append(journal, r)
      /\ copy' = copy /\ meddled' = meddled /\ used'.replies = used.replies
  BY AcceptFinishKeeps DEF ResultsInv, AcceptFinish, At, BatchPlaces, ThisTurn
<1>2. /\ TranscriptInv /\ ~At("request") /\ turn.next \in DOMAIN Calls /\ turn.next \in Nat
      /\ IsAssistant(p) /\ p.n = used.replies /\ used.replies \in Nat
  BY <1>1, InBatch, UsedIs
<1>3. r \in Messages /\ ResultOf(r, p.n)
  BY <1>1, <1>2, ReplyIs, ResultIsReal DEF BatchPlaces
<1>4. Finishing(p)
  BY <1>1, <1>2 DEF Finishing, Calls
<1> HIDE DEF r
<1>5. buffer \in Seq(Messages) /\ journal \in Seq(Messages) /\ Own = buffer
  BY <1>2, BufferIs, NowOwn
<1>6. turn'.at = "ending" /\ Own' = buffer'
  BY EndAt DEF AcceptFinish
<1>7. /\ ToSet(conv') = ToSet(buffer) \cup {r} /\ ToSet(Own') = ToSet(buffer) \cup {r}
      /\ ToSet(journal') = ToSet(journal) \cup {r} /\ Copied' = Copied
  BY <1>1, <1>3, <1>5, <1>6, SetOfMore DEF Copied
<1>8. ASSUME NEW m \in Everywhere' PROVE Numbered(m, used'.replies)
  <2>1. m \in Everywhere \/ m = r
    BY <1>5, <1>7, <1>8 DEF Everywhere
  <2>2. CASE m = r
    BY <1>1, <1>2, <1>3, <2>2 DEF Numbered, ResultOf
  <2>3. CASE m \in Everywhere
    BY <1>1, <2>3 DEF ResultsInv
  <2>4. QED BY <2>1, <2>2, <2>3
<1> DEFINE B == ToSet(buffer)  C == ToSet(conv)  J == ToSet(journal)  K == Copied
<1>9. ASSUME ~meddled
      PROVE  /\ Sound(C, J, K) /\ B \subseteq C /\ p \in C /\ \A m \in C \ B : Plain(m) \/ ResultOf(m, p.n)
             /\ \A m \in C \cup K : IsLost(m) => m.n # p.n
  BY <1>1, <1>9 DEF ResultsInv, Mirror
<1>10. NoResultLost
  BY <1>3, <1>7, <1>9, KindsDiffer DEF NoResultLost, ResultOf
<1>11. ToSet(conv') = B \cup {r} /\ ToSet(journal') = J \cup {r} /\ Copied' = K
  BY <1>7
<1> HIDE DEF B, C, J, K, p
<1>12. ~meddled' => Sound(ToSet(conv'), ToSet(journal'), Copied')
  <2>1. SUFFICES ASSUME ~meddled PROVE Sound(B \cup {r}, J \cup {r}, K)
    BY <1>1, <1>11
  <2>2. QED BY <1>2, <1>3, <1>4, <1>9, <2>1, SoundFinish
<1>13. MessagesKept
  BY <1>8, <1>10, <1>12 DEF MessagesKept
<1>14. QED BY <1>1, <1>6, <1>10, <1>13, NoMirror

LEMMA PlainMessages == Plain(Note) /\ Plain(Bash) /\ Plain(System) /\ \A n : Plain(User(n))
BY DEF Plain, Note, Bash, System, User, IsAssistant, IsTool

LEMMA EndBatchStays == ASSUME ResultsInv, EndBatch PROVE ResultsInv' /\ NoResultLost
<1>1. TranscriptInv' /\ turn.at = "batch" /\ turn.at \in BatchPlaces
  BY EndBatchKeeps DEF ResultsInv, EndBatch, At, BatchPlaces
<1>2. turn \in Turns
  BY <1>1, InBatch
<1>3. turn'.at \in {"ending", "top"} /\ Own' = buffer'
  BY <1>2, EndAt, GoToAt DEF EndBatch, Places
<1>4. used'.replies = used.replies /\ copy' = copy /\ meddled' = meddled
  BY DEF EndBatch, ThisTurn
<1>5. MessagesKept /\ buffer' = conv'
  <2>1. CASE buffer' = conv /\ UNCHANGED <<conv, journal>>
    <3>1. ToSet(Own') \subseteq Everywhere
      BY <1>3, <2>1 DEF Everywhere
    <3>2. QED BY <1>4, <2>1, <3>1, QuietKeeps
  <2>2. CASE Record(Note) /\ buffer' = Append(conv, Note)
    <3>1. conv \in Seq(Messages) /\ Note \in Messages
      BY StateIs, MakesMessages DEF ResultsInv
    <3>2. ToSet(Own') \subseteq Everywhere \cup {Note}
      <4>1. ToSet(Append(conv, Note)) = ToSet(conv) \cup {Note}
        BY <3>1, SetOfMore
      <4>2. QED BY <1>3, <2>2, <4>1 DEF Everywhere
    <3>3. MessagesKept
      BY <1>4, <2>2, <3>1, <3>2, PlainMessages, RecordMore
    <3>4. QED BY <2>2, <3>3 DEF Record
  <2>3. QED BY <2>1, <2>2 DEF EndBatch
<1>6. QED BY <1>1, <1>3, <1>5, LacksNothing, NoMirror, LoopMirror DEF MessagesKept, LoopPlaces

(* What is added to the conversation here is no reply and no result. *)
LEMMA CompletedPlain == ASSUME NEW u, Completed(u) PROVE \A m \in ToSet(u) : Plain(m)
<1>1. ASSUME NEW m \in ToSet(u) PROVE Plain(m)
  <2>1. PICK i \in 1 .. Len(u) : m = u[i]
    BY SetOf DEF Completed
  <2>2. u[i] \in {Note, User(0)}
    BY DEF Completed
  <2>3. QED BY <2>1, <2>2, PlainMessages
<1>2. QED BY <1>1

LEMMA CompleteStays == ASSUME ResultsInv, Complete PROVE ResultsInv' /\ NoResultLost
<1>1. TranscriptInv /\ TranscriptInv' /\ turn.at = "complete" /\ ~At("request")
  BY CompleteKeeps DEF ResultsInv, Complete, At
<1>2. PICK u : Completed(u)
  BY <1>1, CompleteIs
<1>3. \A m \in ToSet(u) : Plain(m)
  BY <1>2, CompletedPlain
<1>4. /\ u \in Seq(Messages) /\ conv' = conv \o u /\ journal' = journal \o u /\ buffer' = buffer \o u
      /\ copy' = copy /\ meddled' = meddled /\ used'.replies = used.replies
  BY <1>2 DEF Completed, Complete, ThisTurn
<1>5. turn'.at \in {"ending", "top"}
  BY <1>2, EndAt DEF Completed
<1>6. Own' = buffer' /\ Own = buffer /\ buffer \in Seq(Messages)
  BY <1>1, <1>5, OwnBuffer, NowOwn, BufferIs
<1>7. MessagesKept
  <2>1. ToSet(Own') \subseteq Everywhere \cup ToSet(u)
    <3>1. ToSet(buffer \o u) = ToSet(buffer) \cup ToSet(u)
      BY <1>4, <1>6, SetOfBoth
    <3>2. QED BY <1>4, <1>6, <3>1 DEF Everywhere
  <2>2. QED BY <1>3, <1>4, <2>1, GrowthKeeps
<1>8. ASSUME ~meddled' PROVE Lacks(Own', conv')
  <2>1. Lacks(Own, conv) /\ conv \in Seq(Messages)
    BY <1>1, <1>4, <1>8, StateIs DEF ResultsInv, Mirror, LoopPlaces
  <2>2. ToSet(conv \o u) = ToSet(conv) \cup ToSet(u) /\ ToSet(buffer \o u) = ToSet(buffer) \cup ToSet(u)
    BY <1>4, <1>6, <2>1, SetOfBoth
  <2>3. QED BY <1>4, <1>6, <2>1, <2>2 DEF Lacks
<1>9. QED BY <1>1, <1>5, <1>7, <1>8, NoMirror, LoopMirror DEF MessagesKept, LoopPlaces

(* Results stay: the other steps. *)

LEMMA PromptPlain ==
  ASSUME TranscriptInv
  PROVE  LET new == (IF conv = <<>> THEN <<System>> ELSE <<>>) \o <<User(used.prompts + 1)>>
         IN new \in Seq(Messages) /\ \A m \in ToSet(new) : Plain(m)
<1> DEFINE new == (IF conv = <<>> THEN <<System>> ELSE <<>>) \o <<User(used.prompts + 1)>>
           N == {System, User(used.prompts + 1)}
<1>1. new \in Seq(N) /\ N \subseteq Messages
  <2>1. System \in Messages /\ User(used.prompts + 1) \in Messages
    BY UsedIs, MakesMessages
  <2>2. System \in N /\ User(used.prompts + 1) \in N
    OBVIOUS
  <2> HIDE DEF N
  <2>3. <<>> \in Seq(N) /\ <<System>> \in Seq(N) /\ <<User(used.prompts + 1)>> \in Seq(N)
    BY <2>2
  <2>4. new \in Seq(N)
    BY <2>3
  <2>5. QED BY <2>1, <2>4 DEF N
<1> HIDE DEF new
<1>2. new \in Seq(Messages)
  BY <1>1
<1>3. \A m \in ToSet(new) : m \in N
  BY <1>1, SetOf
<1>4. QED BY <1>2, <1>3, PlainMessages DEF new

LEMMA BeginTurnStays == ASSUME ResultsInv, BeginTurn PROVE ResultsInv' /\ NoResultLost
<1> DEFINE new == (IF conv = <<>> THEN <<System>> ELSE <<>>) \o <<User(used.prompts + 1)>>
<1>1. /\ TranscriptInv' /\ conv' = conv \o new /\ journal' = journal \o new /\ buffer' = <<>>
      /\ turn' = Beginning /\ copy' = copy /\ meddled' = meddled /\ used'.replies = used.replies
  BY BeginTurnKeeps, UseReplies DEF BeginTurn, ResultsInv
<1>2. new \in Seq(Messages) /\ \A m \in ToSet(new) : Plain(m)
  BY PromptPlain DEF ResultsInv
<1> HIDE DEF new
<1>3. turn'.at = "clone"
  BY <1>1 DEF Beginning
<1>4. Own' = <<>> /\ ToSet(<<>>) = {}
  BY <1>1, <1>3, OwnBuffer DEF ToSet
<1>5. MessagesKept
  BY <1>1, <1>2, <1>4, GrowthKeeps
<1>6. QED BY <1>1, <1>3, <1>5, NoMirror DEF MessagesKept

LEMMA WaitingPlain ==
  ASSUME TranscriptInv
  PROVE  LET waiting == [i \in 1 .. bang |-> Bash]
         IN waiting \in Seq(Messages) /\ \A m \in ToSet(waiting) : Plain(m)
<1> DEFINE waiting == [i \in 1 .. bang |-> Bash]
<1>1. bang \in Nat /\ Bash \in Messages
  BY StateIs, MakesMessages
<1>2. waiting \in [1 .. bang -> Messages]
  BY <1>1
<1>3. \A m \in ToSet(waiting) : m = Bash
  BY DEF ToSet
<1> HIDE DEF waiting
<1>4. waiting \in Seq(Messages)
  BY <1>1, <1>2
<1>5. QED BY <1>3, <1>4, PlainMessages DEF waiting

LEMMA FlushBangStays == ASSUME ResultsInv, FlushBang PROVE ResultsInv' /\ NoResultLost
<1> DEFINE waiting == [i \in 1 .. bang |-> Bash]
<1>1. /\ TranscriptInv' /\ conv' = conv \o waiting /\ journal' = journal \o waiting /\ buffer' = <<>>
      /\ turn' = NoTurn /\ copy' = copy /\ meddled' = meddled /\ used'.replies = used.replies
  BY FlushBangKeeps DEF FlushBang, ResultsInv
<1>2. waiting \in Seq(Messages) /\ \A m \in ToSet(waiting) : Plain(m)
  BY WaitingPlain DEF ResultsInv
<1> HIDE DEF waiting
<1>3. turn'.at = "idle"
  BY <1>1 DEF NoTurn
<1>4. Own' = <<>> /\ ToSet(<<>>) = {}
  BY <1>1, <1>3, OwnBuffer DEF ToSet
<1>5. MessagesKept
  BY <1>1, <1>2, <1>4, GrowthKeeps
<1>6. QED BY <1>1, <1>3, <1>5, NoMirror DEF MessagesKept

(* The dispatcher leaves the turn and the three copies alone. *)
LEMMA NextToTurn ==
  ASSUME ResultsInv, TranscriptInv', UNCHANGED <<conv, buffer, journal, turn, meddled>>,
         used'.replies = used.replies, copy' \in {copy, conv}
  PROVE  ResultsInv' /\ NoResultLost
<1>1. Own' = Own
  BY TurnStays DEF ResultsInv
<1>2. Copied' = Copied \/ Copied' = ToSet(conv) \/ Copied' = {}
  BY DEF Copied
<1>3. \A m \in Everywhere' : m \in Everywhere
  BY <1>1, <1>2 DEF Everywhere
<1>4. ASSUME ~meddled PROVE Mirror' /\ Sound(ToSet(conv'), ToSet(journal'), Copied')
  <2> DEFINE C == ToSet(conv)  J == ToSet(journal)
  <2>1. Mirror /\ Sound(C, J, Copied)
    BY <1>4 DEF ResultsInv
  <2>2. Mirror'
    BY <1>1, <1>2, <2>1 DEF Mirror
  <2>3. Sound(C, J, C) /\ Sound(C, J, {})
    BY <2>1, SoundCopies DEF Sound
  <2>4. ToSet(conv') = C /\ ToSet(journal') = J
    OBVIOUS
  <2> HIDE DEF C, J
  <2>5. Copied' = Copied \/ Copied' = C \/ Copied' = {}
    BY <1>2 DEF C
  <2>6. QED BY <2>1, <2>2, <2>3, <2>4, <2>5
<1>5. BatchShape'
  BY DEF BatchShape, ResultsInv, Calls
<1>6. QED BY <1>3, <1>4, <1>5 DEF ResultsInv, NoResultLost

LEMMA AbortStays == ASSUME ResultsInv, Abort PROVE ResultsInv' /\ NoResultLost
<1>1. TranscriptInv' /\ used'.replies = used.replies
  BY AbortKeeps, UseReplies DEF Abort, ResultsInv
<1>2. QED BY <1>1, NextToTurn DEF Abort

LEMMA BeginCompactStays == ASSUME ResultsInv, BeginCompact PROVE ResultsInv' /\ NoResultLost
<1>1. TranscriptInv' /\ used'.replies = used.replies
  BY BeginCompactKeeps, UseReplies DEF BeginCompact, ResultsInv
<1>2. QED BY <1>1, NextToTurn DEF BeginCompact

LEMMA SteerStays == ASSUME ResultsInv, Steer PROVE ResultsInv' /\ NoResultLost
<1>1. TranscriptInv' /\ used'.replies = used.replies
  BY SteerKeeps DEF Steer, ResultsInv
<1>2. QED BY <1>1, NextToTurn DEF Steer

LEMMA FreeCurrentStays == ASSUME ResultsInv, FreeCurrent PROVE ResultsInv' /\ NoResultLost
<1>1. TranscriptInv' /\ used'.replies = used.replies
  BY FreeCurrentKeeps DEF FreeCurrent, ResultsInv
<1>2. QED BY <1>1, NextToTurn DEF FreeCurrent

LEMMA UserBashStays == ASSUME ResultsInv, UserBash PROVE ResultsInv' /\ NoResultLost
<1>1. TranscriptInv' /\ used'.replies = used.replies
  BY UserBashKeeps, UseReplies DEF UserBash, ResultsInv
<1>2. QED BY <1>1, NextToTurn DEF UserBash

LEMMA BashPushStays == ASSUME ResultsInv, BashPush PROVE ResultsInv' /\ NoResultLost
<1>1. /\ TranscriptInv' /\ used'.replies = used.replies /\ TranscriptInv
      /\ UNCHANGED <<buffer, turn, meddled, copy>>
  BY BashPushKeeps DEF BashPush, ResultsInv
<1>2. CASE Record(Bash)
  <2>1. Own' = Own /\ Copied' = Copied /\ Calls' = Calls
    BY <1>1, TurnStays DEF Copied, Calls
  <2>2. ToSet(conv') = ToSet(conv) \cup {Bash}
    BY <1>1, <1>2, StateIs, MakesMessages, SetOfMore DEF Record
  <2>3. MessagesKept
    <3>1. ToSet(Own') \subseteq Everywhere \cup {Bash}
      BY <2>1 DEF Everywhere
    <3>2. QED BY <1>1, <1>2, <3>1, MakesMessages, PlainMessages, RecordMore
  <2>4. BatchShape'
    BY <1>1, <2>1 DEF ResultsInv, BatchShape
  <2>5. ASSUME ~meddled' PROVE Mirror'
    <3>1. Mirror /\ Plain(Bash) /\ ~IsLost(Bash)
      BY <1>1, <2>5, PlainMessages, KindsDiffer DEF ResultsInv, Plain
    <3>2. QED BY <1>1, <2>1, <2>2, <3>1 DEF Mirror, Lacks
  <2>6. QED BY <1>1, <2>3, <2>4, <2>5 DEF ResultsInv, MessagesKept
<1>3. CASE UNCHANGED <<conv, journal>>
  BY <1>1, <1>3, NextToTurn
<1>4. QED BY <1>2, <1>3 DEF BashPush

(* The conversation is rewritten without a turn, or the turn is meddled with. *)
LEMMA RewriteStays ==
  ASSUME ResultsInv, TranscriptInv', NEW s, conv' = s, journal' = s, UNCHANGED <<buffer, turn>>,
         used'.replies = used.replies, Copied' \in {Copied, {}}, ToSet(s) \subseteq Everywhere \cup {Note},
         ~meddled' => ~meddled /\ Resting /\ ToSet(s) \subseteq ToSet(conv) \cup {Note}, NoResultLost
  PROVE  ResultsInv' /\ NoResultLost
<1>1. Own' = Own
  BY TurnStays DEF ResultsInv
<1>2. MessagesKept
  <2> DEFINE D == ToSet(s)
  <2>1. /\ ToSet(conv') = D /\ ToSet(journal') = D /\ D \subseteq Everywhere \cup {Note}
        /\ ~meddled' => ~meddled /\ D \subseteq ToSet(conv) \cup {Note}
    OBVIOUS
  <2>2. ToSet(Own') \subseteq Everywhere \cup {Note}
    BY <1>1 DEF Everywhere
  <2> HIDE DEF D
  <2>3. QED BY <2>1, <2>2, CutKeeps
<1>3. BatchShape'
  BY DEF BatchShape, ResultsInv, Calls
<1>4. ~meddled' => Mirror'
  BY DEF Mirror, Resting, At, LoopPlaces, BatchPlaces
<1>5. QED BY <1>2, <1>3, <1>4 DEF ResultsInv, MessagesKept

LEMMA UndoStays == ASSUME ResultsInv, Undo PROVE ResultsInv' /\ NoResultLost
<1>1. TranscriptInv' /\ used'.replies = used.replies /\ conv \in Seq(Messages)
  BY UndoKeeps, UseReplies, StateIs DEF Undo, ResultsInv
<1>2. ToSet(Undone(conv)) \subseteq ToSet(conv)
  BY <1>1, SetOfUndone
<1>3. Copied' = Copied /\ conv' = Undone(conv)
  BY DEF Copied, Undo
<1>4. NoResultLost
  BY <1>2, <1>3 DEF NoResultLost
<1>5. ToSet(Undone(conv)) \subseteq Everywhere \cup {Note} /\ ToSet(Undone(conv)) \subseteq ToSet(conv) \cup {Note}
  BY <1>2 DEF Everywhere
<1>6. QED BY <1>1, <1>3, <1>4, <1>5, RewriteStays DEF Undo

LEMMA EndCompactStays == ASSUME ResultsInv, EndCompact PROVE ResultsInv' /\ NoResultLost
<1>1. TranscriptInv' /\ used'.replies = used.replies /\ copy \in Seq(Messages)
  BY EndCompactKeeps, StateIs DEF EndCompact, ResultsInv
<1>2. ToSet(Compacted(copy)) \subseteq ToSet(copy) \cup {Note}
  BY <1>1, SetOfCompacted
<1>3. Copied' = {} /\ conv' = Compacted(copy) /\ Copied = ToSet(copy)
  BY DEF Copied, EndCompact
<1>4. NoResultLost
  <2>1. SUFFICES ASSUME NEW m \in ToSet(conv'), IsLost(m), m \notin ToSet(conv), ~meddled,
                        <<m.n, m.k>> \in ResultsIn(journal)
                 PROVE  FALSE
    BY DEF NoResultLost
  <2>2. m \in Copied /\ Sound(ToSet(conv), ToSet(journal), Copied)
    BY <1>2, <1>3, <2>1 DEF ResultsInv, Note, IsLost, IsTool
  <2>3. PICK t \in ToSet(journal) : IsTool(t) /\ t.n = m.n /\ t.k = m.k
    BY <2>1 DEF ResultsIn
  <2>4. QED BY <2>1, <2>2, <2>3 DEF Sound, Alike
<1>5. ToSet(Compacted(copy)) \subseteq Everywhere \cup {Note}
  BY <1>2, <1>3 DEF Everywhere
<1>6. ~meddled' => ~meddled /\ Resting /\ ToSet(Compacted(copy)) \subseteq ToSet(conv) \cup {Note}
  BY <1>2 DEF EndCompact
<1>7. QED BY <1>1, <1>3, <1>4, <1>5, <1>6, RewriteStays DEF EndCompact

LEMMA ClearStays == ASSUME ResultsInv, ClearConversation PROVE ResultsInv' /\ NoResultLost
<1>1. TranscriptInv' /\ used'.replies = used.replies
  BY ClearKeeps, UseReplies DEF ClearConversation, ResultsInv
<1>2. /\ turn'.at = "idle" /\ conv' = <<>> /\ buffer' = <<>> /\ journal' \in {journal, <<>>}
      /\ Copied' = {}
  BY DEF ClearConversation, NoTurn, Command, Waiting, Copied
<1>3. Own' = <<>> /\ ToSet(<<>>) = {}
  BY <1>2, OwnBuffer DEF ToSet
<1>4. NoResultLost
  BY <1>2, <1>3 DEF NoResultLost
<1>5. \A m \in Everywhere' : m \in Everywhere
  BY <1>2, <1>3 DEF Everywhere
<1>6. Sound(ToSet(conv'), ToSet(journal'), Copied')
  <2>1. ToSet(conv') = {}
    BY <1>2, <1>3
  <2>2. QED BY <1>2, <2>1 DEF Sound
<1>7. MessagesKept
  BY <1>1, <1>4, <1>5, <1>6 DEF MessagesKept, ResultsInv
<1>8. QED BY <1>1, <1>2, <1>4, <1>7, NoMirror

-----------------------------------------------------------------------------

LEMMA ResultsInitInv == ASSUME TranscriptInit PROVE ResultsInv
<1>1. TranscriptInv
  BY TranscriptInitInv
<1>2. turn.at = "idle" /\ Own = <<>> /\ Copied = {}
  BY DEF TranscriptInit, NoTurn, Own, At, Copied
<1>3. conv = <<>> /\ journal = <<>> /\ ToSet(<<>>) = {}
  BY DEF TranscriptInit, ToSet
<1>4. Everywhere = {} /\ BatchShape /\ Mirror
  BY <1>2, <1>3 DEF Everywhere, BatchShape, Mirror, LoopPlaces, BatchPlaces
<1>5. Sound(ToSet(conv), ToSet(journal), Copied)
  <2>1. ToSet(conv) = {} /\ Copied = {}
    BY <1>2, <1>3
  <2>2. QED BY <2>1 DEF Sound
<1>6. QED BY <1>1, <1>4, <1>5 DEF ResultsInv

LEMMA ResultsStep ==
  ASSUME ResultsInv, [TranscriptNext]_transcriptVars
  PROVE  ResultsInv' /\ NoResultLost
<1>1. CASE TurnStep
  BY <1>1, CloneStays, SendRequestStays, RequestFailsStays, ContextTooLongStays, RespondStays,
     StopTurnStays, GateWaveStays, RunWaveStays, RecordWaveStays, DenyCallStays, ExecuteCallStays,
     RecordCallStays, RefuseFinishStays, AcceptFinishStays, EndBatchStays, CompleteStays,
     FreeCurrentStays, FlushBangStays, ShrinkStays DEF TurnStep
<1>2. CASE \/ BeginTurn \/ Abort \/ Steer \/ UserBash \/ BashPush
           \/ Undo \/ BeginCompact \/ EndCompact \/ ClearConversation
  BY <1>2, BeginTurnStays, AbortStays, SteerStays, UserBashStays, BashPushStays, UndoStays,
     BeginCompactStays, EndCompactStays, ClearStays
<1>3. CASE UNCHANGED transcriptVars
  <2>1. TranscriptInv'
    BY <1>3, TranscriptStep DEF ResultsInv
  <2>2. QED BY <1>3, <2>1, NextToTurn DEF transcriptVars
<1>4. QED BY <1>1, <1>2, <1>3 DEF TranscriptNext

(* A result that was recorded is never replaced by the note that it was lost: no    *)
(* compaction, abort, denial or repair of the turn does it, for any commands,      *)
(* batches and bounds, but for a batch that held a finish.                         *)
THEOREM RecordedResultsStay == TranscriptSpec => ResultsStay
<1>1. TranscriptInit => ResultsInv
  BY ResultsInitInv
<1>2. ResultsInv /\ [TranscriptNext]_transcriptVars => ResultsInv'
  BY ResultsStep
<1>3. ResultsInv /\ [TranscriptNext]_transcriptVars
        => [\A m \in ToSet(conv') :
              (IsLost(m) /\ m \notin ToSet(conv) /\ ~meddled /\ ~WithFinish(m.n))
                 => <<m.n, m.k>> \notin ResultsIn(journal)]_transcriptVars
  BY ResultsStep DEF NoResultLost
<1>4. QED BY <1>1, <1>2, <1>3, PTL DEF TranscriptSpec, ResultsStay

-----------------------------------------------------------------------------
(* Results behind their reply: where the messages of a sequence are.                *)

(* A reply is there once, and so is a result of it, which answers a call of it; but *)
(* for a reply at the head, from which a compaction cuts its results, nothing comes *)
(* between a reply and its results.                                                *)
OneReply(s) ==
    \A i, j \in DOMAIN s : IsAssistant(s[i]) /\ IsAssistant(s[j]) /\ s[i].n = s[j].n => i = j
OneResult(s) ==
    \A i, j, l \in DOMAIN s :
       (IsAssistant(s[i]) /\ OfReply(s[j], s[i].n) /\ OfReply(s[l], s[i].n) /\ s[j].k = s[l].k) => j = l
Behind(s, i, j) == i < j /\ \A l \in DOMAIN s : i < l /\ l < j => OfReply(s[l], s[i].n)
ResultsBehind(s) ==
    \A i, j \in DOMAIN s :
       IsAssistant(s[i]) /\ OfReply(s[j], s[i].n)
         => s[j].k \in DOMAIN s[i].calls /\ (i = 1 \/ Behind(s, i, j))
Placed(s) == OneReply(s) /\ OneResult(s) /\ ResultsBehind(s)

(* The calls of the batch that are answered. *)
Answered == IF turn.at \in {"wave", "record"} THEN 1 .. Wave \ ToSet(turn.ready) ELSE 1 .. turn.next - 1

(* In a batch its reply ends a sequence that has it, but for results of answered    *)
(* calls.                                                                          *)
OpenTo(s, p, A) ==
    \A i \in DOMAIN s : IsAssistant(s[i]) /\ s[i].n = p.n =>
       /\ s[i] = p
       /\ i = 1 \/ \A l \in DOMAIN s : i < l => OfReply(s[l], p.n)
       /\ \A j \in DOMAIN s : OfReply(s[j], p.n) => s[j].k \in A
Open(s) == OpenTo(s, turn.reply, Answered)

WaveShape ==
    /\ turn.at \in {"wave", "record"} => IsInjective(turn.ready) /\ ToSet(turn.ready) \subseteq 1 .. Wave
    /\ Answered \subseteq DOMAIN Calls

PlacedInv ==
    /\ Placed(conv) /\ Placed(Own) /\ Placed(copy)
    /\ turn.at \in BatchPlaces => Open(conv) /\ Open(buffer) /\ Open(copy) /\ WaveShape

SentIsPaired == At("request") /\ buffer # <<>> /\ ~IsAssistant(buffer[1]) => Paired

RequestInv == PlacedInv /\ SentIsPaired

(* Once the message of a bang command was recorded in an open batch, nothing is     *)
(* said any more.                                                                  *)
OrderInv == strewn \/ RequestInv

Missing(s, a) == {k \in DOMAIN a.calls : <<a.n, k>> \notin ResultsIn(s)}

LEMMA LostResults ==
  ASSUME NEW a \in Messages, IsAssistant(a), NEW s
  PROVE  /\ Lost(s, a) \in Seq(Messages) /\ ResultsFor(Lost(s, a), a.n, Missing(s, a))
         /\ \A k \in Missing(s, a) : \E y \in DOMAIN Lost(s, a) : Lost(s, a)[y].k = k
<1> DEFINE M == Missing(s, a)  o == Only(Count(Len(a.calls)), M)
           lost(k) == Tool(a.n, k, a.calls[k] # "finish")
<1>1. a.n \in Nat /\ a.calls \in Seq(Names) /\ Len(a.calls) \in Nat /\ DOMAIN a.calls = 1 .. Len(a.calls)
  BY MessageIs DEF IsAssistant
<1>2. M \cap (1 .. Len(a.calls)) = M
  BY <1>1 DEF Missing
<1>3. Lost(s, a) = [i \in DOMAIN o |-> lost(o[i])]
  BY DEF Lost, Missing
<1>4. Lists(o, M)
  <2>1. Lists(o, M \cap (1 .. Len(a.calls)))
    BY <1>1, OnlyCount
  <2> HIDE DEF o, M
  <2>2. QED BY <1>2, <2>1
<1> HIDE DEF o, M
<1>5. \A k : OfReply(lost(k), a.n) /\ lost(k).k = k
  BY DEF OfReply, IsTool, Tool
<1> HIDE DEF lost
<1>6. /\ \A i \in DOMAIN o : o[i] \in M
      /\ \A i, j \in DOMAIN o : o[i] = o[j] => i = j
      /\ \A k \in M : \E i \in DOMAIN o : o[i] = k
  BY <1>4 DEF Lists, IsInjective, ToSet
<1>7. ResultsFor(Lost(s, a), a.n, M)
  BY <1>3, <1>5, <1>6 DEF ResultsFor
<1>8. \A k \in M : \E y \in DOMAIN Lost(s, a) : Lost(s, a)[y].k = k
  BY <1>3, <1>5, <1>6
<1>9. QED BY <1>7, <1>8, LostType DEF M

(* The members of two sequences joined. *)
Joined(w, s, u) ==
    /\ DOMAIN w = 1 .. Len(s) + Len(u) /\ Len(s) \in Nat /\ Len(u) \in Nat
    /\ DOMAIN s = 1 .. Len(s) /\ DOMAIN u = 1 .. Len(u)
    /\ \A y \in 1 .. Len(s) : w[y] = s[y]
    /\ \A y \in 1 .. Len(u) : w[Len(s) + y] = u[y]

LEMMA JoinAt == ASSUME NEW S, NEW s \in Seq(S), NEW u \in Seq(S) PROVE Joined(s \o u, s, u)
BY DEF Joined

LEMMA PlainIs == \A m : Plain(m) => ~IsAssistant(m) /\ \A n : ~OfReply(m, n)
BY DEF Plain, OfReply

LEMMA ReplyNoResult == \A m : IsAssistant(m) => \A n : ~OfReply(m, n)
BY KindsDiffer DEF OfReply

(* t is drawn from s: pos[y] is where its member y was, if that is no plain message. *)
Drawn(pos, s, t) ==
    /\ \A y \in DOMAIN t : ~Plain(t[y]) => pos[y] \in DOMAIN s /\ t[y] = s[pos[y]] /\ (pos[y] = 1 => y = 1)
    /\ \A y, z \in DOMAIN t : y < z /\ ~Plain(t[y]) /\ ~Plain(t[z]) => pos[y] < pos[z]
    /\ \A y, z \in DOMAIN t : y # 1 /\ y < z /\ ~Plain(t[y]) =>
         pos[z] \in DOMAIN s /\ t[z] = s[pos[z]] /\ pos[y] < pos[z]
    /\ \A y, l, z \in DOMAIN t : y # 1 /\ y < l /\ l < z /\ ~Plain(t[y]) => pos[l] < pos[z]

LEMMA DrawnPlaced ==
  ASSUME NEW s \in Seq(Messages), NEW t \in Seq(Messages), NEW pos, Drawn(pos, s, t), Placed(s)
  PROVE  Placed(t)
<1>1. DOMAIN s \subseteq Nat /\ DOMAIN t \subseteq Nat
  OBVIOUS
<1>2. ASSUME NEW y \in DOMAIN t, IsAssistant(t[y]) \/ \E n : OfReply(t[y], n)
      PROVE  pos[y] \in DOMAIN s /\ t[y] = s[pos[y]] /\ ~Plain(t[y]) /\ (pos[y] = 1 => y = 1)
  BY <1>2, PlainIs DEF Drawn
<1>3. ASSUME NEW y \in DOMAIN t, NEW z \in DOMAIN t, ~Plain(t[y]), ~Plain(t[z]), pos[y] = pos[z]
      PROVE  y = z
  <2>1. pos[y] \in Nat /\ pos[z] \in Nat
    BY <1>1, <1>3 DEF Drawn
  <2>2. ~(y < z) /\ ~(z < y)
    BY <1>3, <2>1 DEF Drawn
  <2>3. QED BY <1>1, <2>2
<1>4. OneReply(t)
  BY <1>2, <1>3 DEF OneReply, Placed
<1>5. OneResult(t)
  <2>1. ASSUME NEW i \in DOMAIN t, NEW j \in DOMAIN t, NEW l \in DOMAIN t,
               IsAssistant(t[i]), OfReply(t[j], t[i].n), OfReply(t[l], t[i].n), t[j].k = t[l].k
        PROVE  j = l
    <3>1. /\ pos[i] \in DOMAIN s /\ pos[j] \in DOMAIN s /\ pos[l] \in DOMAIN s
          /\ t[i] = s[pos[i]] /\ t[j] = s[pos[j]] /\ t[l] = s[pos[l]] /\ ~Plain(t[j]) /\ ~Plain(t[l])
      BY <1>2, <2>1
    <3>2. pos[j] = pos[l]
      BY <2>1, <3>1 DEF Placed, OneResult
    <3>3. QED BY <1>3, <3>1, <3>2
  <2>2. QED BY <2>1 DEF OneResult
<1>6. ResultsBehind(t)
  <2>1. ASSUME NEW i \in DOMAIN t, NEW j \in DOMAIN t, IsAssistant(t[i]), OfReply(t[j], t[i].n)
        PROVE  t[j].k \in DOMAIN t[i].calls /\ (i = 1 \/ Behind(t, i, j))
    <3>1. /\ pos[i] \in DOMAIN s /\ pos[j] \in DOMAIN s /\ t[i] = s[pos[i]] /\ t[j] = s[pos[j]]
          /\ ~Plain(t[i]) /\ ~Plain(t[j]) /\ (pos[i] = 1 => i = 1)
      BY <1>2, <2>1
    <3>2. t[j].k \in DOMAIN t[i].calls /\ (pos[i] = 1 \/ Behind(s, pos[i], pos[j]))
      BY <2>1, <3>1 DEF Placed, ResultsBehind
    <3>3. SUFFICES ASSUME i # 1 PROVE Behind(t, i, j)
      BY <3>2
    <3>4. Behind(s, pos[i], pos[j])
      BY <3>1, <3>2, <3>3
    <3>5. i < j
      <4>1. i # j
        BY <2>1, ReplyNoResult
      <4>2. pos[i] \in Nat /\ pos[j] \in Nat /\ pos[i] < pos[j]
        BY <1>1, <3>1, <3>4 DEF Behind
      <4>3. j < i => pos[j] < pos[i]
        BY <3>1 DEF Drawn
      <4>4. QED BY <1>1, <4>1, <4>2, <4>3
    <3>6. ASSUME NEW l \in DOMAIN t, i < l, l < j PROVE OfReply(t[l], t[i].n)
      <4>1. pos[l] \in DOMAIN s /\ t[l] = s[pos[l]] /\ pos[i] < pos[l] /\ pos[l] < pos[j]
        BY <3>1, <3>3, <3>6 DEF Drawn
      <4>2. QED BY <3>1, <3>4, <4>1 DEF Behind
    <3>7. QED BY <3>5, <3>6 DEF Behind
  <2>2. QED BY <2>1 DEF ResultsBehind
<1>7. QED BY <1>4, <1>5, <1>6 DEF Placed

LEMMA DrawnOpen ==
  ASSUME NEW s \in Seq(Messages), NEW t \in Seq(Messages), NEW pos, Drawn(pos, s, t),
         NEW p, NEW A, OpenTo(s, p, A)
  PROVE  OpenTo(t, p, A)
<1>1. ASSUME NEW i \in DOMAIN t, IsAssistant(t[i]), t[i].n = p.n
      PROVE  /\ t[i] = p
             /\ i = 1 \/ \A l \in DOMAIN t : i < l => OfReply(t[l], p.n)
             /\ \A j \in DOMAIN t : OfReply(t[j], p.n) => t[j].k \in A
  <2>1. pos[i] \in DOMAIN s /\ t[i] = s[pos[i]] /\ ~Plain(t[i]) /\ (pos[i] = 1 => i = 1)
    BY <1>1, PlainIs DEF Drawn
  <2>2. /\ s[pos[i]] = p
        /\ pos[i] = 1 \/ \A l \in DOMAIN s : pos[i] < l => OfReply(s[l], p.n)
        /\ \A j \in DOMAIN s : OfReply(s[j], p.n) => s[j].k \in A
    BY <1>1, <2>1 DEF OpenTo
  <2>3. ASSUME NEW l \in DOMAIN t, i < l, i # 1 PROVE OfReply(t[l], p.n)
    <3>1. pos[l] \in DOMAIN s /\ t[l] = s[pos[l]] /\ pos[i] < pos[l]
      BY <2>1, <2>3 DEF Drawn
    <3>2. QED BY <2>1, <2>2, <2>3, <3>1
  <2>4. ASSUME NEW j \in DOMAIN t, OfReply(t[j], p.n) PROVE t[j].k \in A
    <3>1. pos[j] \in DOMAIN s /\ t[j] = s[pos[j]]
      BY <2>4, PlainIs DEF Drawn
    <3>2. QED BY <2>2, <2>4, <3>1
  <2>5. QED BY <2>1, <2>2, <2>3, <2>4
<1>2. QED BY <1>1 DEF OpenTo

(* A beginning. *)
LEMMA FrontDrawn ==
  ASSUME NEW s \in Seq(Messages), NEW n \in 0 .. Len(s)
  PROVE  \E pos : Drawn(pos, s, SubSeq(s, 1, n))
<1> DEFINE t == SubSeq(s, 1, n)  pos == [y \in 1 .. n |-> y]
<1>1. DOMAIN t = 1 .. n /\ DOMAIN s = 1 .. Len(s) /\ Len(s) \in Nat /\ n \in Nat /\ n \leq Len(s)
      /\ \A y \in 1 .. n : t[y] = s[y]
  OBVIOUS
<1>2. \A y \in 1 .. n : pos[y] = y /\ y \in 1 .. Len(s)
  BY <1>1
<1> HIDE DEF t, pos
<1>3. Drawn(pos, s, t)
  BY <1>1, <1>2 DEF Drawn
<1>4. QED BY <1>3 DEF t

LEMMA CompactedDrawn ==
  ASSUME NEW s \in Seq(Messages)
  PROVE  \E pos : Drawn(pos, s, Compacted(s))
<1>1. Len(s) \in Nat /\ DOMAIN s = 1 .. Len(s)
  OBVIOUS
<1>2. CASE Len(s) \leq 2
  <2>1. Compacted(s) = s
    BY <1>2 DEF Compacted
  <2>2. Len(s) \in 0 .. Len(s) /\ SubSeq(s, 1, Len(s)) = s
    BY <1>1
  <2>3. QED BY <2>1, <2>2, FrontDrawn
<1>3. CASE ~(Len(s) \leq 2)
  <2> DEFINE start == IF Len(s) <= MIN_TAIL THEN 2 ELSE Len(s) - MIN_TAIL + 1
             tail == SubSeq(s, start, Len(s))  head == <<s[1], Note>>  t == head \o tail
             pos == [y \in 1 .. Len(s) + 2 |-> IF y = 1 THEN 1 ELSE y + start - 3]
  <2>1. MIN_TAIL \in Nat
    BY TranscriptAssumption
  <2>2. start \in Nat /\ 2 \leq start /\ start \leq Len(s) + 1
    BY <1>1, <1>3, <2>1
  <2>3. Compacted(s) = t
    BY <1>3 DEF Compacted
  <2>4. s[1] \in Messages /\ Note \in Messages /\ 1 \in DOMAIN s
    BY <1>1, <1>3, MakesMessages
  <2>5. head \in Seq(Messages) /\ Len(head) = 2 /\ head[1] = s[1] /\ head[2] = Note
    BY <2>4
  <2> HIDE DEF start, head
  <2>6. /\ tail \in Seq(Messages) /\ Len(tail) = Len(s) - start + 1
        /\ \A i \in 1 .. Len(s) - start + 1 : tail[i] = s[start + i - 1]
    BY <1>1, <2>2
  <2> HIDE DEF tail
  <2> DEFINE N == Len(s) - start + 3
  <2>7. N \in Nat /\ N <= Len(s) + 1 /\ Len(s) - start + 1 = N - 2
    BY <1>1, <2>2
  <2>8. /\ DOMAIN t = 1 .. N /\ t[1] = s[1] /\ t[2] = Note
        /\ \A y \in 3 .. N : t[y] = tail[y - 2]
    <3>1. /\ DOMAIN t = 1 .. 2 + (N - 2) /\ \A y \in 1 .. 2 : t[y] = head[y]
          /\ \A y \in 1 .. N - 2 : t[2 + y] = tail[y]
      <4>1. /\ DOMAIN t = 1 .. Len(head) + Len(tail) /\ \A y \in 1 .. Len(head) : t[y] = head[y]
            /\ \A y \in 1 .. Len(tail) : t[Len(head) + y] = tail[y]
        <5>1. Joined(t, head, tail)
          BY <2>5, <2>6, JoinAt
        <5> HIDE DEF t
        <5>2. QED BY <5>1 DEF Joined
      <4>2. Len(head) = 2 /\ Len(tail) = N - 2
        BY <2>5, <2>6, <2>7
      <4> HIDE DEF t, N
      <4>3. QED BY <4>1, <4>2
    <3> HIDE DEF t, N
    <3>2. DOMAIN t = 1 .. N
      BY <2>7, <3>1
    <3>3. t[1] = s[1] /\ t[2] = Note
      BY <2>5, <3>1
    <3>4. ASSUME NEW y \in 3 .. N PROVE t[y] = tail[y - 2]
      <4>1. y - 2 \in 1 .. N - 2 /\ 2 + (y - 2) = y
        BY <2>7
      <4>2. QED BY <3>1, <4>1
    <3>5. QED BY <3>2, <3>3, <3>4
  <2>9. \A y \in 3 .. N : /\ y - 2 \in 1 .. Len(s) - start + 1 /\ start + (y - 2) - 1 = y + start - 3
                          /\ y + start - 3 \in 1 .. Len(s) /\ y + start - 3 # 1
    BY <1>1, <2>2
  <2>10. \A y \in 3 .. N : t[y] = s[y + start - 3] /\ y + start - 3 \in DOMAIN s /\ y + start - 3 # 1
    BY <1>1, <2>6, <2>8, <2>9
  <2>11. \A y \in 1 .. N : pos[y] = IF y = 1 THEN 1 ELSE y + start - 3
    BY <1>1, <2>7
  <2> HIDE DEF t, pos, N
  <2>12. \A y \in DOMAIN t : y = 1 \/ y = 2 \/ y \in 3 .. N
    BY <2>7, <2>8
  <2>13. Plain(t[2])
    BY <2>8, PlainMessages
  <2>14. ASSUME NEW y \in DOMAIN t, ~Plain(t[y])
         PROVE  pos[y] \in DOMAIN s /\ t[y] = s[pos[y]] /\ (pos[y] = 1 => y = 1)
    BY <2>4, <2>8, <2>10, <2>11, <2>12, <2>13, <2>14
  <2>15. \A y \in 3 .. N : pos[y] = y + start - 3 /\ y \in Nat
    BY <2>7, <2>11
  <2>16. ASSUME NEW y \in DOMAIN t, NEW z \in DOMAIN t, y < z, ~Plain(t[y]), ~Plain(t[z])
         PROVE  pos[y] < pos[z]
    <3>1. z \in 3 .. N
      BY <2>8, <2>12, <2>13, <2>16
    <3>2. CASE y = 1
      <4>1. pos[y] = 1 /\ pos[z] = z + start - 3 /\ z \in Nat /\ 3 <= z
        BY <2>8, <2>11, <2>15, <3>1, <3>2
      <4>2. QED BY <2>2, <4>1
    <3>3. CASE y \in 3 .. N
      <4>1. pos[y] = y + start - 3 /\ pos[z] = z + start - 3 /\ z \in Nat /\ y \in Nat
        BY <2>15, <3>1, <3>3
      <4>2. QED BY <2>2, <2>16, <4>1
    <3>4. QED BY <2>12, <2>13, <2>16, <3>2, <3>3
  <2>17. ASSUME NEW y \in DOMAIN t, NEW z \in DOMAIN t, y # 1, y < z, ~Plain(t[y])
         PROVE  y \in 3 .. N /\ z \in 3 .. N
    <3>1. y \in 3 .. N
      BY <2>12, <2>13, <2>17
    <3>2. QED BY <2>7, <2>8, <2>17, <3>1
  <2>18. ASSUME NEW y \in 3 .. N, NEW z \in 3 .. N, y < z
         PROVE  pos[y] < pos[z] /\ pos[z] \in DOMAIN s /\ t[z] = s[pos[z]]
    <3>1. pos[y] = y + start - 3 /\ pos[z] = z + start - 3 /\ z \in Nat /\ y \in Nat
      BY <2>15
    <3>2. QED BY <2>2, <2>10, <2>18, <3>1
  <2>19. ASSUME NEW y \in DOMAIN t, NEW l \in DOMAIN t, NEW z \in DOMAIN t,
                y # 1, y < l, l < z, ~Plain(t[y])
         PROVE  pos[l] < pos[z]
    <3>1. l \in 3 .. N /\ y < z
      <4>1. DOMAIN t \subseteq Nat
        BY <2>8
      <4>2. QED BY <2>17, <2>19, <4>1
    <3>2. z \in 3 .. N
      BY <2>17, <2>19, <3>1
    <3>3. QED BY <2>18, <2>19, <3>1, <3>2
  <2>20. Drawn(pos, s, t)
    BY <2>14, <2>16, <2>17, <2>18, <2>19 DEF Drawn
  <2>21. QED BY <2>3, <2>20
<1>4. QED BY <1>2, <1>3

(* What is added to a sequence: plain messages, results of the open reply, a reply. *)

LEMMA AfterJoin ==
  ASSUME NEW s \in Seq(Messages), NEW u \in Seq(Messages), NEW w, w = s \o u
  PROVE  /\ DOMAIN s \subseteq DOMAIN w /\ DOMAIN w \subseteq Nat
         /\ \A y \in DOMAIN s : w[y] = s[y]
         /\ \A y \in DOMAIN w : y \notin DOMAIN s => \E j \in DOMAIN u : w[y] = u[j] /\ y = Len(s) + j
         /\ \A y \in DOMAIN s, z \in DOMAIN w : z < y \/ z = y => z \in DOMAIN s
         /\ \A y \in DOMAIN s, z \in DOMAIN w : z \notin DOMAIN s => y < z
<1>1. Joined(w, s, u)
  BY JoinAt
<1>2. /\ DOMAIN w = 1 .. Len(s) + Len(u) /\ Len(s) \in Nat /\ Len(u) \in Nat
      /\ DOMAIN s = 1 .. Len(s) /\ DOMAIN u = 1 .. Len(u)
      /\ \A y \in 1 .. Len(s) : w[y] = s[y]
      /\ \A y \in 1 .. Len(u) : w[Len(s) + y] = u[y]
  BY <1>1 DEF Joined
<1>3. ASSUME NEW y \in DOMAIN w, y \notin DOMAIN s
      PROVE  \E j \in DOMAIN u : w[y] = u[j] /\ y = Len(s) + j
  <2>1. y - Len(s) \in 1 .. Len(u) /\ y = Len(s) + (y - Len(s))
    BY <1>2, <1>3
  <2>2. QED BY <1>2, <2>1
<1>4. ASSUME NEW y \in DOMAIN s, NEW z \in DOMAIN w
      PROVE  (z < y \/ z = y => z \in DOMAIN s) /\ (z \notin DOMAIN s => y < z)
  BY <1>2
<1>5. DOMAIN s \subseteq DOMAIN w /\ DOMAIN w \subseteq Nat
  BY <1>2
<1>6. \A y \in DOMAIN s : w[y] = s[y]
  BY <1>2
<1>7. QED BY <1>3, <1>4, <1>5, <1>6

LEMMA AddPlain ==
  ASSUME NEW s \in Seq(Messages), NEW u \in Seq(Messages), \A m \in ToSet(u) : Plain(m), Placed(s)
  PROVE  Placed(s \o u)
<1> DEFINE w == s \o u
<1>1. /\ DOMAIN s \subseteq DOMAIN w /\ \A y \in DOMAIN s : w[y] = s[y]
      /\ \A y \in DOMAIN w : y \notin DOMAIN s => \E j \in DOMAIN u : w[y] = u[j]
      /\ \A y \in DOMAIN s, z \in DOMAIN w : z < y => z \in DOMAIN s
  BY AfterJoin
<1> HIDE DEF w
<1>2. ASSUME NEW y \in DOMAIN w, IsAssistant(w[y]) \/ \E n : OfReply(w[y], n) PROVE y \in DOMAIN s
  BY <1>1, <1>2, PlainIs DEF ToSet
<1>3. OneReply(w)
  BY <1>1, <1>2 DEF Placed, OneReply
<1>4. OneResult(w)
  BY <1>1, <1>2 DEF Placed, OneResult
<1>5. ResultsBehind(w)
  <2>1. ASSUME NEW i \in DOMAIN w, NEW j \in DOMAIN w, IsAssistant(w[i]), OfReply(w[j], w[i].n)
        PROVE  w[j].k \in DOMAIN w[i].calls /\ (i = 1 \/ Behind(w, i, j))
    <3>1. i \in DOMAIN s /\ j \in DOMAIN s /\ w[i] = s[i] /\ w[j] = s[j]
      BY <1>1, <1>2, <2>1
    <3>2. s[j].k \in DOMAIN s[i].calls /\ (i = 1 \/ Behind(s, i, j))
      BY <2>1, <3>1 DEF Placed, ResultsBehind
    <3>3. Behind(s, i, j) => Behind(w, i, j)
      BY <1>1, <3>1 DEF Behind
    <3>4. QED BY <3>1, <3>2, <3>3
  <2>2. QED BY <2>1 DEF ResultsBehind
<1>6. QED BY <1>3, <1>4, <1>5 DEF Placed, w

LEMMA AddResults ==
  ASSUME NEW s \in Seq(Messages), NEW u \in Seq(Messages), NEW p, NEW A, NEW M,
         Placed(s), OpenTo(s, p, A), ResultsFor(u, p.n, M), M \subseteq DOMAIN p.calls, M \cap A = {}
  PROVE  Placed(s \o u) /\ OpenTo(s \o u, p, A \cup M)
<1> DEFINE w == s \o u
<1>1. /\ DOMAIN s \subseteq DOMAIN w /\ DOMAIN w \subseteq Nat
      /\ \A y \in DOMAIN s : w[y] = s[y]
      /\ \A y \in DOMAIN w : y \notin DOMAIN s => \E j \in DOMAIN u : w[y] = u[j] /\ y = Len(s) + j
      /\ \A y \in DOMAIN s, z \in DOMAIN w : z < y => z \in DOMAIN s
      /\ \A y \in DOMAIN s, z \in DOMAIN w : z \notin DOMAIN s => y < z
  BY AfterJoin
<1> HIDE DEF w
<1>2. ASSUME NEW y \in DOMAIN w, y \notin DOMAIN s
      PROVE  OfReply(w[y], p.n) /\ w[y].k \in M /\ ~IsAssistant(w[y]) /\ \A n : OfReply(w[y], n) => n = p.n
  BY <1>1, <1>2, ReplyNoResult DEF ResultsFor, OfReply
<1>3. ASSUME NEW y \in DOMAIN w, NEW z \in DOMAIN w, y \notin DOMAIN s, z \notin DOMAIN s, w[y].k = w[z].k
      PROVE  y = z
  BY <1>1, <1>3 DEF ResultsFor
<1>4. ASSUME NEW i \in DOMAIN w, IsAssistant(w[i]), w[i].n = p.n
      PROVE  /\ i \in DOMAIN s /\ w[i] = p
             /\ i = 1 \/ \A l \in DOMAIN w : i < l => OfReply(w[l], p.n)
             /\ \A j \in DOMAIN s : OfReply(s[j], p.n) => s[j].k \in A
  <2>1. i \in DOMAIN s /\ w[i] = s[i]
    BY <1>1, <1>2, <1>4
  <2>2. /\ s[i] = p /\ (i = 1 \/ \A l \in DOMAIN s : i < l => OfReply(s[l], p.n))
        /\ \A j \in DOMAIN s : OfReply(s[j], p.n) => s[j].k \in A
    BY <1>4, <2>1 DEF OpenTo
  <2>3. QED BY <1>1, <1>2, <2>1, <2>2
<1>5. OneReply(w)
  BY <1>1, <1>2 DEF Placed, OneReply
<1>6. OneResult(w)
  <2>1. ASSUME NEW i \in DOMAIN w, NEW j \in DOMAIN w, NEW l \in DOMAIN w,
               IsAssistant(w[i]), OfReply(w[j], w[i].n), OfReply(w[l], w[i].n), w[j].k = w[l].k
        PROVE  j = l
    <3>1. i \in DOMAIN s
      BY <1>2, <2>1
    <3>2. CASE j \in DOMAIN s /\ l \in DOMAIN s
      BY <1>1, <2>1, <3>1, <3>2 DEF Placed, OneResult
    <3>3. CASE j \notin DOMAIN s /\ l \notin DOMAIN s
      BY <1>3, <2>1, <3>3
    <3>4. CASE j \in DOMAIN s /\ l \notin DOMAIN s
      <4>1. w[i].n = p.n /\ w[l].k \in M
        BY <1>2, <2>1, <3>4
      <4>2. w[j] = s[j] /\ s[j].k \in A
        BY <1>1, <1>4, <2>1, <3>4, <4>1
      <4>3. QED BY <2>1, <4>1, <4>2
    <3>5. CASE j \notin DOMAIN s /\ l \in DOMAIN s
      <4>1. w[i].n = p.n /\ w[j].k \in M
        BY <1>2, <2>1, <3>5
      <4>2. w[l] = s[l] /\ s[l].k \in A
        BY <1>1, <1>4, <2>1, <3>5, <4>1
      <4>3. QED BY <2>1, <4>1, <4>2
    <3>6. QED BY <3>2, <3>3, <3>4, <3>5
  <2>2. QED BY <2>1 DEF OneResult
<1>7. ResultsBehind(w)
  <2>1. ASSUME NEW i \in DOMAIN w, NEW j \in DOMAIN w, IsAssistant(w[i]), OfReply(w[j], w[i].n)
        PROVE  w[j].k \in DOMAIN w[i].calls /\ (i = 1 \/ Behind(w, i, j))
    <3>1. i \in DOMAIN s /\ w[i] = s[i]
      BY <1>1, <1>2, <2>1
    <3>2. CASE j \in DOMAIN s
      <4>1. w[j] = s[j] /\ s[j].k \in DOMAIN s[i].calls /\ (i = 1 \/ Behind(s, i, j))
        BY <1>1, <2>1, <3>1, <3>2 DEF Placed, ResultsBehind
      <4>2. Behind(s, i, j) => Behind(w, i, j)
        BY <1>1, <3>1, <3>2 DEF Behind
      <4>3. QED BY <3>1, <4>1, <4>2
    <3>3. CASE j \notin DOMAIN s
      <4>1. w[i].n = p.n /\ w[j].k \in M
        BY <1>2, <2>1, <3>3
      <4>2. w[i] = p /\ (i = 1 \/ \A l \in DOMAIN w : i < l => OfReply(w[l], p.n))
        BY <1>4, <2>1, <4>1
      <4>3. i < j
        BY <1>1, <3>1, <3>3
      <4>4. QED BY <4>1, <4>2, <4>3 DEF Behind
    <3>4. QED BY <3>2, <3>3
  <2>2. QED BY <2>1 DEF ResultsBehind
<1>8. OpenTo(w, p, A \cup M)
  <2>1. ASSUME NEW j \in DOMAIN w, NEW i \in DOMAIN w, IsAssistant(w[i]), w[i].n = p.n, OfReply(w[j], p.n)
        PROVE  w[j].k \in A \cup M
    BY <1>1, <1>2, <1>4, <2>1
  <2>2. QED BY <1>4, <2>1 DEF OpenTo
<1>9. QED BY <1>5, <1>6, <1>7, <1>8 DEF Placed, w

LEMMA AddReply ==
  ASSUME NEW s \in Seq(Messages), NEW p \in Messages, IsAssistant(p), Placed(s),
         \A m \in ToSet(s) : IsAssistant(m) \/ IsTool(m) => m.n # p.n
  PROVE  Placed(Append(s, p)) /\ OpenTo(Append(s, p), p, {})
<1> DEFINE u == <<p>>  w == s \o u
<1>1. u \in Seq(Messages) /\ Append(s, p) = w /\ DOMAIN u = {1} /\ u[1] = p
  BY AppendJoins
<1>2. /\ DOMAIN s \subseteq DOMAIN w /\ DOMAIN w \subseteq Nat
      /\ \A y \in DOMAIN s : w[y] = s[y]
      /\ \A y \in DOMAIN w : y \notin DOMAIN s => \E j \in DOMAIN u : w[y] = u[j] /\ y = Len(s) + j
      /\ \A y \in DOMAIN s, z \in DOMAIN w : z < y => z \in DOMAIN s
      /\ \A y \in DOMAIN s, z \in DOMAIN w : z \notin DOMAIN s => y < z
  BY <1>1, AfterJoin
<1> HIDE DEF u, w
<1>3. ASSUME NEW y \in DOMAIN w, y \notin DOMAIN s PROVE w[y] = p /\ y = Len(s) + 1
  BY <1>1, <1>2, <1>3
<1>4. ASSUME NEW y \in DOMAIN s, IsAssistant(w[y]) \/ IsTool(w[y]) PROVE w[y].n # p.n /\ ~OfReply(w[y], p.n)
  BY <1>2, <1>4 DEF ToSet, OfReply
<1>5. OneReply(w)
  BY <1>2, <1>3, <1>4 DEF Placed, OneReply
<1>6. ASSUME NEW j \in DOMAIN w, NEW n, OfReply(w[j], n) PROVE j \in DOMAIN s /\ n # p.n
  <2>1. j \in DOMAIN s
    BY <1>3, <1>6, ReplyNoResult
  <2>2. QED BY <1>4, <1>6, <2>1 DEF OfReply
<1>7. ASSUME NEW i \in DOMAIN w, NEW j \in DOMAIN w, IsAssistant(w[i]), OfReply(w[j], w[i].n)
      PROVE  i \in DOMAIN s /\ j \in DOMAIN s
  BY <1>3, <1>6, <1>7
<1>8. OneResult(w)
  BY <1>2, <1>7 DEF Placed, OneResult
<1>9. ResultsBehind(w)
  <2>1. ASSUME NEW i \in DOMAIN w, NEW j \in DOMAIN w, IsAssistant(w[i]), OfReply(w[j], w[i].n)
        PROVE  w[j].k \in DOMAIN w[i].calls /\ (i = 1 \/ Behind(w, i, j))
    <3>1. i \in DOMAIN s /\ j \in DOMAIN s /\ w[i] = s[i] /\ w[j] = s[j]
      BY <1>2, <1>7, <2>1
    <3>2. s[j].k \in DOMAIN s[i].calls /\ (i = 1 \/ Behind(s, i, j))
      BY <2>1, <3>1 DEF Placed, ResultsBehind
    <3>3. Behind(s, i, j) => Behind(w, i, j)
      BY <1>2, <3>1 DEF Behind
    <3>4. QED BY <3>1, <3>2, <3>3
  <2>2. QED BY <2>1 DEF ResultsBehind
<1>10. OpenTo(w, p, {})
  <2>1. ASSUME NEW i \in DOMAIN w, IsAssistant(w[i]), w[i].n = p.n
        PROVE  w[i] = p /\ \A l \in DOMAIN w : ~(i < l)
    <3>1. i \notin DOMAIN s
      BY <1>4, <2>1
    <3>2. w[i] = p /\ i = Len(s) + 1
      BY <1>3, <3>1
    <3>3. ASSUME NEW l \in DOMAIN w, i < l PROVE FALSE
      <4>1. CASE l \in DOMAIN s
        BY <1>2, <3>1, <3>3, <4>1
      <4>2. CASE l \notin DOMAIN s
        BY <1>2, <1>3, <3>2, <3>3, <4>2
      <4>3. QED BY <4>1, <4>2
    <3>4. QED BY <3>2, <3>3
  <2>2. QED BY <1>6, <2>1 DEF OpenTo
<1>11. QED BY <1>1, <1>5, <1>8, <1>9, <1>10 DEF Placed

LEMMA OpenMore ==
  ASSUME NEW s, NEW p, NEW A, NEW B, OpenTo(s, p, A), A \subseteq B
  PROVE  OpenTo(s, p, B)
BY DEF OpenTo

LEMMA NoReply ==
  ASSUME NEW s, NEW p, NEW A, \A m \in ToSet(s) : IsAssistant(m) \/ IsTool(m) => m.n # p.n
  PROVE  OpenTo(s, p, A)
BY DEF OpenTo, ToSet

-----------------------------------------------------------------------------
(* The repair puts what is missing behind its reply. *)

Orphan(s, m) == IsTool(m) /\ <<m.n, m.k>> \notin CallsIn(s)

(* Member y of the repair t is the member pos[y] of s, or a result that it misses.  *)
Repairs(pos, in, s, t) ==
    /\ \A y \in DOMAIN t :
         /\ pos[y] \in DOMAIN s
         /\ \/ in[y] = 1 /\ t[y] = s[pos[y]] /\ ~Orphan(s, t[y])
            \/ /\ in[y] \in Nat /\ 1 < in[y] /\ IsAssistant(s[pos[y]])
               /\ in[y] - 1 \in DOMAIN Lost(s, s[pos[y]]) /\ t[y] = Lost(s, s[pos[y]])[in[y] - 1]
    /\ \A y, z \in DOMAIN t : y < z => pos[y] < pos[z] \/ (pos[y] = pos[z] /\ in[y] < in[z])
    /\ \A i \in DOMAIN s : ~Orphan(s, s[i]) => \E y \in DOMAIN t : pos[y] = i /\ in[y] = 1
    /\ \A i \in DOMAIN s : IsAssistant(s[i]) =>
         \A j \in DOMAIN Lost(s, s[i]) : \E y \in DOMAIN t : pos[y] = i /\ in[y] = j + 1

LEMMA RepairedAt ==
  ASSUME NEW m \in Messages, NEW s
  PROVE  /\ IsAssistant(m) => Joined(Repaired(s, m), <<m>>, Lost(s, m))
         /\ Orphan(s, m) => Repaired(s, m) = <<>>
         /\ ~IsAssistant(m) /\ ~Orphan(s, m) => Repaired(s, m) = <<m>>
<1>1. CASE IsAssistant(m)
  <2> DEFINE one == <<m>>  lost == Lost(s, m)
  <2>1. Repaired(s, m) = one \o lost /\ ~IsTool(m)
    BY <1>1 DEF Repaired, IsAssistant, IsTool
  <2>2. one \in Seq(Messages) /\ lost \in Seq(Messages)
    BY <1>1, LostType
  <2> HIDE DEF one, lost
  <2>3. Joined(Repaired(s, m), one, lost)
    BY <2>1, <2>2, JoinAt
  <2>4. QED BY <1>1, <2>1, <2>3 DEF one, lost, Orphan
<1>2. CASE ~IsAssistant(m)
  BY <1>2 DEF Repaired, Orphan
<1>3. QED BY <1>1, <1>2

LEMMA RepairsIs ==
  ASSUME NEW s \in Seq(Messages)
  PROVE  \E pos, in : Repairs(pos, in, s, sanitize_orphaned_tool_calls(s))
<1> DEFINE ss == [i \in DOMAIN s |-> Repaired(s, s[i])]  t == sanitize_orphaned_tool_calls(s)
<1>1. t = Concat(ss) /\ ss \in Seq(Seq(Messages)) /\ t \in Seq(Messages)
  BY SanitizeType
<1>2. DOMAIN ss = DOMAIN s /\ \A i \in DOMAIN s : ss[i] = Repaired(s, s[i])
  OBVIOUS
<1> HIDE DEF ss, t
<1>3. PICK pos, in : Layout(pos, in, ss, t)
  BY <1>1, ConcatLayout
<1>4. ASSUME NEW i \in DOMAIN s, IsAssistant(s[i])
      PROVE  /\ DOMAIN ss[i] = 1 .. 1 + Len(Lost(s, s[i])) /\ ss[i][1] = s[i] /\ ~Orphan(s, s[i])
             /\ Len(Lost(s, s[i])) \in Nat /\ DOMAIN Lost(s, s[i]) = 1 .. Len(Lost(s, s[i]))
             /\ \A j \in DOMAIN Lost(s, s[i]) : ss[i][1 + j] = Lost(s, s[i])[j]
  <2> DEFINE one == <<s[i]>>  lost == Lost(s, s[i])
  <2>1. s[i] \in Messages /\ ss[i] = Repaired(s, s[i])
    BY <1>2
  <2>2. Joined(ss[i], one, lost)
    BY <1>4, <2>1, RepairedAt
  <2>3. Len(one) = 1 /\ one[1] = s[i] /\ 1 \in 1 .. 1
    OBVIOUS
  <2>4. ~Orphan(s, s[i])
    BY <1>4, KindsDiffer DEF Orphan
  <2> HIDE DEF one, lost
  <2>5. /\ DOMAIN ss[i] = 1 .. 1 + Len(lost) /\ Len(lost) \in Nat /\ DOMAIN lost = 1 .. Len(lost)
        /\ ss[i][1] = s[i] /\ \A j \in DOMAIN lost : ss[i][1 + j] = lost[j]
    BY <2>2, <2>3 DEF Joined
  <2>6. QED BY <2>4, <2>5 DEF lost
<1>5. ASSUME NEW i \in DOMAIN s, ~IsAssistant(s[i])
      PROVE  \A j : j \in DOMAIN ss[i] <=> j = 1 /\ ~Orphan(s, s[i])
  <2>1. s[i] \in Messages /\ ss[i] = Repaired(s, s[i])
    BY <1>2
  <2>2. DOMAIN <<>> = {} /\ DOMAIN <<s[i]>> = {1}
    OBVIOUS
  <2>3. QED BY <1>5, <2>1, <2>2, RepairedAt
<1>6. ASSUME NEW i \in DOMAIN s, ~IsAssistant(s[i]), ~Orphan(s, s[i]) PROVE ss[i][1] = s[i]
  <2>1. s[i] \in Messages /\ ss[i] = Repaired(s, s[i])
    BY <1>2
  <2>2. ss[i] = <<s[i]>>
    BY <1>6, <2>1, RepairedAt
  <2>3. QED BY <2>2
<1>7. ASSUME NEW y \in DOMAIN t
      PROVE  /\ pos[y] \in DOMAIN s
             /\ \/ in[y] = 1 /\ t[y] = s[pos[y]] /\ ~Orphan(s, t[y])
                \/ /\ in[y] \in Nat /\ 1 < in[y] /\ IsAssistant(s[pos[y]])
                   /\ in[y] - 1 \in DOMAIN Lost(s, s[pos[y]]) /\ t[y] = Lost(s, s[pos[y]])[in[y] - 1]
  <2>1. pos[y] \in DOMAIN s /\ in[y] \in DOMAIN ss[pos[y]] /\ t[y] = ss[pos[y]][in[y]]
    BY <1>2, <1>3 DEF Layout
  <2>2. CASE ~IsAssistant(s[pos[y]])
    BY <1>5, <1>6, <2>1, <2>2
  <2>3. CASE IsAssistant(s[pos[y]])
    <3> DEFINE i == pos[y]  lost == Lost(s, s[i])  j == in[y] - 1
    <3>1. /\ i \in DOMAIN s /\ in[y] \in 1 .. 1 + Len(lost) /\ Len(lost) \in Nat /\ t[y] = ss[i][in[y]]
          /\ ss[i][1] = s[i] /\ ~Orphan(s, s[i]) /\ DOMAIN lost = 1 .. Len(lost)
          /\ \A h \in DOMAIN lost : ss[i][1 + h] = lost[h]
      BY <1>4, <2>1, <2>3
    <3> HIDE DEF i, lost
    <3>2. CASE in[y] = 1
      BY <3>1, <3>2 DEF i
    <3>3. CASE in[y] # 1
      <4>1. in[y] \in Nat /\ 1 < in[y] /\ j \in 1 .. Len(lost) /\ 1 + j = in[y]
        BY <3>1, <3>3
      <4>2. t[y] = lost[j] /\ j \in DOMAIN lost
        BY <3>1, <4>1
      <4>3. QED BY <2>1, <2>3, <4>1, <4>2 DEF i, lost
    <3>4. QED BY <3>2, <3>3
  <2>4. QED BY <2>2, <2>3
<1>8. ASSUME NEW i \in DOMAIN s, ~Orphan(s, s[i]) PROVE \E y \in DOMAIN t : pos[y] = i /\ in[y] = 1
  <2>1. 1 \in DOMAIN ss[i] /\ i \in DOMAIN ss
    BY <1>2, <1>4, <1>5, <1>8
  <2>2. QED BY <1>3, <2>1 DEF Layout
<1>9. ASSUME NEW i \in DOMAIN s, IsAssistant(s[i]), NEW j \in DOMAIN Lost(s, s[i])
      PROVE  \E y \in DOMAIN t : pos[y] = i /\ in[y] = j + 1
  <2>1. j + 1 \in DOMAIN ss[i] /\ i \in DOMAIN ss
    <3> DEFINE L == Len(Lost(s, s[i]))
    <3>1. j \in 1 .. L /\ L \in Nat /\ DOMAIN ss[i] = 1 .. 1 + L
      BY <1>4, <1>9
    <3> HIDE DEF L
    <3>2. j + 1 \in 1 .. 1 + L
      BY <3>1
    <3>3. QED BY <1>2, <3>1, <3>2
  <2>2. QED BY <1>3, <2>1 DEF Layout
<1>10. \A y, z \in DOMAIN t : y < z => pos[y] < pos[z] \/ (pos[y] = pos[z] /\ in[y] < in[z])
  BY <1>3 DEF Layout
<1>11. Repairs(pos, in, s, t)
  BY <1>7, <1>8, <1>9, <1>10 DEF Repairs
<1>12. QED BY <1>11 DEF t

(* Every result has its reply, and every call a result. *)
Total(t) ==
    /\ \A j \in DOMAIN t : IsTool(t[j]) => \E i \in DOMAIN t : IsAssistant(t[i]) /\ t[i].n = t[j].n
    /\ \A i \in DOMAIN t : IsAssistant(t[i]) =>
         \A k \in DOMAIN t[i].calls : \E j \in DOMAIN t : OfReply(t[j], t[i].n) /\ t[j].k = k

(* Member y of the repair was there before, or was missing behind its reply. *)
WasThere(pos, in, s, t, y) == in[y] = 1 /\ t[y] = s[pos[y]] /\ ~Orphan(s, t[y])
WasMissing(pos, in, s, t, y) ==
    /\ in[y] \in Nat /\ 1 < in[y] /\ IsAssistant(s[pos[y]])
    /\ OfReply(t[y], s[pos[y]].n) /\ t[y].k \in Missing(s, s[pos[y]])
    /\ in[y] - 1 \in DOMAIN Lost(s, s[pos[y]]) /\ t[y] = Lost(s, s[pos[y]])[in[y] - 1]

LEMMA MendIs ==
  ASSUME NEW s \in Seq(Messages), NEW t \in Seq(Messages), NEW pos, NEW in, Repairs(pos, in, s, t)
  PROVE  /\ DOMAIN s = 1 .. Len(s) /\ DOMAIN t = 1 .. Len(t) /\ Len(s) \in Nat /\ Len(t) \in Nat
         /\ \A y \in DOMAIN t : /\ pos[y] \in DOMAIN s /\ in[y] \in Nat
                                /\ WasThere(pos, in, s, t, y) \/ WasMissing(pos, in, s, t, y)
         /\ \A y, z \in DOMAIN t : y < z => pos[y] < pos[z] \/ (pos[y] = pos[z] /\ in[y] < in[z])
         /\ \A y, z \in DOMAIN t : pos[y] = pos[z] /\ in[y] = in[z] => y = z
<1>1. DOMAIN s = 1 .. Len(s) /\ DOMAIN t = 1 .. Len(t) /\ Len(s) \in Nat /\ Len(t) \in Nat
  OBVIOUS
<1>2. ASSUME NEW y \in DOMAIN t
      PROVE  /\ pos[y] \in DOMAIN s /\ in[y] \in Nat
             /\ WasThere(pos, in, s, t, y) \/ WasMissing(pos, in, s, t, y)
  <2>1. /\ pos[y] \in DOMAIN s
        /\ \/ in[y] = 1 /\ t[y] = s[pos[y]] /\ ~Orphan(s, t[y])
           \/ /\ in[y] \in Nat /\ 1 < in[y] /\ IsAssistant(s[pos[y]])
              /\ in[y] - 1 \in DOMAIN Lost(s, s[pos[y]]) /\ t[y] = Lost(s, s[pos[y]])[in[y] - 1]
    BY DEF Repairs
  <2>2. CASE in[y] = 1 /\ t[y] = s[pos[y]] /\ ~Orphan(s, t[y])
    BY <2>1, <2>2 DEF WasThere
  <2>3. CASE /\ in[y] \in Nat /\ 1 < in[y] /\ IsAssistant(s[pos[y]])
             /\ in[y] - 1 \in DOMAIN Lost(s, s[pos[y]]) /\ t[y] = Lost(s, s[pos[y]])[in[y] - 1]
    <3> DEFINE a == s[pos[y]]
    <3>1. a \in Messages /\ IsAssistant(a)
      BY <2>1, <2>3
    <3> HIDE DEF a
    <3>2. ResultsFor(Lost(s, a), a.n, Missing(s, a))
      BY <3>1, LostResults
    <3>3. OfReply(t[y], a.n) /\ t[y].k \in Missing(s, a)
      BY <2>3, <3>2 DEF ResultsFor, a
    <3>4. QED BY <2>1, <2>3, <3>3 DEF WasMissing, a
  <2>4. QED BY <2>1, <2>2, <2>3
<1>3. \A y, z \in DOMAIN t : y < z => pos[y] < pos[z] \/ (pos[y] = pos[z] /\ in[y] < in[z])
  BY DEF Repairs
<1>4. ASSUME NEW y \in DOMAIN t, NEW z \in DOMAIN t, pos[y] = pos[z], in[y] = in[z] PROVE y = z
  <2>1. pos[y] \in Nat /\ pos[z] \in Nat /\ in[y] \in Nat /\ in[z] \in Nat /\ y \in Nat /\ z \in Nat
    BY <1>1, <1>2
  <2>2. ~(y < z) /\ ~(z < y)
    BY <1>3, <1>4, <2>1
  <2>3. QED BY <2>1, <2>2
<1>5. QED BY <1>1, <1>2, <1>3, <1>4

LEMMA RepairedPlaced ==
  ASSUME NEW s \in Seq(Messages), Placed(s)
  PROVE  Placed(sanitize_orphaned_tool_calls(s))
<1> DEFINE t == sanitize_orphaned_tool_calls(s)
<1>1. t \in Seq(Messages)
  BY SanitizeType
<1>2. PICK pos, in : Repairs(pos, in, s, t)
  BY RepairsIs
<1> HIDE DEF t
<1>3. /\ DOMAIN s = 1 .. Len(s) /\ DOMAIN t = 1 .. Len(t) /\ Len(s) \in Nat /\ Len(t) \in Nat
      /\ \A y \in DOMAIN t : /\ pos[y] \in DOMAIN s /\ in[y] \in Nat
                             /\ WasThere(pos, in, s, t, y) \/ WasMissing(pos, in, s, t, y)
      /\ \A y, z \in DOMAIN t : y < z => pos[y] < pos[z] \/ (pos[y] = pos[z] /\ in[y] < in[z])
      /\ \A y, z \in DOMAIN t : pos[y] = pos[z] /\ in[y] = in[z] => y = z
  BY <1>1, <1>2, MendIs
<1>4. DOMAIN s \subseteq Nat /\ DOMAIN t \subseteq Nat
  BY <1>3
<1>5. ASSUME NEW y \in DOMAIN t, IsAssistant(t[y]) PROVE in[y] = 1 /\ t[y] = s[pos[y]] /\ pos[y] \in DOMAIN s
  BY <1>3, <1>5, ReplyNoResult DEF WasThere, WasMissing
<1>6. ASSUME NEW y \in DOMAIN t, ~IsAssistant(s[pos[y]]) PROVE in[y] = 1 /\ t[y] = s[pos[y]]
  BY <1>3, <1>6 DEF WasThere, WasMissing
<1>7. OneReply(t)
  <2>1. ASSUME NEW i \in DOMAIN t, NEW j \in DOMAIN t, IsAssistant(t[i]), IsAssistant(t[j]), t[i].n = t[j].n
        PROVE  i = j
    <3>1. pos[i] = pos[j] /\ in[i] = in[j]
      BY <1>5, <2>1 DEF Placed, OneReply
    <3>2. QED BY <1>3, <3>1
  <2>2. QED BY <2>1 DEF OneReply
(* Where a result of reply i is. *)
<1>8. ASSUME NEW i \in DOMAIN t, IsAssistant(t[i]), NEW j \in DOMAIN t, OfReply(t[j], t[i].n)
      PROVE  \/ OfReply(s[pos[j]], t[i].n) /\ in[j] = 1 /\ t[j] = s[pos[j]]
             \/ pos[j] = pos[i] /\ WasMissing(pos, in, s, t, j)
  <2>1. CASE WasThere(pos, in, s, t, j)
    BY <1>8, <2>1 DEF WasThere
  <2>2. CASE WasMissing(pos, in, s, t, j)
    <3>1. IsAssistant(s[pos[j]]) /\ s[pos[j]].n = t[i].n /\ pos[j] \in DOMAIN s
      BY <1>3, <1>8, <2>2 DEF WasMissing, OfReply
    <3>2. IsAssistant(s[pos[i]]) /\ s[pos[i]].n = t[i].n /\ pos[i] \in DOMAIN s
      BY <1>5, <1>8
    <3>3. QED BY <2>2, <3>1, <3>2 DEF Placed, OneReply
  <2>3. QED BY <1>3, <2>1, <2>2
<1>9. ASSUME NEW i \in DOMAIN t, IsAssistant(t[i]), NEW j \in DOMAIN t, pos[j] = pos[i],
             WasMissing(pos, in, s, t, j)
      PROVE  t[j].k \in DOMAIN t[i].calls /\ \A l \in DOMAIN s : OfReply(s[l], t[i].n) => s[l].k # t[j].k
  <2>1. t[j].k \in Missing(s, t[i])
    BY <1>5, <1>9 DEF WasMissing
  <2>2. t[j].k \in DOMAIN t[i].calls /\ <<t[i].n, t[j].k>> \notin ResultsIn(s)
    BY <2>1 DEF Missing
  <2>3. ASSUME NEW l \in DOMAIN s, OfReply(s[l], t[i].n), s[l].k = t[j].k PROVE FALSE
    <3>1. s[l] \in ToSet(s) /\ IsTool(s[l]) /\ s[l].n = t[i].n
      BY <2>3 DEF ToSet, OfReply
    <3>2. <<s[l].n, s[l].k>> \in ResultsIn(s)
      BY <3>1 DEF ResultsIn
    <3>3. QED BY <2>2, <2>3, <3>1, <3>2
  <2>4. QED BY <2>2, <2>3
<1>10. ASSUME NEW i \in DOMAIN t, IsAssistant(t[i]), NEW j \in DOMAIN t, NEW l \in DOMAIN t,
              pos[j] = pos[i], pos[l] = pos[i], WasMissing(pos, in, s, t, j), WasMissing(pos, in, s, t, l),
              t[j].k = t[l].k
       PROVE  j = l
  <2> DEFINE a == s[pos[i]]  u == Lost(s, a)
  <2>1. a \in Messages /\ IsAssistant(a)
    BY <1>5, <1>10
  <2>2. /\ in[j] - 1 \in DOMAIN u /\ t[j] = u[in[j] - 1] /\ in[j] \in Nat
        /\ in[l] - 1 \in DOMAIN u /\ t[l] = u[in[l] - 1] /\ in[l] \in Nat
    BY <1>10 DEF WasMissing
  <2> HIDE DEF a
  <2>3. ResultsFor(u, a.n, Missing(s, a))
    BY <2>1, LostResults
  <2> HIDE DEF u
  <2>4. in[j] - 1 = in[l] - 1
    BY <1>10, <2>2, <2>3 DEF ResultsFor
  <2>5. in[j] = in[l]
    BY <2>2, <2>4
  <2>6. QED BY <1>3, <1>10, <2>5
<1>11. OneResult(t)
  <2>1. ASSUME NEW i \in DOMAIN t, NEW j \in DOMAIN t, NEW l \in DOMAIN t,
               IsAssistant(t[i]), OfReply(t[j], t[i].n), OfReply(t[l], t[i].n), t[j].k = t[l].k
        PROVE  j = l
    <3>1. pos[i] \in DOMAIN s /\ pos[j] \in DOMAIN s /\ pos[l] \in DOMAIN s /\ t[i] = s[pos[i]]
      BY <1>3, <1>5, <2>1
    <3>2. CASE OfReply(s[pos[j]], t[i].n) /\ in[j] = 1 /\ t[j] = s[pos[j]]
      <4>1. CASE OfReply(s[pos[l]], t[i].n) /\ in[l] = 1 /\ t[l] = s[pos[l]]
        <5>1. pos[j] = pos[l]
          BY <2>1, <3>1, <3>2, <4>1 DEF Placed, OneResult
        <5>2. QED BY <1>3, <3>2, <4>1, <5>1
      <4>2. CASE pos[l] = pos[i] /\ WasMissing(pos, in, s, t, l)
        BY <1>9, <2>1, <3>1, <3>2, <4>2
      <4>3. QED BY <1>8, <2>1, <4>1, <4>2
    <3>3. CASE pos[j] = pos[i] /\ WasMissing(pos, in, s, t, j)
      <4>1. CASE OfReply(s[pos[l]], t[i].n) /\ in[l] = 1 /\ t[l] = s[pos[l]]
        BY <1>9, <2>1, <3>1, <3>3, <4>1
      <4>2. CASE pos[l] = pos[i] /\ WasMissing(pos, in, s, t, l)
        BY <1>10, <2>1, <3>3, <4>2
      <4>3. QED BY <1>8, <2>1, <4>1, <4>2
    <3>4. QED BY <1>8, <2>1, <3>2, <3>3
  <2>2. QED BY <2>1 DEF OneResult
<1>12. ASSUME NEW i \in DOMAIN t, IsAssistant(t[i]), NEW l \in DOMAIN t, pos[l] = pos[i], i < l
       PROVE  OfReply(t[l], t[i].n)
  <2>1. in[i] = 1 /\ t[i] = s[pos[i]] /\ in[i] < in[l]
    BY <1>3, <1>4, <1>5, <1>12
  <2>2. WasMissing(pos, in, s, t, l)
    BY <1>3, <2>1 DEF WasThere
  <2>3. QED BY <1>12, <2>1, <2>2 DEF WasMissing
<1>13. ASSUME NEW i \in DOMAIN t, IsAssistant(t[i]), pos[i] = 1 PROVE i = 1
  <2>1. 1 \in DOMAIN t /\ i \in Nat /\ 1 <= i
    BY <1>3
  <2>2. ASSUME 1 < i PROVE FALSE
    <3>1. pos[1] < pos[i] \/ (pos[1] = pos[i] /\ in[1] < in[i])
      BY <1>3, <2>1, <2>2
    <3>2. in[i] = 1 /\ pos[1] \in Nat /\ 1 <= pos[1] /\ in[1] \in Nat /\ 1 <= in[1]
      BY <1>3, <1>5, <1>13, <2>1 DEF WasThere, WasMissing
    <3>3. QED BY <1>13, <3>1, <3>2
  <2>3. QED BY <2>1, <2>2
<1>14. ResultsBehind(t)
  <2>1. ASSUME NEW i \in DOMAIN t, NEW j \in DOMAIN t, IsAssistant(t[i]), OfReply(t[j], t[i].n)
        PROVE  t[j].k \in DOMAIN t[i].calls /\ (i = 1 \/ Behind(t, i, j))
    <3>1. /\ pos[i] \in Nat /\ pos[j] \in Nat /\ i \in Nat /\ j \in Nat /\ i # j
          /\ pos[i] \in DOMAIN s /\ pos[j] \in DOMAIN s /\ t[i] = s[pos[i]] /\ in[i] = 1
      BY <1>3, <1>4, <1>5, <2>1, ReplyNoResult
    <3>2. CASE pos[j] = pos[i] /\ WasMissing(pos, in, s, t, j)
      <4>1. t[j].k \in DOMAIN t[i].calls
        BY <1>9, <2>1, <3>2
      <4>2. i < j
        <5>1. ~(j < i)
          BY <1>3, <3>1, <3>2 DEF WasMissing
        <5>2. QED BY <3>1, <5>1
      <4>3. ASSUME NEW l \in DOMAIN t, i < l, l < j PROVE OfReply(t[l], t[i].n)
        <5>1. pos[l] = pos[i]
          <6>1. pos[l] \in Nat
            BY <1>3, <1>4
          <6>2. pos[i] <= pos[l] /\ pos[l] <= pos[j]
            BY <1>3, <3>1, <4>3, <6>1
          <6>3. QED BY <3>1, <3>2, <6>1, <6>2
        <5>2. QED BY <1>12, <2>1, <4>3, <5>1
      <4>4. QED BY <4>1, <4>2, <4>3 DEF Behind
    <3>3. CASE OfReply(s[pos[j]], t[i].n) /\ in[j] = 1 /\ t[j] = s[pos[j]]
      <4>1. t[j].k \in DOMAIN t[i].calls /\ (pos[i] = 1 \/ Behind(s, pos[i], pos[j]))
        BY <2>1, <3>1, <3>3 DEF Placed, ResultsBehind
      <4>2. SUFFICES ASSUME Behind(s, pos[i], pos[j]) PROVE Behind(t, i, j)
        BY <1>13, <2>1, <4>1
      <4>3. pos[i] < pos[j] /\ \A l \in DOMAIN s : pos[i] < l /\ l < pos[j] => OfReply(s[l], t[i].n)
        BY <3>1, <4>2 DEF Behind
      <4>4. i < j
        <5>1. ~(j < i)
          BY <1>3, <3>1, <4>3
        <5>2. QED BY <3>1, <5>1
      <4>5. ASSUME NEW l \in DOMAIN t, i < l, l < j PROVE OfReply(t[l], t[i].n)
        <5>1. pos[l] \in Nat /\ pos[l] \in DOMAIN s
          BY <1>3, <1>4
        <5>2. pos[i] <= pos[l] /\ pos[l] <= pos[j]
          BY <1>3, <3>1, <4>5, <5>1
        <5>3. CASE pos[l] = pos[i]
          BY <1>12, <2>1, <4>5, <5>3
        <5>4. CASE pos[l] = pos[j]
          <6>1. ~IsAssistant(s[pos[l]])
            BY <3>3, <5>4, ReplyNoResult
          <6>2. in[l] = 1
            BY <1>6, <6>1
          <6>3. l = j
            BY <1>3, <3>3, <5>4, <6>2
          <6>4. l \in Nat
            BY <1>4
          <6>5. QED BY <4>5, <6>3, <6>4
        <5>5. CASE pos[i] < pos[l] /\ pos[l] < pos[j]
          <6>1. OfReply(s[pos[l]], t[i].n)
            BY <4>3, <5>1, <5>5
          <6>2. t[l] = s[pos[l]]
            BY <1>6, <6>1, ReplyNoResult
          <6>3. QED BY <6>1, <6>2
        <5>6. QED BY <3>1, <5>1, <5>2, <5>3, <5>4, <5>5
      <4>6. QED BY <4>4, <4>5 DEF Behind
    <3>4. QED BY <1>8, <2>1, <3>2, <3>3
  <2>2. QED BY <2>1 DEF ResultsBehind
<1>15. QED BY <1>7, <1>11, <1>14 DEF Placed, t

LEMMA RepairedTotal ==
  ASSUME NEW s \in Seq(Messages)
  PROVE  Total(sanitize_orphaned_tool_calls(s))
<1> DEFINE t == sanitize_orphaned_tool_calls(s)
<1>1. t \in Seq(Messages)
  BY SanitizeType
<1>2. PICK pos, in : Repairs(pos, in, s, t)
  BY RepairsIs
<1> HIDE DEF t
<1>3. \A y \in DOMAIN t : /\ pos[y] \in DOMAIN s /\ in[y] \in Nat
                          /\ WasThere(pos, in, s, t, y) \/ WasMissing(pos, in, s, t, y)
  BY <1>1, <1>2, MendIs
<1>4. ASSUME NEW i \in DOMAIN s, ~Orphan(s, s[i]) PROVE \E y \in DOMAIN t : t[y] = s[i]
  <2>1. PICK y \in DOMAIN t : pos[y] = i /\ in[y] = 1
    BY <1>2, <1>4 DEF Repairs
  <2>2. QED BY <1>3, <2>1 DEF WasThere, WasMissing
<1>5. ASSUME NEW i \in DOMAIN s, IsAssistant(s[i]) PROVE \E y \in DOMAIN t : t[y] = s[i]
  BY <1>4, <1>5, KindsDiffer DEF Orphan
<1>6. ASSUME NEW j \in DOMAIN t, IsTool(t[j]) PROVE \E i \in DOMAIN t : IsAssistant(t[i]) /\ t[i].n = t[j].n
  <2>1. CASE WasMissing(pos, in, s, t, j)
    BY <1>3, <1>5, <2>1 DEF WasMissing, OfReply
  <2>2. CASE WasThere(pos, in, s, t, j)
    <3>1. <<t[j].n, t[j].k>> \in CallsIn(s)
      BY <1>6, <2>2 DEF WasThere, Orphan
    <3>2. PICK m \in ToSet(s) : IsAssistant(m) /\ m.n = t[j].n
      BY <3>1 DEF CallsIn
    <3>3. PICK i \in DOMAIN s : m = s[i]
      BY DEF ToSet
    <3>4. QED BY <1>5, <3>2, <3>3
  <2>3. QED BY <1>3, <2>1, <2>2
<1>7. ASSUME NEW i \in DOMAIN t, IsAssistant(t[i]), NEW k \in DOMAIN t[i].calls
      PROVE  \E j \in DOMAIN t : OfReply(t[j], t[i].n) /\ t[j].k = k
  <2> DEFINE a == t[i]
  <2>1. a \in Messages /\ pos[i] \in DOMAIN s /\ a = s[pos[i]]
    BY <1>1, <1>3, <1>7, ReplyNoResult DEF WasThere, WasMissing
  <2>2. IsAssistant(a) /\ k \in DOMAIN a.calls
    BY <1>7
  <2> HIDE DEF a
  <2>3. CASE <<a.n, k>> \in ResultsIn(s)
    <3>1. PICK m \in ToSet(s) : IsTool(m) /\ <<m.n, m.k>> = <<a.n, k>>
      BY <2>3 DEF ResultsIn
    <3>2. PICK h \in DOMAIN s : m = s[h]
      BY DEF ToSet
    <3>3. m.n = a.n /\ m.k = k
      BY <3>1
    <3>4. <<a.n, k>> \in CallsIn(s)
      <4>1. a \in ToSet(s)
        BY <2>1 DEF ToSet
      <4>2. QED BY <2>2, <4>1 DEF CallsIn
    <3>5. PICK j \in DOMAIN t : t[j] = m
      BY <1>4, <3>1, <3>2, <3>4 DEF Orphan
    <3>6. QED BY <3>1, <3>3, <3>5 DEF OfReply, a
  <2>4. CASE <<a.n, k>> \notin ResultsIn(s)
    <3> DEFINE u == Lost(s, a)
    <3>1. k \in Missing(s, a)
      BY <2>2, <2>4 DEF Missing
    <3>2. /\ u \in Seq(Messages) /\ ResultsFor(u, a.n, Missing(s, a))
          /\ \E h \in DOMAIN u : u[h].k = k
      BY <2>1, <2>2, <3>1, LostResults
    <3>3. PICK h \in DOMAIN u : u[h].k = k
      BY <3>2
    <3>4. PICK j \in DOMAIN t : pos[j] = pos[i] /\ in[j] = h + 1
      BY <1>2, <2>1, <2>2, <3>3 DEF Repairs
    <3>5. h \in Nat /\ 1 <= h /\ (h + 1) - 1 = h /\ h + 1 # 1
      <4>1. u \in Seq(Messages)
        BY <3>2
      <4> HIDE DEF u
      <4>2. DOMAIN u = 1 .. Len(u) /\ Len(u) \in Nat
        BY <4>1
      <4>3. h \in 1 .. Len(u)
        BY <4>2
      <4>4. QED BY <4>2, <4>3
    <3>6. t[j] = u[h]
      <4>1. in[j] # 1 /\ in[j] - 1 = h
        BY <3>4, <3>5
      <4>2. WasMissing(pos, in, s, t, j)
        BY <1>3, <4>1 DEF WasThere
      <4>3. QED BY <2>1, <3>4, <4>1, <4>2 DEF WasMissing
    <3>7. OfReply(u[h], a.n)
      BY <3>2 DEF ResultsFor
    <3>8. QED BY <3>3, <3>6, <3>7 DEF a
  <2>5. QED BY <2>3, <2>4
<1>8. QED BY <1>6, <1>7 DEF Total, t

-----------------------------------------------------------------------------
(* What is placed and total is paired. *)

AnswersIn(w, i) ==
    {j \in i + 1 .. i + Len(w[i].calls) : j \in DOMAIN w /\ IsTool(w[j]) /\ w[j].n = w[i].n}
PairedIn(w) ==
    LET replies == {i \in DOMAIN w : IsAssistant(w[i])}
    IN /\ \A i \in replies : {w[j].k : j \in AnswersIn(w, i)} = DOMAIN w[i].calls
       /\ {j \in DOMAIN w : IsTool(w[j])} = UNION {AnswersIn(w, i) : i \in replies}

(* A result is no further behind its reply than there are calls. *)
LEMMA NotFar ==
  ASSUME NEW t \in Seq(Messages), Placed(t), NEW i \in DOMAIN t, NEW j \in DOMAIN t,
         IsAssistant(t[i]), OfReply(t[j], t[i].n), Behind(t, i, j)
  PROVE  j <= i + Len(t[i].calls)
<1> DEFINE L == Len(t[i].calls)  f == [x \in 1 .. j - i |-> t[i + x].k]
<1>1. /\ L \in Nat /\ DOMAIN t[i].calls = 1 .. L /\ i \in Nat /\ j \in Nat /\ i < j
      /\ DOMAIN t = 1 .. Len(t) /\ Len(t) \in Nat
  <2>1. t[i] \in Messages /\ t[i].kind = "assistant"
    BY DEF IsAssistant
  <2>2. t[i].calls \in Seq(Names)
    BY <2>1, MessageIs
  <2>3. QED BY <2>2 DEF Behind
<1> HIDE DEF L
<1>2. ASSUME NEW x \in 1 .. j - i
      PROVE  i + x \in DOMAIN t /\ OfReply(t[i + x], t[i].n) /\ t[i + x].k \in 1 .. L
  <2>1. i + x \in DOMAIN t /\ i < i + x /\ (i + x < j \/ i + x = j)
    BY <1>1
  <2>2. OfReply(t[i + x], t[i].n)
    BY <2>1 DEF Behind
  <2>3. QED BY <1>1, <2>1, <2>2 DEF Placed, ResultsBehind
<1>3. ASSUME NEW x \in 1 .. j - i, NEW y \in 1 .. j - i, t[i + x].k = t[i + y].k PROVE x = y
  <2>1. i + x = i + y
    BY <1>2, <1>3 DEF Placed, OneResult
  <2>2. QED BY <1>1, <2>1
<1>4. f \in Injection(1 .. j - i, 1 .. L)
  BY <1>2, <1>3 DEF Injection, IsInjective
<1>5. Cardinality(1 .. j - i) <= Cardinality(1 .. L)
  <2>1. IsFiniteSet(1 .. L)
    BY <1>1, FS_Interval
  <2> HIDE DEF f
  <2>2. QED BY <1>4, <2>1, FS_Injection
<1>6. Cardinality(1 .. j - i) = j - i /\ Cardinality(1 .. L) = L
  <2>1. ASSUME NEW n \in Nat PROVE Cardinality(1 .. n) = n
    BY FS_Interval
  <2>2. j - i \in Nat
    BY <1>1
  <2>3. QED BY <1>1, <2>1, <2>2
<1>7. j - i <= L
  BY <1>5, <1>6
<1>8. QED BY <1>1, <1>7 DEF L

LEMMA PlacedIsPaired ==
  ASSUME NEW t \in Seq(Messages), Placed(t), Total(t), NEW n \in Nat,
         NEW w, w = t \o [i \in 1 .. n |-> Transient], w # <<>> => ~IsAssistant(w[1])
  PROVE  PairedIn(w)
<1> DEFINE S == Messages \cup {Transient}  u == [i \in 1 .. n |-> Transient]
<1>1. t \in Seq(S) /\ u \in Seq(S) /\ DOMAIN u = 1 .. n /\ \A i \in 1 .. n : u[i] = Transient
  <2>1. u \in [1 .. n -> S] /\ t \in Seq(S)
    OBVIOUS
  <2> HIDE DEF S
  <2>2. QED BY <2>1
<1> HIDE DEF S, u
<1>2. w = t \o u
  BY DEF u
<1>3. Joined(w, t, u)
  BY <1>1, <1>2, JoinAt
<1>4. ~IsAssistant(Transient) /\ ~IsTool(Transient)
  BY DEF IsAssistant, IsTool, Transient
<1>5. /\ DOMAIN t = 1 .. Len(t) /\ Len(t) \in Nat /\ DOMAIN t \subseteq DOMAIN w /\ DOMAIN w \subseteq Nat
      /\ \A y \in DOMAIN t : w[y] = t[y]
  <2>1. /\ DOMAIN w = 1 .. Len(t) + Len(u) /\ Len(t) \in Nat /\ Len(u) \in Nat /\ DOMAIN t = 1 .. Len(t)
        /\ \A y \in 1 .. Len(t) : w[y] = t[y]
    BY <1>3 DEF Joined
  <2>2. QED BY <2>1
<1>6. ASSUME NEW y \in DOMAIN w, IsAssistant(w[y]) \/ IsTool(w[y]) PROVE y \in DOMAIN t /\ w[y] = t[y]
  <2>1. ASSUME y \notin DOMAIN t PROVE FALSE
    <3>1. /\ DOMAIN w = 1 .. Len(t) + Len(u) /\ Len(t) \in Nat /\ Len(u) \in Nat /\ DOMAIN t = 1 .. Len(t)
          /\ DOMAIN u = 1 .. Len(u) /\ \A z \in 1 .. Len(u) : w[Len(t) + z] = u[z]
      BY <1>3 DEF Joined
    <3>2. y - Len(t) \in 1 .. Len(u) /\ y = Len(t) + (y - Len(t))
      BY <2>1, <3>1
    <3>3. w[y] = Transient
      BY <1>1, <3>1, <3>2
    <3>4. QED BY <1>4, <1>6, <3>3
  <2>2. QED BY <1>5, <2>1
<1>7. ASSUME NEW i \in DOMAIN w, IsAssistant(w[i]), NEW j \in DOMAIN w, OfReply(w[j], w[i].n)
      PROVE  w[j].k \in DOMAIN w[i].calls /\ j \in AnswersIn(w, i)
  <2>1. i \in DOMAIN t /\ j \in DOMAIN t /\ w[i] = t[i] /\ w[j] = t[j]
    BY <1>6, <1>7 DEF OfReply
  <2>2. i # 1
    <3>1. ASSUME i = 1 PROVE FALSE
      <4>1. w # <<>>
        BY <1>7, <3>1
      <4>2. QED BY <1>7, <3>1, <4>1
    <3>2. QED BY <3>1
  <2>3. t[j].k \in DOMAIN t[i].calls /\ Behind(t, i, j)
    BY <1>7, <2>1, <2>2 DEF Placed, ResultsBehind
  <2>4. j <= i + Len(t[i].calls) /\ i < j
    BY <1>7, <2>1, <2>3, NotFar DEF Behind
  <2>5. Len(t[i].calls) \in Nat
    <3>1. t[i] \in Messages /\ t[i].kind = "assistant"
      BY <1>7, <2>1 DEF IsAssistant
    <3>2. t[i].calls \in Seq(Names)
      BY <3>1, MessageIs
    <3>3. QED BY <3>2
  <2>6. j \in i + 1 .. i + Len(w[i].calls)
    BY <1>5, <2>1, <2>4, <2>5
  <2>7. QED BY <1>7, <2>1, <2>3, <2>6 DEF AnswersIn, OfReply
<1>8. ASSUME NEW i \in DOMAIN w, IsAssistant(w[i])
      PROVE  {w[j].k : j \in AnswersIn(w, i)} = DOMAIN w[i].calls
  <2>1. \A j \in AnswersIn(w, i) : w[j].k \in DOMAIN w[i].calls
    BY <1>7, <1>8 DEF AnswersIn, OfReply
  <2>2. ASSUME NEW k \in DOMAIN w[i].calls PROVE \E j \in AnswersIn(w, i) : w[j].k = k
    <3>1. i \in DOMAIN t /\ w[i] = t[i]
      BY <1>6, <1>8
    <3>2. PICK j \in DOMAIN t : OfReply(t[j], t[i].n) /\ t[j].k = k
      BY <1>8, <3>1 DEF Total
    <3>3. j \in DOMAIN w /\ w[j] = t[j]
      BY <1>5
    <3>4. QED BY <1>7, <1>8, <3>1, <3>2, <3>3
  <2> DEFINE D == DOMAIN w[i].calls  A == AnswersIn(w, i)  k(j) == w[j].k
  <2>3. (\A j \in A : k(j) \in D) /\ (\A d \in D : \E j \in A : k(j) = d)
    BY <2>1, <2>2
  <2> HIDE DEF D, A, k
  <2>4. {k(j) : j \in A} = D
    BY <2>3
  <2>5. QED BY <2>4 DEF D, A, k
<1>9. ASSUME NEW j \in DOMAIN w, IsTool(w[j])
      PROVE  \E i \in DOMAIN w : IsAssistant(w[i]) /\ j \in AnswersIn(w, i)
  <2>1. j \in DOMAIN t /\ w[j] = t[j]
    BY <1>6, <1>9
  <2>2. PICK i \in DOMAIN t : IsAssistant(t[i]) /\ t[i].n = t[j].n
    BY <1>9, <2>1 DEF Total
  <2>3. i \in DOMAIN w /\ w[i] = t[i]
    BY <1>5
  <2>4. QED BY <1>7, <1>9, <2>1, <2>2, <2>3 DEF OfReply
<1>10. {j \in DOMAIN w : IsTool(w[j])} = UNION {AnswersIn(w, i) : i \in {i \in DOMAIN w : IsAssistant(w[i])}}
  <2>1. \A i \in DOMAIN w : \A j \in AnswersIn(w, i) : j \in DOMAIN w /\ IsTool(w[j])
    BY DEF AnswersIn
  <2>2. QED BY <1>9, <2>1
<1>11. QED BY <1>8, <1>10 DEF PairedIn

-----------------------------------------------------------------------------
(* What is sent is paired: each step. *)

LEMMA NothingPlaced ==
  /\ Placed(<<>>) /\ Placed(NoCopy)
  /\ \A p, A : OpenTo(<<>>, p, A) /\ OpenTo(NoCopy, p, A)
<1>1. DOMAIN <<>> = {}
  OBVIOUS
<1>2. DOMAIN NoCopy = {1} /\ NoCopy[1] = Transient
  BY DEF NoCopy
<1>3. ~IsAssistant(Transient)
  BY DEF IsAssistant, Transient
<1>4. Placed(<<>>)
  BY <1>1 DEF Placed, OneReply, OneResult, ResultsBehind
<1>5. Placed(NoCopy)
  BY <1>2, <1>3 DEF Placed, OneReply, OneResult, ResultsBehind
<1>6. \A p, A : OpenTo(<<>>, p, A) /\ OpenTo(NoCopy, p, A)
  BY <1>1, <1>2, <1>3 DEF OpenTo
<1>7. QED BY <1>4, <1>5, <1>6

LEMMA CompactedPlaced ==
  ASSUME NEW s \in Seq(Messages), Placed(s)
  PROVE  Placed(Compacted(s)) /\ \A p, A : OpenTo(s, p, A) => OpenTo(Compacted(s), p, A)
<1>1. PICK pos : Drawn(pos, s, Compacted(s))
  BY CompactedDrawn
<1>2. QED BY <1>1, CompactedType, DrawnPlaced, DrawnOpen

LEMMA UndonePlaced ==
  ASSUME NEW s \in Seq(Messages), Placed(s)
  PROVE  Placed(Undone(s)) /\ \A p, A : OpenTo(s, p, A) => OpenTo(Undone(s), p, A)
<1> DEFINE users == {i \in DOMAIN s : IsUser(s[i])}
           last == CHOOSE i \in users : \A j \in users : j <= i
<1>1. users \in SUBSET (1 .. Len(s)) /\ Len(s) \in Nat
  OBVIOUS
<1>2. CASE users = {}
  <2>1. Undone(s) = <<>>
    BY <1>2 DEF Undone
  <2>2. QED BY <2>1, NothingPlaced
<1>3. CASE users # {}
  <2>1. Undone(s) = SubSeq(s, 1, last - 1)
    BY <1>3 DEF Undone
  <2> HIDE DEF users
  <2>2. last \in users
    BY <1>1, <1>3, Greatest
  <2> HIDE DEF last
  <2>3. last - 1 \in 0 .. Len(s)
    BY <1>1, <2>2
  <2>4. PICK pos : Drawn(pos, s, Undone(s))
    BY <2>1, <2>3, FrontDrawn
  <2>5. QED BY <2>4, UndoneType, DrawnPlaced, DrawnOpen
<1>4. QED BY <1>2, <1>3

(* Where nothing is sent and no batch is open. *)
LEMMA NothingOpen ==
  ASSUME Placed(conv'), Placed(buffer'), Placed(copy'), turn'.at \notin BatchPlaces \cup {"request"}
  PROVE  RequestInv'
<1>1. Own' = buffer'
  BY OwnBuffer
<1>2. PlacedInv'
  BY <1>1 DEF PlacedInv
<1>3. SentIsPaired'
  BY DEF SentIsPaired, At
<1>4. QED BY <1>2, <1>3 DEF RequestInv

(* What the steps start from. *)
LEMMA PlacedNow ==
  ASSUME ResultsInv, RequestInv
  PROVE  /\ TranscriptInv /\ conv \in Seq(Messages) /\ Own \in Seq(Messages)
         /\ copy \in Seq(Messages) \cup {NoCopy}
         /\ Placed(conv) /\ Placed(Own) /\ Placed(copy)
         /\ ~At("request") => Own = buffer
BY StateIs, NowOwn DEF ResultsInv, RequestInv, PlacedInv, TranscriptInv, TranscriptShape

LEMMA OpenNow ==
  ASSUME ResultsInv, RequestInv, turn.at \in BatchPlaces
  PROVE  /\ Open(conv) /\ Open(buffer) /\ Open(copy) /\ WaveShape
         /\ buffer \in Seq(Messages) /\ Placed(buffer) /\ ~At("request")
<1>1. ~At("request")
  BY DEF At, BatchPlaces
<1>2. QED BY <1>1, PlacedNow DEF RequestInv, PlacedInv

LEMMA ClonePaired == ASSUME ResultsInv, RequestInv, CloneConversation PROVE RequestInv'
<1>1. turn \in Turns
  BY UsedIs, TurnIs DEF ResultsInv, CloneConversation, Places
<1>2. turn'.at = "top"
  BY <1>1, GoToAt DEF CloneConversation, Places
<1>3. QED BY <1>2, PlacedNow, NothingOpen DEF CloneConversation, ThisTurn, BatchPlaces

LEMMA ShrinkPaired == ASSUME ResultsInv, RequestInv, Shrink PROVE RequestInv'
<1>1. turn \in Turns /\ ~At("request")
  BY UsedIs, TurnIs DEF ResultsInv, Shrink, Places, At
<1>2. turn'.at \in {"ending", "shrunk"}
  BY <1>1, EndAt, GoToAt DEF Shrink, Places
<1>3. Placed(Compacted(buffer))
  BY <1>1, PlacedNow, CompactedPlaced
<1>4. QED BY <1>2, <1>3, PlacedNow, NothingOpen DEF Shrink, Persist, ThisTurn, BatchPlaces

LEMMA ContextTooLongPaired == ASSUME ResultsInv, RequestInv, ContextTooLong PROVE RequestInv'
<1>1. turn \in Turns /\ Own = WithoutTransient
  BY UsedIs, TurnIs DEF ResultsInv, ContextTooLong, Places, At, Own
<1>2. turn'.at \in {"ending", "top"}
  <2>1. CASE End
    BY <2>1, EndAt
  <2>2. CASE turn' = [turn EXCEPT !.at = "top", !.retried = TRUE, !.tails = 0]
    BY <1>1, <2>2 DEF Turns
  <2>3. QED BY <2>1, <2>2 DEF ContextTooLong
<1>3. Placed(Compacted(WithoutTransient))
  BY <1>1, PlacedNow, CompactedPlaced
<1>4. QED BY <1>2, <1>3, PlacedNow, NothingOpen DEF ContextTooLong, Persist, ThisTurn, BatchPlaces

LEMMA SendRequestPaired == ASSUME ResultsInv, RequestInv, SendRequest PROVE RequestInv'
<1> DEFINE s == sanitize_orphaned_tool_calls(buffer)
<1>1. /\ s \in Seq(Messages) /\ Own' = s /\ turn'.at = "request"
      /\ (s = buffer /\ conv' = conv) \/ conv' = s
  BY SendRequestIs DEF ResultsInv
<1>2. buffer \in Seq(Messages) /\ Placed(buffer) /\ Placed(conv) /\ Placed(copy) /\ copy' = copy
  <2>1. ~At("request")
    BY DEF SendRequest, At
  <2>2. QED BY <2>1, PlacedNow DEF SendRequest, ThisTurn
<1>3. Placed(s) /\ Total(s)
  BY <1>2, RepairedPlaced, RepairedTotal
<1>4. PICK tails \in Tails : buffer' = s \o [i \in 1 .. tails |-> Transient]
  BY DEF SendRequest
<1>5. tails \in Nat
  BY TranscriptAssumption
<1> HIDE DEF s
<1>6. PlacedInv'
  BY <1>1, <1>2, <1>3 DEF PlacedInv, BatchPlaces
<1>7. SentIsPaired'
  <2>1. SUFFICES ASSUME buffer' # <<>>, ~IsAssistant(buffer'[1]) PROVE Paired'
    BY DEF SentIsPaired
  <2>2. PairedIn(buffer')
    BY <1>1, <1>3, <1>4, <1>5, <2>1, PlacedIsPaired
  <2>3. QED BY <2>2 DEF Paired, PairedIn, Answers, AnswersIn
<1>8. QED BY <1>6, <1>7 DEF RequestInv

(* The turn ends, with its buffer or without. *)
LEMMA EndPaired ==
  ASSUME ResultsInv, RequestInv, End, conv' = conv, copy' = copy,
         buffer' = <<>> \/ (buffer' = buffer /\ ~At("request"))
  PROVE  RequestInv'
<1>1. turn'.at = "ending"
  BY EndAt
<1>2. Placed(buffer')
  BY PlacedNow, NothingPlaced
<1>3. QED BY <1>1, <1>2, PlacedNow, NothingOpen DEF BatchPlaces

LEMMA RequestFailsPaired == ASSUME ResultsInv, RequestInv, RequestFails PROVE RequestInv'
BY EndPaired DEF RequestFails, ThisTurn

LEMMA StopTurnPaired == ASSUME ResultsInv, RequestInv, StopTurn PROVE RequestInv'
BY EndPaired DEF StopTurn, ThisTurn, At

LEMMA RespondPaired == ASSUME ResultsInv, RequestInv, Respond PROVE RequestInv'
<1>1. /\ TranscriptInv /\ Own = WithoutTransient /\ copy' = copy
      /\ Own \in Seq(Messages) /\ Placed(Own) /\ Placed(copy) /\ copy \in Seq(Messages) \cup {NoCopy}
  BY PlacedNow DEF Respond, Own, ThisTurn
<1>2. PICK m : Replied(m)
  BY <1>1, RespondIs
<1>3. /\ m \in Messages /\ IsAssistant(m) /\ m.n = used.replies + 1 /\ used.replies \in Nat
      /\ buffer' = Append(Own, m) /\ conv' = Append(Own, m)
      /\ turn'.at \in {"complete", "batch"} /\ turn'.reply = m /\ turn'.next = 1
  BY <1>1, <1>2, UsedIs DEF Replied
<1>4. ASSUME NEW x \in ToSet(Own) \cup Copied, IsAssistant(x) \/ IsTool(x) PROVE x.n # m.n
  <2>1. x \in Messages /\ Numbered(x, used.replies)
    <3>1. x \in ToSet(Own) => x \in Messages
      BY <1>1, SetOf
    <3>2. QED BY <1>1, <1>4, <3>1, SetsAre DEF ResultsInv, Everywhere
  <2>2. x.n \in Nat /\ x.n <= used.replies
    BY <1>1, <1>4, <2>1, NumbersAre DEF Numbered
  <2>3. QED BY <1>3, <2>2
<1>5. Placed(conv') /\ OpenTo(conv', m, {}) /\ Placed(buffer') /\ OpenTo(buffer', m, {})
  BY <1>1, <1>3, <1>4, AddReply
<1>6. CASE turn'.at = "complete"
  BY <1>1, <1>5, <1>6, NothingOpen DEF BatchPlaces
<1>7. CASE turn'.at = "batch"
  <2>1. Own' = buffer'
    BY <1>7, OwnBuffer
  <2>2. Answered' = {}
    <3>1. Answered' = 1 .. 1 - 1
      BY <1>3, <1>7 DEF Answered
    <3>2. QED BY <3>1
  <2>3. OpenTo(copy, m, {})
    <3>1. CASE copy = NoCopy
      BY <3>1, NothingPlaced
    <3>2. CASE copy # NoCopy
      <4>1. \A x \in ToSet(copy) : IsAssistant(x) \/ IsTool(x) => x.n # m.n
        BY <1>4, <3>2 DEF Copied
      <4>2. QED BY <4>1, NoReply
    <3>3. QED BY <3>1, <3>2
  <2>4. WaveShape'
    BY <1>7, <2>2 DEF WaveShape
  <2>5. PlacedInv'
    BY <1>1, <1>3, <1>5, <2>1, <2>2, <2>3, <2>4 DEF PlacedInv, Open
  <2>6. SentIsPaired'
    BY <1>7 DEF SentIsPaired, At
  <2>7. QED BY <2>5, <2>6 DEF RequestInv
<1>8. QED BY <1>3, <1>6, <1>7

(* A step in a batch, from what it records. *)
LEMMA BatchPaired ==
  ASSUME ResultsInv, RequestInv, turn.at \in BatchPlaces, turn'.at \in BatchPlaces,
         turn'.reply = turn.reply, copy' = copy, NEW u \in Seq(Messages), NEW M,
         ResultsFor(u, turn.reply.n, M), M \subseteq DOMAIN Calls, M \cap Answered = {},
         Answered' = Answered \cup M,
         turn'.at \in {"wave", "record"}
           => IsInjective(turn'.ready) /\ ToSet(turn'.ready) \subseteq 1 .. Wave,
         conv' = conv \o u, buffer' \in {buffer, buffer \o u}
  PROVE  RequestInv'
<1> DEFINE p == turn.reply  A == Answered
<1>1. /\ conv \in Seq(Messages) /\ Placed(conv) /\ OpenTo(conv, p, A) /\ Placed(copy) /\ OpenTo(copy, p, A)
      /\ buffer \in Seq(Messages) /\ Placed(buffer) /\ OpenTo(buffer, p, A) /\ WaveShape
  BY PlacedNow, OpenNow DEF Open
<1>2. /\ Calls = p.calls /\ A \subseteq DOMAIN p.calls /\ Calls' = Calls /\ Wave' = Wave
      /\ Answered' = A \cup M /\ turn'.reply = p
  BY <1>1 DEF Calls, WaveShape, Wave
<1>3. ResultsFor(u, p.n, M) /\ M \subseteq DOMAIN p.calls /\ M \cap A = {} /\ A \subseteq A \cup M
  BY <1>2
<1> HIDE DEF p, A
<1>4. /\ Placed(conv \o u) /\ OpenTo(conv \o u, p, A \cup M)
      /\ Placed(buffer \o u) /\ OpenTo(buffer \o u, p, A \cup M)
  BY <1>1, <1>3, AddResults
<1>5. OpenTo(buffer, p, A \cup M) /\ OpenTo(copy, p, A \cup M)
  BY <1>1, <1>3, OpenMore
<1>6. Open(conv)' /\ Open(buffer)' /\ Open(copy)'
  BY <1>2, <1>4, <1>5 DEF Open
<1>7. WaveShape'
  BY <1>2, <1>3 DEF WaveShape
<1>8. Own' = buffer' /\ turn'.at # "request"
  BY OwnBuffer DEF BatchPlaces
<1>9. PlacedInv'
  BY <1>1, <1>4, <1>6, <1>7, <1>8 DEF PlacedInv
<1>10. QED BY <1>8, <1>9 DEF RequestInv, SentIsPaired, At

(* Nothing is recorded. *)
LEMMA QuietPaired ==
  ASSUME ResultsInv, RequestInv, turn.at \in BatchPlaces, turn'.at \in BatchPlaces,
         turn'.reply = turn.reply, Answered' = Answered,
         turn'.at \in {"wave", "record"} => turn.at \in {"wave", "record"} /\ turn'.ready = turn.ready,
         UNCHANGED <<conv, buffer, copy>>
  PROVE  RequestInv'
<1> DEFINE u == <<>>
<1>1. u \in Seq(Messages) /\ conv \o u = conv
  BY PlacedNow
<1>2. ResultsFor(u, turn.reply.n, {})
  <2>1. DOMAIN u = {}
    OBVIOUS
  <2> HIDE DEF u
  <2>2. QED BY <2>1 DEF ResultsFor
<1>3. turn'.at \in {"wave", "record"}
        => IsInjective(turn'.ready) /\ ToSet(turn'.ready) \subseteq 1 .. Wave
  BY OpenNow DEF WaveShape
<1>4. {} \subseteq DOMAIN Calls /\ {} \cap Answered = {} /\ Answered' = Answered \cup {}
  OBVIOUS
<1> HIDE DEF u
<1>5. QED BY <1>1, <1>2, <1>3, <1>4, BatchPaired

(* The result of call k is recorded. *)
LEMMA ResultIs ==
  ASSUME ResultsInv, turn.at \in BatchPlaces, NEW k \in Nat, NEW s \in Seq(Messages)
  PROVE  LET u == <<Result(k)>>
         IN u \in Seq(Messages) /\ ResultsFor(u, turn.reply.n, {k}) /\ Append(s, Result(k)) = s \o u
<1>1. Result(k) \in Messages
  BY ReplyIs DEF ResultsInv, BatchPlaces
<1>2. OfReply(Result(k), turn.reply.n) /\ Result(k).k = k
  BY DEF OfReply, Result, Tool, IsTool
<1> DEFINE r == Result(k)  u == <<r>>
<1>3. r \in Messages /\ OfReply(r, turn.reply.n) /\ r.k = k
  BY <1>1, <1>2
<1> HIDE DEF r
<1>4. u \in Seq(Messages) /\ Append(s, r) = s \o u /\ DOMAIN u = {1} /\ u[1] = r
  BY <1>3, AppendJoins
<1> HIDE DEF u
<1>5. ResultsFor(u, turn.reply.n, {k})
  BY <1>3, <1>4 DEF ResultsFor
<1>6. QED BY <1>4, <1>5 DEF u, r

LEMMA RecordPaired ==
  ASSUME ResultsInv, RequestInv, turn.at \in BatchPlaces, turn'.at \in BatchPlaces,
         turn'.reply = turn.reply, copy' = copy, NEW k \in Nat, k \in DOMAIN Calls, k \notin Answered,
         Answered' = Answered \cup {k},
         turn'.at \in {"wave", "record"}
           => IsInjective(turn'.ready) /\ ToSet(turn'.ready) \subseteq 1 .. Wave,
         conv' = Append(conv, Result(k)), buffer' \in {buffer, Append(buffer, Result(k))}
  PROVE  RequestInv'
<1> DEFINE u == <<Result(k)>>
<1>1. /\ u \in Seq(Messages) /\ ResultsFor(u, turn.reply.n, {k})
      /\ Append(conv, Result(k)) = conv \o u /\ Append(buffer, Result(k)) = buffer \o u
  BY PlacedNow, OpenNow, ResultIs
<1>2. {k} \subseteq DOMAIN Calls /\ {k} \cap Answered = {}
  OBVIOUS
<1> HIDE DEF u
<1>3. QED BY <1>1, <1>2, BatchPaired

(* The calls of a reply. *)

LEMMA AnsweredNext ==
  ASSUME turn.at \in {"batch", "exec"}
  PROVE  Answered = 1 .. turn.next - 1
BY DEF Answered

LEMMA GateWavePaired == ASSUME ResultsInv, RequestInv, GateWave PROVE RequestInv'
<1>1. /\ TranscriptInv /\ turn.at = "batch" /\ turn.at \in BatchPlaces /\ turn.next = 1
      /\ buffer' = buffer /\ copy' = copy
  BY DEF ResultsInv, GateWave, InWave, ThisTurn, At, BatchPlaces
<1>2. PICK u, M : Gated(u, M)
  BY <1>1, GateWaveIs
<1>3. u \in Seq(Messages) /\ conv' = conv \o u /\ ResultsFor(u, turn.reply.n, M) /\ M \subseteq 1 .. Wave
  BY <1>2 DEF Gated
<1>4. Answered = {}
  <2>1. Answered = 1 .. 1 - 1
    BY <1>1, AnsweredNext
  <2>2. QED BY <2>1
<1>5. M \subseteq DOMAIN Calls
  <2>1. Calls \in Seq(Names) /\ Wave \in Nat /\ Wave <= Len(Calls)
    BY <1>1, InBatch, WaveIs
  <2>2. DOMAIN Calls = 1 .. Len(Calls) /\ Len(Calls) \in Nat
    BY <2>1
  <2>3. QED BY <1>3, <2>1, <2>2
<1>6. CASE End
  <2>1. turn'.at = "ending"
    BY <1>6, EndAt
  <2>2. /\ conv \in Seq(Messages) /\ Placed(conv) /\ OpenTo(conv, turn.reply, Answered)
        /\ Placed(buffer) /\ Placed(copy)
    BY <1>1, PlacedNow, OpenNow DEF Open
  <2>3. M \subseteq DOMAIN turn.reply.calls /\ M \cap Answered = {}
    BY <1>4, <1>5 DEF Calls
  <2>4. Placed(conv \o u)
    BY <1>3, <2>2, <2>3, AddResults
  <2>5. QED BY <1>1, <1>3, <2>1, <2>2, <2>4, NothingOpen DEF BatchPlaces
<1>7. CASE turn'.at = "wave" /\ turn'.reply = turn.reply /\ Lists(turn'.ready, 1 .. Wave \ M)
  <2>1. turn'.at \in BatchPlaces /\ Wave' = Wave
    BY <1>7 DEF BatchPlaces, Wave, Calls
  <2>2. ToSet(turn'.ready) = 1 .. Wave \ M /\ IsInjective(turn'.ready)
    BY <1>7 DEF Lists
  <2>3. Answered' = 1 .. Wave \ (1 .. Wave \ M)
    BY <1>7, <2>1, <2>2 DEF Answered
  <2>4. Answered' = Answered \cup M /\ M \cap Answered = {}
    BY <1>3, <1>4, <2>3
  <2>5. QED BY <1>1, <1>3, <1>5, <1>7, <2>1, <2>2, <2>4, BatchPaired
<1>8. QED BY <1>2, <1>6, <1>7 DEF Gated

LEMMA RunWavePaired == ASSUME ResultsInv, RequestInv, RunWave PROVE RequestInv'
<1>1. /\ turn.at = "wave" /\ turn.at \in BatchPlaces /\ ~At("request")
      /\ conv' = conv /\ buffer' = buffer /\ copy' = copy
  BY DEF RunWave, At, BatchPlaces, ThisTurn
<1>2. CASE End
  BY <1>1, <1>2, EndPaired
<1>3. CASE GoTo("record")
  <2>1. turn \in Turns
    BY <1>1, InBatch
  <2>2. turn'.at = "record" /\ turn'.reply = turn.reply /\ turn'.ready = turn.ready
    BY <1>3, <2>1 DEF GoTo, Turns
  <2>3. turn'.at \in BatchPlaces /\ Answered' = Answered
    BY <1>1, <2>2 DEF BatchPlaces, Answered, Wave, Calls
  <2>4. QED BY <1>1, <2>2, <2>3, QuietPaired
<1>4. QED BY <1>2, <1>3 DEF RunWave

LEMMA RecordWavePaired == ASSUME ResultsInv, RequestInv, RecordWave PROVE RequestInv'
<1>1. turn.at = "record" /\ turn.at \in BatchPlaces /\ buffer' = buffer /\ copy' = copy
  BY DEF RecordWave, At, BatchPlaces, ThisTurn
<1>2. turn \in Turns /\ turn.ready \in Seq(Nat) /\ Wave \in Nat
  BY <1>1, InBatch, WaveIs
<1>3. /\ IsInjective(turn.ready) /\ ToSet(turn.ready) \subseteq 1 .. Wave /\ Answered \subseteq DOMAIN Calls
      /\ Answered = 1 .. Wave \ ToSet(turn.ready)
  BY <1>1, OpenNow DEF WaveShape, Answered
<1>4. CASE turn.ready = <<>>
  <2>1. turn' = [turn EXCEPT !.at = "batch", !.next = Wave + 1] /\ conv' = conv
    BY <1>4 DEF RecordWave
  <2>2. turn'.at = "batch" /\ turn'.reply = turn.reply /\ turn'.next = Wave + 1
    BY <1>2, <2>1 DEF Turns
  <2>3. Answered' = 1 .. (Wave + 1) - 1
    BY <2>2 DEF Answered
  <2>4. ToSet(turn.ready) = {}
    BY <1>4 DEF ToSet
  <2>5. Answered' = Answered
    <3>1. (Wave + 1) - 1 = Wave
      BY <1>2
    <3>2. Answered = 1 .. Wave
      BY <1>3, <2>4
    <3>3. QED BY <2>3, <3>1, <3>2
  <2>6. QED BY <1>1, <2>1, <2>2, <2>5, QuietPaired DEF BatchPlaces
<1>5. CASE turn.ready # <<>>
  <2> DEFINE q == turn.ready  k == Head(q)  r == Tail(q)
  <2>1. conv' = Append(conv, Result(k)) /\ turn' = [turn EXCEPT !.ready = r]
    BY <1>5 DEF RecordWave, Record
  <2>2. turn'.at = "record" /\ turn'.reply = turn.reply /\ turn'.ready = r
    BY <1>1, <1>2, <2>1 DEF Turns
  <2>3. q \in Seq(Nat) /\ q # <<>> /\ IsInjective(q)
    BY <1>2, <1>3, <1>5
  <2> HIDE DEF q
  <2>4. /\ Len(q) \in Nat /\ Len(q) # 0 /\ DOMAIN q = 1 .. Len(q) /\ k = q[1]
        /\ DOMAIN r = 1 .. Len(q) - 1 /\ \A y \in 1 .. Len(q) - 1 : r[y] = q[y + 1]
    BY <2>3
  <2>5. \A y, z \in DOMAIN q : q[y] = q[z] => y = z
    BY <2>3 DEF IsInjective
  <2> HIDE DEF k, r
  <2>6. /\ 1 \in DOMAIN q /\ \A y \in DOMAIN r : y \in Nat /\ y + 1 \in DOMAIN q /\ y + 1 # 1 /\ r[y] = q[y + 1]
        /\ \A y \in DOMAIN q : y # 1 => y - 1 \in DOMAIN r /\ (y - 1) + 1 = y
    BY <2>4
  <2>7. IsInjective(r)
    <3>1. ASSUME NEW y \in DOMAIN r, NEW z \in DOMAIN r, r[y] = r[z] PROVE y = z
      <4>1. y + 1 = z + 1 /\ y \in Nat /\ z \in Nat
        BY <2>5, <2>6, <3>1
      <4>2. QED BY <4>1
    <3>2. QED BY <3>1 DEF IsInjective
  <2>8. ToSet(q) = ToSet(r) \cup {k} /\ k \notin ToSet(r)
    <3>1. ASSUME NEW y \in DOMAIN q PROVE q[y] = k \/ \E z \in DOMAIN r : r[z] = q[y]
      <4>1. CASE y = 1
        BY <2>4, <4>1
      <4>2. CASE y # 1
        <5>1. y - 1 \in DOMAIN r /\ r[y - 1] = q[y]
          BY <2>6, <4>2
        <5>2. QED BY <5>1
      <4>3. QED BY <4>1, <4>2
    <3>2. \A z \in DOMAIN r : r[z] # k /\ \E y \in DOMAIN q : q[y] = r[z]
      BY <2>4, <2>5, <2>6
    <3>3. \E y \in DOMAIN q : q[y] = k
      BY <2>4, <2>6
    <3>4. QED BY <3>1, <3>2, <3>3 DEF ToSet
  <2>9. /\ ToSet(q) \subseteq 1 .. Wave /\ Answered = 1 .. Wave \ ToSet(q) /\ turn'.at \in BatchPlaces
        /\ Wave' = Wave
    BY <1>3, <2>2 DEF q, BatchPlaces, Wave, Calls
  <2>10. Answered' = 1 .. Wave \ ToSet(r)
    BY <2>2, <2>9 DEF Answered
  <2>11. k \in 1 .. Wave /\ k \notin Answered /\ Answered' = Answered \cup {k} /\ ToSet(r) \subseteq 1 .. Wave
    BY <2>8, <2>9, <2>10
  <2>12. k \in DOMAIN Calls /\ k \in Nat
    <3>1. Calls \in Seq(Names) /\ Wave <= Len(Calls)
      BY <1>1, InBatch, WaveIs
    <3>2. DOMAIN Calls = 1 .. Len(Calls) /\ Len(Calls) \in Nat
      BY <3>1
    <3>3. QED BY <1>2, <2>11, <3>1, <3>2
  <2>13. QED BY <1>1, <2>1, <2>2, <2>7, <2>9, <2>11, <2>12, RecordPaired
<1>6. QED BY <1>4, <1>5

(* The next call is answered. *)
LEMMA NextAnswered ==
  ASSUME ResultsInv, turn.at \in {"batch", "exec"}, turn.next <= Len(Calls),
         turn'.at = "batch", turn'.next = turn.next + 1
  PROVE  /\ turn.next \in Nat /\ turn.next \in DOMAIN Calls /\ turn.next \notin Answered
         /\ Answered' = Answered \cup {turn.next}
<1>1. turn.next \in Nat /\ turn.next # 0 /\ Calls \in Seq(Names)
  BY InBatch DEF BatchPlaces
<1>2. turn.next \in DOMAIN Calls
  BY <1>1
<1>3. Answered = 1 .. turn.next - 1 /\ Answered' = 1 .. (turn.next + 1) - 1
  BY DEF Answered
<1>4. QED BY <1>1, <1>2, <1>3

LEMMA NextPaired ==
  ASSUME ResultsInv, RequestInv, turn.at \in {"batch", "exec"}, turn.next <= Len(Calls),
         turn'.at = "batch", turn'.reply = turn.reply, turn'.next = turn.next + 1, copy' = copy,
         Record(Result(turn.next)), buffer' \in {buffer, Append(buffer, Result(turn.next))}
  PROVE  RequestInv'
<1>1. turn.at \in BatchPlaces /\ turn'.at \in BatchPlaces /\ turn'.at \notin {"wave", "record"}
  BY DEF BatchPlaces
<1>2. /\ turn.next \in Nat /\ turn.next \in DOMAIN Calls /\ turn.next \notin Answered
      /\ Answered' = Answered \cup {turn.next}
  BY NextAnswered
<1>3. conv' = Append(conv, Result(turn.next))
  BY DEF Record
<1>4. QED BY <1>1, <1>2, <1>3, RecordPaired

LEMMA DenyCallPaired == ASSUME ResultsInv, RequestInv, DenyCall PROVE RequestInv'
<1>1. turn.at = "batch" /\ turn.at \in BatchPlaces /\ turn.next <= Len(Calls) /\ copy' = copy
  BY DEF DenyCall, CallNow, At, BatchPlaces, ThisTurn
<1>2. turn \in Turns /\ turn.next \in Nat
  BY <1>1, InBatch
<1>3. turn'.at = "batch" /\ turn'.reply = turn.reply /\ turn'.next = turn.next + 1
  BY <1>1, <1>2 DEF DenyCall, Turns
<1>4. QED BY <1>1, <1>3, NextPaired DEF DenyCall

LEMMA ExecuteCallPaired == ASSUME ResultsInv, RequestInv, ExecuteCall PROVE RequestInv'
<1>1. turn.at = "batch" /\ turn.at \in BatchPlaces
  BY DEF ExecuteCall, CallNow, At, BatchPlaces
<1>2. turn \in Turns
  BY <1>1, InBatch
<1>3. turn'.at = "exec" /\ turn'.reply = turn.reply /\ turn'.next = turn.next
  BY <1>2, GoToAt DEF ExecuteCall, Places
<1>4. Answered' = Answered
  BY <1>1, <1>3 DEF Answered
<1>5. QED BY <1>1, <1>3, <1>4, QuietPaired DEF ExecuteCall, ThisTurn, BatchPlaces

(* A call that is executed is one of the batch. *)
LEMMA ExecIs ==
  ASSUME ResultsInv, At("exec")
  PROVE  /\ turn.at = "exec" /\ turn.at \in BatchPlaces /\ turn \in Turns /\ ~At("request")
         /\ turn.next \in Nat /\ turn.next <= Len(Calls)
<1>1. turn.at = "exec" /\ turn.at \in BatchPlaces
  BY DEF At, BatchPlaces
<1>2. /\ turn \in Turns /\ ~At("request") /\ turn.next \in Nat /\ turn.next \in DOMAIN Calls
      /\ Calls \in Seq(Names)
  BY <1>1, InBatch
<1>3. turn.next <= Len(Calls)
  BY <1>2
<1>4. QED BY <1>1, <1>2, <1>3

LEMMA RecordCallPaired == ASSUME ResultsInv, RequestInv, RecordCall PROVE RequestInv'
<1>1. /\ turn.at = "exec" /\ turn.at \in BatchPlaces /\ turn \in Turns /\ ~At("request")
      /\ turn.next \in Nat /\ turn.next <= Len(Calls) /\ copy' = copy
  BY ExecIs DEF RecordCall, ThisTurn
<1>2. CASE RecordBoth(Result(turn.next)) /\ turn' = [turn EXCEPT !.at = "batch", !.next = turn.next + 1]
  <2>1. turn'.at = "batch" /\ turn'.reply = turn.reply /\ turn'.next = turn.next + 1
    BY <1>1, <1>2 DEF Turns
  <2>2. QED BY <1>1, <1>2, <2>1, NextPaired DEF RecordBoth
<1>3. CASE End /\ UNCHANGED <<conv, buffer, journal>>
  BY <1>1, <1>3, EndPaired
<1>4. QED BY <1>2, <1>3 DEF RecordCall

LEMMA RefuseFinishPaired == ASSUME ResultsInv, RequestInv, RefuseFinish PROVE RequestInv'
<1> DEFINE t == [turn EXCEPT !.at = "batch", !.next = turn.next + 1]
<1>1. /\ turn.at = "exec" /\ turn \in Turns /\ turn.next \in Nat /\ turn.next <= Len(Calls)
      /\ copy' = copy /\ GoOn(t) /\ RecordBoth(Result(turn.next))
  BY ExecIs DEF RefuseFinish, ThisTurn
<1>2. t \in Turns /\ t.at = "batch" /\ t.reply = turn.reply /\ t.next = turn.next + 1
  <2>1. turn.next + 1 \in Nat
    BY <1>1
  <2>2. QED BY <1>1, <2>1 DEF Turns, Places
<1> HIDE DEF t
<1>3. turn'.at = "batch" /\ turn'.reply = turn.reply /\ turn'.next = turn.next + 1
  BY <1>1, <1>2 DEF GoOn, Turns
<1>4. QED BY <1>1, <1>3, NextPaired DEF RecordBoth

LEMMA AcceptFinishPaired == ASSUME ResultsInv, RequestInv, AcceptFinish PROVE RequestInv'
<1> DEFINE k == turn.next  u == <<Result(k)>>
<1>1. /\ turn.at = "exec" /\ turn.at \in BatchPlaces /\ copy' = copy
      /\ buffer' = Append(buffer, Result(k)) /\ conv' = buffer' /\ turn'.at = "ending"
  BY ExecIs, EndAt DEF AcceptFinish, ThisTurn
<1>2. k \in Nat /\ k # 0 /\ k \in DOMAIN Calls
  BY <1>1, InBatch
<1>3. /\ buffer \in Seq(Messages) /\ Placed(buffer) /\ OpenTo(buffer, turn.reply, Answered) /\ Placed(copy)
  BY <1>1, PlacedNow, OpenNow DEF Open
<1>4. k \notin Answered
  <2>1. Answered = 1 .. k - 1
    BY <1>1, AnsweredNext
  <2> HIDE DEF k
  <2>2. QED BY <1>2, <2>1
<1> HIDE DEF k
<1>5. u \in Seq(Messages) /\ ResultsFor(u, turn.reply.n, {k}) /\ Append(buffer, Result(k)) = buffer \o u
  BY <1>1, <1>2, <1>3, ResultIs
<1> HIDE DEF u
<1>6. {k} \subseteq DOMAIN turn.reply.calls /\ {k} \cap Answered = {}
  BY <1>2, <1>4 DEF Calls
<1>7. Placed(buffer \o u)
  BY <1>3, <1>5, <1>6, AddResults
<1>8. QED BY <1>1, <1>3, <1>5, <1>7, NothingOpen DEF BatchPlaces

LEMMA PlainOne ==
  ASSUME NEW s \in Seq(Messages), NEW m \in Messages, Plain(m), Placed(s)
  PROVE  Placed(Append(s, m))
<1> DEFINE u == <<m>>
<1>1. u \in Seq(Messages) /\ Append(s, m) = s \o u
  BY AppendJoins
<1>2. \A x \in ToSet(u) : Plain(x)
  BY DEF ToSet
<1> HIDE DEF u
<1>3. QED BY <1>1, <1>2, AddPlain

LEMMA EndBatchPaired == ASSUME ResultsInv, RequestInv, EndBatch PROVE RequestInv'
<1>1. turn.at = "batch" /\ turn.at \in BatchPlaces /\ copy' = copy
  BY DEF EndBatch, At, BatchPlaces, ThisTurn
<1>2. turn \in Turns
  BY <1>1, InBatch
<1>3. turn'.at \in {"ending", "top"}
  BY <1>2, EndAt, GoToAt DEF EndBatch, Places
<1>4. conv \in Seq(Messages) /\ Placed(conv) /\ Placed(copy)
  BY PlacedNow
<1>5. Placed(Append(conv, Note))
  BY <1>4, MakesMessages, PlainMessages, PlainOne
<1>6. Placed(conv') /\ Placed(buffer')
  BY <1>4, <1>5 DEF EndBatch, Record
<1>7. QED BY <1>1, <1>3, <1>4, <1>6, NothingOpen DEF BatchPlaces

LEMMA CompletePaired == ASSUME ResultsInv, RequestInv, Complete PROVE RequestInv'
<1>1. TranscriptInv /\ ~At("request") /\ copy' = copy
  BY DEF ResultsInv, Complete, At, ThisTurn
<1>2. PICK u : Completed(u)
  BY <1>1, CompleteIs
<1>3. \A m \in ToSet(u) : Plain(m)
  BY <1>2, CompletedPlain
<1>4. u \in Seq(Messages) /\ conv' = conv \o u /\ buffer' = buffer \o u
  BY <1>2 DEF Completed
<1>5. turn'.at \in {"ending", "top"}
  BY <1>2, EndAt DEF Completed
<1>6. /\ conv \in Seq(Messages) /\ Placed(conv) /\ Placed(copy)
      /\ buffer \in Seq(Messages) /\ Placed(buffer)
  BY <1>1, PlacedNow
<1>7. Placed(conv') /\ Placed(buffer')
  BY <1>3, <1>4, <1>6, AddPlain
<1>8. QED BY <1>1, <1>5, <1>6, <1>7, NothingOpen DEF BatchPlaces

(* Without a turn, and the dispatcher's. *)

LEMMA BeginTurnPaired == ASSUME ResultsInv, RequestInv, BeginTurn PROVE RequestInv'
<1> DEFINE new == (IF conv = <<>> THEN <<System>> ELSE <<>>) \o <<User(used.prompts + 1)>>
<1>1. conv' = conv \o new /\ buffer' = <<>> /\ turn' = Beginning /\ copy' = copy
  BY DEF BeginTurn
<1>2. new \in Seq(Messages) /\ \A m \in ToSet(new) : Plain(m)
  BY PromptPlain DEF ResultsInv
<1> HIDE DEF new
<1>3. turn'.at = "clone"
  BY <1>1 DEF Beginning
<1>4. Placed(conv \o new)
  BY <1>2, PlacedNow, AddPlain
<1>5. QED BY <1>1, <1>3, <1>4, PlacedNow, NothingPlaced, NothingOpen DEF BatchPlaces

LEMMA FlushBangPaired == ASSUME ResultsInv, RequestInv, FlushBang PROVE RequestInv'
<1> DEFINE waiting == [i \in 1 .. bang |-> Bash]
<1>1. conv' = conv \o waiting /\ buffer' = <<>> /\ turn' = NoTurn /\ copy' = copy
  BY DEF FlushBang
<1>2. waiting \in Seq(Messages) /\ \A m \in ToSet(waiting) : Plain(m)
  BY WaitingPlain DEF ResultsInv
<1> HIDE DEF waiting
<1>3. turn'.at = "idle"
  BY <1>1 DEF NoTurn
<1>4. Placed(conv \o waiting)
  BY <1>2, PlacedNow, AddPlain
<1>5. QED BY <1>1, <1>3, <1>4, PlacedNow, NothingPlaced, NothingOpen DEF BatchPlaces

LEMMA ClearPaired == ASSUME ClearConversation PROVE RequestInv'
<1>1. conv' = <<>> /\ buffer' = <<>> /\ turn'.at = "idle" /\ copy' = NoCopy
  BY DEF ClearConversation, NoTurn, Command, Waiting
<1>2. QED BY <1>1, NothingPlaced, NothingOpen DEF BatchPlaces

(* The turn is left where it is, with its buffer: what is sent stays paired.        *)
LEMMA AsidePaired ==
  ASSUME ResultsInv, RequestInv, turn' = turn, buffer' = buffer,
         Placed(conv'), Placed(copy'),
         turn.at \in BatchPlaces =>
           /\ OpenTo(conv', turn.reply, Answered) /\ OpenTo(copy', turn.reply, Answered)
  PROVE  RequestInv'
<1>1. Own' = Own /\ Answered' = Answered /\ Calls' = Calls /\ Wave' = Wave
  BY TurnStays DEF ResultsInv, Answered, Wave, Calls
<1>2. PlacedInv'
  BY <1>1 DEF RequestInv, PlacedInv, Open, WaveShape
<1>3. Paired' <=> Paired
  BY DEF Paired, Answers
<1>4. SentIsPaired'
  BY <1>3 DEF RequestInv, SentIsPaired, At
<1>5. QED BY <1>2, <1>4 DEF RequestInv

LEMMA StillPaired ==
  ASSUME ResultsInv, RequestInv, UNCHANGED <<turn, buffer, conv>>, copy' \in {copy, conv}
  PROVE  RequestInv'
<1>1. Placed(conv) /\ Placed(copy)
  BY PlacedNow
<1>2. turn.at \in BatchPlaces => OpenTo(conv, turn.reply, Answered) /\ OpenTo(copy, turn.reply, Answered)
  BY OpenNow DEF Open
<1>3. QED BY <1>1, <1>2, AsidePaired

(* Where the calls of a reply are open the order is lost, elsewhere not. *)
LEMMA BashPushPaired == ASSUME ResultsInv, RequestInv, BashPush PROVE OrderInv'
<1>1. turn' = turn /\ buffer' = buffer /\ copy' = copy
  BY DEF BashPush
<1>2. CASE Record(Bash) /\ strewn' = (strewn \/ Unanswered)
  <2>1. SUFFICES ASSUME ~Unanswered PROVE RequestInv'
    BY <1>2 DEF OrderInv
  <2>2. conv' = Append(conv, Bash) /\ turn.at \notin BatchPlaces
    BY <1>2, <2>1 DEF Record, Unanswered, BatchPlaces
  <2>3. Placed(Append(conv, Bash))
    BY PlacedNow, MakesMessages, PlainMessages, PlainOne
  <2>4. QED BY <1>1, <2>2, <2>3, PlacedNow, AsidePaired
<1>3. CASE UNCHANGED <<conv, journal, strewn>>
  BY <1>1, <1>3, StillPaired DEF OrderInv
<1>4. QED BY <1>2, <1>3 DEF BashPush

LEMMA SteerPaired == ASSUME ResultsInv, RequestInv, Steer PROVE RequestInv'
BY StillPaired DEF Steer

LEMMA FreeCurrentPaired == ASSUME ResultsInv, RequestInv, FreeCurrent PROVE RequestInv'
BY StillPaired DEF FreeCurrent

LEMMA UserBashPaired == ASSUME ResultsInv, RequestInv, UserBash PROVE RequestInv'
BY StillPaired DEF UserBash

LEMMA UndoPaired == ASSUME ResultsInv, RequestInv, Undo PROVE RequestInv'
<1>1. turn' = turn /\ buffer' = buffer /\ copy' = copy /\ conv' = Undone(conv)
  BY DEF Undo
<1>2. Placed(Undone(conv)) /\ \A p, A : OpenTo(conv, p, A) => OpenTo(Undone(conv), p, A)
  BY PlacedNow, UndonePlaced
<1>3. turn.at \in BatchPlaces => OpenTo(conv, turn.reply, Answered) /\ OpenTo(copy, turn.reply, Answered)
  BY OpenNow DEF Open
<1>4. QED BY <1>1, <1>2, <1>3, PlacedNow, AsidePaired

LEMMA EndCompactPaired == ASSUME ResultsInv, RequestInv, EndCompact PROVE RequestInv'
<1>1. turn' = turn /\ buffer' = buffer /\ copy' = NoCopy /\ conv' = Compacted(copy) /\ copy # NoCopy
  BY DEF EndCompact
<1>2. copy \in Seq(Messages) /\ Placed(copy)
  BY <1>1, PlacedNow
<1>3. Placed(Compacted(copy)) /\ \A p, A : OpenTo(copy, p, A) => OpenTo(Compacted(copy), p, A)
  BY <1>2, CompactedPlaced
<1>4. turn.at \in BatchPlaces => OpenTo(copy, turn.reply, Answered)
  BY OpenNow DEF Open
<1>5. QED BY <1>1, <1>3, <1>4, NothingPlaced, AsidePaired

LEMMA AbortPaired == ASSUME ResultsInv, RequestInv, Abort PROVE RequestInv'
BY StillPaired DEF Abort

LEMMA BeginCompactPaired == ASSUME ResultsInv, RequestInv, BeginCompact PROVE RequestInv'
BY StillPaired DEF BeginCompact

LEMMA RequestInitInv == ASSUME TranscriptInit PROVE RequestInv
<1>1. conv = <<>> /\ buffer = <<>> /\ copy = NoCopy /\ turn.at = "idle"
  BY DEF TranscriptInit, NoTurn
<1>2. Own = <<>>
  BY <1>1 DEF Own, At
<1>3. QED BY <1>1, <1>2, NothingPlaced DEF RequestInv, PlacedInv, SentIsPaired, BatchPlaces

LEMMA RequestStep ==
  ASSUME ResultsInv, OrderInv, [TranscriptNext]_transcriptVars
  PROVE  OrderInv'
<1>1. CASE ClearConversation
  BY <1>1, ClearPaired DEF OrderInv
<1>2. CASE strewn /\ ~ClearConversation
  <2>1. strewn' = strewn \/ (BashPush /\ strewn' = (strewn \/ Unanswered))
    BY <1>2 DEF TranscriptNext, TurnStep, ThisTurn, transcriptVars, CloneConversation, SendRequest,
       RequestFails, ContextTooLong, Respond, StopTurn, GateWave, RunWave, RecordWave, DenyCall,
       ExecuteCall, RecordCall, RefuseFinish, AcceptFinish, EndBatch, Complete, FreeCurrent,
       FlushBang, Shrink, BeginTurn, Abort, Steer, UserBash, BashPush, Undo, BeginCompact, EndCompact
  <2>2. QED BY <1>2, <2>1 DEF OrderInv
<1>3. CASE RequestInv /\ TurnStep
  <2>1. RequestInv'
    BY <1>3, ClonePaired, SendRequestPaired, RequestFailsPaired, ContextTooLongPaired,
       RespondPaired, StopTurnPaired, GateWavePaired, RunWavePaired, RecordWavePaired,
       DenyCallPaired, ExecuteCallPaired, RecordCallPaired, RefuseFinishPaired,
       AcceptFinishPaired, EndBatchPaired, CompletePaired, FreeCurrentPaired, FlushBangPaired,
       ShrinkPaired DEF TurnStep
  <2>2. QED BY <2>1 DEF OrderInv
<1>4. CASE /\ RequestInv
           /\ BeginTurn \/ Abort \/ Steer \/ UserBash \/ Undo \/ BeginCompact \/ EndCompact
  <2>1. RequestInv'
    BY <1>4, BeginTurnPaired, AbortPaired, SteerPaired, UserBashPaired, UndoPaired,
       BeginCompactPaired, EndCompactPaired
  <2>2. QED BY <2>1 DEF OrderInv
<1>5. CASE RequestInv /\ BashPush
  BY <1>5, BashPushPaired
<1>6. CASE RequestInv /\ UNCHANGED transcriptVars
  BY <1>6, StillPaired DEF transcriptVars, OrderInv
<1>7. QED BY <1>1, <1>2, <1>3, <1>4, <1>5, <1>6 DEF TranscriptNext, OrderInv

(* What goes to the provider is paired: each reply has the results of its calls     *)
(* right behind it, each once, and there is no other, whatever was cancelled,      *)
(* denied, steered, compacted, undone or cleared before, unless a reply heads the  *)
(* conversation or the message of a bang command was recorded between the calls    *)
(* of a reply and their results.  For any commands, batches and bounds.            *)
THEOREM RequestsArePaired == TranscriptSpec => []RequestIsValid
<1>1. TranscriptInit => ResultsInv /\ OrderInv
  BY ResultsInitInv, RequestInitInv DEF OrderInv
<1>2. (ResultsInv /\ OrderInv) /\ [TranscriptNext]_transcriptVars => (ResultsInv /\ OrderInv)'
  BY ResultsStep, RequestStep
<1>3. OrderInv => RequestIsValid
  BY DEF OrderInv, RequestInv, SentIsPaired, RequestIsValid
<1>4. QED BY <1>1, <1>2, <1>3, PTL DEF TranscriptSpec

-----------------------------------------------------------------------------
(* The gate. *)

USE RequestsGiven

-----------------------------------------------------------------------------
(* Type correctness *)

\* Whatever the tasks, the user and the cancellations do, the types are kept.
LEMMA TypeStep == Types /\ [Next]_vars => Types'
<1> SUFFICES ASSUME Types, [Next]_vars PROVE Types'
  OBVIOUS
<1> USE DEF Types, Go, waiters, words, tokens, Idle
<1>1. ASSUME NEW r \in Requests, Register(r) PROVE Types'
  BY <1>1 DEF Register
<1>2. ASSUME NEW r \in Requests, TaskStep(r) PROVE Types'
  <2>1. CASE Publish(r)
    BY <2>1 DEF Publish
  <2>2. CASE Wait(r)
    BY <2>2 DEF Wait
  <2>3. CASE Wake(r)
    BY <2>3 DEF Wake
  <2>4. CASE Stop(r)
    BY <2>4 DEF Stop
  <2>5. CASE Escalate(r)
    BY <2>5 DEF Escalate
  <2>6. CASE Withdraw(r)
    BY <2>6 DEF Withdraw
  <2>7. QED BY <1>2, <2>1, <2>2, <2>3, <2>4, <2>5, <2>6 DEF TaskStep
<1>3. ASSUME NEW r \in Requests, Expire(r) PROVE Types'
  BY <1>3 DEF Expire
<1>4. ASSUME NEW r \in Requests, Answer(r) PROVE Types'
  BY <1>4 DEF Answer, LookUp
<1>5. ASSUME NEW r \in Requests, Bang(r) PROVE Types'
  BY <1>5 DEF Bang
<1>6. ASSUME NEW r \in Requests, Interrupt(r) PROVE Types'
  BY <1>6 DEF Interrupt
<1>7. ASSUME NEW r \in Requests, Dropped(r) PROVE Types'
  BY <1>7 DEF Dropped
<1>8. CASE DispatcherStep
  <2>1. CASE Decide
    BY <2>1 DEF Decide
  <2>2. CASE Notify
    BY <2>2 DEF Notify
  <2>3. CASE BangDone
    BY <2>3 DEF BangDone
  <2>4. CASE Sweep
    BY <2>4 DEF Sweep
  <2>5. CASE Clear
    BY <2>5 DEF Clear
  <2>6. QED BY <1>8, <2>1, <2>2, <2>3, <2>4, <2>5 DEF DispatcherStep
<1>9. CASE CancelTokens
  BY <1>9 DEF CancelTokens, Meets
<1>10. CASE UNCHANGED vars
  BY <1>10 DEF vars
<1>11. QED
  BY <1>1, <1>2, <1>3, <1>4, <1>5, <1>6, <1>7, <1>8, <1>9, <1>10 DEF Next

-----------------------------------------------------------------------------
(* No approval after the abort, and no entry without its request *)

\* A step of a task keeps AbortInv: only Publish adds to the pending requests, a
\* request that is published has no decision yet, and what a task reads is what
\* was decided.
LEMMA TaskKeepsAbortInv ==
  ASSUME AbortInv, Types', NEW r \in Requests, TaskStep(r) \/ Expire(r) \/ Dropped(r)
  PROVE  AbortInv'
<1> USE DEF AbortInv, TypeOK, Types, NoStaleEntry, PublishedFirst, WorksOnLive, AgreedBefore,
            NoLateApproval, Go, waiters, words, tokens, Approvals
<1>1. CASE Publish(r)
  <2>1. decision' = decision /\ aborted' = aborted /\ agreed' = agreed /\ verdict' = verdict
    BY <1>1 DEF Publish
  <2>2. AgreedBefore' /\ NoLateApproval'
    BY <2>1
  <2>3. NoStaleEntry'
    BY <1>1 DEF Publish
  <2>4. PublishedFirst' /\ WorksOnLive'
    BY <1>1 DEF Publish
  <2>5. QED BY <2>2, <2>3, <2>4
<1>2. CASE Wait(r)
  BY <1>2 DEF Wait
<1>3. CASE Wake(r)
  <2>1. NoLateApproval'
    BY <1>3 DEF Wake
  <2>2. QED BY <1>3, <2>1 DEF Wake
<1>4. CASE Stop(r)
  BY <1>4 DEF Stop
<1>5. CASE Escalate(r)
  BY <1>5 DEF Escalate
<1>6. CASE Withdraw(r)
  BY <1>6 DEF Withdraw
<1>7. CASE Expire(r)
  BY <1>7 DEF Expire
<1>8. CASE Dropped(r)
  BY <1>8 DEF Dropped
<1>9. QED BY <1>1, <1>2, <1>3, <1>4, <1>5, <1>6, <1>7, <1>8 DEF TaskStep

\* Approve takes up a request that was never part of a cancellation, and no
\* cancellation comes before it has written its decision.
LEMMA DispatcherKeepsAbortInv ==
  ASSUME AbortInv, Types',
         DispatcherStep \/ CancelTokens \/ (\E r \in Requests : Answer(r) \/ Bang(r))
  PROVE  AbortInv'
<1> USE DEF AbortInv, TypeOK, Types, NoStaleEntry, PublishedFirst, WorksOnLive, AgreedBefore,
            NoLateApproval, Go, waiters, words, tokens, Idle, Approvals
<1>1. ASSUME NEW r \in Requests, Answer(r) PROVE AbortInv'
  <2>1. PICK word \in {"yes", "no", "always"} : LookUp(r, word)
    BY <1>1 DEF Answer
  <2>2. CASE r \in Approvals \cap stopped
    BY <2>1, <2>2 DEF LookUp
  <2>3. CASE r \notin Approvals \cap stopped
    <3>1. dispatcher' = [at |-> "decide", req |-> r, word |-> word]
      BY <2>1, <2>3 DEF LookUp
    <3>2. r \in pending /\ r \notin Approvals \cap aborted
      BY <2>1, <2>3 DEF LookUp
    <3>3. QED BY <2>1, <3>1, <3>2, <2>3 DEF LookUp
  <2>4. QED BY <2>2, <2>3
<1>2. ASSUME NEW r \in Requests, Bang(r) PROVE AbortInv'
  <2>1. dispatcher'.at = "bang" /\ dispatcher.at = "idle"
    BY <1>2 DEF Bang
  <2>2. PICK next \in {"registered", "done"} :
          at[r] = "new" /\ at' = [at EXCEPT ![r] = next]
    BY <1>2 DEF Bang
  <2>3. UNCHANGED <<pending, decision, aborted, agreed, verdict>>
    BY <1>2 DEF Bang
  <2>4. PublishedFirst' /\ WorksOnLive'
    BY <2>1, <2>2, <2>3
  <2>5. AgreedBefore' /\ NoLateApproval'
    BY <2>3
  <2>6. NoStaleEntry'
    BY <2>1, <2>2, <2>3
  <2>7. QED BY <2>4, <2>5, <2>6
<1>3. CASE Decide
  BY <1>3 DEF Decide
<1>4. CASE Notify
  BY <1>4 DEF Notify
<1>5. CASE BangDone
  BY <1>5 DEF BangDone
<1>6. CASE Sweep
  BY <1>6 DEF Sweep
<1>7. CASE Clear
  BY <1>7 DEF Clear
<1>8. CASE CancelTokens
  <2>1. AgreedBefore' /\ NoLateApproval'
    BY <1>8 DEF CancelTokens, Meets
  <2>2. QED BY <1>8, <2>1 DEF CancelTokens, Meets
<1>9. QED
  BY <1>1, <1>2, <1>3, <1>4, <1>5, <1>6, <1>7, <1>8 DEF DispatcherStep

\* AbortInv holds at the start and every step keeps it.
LEMMA AbortInvHolds == Spec => []AbortInv
<1> USE DEF AbortInv, TypeOK, NoStaleEntry, PublishedFirst, WorksOnLive, AgreedBefore,
            NoLateApproval, Approvals
<1>1. Init => AbortInv
  BY DEF Init, Types, Idle
<1>2. AbortInv /\ [Next]_vars => AbortInv'
  <2> SUFFICES ASSUME AbortInv, [Next]_vars PROVE AbortInv'
    OBVIOUS
  <2>1. Types'
    BY TypeStep
  <2>2. ASSUME NEW r \in Requests, Register(r) \/ Interrupt(r) PROVE AbortInv'
    BY <2>1, <2>2 DEF Types, Register, Interrupt, Go, waiters, words, tokens
  <2>3. CASE UNCHANGED vars
    BY <2>1, <2>3 DEF vars, waiters, words, tokens
  <2>4. QED
    BY <2>1, <2>2, <2>3, TaskKeepsAbortInv, DispatcherKeepsAbortInv DEF Next
<1>3. QED BY <1>1, <1>2, PTL DEF Spec

\* The variables of the gate keep their types in every behaviour, and no request
\* that is over is left in the maps, but while a cancellation clears them.
THEOREM TypeCorrect == Spec => []TypeOK
<1>1. AbortInv => TypeOK
  BY DEF AbortInv
<1>2. QED BY <1>1, AbortInvHolds, PTL

\* request_approval returns no permission that was given after the cancellation
\* that met the request, whatever the order in which tasks publish and wake, users
\* answer and cancellations sweep.
THEOREM LateApprovalRefused == Spec => []NoLateApproval
<1>1. AbortInv => NoLateApproval
  BY DEF AbortInv
<1>2. QED BY <1>1, AbortInvHolds, PTL
=============================================================================
