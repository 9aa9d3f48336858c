----------------------------- MODULE AMUDPProofs -----------------------------
(***************************************************************************)
(* TLAPS proofs about the request/reply protocol of AMUDP, for any set of  *)
(* endpoints and environments: any depth, any sequence-number width that   *)
(* the datagrams' lag allows, any losses, refusals and time limits.        *)
(***************************************************************************)
EXTENDS AMUDP, TLAPS

USE EnvironmentAssumption

-----------------------------------------------------------------------------
(***************************************************************************)
(* Slots and environments.                                                 *)
(***************************************************************************)
LEMMA SlotFacts ==
  /\ Instances \subseteq Nat
  /\ \A c \in Slots : /\ Src(c) \in Nodes /\ Dst(c) \in Nodes
                      /\ Inst(c) \in Instances
                      /\ <<Src(c), Dst(c)>> \in Pairs
                      /\ c = <<Src(c), Dst(c), Inst(c)>>
  /\ \A p \in Pairs, i \in Instances : <<p[1], p[2], i>> \in Slots
<1>1. Instances \subseteq Nat
  BY DEF Environment, Instances
<1>2. \A p \in Pairs : p \in Nodes \X Nodes
  BY DEF Environment, Pairs
<1>3. ASSUME NEW c \in Slots
      PROVE  /\ Src(c) \in Nodes /\ Dst(c) \in Nodes /\ Inst(c) \in Instances
             /\ <<Src(c), Dst(c)>> \in Pairs /\ c = <<Src(c), Dst(c), Inst(c)>>
  <2>1. PICK p \in Pairs, i \in Instances : c = <<p[1], p[2], i>>
    BY DEF Slots
  <2>2. Src(c) = p[1] /\ Dst(c) = p[2] /\ Inst(c) = i
    BY <2>1 DEF Src, Dst, Inst
  <2>3. p = <<p[1], p[2]>> /\ p[1] \in Nodes /\ p[2] \in Nodes
    BY <1>2
  <2>. QED BY <2>1, <2>2, <2>3
<1>4. \A p \in Pairs, i \in Instances : <<p[1], p[2], i>> \in Slots
  BY DEF Slots
<1>. QED BY <1>1, <1>3, <1>4

\* What the environments of an execution are made of.
LEMMA EnvFacts ==
  ASSUME NEW e \in Environments
  PROVE  /\ e.nodes \subseteq Nodes /\ e.pairs \subseteq Pairs
         /\ \A p \in e.pairs : p \in Nodes \X Nodes
         /\ e.depth \in Nat \ {0} /\ 0 .. e.depth - 1 \subseteq Instances
         /\ e.sendDepth \in Nat /\ e.maxLag \in Nat
         /\ SeqMod \in Nat /\ e.maxLag + 2 <= SeqMod
         /\ e.maxRetry \in Nat \cup {Infinite}
         /\ e.fatal \in BOOLEAN
  BY DEF Environment, Pairs, Instances

-----------------------------------------------------------------------------
(***************************************************************************)
(* Sequence numbers: counts that are less than SeqMod apart are told apart *)
(* by their low bits.                                                      *)
(***************************************************************************)
LEMMA SeqNumInjective ==
  ASSUME NEW a \in Nat, NEW b \in Nat, SeqMod \in Nat \ {0},
         a < b + SeqMod, b < a + SeqMod, SeqNum(a) = SeqNum(b)
  PROVE  a = b
<1>1. PICK x \in Int, y \in Int, r \in Int :
        a = SeqMod * x + r /\ b = SeqMod * y + r
  <2>1. /\ a = SeqMod * (a \div SeqMod) + (a % SeqMod)
        /\ b = SeqMod * (b \div SeqMod) + (b % SeqMod)
    OBVIOUS
  <2>2. a \div SeqMod \in Int /\ b \div SeqMod \in Int /\ (a % SeqMod) \in Int
    OBVIOUS
  <2>. QED BY <2>1, <2>2 DEF SeqNum
<1>2. a - b = SeqMod * (x - y)
  BY <1>1
<1>3. CASE x >= y + 1
  <2>1. SeqMod * (x - y) >= SeqMod
    BY <1>3
  <2>. QED BY <1>2, <2>1
<1>4. CASE x <= y - 1
  <2>1. SeqMod * (y - x) >= SeqMod
    BY <1>4
  <2>2. SeqMod * (y - x) = b - a
    BY <1>2
  <2>. QED BY <2>1, <2>2
<1>. QED BY <1>1, <1>3, <1>4

-----------------------------------------------------------------------------
(***************************************************************************)
(* The tx ring: appending, rotating and removing keep it a listing.        *)
(***************************************************************************)
LEMMA AppendLists ==
  ASSUME NEW s \in Seq(Slots), NEW S, Lists(s, S), NEW c \in Slots, c \notin S
  PROVE  /\ Append(s, c) \in Seq(Slots) /\ Len(Append(s, c)) = Len(s) + 1
         /\ Lists(Append(s, c), S \cup {c})
<1> DEFINE t == Append(s, c)
<1>1. /\ t \in Seq(Slots) /\ Len(t) = Len(s) + 1 /\ DOMAIN t = 1 .. Len(s) + 1
      /\ \A k \in 1 .. Len(s) : t[k] = s[k]
      /\ t[Len(s) + 1] = c /\ DOMAIN s = 1 .. Len(s) /\ Len(s) \in Nat
  OBVIOUS
<1> HIDE DEF t
<1>2. \A x : x \in S <=> \E k \in 1 .. Len(s) : x = s[k]
  BY <1>1 DEF Lists
<1>3. S \cup {c} = {t[k] : k \in DOMAIN t}
  <2>1. ASSUME NEW x \in S \cup {c} PROVE \E k \in DOMAIN t : x = t[k]
    BY <1>1, <1>2
  <2>2. ASSUME NEW k \in DOMAIN t PROVE t[k] \in S \cup {c}
    BY <1>1, <1>2
  <2>. QED BY <2>1, <2>2
<1>4. ASSUME NEW j \in DOMAIN t, NEW k \in DOMAIN t, t[j] = t[k] PROVE j = k
  <2>1. \A i \in 1 .. Len(s) : s[i] # c
    BY <1>2
  <2>. QED BY <1>1, <1>4, <2>1 DEF Lists
<1>. QED BY <1>1, <1>3, <1>4 DEF Lists, t

\* Moving the head of a ring to its end keeps what it lists.
LEMMA RotateLists ==
  ASSUME NEW s \in Seq(Slots), NEW S, Lists(s, S), s # <<>>
  PROVE  /\ Append(Tail(s), Head(s)) \in Seq(Slots)
         /\ Len(Append(Tail(s), Head(s))) = Len(s)
         /\ Lists(Append(Tail(s), Head(s)), S)
<1> DEFINE t == Append(Tail(s), Head(s))
<1>1. /\ t \in Seq(Slots) /\ Len(t) = Len(s) /\ DOMAIN t = 1 .. Len(s)
      /\ \A k \in 1 .. Len(s) - 1 : t[k] = s[k + 1]
      /\ t[Len(s)] = s[1] /\ DOMAIN s = 1 .. Len(s) /\ Len(s) \in Nat \ {0}
  OBVIOUS
<1> HIDE DEF t
<1>2. S = {t[k] : k \in DOMAIN t}
  <2>1. ASSUME NEW k \in DOMAIN s PROVE \E j \in DOMAIN t : s[k] = t[j]
    <3>1. CASE k = 1
      BY <1>1, <3>1
    <3>2. CASE k # 1
      <4>1. k - 1 \in 1 .. Len(s) - 1 /\ k - 1 \in DOMAIN t /\ (k - 1) + 1 = k
        BY <1>1, <3>2
      <4>. QED BY <1>1, <4>1
    <3>. QED BY <3>1, <3>2
  <2>2. ASSUME NEW k \in DOMAIN t PROVE \E j \in DOMAIN s : t[k] = s[j]
    <3>1. CASE k = Len(s)
      <4>1. t[k] = s[1] /\ 1 \in DOMAIN s
        BY <1>1, <3>1
      <4>. QED BY <4>1
    <3>2. CASE k # Len(s)
      <4>1. k \in 1 .. Len(s) - 1 /\ k + 1 \in DOMAIN s
        BY <1>1, <3>2
      <4>. QED BY <1>1, <4>1
    <3>. QED BY <3>1, <3>2
  <2>. QED BY <2>1, <2>2 DEF Lists
<1>3. ASSUME NEW j \in DOMAIN t, NEW k \in DOMAIN t, t[j] = t[k] PROVE j = k
  <2>1. \A a, b \in 1 .. Len(s) : s[a] = s[b] => a = b
    BY <1>1 DEF Lists
  <2>. QED BY <1>1, <1>3, <2>1
<1>. QED BY <1>1, <1>2, <1>3 DEF Lists, t

\* Taking an element out of a ring takes it out of what it lists.
LEMMA WithoutLists ==
  ASSUME NEW s \in Seq(Slots), NEW S, Lists(s, S), NEW k \in DOMAIN s
  PROVE  /\ Without(s, k) \in Seq(Slots) /\ Len(Without(s, k)) = Len(s) - 1
         /\ Lists(Without(s, k), S \ {s[k]})
<1> DEFINE t == Without(s, k)
<1>0. DOMAIN s = 1 .. Len(s) /\ Len(s) \in Nat \ {0} /\ k \in 1 .. Len(s)
      /\ \A i \in 1 .. Len(s) : s[i] \in Slots
  OBVIOUS
<1>1. t \in Seq(Slots) /\ Len(t) = Len(s) - 1 /\ DOMAIN t = 1 .. Len(s) - 1
  <2>1. t \in [1 .. Len(s) - 1 -> Slots]
    BY <1>0 DEF Without
  <2>2. Len(s) - 1 \in Nat
    BY <1>0
  <2> HIDE DEF t
  <2>. QED BY <2>1, <2>2
<1>2. \A i \in 1 .. Len(s) - 1 : t[i] = IF i < k THEN s[i] ELSE s[i + 1]
  BY DEF Without
<1> HIDE DEF t
<1>3. \A a, b \in 1 .. Len(s) : s[a] = s[b] => a = b
  BY <1>0 DEF Lists
<1>4. S \ {s[k]} = {t[i] : i \in DOMAIN t}
  <2>1. ASSUME NEW j \in 1 .. Len(s), j # k PROVE \E i \in DOMAIN t : s[j] = t[i]
    <3>1. CASE j < k
      BY SMTT(30), <1>0, <1>1, <1>2, <3>1
    <3>2. CASE j > k
      <4>1. j - 1 \in DOMAIN t /\ ~(j - 1 < k) /\ (j - 1) + 1 = j
        BY <1>0, <1>1, <3>2
      <4>. QED BY <1>1, <1>2, <4>1
    <3>. QED BY <1>0, <2>1, <3>1, <3>2
  <2>2. ASSUME NEW i \in DOMAIN t
        PROVE  \E j \in 1 .. Len(s) : j # k /\ t[i] = s[j]
    BY <1>0, <1>1, <1>2
  <2>3. \A x : x \in S <=> \E j \in 1 .. Len(s) : x = s[j]
    BY <1>0 DEF Lists
  <2>. QED BY <1>0, <1>3, <2>1, <2>2, <2>3
<1>5. ASSUME NEW i \in DOMAIN t, NEW j \in DOMAIN t, t[i] = t[j] PROVE i = j
  BY SMTT(30), <1>0, <1>1, <1>2, <1>3, <1>5
<1>. QED BY <1>1, <1>4, <1>5 DEF Lists, t

-----------------------------------------------------------------------------
(***************************************************************************)
(* What each part of the invariant depends on.                             *)
(***************************************************************************)
Inv == TypeOK /\ IndInv

\* Calls that stay as they are, while no descriptor becomes busy.
LEMMA CallKept ==
  ASSUME TypeOK, CallInv, UNCHANGED <<env, call>>,
         \A c \in Slots : busy'[c] => busy[c]
  PROVE  CallInv'
<1>1. \A n \in Nodes : call[n] \in Calls
  BY DEF TypeOK
<1>2. \A n \in Nodes : call[n].at = "send" => call[n].slot \in Slots
  BY <1>1 DEF Calls, NoCall
<1>. QED BY <1>2 DEF CallInv

\* One call moves on.
LEMMA CallMoved ==
  ASSUME TypeOK, CallInv, UNCHANGED <<env, busy>>,
         NEW s \in Nodes, NEW x \in Calls, call' = [call EXCEPT ![s] = x],
         x.at \in {"acquire", "await", "async"} => <<s, x.to>> \in env.pairs,
         x.at = "send" => Src(x.slot) = s /\ ~busy[x.slot] /\ Inst(x.slot) < env.depth
  PROVE  CallInv'
<1>1. \A n \in Nodes : call'[n] = IF n = s THEN x ELSE call[n]
  BY DEF TypeOK
<1>. QED BY <1>1 DEF CallInv

\* Instances in use and hints stay below depth.
LEMMA DepthKept ==
  ASSUME DepthInv, UNCHANGED <<env, hint>>, \A c \in Slots : busy'[c] => busy[c]
  PROVE  DepthInv'
  BY DEF DepthInv

\* A hint moves to another instance below depth.
LEMMA HintMoved ==
  ASSUME TypeOK, DepthInv, UNCHANGED env, \A c \in Slots : busy'[c] => busy[c],
         NEW p, NEW i \in Nat, i < env.depth, hint' = [hint EXCEPT ![p] = i]
  PROVE  DepthInv'
<1>1. \A q \in Pairs : hint'[q] = IF q = p THEN i ELSE hint[q]
  BY DEF TypeOK
<1>. QED BY <1>1 DEF DepthInv

\* The ring and what is outstanding stay as they are.
LEMMA RingKept ==
  ASSUME RingHoldsOutstanding, UNCHANGED <<env, ring, busy>>
  PROVE  RingHoldsOutstanding'
  BY DEF RingHoldsOutstanding, Lists

\* The counts of all slots stay as they are.
LEMMA CountKept ==
  ASSUME CountInv, UNCHANGED <<reqSeq, busy, repSeq, repBuf, history>>,
         dead \subseteq dead'
  PROVE  CountInv'
  BY DEF CountInv, history

\* Datagrams may be dropped, added under the invariant, and outlive a step
\* that moves their slot's counts on, as far as they are not too old then.
LEMMA NetKept ==
  ASSUME TypeOK, NetInv, UNCHANGED <<env, reqSeq, repSeq, sent>>,
         net' \subseteq net
  PROVE  NetInv'
  BY DEF NetInv

\* A new datagram that is not too old may join the others.
LEMMA NetAdds ==
  ASSUME TypeOK, NetInv, UNCHANGED <<env, reqSeq, sent>>,
         \A c \in Slots : repSeq[c] <= repSeq'[c] /\ repSeq'[c] \in Nat,
         NEW m \in Datagrams, net' \subseteq net \cup {m},
         m.seq < sent[m.slot], reqSeq[m.slot] <= m.seq + env.maxLag,
         m.type = "reply" => m.seq < repSeq'[m.slot]
  PROVE  NetInv'
<1> SUFFICES ASSUME NEW d \in net'
             PROVE  /\ d.seq < sent[d.slot] /\ reqSeq[d.slot] <= d.seq + env.maxLag
                    /\ d.type = "reply" => d.seq < repSeq'[d.slot]
  BY DEF NetInv
<1>1. CASE d = m
  BY <1>1
<1>2. CASE d \in net
  <2>1. d.slot \in Slots /\ d.seq \in Nat
    BY <1>2 DEF TypeOK, Datagrams
  <2>2. repSeq[d.slot] \in Nat /\ repSeq[d.slot] <= repSeq'[d.slot] /\ repSeq'[d.slot] \in Nat
    BY <2>1 DEF TypeOK
  <2>. QED BY <1>2, <2>1, <2>2 DEF NetInv
<1>. QED BY <1>1, <1>2

\* A completed request: what its datagrams may still be late shrinks by one.
LEMMA NetAges ==
  ASSUME TypeOK, NetInv, UNCHANGED <<env, repSeq, sent>>, NEW c \in Slots,
         reqSeq' = [reqSeq EXCEPT ![c] = @ + 1], net' = Aged(c, reqSeq[c] + 1)
  PROVE  NetInv'
<1> SUFFICES ASSUME NEW d \in net'
             PROVE  /\ d.seq < sent[d.slot] /\ reqSeq'[d.slot] <= d.seq + env.maxLag
                    /\ d.type = "reply" => d.seq < repSeq[d.slot]
  BY DEF NetInv
<1>q. PICK q : q = reqSeq[c] + 1
  OBVIOUS
<1>1. d \in net /\ (d.slot = c => q - d.seq <= env.maxLag)
  <2>1. d \in Aged(c, q)
    BY <1>q
  <2>. QED BY <2>1 DEF Aged
<1>2. d.slot \in Slots /\ d.seq \in Nat /\ reqSeq[c] \in Nat /\ env.maxLag \in Nat
  BY <1>1, EnvFacts DEF TypeOK, Datagrams
<1>3. reqSeq'[d.slot] = IF d.slot = c THEN reqSeq[c] + 1 ELSE reqSeq[d.slot]
  BY <1>2 DEF TypeOK
<1>. QED BY <1>q, <1>1, <1>2, <1>3 DEF NetInv

-----------------------------------------------------------------------------
(***************************************************************************)
(* The three ways in which a ring changes.                                 *)
(***************************************************************************)
LEMMA RingEntry ==
  ASSUME TypeOK, RingHoldsOutstanding, NEW n \in Nodes
  PROVE  /\ ring[n] \in Seq(Slots) /\ Len(ring[n]) \in Nat
         /\ Lists(ring[n], {c \in Slots : Src(c) = n /\ busy[c]})
         /\ Len(ring[n]) <= env.sendDepth
         /\ ring[n] # <<>> => /\ Checked(n) \in Slots
                              /\ Src(Checked(n)) = n /\ busy[Checked(n)]
<1>1. ring[n] \in Seq(Slots) /\ Len(ring[n]) \in Nat
  BY DEF TypeOK
<1>2. ring[n] # <<>> => 1 \in DOMAIN ring[n] /\ Checked(n) = ring[n][1]
  BY <1>1 DEF Checked
<1>. QED BY <1>1, <1>2 DEF RingHoldsOutstanding, Lists

\* A request that is no longer outstanding leaves the ring.
LEMMA RingDequeues ==
  ASSUME TypeOK, RingHoldsOutstanding, UNCHANGED env,
         NEW c \in Slots, Dequeue(Src(c), c), busy' = [busy EXCEPT ![c] = FALSE]
  PROVE  RingHoldsOutstanding' /\ ring' \in [Nodes -> Seq(Slots)]
<1>0. PICK n \in Nodes : n = Src(c)
  BY SlotFacts
<1>1. PICK k \in DOMAIN ring[n] :
        ring[n][k] = c /\ ring' = [ring EXCEPT ![n] = Without(ring[n], k)]
  BY <1>0 DEF Dequeue
<1>2. \A b \in Slots : busy'[b] = IF b = c THEN FALSE ELSE busy[b]
  BY DEF TypeOK
<1>s. PICK S : S = {b \in Slots : Src(b) = n /\ busy[b]}
  OBVIOUS
<1>r. /\ ring[n] \in Seq(Slots) /\ Lists(ring[n], S) /\ Len(ring[n]) \in Nat
      /\ Len(ring[n]) <= env.sendDepth /\ env.sendDepth \in Nat
  BY <1>s, RingEntry, EnvFacts DEF TypeOK
<1>3. /\ Without(ring[n], k) \in Seq(Slots)
      /\ Len(Without(ring[n], k)) = Len(ring[n]) - 1
      /\ Lists(Without(ring[n], k), S \ {c})
  BY <1>1, <1>r, WithoutLists
<1>4. ring' \in [Nodes -> Seq(Slots)]
  BY <1>1, <1>3 DEF TypeOK
<1>5. ASSUME NEW o \in Nodes
      PROVE  /\ Lists(ring'[o], {b \in Slots : Src(b) = o /\ busy'[b]})
             /\ Len(ring'[o]) <= env.sendDepth
  <2>1. CASE o = n
    <3>1. {b \in Slots : Src(b) = o /\ busy'[b]}
            = S \ {c}
      BY <1>0, <1>2, <1>s, <2>1
    <3>2. ring'[o] = Without(ring[n], k)
      BY <1>1, <2>1 DEF TypeOK
    <3>3. Lists(ring'[o], S \ {c}) /\ Len(ring'[o]) <= env.sendDepth
      BY <1>0, <1>3, <1>r, <3>2
    <3>. QED BY <3>1, <3>3
  <2>2. CASE o # n
    <3>1. {b \in Slots : Src(b) = o /\ busy'[b]} = {b \in Slots : Src(b) = o /\ busy[b]}
      BY <1>0, <1>2, <2>2
    <3>2. ring'[o] = ring[o]
      BY <1>1, <2>2 DEF TypeOK
    <3>. QED BY <3>1, <3>2, RingEntry
  <2>. QED BY <2>1, <2>2
<1>6. RingHoldsOutstanding'
  BY <1>5 DEF RingHoldsOutstanding, Lists
<1>. QED BY <1>4, <1>6

\* A request that becomes outstanding joins the ring.
LEMMA RingEnqueues ==
  ASSUME TypeOK, RingHoldsOutstanding, UNCHANGED env, NEW c \in Slots, ~busy[c],
         Len(ring[Src(c)]) < env.sendDepth,
         Enqueue(Src(c), c), busy' = [busy EXCEPT ![c] = TRUE]
  PROVE  RingHoldsOutstanding' /\ ring' \in [Nodes -> Seq(Slots)]
<1>0. PICK n \in Nodes : n = Src(c)
  BY SlotFacts
<1>1. ring' = [ring EXCEPT ![n] = Append(ring[n], c)]
  BY <1>0 DEF Enqueue
<1>2. \A b \in Slots : busy'[b] = IF b = c THEN TRUE ELSE busy[b]
  BY DEF TypeOK
<1>s. PICK S : S = {b \in Slots : Src(b) = n /\ busy[b]}
  OBVIOUS
<1>r. /\ ring[n] \in Seq(Slots) /\ Lists(ring[n], S) /\ Len(ring[n]) \in Nat
      /\ Len(ring[n]) <= env.sendDepth /\ env.sendDepth \in Nat
  BY <1>s, RingEntry, EnvFacts DEF TypeOK
<1>3. /\ Append(ring[n], c) \in Seq(Slots)
      /\ Len(Append(ring[n], c)) = Len(ring[n]) + 1
      /\ Lists(Append(ring[n], c), S \cup {c})
  <2>1. c \notin S
    BY <1>s
  <2>. QED BY <1>r, <2>1, AppendLists
<1>4. ring' \in [Nodes -> Seq(Slots)]
  BY <1>1, <1>3 DEF TypeOK
<1>5. ASSUME NEW o \in Nodes
      PROVE  /\ Lists(ring'[o], {b \in Slots : Src(b) = o /\ busy'[b]})
             /\ Len(ring'[o]) <= env.sendDepth
  <2>1. CASE o = n
    <3>1. {b \in Slots : Src(b) = o /\ busy'[b]}
            = S \cup {c}
      BY <1>0, <1>2, <1>s, <2>1
    <3>2. ring'[o] = Append(ring[n], c)
      BY <1>1, <2>1 DEF TypeOK
    <3>3. Lists(ring'[o], S \cup {c}) /\ Len(ring'[o]) <= env.sendDepth
      BY <1>0, <1>3, <1>r, <3>2
    <3>. QED BY <3>1, <3>3
  <2>2. CASE o # n
    <3>1. {b \in Slots : Src(b) = o /\ busy'[b]} = {b \in Slots : Src(b) = o /\ busy[b]}
      BY <1>0, <1>2, <2>2
    <3>2. ring'[o] = ring[o]
      BY <1>1, <2>2 DEF TypeOK
    <3>. QED BY <3>1, <3>2, RingEntry
  <2>. QED BY <2>1, <2>2
<1>6. RingHoldsOutstanding'
  BY <1>5 DEF RingHoldsOutstanding, Lists
<1>. QED BY <1>4, <1>6

\* The timeout check moves on around the ring.
LEMMA RingAdvances ==
  ASSUME TypeOK, RingHoldsOutstanding, UNCHANGED <<env, busy>>,
         NEW n \in Nodes, ring[n] # <<>>, Advance(n)
  PROVE  RingHoldsOutstanding' /\ ring' \in [Nodes -> Seq(Slots)]
<1>1. ring' = [ring EXCEPT ![n] = Append(Tail(ring[n]), Head(ring[n]))]
  BY DEF Advance
<1>2. /\ Append(Tail(ring[n]), Head(ring[n])) \in Seq(Slots)
      /\ Len(Append(Tail(ring[n]), Head(ring[n]))) = Len(ring[n])
      /\ Lists(Append(Tail(ring[n]), Head(ring[n])),
               {b \in Slots : Src(b) = n /\ busy[b]})
  BY RingEntry, RotateLists
<1>3. ring' \in [Nodes -> Seq(Slots)]
  BY <1>1, <1>2 DEF TypeOK
<1>4. ASSUME NEW o \in Nodes
      PROVE  /\ Lists(ring'[o], {b \in Slots : Src(b) = o /\ busy[b]})
             /\ Len(ring'[o]) <= env.sendDepth
  <2>1. ring'[o] = IF o = n THEN Append(Tail(ring[n]), Head(ring[n])) ELSE ring[o]
    BY <1>1 DEF TypeOK
  <2>. QED BY <1>2, <2>1, RingEntry
<1>5. RingHoldsOutstanding'
  BY <1>4 DEF RingHoldsOutstanding, Lists
<1>. QED BY <1>3, <1>5

-----------------------------------------------------------------------------
(***************************************************************************)
(* Initial states, and steps that leave descriptors and rings alone.       *)
(***************************************************************************)
LEMMA DatagramFacts ==
  ASSUME NEW t \in {"request", "reply", "refusedRequest", "refusedReply"},
         NEW c \in Slots, NEW q \in Nat
  PROVE  /\ Datagram(t, c, q) \in Datagrams
         /\ Datagram(t, c, q).type = t /\ Datagram(t, c, q).slot = c
         /\ Datagram(t, c, q).seq = q
  BY DEF Datagram, Datagrams

\* The forms of a call.
LEMMA CallFacts ==
  /\ NoCall \in Calls /\ NoCall.at = "none"
  /\ \A d \in Nodes, b \in BOOLEAN :
       [at |-> "acquire", to |-> d, async |-> b] \in Calls
  /\ \A d \in Nodes : [at |-> "async", to |-> d] \in Calls
  /\ \A c \in Slots : [at |-> "send", slot |-> c] \in Calls
  /\ \A x \in Calls :
       /\ x.at \in {"acquire", "await", "async"} => x.to \in Nodes
       /\ x.at = "acquire" => [x EXCEPT !.at = "await"] \in Calls
       /\ x.at = "send" => x.slot \in Slots
  BY DEF Calls, NoCall

\* The ring and the histories start empty.
LEMMA EmptySeq ==
  ASSUME NEW S
  PROVE  <<>> \in Seq(S)
  OBVIOUS

\* Before the first request all counts are 0 and nothing is underway.
LEMMA InitInv == Init => Inv
<1> SUFFICES ASSUME Init PROVE Inv
  OBVIOUS
<1>1. TypeOK
  <2>1. 0 \in Instances
    BY EnvFacts DEF Init
  <2>2. <<>> \in Seq(Slots) /\ <<>> \in Seq(Nat)
    BY EmptySeq
  <2>. QED BY <2>1, <2>2, CallFacts DEF Init, TypeOK, NoReply
<1>2. CallInv
  BY CallFacts DEF Init, CallInv
<1>3. DepthInv
  BY EnvFacts DEF Init, DepthInv
<1>4. RingHoldsOutstanding
  <2>1. \A c \in Slots : ~busy[c]
    BY DEF Init
  <2>2. \A n \in Nodes : ring[n] = <<>> /\ Len(ring[n]) = 0 /\ DOMAIN ring[n] = {}
    BY DEF Init
  <2>3. env.sendDepth \in Nat
    BY EnvFacts DEF Init
  <2>. QED BY <2>1, <2>2, <2>3 DEF RingHoldsOutstanding, Lists
<1>5. CountInv
  <2>1. \A c \in Slots : Len(ran[c]) = 0 /\ Len(done[c]) = 0
    BY DEF Init
  <2>. QED BY <2>1 DEF Init, CountInv, NoReply
<1>6. NetInv
  BY DEF Init, NetInv
<1>. QED BY <1>1, <1>2, <1>3, <1>4, <1>5, <1>6 DEF Inv, IndInv

\* A step that neither sends nor completes anything.
LEMMA QuietStep ==
  ASSUME Inv, TypeOK', CallInv', net' \subseteq net, dead \subseteq dead',
         UNCHANGED <<env, reqSeq, busy, hint, ring, repSeq, repBuf, history>>
  PROVE  Inv'
<1>1. DepthInv' /\ RingHoldsOutstanding'
  BY DepthKept, RingKept DEF Inv, IndInv
<1>2. env.fatal => CountInv' /\ NetInv'
  BY CountKept, NetKept DEF Inv, IndInv, history
<1>. QED BY <1>1, <1>2 DEF Inv, IndInv

\* Entering a poll: the reply epoch may be new.
LEMMA EnterPollTypes ==
  ASSUME TypeOK, NEW n \in Nodes, EnterPoll(n)
  PROVE  polling' \subseteq Nodes /\ stamped' \subseteq Slots
  BY DEF EnterPoll, TypeOK

\* The steps of a call up to the acquisition of a descriptor.
LEMMA CallStep ==
  ASSUME Inv, UNCHANGED env, NEW s \in Nodes, NEW d \in Nodes,
         \/ Request(s, d) \/ RequestAsync(s, d)
         \/ AsyncInUse(s) \/ AsyncGoesOn(s) \/ Await(s)
  PROVE  Inv'
<1>0. TypeOK /\ CallInv /\ call[s] \in Calls
  BY DEF Inv, IndInv, TypeOK
<1>1. polling' \subseteq Nodes /\ stamped' \subseteq Slots
  BY <1>0, EnterPollTypes
     DEF Request, RequestAsync, AsyncInUse, AsyncGoesOn, Await, TypeOK, repVars
<1>2. UNCHANGED <<reqVars, repSeq, repBuf, dead, net, history>>
  BY DEF Request, RequestAsync, AsyncInUse, AsyncGoesOn, Await, repVars
<1>3. PICK x \in Calls :
        /\ call' = [call EXCEPT ![s] = x] /\ x.at # "send"
        /\ x.at \in {"acquire", "await", "async"} => <<s, x.to>> \in env.pairs
  <2>1. CASE Request(s, d)
    BY <2>1, CallFacts DEF Request
  <2>2. CASE RequestAsync(s, d)
    BY <2>2, CallFacts DEF RequestAsync
  <2>3. CASE AsyncInUse(s)
    BY <2>3, CallFacts DEF AsyncInUse
  <2>4. CASE AsyncGoesOn(s)
    BY ZenonT(60), <1>0, <2>4, CallFacts DEF AsyncGoesOn, CallInv
  <2>5. CASE Await(s)
    <3>1. call[s].at = "acquire" /\ call' = [call EXCEPT ![s] = [@ EXCEPT !.at = "await"]]
      BY <2>5 DEF Await
    <3>2. [call[s] EXCEPT !.at = "await"] \in Calls
          /\ [call[s] EXCEPT !.at = "await"].at = "await"
          /\ [call[s] EXCEPT !.at = "await"].to = call[s].to
      BY <1>0, <3>1, CallFacts DEF Calls, NoCall
    <3>. QED BY <1>0, <3>1, <3>2 DEF CallInv
  <2>. QED BY <2>1, <2>2, <2>3, <2>4, <2>5
<1>4. CallInv'
  BY <1>0, <1>2, <1>3, CallMoved DEF reqVars
<1>5. TypeOK'
  BY <1>0, <1>1, <1>2, <1>3 DEF TypeOK, reqVars, history
<1>. QED BY <1>2, <1>4, <1>5, QuietStep DEF reqVars

\* A call takes a free descriptor.
LEMMA AcquireStep ==
  ASSUME Inv, UNCHANGED env, NEW s \in Nodes, Acquire(s)
  PROVE  Inv'
<1>0. TypeOK /\ CallInv /\ DepthInv /\ RingHoldsOutstanding
  BY DEF Inv, IndInv
<1>1. PICK d \in Nodes : d = call[s].to /\ <<s, d>> \in env.pairs
  BY <1>0, CallFacts DEF Acquire, CallInv, TypeOK
<1>2. PICK i \in Nat : /\ i = hint[<<s, d>>] /\ i < env.depth /\ i \in Instances
                       /\ ~busy[<<s, d, i>>] /\ <<s, d, i>> \in Slots
                       /\ hint' = [hint EXCEPT ![<<s, d>>] = NextInstance(i)]
                       /\ call' = [call EXCEPT ![s] = [at |-> "send", slot |-> <<s, d, i>>]]
  <2>1. <<s, d>> \in Pairs
    BY <1>0, <1>1, EnvFacts DEF TypeOK
  <2>2. hint[<<s, d>>] \in Instances /\ hint[<<s, d>>] < env.depth
    BY <1>0, <2>1 DEF TypeOK, DepthInv
  <2>3. \A i \in Instances : i \in Nat /\ <<s, d, i>> \in Slots
    BY <2>1, SlotFacts
  <2>. QED BY <1>1, <2>2, <2>3 DEF Acquire, Examined
<1>3. PICK j \in Nat : j = NextInstance(i) /\ j < env.depth /\ j \in Instances
  <2>1. env.depth \in Nat \ {0} /\ 0 .. env.depth - 1 \subseteq Instances
    BY <1>0, EnvFacts DEF TypeOK
  <2>. QED BY <1>2, <2>1 DEF NextInstance
<1>4. UNCHANGED <<reqSeq, busy, retry, ring, stray, repVars, polling, dead,
                  net, history>>
  BY DEF Acquire
<1>5. PICK c \in Slots : c = <<s, d, i>> /\ Src(c) = s /\ Inst(c) = i
  BY <1>2 DEF Src, Inst
<1>6. CallInv'
  <2>1. [at |-> "send", slot |-> c] \in Calls
    BY CallFacts
  <2>. QED BY <1>0, <1>2, <1>4, <1>5, <2>1, CallMoved
<1>7. DepthInv'
  BY <1>0, <1>2, <1>3, <1>4, HintMoved
<1>8. TypeOK'
  <2>1. hint' \in [Pairs -> Instances] /\ call' \in [Nodes -> Calls]
    BY <1>0, <1>2, <1>3, CallFacts DEF TypeOK
  <2>. QED BY <1>0, <1>4, <2>1 DEF TypeOK, repVars, history
<1>9. RingHoldsOutstanding' /\ (env.fatal => CountInv' /\ NetInv')
  BY <1>0, <1>4, RingKept, CountKept, NetKept DEF Inv, IndInv, repVars, history
<1>. QED BY <1>6, <1>7, <1>8, <1>9 DEF Inv, IndInv

\* A call whose send fails ends, and its descriptor stays free.
LEMMA SendFailsStep ==
  ASSUME Inv, UNCHANGED env, NEW s \in Nodes, SendFails(s)
  PROVE  Inv'
<1>0. TypeOK /\ CallInv /\ DepthInv /\ RingHoldsOutstanding
  BY DEF Inv, IndInv
<1>1. PICK c \in Slots : c = call[s].slot /\ Src(c) = s /\ Inst(c) < env.depth
  BY <1>0, CallFacts DEF SendFails, CallInv, TypeOK
<1>2. /\ hint' = [hint EXCEPT ![<<s, Dst(c)>>] = Inst(c)]
      /\ call' = [call EXCEPT ![s] = NoCall]
      /\ UNCHANGED <<reqSeq, busy, retry, ring, stray, repVars, polling, dead,
                     net, history>>
  BY <1>1 DEF SendFails
<1>3. Inst(c) \in Nat /\ Inst(c) \in Instances /\ <<s, Dst(c)>> \in Pairs
  BY <1>1, SlotFacts
<1>4. CallInv'
  BY <1>0, <1>2, CallFacts, CallMoved
<1>5. DepthInv'
  BY <1>0, <1>1, <1>2, <1>3, HintMoved
<1>6. TypeOK'
  <2>1. hint' \in [Pairs -> Instances] /\ call' \in [Nodes -> Calls]
    BY <1>0, <1>2, <1>3, CallFacts DEF TypeOK
  <2>. QED BY <1>0, <1>2, <2>1 DEF TypeOK, repVars, history
<1>7. RingHoldsOutstanding' /\ (env.fatal => CountInv' /\ NetInv')
  BY <1>0, <1>2, RingKept, CountKept, NetKept DEF Inv, IndInv, repVars, history
<1>. QED BY <1>4, <1>5, <1>6, <1>7 DEF Inv, IndInv

\* A poll begins.
LEMMA PollStep ==
  ASSUME Inv, UNCHANGED env, NEW n \in Nodes, Poll(n)
  PROVE  Inv'
<1>0. TypeOK /\ CallInv
  BY DEF Inv, IndInv
<1>1. /\ UNCHANGED <<reqVars, repSeq, repBuf, call, dead, net, history>>
      /\ polling' \subseteq Nodes /\ stamped' \subseteq Slots
  BY <1>0, EnterPollTypes DEF Poll
<1>2. TypeOK'
  BY <1>0, <1>1 DEF TypeOK, reqVars, history
<1>3. CallInv'
  BY <1>0, <1>1, CallKept DEF reqVars
<1>. QED BY <1>1, <1>2, <1>3, QuietStep DEF reqVars

\* A stray access, a lost datagram, an ignored datagram: nothing is counted.
LEMMA StrayLoseStep ==
  ASSUME Inv, UNCHANGED env,
         (\E n \in Nodes : StrayAccess(n)) \/ (\E m \in net : Lose(m) \/ Ignore(m))
  PROVE  Inv'
<1>0. TypeOK /\ CallInv
  BY DEF Inv, IndInv
<1>1. /\ UNCHANGED <<reqVars, repVars, polling, call, history>>
      /\ net' \subseteq net /\ dead \subseteq dead' /\ dead' \subseteq Nodes
  BY <1>0 DEF StrayAccess, Lose, Ignore, vars, TypeOK
<1>2. TypeOK'
  BY <1>0, <1>1 DEF TypeOK, reqVars, repVars, history
<1>3. CallInv'
  BY <1>0, <1>1, CallKept DEF reqVars
<1>. QED BY <1>1, <1>2, <1>3, QuietStep DEF reqVars, repVars

-----------------------------------------------------------------------------
(***************************************************************************)
(* Sending, retransmitting, and the rest of the end of AM_Poll.            *)
(***************************************************************************)
LEMMA SendStep ==
  ASSUME Inv, UNCHANGED env, NEW s \in Nodes, Send(s)
  PROVE  Inv'
<1>0. TypeOK /\ CallInv /\ DepthInv /\ RingHoldsOutstanding
  BY DEF Inv, IndInv
<1>1. PICK c \in Slots : c = call[s].slot /\ Src(c) = s /\ ~busy[c]
                         /\ Inst(c) < env.depth
  BY <1>0, CallFacts DEF Send, CallInv, TypeOK
<1>2. /\ Len(ring[s]) < env.sendDepth /\ s \notin dead
      /\ busy' = [busy EXCEPT ![c] = TRUE] /\ retry' = [retry EXCEPT ![c] = 0]
      /\ Enqueue(s, c) /\ net' = net \cup {Datagram("request", c, reqSeq[c])}
      /\ call' = [call EXCEPT ![s] = NoCall]
      /\ sent' = [sent EXCEPT ![c] = @ + 1]
      /\ UNCHANGED <<reqSeq, hint, stray, repVars, polling, dead, ran, done>>
  BY <1>1 DEF Send
<1>3. RingHoldsOutstanding' /\ ring' \in [Nodes -> Seq(Slots)]
  BY <1>0, <1>1, <1>2, RingEnqueues
<1>4. PICK q \in Nat : q = reqSeq[c]
  BY <1>0 DEF TypeOK
<1>5. PICK m \in Datagrams : m = Datagram("request", c, q) /\ m.slot = c /\ m.seq = q
                             /\ m.type # "reply"
  BY DatagramFacts
<1>6. TypeOK'
  <2>1. busy' \in [Slots -> BOOLEAN] /\ retry' \in [Slots -> Nat]
        /\ sent' \in [Slots -> Nat]
    BY <1>0, <1>2 DEF TypeOK
  <2>2. call' \in [Nodes -> Calls] /\ net' \subseteq Datagrams
    BY <1>0, <1>2, <1>4, <1>5, CallFacts DEF TypeOK
  <2>. QED BY <1>0, <1>2, <1>3, <2>1, <2>2 DEF TypeOK, repVars
<1>7. CallInv'
  <2>1. \A n \in Nodes : call'[n] = IF n = s THEN NoCall ELSE call[n]
    BY <1>0, <1>2 DEF TypeOK
  <2>2. \A n \in Nodes : call[n].at = "send" => call[n].slot \in Slots
    BY <1>0, CallFacts DEF TypeOK
  <2>3. \A b \in Slots : b # c => busy'[b] = busy[b]
    BY <1>0, <1>2 DEF TypeOK
  <2>. QED BY <1>0, <1>1, <2>1, <2>2, <2>3, CallFacts DEF CallInv
<1>8. DepthInv'
  <2>1. \A b \in Slots : b # c => busy'[b] = busy[b]
    BY <1>0, <1>2 DEF TypeOK
  <2>. QED BY <1>0, <1>1, <1>2, <2>1 DEF DepthInv
<1>9. ASSUME env.fatal PROVE CountInv' /\ NetInv'
  <2>0. CountInv /\ NetInv
    BY <1>9 DEF Inv, IndInv
  <2>1. /\ sent[c] \in Nat /\ repSeq[c] \in Nat /\ reqSeq[c] \in Nat
        /\ sent[c] = q /\ q <= repSeq[c] /\ repSeq[c] <= sent[c]
    BY <1>0, <1>1, <1>2, <1>4, <2>0 DEF CountInv, TypeOK
  <2>2. \A b \in Slots :
          /\ sent'[b] = IF b = c THEN sent[b] + 1 ELSE sent[b]
          /\ busy'[b] = IF b = c THEN TRUE ELSE busy[b]
    BY <1>0, <1>2 DEF TypeOK
  <2>3. CountInv'
    <3> SUFFICES ASSUME NEW b \in Slots
                 PROVE  /\ repSeq[b] <= sent'[b] /\ sent'[b] <= repSeq[b] + 1
                        /\ sent'[b] <= reqSeq[b] + 1
                        /\ repBuf[b] = repSeq[b] - 1 /\ Len(ran[b]) = repSeq[b]
                        /\ Src(b) \notin dead =>
                             /\ sent'[b] = IF busy'[b] THEN reqSeq[b] + 1 ELSE reqSeq[b]
                             /\ reqSeq[b] <= repSeq[b]
                             /\ Len(done[b]) = reqSeq[b]
      BY <1>2 DEF CountInv, repVars
    <3>1. /\ reqSeq[b] \in Nat /\ repSeq[b] \in Nat /\ sent[b] \in Nat
      BY <1>0 DEF TypeOK
    <3>2. CASE b = c
      <4>1. sent'[c] = q + 1 /\ busy'[c]
        BY <2>1, <2>2
      <4>2. repBuf[c] = repSeq[c] - 1 /\ Len(ran[c]) = repSeq[c]
            /\ Len(done[c]) = reqSeq[c]
        BY <1>1, <1>2, <2>0 DEF CountInv
      <4>. QED BY <1>4, <2>1, <3>2, <4>1, <4>2
    <3>3. CASE b # c
      BY <2>0, <2>2, <3>1, <3>3 DEF CountInv
    <3>. QED BY <3>2, <3>3
  <2>4. NetInv'
    <3> SUFFICES ASSUME NEW d \in net'
                 PROVE  /\ d.seq < sent'[d.slot] /\ reqSeq[d.slot] <= d.seq + env.maxLag
                        /\ d.type = "reply" => d.seq < repSeq[d.slot]
      BY <1>2 DEF NetInv, repVars
    <3>0. env.maxLag \in Nat
      BY <1>0, EnvFacts DEF TypeOK
    <3>1. CASE d = m
      <4>1. sent'[c] = q + 1
        BY <2>1, <2>2
      <4>. QED BY <1>4, <1>5, <3>0, <3>1, <4>1
    <3>2. CASE d \in net
      <4>1. d.slot \in Slots /\ d.seq \in Nat /\ sent[d.slot] \in Nat
        BY <1>0, <3>2 DEF TypeOK, Datagrams
      <4>2. sent[d.slot] <= sent'[d.slot] /\ sent'[d.slot] \in Nat
        <5>1. PICK b \in Slots, x \in Nat : b = d.slot /\ x = sent[b]
          BY <4>1
        <5>2. sent'[b] = IF b = c THEN x + 1 ELSE x
          BY <2>2, <5>1
        <5>3. x <= sent'[b] /\ sent'[b] \in Nat
          BY <5>2
        <5>. QED BY <5>1, <5>3
      <4>. QED BY <2>0, <3>2, <4>1, <4>2 DEF NetInv
    <3>. QED BY <1>2, <1>4, <1>5, <3>1, <3>2
  <2>. QED BY <2>3, <2>4
<1>. QED BY <1>2, <1>3, <1>6, <1>7, <1>8, <1>9 DEF Inv, IndInv

\* A request not expired, or sent once more with the same sequence number.
LEMMA RetransmitStep ==
  ASSUME Inv, UNCHANGED env, NEW n \in Nodes, NoTimeout(n) \/ Retransmit(n)
  PROVE  Inv'
<1>0. TypeOK /\ CallInv /\ DepthInv /\ RingHoldsOutstanding
  BY DEF Inv, IndInv
<1>1. /\ UNCHANGED <<reqSeq, busy, hint, stray, repVars, call, dead, history>>
      /\ polling' \subseteq Nodes /\ n \notin dead
  BY <1>0 DEF NoTimeout, Retransmit, TypeOK, AtTimeouts
<1>2. RingHoldsOutstanding' /\ ring' \in [Nodes -> Seq(Slots)]
  <2>1. UNCHANGED ring \/ (ring[n] # <<>> /\ Advance(n))
    BY DEF NoTimeout, Retransmit
  <2>2. CASE UNCHANGED ring
    BY <1>0, <1>1, <2>2, RingKept DEF TypeOK
  <2>3. CASE ring[n] # <<>> /\ Advance(n)
    BY <1>0, <1>1, <2>3, RingAdvances
  <2>. QED BY <2>1, <2>2, <2>3
<1>3. CallInv' /\ DepthInv'
  BY <1>0, <1>1, CallKept, DepthKept
<1>4. CASE NoTimeout(n)
  <2>1. UNCHANGED <<retry, net>>
    BY <1>4 DEF NoTimeout
  <2>2. TypeOK'
    BY <1>0, <1>1, <1>2, <2>1 DEF TypeOK, repVars, history
  <2>3. env.fatal => CountInv' /\ NetInv'
    BY <1>0, <1>1, <2>1, CountKept, NetKept DEF Inv, IndInv, repVars, history
  <2>. QED BY <1>2, <1>3, <2>2, <2>3 DEF Inv, IndInv
<1>5. CASE Retransmit(n)
  <2>1. PICK c \in Slots : /\ c = Checked(n) /\ Src(c) = n /\ busy[c]
                           /\ net' = net \cup {Datagram("request", c, reqSeq[c])}
                           /\ retry' \in {retry, [retry EXCEPT ![c] = @ + 1]}
    BY <1>0, <1>5, RingEntry DEF Retransmit
  <2>2. PICK q \in Nat : q = reqSeq[c]
    BY <1>0 DEF TypeOK
  <2>3. PICK m \in Datagrams : m = Datagram("request", c, q) /\ m.slot = c
                               /\ m.seq = q /\ m.type # "reply"
    BY DatagramFacts
  <2>4. TypeOK'
    <3>1. retry' \in [Slots -> Nat]
      <4>1. retry \in [Slots -> Nat] /\ [retry EXCEPT ![c] = @ + 1] \in [Slots -> Nat]
        BY <1>0 DEF TypeOK
      <4>. QED BY <2>1, <4>1
    <3>2. net' \subseteq Datagrams
      BY <1>0, <2>1, <2>2, <2>3 DEF TypeOK
    <3>. QED BY <1>0, <1>1, <1>2, <3>1, <3>2 DEF TypeOK, repVars, history
  <2>5. ASSUME env.fatal PROVE CountInv' /\ NetInv'
    <3>0. CountInv /\ NetInv
      BY <2>5 DEF Inv, IndInv
    <3>1. CountInv'
      BY <1>1, <3>0, CountKept DEF repVars, history
    <3>2. q < sent[c] /\ reqSeq[c] <= q + env.maxLag
      <4>1. env.maxLag \in Nat
        BY <1>0, EnvFacts DEF TypeOK
      <4>. QED BY <1>1, <2>1, <2>2, <3>0, <4>1 DEF CountInv
    <3>3. \A b \in Slots : repSeq[b] <= repSeq'[b] /\ repSeq'[b] \in Nat
      BY <1>0, <1>1 DEF TypeOK, repVars
    <3>4. NetInv'
      BY <1>0, <1>1, <2>1, <2>2, <2>3, <3>0, <3>2, <3>3, NetAdds DEF history
    <3>. QED BY <3>1, <3>4
  <2>. QED BY <1>2, <1>3, <2>4, <2>5 DEF Inv, IndInv
<1>. QED BY <1>4, <1>5

\* Giving a request up frees its descriptor; under the default handler 0
\* the requester is dead then, and its slots' counts may drift apart.
LEMMA UndeliverableStep ==
  ASSUME Inv, UNCHANGED env, NEW n \in Nodes, Undeliverable(n)
  PROVE  Inv'
<1>0. TypeOK /\ CallInv /\ DepthInv /\ RingHoldsOutstanding
  BY DEF Inv, IndInv
<1>1. PICK c \in Slots : /\ c = Checked(n) /\ Src(c) = n /\ Dequeue(n, c)
                         /\ busy' = [busy EXCEPT ![c] = FALSE]
  BY <1>0, RingEntry DEF Undeliverable
<1>2. /\ UNCHANGED <<reqSeq, retry, hint, repVars, call, net, history>>
      /\ polling' \subseteq Nodes /\ stray' \subseteq Nodes
      /\ dead' \subseteq Nodes /\ dead \subseteq dead' /\ (env.fatal => n \in dead')
  BY <1>0 DEF Undeliverable, TypeOK, ReturnedHandler
<1>3. \A b \in Slots : /\ busy'[b] => busy[b]
                       /\ b # c => busy'[b] = busy[b]
  BY <1>0, <1>1 DEF TypeOK
<1>4. RingHoldsOutstanding' /\ ring' \in [Nodes -> Seq(Slots)]
  BY <1>0, <1>1, RingDequeues
<1>5. TypeOK'
  <2>1. busy' \in [Slots -> BOOLEAN]
    BY <1>0, <1>1 DEF TypeOK
  <2>. QED BY <1>0, <1>2, <1>4, <2>1 DEF TypeOK, repVars, history
<1>6. CallInv' /\ DepthInv'
  BY <1>0, <1>2, <1>3, CallKept, DepthKept
<1>7. ASSUME env.fatal PROVE CountInv' /\ NetInv'
  <2>0. CountInv /\ NetInv
    BY <1>7 DEF Inv, IndInv
  <2>1. CountInv'
    BY <1>1, <1>2, <1>3, <1>7, <2>0 DEF CountInv, repVars, history
  <2>2. NetInv'
    BY <1>0, <1>2, <2>0, NetKept DEF repVars, history
  <2>. QED BY <2>1, <2>2
<1>. QED BY <1>2, <1>4, <1>5, <1>6, <1>7 DEF Inv, IndInv

-----------------------------------------------------------------------------
(***************************************************************************)
(* The sequence-number checks decide as if the counts were not masked: a   *)
(* request is new exactly when it is the replier's next one, repeated when *)
(* it is the last one, and a reply matches exactly the request held.       *)
(***************************************************************************)
LEMMA ChecksAreExact ==
  ASSUME TypeOK, CountInv, NetInv, NEW m \in net
  PROVE  /\ m.slot \in Slots /\ m.seq \in Nat
         /\ m.type = "request" =>
              /\ m.seq <= repSeq[m.slot]
              /\ IsNew(m) <=> m.seq = repSeq[m.slot]
              /\ IsDuplicate(m) <=> m.seq + 1 = repSeq[m.slot]
         /\ m.type = "reply" =>
              /\ m.seq <= reqSeq[m.slot]
              /\ (SeqNum(m.seq) = SeqNum(reqSeq[m.slot])) <=> (m.seq = reqSeq[m.slot])
<1>1. PICK c \in Slots, q \in Nat : c = m.slot /\ q = m.seq
  BY DEF TypeOK, Datagrams
<1>2. PICK r \in Nat, p \in Nat, t \in Nat, l \in Nat :
        r = reqSeq[c] /\ p = repSeq[c] /\ t = sent[c] /\ l = env.maxLag
        /\ SeqMod \in Nat /\ l + 2 <= SeqMod
  BY EnvFacts DEF TypeOK
<1>3. q < t /\ r <= q + l /\ t <= p + 1 /\ p <= t /\ t <= r + 1
  BY <1>1, <1>2 DEF CountInv, NetInv
<1>4. SeqMod \in Nat \ {0} /\ 1 < SeqMod
  BY <1>2
<1>5. (SeqNum(q) = SeqNum(p)) <=> (q = p)
  <2>1. q < p + SeqMod /\ p < q + SeqMod
    BY <1>2, <1>3
  <2>. QED BY <1>4, <2>1, SeqNumInjective
<1>6. (SeqNum(q + 1) = SeqNum(p)) <=> (q + 1 = p)
  <2>1. q + 1 < p + SeqMod /\ p < q + 1 + SeqMod /\ q + 1 \in Nat
    BY <1>2, <1>3
  <2>. QED BY <1>4, <2>1, SeqNumInjective
<1>7. (SeqNum(q) = SeqNum(r)) <=> (q = r)
  <2>1. q < r + SeqMod /\ r < q + SeqMod
    BY <1>2, <1>3
  <2>. QED BY <1>4, <2>1, SeqNumInjective
<1>8. q <= p /\ q <= r
  BY <1>3
<1>9. IsNew(m) <=> q = p
  BY <1>1, <1>2, <1>5 DEF IsNew
<1>10. IsDuplicate(m) <=> q + 1 = p
  BY <1>1, <1>2, <1>6, <1>9 DEF IsDuplicate
<1>. QED BY <1>1, <1>2, <1>7, <1>8, <1>9, <1>10

\* A new request runs its handler: the replier's count advances.
LEMMA AcceptRequestStep ==
  ASSUME Inv, UNCHANGED env, NEW m \in net, AcceptRequest(m)
  PROVE  Inv'
<1>0. TypeOK /\ CallInv /\ DepthInv /\ RingHoldsOutstanding
  BY DEF Inv, IndInv
<1>1. PICK c \in Slots, q \in Nat : c = m.slot /\ q = m.seq
  BY <1>0 DEF TypeOK, Datagrams
<1>2. /\ m.type = "request" /\ IsNew(m)
      /\ repSeq' = [repSeq EXCEPT ![c] = @ + 1]
      /\ ran' = [ran EXCEPT ![c] = Append(@, q)]
      /\ repBuf' = [repBuf EXCEPT ![c] = q] /\ stamped' = stamped \cup {c}
      /\ net' = net \cup {Datagram("reply", c, q)}
      /\ UNCHANGED <<reqVars, polling, call, dead, sent, done>>
  BY <1>1 DEF AcceptRequest
<1>3. PICK d \in Datagrams : d = Datagram("reply", c, q) /\ d.slot = c /\ d.seq = q
                             /\ d.type = "reply"
  BY DatagramFacts
<1>4. TypeOK'
  <2>1. repSeq' \in [Slots -> Nat] /\ repBuf' \in [Slots -> Nat \cup {NoReply}]
    BY <1>0, <1>2 DEF TypeOK
  <2>2. ran' \in [Slots -> Seq(Nat)]
    <3>1. Append(ran[c], q) \in Seq(Nat)
      BY <1>0 DEF TypeOK
    <3>. QED BY <1>0, <1>2, <3>1 DEF TypeOK
  <2>3. net' \subseteq Datagrams /\ stamped' \subseteq Slots
    BY <1>0, <1>2, <1>3 DEF TypeOK
  <2>. QED BY <1>0, <1>2, <2>1, <2>2, <2>3 DEF TypeOK, reqVars
<1>5. CallInv' /\ DepthInv' /\ RingHoldsOutstanding'
  BY <1>0, <1>2, CallKept, DepthKept, RingKept DEF reqVars
<1>6. ASSUME env.fatal PROVE CountInv' /\ NetInv'
  <2>0. CountInv /\ NetInv
    BY <1>6 DEF Inv, IndInv
  <2>1. /\ repSeq[c] = q /\ q < sent[c] /\ reqSeq[c] <= q + env.maxLag
        /\ sent[c] \in Nat /\ reqSeq[c] \in Nat
    BY <1>0, <1>1, <1>2, <2>0, ChecksAreExact DEF NetInv, TypeOK
  <2>2. \A b \in Slots :
          /\ repSeq'[b] = IF b = c THEN q + 1 ELSE repSeq[b]
          /\ repBuf'[b] = IF b = c THEN q ELSE repBuf[b]
          /\ ran'[b] = IF b = c THEN Append(ran[b], q) ELSE ran[b]
    BY <1>0, <1>2, <2>1 DEF TypeOK
  <2>3. Len(ran'[c]) = q + 1
    <3>1. ran[c] \in Seq(Nat) /\ Len(ran[c]) = q
      BY <1>0, <2>0, <2>1 DEF TypeOK, CountInv
    <3>2. ran'[c] = Append(ran[c], q)
      BY <2>2
    <3>. QED BY <3>1, <3>2
  <2>4. CountInv'
    <3> SUFFICES ASSUME NEW b \in Slots
                 PROVE  /\ repSeq'[b] <= sent[b] /\ sent[b] <= repSeq'[b] + 1
                        /\ sent[b] <= reqSeq[b] + 1
                        /\ repBuf'[b] = repSeq'[b] - 1 /\ Len(ran'[b]) = repSeq'[b]
                        /\ Src(b) \notin dead =>
                             /\ sent[b] = IF busy[b] THEN reqSeq[b] + 1 ELSE reqSeq[b]
                             /\ reqSeq[b] <= repSeq'[b]
                             /\ Len(done[b]) = reqSeq[b]
      BY <1>2 DEF CountInv, reqVars
    <3>1. CASE b = c
      <4>1. repSeq'[b] = q + 1 /\ repBuf'[b] = q /\ Len(ran'[b]) = q + 1
        BY <2>2, <2>3, <3>1
      <4>2. /\ sent[b] <= q + 1 /\ sent[b] <= reqSeq[b] + 1
            /\ Src(b) \notin dead =>
                 /\ sent[b] = IF busy[b] THEN reqSeq[b] + 1 ELSE reqSeq[b]
                 /\ reqSeq[b] <= q /\ Len(done[b]) = reqSeq[b]
        BY <2>0, <2>1, <3>1 DEF CountInv
      <4>. QED BY <2>1, <3>1, <4>1, <4>2
    <3>2. CASE b # c
      BY <2>0, <2>2, <3>2 DEF CountInv
    <3>. QED BY <3>1, <3>2
  <2>5. NetInv'
    <3>1. \A b \in Slots : repSeq[b] <= repSeq'[b] /\ repSeq'[b] \in Nat
      <4> SUFFICES ASSUME NEW b \in Slots
                   PROVE  repSeq[b] <= repSeq'[b] /\ repSeq'[b] \in Nat
        OBVIOUS
      <4>1. repSeq[b] \in Nat
        BY <1>0 DEF TypeOK
      <4>. QED BY <2>1, <2>2, <4>1
    <3>2. d.type = "reply" => d.seq < repSeq'[d.slot]
      BY <1>3, <2>2
    <3>. QED BY <1>0, <1>2, <1>3, <2>0, <2>1, <3>1, <3>2, NetAdds DEF reqVars
  <2>. QED BY <2>4, <2>5
<1>. QED BY <1>2, <1>4, <1>5, <1>6 DEF Inv, IndInv

\* A datagram that is sent back, or a reply that is sent again.
LEMMA AnswerStep ==
  ASSUME Inv, UNCHANGED env, NEW m \in net, ResendReply(m) \/ Refuse(m)
  PROVE  Inv'
<1>0. TypeOK /\ CallInv /\ DepthInv /\ RingHoldsOutstanding
  BY DEF Inv, IndInv
<1>1. PICK c \in Slots, q \in Nat : c = m.slot /\ q = m.seq
  BY <1>0 DEF TypeOK, Datagrams
<1>2. /\ UNCHANGED <<reqVars, repSeq, repBuf, polling, call, dead, history>>
      /\ stamped' \subseteq Slots
  BY <1>0, <1>1 DEF ResendReply, Refuse, TypeOK, repVars
<1>3. PICK d \in Datagrams :
        /\ net' = net \cup {d} /\ d.slot = c
        /\ \/ d.type # "reply" /\ d.seq = q
           \/ m.type = "request" /\ IsDuplicate(m) /\ d.seq = repBuf[c]
  <2>1. CASE ResendReply(m)
    <3>1. m.type = "request" /\ IsDuplicate(m) /\ repBuf[c] # NoReply
          /\ net' = net \cup {Datagram("reply", c, repBuf[c])}
      BY <1>1, <2>1 DEF ResendReply
    <3>2. repBuf[c] \in Nat
      BY <1>0, <3>1 DEF TypeOK
    <3>. QED BY <3>1, <3>2, DatagramFacts
  <2>2. CASE Refuse(m)
    BY <1>1, <2>2, DatagramFacts DEF Refuse
  <2>. QED BY <2>1, <2>2
<1>4. TypeOK'
  <2>1. net' \subseteq Datagrams
    BY <1>0, <1>3 DEF TypeOK
  <2>. QED BY <1>0, <1>2, <2>1 DEF TypeOK, reqVars, history
<1>5. CallInv' /\ DepthInv' /\ RingHoldsOutstanding'
  BY <1>0, <1>2, CallKept, DepthKept, RingKept DEF reqVars
<1>6. ASSUME env.fatal PROVE CountInv' /\ NetInv'
  <2>0. CountInv /\ NetInv
    BY <1>6 DEF Inv, IndInv
  <2>1. CountInv'
    BY <1>2, <2>0, CountKept DEF reqVars, history
  <2>2. d.seq = q /\ (d.type = "reply" => q < repSeq[c])
    <3>1. repSeq[c] \in Nat /\ repBuf[c] = repSeq[c] - 1
      BY <1>0, <2>0 DEF CountInv, TypeOK
    <3>. QED BY <1>0, <1>1, <1>3, <2>0, <3>1, ChecksAreExact
  <2>3. q < sent[c] /\ reqSeq[c] <= q + env.maxLag
    BY <1>1, <2>0 DEF NetInv
  <2>4. \A b \in Slots : repSeq[b] <= repSeq'[b] /\ repSeq'[b] \in Nat
    BY <1>0, <1>2 DEF TypeOK
  <2>5. NetInv'
    BY <1>0, <1>2, <1>3, <2>0, <2>2, <2>3, <2>4, NetAdds DEF reqVars, history
  <2>. QED BY <2>1, <2>5
<1>. QED BY <1>2, <1>4, <1>5, <1>6 DEF Inv, IndInv

-----------------------------------------------------------------------------
(***************************************************************************)
(* A request leaves its descriptor: it was answered, refused or given up.  *)
(***************************************************************************)
LEMMA CompletionKeeps ==
  ASSUME TypeOK, CallInv, DepthInv, RingHoldsOutstanding,
         UNCHANGED <<env, call>>, NEW c \in Slots, busy[c], CompleteRequest(c)
  PROVE  /\ CallInv' /\ DepthInv' /\ RingHoldsOutstanding'
         /\ reqSeq' \in [Slots -> Nat] /\ busy' \in [Slots -> BOOLEAN]
         /\ hint' \in [Pairs -> Instances] /\ ring' \in [Nodes -> Seq(Slots)]
         /\ \A b \in Slots :
              /\ reqSeq'[b] = IF b = c THEN reqSeq[b] + 1 ELSE reqSeq[b]
              /\ busy'[b] = IF b = c THEN FALSE ELSE busy[b]
<1>1. /\ Dequeue(Src(c), c) /\ busy' = [busy EXCEPT ![c] = FALSE]
      /\ reqSeq' = [reqSeq EXCEPT ![c] = @ + 1]
      /\ hint' = [hint EXCEPT ![<<Src(c), Dst(c)>>] = Inst(c)]
  BY DEF CompleteRequest
<1>2. /\ reqSeq' \in [Slots -> Nat] /\ busy' \in [Slots -> BOOLEAN]
      /\ \A b \in Slots :
           /\ reqSeq'[b] = IF b = c THEN reqSeq[b] + 1 ELSE reqSeq[b]
           /\ busy'[b] = IF b = c THEN FALSE ELSE busy[b]
  BY <1>1 DEF TypeOK
<1>3. RingHoldsOutstanding' /\ ring' \in [Nodes -> Seq(Slots)]
  BY <1>1, RingDequeues
<1>4. Inst(c) < env.depth /\ Inst(c) \in Nat /\ Inst(c) \in Instances
  BY SlotFacts DEF DepthInv
<1>5. DepthInv' /\ CallInv'
  BY <1>1, <1>2, <1>4, HintMoved, CallKept
<1>6. hint' \in [Pairs -> Instances]
  BY <1>1, <1>4 DEF TypeOK
<1>. QED BY <1>2, <1>3, <1>5, <1>6

\* An awaited reply runs its handler: the requester's count advances.
LEMMA AcceptReplyStep ==
  ASSUME Inv, UNCHANGED env, NEW m \in net, AcceptReply(m)
  PROVE  Inv'
<1>0. TypeOK /\ CallInv /\ DepthInv /\ RingHoldsOutstanding
  BY DEF Inv, IndInv
<1>1. PICK c \in Slots, q \in Nat : c = m.slot /\ q = m.seq
  BY <1>0 DEF TypeOK, Datagrams
<1>2. /\ m.type = "reply" /\ SeqNum(q) = SeqNum(reqSeq[c]) /\ busy[c]
      /\ Src(c) \notin dead
      /\ CompleteRequest(c) /\ done' = [done EXCEPT ![c] = Append(@, q)]
      /\ net' = Aged(c, reqSeq[c] + 1)
      /\ UNCHANGED <<retry, stray, repVars, polling, call, dead, sent, ran>>
  BY <1>1 DEF AcceptReply, Arrives, Receiver
<1>3. /\ CallInv' /\ DepthInv' /\ RingHoldsOutstanding'
      /\ reqSeq' \in [Slots -> Nat] /\ busy' \in [Slots -> BOOLEAN]
      /\ hint' \in [Pairs -> Instances] /\ ring' \in [Nodes -> Seq(Slots)]
      /\ \A b \in Slots :
           /\ reqSeq'[b] = IF b = c THEN reqSeq[b] + 1 ELSE reqSeq[b]
           /\ busy'[b] = IF b = c THEN FALSE ELSE busy[b]
  BY <1>0, <1>2, CompletionKeeps
<1>4. TypeOK'
  <2>1. done' \in [Slots -> Seq(Nat)]
    <3>1. Append(done[c], q) \in Seq(Nat)
      BY <1>0 DEF TypeOK
    <3>. QED BY <1>0, <1>2, <3>1 DEF TypeOK
  <2>2. net' \subseteq Datagrams
    BY <1>0, <1>2 DEF TypeOK, Aged
  <2>. QED BY <1>0, <1>2, <1>3, <2>1, <2>2 DEF TypeOK, repVars
<1>5. ASSUME env.fatal PROVE CountInv' /\ NetInv'
  <2>0. CountInv /\ NetInv
    BY <1>5 DEF Inv, IndInv
  <2>1. q = reqSeq[c] /\ q < repSeq[c] /\ sent[c] = q + 1 /\ Len(done[c]) = q
        /\ repSeq[c] \in Nat
    BY <1>0, <1>1, <1>2, <2>0, ChecksAreExact DEF NetInv, CountInv, TypeOK
  <2>2. \A b \in Slots : done'[b] = IF b = c THEN Append(done[b], q) ELSE done[b]
    BY <1>0, <1>2 DEF TypeOK
  <2>3. Len(done'[c]) = q + 1
    <3>1. done'[c] = Append(done[c], q) /\ done[c] \in Seq(Nat)
      BY <1>0, <2>2 DEF TypeOK
    <3>. QED BY <2>1, <3>1
  <2>4. CountInv'
    <3> SUFFICES ASSUME NEW b \in Slots
                 PROVE  /\ repSeq[b] <= sent[b] /\ sent[b] <= repSeq[b] + 1
                        /\ sent[b] <= reqSeq'[b] + 1
                        /\ repBuf[b] = repSeq[b] - 1 /\ Len(ran[b]) = repSeq[b]
                        /\ Src(b) \notin dead =>
                             /\ sent[b] = IF busy'[b] THEN reqSeq'[b] + 1 ELSE reqSeq'[b]
                             /\ reqSeq'[b] <= repSeq[b]
                             /\ Len(done'[b]) = reqSeq'[b]
      BY <1>2 DEF CountInv, repVars
    <3>1. CASE b = c
      <4>1. reqSeq'[b] = q + 1 /\ ~busy'[b] /\ Len(done'[b]) = q + 1
        BY <1>3, <2>1, <2>3, <3>1
      <4>2. /\ repSeq[b] <= sent[b] /\ sent[b] <= repSeq[b] + 1
            /\ repBuf[b] = repSeq[b] - 1 /\ Len(ran[b]) = repSeq[b]
        BY <2>0 DEF CountInv
      <4>. QED BY <2>1, <3>1, <4>1, <4>2
    <3>2. CASE b # c
      BY <1>3, <2>0, <2>2, <3>2 DEF CountInv
    <3>. QED BY <3>1, <3>2
  <2>5. NetInv'
    <3>1. reqSeq' = [reqSeq EXCEPT ![c] = @ + 1]
      BY <1>2 DEF CompleteRequest
    <3>. QED BY <1>0, <1>2, <2>0, <3>1, NetAges DEF repVars
  <2>. QED BY <2>4, <2>5
<1>. QED BY <1>2, <1>3, <1>4, <1>5 DEF Inv, IndInv

\* Under the default handler 0 a reply never comes late: whoever gave its
\* request up is dead.
LEMMA LateReplyStep ==
  ASSUME Inv, UNCHANGED env, NEW m \in net, LateReply(m)
  PROVE  Inv' /\ ~env.fatal
<1>0. TypeOK /\ CallInv /\ DepthInv /\ RingHoldsOutstanding
  BY DEF Inv, IndInv
<1>1. PICK c \in Slots : c = m.slot /\ m.seq \in Nat
  BY <1>0 DEF TypeOK, Datagrams
<1>2. /\ m.type = "reply" /\ SeqNum(m.seq) = SeqNum(reqSeq[c]) /\ ~busy[c]
      /\ Src(c) \notin dead
      /\ reqSeq' = [reqSeq EXCEPT ![c] = @ + 1] /\ net' = Aged(c, reqSeq[c] + 1)
      /\ UNCHANGED <<busy, retry, hint, ring, stray, repVars, polling, call,
                     dead, history>>
  BY <1>1 DEF LateReply, Arrives, Receiver
<1>3. ~env.fatal
  <2> SUFFICES ASSUME env.fatal PROVE FALSE
    OBVIOUS
  <2>0. CountInv /\ NetInv
    BY DEF Inv, IndInv
  <2>1. m.seq = reqSeq[c] /\ m.seq < sent[c] /\ sent[c] = reqSeq[c]
    BY <1>0, <1>1, <1>2, <2>0, ChecksAreExact DEF CountInv, NetInv
  <2>. QED BY <1>1, <2>1
<1>4. TypeOK'
  <2>1. reqSeq' \in [Slots -> Nat] /\ net' \subseteq Datagrams
    BY <1>0, <1>2 DEF TypeOK, Aged
  <2>. QED BY <1>0, <1>2, <2>1 DEF TypeOK, repVars, history
<1>5. CallInv' /\ DepthInv' /\ RingHoldsOutstanding'
  BY <1>0, <1>2, CallKept, DepthKept, RingKept
<1>. QED BY <1>3, <1>4, <1>5 DEF Inv, IndInv

\* A returned request, if still awaited, is given up; then handler 0 runs.
LEMMA ReturnedStep ==
  ASSUME Inv, UNCHANGED env, NEW m \in net, Returned(m)
  PROVE  Inv'
<1>0. TypeOK /\ CallInv /\ DepthInv /\ RingHoldsOutstanding
  BY DEF Inv, IndInv
<1>1. PICK c \in Slots : c = m.slot
  BY <1>0 DEF TypeOK, Datagrams
<1>2. /\ dead \subseteq dead' /\ dead' \subseteq Nodes
      /\ env.fatal /\ m.type = "refusedRequest" => Src(c) \in dead'
  <2>1. Receiver(m) \in Nodes /\ (m.type = "refusedRequest" => Receiver(m) = Src(c))
    BY <1>1, SlotFacts DEF Receiver
  <2>. QED BY <1>0, <2>1 DEF Returned, ReturnedHandler, TypeOK
<1>3. UNCHANGED <<retry, stray, repVars, polling, call, history>>
  BY DEF Returned
<1>4. CASE UNCHANGED <<reqSeq, busy, hint, ring, net>>
  <2>1. TypeOK'
    BY <1>0, <1>2, <1>3, <1>4 DEF TypeOK, repVars, history
  <2>2. CallInv'
    BY <1>0, <1>3, <1>4, CallKept
  <2>. QED BY <1>2, <1>3, <1>4, <2>1, <2>2, QuietStep DEF repVars
<1>5. CASE /\ m.type = "refusedRequest" /\ busy[c]
           /\ CompleteRequest(c) /\ net' = Aged(c, reqSeq[c] + 1)
  <2>1. /\ CallInv' /\ DepthInv' /\ RingHoldsOutstanding'
        /\ reqSeq' \in [Slots -> Nat] /\ busy' \in [Slots -> BOOLEAN]
        /\ hint' \in [Pairs -> Instances] /\ ring' \in [Nodes -> Seq(Slots)]
        /\ \A b \in Slots :
             /\ reqSeq'[b] = IF b = c THEN reqSeq[b] + 1 ELSE reqSeq[b]
             /\ busy'[b] = IF b = c THEN FALSE ELSE busy[b]
    BY <1>0, <1>3, <1>5, CompletionKeeps
  <2>2. TypeOK'
    <3>1. net' \subseteq Datagrams
      BY <1>0, <1>5 DEF TypeOK, Aged
    <3>. QED BY <1>0, <1>2, <1>3, <2>1, <3>1 DEF TypeOK, repVars, history
  <2>3. ASSUME env.fatal PROVE CountInv' /\ NetInv'
    <3>0. CountInv /\ NetInv
      BY <2>3 DEF Inv, IndInv
    <3>1. CountInv'
      <4> SUFFICES ASSUME NEW b \in Slots
                   PROVE  /\ repSeq[b] <= sent[b] /\ sent[b] <= repSeq[b] + 1
                          /\ sent[b] <= reqSeq'[b] + 1
                          /\ repBuf[b] = repSeq[b] - 1 /\ Len(ran[b]) = repSeq[b]
                          /\ Src(b) \notin dead' =>
                               /\ sent[b] = IF busy'[b] THEN reqSeq'[b] + 1 ELSE reqSeq'[b]
                               /\ reqSeq'[b] <= repSeq[b]
                               /\ Len(done[b]) = reqSeq'[b]
        BY <1>3 DEF CountInv, repVars, history
      <4>1. CASE b = c
        <5>1. reqSeq'[b] = reqSeq[b] + 1 /\ reqSeq[b] \in Nat /\ sent[b] \in Nat
              /\ Src(b) \in dead'
          BY <1>0, <1>2, <1>5, <2>1, <2>3, <4>1 DEF TypeOK
        <5>2. /\ repSeq[b] <= sent[b] /\ sent[b] <= repSeq[b] + 1
              /\ sent[b] <= reqSeq[b] + 1
              /\ repBuf[b] = repSeq[b] - 1 /\ Len(ran[b]) = repSeq[b]
          BY <3>0 DEF CountInv
        <5>. QED BY <5>1, <5>2
      <4>2. CASE b # c
        BY <1>2, <2>1, <3>0, <4>2 DEF CountInv
      <4>. QED BY <4>1, <4>2
    <3>2. NetInv'
      <4>1. reqSeq' = [reqSeq EXCEPT ![c] = @ + 1]
        BY <1>5 DEF CompleteRequest
      <4>. QED BY <1>0, <1>3, <1>5, <3>0, <4>1, NetAges DEF repVars, history
    <3>. QED BY <3>1, <3>2
  <2>. QED BY <2>1, <2>2, <2>3 DEF Inv, IndInv
<1>. QED BY <1>1, <1>4, <1>5 DEF Returned

-----------------------------------------------------------------------------
(***************************************************************************)
(* The invariant, and what it gives.                                       *)
(***************************************************************************)
\* The steps of Next, a group for each lemma.
LEMMA NextCases ==
  ASSUME Inv, Next
  PROVE  /\ UNCHANGED env
         /\ \/ \E s, d \in Nodes : \/ Request(s, d) \/ RequestAsync(s, d)
                                   \/ AsyncInUse(s) \/ AsyncGoesOn(s) \/ Await(s)
            \/ \E n \in Nodes : \/ Acquire(n) \/ Send(n) \/ SendFails(n) \/ Poll(n)
                                \/ NoTimeout(n) \/ Retransmit(n)
                                \/ Undeliverable(n)
            \/ \E m \in net : \/ AcceptRequest(m) \/ ResendReply(m) \/ AcceptReply(m)
                              \/ LateReply(m) \/ Refuse(m) \/ Returned(m)
            \/ (\E n \in Nodes : StrayAccess(n)) \/ (\E m \in net : Lose(m) \/ Ignore(m))
  BY DEF Next

\* Every step keeps the invariant.
LEMMA NextInv == Inv /\ [Next]_<<env, vars>> => Inv'
<1> SUFFICES ASSUME Inv, [Next]_<<env, vars>> PROVE Inv'
  OBVIOUS
<1>1. CASE UNCHANGED <<env, vars>>
  <2>1. /\ UNCHANGED <<env, reqSeq, busy, retry, hint, ring, stray, repSeq, repBuf>>
        /\ UNCHANGED <<stamped, polling, call, dead, net, sent, ran, done>>
    BY <1>1 DEF vars, reqVars, repVars, history
  <2>2. TypeOK'
    BY <2>1 DEF Inv, TypeOK
  <2>3. CallInv'
    BY <2>1, CallKept DEF Inv, IndInv
  <2>. QED BY <2>1, <2>2, <2>3, QuietStep DEF history
<1>2. CASE Next
  <2>0. UNCHANGED env
    BY <1>2, NextCases
  <2>1. ASSUME NEW s \in Nodes, NEW d \in Nodes,
               \/ Request(s, d) \/ RequestAsync(s, d)
               \/ AsyncInUse(s) \/ AsyncGoesOn(s) \/ Await(s)
        PROVE  Inv'
    BY <2>0, <2>1, CallStep
  <2>2. ASSUME NEW n \in Nodes,
               \/ Acquire(n) \/ Send(n) \/ SendFails(n) \/ Poll(n)
               \/ NoTimeout(n) \/ Retransmit(n) \/ Undeliverable(n)
        PROVE  Inv'
    BY <2>0, <2>2, AcquireStep, SendStep, SendFailsStep, PollStep,
       RetransmitStep, UndeliverableStep
  <2>3. ASSUME NEW m \in net,
               \/ AcceptRequest(m) \/ ResendReply(m) \/ AcceptReply(m)
               \/ LateReply(m) \/ Refuse(m) \/ Returned(m)
        PROVE  Inv'
    BY <2>0, <2>3, AcceptRequestStep, AnswerStep, AcceptReplyStep,
       LateReplyStep, ReturnedStep
  <2>4. CASE (\E n \in Nodes : StrayAccess(n)) \/ (\E m \in net : Lose(m) \/ Ignore(m))
    BY <2>0, <2>4, StrayLoseStep
  <2>. QED BY <1>2, <2>1, <2>2, <2>3, <2>4, NextCases
<1>. QED BY <1>1, <1>2

\* Every state has the invariant: calls are under way on free slots, the
\* rings list what is outstanding and, under the default handler 0, the
\* counts of a slot are close together and no datagram is too old for them.
THEOREM Invariance == Spec => [](TypeOK /\ IndInv)
<1>1. Spec => []Inv
  BY InitInv, NextInv, PTL DEF Spec
<1>. QED BY <1>1 DEF Inv

\* Every variable keeps its type.
THEOREM TypeCorrectness == Spec => []TypeOK
  BY Invariance, PTL

\* The two sequence numbers of a slot differ by the one request that the
\* requester holds and the replier has handled.
THEOREM InStepAlways == Spec => []InStep
<1>1. Inv => InStep
  <2> SUFFICES ASSUME Inv, NEW c \in Slots, Src(c) \notin dead, env.fatal
               PROVE  repSeq[c] = reqSeq[c] \/ (busy[c] /\ repSeq[c] = reqSeq[c] + 1)
    BY EnvFacts DEF InStep, Inv, TypeOK
  <2>1. CountInv /\ reqSeq[c] \in Nat /\ repSeq[c] \in Nat /\ sent[c] \in Nat
    BY DEF Inv, IndInv, TypeOK
  <2>. QED BY <2>1 DEF CountInv
<1>. QED BY <1>1, Invariance, PTL DEF Inv

\* What the "Out-of-order message" branches discard was completed earlier.
THEOREM DiscardedAreStale == Spec => []OnlyStaleDiscarded
<1>1. Inv => OnlyStaleDiscarded
  <2> SUFFICES ASSUME Inv, env.fatal, NEW m \in net
               PROVE  /\ m.type = "request" /\ IsDiscarded(m) => m.seq < reqSeq[m.slot]
                      /\ m.type = "reply" /\ SeqNum(m.seq) # SeqNum(reqSeq[m.slot])
                           => m.seq < reqSeq[m.slot]
    BY DEF OnlyStaleDiscarded
  <2>0. TypeOK /\ CountInv /\ NetInv
    BY DEF Inv, IndInv
  <2>1. PICK c \in Slots, q \in Nat : c = m.slot /\ q = m.seq
    BY <2>0, ChecksAreExact
  <2>2. /\ reqSeq[c] \in Nat /\ repSeq[c] \in Nat /\ sent[c] \in Nat
        /\ repSeq[c] <= sent[c] /\ sent[c] <= reqSeq[c] + 1
    BY <2>0 DEF TypeOK, CountInv
  <2>3. ASSUME m.type = "request", IsDiscarded(m) PROVE q < reqSeq[c]
    <3>1. q <= repSeq[c] /\ q # repSeq[c] /\ q + 1 # repSeq[c]
      BY <2>0, <2>1, <2>3, ChecksAreExact DEF IsDiscarded
    <3>. QED BY <2>2, <3>1
  <2>4. ASSUME m.type = "reply", SeqNum(q) # SeqNum(reqSeq[c]) PROVE q < reqSeq[c]
    <3>1. q <= reqSeq[c] /\ q # reqSeq[c]
      BY <2>0, <2>1, <2>4, ChecksAreExact
    <3>. QED BY <2>2, <3>1
  <2>. QED BY <2>1, <2>3, <2>4
<1>. QED BY <1>1, Invariance, PTL DEF Inv

\* AMX_assert(replybuf) holds: the buffered reply answers the request that
\* is taken for a repetition.
THEOREM RepliesAreBuffered == Spec => []ReplyBuffered
<1>1. Inv => ReplyBuffered
  <2> SUFFICES ASSUME Inv, env.fatal, NEW m \in net,
                      m.type = "request", IsDuplicate(m)
               PROVE  repBuf[m.slot] = m.seq
    BY DEF ReplyBuffered
  <2>0. TypeOK /\ CountInv /\ NetInv
    BY DEF Inv, IndInv
  <2>1. PICK c \in Slots, q \in Nat : c = m.slot /\ q = m.seq
    BY <2>0, ChecksAreExact
  <2>2. q + 1 = repSeq[c] /\ repBuf[c] = repSeq[c] - 1
    BY <2>0, <2>1, ChecksAreExact DEF CountInv
  <2>. QED BY <2>1, <2>2
<1>. QED BY <1>1, Invariance, PTL DEF Inv

\* The tx rings hold every outstanding request once and nothing else.
THEOREM RingsHoldOutstanding == Spec => []RingHoldsOutstanding
<1>1. Inv => RingHoldsOutstanding
  BY DEF Inv, IndInv
<1>. QED BY <1>1, Invariance, PTL DEF Inv

-----------------------------------------------------------------------------
(***************************************************************************)
(* The refinement: sending, running a handler and completing a request are *)
(* steps of the reliable channel, and nothing else touches the history.    *)
(***************************************************************************)
LEMMA SendRefines ==
  ASSUME Inv, env.fatal, NEW s \in Nodes, Send(s)
  PROVE  Channel!ChannelNext
<1>0. TypeOK /\ CallInv /\ CountInv
  BY DEF Inv, IndInv
<1>1. PICK c \in Slots : c = call[s].slot /\ Src(c) = s /\ ~busy[c]
  BY <1>0, CallFacts DEF Send, CallInv, TypeOK
<1>2. sent[c] = Len(done[c])
  BY <1>0, <1>1 DEF Send, CountInv
<1>3. sent' = [sent EXCEPT ![c] = @ + 1] /\ UNCHANGED <<ran, done>>
  BY <1>1 DEF Send
<1>4. Channel!ChannelSend(c)
  BY <1>2, <1>3 DEF Channel!ChannelSend
<1>. QED BY <1>4 DEF Channel!ChannelNext

\* The handler of an accepted request is the channel's one run of it.
LEMMA HandlerRefines ==
  ASSUME Inv, env.fatal, NEW m \in net, AcceptRequest(m)
  PROVE  Channel!ChannelNext
<1>0. TypeOK /\ CountInv /\ NetInv
  BY DEF Inv, IndInv
<1>1. PICK c \in Slots, q \in Nat : c = m.slot /\ q = m.seq
  BY <1>0, ChecksAreExact
<1>2. q = Len(ran[c]) /\ Len(ran[c]) < sent[c]
  BY <1>0, <1>1, ChecksAreExact DEF AcceptRequest, CountInv, NetInv
<1>3. ran' = [ran EXCEPT ![c] = Append(@, q)] /\ UNCHANGED <<sent, done>>
  BY <1>1 DEF AcceptRequest
<1>4. Channel!ChannelHandle(c)
  BY <1>2, <1>3 DEF Channel!ChannelHandle
<1>. QED BY <1>4 DEF Channel!ChannelNext

\* The handler of an accepted reply is the channel's completion.
LEMMA CompletionRefines ==
  ASSUME Inv, env.fatal, NEW m \in net, AcceptReply(m)
  PROVE  Channel!ChannelNext
<1>0. TypeOK /\ CountInv /\ NetInv
  BY DEF Inv, IndInv
<1>1. PICK c \in Slots, q \in Nat : c = m.slot /\ q = m.seq
  BY <1>0, ChecksAreExact
<1>2. Src(c) \notin dead /\ m.type = "reply"
      /\ SeqNum(q) = SeqNum(reqSeq[c])
  BY <1>1 DEF AcceptReply, Arrives, Receiver
<1>3. q = Len(done[c]) /\ Len(done[c]) < Len(ran[c])
  BY <1>0, <1>1, <1>2, ChecksAreExact DEF CountInv, NetInv
<1>4. done' = [done EXCEPT ![c] = Append(@, q)] /\ UNCHANGED <<sent, ran>>
  BY <1>1 DEF AcceptReply
<1>5. Channel!ChannelComplete(c)
  BY <1>3, <1>4 DEF Channel!ChannelComplete
<1>. QED BY <1>5 DEF Channel!ChannelNext

\* Every step is a step of the channels or leaves them as they are.
LEMMA StepRefines ==
  Inv /\ [Next]_<<env, vars>> => [env.fatal => Channel!ChannelNext]_history
<1> SUFFICES ASSUME Inv, [Next]_<<env, vars>>, env.fatal
             PROVE  Channel!ChannelNext \/ UNCHANGED history
  OBVIOUS
<1>1. CASE UNCHANGED <<env, vars>>
  BY <1>1 DEF vars
<1>2. CASE Next
  <2>1. ASSUME NEW s \in Nodes, NEW d \in Nodes,
               \/ Request(s, d) \/ RequestAsync(s, d)
               \/ AsyncInUse(s) \/ AsyncGoesOn(s) \/ Await(s)
        PROVE  UNCHANGED history
    BY <2>1 DEF Request, RequestAsync, AsyncInUse, AsyncGoesOn, Await
  <2>2. ASSUME NEW n \in Nodes,
               \/ Acquire(n) \/ SendFails(n) \/ Poll(n)
               \/ NoTimeout(n) \/ Retransmit(n) \/ Undeliverable(n)
        PROVE  UNCHANGED history
    BY <2>2 DEF Acquire, SendFails, Poll, NoTimeout, Retransmit, Undeliverable
  <2>3. ASSUME NEW m \in net,
               ResendReply(m) \/ LateReply(m) \/ Refuse(m) \/ Returned(m)
        PROVE  UNCHANGED history
    BY <2>3 DEF ResendReply, LateReply, Refuse, Returned
  <2>4. CASE (\E n \in Nodes : StrayAccess(n)) \/ (\E m \in net : Lose(m) \/ Ignore(m))
    BY <2>4 DEF StrayAccess, Lose, Ignore, vars
  <2>. QED BY <1>2, <2>1, <2>2, <2>3, <2>4, NextCases, SendRefines,
              HandlerRefines, CompletionRefines
<1>. QED BY <1>1, <1>2

\* Each request's handler runs at most once, in order, and each request is
\* completed by the reply of its own handler run.
THEOREM Refinement == Spec => ImplementsChannel
<1>1. Init => Channel!ChannelInit
  BY DEF Init, Channel!ChannelInit
<1>2. Spec => [][env.fatal => Channel!ChannelNext]_history
  BY InitInv, NextInv, StepRefines, PTL DEF Spec
<1>. QED BY <1>1, <1>2, PTL DEF Spec, ImplementsChannel
=============================================================================
