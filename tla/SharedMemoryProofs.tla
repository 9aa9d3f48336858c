------------------------- MODULE SharedMemoryProofs -------------------------
(***************************************************************************)
(* What threads and processes share in memory.  The lock-free LIFO keeps   *)
(* its links and ownership right and implements a stack; the semaphore     *)
(* loses and invents no unit; Active Messages over shared memory lose no   *)
(* buffer and answer no request twice; the network below them hands out no *)
(* page twice and delivers each message once, in order.  All of it for any *)
(* number of threads, elements, units, processes, pages and messages.      *)
(***************************************************************************)
EXTENDS Lifo, Semaphore, AMPSHM, PSHMNet, FiniteSetTheorems, FunctionTheorems,
        SequenceTheorems, WellFoundedInduction, TLAPS

-----------------------------------------------------------------------------
(***************************************************************************)
(* The lock-free LIFO                                                      *)
(***************************************************************************)
(* A chain is a sequence of elements. *)
LEMMA ChainIsSeq ==
  ASSUME NEW k \in Nat, NEW S \in SUBSET Nodes, NEW c \in [1..k -> S]
  PROVE  c \in Seq(Nodes) /\ Len(c) = k /\ InRange(c) \subseteq S
<1>1. c \in Seq(S)
  BY SeqDef
<1>2. Len(c) = k
  BY <1>1
<1> QED BY <1>1, <1>2 DEF InRange

(* The initial state satisfies the invariant. *)
LEMMA LifoInitInv == LifoInit => LifoInv
<1> SUFFICES ASSUME LifoInit PROVE LifoInv
  OBVIOUS
<1>1. LifoTypeOK
  BY LifoAssumption DEF LifoInit, LifoTypeOK, Ops, Quiet
<1>2. LinksMakeStack
  BY DEF LifoInit, LinksMakeStack, Linked
<1>3. OneOwner
  BY DEF LifoInit, OneOwner, Injective, InRange
<1>4. ChainLinked /\ NextFresh
  BY DEF LifoInit, ChainLinked, NextFresh, Quiet
<1> QED BY <1>1, <1>2, <1>3, <1>4 DEF LifoInv

\* The forms of a thread's operation.
LEMMA QuietType ==
  /\ Quiet \in Ops
  /\ \A h \in Nodes \union {Nil} : [Quiet EXCEPT !.at = "pop_tag", !.oldhead = h] \in Ops
  /\ \A c \in Seq(Nodes) : [Quiet EXCEPT !.at = "push", !.chain = c] \in Ops
<1>1. <<>> \in Seq(Nodes)
  OBVIOUS
<1> QED BY <1>1 DEF Quiet, Ops

(* Type correctness is kept; the other invariants say that head' is a node. *)
LEMMA LifoTypeStep == LifoInv /\ [LifoNext]_lifoVars => LifoTypeOK'
<1> SUFFICES ASSUME LifoTypeOK, NextFresh, ChainLinked, [LifoNext]_lifoVars PROVE LifoTypeOK'
  BY DEF LifoInv
<1> USE DEF LifoTypeOK
<1>0. CASE UNCHANGED lifoVars
  BY <1>0 DEF lifoVars
<1>a. ASSUME NEW t \in LifoThreads, LifoStep(t) PROVE LifoTypeOK'
  <2> DEFINE Goes(r) == lifo' = [lifo EXCEPT ![t] = r]
  <2>0. ASSUME NEW r \in Ops, Goes(r) PROVE lifo' \in [LifoThreads -> Ops]
    BY <2>0
  <2> HIDE DEF Goes
  <2>1. CASE UseNode(t)
    BY <2>1 DEF UseNode
  <2>2. CASE StartPush(t)
    <3>1. PICK k \in 1..ChainLength : \E c \in [1..k -> owned[t]] :
            Goes([Quiet EXCEPT !.at = "push", !.chain = c])
      BY <2>2 DEF StartPush, Goes
    <3>2. PICK c \in [1..k -> owned[t]] : Goes([Quiet EXCEPT !.at = "push", !.chain = c])
      BY <3>1
    <3>3. c \in Seq(Nodes)
      BY ChainIsSeq, LifoAssumption
    <3>4. lifo' \in [LifoThreads -> Ops]
      BY <2>0, <3>2, <3>3, QuietType
    <3> QED BY <2>2, <3>4 DEF StartPush
  <2>3. CASE push_read_head(t)
    <3>1. [lifo[t] EXCEPT !.at = "push_tag", !.oldhead = head] \in Ops
      BY DEF Ops
    <3>2. Goes([lifo[t] EXCEPT !.at = "push_tag", !.oldhead = head])
      BY <2>3 DEF push_read_head, Goes
    <3>3. lifo' \in [LifoThreads -> Ops]
      BY <3>1, <3>2, <2>0
    <3> QED BY <2>3, <3>3 DEF push_read_head
  <2>4. CASE push_read_tag(t)
    <3>1. [lifo[t] EXCEPT !.at = "push_cas", !.tag = tag] \in Ops
      BY DEF Ops
    <3>2. Goes([lifo[t] EXCEPT !.at = "push_cas", !.tag = tag])
      BY <2>4 DEF push_read_tag, Goes
    <3>3. lifo' \in [LifoThreads -> Ops]
      BY <3>1, <3>2, <2>0
    <3>4. lifo[t].oldhead \in Nodes \union {Nil}
      BY DEF Ops
    <3>5. next' \in [Nodes -> Nodes \union {Nil}]
      BY <2>4, <3>4 DEF push_read_tag
    <3> QED BY <2>4, <3>3, <3>5 DEF push_read_tag
  <2>5. CASE push_cas(t)
    <3>1. CASE Unchanged2(t) /\ Goes(Quiet) /\ head' = lifo[t].chain[1] /\ tag' = tag + 1
               /\ stack' = lifo[t].chain \o stack
               /\ owned' = [owned EXCEPT ![t] = @ \ InRange(lifo[t].chain)]
      <4>1. lifo' \in [LifoThreads -> Ops]
        BY <3>1, <2>0, QuietType
      <4>2. lifo[t].chain \in Seq(Nodes)
        BY DEF Ops
      <4>3. head' \in Nodes
        BY <3>1, <4>2, <2>5 DEF ChainLinked, push_cas
      <4> QED BY <2>5, <3>1, <4>1, <4>2, <4>3 DEF push_cas
    <3>2. CASE UNCHANGED <<head, tag, owned, stack>> /\ lifo' = [lifo EXCEPT ![t].at = "push"]
      <4>1. [lifo[t] EXCEPT !.at = "push"] \in Ops
        BY DEF Ops
      <4>2. Goes([lifo[t] EXCEPT !.at = "push"])
        BY <3>2 DEF Goes
      <4>3. lifo' \in [LifoThreads -> Ops]
        BY <4>1, <4>2, <2>0
      <4> QED BY <2>5, <3>2, <4>3 DEF push_cas
    <3> QED BY <2>5, <3>1, <3>2 DEF push_cas, Goes
  <2>6. CASE pop_read_head(t)
    <3>1. Goes([Quiet EXCEPT !.at = "pop_tag", !.oldhead = head])
      BY <2>6 DEF pop_read_head, Goes
    <3>2. lifo' \in [LifoThreads -> Ops]
      BY <3>1, <2>0, QuietType
    <3> QED BY <2>6, <3>2 DEF pop_read_head
  <2>7. CASE pop_read_tag(t)
    <3>1. CASE Goes(Quiet)
      <4>1. lifo' \in [LifoThreads -> Ops]
        BY <3>1, <2>0, QuietType
      <4> QED BY <2>7, <4>1 DEF pop_read_tag
    <3>2. CASE Goes([lifo[t] EXCEPT !.at = "pop_next", !.tag = tag])
      <4>1. [lifo[t] EXCEPT !.at = "pop_next", !.tag = tag] \in Ops
        BY DEF Ops
      <4>2. lifo' \in [LifoThreads -> Ops]
        BY <3>2, <4>1, <2>0
      <4> QED BY <2>7, <4>2 DEF pop_read_tag
    <3> QED BY <2>7, <3>1, <3>2 DEF pop_read_tag, Goes
  <2>8. CASE pop_read_next(t)
    <3>1. lifo[t].oldhead \in Nodes \union {Nil}
      BY DEF Ops
    <3>2. next[lifo[t].oldhead] \in Nodes \union {Nil}
      BY <3>1, <2>8 DEF NextFresh, pop_read_next
    <3>3. [lifo[t] EXCEPT !.at = "pop_cas", !.newhead = next[lifo[t].oldhead]] \in Ops
      BY <3>2 DEF Ops
    <3>4. Goes([lifo[t] EXCEPT !.at = "pop_cas", !.newhead = next[lifo[t].oldhead]])
      BY <2>8 DEF pop_read_next, Goes
    <3>5. lifo' \in [LifoThreads -> Ops]
      BY <3>3, <3>4, <2>0
    <3> QED BY <2>8, <3>5 DEF pop_read_next
  <2>9. CASE pop_cas(t)
    <3>1. CASE Unchanged2(t) /\ Goes(Quiet) /\ head' = lifo[t].newhead /\ tag' = tag + 1
               /\ stack' = (IF stack = <<>> THEN <<>> ELSE Tail(stack))
               /\ owned' = [owned EXCEPT ![t] = @ \union {lifo[t].oldhead}]
      <4>1. lifo' \in [LifoThreads -> Ops]
        BY <3>1, <2>0, QuietType
      <4>2. lifo[t].oldhead \in Nodes /\ lifo[t].newhead \in Nodes \union {Nil}
        BY <2>9 DEF Ops, NextFresh, pop_cas
      <4> QED BY <2>9, <3>1, <4>1, <4>2 DEF pop_cas
    <3>2. CASE UNCHANGED <<head, tag, owned, stack>> /\ lifo' = [lifo EXCEPT ![t].at = "pop"]
      <4>1. [lifo[t] EXCEPT !.at = "pop"] \in Ops
        BY DEF Ops
      <4>2. Goes([lifo[t] EXCEPT !.at = "pop"])
        BY <3>2 DEF Goes
      <4>3. lifo' \in [LifoThreads -> Ops]
        BY <4>1, <4>2, <2>0
      <4> QED BY <2>9, <3>2, <4>3 DEF pop_cas
    <3> QED BY <2>9, <3>1, <3>2 DEF pop_cas, Goes
  <2> QED BY <1>a, <2>1, <2>2, <2>3, <2>4, <2>5, <2>6, <2>7, <2>8, <2>9 DEF LifoStep
<1> QED BY <1>0, <1>a DEF LifoNext

-----------------------------------------------------------------------------
(* What a step leaves of the other threads' state. *)
LEMMA OthersKept ==
  ASSUME LifoTypeOK, NEW t \in LifoThreads, LifoStep(t),
         NEW u \in LifoThreads, u # t
  PROVE  lifo'[u] = lifo[u] /\ owned'[u] = owned[u]
BY DEF LifoTypeOK, LifoStep, UseNode, StartPush, push_read_head, push_read_tag, push_cas,
       pop_read_head, pop_read_tag, pop_read_next, pop_cas

(* Only elements of the thread that takes a step change their first word. *)
LEMMA NextKept ==
  ASSUME LifoInv, NEW t \in LifoThreads, LifoStep(t), NEW n \in Nodes, n \notin owned[t]
  PROVE  next'[n] = next[n]
<1> USE DEF LifoInv, LifoTypeOK
<1>1. CASE UseNode(t)
  BY <1>1 DEF UseNode
<1>2. CASE push_read_tag(t)
  <2>1. LastNode(lifo[t].chain) \in owned[t]
    BY <1>2 DEF push_read_tag, ChainLinked, LastNode, InRange, Ops
  <2> QED BY <1>2, <2>1 DEF push_read_tag
<1>3. CASE UNCHANGED next
  BY <1>3
<1> QED BY <1>1, <1>2, <1>3 DEF LifoStep, StartPush, push_read_head, push_cas,
           pop_read_head, pop_read_tag, pop_read_next, pop_cas

(* The elements of the list keep their first word. *)
LEMMA StackNextKept ==
  ASSUME LifoInv, NEW t \in LifoThreads, LifoStep(t), NEW k \in 1..Len(stack)
  PROVE  next'[stack[k]] = next[stack[k]]
<1>1. stack[k] \in Nodes /\ stack[k] \notin owned[t]
  BY DEF LifoInv, LifoTypeOK, OneOwner, InRange
<1> QED BY <1>1, NextKept

(* Concatenation, element by element. *)
LEMMA ConcatElements ==
  ASSUME NEW S, NEW c \in Seq(S), NEW d \in Seq(S)
  PROVE  /\ c \o d \in Seq(S) /\ Len(c \o d) = Len(c) + Len(d)
         /\ Len(c) \in Nat /\ Len(d) \in Nat
         /\ \A k \in 1..Len(c) : (c \o d)[k] = c[k]
         /\ \A k \in (Len(c) + 1)..(Len(c) + Len(d)) : (c \o d)[k] = d[k - Len(c)]
OBVIOUS

\* Two sequences one after the other have the elements of both.
LEMMA ConcatRange ==
  ASSUME NEW S, NEW c \in Seq(S), NEW d \in Seq(S)
  PROVE  InRange(c \o d) = InRange(c) \union InRange(d)
<1> DEFINE s == c \o d
<1>1. /\ Len(s) = Len(c) + Len(d) /\ Len(c) \in Nat /\ Len(d) \in Nat
      /\ \A k \in 1..Len(c) : s[k] = c[k]
      /\ \A k \in (Len(c) + 1)..(Len(c) + Len(d)) : s[k] = d[k - Len(c)]
  BY ConcatElements
<1> HIDE DEF s
<1>2. ASSUME NEW k \in 1..Len(s) PROVE s[k] \in InRange(c) \union InRange(d)
  <2>1. CASE k \in 1..Len(c)
    BY <1>1, <2>1 DEF InRange
  <2>2. CASE k \in (Len(c) + 1)..(Len(c) + Len(d))
    <3>1. k - Len(c) \in 1..Len(d)
      BY <1>1, <2>2
    <3> QED BY <1>1, <2>2, <3>1 DEF InRange
  <2> QED BY <1>1, <2>1, <2>2
<1>3. ASSUME NEW k \in 1..Len(c) PROVE c[k] \in InRange(s)
  <2>1. k \in 1..Len(s)
    BY <1>1
  <2> QED BY <1>1, <2>1 DEF InRange
<1>4. ASSUME NEW k \in 1..Len(d) PROVE d[k] \in InRange(s)
  <2> DEFINE m == k + Len(c)
  <2>1. m \in 1..Len(s) /\ m \in (Len(c) + 1)..(Len(c) + Len(d)) /\ m - Len(c) = k
    BY <1>1
  <2> HIDE DEF m
  <2> QED BY <1>1, <2>1 DEF InRange
<1>5. InRange(s) \subseteq InRange(c) \union InRange(d)
  BY <1>2 DEF InRange
<1>6. InRange(c) \subseteq InRange(s)
  BY <1>3 DEF InRange
<1>7. InRange(d) \subseteq InRange(s)
  BY <1>4 DEF InRange
<1> QED BY <1>5, <1>6, <1>7 DEF s

\* Two sequences without common elements stay without repetition together.
LEMMA ConcatInjective ==
  ASSUME NEW S, NEW c \in Seq(S), NEW d \in Seq(S),
         Injective(c), Injective(d), InRange(c) \cap InRange(d) = {}
  PROVE  Injective(c \o d)
<1> DEFINE s == c \o d
<1>1. /\ Len(s) = Len(c) + Len(d) /\ Len(c) \in Nat /\ Len(d) \in Nat
      /\ \A k \in 1..Len(c) : s[k] = c[k]
      /\ \A k \in (Len(c) + 1)..(Len(c) + Len(d)) : s[k] = d[k - Len(c)]
  BY ConcatElements
<1> HIDE DEF s
<1> DEFINE L == 1..Len(c)
           R == (Len(c) + 1)..(Len(c) + Len(d))
<1>2. \A k \in 1..Len(s) : k \in L \/ k \in R
  BY <1>1
<1>3. \A k \in L : s[k] = c[k] /\ s[k] \in InRange(c)
  BY <1>1 DEF InRange
<1>4. ASSUME NEW k \in R
      PROVE  k - Len(c) \in 1..Len(d) /\ s[k] = d[k - Len(c)] /\ s[k] \in InRange(d)
  <2>1. k - Len(c) \in 1..Len(d) /\ s[k] = d[k - Len(c)]
    BY <1>1
  <2> QED BY <2>1 DEF InRange
<1>5. ASSUME NEW j \in 1..Len(s), NEW k \in 1..Len(s), s[j] = s[k] PROVE j = k
  <2>1. CASE j \in L /\ k \in L
    <3>1. c[j] = c[k]
      BY <1>3, <1>5, <2>1
    <3> QED BY <2>1, <3>1 DEF Injective
  <2>2. CASE j \in R /\ k \in R
    <3>1. d[j - Len(c)] = d[k - Len(c)]
      BY <1>4, <1>5, <2>2
    <3>2. j - Len(c) = k - Len(c)
      BY <1>4, <2>2, <3>1 DEF Injective
    <3> QED BY <1>1, <2>2, <3>2
  <2>3. ~(j \in L /\ k \in R) /\ ~(j \in R /\ k \in L)
    BY <1>3, <1>4, <1>5
  <2> QED BY <1>2, <2>1, <2>2, <2>3
<1> QED BY <1>5 DEF Injective, s

\* Index arithmetic for an element of the second sequence.
LEMMA NextIndex ==
  ASSUME NEW a \in Nat, NEW b \in Nat, NEW k \in (a + 1)..(a + b), k # a + b
  PROVE  k + 1 \in (a + 1)..(a + b) /\ k - a # b /\ (k + 1) - a = k - a + 1
OBVIOUS

(* A chain whose last element points to the list makes one list with it. *)
LEMMA ConcatLinked ==
  ASSUME NEW c \in Seq(Nodes), NEW d \in Seq(Nodes), NEW h, Len(c) # 0, Linked(d, h),
         \A k \in 1..(Len(c) - 1) : next[c[k]] = c[k + 1], next[LastNode(c)] = h
  PROVE  Linked(c \o d, c[1])
<1> DEFINE s == c \o d
<1>1. /\ Len(s) = Len(c) + Len(d) /\ Len(c) \in Nat \ {0} /\ Len(d) \in Nat
      /\ \A k \in 1..Len(c) : s[k] = c[k]
      /\ \A k \in (Len(c) + 1)..(Len(c) + Len(d)) : s[k] = d[k - Len(c)]
  BY ConcatElements
<1>2. s # <<>> /\ s[1] = c[1]
  <2>1. s \in Seq(Nodes) /\ Len(s) # 0 /\ 1 \in 1..Len(c)
    BY <1>1
  <2> QED BY <1>1, <2>1
<1> HIDE DEF s
<1>3. ASSUME NEW k \in 1..Len(s) PROVE next[s[k]] = IF k = Len(s) THEN Nil ELSE s[k + 1]
  <2>1. CASE k \in 1..(Len(c) - 1)
    <3>1. k \in 1..Len(c) /\ k + 1 \in 1..Len(c) /\ k # Len(s)
      BY <1>1, <2>1
    <3> QED BY <1>1, <2>1, <3>1
  <2>2. CASE k = Len(c)
    <3>1. next[s[k]] = h
      BY <1>1, <2>2 DEF LastNode
    <3>2. CASE d = <<>>
      <4>1. h = Nil /\ k = Len(s)
        BY <1>1, <2>2, <3>2 DEF Linked
      <4> QED BY <3>1, <4>1
    <3>3. CASE d # <<>>
      <4>1. Len(d) # 0
        BY <3>3
      <4>2. h = d[1] /\ k # Len(s) /\ k + 1 \in (Len(c) + 1)..(Len(c) + Len(d))
            /\ (k + 1) - Len(c) = 1
        BY <1>1, <2>2, <3>3, <4>1 DEF Linked
      <4>3. s[k + 1] = d[1]
        BY <1>1, <4>2
      <4> QED BY <3>1, <4>2, <4>3
    <3> QED BY <3>2, <3>3
  <2>3. CASE k \in (Len(c) + 1)..(Len(c) + Len(d))
    <3>1. k - Len(c) \in 1..Len(d) /\ s[k] = d[k - Len(c)]
      BY <1>1, <2>3
    <3>2. next[s[k]] = IF k - Len(c) = Len(d) THEN Nil ELSE d[k - Len(c) + 1]
      BY <3>1 DEF Linked
    <3>3. CASE k = Len(s)
      <4>1. k - Len(c) = Len(d)
        BY <1>1, <3>3
      <4> QED BY <3>2, <3>3, <4>1
    <3>4. CASE k # Len(s)
      <4>1. k # Len(c) + Len(d)
        BY <1>1, <3>4
      <4>2. /\ k + 1 \in (Len(c) + 1)..(Len(c) + Len(d)) /\ k - Len(c) # Len(d)
            /\ (k + 1) - Len(c) = k - Len(c) + 1
        BY ZenonT(60), <1>1, <2>3, <4>1, NextIndex
      <4>3. s[k + 1] = d[k - Len(c) + 1]
        BY <1>1, <4>2
      <4> QED BY <3>2, <3>4, <4>2, <4>3
    <3> QED BY <3>3, <3>4
  <2> QED BY <1>1, <2>1, <2>2, <2>3
<1> QED BY <1>2, <1>3 DEF Linked, s

-----------------------------------------------------------------------------
(* Each conjunct of the invariant is kept by every step. *)
LEMMA LinksStep ==
  ASSUME LifoInv, NEW t \in LifoThreads, LifoStep(t)
  PROVE  LinksMakeStack'
<1>1. /\ stack \in Seq(Nodes) /\ lifo[t] \in Ops
      /\ \A k \in 1..Len(stack) : next'[stack[k]] = next[stack[k]]
  BY StackNextKept DEF LifoInv, LifoTypeOK
<1>2. CASE UNCHANGED <<head, stack>>
  BY <1>1, <1>2 DEF LifoInv, LinksMakeStack, Linked
<1>3. CASE push_cas(t) /\ Unchanged2(t) /\ head' = lifo[t].chain[1]
           /\ stack' = lifo[t].chain \o stack
  <2> DEFINE c == lifo[t].chain
  <2>1. c \in Seq(Nodes) /\ Len(c) # 0 /\ next[LastNode(c)] = head
        /\ \A k \in 1..(Len(c) - 1) : next[c[k]] = c[k + 1]
    BY <1>1, <1>3 DEF LifoInv, ChainLinked, push_cas, Unchanged2, Ops
  <2>2. Linked(c \o stack, c[1])
    BY <1>1, <2>1, ConcatLinked DEF LifoInv, LinksMakeStack
  <2>3. next' = next
    BY <1>3 DEF push_cas
  <2> QED BY <1>3, <2>2, <2>3 DEF LinksMakeStack, Linked
<1>4. CASE pop_cas(t) /\ Unchanged2(t) /\ head' = lifo[t].newhead
           /\ stack' = (IF stack = <<>> THEN <<>> ELSE Tail(stack))
  <2>1. stack # <<>> /\ head = stack[1] /\ head' = next[stack[1]]
    BY <1>4 DEF LifoInv, NextFresh, LinksMakeStack, Linked, pop_cas, Unchanged2
  <2>2. /\ stack' \in Seq(Nodes) /\ Len(stack') = Len(stack) - 1 /\ Len(stack) \in Nat \ {0}
        /\ \A k \in 1..Len(stack') : stack'[k] = stack[k + 1]
    BY <1>1, <1>4, <2>1
  <2>3. next' = next
    BY <1>4 DEF pop_cas
  <2>4. head' = IF stack' = <<>> THEN Nil ELSE stack'[1]
    <3>1. 1 \in 1..Len(stack)
      BY <2>2
    <3>2. head' = IF 1 = Len(stack) THEN Nil ELSE stack[2]
      <4>1. next[stack[1]] = IF 1 = Len(stack) THEN Nil ELSE stack[1 + 1]
        BY <3>1 DEF LifoInv, LinksMakeStack, Linked
      <4> QED BY <2>1, <4>1
    <3>3. CASE Len(stack) = 1
      BY <2>2, <3>2, <3>3
    <3>4. CASE Len(stack) # 1
      <4>1. 1 \in 1..Len(stack') /\ stack' # <<>>
        BY <2>2, <3>4
      <4> QED BY <2>2, <3>2, <3>4, <4>1
    <3> QED BY <3>3, <3>4
  <2>5. ASSUME NEW k \in 1..Len(stack')
        PROVE  next'[stack'[k]] = IF k = Len(stack') THEN Nil ELSE stack'[k + 1]
    <3>1. k + 1 \in 1..Len(stack) /\ stack'[k] = stack[k + 1]
          /\ (k + 1 = Len(stack) <=> k = Len(stack'))
      BY <2>2
    <3>2. next[stack[k + 1]] = IF k + 1 = Len(stack) THEN Nil ELSE stack[(k + 1) + 1]
      BY <3>1 DEF LifoInv, LinksMakeStack, Linked
    <3>3. CASE k = Len(stack')
      BY <2>3, <3>1, <3>2, <3>3
    <3>4. CASE k # Len(stack')
      <4>1. k + 1 \in 1..Len(stack')
        BY <2>2, <3>4
      <4> QED BY <2>2, <2>3, <3>1, <3>2, <3>4, <4>1
    <3> QED BY <3>3, <3>4
  <2> QED BY <2>4, <2>5 DEF LinksMakeStack, Linked
<1> QED BY <1>2, <1>3, <1>4 DEF LifoStep, UseNode, StartPush, push_read_head, push_read_tag,
           push_cas, pop_read_head, pop_read_tag, pop_read_next, pop_cas

\* Every step keeps each element on the stack or with one thread.
LEMMA OwnerStep ==
  ASSUME LifoInv, NEW t \in LifoThreads, LifoStep(t)
  PROVE  OneOwner'
<1>1. stack \in Seq(Nodes) /\ lifo[t] \in Ops /\ owned \in [LifoThreads -> SUBSET Nodes]
      /\ OneOwner
  BY DEF LifoInv, LifoTypeOK
<1>2. CASE UNCHANGED <<owned, stack>>
  BY <1>1, <1>2 DEF OneOwner
<1>3. CASE push_cas(t) /\ stack' = lifo[t].chain \o stack
           /\ owned' = [owned EXCEPT ![t] = @ \ InRange(lifo[t].chain)]
  <2> DEFINE c == lifo[t].chain
  <2>1. c \in Seq(Nodes) /\ Injective(c) /\ InRange(c) \subseteq owned[t]
    BY <1>1, <1>3 DEF LifoInv, ChainLinked, push_cas, Ops
  <2>2. InRange(c) \cap InRange(stack) = {} /\ Injective(stack)
    BY <1>1, <2>1 DEF OneOwner
  <2>3. Injective(stack') /\ InRange(stack') = InRange(c) \union InRange(stack)
    BY <1>1, <1>3, <2>1, <2>2, ConcatInjective, ConcatRange
  <2>4. \A u \in LifoThreads : InRange(stack') \cap owned'[u] = {}
    BY <1>1, <1>3, <2>1, <2>3 DEF OneOwner
  <2>5. \A u, v \in LifoThreads : u # v => owned'[u] \cap owned'[v] = {}
    BY <1>1, <1>3 DEF OneOwner
  <2> QED BY <2>3, <2>4, <2>5 DEF OneOwner, Injective, InRange
<1>4. CASE pop_cas(t) /\ Unchanged2(t)
           /\ stack' = (IF stack = <<>> THEN <<>> ELSE Tail(stack))
           /\ owned' = [owned EXCEPT ![t] = @ \union {lifo[t].oldhead}]
  <2>1. stack # <<>> /\ lifo[t].oldhead = stack[1]
    BY <1>4 DEF LifoInv, NextFresh, LinksMakeStack, Linked, pop_cas, Unchanged2
  <2>2. /\ stack' \in Seq(Nodes) /\ Len(stack') = Len(stack) - 1 /\ Len(stack) \in Nat \ {0}
        /\ \A k \in 1..Len(stack') : stack'[k] = stack[k + 1]
    BY <1>1, <1>4, <2>1
  <2>3. \A k \in 1..Len(stack') : k + 1 \in 1..Len(stack) /\ k + 1 # 1
    BY <2>2
  <2>4. Injective(stack')
    <3> SUFFICES ASSUME NEW j \in 1..Len(stack'), NEW k \in 1..Len(stack'),
                        stack'[j] = stack'[k]
                 PROVE  j = k
      BY DEF Injective
    <3>1. j + 1 = k + 1
      BY <1>1, <2>2, <2>3 DEF OneOwner, Injective
    <3> QED BY <3>1
  <2>5. InRange(stack') \subseteq InRange(stack) /\ stack[1] \notin InRange(stack')
    <3>1. ASSUME NEW k \in 1..Len(stack') PROVE stack'[k] \in InRange(stack) /\ stack'[k] # stack[1]
      <4>1. k + 1 \in 1..Len(stack) /\ 1 \in 1..Len(stack) /\ k + 1 # 1
        BY <2>2, <2>3
      <4> QED BY <1>1, <2>2, <4>1 DEF OneOwner, Injective, InRange
    <3> QED BY <3>1 DEF InRange
  <2>6. stack[1] \in InRange(stack)
    BY <2>2 DEF InRange
  <2>7. \A u \in LifoThreads : InRange(stack') \cap owned'[u] = {}
    BY <1>1, <1>4, <2>1, <2>5 DEF OneOwner
  <2>8. \A u, v \in LifoThreads : u # v => owned'[u] \cap owned'[v] = {}
    BY <1>1, <1>4, <2>1, <2>6 DEF OneOwner
  <2> QED BY <2>4, <2>7, <2>8 DEF OneOwner, Injective, InRange
<1> QED BY <1>2, <1>3, <1>4 DEF LifoStep, UseNode, StartPush, push_read_head, push_read_tag,
           push_cas, pop_read_head, pop_read_tag, pop_read_next, pop_cas

\* Every step keeps the chains that are about to be pushed linked.
LEMMA ChainStep ==
  ASSUME LifoInv, LifoTypeOK', NEW t \in LifoThreads, LifoStep(t)
  PROVE  ChainLinked'
<1> SUFFICES ASSUME NEW u \in LifoThreads, lifo'[u].at \in {"push", "push_tag", "push_cas"}
             PROVE  /\ Len(lifo'[u].chain) \in 1..ChainLength /\ Injective(lifo'[u].chain)
                    /\ InRange(lifo'[u].chain) \subseteq owned'[u]
                    /\ \A k \in 1..(Len(lifo'[u].chain) - 1) :
                         next'[lifo'[u].chain[k]] = lifo'[u].chain[k + 1]
                    /\ lifo'[u].at = "push_cas" => next'[LastNode(lifo'[u].chain)] = lifo'[u].oldhead
  BY DEF ChainLinked, Injective, InRange, LastNode
<1>0. /\ lifo[t] \in Ops /\ lifo[u] \in Ops /\ lifo \in [LifoThreads -> Ops]
      /\ next \in [Nodes -> Nodes \union {Nil}] /\ owned \in [LifoThreads -> SUBSET Nodes]
  BY DEF LifoInv, LifoTypeOK
<1>1. CASE u # t
  <2> DEFINE c == lifo[u].chain
  <2>1. lifo'[u] = lifo[u] /\ owned'[u] = owned[u]
    BY <1>1, OthersKept DEF LifoInv
  <2>2. /\ c \in Seq(Nodes) /\ Len(c) \in 1..ChainLength /\ Injective(c)
        /\ InRange(c) \subseteq owned[u]
        /\ \A k \in 1..(Len(c) - 1) : next[c[k]] = c[k + 1]
        /\ lifo[u].at = "push_cas" => next[LastNode(c)] = lifo[u].oldhead
    BY <1>0, <2>1 DEF LifoInv, ChainLinked, Ops
  <2>3. ASSUME NEW k \in 1..Len(c) PROVE next'[c[k]] = next[c[k]]
    <3>1. c[k] \in Nodes /\ c[k] \in owned[u]
      BY <2>2 DEF InRange
    <3>2. c[k] \notin owned[t]
      BY <1>1, <3>1 DEF LifoInv, OneOwner
    <3> QED BY <3>1, <3>2, NextKept
  <2>4. LastNode(c) = c[Len(c)] /\ Len(c) \in 1..Len(c)
        /\ \A k \in 1..(Len(c) - 1) : k \in 1..Len(c)
    BY <2>2, LifoAssumption DEF LastNode
  <2> QED BY <2>1, <2>2, <2>3, <2>4
<1>2. CASE u = t
  <2>1. CASE StartPush(t)
    <3>1. PICK k \in 1..ChainLength : \E c \in [1..k -> owned[t]] :
            /\ Injective(c) /\ \A j \in 1..(k - 1) : next[c[j]] = c[j + 1]
            /\ lifo' = [lifo EXCEPT ![t] = [Quiet EXCEPT !.at = "push", !.chain = c]]
      BY <2>1 DEF StartPush
    <3>2. PICK c \in [1..k -> owned[t]] :
            /\ Injective(c) /\ \A j \in 1..(k - 1) : next[c[j]] = c[j + 1]
            /\ lifo' = [lifo EXCEPT ![t] = [Quiet EXCEPT !.at = "push", !.chain = c]]
      BY <3>1
    <3>3. Len(c) = k /\ InRange(c) \subseteq owned[t]
      BY <1>0, ChainIsSeq, LifoAssumption
    <3>4. lifo'[t].chain = c /\ lifo'[t].at = "push"
      BY <1>0, <3>2 DEF Quiet
    <3>5. next' = next /\ owned' = owned
      BY <2>1 DEF StartPush
    <3> QED BY <1>2, <3>2, <3>3, <3>4, <3>5
  <2>2. CASE push_read_tag(t)
    <3> DEFINE c == lifo[t].chain
    <3>1. /\ c \in Seq(Nodes) /\ Len(c) \in 1..ChainLength /\ Injective(c)
          /\ InRange(c) \subseteq owned[t]
          /\ \A k \in 1..(Len(c) - 1) : next[c[k]] = c[k + 1]
      BY <1>0, <2>2 DEF LifoInv, ChainLinked, Ops, push_read_tag
    <3>2. lifo'[t].chain = c /\ lifo'[t].oldhead = lifo[t].oldhead /\ owned' = owned
          /\ next' = [next EXCEPT ![LastNode(c)] = lifo[t].oldhead]
      BY <1>0, <2>2 DEF push_read_tag, Ops
    <3>3. LastNode(c) \in Nodes /\ LastNode(c) = c[Len(c)] /\ Len(c) \in 1..Len(c)
      BY <3>1, LifoAssumption DEF LastNode
    <3>4. next'[LastNode(c)] = lifo'[t].oldhead
      BY <1>0, <3>2, <3>3
    <3>5. ASSUME NEW k \in 1..(Len(c) - 1) PROVE next'[c[k]] = c[k + 1]
      <4>1. k \in 1..Len(c) /\ k # Len(c) /\ c[k] \in Nodes
        BY <3>1, <3>3
      <4>2. c[k] # LastNode(c)
        BY <3>1, <3>3, <4>1 DEF Injective
      <4> QED BY <1>0, <3>1, <3>2, <4>1, <4>2
    <3> QED BY <1>2, <3>1, <3>2, <3>4, <3>5
  <2>3. CASE push_read_head(t)
    BY <1>0, <1>2, <2>3 DEF push_read_head, LifoInv, ChainLinked, Ops
  <2>4. CASE push_cas(t)
    <3>1. lifo'[t].chain = lifo[t].chain /\ lifo'[t].at = "push" /\ owned' = owned /\ next' = next
      BY <1>0, <1>2, <2>4 DEF push_cas, Ops, Quiet
    <3> QED BY <1>2, <2>4, <3>1 DEF push_cas, LifoInv, ChainLinked
  <2>5. CASE UseNode(t) \/ pop_read_head(t) \/ pop_read_tag(t) \/ pop_read_next(t) \/ pop_cas(t)
    <3>1. lifo'[t].at \in {"idle", "pop", "pop_tag", "pop_next", "pop_cas"}
      <4>1. CASE UseNode(t)
        BY <1>2, <4>1, <2>5 DEF UseNode
      <4>2. CASE pop_read_head(t)
        BY <1>0, <4>2 DEF pop_read_head, Quiet
      <4>3. CASE pop_read_tag(t)
        BY <1>0, <4>3 DEF pop_read_tag, Quiet, Ops
      <4>4. CASE pop_read_next(t)
        BY <1>0, <4>4 DEF pop_read_next, Ops
      <4>5. CASE pop_cas(t)
        BY <1>0, <4>5 DEF pop_cas, Quiet, Ops
      <4> QED BY <2>5, <4>1, <4>2, <4>3, <4>4, <4>5
    <3> QED BY <1>2, <3>1
  <2> QED BY <2>1, <2>2, <2>3, <2>4, <2>5 DEF LifoStep
<1> QED BY <1>1, <1>2

\* Every step keeps a link that was read current while head and tag are.
LEMMA FreshStep ==
  ASSUME LifoInv, NEW t \in LifoThreads, LifoStep(t)
  PROVE  NextFresh'
<1> SUFFICES ASSUME NEW u \in LifoThreads, lifo'[u].at \in {"pop_next", "pop_cas"}
             PROVE  /\ lifo'[u].tag <= tag' /\ lifo'[u].oldhead # Nil
                    /\ lifo'[u].at = "pop_cas" /\ Unchanged2(u)'
                         => next'[lifo'[u].oldhead] = lifo'[u].newhead
  BY DEF NextFresh
<1>0. /\ lifo[t] \in Ops /\ lifo[u] \in Ops /\ lifo \in [LifoThreads -> Ops] /\ tag \in Nat
      /\ stack \in Seq(Nodes)
  BY DEF LifoInv, LifoTypeOK
<1>1. UNCHANGED <<head, tag>> \/ tag' = tag + 1
  BY DEF LifoStep, UseNode, StartPush, push_read_head, push_read_tag, push_cas,
         pop_read_head, pop_read_tag, pop_read_next, pop_cas
<1>2. CASE u # t
  <2>1. lifo'[u] = lifo[u]
    BY <1>2, OthersKept DEF LifoInv
  <2>2. /\ lifo[u].tag <= tag /\ lifo[u].oldhead # Nil
        /\ lifo[u].at = "pop_cas" /\ Unchanged2(u) => next[lifo[u].oldhead] = lifo[u].newhead
    BY <2>1 DEF LifoInv, NextFresh
  <2>3. CASE tag' = tag + 1
    BY <1>0, <2>1, <2>2, <2>3 DEF Unchanged2, Ops
  <2>4. CASE UNCHANGED <<head, tag>>
    <3>1. ASSUME Unchanged2(u) PROVE next'[lifo[u].oldhead] = next[lifo[u].oldhead]
      <4>1. stack # <<>> /\ lifo[u].oldhead = stack[1]
        BY <2>2, <3>1 DEF LifoInv, LinksMakeStack, Linked, Unchanged2
      <4>2. 1 \in 1..Len(stack)
        BY <1>0, <4>1
      <4> QED BY <4>1, <4>2, StackNextKept
    <3> QED BY <2>1, <2>2, <2>4, <3>1 DEF Unchanged2
  <2> QED BY <1>1, <2>3, <2>4
<1>3. CASE u = t
  <2>1. CASE pop_read_tag(t)
    BY <1>0, <1>3, <2>1 DEF pop_read_tag, Ops, Quiet
  <2>2. CASE pop_read_next(t)
    BY <1>0, <1>3, <2>2 DEF pop_read_next, Ops, LifoInv, NextFresh
  <2>3. CASE ~pop_read_tag(t) /\ ~pop_read_next(t) /\ ~UseNode(t)
    <3>1. lifo'[t].at \notin {"pop_next", "pop_cas"}
      <4>1. CASE StartPush(t)
        BY <1>0, <4>1 DEF StartPush, Quiet
      <4>2. CASE push_read_head(t) \/ push_read_tag(t)
        BY <1>0, <4>2 DEF push_read_head, push_read_tag, Ops
      <4>3. CASE push_cas(t)
        BY <1>0, <4>3 DEF push_cas, Quiet, Ops
      <4>4. CASE pop_read_head(t)
        BY <1>0, <4>4 DEF pop_read_head, Quiet
      <4>5. CASE pop_cas(t)
        BY <1>0, <4>5 DEF pop_cas, Quiet, Ops
      <4> QED BY <2>3, <4>1, <4>2, <4>3, <4>4, <4>5 DEF LifoStep
    <3> QED BY <1>3, <3>1
  <2>4. CASE UseNode(t)
    BY <1>3, <2>4 DEF UseNode
  <2> QED BY <2>1, <2>2, <2>3, <2>4
<1> QED BY <1>2, <1>3

-----------------------------------------------------------------------------
(* The invariant is inductive. *)
LEMMA LifoInvStep == LifoInv /\ [LifoNext]_lifoVars => LifoInv'
<1> SUFFICES ASSUME LifoInv, [LifoNext]_lifoVars PROVE LifoInv'
  OBVIOUS
<1>1. LifoTypeOK'
  BY LifoTypeStep
<1>2. CASE UNCHANGED lifoVars
  BY <1>2 DEF lifoVars, LifoInv, LifoTypeOK, LinksMakeStack, Linked, OneOwner, ChainLinked,
              NextFresh, Unchanged2
<1>3. ASSUME NEW t \in LifoThreads, LifoStep(t) PROVE LifoInv'
  BY <1>1, <1>3, LinksStep, OwnerStep, ChainStep, FreshStep DEF LifoInv
<1> QED BY <1>2, <1>3 DEF LifoNext

(* The invariant holds in every reachable state: the links from the head     *)
(* pointer always make the list of the elements pushed and not popped        *)
(* (_gasneti_lifo_push, _gasneti_lifo_pop).                                  *)
THEOREM LifoCorrect == LifoSpecification => []LinksMakeStack /\ []LifoTypeOK /\ []OneOwner
<1>1. LifoInv => LinksMakeStack /\ LifoTypeOK /\ OneOwner
  BY DEF LifoInv
<1> QED BY LifoInitInv, LifoInvStep, <1>1, PTL DEF LifoSpecification

(* Every step is a push or a pop of the abstract stack, or leaves it alone. *)
LEMMA StepImplements ==
  ASSUME LifoInv, [LifoNext]_lifoVars
  PROVE  [Stack!Next]_(Stack!vars)
<1>1. CASE UNCHANGED <<stack, owned>>
  BY <1>1 DEF Stack!vars
<1>2. ASSUME NEW t \in LifoThreads, push_cas(t), Unchanged2(t),
             stack' = lifo[t].chain \o stack,
             owned' = [owned EXCEPT ![t] = @ \ InRange(lifo[t].chain)]
      PROVE  Stack!Next
  <2> DEFINE c == lifo[t].chain
  <2>1. /\ c \in Seq(Nodes) /\ Len(c) \in 1..ChainLength /\ Injective(c)
        /\ InRange(c) \subseteq owned[t]
    BY <1>2 DEF LifoInv, LifoTypeOK, ChainLinked, push_cas, Ops
  <2>2. c \in [1..Len(c) -> Nodes] /\ c # <<>>
    BY <2>1, LifoAssumption
  <2>3. Stack!Elements(c) = InRange(c) /\ Stack!Distinct(c)
    BY <2>1 DEF Stack!Elements, Stack!Distinct, InRange, Injective
  <2>4. Stack!Push(t, c)
    BY <1>2, <2>1, <2>2, <2>3 DEF Stack!Push
  <2> QED BY <2>1, <2>2, <2>4 DEF Stack!Next
<1>3. ASSUME NEW t \in LifoThreads, pop_cas(t), Unchanged2(t),
             stack' = (IF stack = <<>> THEN <<>> ELSE Tail(stack)),
             owned' = [owned EXCEPT ![t] = @ \union {lifo[t].oldhead}]
      PROVE  Stack!Next
  <2>1. stack \in Seq(Nodes) /\ stack # <<>> /\ lifo[t].oldhead = stack[1]
    BY <1>3 DEF LifoInv, LifoTypeOK, NextFresh, LinksMakeStack, Linked, pop_cas, Unchanged2
  <2>2. lifo[t].oldhead = Head(stack)
    BY <2>1
  <2> QED BY <1>3, <2>1, <2>2 DEF Stack!Next, Stack!Pop
<1> QED BY <1>1, <1>2, <1>3 DEF LifoNext, LifoStep, UseNode, StartPush, push_read_head,
           push_read_tag, push_cas, pop_read_head, pop_read_tag, pop_read_next, pop_cas, lifoVars

(* The LIFO implements a stack: no element is popped twice or lost, for all  *)
(* numbers of threads and elements (gasnet_syncops.h:781).                   *)
THEOREM LifoRefines == LifoSpecification => ImplementsStack
<1>1. LifoInit => Stack!Init
  BY DEF LifoInit, Stack!Init
<1> QED BY <1>1, LifoInitInv, LifoInvStep, StepImplements, PTL
        DEF LifoSpecification, ImplementsStack, Stack!Spec

-----------------------------------------------------------------------------
(***************************************************************************)
(* The semaphore                                                           *)
(***************************************************************************)
(* A thread that gets n units more adds n pairs to those of all threads.     *)
LEMMA UnitsAdded ==
  ASSUME NEW g \in [SemaThreads -> Nat], IsFiniteSet(UnitsOf(g)),
         NEW t \in SemaThreads, NEW n \in Nat
  PROVE  LET h == [g EXCEPT ![t] = @ + n] IN
         /\ IsFiniteSet(UnitsOf(h))
         /\ Cardinality(UnitsOf(h)) = Cardinality(UnitsOf(g)) + n
<1> DEFINE h == [g EXCEPT ![t] = @ + n]
           D == {t} \X ((g[t] + 1)..(g[t] + n))
<1>1. UnitsOf(h) = UnitsOf(g) \cup D
  <2>1. h \in [SemaThreads -> Nat] /\ h[t] = g[t] + n /\ g[t] \in Nat
        /\ \A u \in SemaThreads \ {t} : h[u] = g[u]
    OBVIOUS
  <2> HIDE DEF h
  <2>2. 1..h[t] = (1..g[t]) \cup ((g[t] + 1)..(g[t] + n))
    BY <2>1
  <2>3. {t} \X (1..h[t]) = ({t} \X (1..g[t])) \cup D
    BY <2>2
  <2>4. \A u \in SemaThreads \ {t} : {u} \X (1..h[u]) = {u} \X (1..g[u])
    BY <2>1
  <2> HIDE DEF D
  <2> QED BY <2>3, <2>4 DEF UnitsOf
<1>2. UnitsOf(g) \cap D = {}
  BY DEF UnitsOf
<1>3. IsFiniteSet(D) /\ Cardinality(D) = n
  <2> DEFINE lo == g[t] + 1
             hi == g[t] + n
  <2>1. lo \in Int /\ hi \in Int /\ (lo > hi <=> n = 0) /\ hi - lo + 1 = n
    OBVIOUS
  <2> HIDE DEF lo, hi
  <2>2. IsFiniteSet(lo..hi) /\ Cardinality(lo..hi) = n
    BY <2>1, FS_Interval
  <2>3. IsFiniteSet({t}) /\ Cardinality({t}) = 1
    BY FS_Singleton
  <2>4. IsFiniteSet({t} \X (lo..hi)) /\ Cardinality({t} \X (lo..hi)) = 1 * n
    BY <2>2, <2>3, FS_Product
  <2> QED BY <2>4 DEF lo, hi
<1> HIDE DEF D, h
<1>4. Cardinality(UnitsOf(g)) \in Nat /\ Cardinality(UnitsOf(g) \cap D) = 0
  BY <1>2, FS_CardinalityType, FS_EmptySet
<1>5. /\ IsFiniteSet(UnitsOf(g) \cup D)
      /\ Cardinality(UnitsOf(g) \cup D) =
           Cardinality(UnitsOf(g)) + Cardinality(D) - Cardinality(UnitsOf(g) \cap D)
  BY <1>3, FS_Union
<1>6. IsFiniteSet(UnitsOf(h)) /\ Cardinality(UnitsOf(h)) = Cardinality(UnitsOf(g)) + n
  BY <1>1, <1>3, <1>4, <1>5
<1> QED BY <1>6 DEF h

(* The invariant of the semaphore holds initially. *)
LEMMA SemaInitInv == SemaInit => SemaInv
<1> SUFFICES ASSUME SemaInit PROVE SemaInv
  OBVIOUS
<1>1. SemaTypeOK /\ NoUnderflow
  BY SemaphoreAssumption DEF SemaInit, SemaTypeOK, NoUnderflow, Resting, Stages
<1>2. UnitsOf(got) = {}
  BY DEF SemaInit, UnitsOf
<1>3. IsFiniteSet(UnitsOf(got)) /\ count + Cardinality(UnitsOf(got)) = Limit
  BY <1>2, FS_EmptySet, SemaphoreAssumption DEF SemaInit
<1> QED BY <1>1, <1>3 DEF SemaInv, UnitsConserved

(* Every step of a call or of up_n keeps it. *)
LEMMA SemaInvStep == SemaInv /\ [SemaNext]_semaVars => SemaInv'
<1> SUFFICES ASSUME SemaInv, [SemaNext]_semaVars PROVE SemaInv'
  OBVIOUS
<1> USE DEF SemaInv
<1>1. CASE UNCHANGED semaVars
  BY <1>1 DEF semaVars, SemaTypeOK, NoUnderflow, UnitsConserved, UnitsOf
<1>2. ASSUME NEW t \in SemaThreads, semaphore_trydown_n(t)
      PROVE  SemaInv'
  <2>1. PICK n \in Wants \union {1} : Calls(t, "read", n)
    BY <1>2 DEF semaphore_trydown_n
  <2>2. n \in Nat
    BY SemaphoreAssumption
  <2>3. SemaTypeOK' /\ NoUnderflow'
    BY <2>1, <2>2 DEF Calls, SemaTypeOK, NoUnderflow, Resting, Stages
  <2> QED BY <2>1, <2>3 DEF Calls, UnitsConserved
<1>3. ASSUME NEW t \in SemaThreads, sema_read(t)
      PROVE  SemaInv'
  <2>1. SemaTypeOK' /\ NoUnderflow' /\ UNCHANGED count
    BY <1>3 DEF sema_read, Returns, Take, SemaTypeOK, NoUnderflow, Resting, Stages
  <2>2. got' = got
    <3>1. got' = got \/ got' = [got EXCEPT ![t] = @ + 0]
      BY <1>3 DEF sema_read, Returns, Take
    <3> QED BY <3>1 DEF SemaTypeOK
  <2> QED BY <2>1, <2>2 DEF UnitsConserved
<1>4. ASSUME NEW t \in SemaThreads, sema_cas(t)
      PROVE  SemaInv'
  <2>1. CASE /\ count = sema[t].old
             /\ count' = count - sema[t].retval
             /\ Returns(t, sema[t].retval)
    <3>1. sema[t].retval \in Nat /\ sema[t].retval <= count
      BY <1>4, <2>1 DEF sema_cas, SemaTypeOK, NoUnderflow
    <3>2. SemaTypeOK' /\ NoUnderflow'
      BY <2>1, <3>1 DEF Returns, SemaTypeOK, NoUnderflow, Resting, Stages
    <3>3. /\ IsFiniteSet(UnitsOf(got'))
          /\ Cardinality(UnitsOf(got')) = Cardinality(UnitsOf(got)) + sema[t].retval
      BY <2>1, <3>1, UnitsAdded DEF Returns, SemaTypeOK
    <3>4. Cardinality(UnitsOf(got)) \in Nat /\ count \in Nat
      BY FS_CardinalityType DEF SemaTypeOK
    <3> QED BY <2>1, <3>1, <3>2, <3>3, <3>4 DEF UnitsConserved
  <2>2. CASE /\ sema' = [sema EXCEPT ![t].at = sema[t].again]
             /\ UNCHANGED <<count, got>>
    <3>1. SemaTypeOK' /\ NoUnderflow'
      <4>1. SemaTypeOK'
        BY <2>2 DEF SemaTypeOK
      <4>2. \A u \in SemaThreads \ {t} : sema'[u] = sema[u]
        BY <2>2 DEF SemaTypeOK
      <4>3. sema'[t].retval = sema[t].retval /\ sema'[t].old = sema[t].old
        BY <2>2 DEF SemaTypeOK
      <4>4. sema[t].retval <= sema[t].old
        BY <1>4 DEF sema_cas, NoUnderflow
      <4> QED BY <4>1, <4>2, <4>3, <4>4 DEF NoUnderflow
    <3> QED BY <2>2, <3>1 DEF UnitsConserved
  <2> QED BY <1>4, <2>1, <2>2 DEF sema_cas
<1>5. ASSUME NEW t \in SemaThreads, semaphore_up_n(t)
      PROVE  SemaInv'
  <2>1. PICK n \in 1..got[t] : /\ count' = count + n
                               /\ got' = [got EXCEPT ![t] = @ - n]
    BY <1>5 DEF semaphore_up_n
  <2>2. n \in Nat /\ sema' = sema /\ got[t] - n \in Nat
    BY <1>5 DEF semaphore_up_n, SemaTypeOK
  <2>3. SemaTypeOK' /\ NoUnderflow'
    BY <2>1, <2>2 DEF SemaTypeOK, NoUnderflow
  <2>4. got' \in [SemaThreads -> Nat] /\ got = [got' EXCEPT ![t] = @ + n]
    <3>1. got \in [SemaThreads -> Nat] /\ got' \in [SemaThreads -> Nat]
      BY <2>3 DEF SemaTypeOK
    <3>2. \A u \in SemaThreads : got[u] = [got' EXCEPT ![t] = @ + n][u]
      BY <2>1, <2>2, <3>1
    <3> QED BY <3>1, <3>2
  <2>5. IsFiniteSet(UnitsOf(got'))
    <3>1. UnitsOf(got') \subseteq UnitsOf(got)
      <4>1. \A u \in SemaThreads : 1..got'[u] \subseteq 1..got[u]
        BY <2>1, <2>2 DEF SemaTypeOK
      <4> QED BY <4>1 DEF UnitsOf
    <3> QED BY <3>1, FS_Subset
  <2>6. Cardinality(UnitsOf(got)) = Cardinality(UnitsOf(got')) + n
    BY <2>2, <2>4, <2>5, UnitsAdded
  <2>7. Cardinality(UnitsOf(got')) \in Nat /\ count \in Nat
    BY <2>5, FS_CardinalityType DEF SemaTypeOK
  <2> QED BY <2>1, <2>2, <2>3, <2>5, <2>6, <2>7 DEF UnitsConserved
<1> QED BY <1>1, <1>2, <1>3, <1>4, <1>5 DEF SemaNext

(* The semaphore neither makes nor loses units: what is free and what the    *)
(* threads were given add up to the limit, whatever compare-and-swaps fail.  *)
THEOREM SemaphoreConserves == SemaSpec => []UnitsConserved
<1>1. SemaInit => SemaInv
  BY SemaInitInv
<1>2. SemaInv /\ [SemaNext]_semaVars => SemaInv'
  BY SemaInvStep
<1>3. SemaInv => UnitsConserved
  BY DEF SemaInv
<1> QED BY <1>1, <1>2, <1>3, PTL DEF SemaSpec

-----------------------------------------------------------------------------
(***************************************************************************)
(* Active Messages over shared memory                                      *)
(***************************************************************************)
\* Counting messages, handlers and prepared requests.

\* A message appended to one queue.
LEMMA MessageQueued ==
  ASSUME NEW Q, NEW R, NEW p \in Processes, NEW k, NEW M,
         IsFiniteSet(InQueues(Q, M)),
         \A q \in Processes \ {p} : R[q] = Q[q],
         k \notin DOMAIN Q[p], DOMAIN R[p] = (DOMAIN Q[p]) \cup {k},
         \A j \in DOMAIN Q[p] : R[p][j] = Q[p][j]
  PROVE  /\ IsFiniteSet(InQueues(R, M))
         /\ R[p][k] \in M => Cardinality(InQueues(R, M)) = Cardinality(InQueues(Q, M)) + 1
         /\ R[p][k] \notin M => Cardinality(InQueues(R, M)) = Cardinality(InQueues(Q, M))
<1> DEFINE m == R[p][k]
           At(P, q) == {q} \X {j \in DOMAIN P[q] : P[q][j] \in M}
           new == <<p, k>>
<1>1. \A q \in Processes \ {p} : R[q] = Q[q]
  OBVIOUS
<1>2. /\ DOMAIN R[p] = (DOMAIN Q[p]) \cup {k} /\ R[p][k] = m
      /\ \A j \in DOMAIN Q[p] : R[p][j] = Q[p][j]
  OBVIOUS
<1>3. k \notin DOMAIN Q[p]
  OBVIOUS
<1> HIDE DEF m
<1>4. InQueues(R, M) = IF m \in M THEN InQueues(Q, M) \cup {new} ELSE InQueues(Q, M)
  <2>1. At(R, p) = IF m \in M THEN At(Q, p) \cup {new} ELSE At(Q, p)
    <3>1. {j \in DOMAIN R[p] : R[p][j] \in M} =
            IF m \in M THEN {j \in DOMAIN Q[p] : Q[p][j] \in M} \cup {k}
            ELSE {j \in DOMAIN Q[p] : Q[p][j] \in M}
      BY <1>2
    <3> QED BY <3>1
  <2>2. \A q \in Processes \ {p} : At(R, q) = At(Q, q)
    BY <1>1
  <2> HIDE DEF At
  <2>3. InQueues(R, M) = UNION {At(R, q) : q \in Processes}
    BY DEF InQueues, At
  <2>4. InQueues(Q, M) = UNION {At(Q, q) : q \in Processes}
    BY DEF InQueues, At
  <2>5. CASE m \notin M
    <3>1. \A q \in Processes : At(R, q) = At(Q, q)
      BY <2>1, <2>2, <2>5
    <3> QED BY <2>3, <2>4, <2>5, <3>1
  <2>6. CASE m \in M
    <3>1. At(R, p) = At(Q, p) \cup {new}
      BY <2>1, <2>6
    <3>2. \A x : x \in InQueues(R, M) <=> \E q \in Processes : x \in At(R, q)
      BY <2>3
    <3>3. \A x : x \in InQueues(Q, M) <=> \E q \in Processes : x \in At(Q, q)
      BY <2>4
    <3>4. \A x : x \in InQueues(R, M) <=> x \in InQueues(Q, M) \cup {new}
      BY <2>2, <3>1, <3>2, <3>3
    <3> QED BY <2>6, <3>4
  <2> QED BY <2>5, <2>6
<1>5. new \notin InQueues(Q, M)
  BY <1>3 DEF InQueues
<1>6. /\ IsFiniteSet(InQueues(Q, M) \cup {new})
      /\ Cardinality(InQueues(Q, M) \cup {new}) = Cardinality(InQueues(Q, M)) + 1
  BY <1>5, FS_AddElement
<1>7. Cardinality(InQueues(Q, M)) \in Nat
  BY FS_CardinalityType
<1> QED BY <1>4, <1>6, <1>7 DEF m

\* The oldest message taken off one queue.
LEMMA MessageTaken ==
  ASSUME NEW Q \in [Processes -> Seq(AMMessages)], NEW p \in Processes,
         Q[p] # <<>>, NEW M \in SUBSET AMMessages,
         IsFiniteSet(InQueues(Q, M))
  PROVE  LET R == [Q EXCEPT ![p] = Tail(@)] IN
         /\ Head(Q[p]) \in AMMessages
         /\ IsFiniteSet(InQueues(R, M))
         /\ Cardinality(InQueues(R, M)) =
              Cardinality(InQueues(Q, M)) - (IF Head(Q[p]) \in M THEN 1 ELSE 0)
<1> DEFINE R == [Q EXCEPT ![p] = Tail(@)]
           old == <<p, 1>>
           S == InQueues(Q, M) \ {old}
           f == [x \in S |-> IF x[1] = p THEN <<p, x[2] - 1>> ELSE x]
<1>1. R[p] = Tail(Q[p]) /\ \A q \in Processes \ {p} : R[q] = Q[q]
  OBVIOUS
<1>2. /\ Head(Q[p]) \in AMMessages /\ Head(Q[p]) = Q[p][1]
      /\ DOMAIN Q[p] = 1..Len(Q[p]) /\ Len(Q[p]) \in Nat \ {0}
      /\ DOMAIN R[p] = 1..(Len(Q[p]) - 1)
      /\ \A k \in 1..(Len(Q[p]) - 1) : R[p][k] = Q[p][k + 1]
  <2>1. Q[p] \in Seq(AMMessages) /\ Len(Q[p]) > 0
    OBVIOUS
  <2> QED BY <1>1, <2>1
<1> HIDE DEF R
<1>3. \A q, k : <<q, k>> \in S <=>
                  /\ q \in Processes /\ k \in DOMAIN Q[q] /\ Q[q][k] \in M
                  /\ ~(q = p /\ k = 1)
  BY DEF InQueues
<1>4. \A q, k : <<q, k>> \in InQueues(R, M) <=>
                  q \in Processes /\ k \in DOMAIN R[q] /\ R[q][k] \in M
  BY DEF InQueues
<1>5. /\ \A x \in S : x = <<x[1], x[2]>>
      /\ \A x \in InQueues(R, M) : x = <<x[1], x[2]>>
  BY DEF InQueues
<1> HIDE DEF S
<1>6. f \in [S -> InQueues(R, M)]
  <2> SUFFICES ASSUME NEW x \in S PROVE f[x] \in InQueues(R, M)
    OBVIOUS
  <2>1. x = <<x[1], x[2]>> /\ <<x[1], x[2]>> \in S
    BY <1>5
  <2>2. CASE x[1] = p
    <3>1. x[2] \in 1..Len(Q[p]) /\ x[2] # 1 /\ Q[p][x[2]] \in M
      BY <1>2, <1>3, <2>1, <2>2
    <3>2. x[2] - 1 \in DOMAIN R[p] /\ R[p][x[2] - 1] = Q[p][x[2]]
      BY <1>2, <3>1
    <3> QED BY <1>4, <2>2, <3>1, <3>2
  <2>3. CASE x[1] # p
    <3>1. x[1] \in Processes \ {p} /\ x[2] \in DOMAIN R[x[1]] /\ R[x[1]][x[2]] \in M
      BY <1>1, <1>3, <2>1, <2>3
    <3> QED BY <1>4, <2>1, <2>3, <3>1
  <2> QED BY <2>2, <2>3
<1>7. \A x, y \in S : f[x] = f[y] => x = y
  <2> SUFFICES ASSUME NEW x \in S, NEW y \in S, f[x] = f[y] PROVE x = y
    OBVIOUS
  <2>1. x = <<x[1], x[2]>> /\ <<x[1], x[2]>> \in S /\ y = <<y[1], y[2]>> /\ <<y[1], y[2]>> \in S
    BY <1>5
  <2>2. x[1] = p => x[2] \in Nat
    BY <1>2, <1>3, <2>1
  <2>3. y[1] = p => y[2] \in Nat
    BY <1>2, <1>3, <2>1
  <2>4. x[1] = y[1]
    BY <2>1
  <2>5. x[2] = y[2]
    BY <2>1, <2>2, <2>3, <2>4
  <2> QED BY <2>1, <2>4, <2>5
<1>8. \A z \in InQueues(R, M) : \E x \in S : f[x] = z
  <2> SUFFICES ASSUME NEW z \in InQueues(R, M) PROVE \E x \in S : f[x] = z
    OBVIOUS
  <2>1. z = <<z[1], z[2]>> /\ z[1] \in Processes /\ z[2] \in DOMAIN R[z[1]]
        /\ R[z[1]][z[2]] \in M
    BY <1>4, <1>5
  <2>2. CASE z[1] = p
    <3>1. z[2] \in 1..(Len(Q[p]) - 1) /\ Q[p][z[2] + 1] \in M
      BY <1>2, <2>1, <2>2
    <3>2. z[2] + 1 \in DOMAIN Q[p] /\ z[2] + 1 # 1
      BY <1>2, <3>1
    <3>3. <<p, z[2] + 1>> \in S
      BY <1>3, <3>1, <3>2
    <3>4. f[<<p, z[2] + 1>>] = <<p, z[2]>>
      BY <3>1, <3>3
    <3> QED BY <2>1, <2>2, <3>3, <3>4
  <2>3. CASE z[1] # p
    <3>1. <<z[1], z[2]>> \in S
      BY <1>1, <1>3, <2>1, <2>3
    <3> QED BY <2>1, <2>3, <3>1
  <2> QED BY <2>2, <2>3
<1>9. ExistsBijection(S, InQueues(R, M))
  <2> HIDE DEF f
  <2>1. f \in Bijection(S, InQueues(R, M))
    BY <1>6, <1>7, <1>8 DEF Bijection, Injection, Surjection, IsInjective
  <2> QED BY <2>1 DEF ExistsBijection
<1>10. old \in InQueues(Q, M) <=> Head(Q[p]) \in M
  BY <1>2 DEF InQueues
<1>11. /\ IsFiniteSet(S) /\ Cardinality(InQueues(Q, M)) \in Nat
       /\ Cardinality(S) = Cardinality(InQueues(Q, M)) - (IF Head(Q[p]) \in M THEN 1 ELSE 0)
  <2>1. IsFiniteSet(S) /\ Cardinality(S) =
          IF old \in InQueues(Q, M) THEN Cardinality(InQueues(Q, M)) - 1
          ELSE Cardinality(InQueues(Q, M))
    BY FS_RemoveElement DEF S
  <2>2. Cardinality(InQueues(Q, M)) \in Nat
    BY FS_CardinalityType
  <2> HIDE DEF old
  <2> QED BY <1>10, <2>1, <2>2
<1>12. /\ IsFiniteSet(InQueues(R, M))
       /\ Cardinality(InQueues(R, M)) = Cardinality(S)
  BY <1>9, <1>11, FS_Bijection
<1> QED BY <1>2, <1>11, <1>12 DEF R

\* A subset of what is counted is finite, so that its count is a number.
LEMMA CountsFinite ==
  ASSUME AMTypeOK, FiniteUse, NEW M \in SUBSET AMMessages
  PROVE  /\ \A n \in Nets : /\ IsFiniteSet(InQueues(amq[n], M))
                            /\ Cardinality(InQueues(amq[n], M)) \in Nat
         /\ \A S \in SUBSET HandlerStages : /\ IsFiniteSet(HandlersOf(M, S))
                                            /\ Cardinality(HandlersOf(M, S)) \in Nat
         /\ \A p \in Processes : Cardinality(PreparedBy(p)) \in Nat
<1>1. \A n \in Nets : InQueues(amq[n], M) \subseteq InQueues(amq[n], AMMessages)
  BY DEF InQueues
<1>2. \A S \in SUBSET HandlerStages : HandlersOf(M, S) \subseteq HandlersOf(AMMessages, HandlerStages)
  BY DEF HandlersOf
<1>3. \A n \in Nets : IsFiniteSet(InQueues(amq[n], M))
  BY <1>1, FS_Subset DEF FiniteUse
<1>4. \A S \in SUBSET HandlerStages : IsFiniteSet(HandlersOf(M, S))
  BY <1>2, FS_Subset DEF FiniteUse
<1> QED BY <1>3, <1>4, FS_CardinalityType DEF FiniteUse

\* A thread's handler starts, goes on or returns.
LEMMA HandlerChange ==
  ASSUME NEW t \in Clients, NEW x, handling'[t] = x,
         \A u \in Clients \ {t} : handling'[u] = handling[u],
         NEW M, NEW S, IsFiniteSet(HandlersOf(M, S))
  PROVE  /\ IsFiniteSet(HandlersOf(M, S)')
         /\ Cardinality(HandlersOf(M, S)') =
              Cardinality(HandlersOf(M, S))
                - (IF handling[t].at \in S /\ handling[t].msg \in M THEN 1 ELSE 0)
                + (IF x.at \in S /\ x.msg \in M THEN 1 ELSE 0)
<1> DEFINE H == HandlersOf(M, S)
<1>1. HandlersOf(M, S)' = IF x.at \in S /\ x.msg \in M THEN H \cup {t} ELSE H \ {t}
  <2>1. handling'[t] = x /\ \A u \in Clients \ {t} : handling'[u] = handling[u]
    OBVIOUS
  <2>2. \A u : u \in HandlersOf(M, S)' <=>
                 u \in Clients /\ handling'[u].at \in S /\ handling'[u].msg \in M
    BY DEF HandlersOf
  <2>3. \A u : u \in H <=>
                 u \in Clients /\ handling[u].at \in S /\ handling[u].msg \in M
    BY DEF HandlersOf
  <2> HIDE DEF H
  <2> QED BY <2>1, <2>2, <2>3
<1>2. t \in H <=> handling[t].at \in S /\ handling[t].msg \in M
  BY DEF HandlersOf
<1>3. Cardinality(H) \in Nat
  BY FS_CardinalityType
<1>4. /\ IsFiniteSet(H \cup {t}) /\ IsFiniteSet(H \ {t})
      /\ Cardinality(H \cup {t}) = IF t \in H THEN Cardinality(H) ELSE Cardinality(H) + 1
      /\ Cardinality(H \ {t}) = IF t \in H THEN Cardinality(H) - 1 ELSE Cardinality(H)
  BY FS_AddElement, FS_RemoveElement
<1> QED BY <1>1, <1>2, <1>3, <1>4

\* A thread prepares a request, or is done with it.
LEMMA PreparedChange ==
  ASSUME NEW t \in Clients, NEW x, calling'[t] = x,
         \A u \in Clients \ {t} : calling'[u] = calling[u],
         NEW p, IsFiniteSet(PreparedBy(p))
  PROVE  /\ IsFiniteSet(PreparedBy(p)')
         /\ Cardinality(PreparedBy(p)') =
              Cardinality(PreparedBy(p))
                - (IF calling[t].at = "prepared" /\ ProcessOf[t] = p THEN 1 ELSE 0)
                + (IF x.at = "prepared" /\ ProcessOf[t] = p THEN 1 ELSE 0)
<1> DEFINE H == PreparedBy(p)
<1>1. PreparedBy(p)' = IF x.at = "prepared" /\ ProcessOf[t] = p THEN H \cup {t} ELSE H \ {t}
  <2>1. calling'[t] = x /\ \A u \in Clients \ {t} : calling'[u] = calling[u]
    OBVIOUS
  <2>2. \A u : u \in PreparedBy(p)' <=>
                 u \in Clients /\ calling'[u].at = "prepared" /\ ProcessOf[u] = p
    BY DEF PreparedBy
  <2>3. \A u : u \in H <=> u \in Clients /\ calling[u].at = "prepared" /\ ProcessOf[u] = p
    BY DEF PreparedBy
  <2> HIDE DEF H
  <2> QED BY <2>1, <2>2, <2>3
<1>2. t \in H <=> calling[t].at = "prepared" /\ ProcessOf[t] = p
  BY DEF PreparedBy
<1>3. Cardinality(H) \in Nat
  BY FS_CardinalityType
<1>4. /\ IsFiniteSet(H \cup {t}) /\ IsFiniteSet(H \ {t})
      /\ Cardinality(H \cup {t}) = IF t \in H THEN Cardinality(H) ELSE Cardinality(H) + 1
      /\ Cardinality(H \ {t}) = IF t \in H THEN Cardinality(H) - 1 ELSE Cardinality(H)
  BY FS_AddElement, FS_RemoveElement
<1> QED BY <1>1, <1>2, <1>3, <1>4

-----------------------------------------------------------------------------
\* Types, and the locks of the senders.

\* The sets of messages that are counted.
LEMMA MessageSets ==
  /\ \A p \in Processes : FromProcess(p) \in SUBSET AMMessages
  /\ \A t \in Clients : OnBehalfOf(t) \in SUBSET AMMessages
  /\ \A m \in AMMessages : /\ m.from \in Processes /\ m.by \in Clients
                           /\ \A p \in Processes : m \in FromProcess(p) <=> m.from = p
                           /\ \A t \in Clients : m \in OnBehalfOf(t) <=> m.by = t
  /\ \A p \in Processes, t \in Clients : [from |-> p, by |-> t] \in AMMessages
  /\ \A t \in Clients : ProcessOf[t] \in Processes
BY DEF FromProcess, OnBehalfOf, AMMessages, Processes

\* The forms of a call and of a handler.
LEMMA StageFacts ==
  ASSUME AMTypeOK, NEW t \in Clients
  PROVE  /\ calling[t].at \in RequestStages \union {"none"}
         /\ calling[t] = NoCall <=> calling[t].at = "none"
         /\ calling[t].at # "none" => /\ calling[t].to \in Processes
                                      /\ \A s \in RequestStages :
                                           /\ [calling[t] EXCEPT !.at = s] \in [at : RequestStages, to : Processes]
                                           /\ [calling[t] EXCEPT !.at = s].at = s
         /\ handling[t].at \in HandlerStages \union {"none"}
         /\ handling[t] = NoCall <=> handling[t].at = "none"
         /\ handling[t].at # "none" => /\ handling[t].msg \in AMMessages
                                       /\ \A s \in HandlerStages :
                                            /\ [handling[t] EXCEPT !.at = s] \in [at : HandlerStages, msg : AMMessages]
                                            /\ [handling[t] EXCEPT !.at = s].at = s
                                            /\ [handling[t] EXCEPT !.at = s].msg = handling[t].msg
<1>1. calling[t] \in {NoCall} \union [at : RequestStages, to : Processes]
  BY DEF AMTypeOK
<1>2. handling[t] \in {NoCall} \union [at : HandlerStages, msg : AMMessages]
  BY DEF AMTypeOK
<1>3. NoCall.at = "none"
  BY DEF NoCall
<1>4. "none" \notin RequestStages /\ "none" \notin HandlerStages
  BY DEF RequestStages, HandlerStages
<1>5. CASE calling[t] = NoCall
  <2>1. CASE handling[t] = NoCall
    BY <1>3, <1>4, <1>5, <2>1
  <2>2. CASE handling[t] \in [at : HandlerStages, msg : AMMessages]
    BY <1>3, <1>4, <1>5, <2>2
  <2> QED BY <1>2, <2>1, <2>2
<1>6. CASE calling[t] \in [at : RequestStages, to : Processes]
  <2>1. CASE handling[t] = NoCall
    BY <1>3, <1>4, <1>6, <2>1
  <2>2. CASE handling[t] \in [at : HandlerStages, msg : AMMessages]
    BY <1>3, <1>4, <1>6, <2>2
  <2> QED BY <1>2, <2>1, <2>2
<1> QED BY <1>1, <1>5, <1>6

\* Every step keeps the types.
LEMMA AMTypeStep == AMTypeOK /\ AMNext => AMTypeOK'
<1> SUFFICES ASSUME AMTypeOK, NEW t \in Clients,
                    \/ StartRequest(t) \/ RequestImmediateFails(t) \/ RequestCancel(t)
                    \/ StartReply(t) \/ ReplyImmediateFails(t)
                    \/ AMLibraryStep(t) \/ AMPollStep(t)
             PROVE  AMTypeOK'
  BY DEF AMNext
<1> DEFINE P == ProcessOf[t]
<1>0. /\ P \in Processes /\ "request" \in Nets /\ "reply" \in Nets
      /\ NoCall \in {NoCall} \union [at : RequestStages, to : Processes]
      /\ NoCall \in {NoCall} \union [at : HandlerStages, msg : AMMessages]
  BY MessageSets DEF Nets
<1>c. ASSUME NEW x \in {NoCall} \union [at : RequestStages, to : Processes]
      PROVE  [calling EXCEPT ![t] = x] \in [Clients -> {NoCall} \union [at : RequestStages, to : Processes]]
  BY DEF AMTypeOK
<1>h. ASSUME NEW x \in {NoCall} \union [at : HandlerStages, msg : AMMessages]
      PROVE  [handling EXCEPT ![t] = x] \in [Clients -> {NoCall} \union [at : HandlerStages, msg : AMMessages]]
  BY DEF AMTypeOK
<1>b. ASSUME NEW n \in Nets, NEW p \in Processes, NEW k \in Nat
      PROVE  [buffers EXCEPT ![n][p] = k] \in [Nets -> [Processes -> Nat]]
  BY DEF AMTypeOK
<1>q. ASSUME NEW n \in Nets, NEW p \in Processes, NEW s \in Seq(AMMessages)
      PROVE  [amq EXCEPT ![n][p] = s] \in [Nets -> [Processes -> Seq(AMMessages)]]
  BY DEF AMTypeOK
<1>l. ASSUME NEW n \in Nets, NEW v \in Clients \union {Nobody}
      PROVE  [sendLock EXCEPT ![n][P] = v] \in [Nets -> [Processes -> Clients \union {Nobody}]]
  BY <1>0 DEF AMTypeOK
<1>v. \A n \in Nets, p \in Processes : buffers[n][p] \in Nat /\ amq[n][p] \in Seq(AMMessages)
  BY DEF AMTypeOK
<1> HIDE DEF P
<1>1. CASE StartRequest(t)
  <2>1. PICK p \in Processes : calling' = [calling EXCEPT ![t] = [at |-> "lock", to |-> p]]
    BY <1>1 DEF StartRequest
  <2>2. [at |-> "lock", to |-> p] \in [at : RequestStages, to : Processes]
    BY DEF RequestStages
  <2>3. sent' \in [Clients -> 0..MaxRequests]
    BY <1>1, AMPSHMAssumption DEF StartRequest, AMTypeOK
  <2> QED BY <1>1, <1>c, <2>1, <2>2, <2>3 DEF StartRequest, AMTypeOK
<1>2. CASE RequestImmediateFails(t)
  BY <1>0, <1>2, <1>c DEF RequestImmediateFails, AMTypeOK
<1>3. CASE RequestCancel(t)
  <2>1. buffers' \in [Nets -> [Processes -> Nat]]
    BY <1>0, <1>3, <1>b, <1>v DEF RequestCancel, P
  <2> QED BY <1>0, <1>3, <1>c, <2>1 DEF RequestCancel, AMTypeOK
<1>4. CASE StartReply(t)
  <2>1. handling[t].at # "none" /\ "lock" \in HandlerStages
    BY <1>4 DEF StartReply, HandlerStages
  <2> QED BY <1>4, <1>h, <2>1, StageFacts DEF StartReply, AMTypeOK
<1>5. CASE ReplyImmediateFails(t)
  <2>1. handling[t].at # "none" /\ "replied" \in HandlerStages
    BY <1>5 DEF ReplyImmediateFails, HandlerStages
  <2> QED BY <1>5, <1>h, <2>1, StageFacts DEF ReplyImmediateFails, AMTypeOK
<1>6. CASE RequestLock(t)
  <2>1. calling[t].at # "none" /\ "buffer" \in RequestStages
    BY <1>6 DEF RequestLock, TakeLock, RequestStages
  <2>2. sendLock' \in [Nets -> [Processes -> Clients \union {Nobody}]]
    BY <1>0, <1>6, <1>l DEF RequestLock, TakeLock, P
  <2> QED BY <1>6, <1>c, <2>1, <2>2, StageFacts DEF RequestLock, AMTypeOK
<1>7. CASE RequestBuffer(t)
  <2>1. calling[t].at # "none" /\ "prepared" \in RequestStages
    BY <1>7 DEF RequestBuffer, TakeBuffer, RequestStages
  <2>2. sendLock' \in [Nets -> [Processes -> Clients \union {Nobody}]]
    BY <1>0, <1>7, <1>l DEF RequestBuffer, TakeBuffer, P
  <2>3. buffers' \in [Nets -> [Processes -> Nat]]
    BY <1>0, <1>7, <1>b, <1>v DEF RequestBuffer, TakeBuffer, P
  <2> QED BY <1>7, <1>c, <2>1, <2>2, <2>3, StageFacts DEF RequestBuffer, AMTypeOK
<1>8. CASE RequestCommit(t)
  <2>1. calling[t].to \in Processes /\ [from |-> ProcessOf[t], by |-> t] \in AMMessages
    BY <1>8, StageFacts, MessageSets DEF RequestCommit
  <2>2. amq' \in [Nets -> [Processes -> Seq(AMMessages)]]
    <3>1. Append(amq["request"][calling[t].to], [from |-> ProcessOf[t], by |-> t]) \in Seq(AMMessages)
      BY <1>0, <1>v, <2>1
    <3> QED BY <1>0, <1>8, <1>q, <2>1, <3>1 DEF RequestCommit
  <2> QED BY <1>0, <1>8, <1>c, <2>2 DEF RequestCommit, AMTypeOK
<1>9. CASE ReplyLock(t)
  <2>1. handling[t].at # "none" /\ "buffer" \in HandlerStages
    BY <1>9 DEF ReplyLock, TakeLock, HandlerStages
  <2>2. sendLock' \in [Nets -> [Processes -> Clients \union {Nobody}]]
    BY <1>0, <1>9, <1>l DEF ReplyLock, TakeLock, P
  <2> QED BY <1>9, <1>h, <2>1, <2>2, StageFacts DEF ReplyLock, AMTypeOK
<1>10. CASE ReplyBuffer(t)
  <2>1. handling[t].at # "none" /\ "replied" \in HandlerStages
    BY <1>10 DEF ReplyBuffer, TakeBuffer, HandlerStages
  <2>2. sendLock' \in [Nets -> [Processes -> Clients \union {Nobody}]]
    BY <1>0, <1>10, <1>l DEF ReplyBuffer, TakeBuffer, P
  <2>3. buffers' \in [Nets -> [Processes -> Nat]]
    BY <1>0, <1>10, <1>b, <1>v DEF ReplyBuffer, TakeBuffer, P
  <2>4. handling[t].msg \in AMMessages
    BY <2>1, StageFacts
  <2>5. handling[t].msg.from \in Processes
        /\ [from |-> ProcessOf[t], by |-> handling[t].msg.by] \in AMMessages
    BY <2>4, MessageSets
  <2>6. amq' \in [Nets -> [Processes -> Seq(AMMessages)]]
    <3>1. Append(amq["reply"][handling[t].msg.from], [from |-> ProcessOf[t], by |-> handling[t].msg.by])
            \in Seq(AMMessages)
      BY <1>0, <1>v, <2>5
    <3> QED BY <1>0, <1>10, <1>q, <2>5, <3>1 DEF ReplyBuffer
  <2> QED BY <1>10, <1>h, <2>1, <2>2, <2>3, <2>6, StageFacts DEF ReplyBuffer, AMTypeOK
<1>11. CASE HandlerReturns(t)
  <2>1. handling[t].msg \in AMMessages
    BY <1>11, StageFacts DEF HandlerReturns
  <2>2. handling[t].msg.from \in Processes
    BY <2>1, MessageSets
  <2>3. buffers' \in [Nets -> [Processes -> Nat]]
    BY <1>0, <1>11, <1>b, <1>v, <2>2 DEF HandlerReturns
  <2> QED BY <1>0, <1>11, <1>h, <2>3 DEF HandlerReturns, AMTypeOK
<1>12. CASE PollReply(t)
  <2>1. amq["reply"][P] \in Seq(AMMessages) /\ amq["reply"][P] # <<>>
    BY <1>0, <1>12, <1>v DEF PollReply, P
  <2>2. Head(amq["reply"][P]) \in AMMessages /\ Tail(amq["reply"][P]) \in Seq(AMMessages)
    BY <2>1
  <2>3. /\ Head(amq["reply"][P]).from \in Processes
        /\ Head(amq["reply"][P]).by \in Clients
    BY <2>2, MessageSets
  <2>4. amq' \in [Nets -> [Processes -> Seq(AMMessages)]]
    BY <1>0, <1>12, <1>q, <2>2 DEF PollReply, P
  <2>5. buffers' \in [Nets -> [Processes -> Nat]]
    <3>1. buffers' = [buffers EXCEPT !["reply"][Head(amq["reply"][P]).from] = @ + 1]
      BY <1>12 DEF PollReply, P
    <3> QED BY <1>0, <1>b, <1>v, <2>3, <3>1
  <2>6. ran' \in [Clients -> Nat]
    <3>1. ran' = [ran EXCEPT ![Head(amq["reply"][P]).by] = @ + 1]
      BY <1>12 DEF PollReply, P
    <3>2. ran \in [Clients -> Nat]
      BY DEF AMTypeOK
    <3> QED BY <2>3, <3>1, <3>2
  <2> QED BY <1>12, <2>4, <2>5, <2>6 DEF PollReply, AMTypeOK
<1>13. CASE PollRequest(t)
  <2>1. amq["request"][P] \in Seq(AMMessages) /\ amq["request"][P] # <<>>
    BY <1>0, <1>13, <1>v DEF PollRequest, P
  <2>2. Head(amq["request"][P]) \in AMMessages /\ Tail(amq["request"][P]) \in Seq(AMMessages)
    BY <2>1
  <2>3. [at |-> "run", msg |-> Head(amq["request"][P])] \in [at : HandlerStages, msg : AMMessages]
    BY <2>2 DEF HandlerStages
  <2>4. amq' \in [Nets -> [Processes -> Seq(AMMessages)]]
    BY <1>0, <1>13, <1>q, <2>2 DEF PollRequest, P
  <2> QED BY <1>13, <1>h, <2>3, <2>4 DEF PollRequest, AMTypeOK, P
<1> QED BY <1>1, <1>2, <1>3, <1>4, <1>5, <1>6, <1>7, <1>8, <1>9, <1>10, <1>11, <1>12, <1>13
        DEF AMLibraryStep, AMPollStep

\* Every step keeps the locks with the threads that look for a buffer.
LEMMA SendLocksStep == AMTypeOK /\ SendLocksHeld /\ AMNext => SendLocksHeld'
<1> SUFFICES ASSUME AMTypeOK, SendLocksHeld, NEW t \in Clients,
                    \/ StartRequest(t) \/ RequestImmediateFails(t) \/ RequestCancel(t)
                    \/ StartReply(t) \/ ReplyImmediateFails(t)
                    \/ AMLibraryStep(t) \/ AMPollStep(t)
             PROVE  SendLocksHeld'
  BY DEF AMNext
<1> SUFFICES ASSUME NEW p \in Processes, NEW u \in Clients
             PROVE  /\ sendLock'["request"][p] = u <=> calling'[u].at = "buffer" /\ ProcessOf[u] = p
                    /\ sendLock'["reply"][p] = u <=> handling'[u].at = "buffer" /\ ProcessOf[u] = p
  BY DEF SendLocksHeld
<1>0. /\ sendLock["request"][p] = u <=> calling[u].at = "buffer" /\ ProcessOf[u] = p
      /\ sendLock["reply"][p] = u <=> handling[u].at = "buffer" /\ ProcessOf[u] = p
      /\ sendLock["request"][p] = t <=> calling[t].at = "buffer" /\ ProcessOf[t] = p
      /\ sendLock["reply"][p] = t <=> handling[t].at = "buffer" /\ ProcessOf[t] = p
      /\ Nobody # u
  BY AMPSHMAssumption DEF SendLocksHeld
<1>l. ASSUME NEW n \in Nets, NEW v, sendLock' = [sendLock EXCEPT ![n][ProcessOf[t]] = v]
      PROVE  /\ sendLock'[n][p] = IF p = ProcessOf[t] THEN v ELSE sendLock[n][p]
             /\ \A m \in Nets \ {n} : sendLock'[m][p] = sendLock[m][p]
  BY <1>l, MessageSets DEF AMTypeOK
<1>c. ASSUME NEW x, calling' = [calling EXCEPT ![t] = x]
      PROVE  calling'[u] = IF u = t THEN x ELSE calling[u]
  BY <1>c DEF AMTypeOK
<1>h. ASSUME NEW x, handling' = [handling EXCEPT ![t] = x]
      PROVE  handling'[u] = IF u = t THEN x ELSE handling[u]
  BY <1>h DEF AMTypeOK
<1>n. NoCall.at # "buffer" /\ "request" \in Nets /\ "reply" \in Nets
  BY DEF NoCall, Nets
<1>1. CASE StartRequest(t)
  <2>1. PICK q \in Processes : calling' = [calling EXCEPT ![t] = [at |-> "lock", to |-> q]]
    BY <1>1 DEF StartRequest
  <2> QED BY <1>0, <1>1, <1>c, <1>n, <2>1 DEF StartRequest
<1>2. CASE RequestImmediateFails(t)
  BY <1>0, <1>2, <1>c, <1>n DEF RequestImmediateFails
<1>3. CASE RequestCancel(t)
  BY <1>0, <1>3, <1>c, <1>n DEF RequestCancel
<1>4. CASE StartReply(t)
  <2>1. handling'[u].at = IF u = t THEN "lock" ELSE handling[u].at
    <3>1. handling' = [handling EXCEPT ![t] = [handling[t] EXCEPT !.at = "lock"]] /\ handling[t].at # "none"
      BY <1>4 DEF StartReply
    <3>2. [handling[t] EXCEPT !.at = "lock"].at = "lock"
      BY <3>1, StageFacts DEF HandlerStages
    <3>3. handling'[t] = [handling[t] EXCEPT !.at = "lock"]
          /\ (u # t => handling'[u] = handling[u])
      BY <3>1 DEF AMTypeOK
    <3> QED BY <3>2, <3>3
  <2> QED BY <1>0, <1>4, <2>1 DEF StartReply
<1>5. CASE ReplyImmediateFails(t)
  <2>1. handling'[u].at = IF u = t THEN "replied" ELSE handling[u].at
    <3>1. handling' = [handling EXCEPT ![t] = [handling[t] EXCEPT !.at = "replied"]] /\ handling[t].at # "none"
      BY <1>5 DEF ReplyImmediateFails
    <3>2. [handling[t] EXCEPT !.at = "replied"].at = "replied"
      BY <3>1, StageFacts DEF HandlerStages
    <3>3. handling'[t] = [handling[t] EXCEPT !.at = "replied"]
          /\ (u # t => handling'[u] = handling[u])
      BY <3>1 DEF AMTypeOK
    <3> QED BY <3>2, <3>3
  <2> QED BY <1>0, <1>5, <2>1 DEF ReplyImmediateFails
<1>6. CASE RequestLock(t)
  <2>1. calling'[u].at = IF u = t THEN "buffer" ELSE calling[u].at
    <3>1. calling' = [calling EXCEPT ![t] = [calling[t] EXCEPT !.at = "buffer"]] /\ calling[t].at # "none"
      BY <1>6 DEF RequestLock, TakeLock
    <3>2. [calling[t] EXCEPT !.at = "buffer"].at = "buffer"
      BY <3>1, StageFacts DEF RequestStages
    <3>3. calling'[t] = [calling[t] EXCEPT !.at = "buffer"]
          /\ (u # t => calling'[u] = calling[u])
      BY <3>1 DEF AMTypeOK
    <3> QED BY <3>2, <3>3
  <2>2. sendLock'["request"][p] = (IF p = ProcessOf[t] THEN t ELSE sendLock["request"][p])
        /\ sendLock'["reply"][p] = sendLock["reply"][p]
    BY <1>6, <1>l, <1>n DEF RequestLock, TakeLock
  <2> QED BY <1>0, <1>6, <2>1, <2>2 DEF RequestLock, TakeLock
<1>7. CASE RequestBuffer(t)
  <2>1. calling'[u].at = IF u = t THEN "prepared" ELSE calling[u].at
    <3>1. calling' = [calling EXCEPT ![t] = [calling[t] EXCEPT !.at = "prepared"]] /\ calling[t].at # "none"
      BY <1>7 DEF RequestBuffer, TakeBuffer
    <3>2. [calling[t] EXCEPT !.at = "prepared"].at = "prepared"
      BY <3>1, StageFacts DEF RequestStages
    <3>3. calling'[t] = [calling[t] EXCEPT !.at = "prepared"]
          /\ (u # t => calling'[u] = calling[u])
      BY <3>1 DEF AMTypeOK
    <3> QED BY <3>2, <3>3
  <2>2. sendLock'["request"][p] = (IF p = ProcessOf[t] THEN Nobody ELSE sendLock["request"][p])
        /\ sendLock'["reply"][p] = sendLock["reply"][p]
    BY ZenonT(60), <1>7, <1>l, <1>n DEF RequestBuffer, TakeBuffer
  <2> QED BY <1>0, <1>7, <2>1, <2>2 DEF RequestBuffer, TakeBuffer
<1>8. CASE RequestCommit(t)
  BY <1>0, <1>8, <1>c, <1>n DEF RequestCommit
<1>9. CASE ReplyLock(t)
  <2>1. handling'[u].at = IF u = t THEN "buffer" ELSE handling[u].at
    <3>1. handling' = [handling EXCEPT ![t] = [handling[t] EXCEPT !.at = "buffer"]] /\ handling[t].at # "none"
      BY <1>9 DEF ReplyLock, TakeLock
    <3>2. [handling[t] EXCEPT !.at = "buffer"].at = "buffer"
      BY <3>1, StageFacts DEF HandlerStages
    <3>3. handling'[t] = [handling[t] EXCEPT !.at = "buffer"]
          /\ (u # t => handling'[u] = handling[u])
      BY <3>1 DEF AMTypeOK
    <3> QED BY <3>2, <3>3
  <2>2. sendLock'["reply"][p] = (IF p = ProcessOf[t] THEN t ELSE sendLock["reply"][p])
        /\ sendLock'["request"][p] = sendLock["request"][p]
    BY <1>9, <1>l, <1>n DEF ReplyLock, TakeLock
  <2> QED BY <1>0, <1>9, <2>1, <2>2 DEF ReplyLock, TakeLock
<1>10. CASE ReplyBuffer(t)
  <2>1. handling'[u].at = IF u = t THEN "replied" ELSE handling[u].at
    <3>1. handling' = [handling EXCEPT ![t] = [handling[t] EXCEPT !.at = "replied"]] /\ handling[t].at # "none"
      BY <1>10 DEF ReplyBuffer, TakeBuffer
    <3>2. [handling[t] EXCEPT !.at = "replied"].at = "replied"
      BY <3>1, StageFacts DEF HandlerStages
    <3>3. handling'[t] = [handling[t] EXCEPT !.at = "replied"]
          /\ (u # t => handling'[u] = handling[u])
      BY <3>1 DEF AMTypeOK
    <3> QED BY <3>2, <3>3
  <2>2. sendLock'["reply"][p] = (IF p = ProcessOf[t] THEN Nobody ELSE sendLock["reply"][p])
        /\ sendLock'["request"][p] = sendLock["request"][p]
    BY <1>10, <1>l, <1>n DEF ReplyBuffer, TakeBuffer
  <2> QED BY <1>0, <1>10, <2>1, <2>2 DEF ReplyBuffer, TakeBuffer
<1>11. CASE HandlerReturns(t)
  BY <1>0, <1>11, <1>h, <1>n DEF HandlerReturns
<1>12. CASE PollReply(t)
  BY <1>0, <1>12 DEF PollReply
<1>13. CASE PollRequest(t)
  <2>1. handling'[u].at # "buffer" \/ (u # t /\ handling'[u] = handling[u])
    BY <1>13, <1>h DEF PollRequest
  <2>2. handling[t] = NoCall
    BY <1>13 DEF PollRequest, RepliesOnly
  <2>3. handling'[t].at = "run"
    BY <1>13 DEF PollRequest, AMTypeOK
  <2>4. u # t => handling'[u] = handling[u]
    BY <1>13, <1>h DEF PollRequest
  <2> QED BY <1>0, <1>13, <1>n, <2>2, <2>3, <2>4 DEF PollRequest
<1> QED BY <1>1, <1>2, <1>3, <1>4, <1>5, <1>6, <1>7, <1>8, <1>9, <1>10, <1>11, <1>12, <1>13
        DEF AMLibraryStep, AMPollStep

-----------------------------------------------------------------------------
\* The counts.

\* What the two networks balance.
RequestsBalance(p) ==
  buffers["request"][p] + (Cardinality(InQueues(amq["request"], FromProcess(p)))
    + (Cardinality(HandlersOf(FromProcess(p), HandlerStages)) + Cardinality(PreparedBy(p))))
  = Depth
RepliesBalance(p) ==
  buffers["reply"][p] + Cardinality(InQueues(amq["reply"], FromProcess(p))) = Depth

\* The counts of messages and handlers whose messages are in M, now and next.
RequestsQueued(M) == Cardinality(InQueues(amq["request"], M))
RepliesQueued(M) == Cardinality(InQueues(amq["reply"], M))
Handled(M) == Cardinality(HandlersOf(M, HandlerStages))
ToAnswer(M) == Cardinality(HandlersOf(M, Unanswered))

\* What message m adds to the count of messages in M.
One(m, M) == IF m \in M THEN 1 ELSE 0

\* The counts are numbers.
LEMMA CountTypes ==
  ASSUME AMTypeOK, FiniteUse, NEW M \in SUBSET AMMessages
  PROVE  /\ RequestsQueued(M) \in Nat /\ RepliesQueued(M) \in Nat
         /\ Handled(M) \in Nat /\ ToAnswer(M) \in Nat
BY CountsFinite DEF RequestsQueued, RepliesQueued, Handled, ToAnswer, Nets, Unanswered

\* A network's queues: a message joins.
LEMMA QueueGrows ==
  ASSUME AMTypeOK, FiniteUse, NEW n \in Nets, NEW p \in Processes, NEW m \in AMMessages,
         amq' = [amq EXCEPT ![n][p] = Append(@, m)], NEW M \in SUBSET AMMessages
  PROVE  /\ IsFiniteSet(InQueues(amq[n], M)')
         /\ Cardinality(InQueues(amq[n], M)') = Cardinality(InQueues(amq[n], M)) + One(m, M)
         /\ \A o \in Nets \ {n} : InQueues(amq[o], M)' = InQueues(amq[o], M)
<1>1. amq'[n] = [amq[n] EXCEPT ![p] = Append(@, m)] /\ \A o \in Nets \ {n} : amq'[o] = amq[o]
  BY DEF AMTypeOK
<1>2. amq[n] \in [Processes -> Seq(AMMessages)] /\ IsFiniteSet(InQueues(amq[n], M))
  BY CountsFinite DEF AMTypeOK
<1>3. /\ IsFiniteSet(InQueues(amq'[n], M))
      /\ Cardinality(InQueues(amq'[n], M)) = Cardinality(InQueues(amq[n], M)) + One(m, M)
  <2> DEFINE k == Len(amq[n][p]) + 1
  <2>1. /\ amq'[n][p] = Append(amq[n][p], m)
        /\ \A q \in Processes \ {p} : amq'[n][q] = amq[n][q]
    BY <1>1, <1>2
  <2>2. amq[n][p] \in Seq(AMMessages)
    BY <1>2
  <2>3. /\ k \notin DOMAIN amq[n][p] /\ DOMAIN amq'[n][p] = (DOMAIN amq[n][p]) \cup {k}
        /\ amq'[n][p][k] = m
        /\ \A j \in DOMAIN amq[n][p] : amq'[n][p][j] = amq[n][p][j]
    BY <2>1, <2>2
  <2> HIDE DEF k
  <2>4. /\ IsFiniteSet(InQueues(amq'[n], M))
        /\ m \in M => Cardinality(InQueues(amq'[n], M)) = Cardinality(InQueues(amq[n], M)) + 1
        /\ m \notin M => Cardinality(InQueues(amq'[n], M)) = Cardinality(InQueues(amq[n], M))
    <3>1. ASSUME NEW Q, NEW R, Q = amq[n], R = amq'[n]
          PROVE  /\ IsFiniteSet(InQueues(R, M))
                 /\ m \in M => Cardinality(InQueues(R, M)) = Cardinality(InQueues(Q, M)) + 1
                 /\ m \notin M => Cardinality(InQueues(R, M)) = Cardinality(InQueues(Q, M))
      <4>1. IsFiniteSet(InQueues(Q, M))
        BY <1>2, <3>1
      <4>2. \A q \in Processes \ {p} : R[q] = Q[q]
        BY <2>1, <3>1
      <4>3. k \notin DOMAIN Q[p] /\ DOMAIN R[p] = (DOMAIN Q[p]) \cup {k}
        BY <2>3, <3>1
      <4>4. \A j \in DOMAIN Q[p] : R[p][j] = Q[p][j]
        BY <2>3, <3>1
      <4>5. R[p][k] = m
        BY <2>3, <3>1
      <4>6. /\ IsFiniteSet(InQueues(R, M))
            /\ R[p][k] \in M => Cardinality(InQueues(R, M)) = Cardinality(InQueues(Q, M)) + 1
            /\ R[p][k] \notin M => Cardinality(InQueues(R, M)) = Cardinality(InQueues(Q, M))
        BY <4>1, <4>2, <4>3, <4>4, MessageQueued
      <4> QED BY <4>5, <4>6
    <3> QED BY <3>1
  <2>5. Cardinality(InQueues(amq[n], M)) \in Nat
    BY CountsFinite
  <2> QED BY <2>4, <2>5 DEF One
<1>4. \A o \in Nets \ {n} : InQueues(amq'[o], M) = InQueues(amq[o], M)
  BY <1>1
<1> QED BY <1>3, <1>4 DEF InQueues

\* A network's queues: the oldest message leaves one.
LEMMA QueueShrinks ==
  ASSUME AMTypeOK, FiniteUse, NEW n \in Nets, NEW p \in Processes, amq[n][p] # <<>>,
         amq' = [amq EXCEPT ![n][p] = Tail(@)], NEW M \in SUBSET AMMessages
  PROVE  /\ Head(amq[n][p]) \in AMMessages
         /\ IsFiniteSet(InQueues(amq[n], M)')
         /\ Cardinality(InQueues(amq[n], M)') =
              Cardinality(InQueues(amq[n], M)) - One(Head(amq[n][p]), M)
         /\ \A o \in Nets \ {n} : InQueues(amq[o], M)' = InQueues(amq[o], M)
<1>1. amq'[n] = [amq[n] EXCEPT ![p] = Tail(@)] /\ \A o \in Nets \ {n} : amq'[o] = amq[o]
  BY DEF AMTypeOK
<1>2. amq[n] \in [Processes -> Seq(AMMessages)] /\ IsFiniteSet(InQueues(amq[n], M))
  BY CountsFinite DEF AMTypeOK
<1>3. /\ Head(amq[n][p]) \in AMMessages
      /\ IsFiniteSet(InQueues(amq'[n], M))
      /\ Cardinality(InQueues(amq'[n], M)) =
           Cardinality(InQueues(amq[n], M)) - One(Head(amq[n][p]), M)
  <2> DEFINE Q == amq[n]
             R == [Q EXCEPT ![p] = Tail(@)]
  <2>1. /\ Q \in [Processes -> Seq(AMMessages)] /\ Q[p] # <<>>
        /\ IsFiniteSet(InQueues(Q, M)) /\ amq'[n] = R
    BY <1>1, <1>2
  <2> HIDE DEF Q
  <2>2. /\ Head(Q[p]) \in AMMessages
        /\ IsFiniteSet(InQueues(R, M))
        /\ Cardinality(InQueues(R, M)) =
             Cardinality(InQueues(Q, M)) - (IF Head(Q[p]) \in M THEN 1 ELSE 0)
    BY <2>1, MessageTaken
  <2> HIDE DEF R
  <2> QED BY <2>1, <2>2 DEF One, Q
<1>4. \A o \in Nets \ {n} : InQueues(amq'[o], M) = InQueues(amq[o], M)
  BY <1>1
<1> QED BY <1>3, <1>4 DEF InQueues

\* Every step keeps what is counted finite and in balance.
LEMMA CountStep ==
  ASSUME AMTypeOK, AMTypeOK', FiniteUse, BuffersConserved, AnsweredOnce, AMNext
  PROVE  FiniteUse' /\ BuffersConserved' /\ AnsweredOnce'
<1> SUFFICES ASSUME NEW t \in Clients,
                    \/ StartRequest(t) \/ RequestImmediateFails(t) \/ RequestCancel(t)
                    \/ StartReply(t) \/ ReplyImmediateFails(t)
                    \/ AMLibraryStep(t) \/ AMPollStep(t)
             PROVE  FiniteUse' /\ BuffersConserved' /\ AnsweredOnce'
  BY DEF AMNext
<1> DEFINE P == ProcessOf[t]
           call(u) == IF calling[u] = NoCall THEN 0 ELSE 1
<1>0. P \in Processes /\ "request" \in Nets /\ "reply" \in Nets /\ "request" # "reply"
  BY MessageSets DEF Nets
<1>b. \A p \in Processes : RequestsBalance(p) /\ RepliesBalance(p)
  <2> SUFFICES ASSUME NEW p \in Processes PROVE RequestsBalance(p) /\ RepliesBalance(p)
    OBVIOUS
  <2>1. buffers["request"][p] + Owned("request", p) = Depth
    BY <1>0 DEF BuffersConserved
  <2>2. buffers["reply"][p] + Owned("reply", p) = Depth
    BY <1>0 DEF BuffersConserved
  <2>3. Owned("request", p) =
          Cardinality(InQueues(amq["request"], FromProcess(p)))
            + (Cardinality(HandlersOf(FromProcess(p), HandlerStages)) + Cardinality(PreparedBy(p)))
    BY DEF Owned
  <2>4. Owned("reply", p) = Cardinality(InQueues(amq["reply"], FromProcess(p)))
    <3>1. Cardinality(InQueues(amq["reply"], FromProcess(p))) \in Nat
      BY <1>0, MessageSets, CountsFinite
    <3> QED BY <3>1 DEF Owned
  <2> QED BY <2>1, <2>2, <2>3, <2>4 DEF RequestsBalance, RepliesBalance
<1>bp. FiniteUse' /\ (\A p \in Processes : RequestsBalance(p)' /\ RepliesBalance(p)')
       => BuffersConserved'
  <2> SUFFICES ASSUME FiniteUse', NEW p \in Processes, RequestsBalance(p)', RepliesBalance(p)'
               PROVE  /\ buffers'["request"][p] + Owned("request", p)' = Depth
                      /\ buffers'["reply"][p] + Owned("reply", p)' = Depth
    BY DEF BuffersConserved, Nets
  <2>3. Owned("request", p)' =
          Cardinality(InQueues(amq["request"], FromProcess(p)))'
            + (Cardinality(HandlersOf(FromProcess(p), HandlerStages))' + Cardinality(PreparedBy(p))')
    BY DEF Owned
  <2>4. Owned("reply", p)' = Cardinality(InQueues(amq["reply"], FromProcess(p)))'
    <3>1. Cardinality(InQueues(amq["reply"], FromProcess(p)))' \in Nat
      <4>1. InQueues(amq'["reply"], FromProcess(p)) \subseteq InQueues(amq'["reply"], AMMessages)
        BY MessageSets DEF InQueues
      <4>2. IsFiniteSet(InQueues(amq'["reply"], AMMessages))
        BY <1>0 DEF FiniteUse, InQueues
      <4>3. Cardinality(InQueues(amq'["reply"], FromProcess(p))) \in Nat
        BY <4>1, <4>2, FS_Subset, FS_CardinalityType
      <4> QED BY <4>3 DEF InQueues
    <3> QED BY <3>1 DEF Owned
  <2> QED BY <2>3, <2>4 DEF RequestsBalance, RepliesBalance
<1>a. \A u \in Clients :
        ran[u] + (call(u) + RequestsQueued(OnBehalfOf(u)) + ToAnswer(OnBehalfOf(u))
                    + RepliesQueued(OnBehalfOf(u))) <= sent[u]
  BY DEF AnsweredOnce, Outstanding, RequestsQueued, ToAnswer, RepliesQueued
<1>ap. (\A u \in Clients :
          ran'[u] + (call(u)' + RequestsQueued(OnBehalfOf(u))' + ToAnswer(OnBehalfOf(u))'
                      + RepliesQueued(OnBehalfOf(u))') <= sent'[u]) => AnsweredOnce'
  BY DEF AnsweredOnce, Outstanding, RequestsQueued, ToAnswer, RepliesQueued
<1>uq. amq' = amq => \A n \in Nets, M \in SUBSET AMMessages :
                       InQueues(amq[n], M)' = InQueues(amq[n], M)
  BY DEF InQueues
<1>uh. handling' = handling => \A M \in SUBSET AMMessages, S \in SUBSET HandlerStages :
                                 HandlersOf(M, S)' = HandlersOf(M, S)
  BY DEF HandlersOf
<1>uc. calling' = calling => /\ \A p \in Processes : PreparedBy(p)' = PreparedBy(p)
                             /\ \A u \in Clients : call(u)' = call(u)
  BY DEF PreparedBy
<1>cc. ASSUME NEW x, calling' = [calling EXCEPT ![t] = x]
       PROVE  /\ \A p \in Processes :
                   /\ IsFiniteSet(PreparedBy(p)')
                   /\ Cardinality(PreparedBy(p)') =
                        Cardinality(PreparedBy(p))
                          - (IF calling[t].at = "prepared" /\ P = p THEN 1 ELSE 0)
                          + (IF x.at = "prepared" /\ P = p THEN 1 ELSE 0)
              /\ \A u \in Clients : call(u)' = IF u # t THEN call(u) ELSE IF x = NoCall THEN 0 ELSE 1
  <2>1. \A u \in Clients : call(u)' = IF u # t THEN call(u) ELSE IF x = NoCall THEN 0 ELSE 1
    BY <1>cc DEF AMTypeOK
  <2>2. \A p \in Processes : IsFiniteSet(PreparedBy(p))
    BY DEF FiniteUse
  <2> HIDE DEF call
  <2>3. calling'[t] = x /\ \A u \in Clients \ {t} : calling'[u] = calling[u]
    BY <1>cc DEF AMTypeOK
  <2>4. ASSUME NEW p \in Processes
        PROVE  /\ IsFiniteSet(PreparedBy(p)')
               /\ Cardinality(PreparedBy(p)') =
                    Cardinality(PreparedBy(p))
                      - (IF calling[t].at = "prepared" /\ P = p THEN 1 ELSE 0)
                      + (IF x.at = "prepared" /\ P = p THEN 1 ELSE 0)
    BY <2>2, <2>3, PreparedChange
  <2> QED BY <2>1, <2>4
<1>hh. ASSUME NEW x \in {NoCall} \union [at : HandlerStages, msg : AMMessages],
              handling' = [handling EXCEPT ![t] = x],
              NEW M \in SUBSET AMMessages
       PROVE  /\ IsFiniteSet(HandlersOf(M, HandlerStages)')
              /\ Handled(M)' = Handled(M)
                   - (IF handling[t].at # "none" /\ handling[t].msg \in M THEN 1 ELSE 0)
                   + (IF x.at # "none" /\ x.msg \in M THEN 1 ELSE 0)
              /\ ToAnswer(M)' = ToAnswer(M)
                   - (IF handling[t].at \in Unanswered /\ handling[t].msg \in M THEN 1 ELSE 0)
                   + (IF x.at \in Unanswered /\ x.msg \in M THEN 1 ELSE 0)
  <2>1. IsFiniteSet(HandlersOf(M, HandlerStages)) /\ IsFiniteSet(HandlersOf(M, Unanswered))
    BY CountsFinite DEF Unanswered
  <2>0. handling'[t] = x /\ \A u \in Clients \ {t} : handling'[u] = handling[u]
    BY <1>hh DEF AMTypeOK
  <2>2. /\ IsFiniteSet(HandlersOf(M, HandlerStages)')
        /\ Handled(M)' = Handled(M)
             - (IF handling[t].at \in HandlerStages /\ handling[t].msg \in M THEN 1 ELSE 0)
             + (IF x.at \in HandlerStages /\ x.msg \in M THEN 1 ELSE 0)
    BY <2>0, <2>1, HandlerChange DEF Handled
  <2>3. ToAnswer(M)' = ToAnswer(M)
             - (IF handling[t].at \in Unanswered /\ handling[t].msg \in M THEN 1 ELSE 0)
             + (IF x.at \in Unanswered /\ x.msg \in M THEN 1 ELSE 0)
    BY <2>0, <2>1, HandlerChange DEF ToAnswer
  <2>4. /\ handling[t].at \in HandlerStages <=> handling[t].at # "none"
        /\ x.at \in HandlerStages <=> x.at # "none"
    <3>1. handling[t].at \in HandlerStages \union {"none"} /\ "none" \notin HandlerStages
      BY StageFacts DEF HandlerStages
    <3>2. x.at \in HandlerStages \union {"none"}
      BY <1>hh DEF NoCall
    <3> QED BY <3>1, <3>2
  <2> QED BY <2>2, <2>3, <2>4
<1>f. \A n \in Nets : IsFiniteSet(InQueues(amq[n], AMMessages))
  BY DEF FiniteUse
<1>g. IsFiniteSet(HandlersOf(AMMessages, HandlerStages)) /\ \A p \in Processes : IsFiniteSet(PreparedBy(p))
  BY DEF FiniteUse
<1>n. /\ \A M \in SUBSET AMMessages : /\ RequestsQueued(M) \in Nat /\ RepliesQueued(M) \in Nat
                                      /\ Handled(M) \in Nat /\ ToAnswer(M) \in Nat
      /\ \A p \in Processes : Cardinality(PreparedBy(p)) \in Nat
  BY CountTypes, CountsFinite
<1>s. /\ AMMessages \in SUBSET AMMessages /\ HandlerStages \in SUBSET HandlerStages
      /\ Unanswered \in SUBSET HandlerStages
      /\ \A p \in Processes : FromProcess(p) \in SUBSET AMMessages
      /\ \A u \in Clients : OnBehalfOf(u) \in SUBSET AMMessages
  BY MessageSets DEF Unanswered
<1>t. /\ \A n \in Nets, p \in Processes : buffers[n][p] \in Nat
      /\ \A u \in Clients : sent[u] \in Nat /\ ran[u] \in Nat
  BY AMPSHMAssumption DEF AMTypeOK
\* the balances, with names for the counts
<1>br. \A p \in Processes :
         /\ RequestsBalance(p) <=>
              buffers["request"][p] + (RequestsQueued(FromProcess(p))
                + (Handled(FromProcess(p)) + Cardinality(PreparedBy(p)))) = Depth
         /\ RepliesBalance(p) <=> buffers["reply"][p] + RepliesQueued(FromProcess(p)) = Depth
         /\ RequestsBalance(p)' <=>
              buffers'["request"][p] + (RequestsQueued(FromProcess(p))'
                + (Handled(FromProcess(p))' + Cardinality(PreparedBy(p)'))) = Depth
         /\ RepliesBalance(p)' <=> buffers'["reply"][p] + RepliesQueued(FromProcess(p))' = Depth
  BY DEF RequestsBalance, RepliesBalance, RequestsQueued, RepliesQueued, Handled
<1> HIDE DEF call
<1>nc. \A u \in Clients : call(u) \in {0, 1} /\ (call(u) = 0 <=> calling[u] = NoCall)
  BY DEF call
\* a call of t goes on, and nothing but calling, the locks and the counts of
\* requests change
<1>e. ASSUME NEW x, calling' = [calling EXCEPT ![t] = x], x.at # "prepared",
             calling[t].at # "prepared", UNCHANGED <<amq, buffers, handling, ran>>,
             \A u \in Clients : sent'[u] = IF u = t /\ calling[t] = NoCall THEN sent[u] + 1 ELSE sent[u]
      PROVE  FiniteUse' /\ BuffersConserved' /\ AnsweredOnce'
  <2>1. /\ \A p \in Processes : /\ IsFiniteSet(PreparedBy(p)')
                                /\ Cardinality(PreparedBy(p)') = Cardinality(PreparedBy(p))
        /\ \A u \in Clients : call(u)' = IF u # t THEN call(u) ELSE IF x = NoCall THEN 0 ELSE 1
    <3>1. /\ \A u \in Clients : call(u)' = IF u # t THEN call(u) ELSE IF x = NoCall THEN 0 ELSE 1
          /\ \A p \in Processes : /\ IsFiniteSet(PreparedBy(p)')
                                  /\ Cardinality(PreparedBy(p)') = Cardinality(PreparedBy(p)) - 0 + 0
      BY <1>cc, <1>e
    <3> QED BY <1>n, <3>1
  <2>2. \A M \in SUBSET AMMessages :
          /\ RequestsQueued(M)' = RequestsQueued(M) /\ RepliesQueued(M)' = RepliesQueued(M)
          /\ Handled(M)' = Handled(M) /\ ToAnswer(M)' = ToAnswer(M)
    BY <1>0, <1>e, <1>s, <1>uq, <1>uh DEF RequestsQueued, RepliesQueued, Handled, ToAnswer
  <2>3. FiniteUse'
    BY <1>e, <1>f, <1>g, <1>s, <1>uq, <1>uh, <2>1 DEF FiniteUse
  <2>4. \A p \in Processes : RequestsBalance(p)' /\ RepliesBalance(p)'
    BY <1>b, <1>br, <1>e, <1>s, <2>1, <2>2
  <2>5. AnsweredOnce'
    <3> SUFFICES ASSUME NEW u \in Clients
                 PROVE  ran'[u] + (call(u)' + RequestsQueued(OnBehalfOf(u))'
                          + ToAnswer(OnBehalfOf(u))' + RepliesQueued(OnBehalfOf(u))') <= sent'[u]
      BY <1>ap
    <3>1. /\ RequestsQueued(OnBehalfOf(u))' = RequestsQueued(OnBehalfOf(u))
          /\ ToAnswer(OnBehalfOf(u))' = ToAnswer(OnBehalfOf(u))
          /\ RepliesQueued(OnBehalfOf(u))' = RepliesQueued(OnBehalfOf(u))
          /\ RequestsQueued(OnBehalfOf(u)) \in Nat /\ ToAnswer(OnBehalfOf(u)) \in Nat
          /\ RepliesQueued(OnBehalfOf(u)) \in Nat
      BY <1>n, <1>s, <2>2
    <3> QED BY <1>a, <1>e, <1>nc, <1>t, <2>1, <3>1
  <2> QED BY <1>bp, <2>3, <2>4, <2>5
\* the handler of t goes on with its message
<1>r. ASSUME NEW st \in HandlerStages, handling[t].at # "none",
             handling' = [handling EXCEPT ![t] = [handling[t] EXCEPT !.at = st]],
             st \in Unanswered => handling[t].at \in Unanswered,
             UNCHANGED <<amq, buffers, calling, sent, ran>>
      PROVE  FiniteUse' /\ BuffersConserved' /\ AnsweredOnce'
  <2> DEFINE x == [handling[t] EXCEPT !.at = st]
  <2>1. x \in [at : HandlerStages, msg : AMMessages] /\ x.at = st /\ x.msg = handling[t].msg
    BY <1>r, StageFacts
  <2>2. st # "none" /\ handling' = [handling EXCEPT ![t] = x]
    BY <1>r DEF HandlerStages
  <2> HIDE DEF x
  <2>3. ASSUME NEW M \in SUBSET AMMessages
        PROVE  /\ IsFiniteSet(HandlersOf(M, HandlerStages)')
               /\ Handled(M)' = Handled(M) /\ ToAnswer(M)' <= ToAnswer(M) /\ ToAnswer(M)' \in Int
    <3>1. /\ IsFiniteSet(HandlersOf(M, HandlerStages)')
          /\ Handled(M)' = Handled(M)
               - (IF handling[t].at # "none" /\ handling[t].msg \in M THEN 1 ELSE 0)
               + (IF x.at # "none" /\ x.msg \in M THEN 1 ELSE 0)
          /\ ToAnswer(M)' = ToAnswer(M)
               - (IF handling[t].at \in Unanswered /\ handling[t].msg \in M THEN 1 ELSE 0)
               + (IF x.at \in Unanswered /\ x.msg \in M THEN 1 ELSE 0)
      BY <1>hh, <2>1, <2>2
    <3>2. Handled(M) \in Nat /\ ToAnswer(M) \in Nat
      BY <1>n
    <3> QED BY <1>r, <2>1, <2>2, <3>1, <3>2
  <2>4. \A M \in SUBSET AMMessages : RequestsQueued(M)' = RequestsQueued(M)
                                     /\ RepliesQueued(M)' = RepliesQueued(M)
    BY <1>0, <1>r, <1>uq DEF RequestsQueued, RepliesQueued
  <2>5. FiniteUse'
    <3>1. \A n \in Nets : IsFiniteSet(InQueues(amq[n], AMMessages)')
      BY <1>f, <1>r, <1>s, <1>uq
    <3>2. \A p \in Processes : IsFiniteSet(PreparedBy(p)')
      BY <1>g, <1>r, <1>uc
    <3>3. IsFiniteSet(HandlersOf(AMMessages, HandlerStages)')
      BY <1>s, <2>3
    <3> QED BY <3>1, <3>2, <3>3 DEF FiniteUse
  <2>6. \A p \in Processes : RequestsBalance(p)' /\ RepliesBalance(p)'
    BY <1>b, <1>br, <1>r, <1>s, <1>uc, <2>3, <2>4
  <2>7. AnsweredOnce'
    <3> SUFFICES ASSUME NEW u \in Clients
                 PROVE  ran'[u] + (call(u)' + RequestsQueued(OnBehalfOf(u))'
                          + ToAnswer(OnBehalfOf(u))' + RepliesQueued(OnBehalfOf(u))') <= sent'[u]
      BY <1>ap
    <3>1. /\ RequestsQueued(OnBehalfOf(u))' = RequestsQueued(OnBehalfOf(u))
          /\ ToAnswer(OnBehalfOf(u))' <= ToAnswer(OnBehalfOf(u))
          /\ ToAnswer(OnBehalfOf(u))' \in Int
          /\ RepliesQueued(OnBehalfOf(u))' = RepliesQueued(OnBehalfOf(u))
          /\ RequestsQueued(OnBehalfOf(u)) \in Nat /\ ToAnswer(OnBehalfOf(u)) \in Nat
          /\ RepliesQueued(OnBehalfOf(u)) \in Nat
      BY <1>n, <1>s, <2>3, <2>4
    <3>2. call(u)' = call(u) /\ ran'[u] = ran[u] /\ sent'[u] = sent[u]
      BY <1>r, <1>uc
    <3> QED BY <1>a, <1>nc, <1>t, <3>1, <3>2
  <2> QED BY <1>bp, <2>5, <2>6, <2>7
<1>1. CASE StartRequest(t)
  <2>1. PICK q \in Processes : calling' = [calling EXCEPT ![t] = [at |-> "lock", to |-> q]]
    BY <1>1 DEF StartRequest
  <2>2. calling[t] = NoCall /\ calling[t].at # "prepared"
    BY <1>1 DEF StartRequest, NoCall
  <2>3. \A u \in Clients : sent'[u] = IF u = t /\ calling[t] = NoCall THEN sent[u] + 1 ELSE sent[u]
    BY <1>1, <2>2 DEF StartRequest, AMTypeOK
  <2>4. [at |-> "lock", to |-> q].at # "prepared" /\ UNCHANGED <<amq, buffers, handling, ran>>
    BY <1>1 DEF StartRequest
  <2> QED BY <1>e, <2>1, <2>2, <2>3, <2>4
<1>2. CASE RequestImmediateFails(t)
  <2>1. calling' = [calling EXCEPT ![t] = NoCall] /\ calling[t].at = "lock"
    BY <1>2 DEF RequestImmediateFails
  <2>2. calling[t] # NoCall /\ NoCall.at # "prepared" /\ calling[t].at # "prepared"
    BY <2>1 DEF NoCall
  <2>3. UNCHANGED <<amq, buffers, handling, ran>> /\ sent' = sent
    BY <1>2 DEF RequestImmediateFails
  <2> QED BY <1>e, <2>1, <2>2, <2>3
<1>6. CASE RequestLock(t)
  <2> DEFINE x == [calling[t] EXCEPT !.at = "buffer"]
  <2>1. calling' = [calling EXCEPT ![t] = x] /\ calling[t].at = "lock"
    BY <1>6 DEF RequestLock, TakeLock
  <2>2. calling[t] # NoCall /\ x.at # "prepared" /\ calling[t].at # "prepared"
    <3>1. x.at = "buffer"
      BY <2>1, StageFacts DEF RequestStages
    <3> HIDE DEF x
    <3> QED BY <2>1, <3>1 DEF NoCall
  <2>3. UNCHANGED <<amq, buffers, handling, ran>> /\ sent' = sent
    BY <1>6 DEF RequestLock
  <2> HIDE DEF x
  <2> QED BY <1>e, <2>1, <2>2, <2>3
<1>4. CASE StartReply(t)
  <2>1. /\ handling' = [handling EXCEPT ![t] = [handling[t] EXCEPT !.at = "lock"]]
        /\ handling[t].at = "run" /\ UNCHANGED <<amq, buffers, calling, sent, ran>>
    BY <1>4 DEF StartReply
  <2>2. "lock" \in HandlerStages /\ handling[t].at # "none" /\ handling[t].at \in Unanswered
    BY <2>1 DEF HandlerStages, Unanswered
  <2> QED BY <1>r, <2>1, <2>2
<1>5. CASE ReplyImmediateFails(t)
  <2>1. /\ handling' = [handling EXCEPT ![t] = [handling[t] EXCEPT !.at = "replied"]]
        /\ handling[t].at = "lock" /\ UNCHANGED <<amq, buffers, calling, sent, ran>>
    BY <1>5 DEF ReplyImmediateFails
  <2>2. "replied" \in HandlerStages /\ handling[t].at # "none" /\ handling[t].at \in Unanswered
    BY <2>1 DEF HandlerStages, Unanswered
  <2> QED BY <1>r, <2>1, <2>2
<1>9. CASE ReplyLock(t)
  <2>1. /\ handling' = [handling EXCEPT ![t] = [handling[t] EXCEPT !.at = "buffer"]]
        /\ handling[t].at = "lock" /\ UNCHANGED <<amq, buffers, calling, sent, ran>>
    BY <1>9 DEF ReplyLock, TakeLock
  <2>2. "buffer" \in HandlerStages /\ handling[t].at # "none" /\ handling[t].at \in Unanswered
    BY <2>1 DEF HandlerStages, Unanswered
  <2> QED BY <1>r, <2>1, <2>2
<1>3. CASE RequestCancel(t)
  <2>1. /\ calling' = [calling EXCEPT ![t] = NoCall] /\ calling[t].at = "prepared"
        /\ buffers' = [buffers EXCEPT !["request"][P] = buffers["request"][P] + 1]
        /\ UNCHANGED <<amq, sent, handling, ran>>
    BY <1>3 DEF RequestCancel
  <2>2. NoCall.at # "prepared" /\ calling[t] # NoCall
    BY <2>1 DEF NoCall
  <2>3. /\ \A p \in Processes :
             /\ IsFiniteSet(PreparedBy(p)')
             /\ Cardinality(PreparedBy(p)') = Cardinality(PreparedBy(p)) - (IF P = p THEN 1 ELSE 0) + 0
        /\ \A u \in Clients : call(u)' = IF u # t THEN call(u) ELSE 0
    BY <1>cc, <2>1, <2>2
  <2>4. \A M \in SUBSET AMMessages :
          /\ RequestsQueued(M)' = RequestsQueued(M) /\ RepliesQueued(M)' = RepliesQueued(M)
          /\ Handled(M)' = Handled(M) /\ ToAnswer(M)' = ToAnswer(M)
    BY <1>0, <2>1, <1>s, <1>uq, <1>uh DEF RequestsQueued, RepliesQueued, Handled, ToAnswer
  <2>5. FiniteUse'
    BY <1>f, <1>g, <1>s, <1>uq, <1>uh, <2>1, <2>3 DEF FiniteUse
  <2>6. \A p \in Processes : RequestsBalance(p)' /\ RepliesBalance(p)'
    <3> SUFFICES ASSUME NEW p \in Processes PROVE RequestsBalance(p)' /\ RepliesBalance(p)'
      OBVIOUS
    <3>1. /\ buffers'["request"][p] = buffers["request"][p] + (IF p = P THEN 1 ELSE 0)
          /\ buffers'["reply"][p] = buffers["reply"][p]
      <4>1. /\ buffers'["request"][p] = IF p = P THEN buffers["request"][P] + 1 ELSE buffers["request"][p]
            /\ buffers'["reply"][p] = buffers["reply"][p]
        BY <1>0, <2>1 DEF AMTypeOK
      <4>2. buffers["request"][p] \in Nat /\ buffers["request"][P] \in Nat
        BY <1>0, <1>t
      <4> QED BY <4>1, <4>2
    <3>2. /\ Handled(FromProcess(p)) \in Nat /\ RequestsQueued(FromProcess(p)) \in Nat
          /\ Cardinality(PreparedBy(p)) \in Nat /\ buffers["request"][p] \in Nat
      BY <1>0, <1>n, <1>s, <1>t
    <3>3. /\ RequestsQueued(FromProcess(p))' = RequestsQueued(FromProcess(p))
          /\ RepliesQueued(FromProcess(p))' = RepliesQueued(FromProcess(p))
          /\ Handled(FromProcess(p))' = Handled(FromProcess(p))
      BY <1>s, <2>4
    <3> QED BY <1>b, <1>br, <2>3, <3>1, <3>2, <3>3
  <2>7. AnsweredOnce'
    <3> SUFFICES ASSUME NEW u \in Clients
                 PROVE  ran'[u] + (call(u)' + RequestsQueued(OnBehalfOf(u))'
                          + ToAnswer(OnBehalfOf(u))' + RepliesQueued(OnBehalfOf(u))') <= sent'[u]
      BY <1>ap
    <3>1. /\ RequestsQueued(OnBehalfOf(u))' = RequestsQueued(OnBehalfOf(u))
          /\ ToAnswer(OnBehalfOf(u))' = ToAnswer(OnBehalfOf(u))
          /\ RepliesQueued(OnBehalfOf(u))' = RepliesQueued(OnBehalfOf(u))
          /\ RequestsQueued(OnBehalfOf(u)) \in Nat /\ ToAnswer(OnBehalfOf(u)) \in Nat
          /\ RepliesQueued(OnBehalfOf(u)) \in Nat
      BY <1>n, <1>s, <2>4
    <3> QED BY <1>a, <1>nc, <1>t, <2>1, <2>3, <3>1
  <2> QED BY <1>bp, <2>5, <2>6, <2>7
<1>7. CASE RequestBuffer(t)
  <2> DEFINE x == [calling[t] EXCEPT !.at = "prepared"]
  <2>1. /\ calling' = [calling EXCEPT ![t] = x] /\ calling[t].at = "buffer"
        /\ buffers' = [buffers EXCEPT !["request"][P] = buffers["request"][P] - 1]
        /\ buffers["request"][P] > 0
        /\ UNCHANGED <<amq, sent, handling, ran>>
    BY <1>7 DEF RequestBuffer, TakeBuffer
  <2>2. x.at = "prepared" /\ x # NoCall /\ calling[t] # NoCall
    <3>1. x.at = "prepared"
      BY <2>1, StageFacts DEF RequestStages
    <3> HIDE DEF x
    <3> QED BY <2>1, <3>1 DEF NoCall
  <2> HIDE DEF x
  <2>3. /\ \A p \in Processes :
             /\ IsFiniteSet(PreparedBy(p)')
             /\ Cardinality(PreparedBy(p)') = Cardinality(PreparedBy(p)) - 0 + (IF P = p THEN 1 ELSE 0)
        /\ \A u \in Clients : call(u)' = IF u # t THEN call(u) ELSE 1
    BY <1>cc, <2>1, <2>2
  <2>4. \A M \in SUBSET AMMessages :
          /\ RequestsQueued(M)' = RequestsQueued(M) /\ RepliesQueued(M)' = RepliesQueued(M)
          /\ Handled(M)' = Handled(M) /\ ToAnswer(M)' = ToAnswer(M)
    BY <1>0, <2>1, <1>s, <1>uq, <1>uh DEF RequestsQueued, RepliesQueued, Handled, ToAnswer
  <2>5. FiniteUse'
    BY <1>f, <1>g, <1>s, <1>uq, <1>uh, <2>1, <2>3 DEF FiniteUse
  <2>6. \A p \in Processes : RequestsBalance(p)' /\ RepliesBalance(p)'
    <3> SUFFICES ASSUME NEW p \in Processes PROVE RequestsBalance(p)' /\ RepliesBalance(p)'
      OBVIOUS
    <3>1. /\ buffers'["request"][p] = buffers["request"][p] - (IF p = P THEN 1 ELSE 0)
          /\ buffers'["reply"][p] = buffers["reply"][p]
      <4>1. /\ buffers'["request"][p] = IF p = P THEN buffers["request"][P] - 1 ELSE buffers["request"][p]
            /\ buffers'["reply"][p] = buffers["reply"][p]
        BY <1>0, <2>1 DEF AMTypeOK
      <4>2. buffers["request"][p] \in Nat /\ buffers["request"][P] \in Nat
        BY <1>0, <1>t
      <4> QED BY <4>1, <4>2
    <3>2. /\ Handled(FromProcess(p)) \in Nat /\ RequestsQueued(FromProcess(p)) \in Nat
          /\ Cardinality(PreparedBy(p)) \in Nat /\ buffers["request"][p] \in Nat
      BY <1>0, <1>n, <1>s, <1>t
    <3>3. /\ RequestsQueued(FromProcess(p))' = RequestsQueued(FromProcess(p))
          /\ RepliesQueued(FromProcess(p))' = RepliesQueued(FromProcess(p))
          /\ Handled(FromProcess(p))' = Handled(FromProcess(p))
      BY <1>s, <2>4
    <3> QED BY <1>b, <1>br, <2>3, <3>1, <3>2, <3>3
  <2>7. AnsweredOnce'
    <3> SUFFICES ASSUME NEW u \in Clients
                 PROVE  ran'[u] + (call(u)' + RequestsQueued(OnBehalfOf(u))'
                          + ToAnswer(OnBehalfOf(u))' + RepliesQueued(OnBehalfOf(u))') <= sent'[u]
      BY <1>ap
    <3>1. /\ RequestsQueued(OnBehalfOf(u))' = RequestsQueued(OnBehalfOf(u))
          /\ ToAnswer(OnBehalfOf(u))' = ToAnswer(OnBehalfOf(u))
          /\ RepliesQueued(OnBehalfOf(u))' = RepliesQueued(OnBehalfOf(u))
          /\ RequestsQueued(OnBehalfOf(u)) \in Nat /\ ToAnswer(OnBehalfOf(u)) \in Nat
          /\ RepliesQueued(OnBehalfOf(u)) \in Nat
      BY <1>n, <1>s, <2>4
    <3> QED BY <1>a, <1>nc, <1>t, <2>1, <2>2, <2>3, <3>1
  <2> QED BY <1>bp, <2>5, <2>6, <2>7
<1>8. CASE RequestCommit(t)
  <2> DEFINE m == [from |-> ProcessOf[t], by |-> t]
             q == calling[t].to
  <2>1. /\ calling' = [calling EXCEPT ![t] = NoCall] /\ calling[t].at = "prepared"
        /\ amq' = [amq EXCEPT !["request"][q] = Append(@, m)]
        /\ UNCHANGED <<buffers, sent, handling, ran>>
    BY <1>8 DEF RequestCommit
  <2>2. NoCall.at # "prepared" /\ calling[t] # NoCall
    BY <2>1 DEF NoCall
  <2>3. /\ \A p \in Processes :
             /\ IsFiniteSet(PreparedBy(p)')
             /\ Cardinality(PreparedBy(p)') = Cardinality(PreparedBy(p)) - (IF P = p THEN 1 ELSE 0) + 0
        /\ \A u \in Clients : call(u)' = IF u # t THEN call(u) ELSE 0
    BY <1>cc, <2>1, <2>2
  <2>m. /\ q \in Processes /\ m \in AMMessages
        /\ \A p \in Processes : m \in FromProcess(p) <=> P = p
        /\ \A u \in Clients : m \in OnBehalfOf(u) <=> t = u
    <3>1. q \in Processes /\ m \in AMMessages /\ m.from = P /\ m.by = t
      BY <2>1, <2>2, StageFacts, MessageSets
    <3> HIDE DEF m
    <3> QED BY <3>1, MessageSets
  <2> HIDE DEF m, q
  <2>4. ASSUME NEW M \in SUBSET AMMessages
        PROVE  /\ IsFiniteSet(InQueues(amq["request"], M)')
               /\ RequestsQueued(M)' = RequestsQueued(M) + One(m, M)
               /\ RepliesQueued(M)' = RepliesQueued(M)
               /\ IsFiniteSet(InQueues(amq["reply"], M)')
               /\ Handled(M)' = Handled(M) /\ ToAnswer(M)' = ToAnswer(M)
    <3>1. /\ IsFiniteSet(InQueues(amq["request"], M)')
          /\ Cardinality(InQueues(amq["request"], M)') =
               Cardinality(InQueues(amq["request"], M)) + One(m, M)
          /\ \A o \in Nets \ {"request"} : InQueues(amq[o], M)' = InQueues(amq[o], M)
      BY <1>0, <2>1, <2>m, QueueGrows
    <3>2. Handled(M)' = Handled(M) /\ ToAnswer(M)' = ToAnswer(M)
      BY <2>1, <1>s, <1>uh DEF Handled, ToAnswer
    <3>3. IsFiniteSet(InQueues(amq["reply"], M))
      BY <1>0, CountsFinite
    <3> QED BY <1>0, <3>1, <3>2, <3>3 DEF RequestsQueued, RepliesQueued
  <2>5. FiniteUse'
    <3>1. \A n \in Nets : IsFiniteSet(InQueues(amq[n], AMMessages)')
      BY <1>s, <2>4 DEF Nets
    <3>2. IsFiniteSet(HandlersOf(AMMessages, HandlerStages)')
      BY <1>g, <1>s, <1>uh, <2>1
    <3> QED BY <2>3, <3>1, <3>2 DEF FiniteUse
  <2>6. \A p \in Processes : RequestsBalance(p)' /\ RepliesBalance(p)'
    <3> SUFFICES ASSUME NEW p \in Processes PROVE RequestsBalance(p)' /\ RepliesBalance(p)'
      OBVIOUS
    <3>2. /\ Handled(FromProcess(p)) \in Nat /\ RequestsQueued(FromProcess(p)) \in Nat
          /\ Cardinality(PreparedBy(p)) \in Nat /\ buffers["request"][p] \in Nat
      BY <1>0, <1>n, <1>s, <1>t
    <3>3. /\ RequestsQueued(FromProcess(p))' = RequestsQueued(FromProcess(p)) + (IF P = p THEN 1 ELSE 0)
          /\ RepliesQueued(FromProcess(p))' = RepliesQueued(FromProcess(p))
          /\ Handled(FromProcess(p))' = Handled(FromProcess(p))
      BY <1>s, <2>4, <2>m DEF One
    <3> QED BY <1>b, <1>br, <2>1, <2>3, <3>2, <3>3
  <2>7. AnsweredOnce'
    <3> SUFFICES ASSUME NEW u \in Clients
                 PROVE  ran'[u] + (call(u)' + RequestsQueued(OnBehalfOf(u))'
                          + ToAnswer(OnBehalfOf(u))' + RepliesQueued(OnBehalfOf(u))') <= sent'[u]
      BY <1>ap
    <3>1. /\ RequestsQueued(OnBehalfOf(u))' = RequestsQueued(OnBehalfOf(u)) + (IF t = u THEN 1 ELSE 0)
          /\ ToAnswer(OnBehalfOf(u))' = ToAnswer(OnBehalfOf(u))
          /\ RepliesQueued(OnBehalfOf(u))' = RepliesQueued(OnBehalfOf(u))
      BY <1>s, <2>4, <2>m DEF One
    <3>2. /\ RequestsQueued(OnBehalfOf(u)) \in Nat /\ ToAnswer(OnBehalfOf(u)) \in Nat
          /\ RepliesQueued(OnBehalfOf(u)) \in Nat
      BY <1>n, <1>s
    <3> QED BY <1>a, <1>nc, <1>t, <2>1, <2>2, <2>3, <3>1, <3>2
  <2> QED BY <1>bp, <2>5, <2>6, <2>7
<1>10. CASE ReplyBuffer(t)
  <2> DEFINE h == handling[t]
             m == [from |-> ProcessOf[t], by |-> handling[t].msg.by]
             q == handling[t].msg.from
             x == [handling[t] EXCEPT !.at = "replied"]
  <2>1. /\ handling' = [handling EXCEPT ![t] = x] /\ handling[t].at = "buffer"
        /\ amq' = [amq EXCEPT !["reply"][q] = Append(@, m)]
        /\ buffers' = [buffers EXCEPT !["reply"][P] = buffers["reply"][P] - 1]
        /\ UNCHANGED <<sent, calling, ran>>
    BY <1>10 DEF ReplyBuffer, TakeBuffer
  <2>h. handling[t] \in [at : HandlerStages, msg : AMMessages]
    BY <2>1 DEF AMTypeOK, NoCall
  <2>2. /\ x \in [at : HandlerStages, msg : AMMessages] /\ x.at = "replied" /\ x.msg = handling[t].msg
        /\ handling[t].msg \in AMMessages
    BY <2>h DEF HandlerStages
  <2>m. /\ q \in Processes /\ m \in AMMessages
        /\ \A p \in Processes : m \in FromProcess(p) <=> P = p
        /\ \A u \in Clients : m \in OnBehalfOf(u) <=> handling[t].msg \in OnBehalfOf(u)
    <3>1. /\ q \in Processes /\ m \in AMMessages /\ m.from = P /\ m.by = handling[t].msg.by
          /\ handling[t].msg \in AMMessages
      BY <1>0, <2>2 DEF AMMessages
    <3> HIDE DEF m
    <3> QED BY <3>1 DEF FromProcess, OnBehalfOf
  <2> HIDE DEF m, q, x
  <2>4. ASSUME NEW M \in SUBSET AMMessages
        PROVE  /\ IsFiniteSet(InQueues(amq["reply"], M)')
               /\ RepliesQueued(M)' = RepliesQueued(M) + One(m, M)
               /\ RequestsQueued(M)' = RequestsQueued(M)
               /\ IsFiniteSet(InQueues(amq["request"], M)')
               /\ IsFiniteSet(HandlersOf(M, HandlerStages)')
               /\ Handled(M)' = Handled(M) /\ ToAnswer(M)' = ToAnswer(M) - One(handling[t].msg, M)
    <3>1. /\ IsFiniteSet(InQueues(amq["reply"], M)')
          /\ Cardinality(InQueues(amq["reply"], M)') =
               Cardinality(InQueues(amq["reply"], M)) + One(m, M)
          /\ \A o \in Nets \ {"reply"} : InQueues(amq[o], M)' = InQueues(amq[o], M)
      BY <1>0, <2>1, <2>m, QueueGrows
    <3>2. /\ IsFiniteSet(HandlersOf(M, HandlerStages)')
          /\ Handled(M)' = Handled(M)
               - (IF handling[t].at # "none" /\ handling[t].msg \in M THEN 1 ELSE 0)
               + (IF x.at # "none" /\ x.msg \in M THEN 1 ELSE 0)
          /\ ToAnswer(M)' = ToAnswer(M)
               - (IF handling[t].at \in Unanswered /\ handling[t].msg \in M THEN 1 ELSE 0)
               + (IF x.at \in Unanswered /\ x.msg \in M THEN 1 ELSE 0)
      BY <1>hh, <2>1, <2>2
    <3>3. IsFiniteSet(InQueues(amq["request"], M))
      BY <1>0, CountsFinite
    <3>4. /\ handling[t].at # "none" /\ x.at # "none" /\ handling[t].at \in Unanswered
          /\ x.at \notin Unanswered /\ x.msg = handling[t].msg
      BY <2>1, <2>2 DEF Unanswered, HandlerStages
    <3>5. Handled(M) \in Nat /\ ToAnswer(M) \in Nat
      BY <1>n
    <3>6. Handled(M)' = Handled(M) /\ ToAnswer(M)' = ToAnswer(M) - One(handling[t].msg, M)
      BY <3>2, <3>4, <3>5 DEF One
    <3> QED BY <1>0, <3>1, <3>2, <3>3, <3>6 DEF RequestsQueued, RepliesQueued
  <2>3. /\ \A p \in Processes : PreparedBy(p)' = PreparedBy(p)
        /\ \A u \in Clients : call(u)' = call(u)
    BY <1>uc, <2>1
  <2>5. FiniteUse'
    <3>1. \A n \in Nets : IsFiniteSet(InQueues(amq[n], AMMessages)')
      BY <1>s, <2>4 DEF Nets
    <3>2. IsFiniteSet(HandlersOf(AMMessages, HandlerStages)')
      BY <1>s, <2>4
    <3> QED BY <1>g, <2>3, <3>1, <3>2 DEF FiniteUse
  <2>6. \A p \in Processes : RequestsBalance(p)' /\ RepliesBalance(p)'
    <3> SUFFICES ASSUME NEW p \in Processes PROVE RequestsBalance(p)' /\ RepliesBalance(p)'
      OBVIOUS
    <3>1. /\ buffers'["reply"][p] = buffers["reply"][p] - (IF p = P THEN 1 ELSE 0)
          /\ buffers'["request"][p] = buffers["request"][p]
      <4>1. /\ buffers'["reply"][p] = IF p = P THEN buffers["reply"][P] - 1 ELSE buffers["reply"][p]
            /\ buffers'["request"][p] = buffers["request"][p]
        BY <1>0, <2>1 DEF AMTypeOK
      <4>2. buffers["reply"][p] \in Nat /\ buffers["reply"][P] \in Nat
        BY <1>0, <1>t
      <4> QED BY <4>1, <4>2
    <3>2. /\ RepliesQueued(FromProcess(p)) \in Nat /\ buffers["reply"][p] \in Nat
      BY <1>0, <1>n, <1>s, <1>t
    <3>3. /\ RepliesQueued(FromProcess(p))' = RepliesQueued(FromProcess(p)) + (IF P = p THEN 1 ELSE 0)
          /\ RequestsQueued(FromProcess(p))' = RequestsQueued(FromProcess(p))
          /\ Handled(FromProcess(p))' = Handled(FromProcess(p))
      BY <1>s, <2>4, <2>m DEF One
    <3> QED BY <1>b, <1>br, <2>3, <3>1, <3>2, <3>3
  <2>7. AnsweredOnce'
    <3> SUFFICES ASSUME NEW u \in Clients
                 PROVE  ran'[u] + (call(u)' + RequestsQueued(OnBehalfOf(u))'
                          + ToAnswer(OnBehalfOf(u))' + RepliesQueued(OnBehalfOf(u))') <= sent'[u]
      BY <1>ap
    <3> DEFINE d == IF handling[t].msg \in OnBehalfOf(u) THEN 1 ELSE 0
    <3>1. /\ RequestsQueued(OnBehalfOf(u))' = RequestsQueued(OnBehalfOf(u))
          /\ ToAnswer(OnBehalfOf(u))' = ToAnswer(OnBehalfOf(u)) - d
          /\ RepliesQueued(OnBehalfOf(u))' = RepliesQueued(OnBehalfOf(u)) + d
      BY <1>s, <2>4, <2>m DEF One
    <3>2. /\ RequestsQueued(OnBehalfOf(u)) \in Nat /\ ToAnswer(OnBehalfOf(u)) \in Nat
          /\ RepliesQueued(OnBehalfOf(u)) \in Nat /\ d \in Nat
      BY <1>n, <1>s
    <3>3. call(u)' = call(u) /\ ran'[u] = ran[u] /\ sent'[u] = sent[u]
      BY <2>1, <2>3
    <3> HIDE DEF d
    <3> QED BY <1>a, <1>nc, <1>t, <3>1, <3>2, <3>3
  <2> QED BY <1>bp, <2>5, <2>6, <2>7
<1>11. CASE HandlerReturns(t)
  <2> DEFINE q == handling[t].msg.from
  <2>1. /\ handling' = [handling EXCEPT ![t] = NoCall] /\ handling[t].at \in {"run", "replied"}
        /\ buffers' = [buffers EXCEPT !["request"][q] = buffers["request"][q] + 1]
        /\ UNCHANGED <<amq, sent, calling, ran>>
    BY <1>11 DEF HandlerReturns
  <2>h. handling[t] \in [at : HandlerStages, msg : AMMessages]
    BY <2>1 DEF AMTypeOK, NoCall
  <2>m. /\ q \in Processes /\ handling[t].msg \in AMMessages
        /\ \A p \in Processes : handling[t].msg \in FromProcess(p) <=> q = p
    BY <2>h DEF AMMessages, FromProcess
  <2> HIDE DEF q
  <2>4. ASSUME NEW M \in SUBSET AMMessages
        PROVE  /\ RepliesQueued(M)' = RepliesQueued(M) /\ RequestsQueued(M)' = RequestsQueued(M)
               /\ IsFiniteSet(HandlersOf(M, HandlerStages)')
               /\ Handled(M)' = Handled(M) - One(handling[t].msg, M)
               /\ ToAnswer(M)' <= ToAnswer(M) /\ ToAnswer(M)' \in Int
    <3>1. RepliesQueued(M)' = RepliesQueued(M) /\ RequestsQueued(M)' = RequestsQueued(M)
      BY <1>0, <2>1, <1>uq DEF RequestsQueued, RepliesQueued
    <3>0. NoCall \in {NoCall} \union [at : HandlerStages, msg : AMMessages]
      OBVIOUS
    <3>2. /\ IsFiniteSet(HandlersOf(M, HandlerStages)')
          /\ Handled(M)' = Handled(M)
               - (IF handling[t].at # "none" /\ handling[t].msg \in M THEN 1 ELSE 0)
               + (IF NoCall.at # "none" /\ NoCall.msg \in M THEN 1 ELSE 0)
          /\ ToAnswer(M)' = ToAnswer(M)
               - (IF handling[t].at \in Unanswered /\ handling[t].msg \in M THEN 1 ELSE 0)
               + (IF NoCall.at \in Unanswered /\ NoCall.msg \in M THEN 1 ELSE 0)
      BY <1>hh, <2>1, <3>0
    <3>3. NoCall.at = "none" /\ "none" \notin Unanswered /\ handling[t].at # "none"
      BY <2>1 DEF NoCall, Unanswered, HandlerStages
    <3>4. Handled(M) \in Nat /\ ToAnswer(M) \in Nat
      BY <1>n
    <3>5. /\ Handled(M)' = Handled(M) - One(handling[t].msg, M) + 0
          /\ ToAnswer(M)' = ToAnswer(M)
               - (IF handling[t].at \in Unanswered /\ handling[t].msg \in M THEN 1 ELSE 0) + 0
      BY <3>2, <3>3 DEF One
    <3>6. Handled(M)' = Handled(M) - One(handling[t].msg, M)
      BY <3>4, <3>5 DEF One
    <3>7. ToAnswer(M)' <= ToAnswer(M) /\ ToAnswer(M)' \in Int
      BY <3>4, <3>5
    <3> QED BY <3>1, <3>2, <3>6, <3>7
  <2>3. /\ \A p \in Processes : PreparedBy(p)' = PreparedBy(p)
        /\ \A u \in Clients : call(u)' = call(u)
    BY <1>uc, <2>1
  <2>5. FiniteUse'
    <3>1. \A n \in Nets : IsFiniteSet(InQueues(amq[n], AMMessages)')
      BY <1>f, <1>s, <1>uq, <2>1
    <3>2. IsFiniteSet(HandlersOf(AMMessages, HandlerStages)')
      BY <1>s, <2>4
    <3> QED BY <1>g, <2>3, <3>1, <3>2 DEF FiniteUse
  <2>6. \A p \in Processes : RequestsBalance(p)' /\ RepliesBalance(p)'
    <3> SUFFICES ASSUME NEW p \in Processes PROVE RequestsBalance(p)' /\ RepliesBalance(p)'
      OBVIOUS
    <3>1. /\ buffers'["request"][p] = buffers["request"][p] + (IF p = q THEN 1 ELSE 0)
          /\ buffers'["reply"][p] = buffers["reply"][p]
      <4>1. /\ buffers'["request"][p] = IF p = q THEN buffers["request"][q] + 1 ELSE buffers["request"][p]
            /\ buffers'["reply"][p] = buffers["reply"][p]
        BY <1>0, <2>1, <2>m DEF AMTypeOK
      <4>2. buffers["request"][p] \in Nat /\ buffers["request"][q] \in Nat
        BY <1>0, <1>t, <2>m
      <4> QED BY <4>1, <4>2
    <3>2. /\ Handled(FromProcess(p)) \in Nat /\ RequestsQueued(FromProcess(p)) \in Nat
          /\ Cardinality(PreparedBy(p)) \in Nat /\ buffers["request"][p] \in Nat
      BY <1>0, <1>n, <1>s, <1>t
    <3>3. /\ RepliesQueued(FromProcess(p))' = RepliesQueued(FromProcess(p))
          /\ RequestsQueued(FromProcess(p))' = RequestsQueued(FromProcess(p))
          /\ Handled(FromProcess(p))' = Handled(FromProcess(p)) - (IF q = p THEN 1 ELSE 0)
      BY <1>s, <2>4, <2>m DEF One
    <3> QED BY <1>b, <1>br, <2>3, <3>1, <3>2, <3>3
  <2>7. AnsweredOnce'
    <3> SUFFICES ASSUME NEW u \in Clients
                 PROVE  ran'[u] + (call(u)' + RequestsQueued(OnBehalfOf(u))'
                          + ToAnswer(OnBehalfOf(u))' + RepliesQueued(OnBehalfOf(u))') <= sent'[u]
      BY <1>ap
    <3>1. /\ RequestsQueued(OnBehalfOf(u))' = RequestsQueued(OnBehalfOf(u))
          /\ ToAnswer(OnBehalfOf(u))' <= ToAnswer(OnBehalfOf(u))
          /\ ToAnswer(OnBehalfOf(u))' \in Int
          /\ RepliesQueued(OnBehalfOf(u))' = RepliesQueued(OnBehalfOf(u))
          /\ RequestsQueued(OnBehalfOf(u)) \in Nat /\ ToAnswer(OnBehalfOf(u)) \in Nat
          /\ RepliesQueued(OnBehalfOf(u)) \in Nat
      BY <1>n, <1>s, <2>4
    <3>2. call(u)' = call(u) /\ ran'[u] = ran[u] /\ sent'[u] = sent[u]
      BY <2>1, <2>3
    <3> QED BY <1>a, <1>nc, <1>t, <3>1, <3>2
  <2> QED BY <1>bp, <2>5, <2>6, <2>7
<1>12. CASE PollReply(t)
  <2> DEFINE m == Head(amq["reply"][P])
  <2>1. /\ amq["reply"][P] # <<>> /\ amq' = [amq EXCEPT !["reply"][P] = Tail(@)]
        /\ buffers' = [buffers EXCEPT !["reply"][m.from] = buffers["reply"][m.from] + 1]
        /\ ran' = [ran EXCEPT ![m.by] = @ + 1]
        /\ UNCHANGED <<sent, calling, handling>>
    BY <1>12 DEF PollReply
  <2>0. ASSUME NEW M \in SUBSET AMMessages
        PROVE  /\ m \in AMMessages
               /\ IsFiniteSet(InQueues(amq["reply"], M)')
               /\ Cardinality(InQueues(amq["reply"], M)') =
                    Cardinality(InQueues(amq["reply"], M)) - One(m, M)
               /\ \A o \in Nets \ {"reply"} : InQueues(amq[o], M)' = InQueues(amq[o], M)
    BY <1>0, <2>1, QueueShrinks
  <2>m. /\ m \in AMMessages /\ m.from \in Processes /\ m.by \in Clients
        /\ \A p \in Processes : m \in FromProcess(p) <=> m.from = p
        /\ \A u \in Clients : m \in OnBehalfOf(u) <=> m.by = u
    <3>1. m \in AMMessages
      BY <1>s, <2>0
    <3> HIDE DEF m
    <3> QED BY <3>1 DEF AMMessages, FromProcess, OnBehalfOf
  <2> HIDE DEF m
  <2>4. ASSUME NEW M \in SUBSET AMMessages
        PROVE  /\ IsFiniteSet(InQueues(amq["reply"], M)')
               /\ IsFiniteSet(InQueues(amq["request"], M)')
               /\ RepliesQueued(M)' = RepliesQueued(M) - One(m, M)
               /\ RequestsQueued(M)' = RequestsQueued(M)
               /\ Handled(M)' = Handled(M) /\ ToAnswer(M)' = ToAnswer(M)
    <3>2. Handled(M)' = Handled(M) /\ ToAnswer(M)' = ToAnswer(M)
      BY <2>1, <1>s, <1>uh DEF Handled, ToAnswer
    <3>3. IsFiniteSet(InQueues(amq["request"], M))
      BY <1>0, CountsFinite
    <3> QED BY <1>0, <2>0, <3>2, <3>3 DEF RequestsQueued, RepliesQueued
  <2>3. /\ \A p \in Processes : PreparedBy(p)' = PreparedBy(p)
        /\ \A u \in Clients : call(u)' = call(u)
    BY <1>uc, <2>1
  <2>5. FiniteUse'
    <3>1. \A n \in Nets : IsFiniteSet(InQueues(amq[n], AMMessages)')
      BY <1>s, <2>4 DEF Nets
    <3>2. IsFiniteSet(HandlersOf(AMMessages, HandlerStages)')
      BY <1>g, <1>s, <1>uh, <2>1
    <3> QED BY <1>g, <2>3, <3>1, <3>2 DEF FiniteUse
  <2>6. \A p \in Processes : RequestsBalance(p)' /\ RepliesBalance(p)'
    <3> SUFFICES ASSUME NEW p \in Processes PROVE RequestsBalance(p)' /\ RepliesBalance(p)'
      OBVIOUS
    <3>1. /\ buffers'["reply"][p] = buffers["reply"][p] + (IF p = m.from THEN 1 ELSE 0)
          /\ buffers'["request"][p] = buffers["request"][p]
      <4>1. /\ buffers'["reply"][p] =
                 IF p = m.from THEN buffers["reply"][m.from] + 1 ELSE buffers["reply"][p]
            /\ buffers'["request"][p] = buffers["request"][p]
        BY <1>0, <2>1, <2>m DEF AMTypeOK
      <4>2. buffers["reply"][p] \in Nat /\ buffers["reply"][m.from] \in Nat
        BY <1>0, <1>t, <2>m
      <4> QED BY <4>1, <4>2
    <3>2. /\ RepliesQueued(FromProcess(p)) \in Nat /\ buffers["reply"][p] \in Nat
      BY <1>0, <1>n, <1>s, <1>t
    <3>3. /\ RepliesQueued(FromProcess(p))' = RepliesQueued(FromProcess(p)) - (IF m.from = p THEN 1 ELSE 0)
          /\ RequestsQueued(FromProcess(p))' = RequestsQueued(FromProcess(p))
          /\ Handled(FromProcess(p))' = Handled(FromProcess(p))
      BY <1>s, <2>4, <2>m DEF One
    <3> QED BY <1>b, <1>br, <2>3, <3>1, <3>2, <3>3
  <2>7. AnsweredOnce'
    <3> SUFFICES ASSUME NEW u \in Clients
                 PROVE  ran'[u] + (call(u)' + RequestsQueued(OnBehalfOf(u))'
                          + ToAnswer(OnBehalfOf(u))' + RepliesQueued(OnBehalfOf(u))') <= sent'[u]
      BY <1>ap
    <3>1. /\ RequestsQueued(OnBehalfOf(u))' = RequestsQueued(OnBehalfOf(u))
          /\ ToAnswer(OnBehalfOf(u))' = ToAnswer(OnBehalfOf(u))
          /\ RepliesQueued(OnBehalfOf(u))' = RepliesQueued(OnBehalfOf(u)) - (IF m.by = u THEN 1 ELSE 0)
      BY <1>s, <2>4, <2>m DEF One
    <3>2. /\ RequestsQueued(OnBehalfOf(u)) \in Nat /\ ToAnswer(OnBehalfOf(u)) \in Nat
          /\ RepliesQueued(OnBehalfOf(u)) \in Nat
      BY <1>n, <1>s
    <3>3. call(u)' = call(u) /\ sent'[u] = sent[u]
      BY <2>1, <2>3
    <3>4. ran'[u] = IF m.by = u THEN ran[u] + 1 ELSE ran[u]
      BY <2>1, <2>m DEF AMTypeOK
    <3> QED BY <1>a, <1>nc, <1>t, <3>1, <3>2, <3>3, <3>4
  <2> QED BY <1>bp, <2>5, <2>6, <2>7
<1>13. CASE PollRequest(t)
  <2> DEFINE m == Head(amq["request"][P])
             x == [at |-> "run", msg |-> Head(amq["request"][P])]
  <2>1. /\ amq["request"][P] # <<>> /\ amq' = [amq EXCEPT !["request"][P] = Tail(@)]
        /\ handling' = [handling EXCEPT ![t] = x] /\ handling[t] = NoCall
        /\ UNCHANGED <<sent, calling, buffers, ran>>
    BY <1>13 DEF PollRequest, RepliesOnly
  <2>0. ASSUME NEW M \in SUBSET AMMessages
        PROVE  /\ m \in AMMessages
               /\ IsFiniteSet(InQueues(amq["request"], M)')
               /\ Cardinality(InQueues(amq["request"], M)') =
                    Cardinality(InQueues(amq["request"], M)) - One(m, M)
               /\ \A o \in Nets \ {"request"} : InQueues(amq[o], M)' = InQueues(amq[o], M)
    BY <1>0, <2>1, QueueShrinks
  <2>2. /\ x \in [at : HandlerStages, msg : AMMessages] /\ x.at = "run" /\ x.msg = m
        /\ m \in AMMessages
    <3>1. m \in AMMessages
      BY <1>s, <2>0
    <3>2. "run" \in HandlerStages
      BY DEF HandlerStages
    <3> QED BY <3>1, <3>2
  <2> HIDE DEF m, x
  <2>4. ASSUME NEW M \in SUBSET AMMessages
        PROVE  /\ IsFiniteSet(InQueues(amq["reply"], M)')
               /\ IsFiniteSet(InQueues(amq["request"], M)')
               /\ IsFiniteSet(HandlersOf(M, HandlerStages)')
               /\ RequestsQueued(M)' = RequestsQueued(M) - One(m, M)
               /\ RepliesQueued(M)' = RepliesQueued(M)
               /\ Handled(M)' = Handled(M) + One(m, M) /\ ToAnswer(M)' = ToAnswer(M) + One(m, M)
    <3>2. /\ IsFiniteSet(HandlersOf(M, HandlerStages)')
          /\ Handled(M)' = Handled(M)
               - (IF handling[t].at # "none" /\ handling[t].msg \in M THEN 1 ELSE 0)
               + (IF x.at # "none" /\ x.msg \in M THEN 1 ELSE 0)
          /\ ToAnswer(M)' = ToAnswer(M)
               - (IF handling[t].at \in Unanswered /\ handling[t].msg \in M THEN 1 ELSE 0)
               + (IF x.at \in Unanswered /\ x.msg \in M THEN 1 ELSE 0)
      BY <1>hh, <2>1, <2>2
    <3>3. IsFiniteSet(InQueues(amq["reply"], M))
      BY <1>0, CountsFinite
    <3>4. /\ handling[t].at = "none" /\ "none" \notin Unanswered
          /\ x.at # "none" /\ x.at \in Unanswered /\ x.msg = m
      BY <2>1, <2>2 DEF NoCall, Unanswered, HandlerStages
    <3>5. Handled(M) \in Nat /\ ToAnswer(M) \in Nat
      BY <1>n
    <3>6. Handled(M)' = Handled(M) + One(m, M) /\ ToAnswer(M)' = ToAnswer(M) + One(m, M)
      BY <3>2, <3>4, <3>5 DEF One
    <3> QED BY <1>0, <2>0, <3>2, <3>3, <3>6 DEF RequestsQueued, RepliesQueued
  <2>3. /\ \A p \in Processes : PreparedBy(p)' = PreparedBy(p)
        /\ \A u \in Clients : call(u)' = call(u)
    BY <1>uc, <2>1
  <2>5. FiniteUse'
    <3>1. \A n \in Nets : IsFiniteSet(InQueues(amq[n], AMMessages)')
      BY <1>s, <2>4 DEF Nets
    <3>2. IsFiniteSet(HandlersOf(AMMessages, HandlerStages)')
      BY <1>s, <2>4
    <3> QED BY <1>g, <2>3, <3>1, <3>2 DEF FiniteUse
  <2>6. \A p \in Processes : RequestsBalance(p)' /\ RepliesBalance(p)'
    <3> SUFFICES ASSUME NEW p \in Processes PROVE RequestsBalance(p)' /\ RepliesBalance(p)'
      OBVIOUS
    <3> DEFINE d == One(m, FromProcess(p))
    <3>2. /\ Handled(FromProcess(p)) \in Nat /\ RequestsQueued(FromProcess(p)) \in Nat
          /\ Cardinality(PreparedBy(p)) \in Nat /\ buffers["request"][p] \in Nat /\ d \in Nat
      BY <1>0, <1>n, <1>s, <1>t DEF One
    <3>3. /\ RequestsQueued(FromProcess(p))' = RequestsQueued(FromProcess(p)) - d
          /\ RepliesQueued(FromProcess(p))' = RepliesQueued(FromProcess(p))
          /\ Handled(FromProcess(p))' = Handled(FromProcess(p)) + d
      BY <1>s, <2>4
    <3> HIDE DEF d
    <3> QED BY SMTT(30), <1>b, <1>br, <2>1, <2>3, <3>2, <3>3
  <2>7. AnsweredOnce'
    <3> SUFFICES ASSUME NEW u \in Clients
                 PROVE  ran'[u] + (call(u)' + RequestsQueued(OnBehalfOf(u))'
                          + ToAnswer(OnBehalfOf(u))' + RepliesQueued(OnBehalfOf(u))') <= sent'[u]
      BY <1>ap
    <3> DEFINE d == One(m, OnBehalfOf(u))
    <3>1. /\ RequestsQueued(OnBehalfOf(u))' = RequestsQueued(OnBehalfOf(u)) - d
          /\ ToAnswer(OnBehalfOf(u))' = ToAnswer(OnBehalfOf(u)) + d
          /\ RepliesQueued(OnBehalfOf(u))' = RepliesQueued(OnBehalfOf(u))
      BY <1>s, <2>4
    <3>2. /\ RequestsQueued(OnBehalfOf(u)) \in Nat /\ ToAnswer(OnBehalfOf(u)) \in Nat
          /\ RepliesQueued(OnBehalfOf(u)) \in Nat /\ d \in Nat
      BY <1>n, <1>s DEF One
    <3>3. call(u)' = call(u) /\ ran'[u] = ran[u] /\ sent'[u] = sent[u]
      BY <2>1, <2>3
    <3> HIDE DEF d
    <3> QED BY <1>a, <1>nc, <1>t, <3>1, <3>2, <3>3
  <2> QED BY <1>bp, <2>5, <2>6, <2>7
<1> QED BY <1>1, <1>2, <1>3, <1>4, <1>5, <1>6, <1>7, <1>8, <1>9, <1>10, <1>11, <1>12, <1>13
        DEF AMLibraryStep, AMPollStep

-----------------------------------------------------------------------------
\* Nothing is on its way, and nobody calls, at the start.
LEMMA AMInitInv ==
  AMInit => AMInv
<1> SUFFICES ASSUME AMInit PROVE AMInv
  OBVIOUS
<1>0. /\ \A t \in Clients : ProcessOf[t] \in Processes
      /\ Nobody \notin Clients /\ Depth \in Nat /\ MaxRequests \in Nat
  BY AMPSHMAssumption DEF Processes
<1>t. AMTypeOK
  <2>1. amq \in [Nets -> [Processes -> Seq(AMMessages)]]
    BY DEF AMInit
  <2>2. buffers \in [Nets -> [Processes -> Nat]] /\ sent \in [Clients -> 0..MaxRequests]
        /\ ran \in [Clients -> Nat]
    BY <1>0 DEF AMInit
  <2> QED BY <2>1, <2>2 DEF AMInit, AMTypeOK
<1>1. \A n \in Nets : \A M \in SUBSET AMMessages : InQueues(amq[n], M) = {}
  BY DEF AMInit, InQueues
<1>2. \A M \in SUBSET AMMessages : \A S \in SUBSET HandlerStages : HandlersOf(M, S) = {}
  BY DEF AMInit, HandlersOf, HandlerStages, NoCall
<1>3. \A p \in Processes : PreparedBy(p) = {}
  BY DEF AMInit, PreparedBy, NoCall
<1>4. IsFiniteSet({}) /\ Cardinality({}) = 0
  BY FS_EmptySet
<1>s. /\ "request" \in Nets /\ "reply" \in Nets
      /\ AMMessages \in SUBSET AMMessages /\ HandlerStages \in SUBSET HandlerStages
      /\ Unanswered \in SUBSET HandlerStages
      /\ \A p \in Processes : FromProcess(p) \in SUBSET AMMessages
      /\ \A u \in Clients : OnBehalfOf(u) \in SUBSET AMMessages
  BY MessageSets DEF Unanswered, Nets
<1>5. FiniteUse
  <2>1. HandlersOf(AMMessages, HandlerStages) = {}
    BY <1>2, <1>s
  <2>2. \A n \in Nets : InQueues(amq[n], AMMessages) = {}
    BY <1>1, <1>s
  <2> QED BY <1>3, <1>4, <2>1, <2>2 DEF FiniteUse
<1>6. BuffersConserved
  <2> SUFFICES ASSUME NEW n \in Nets, NEW p \in Processes
               PROVE  buffers[n][p] + Owned(n, p) = Depth
    BY DEF BuffersConserved
  <2>1. buffers[n][p] = Depth
    BY DEF AMInit
  <2>2. /\ Cardinality(InQueues(amq[n], FromProcess(p))) = 0 /\ Cardinality(PreparedBy(p)) = 0
        /\ Cardinality(HandlersOf(FromProcess(p), HandlerStages)) = 0
    <3>1. InQueues(amq[n], FromProcess(p)) = {}
      BY <1>1, <1>s
    <3>2. HandlersOf(FromProcess(p), HandlerStages) = {}
      BY <1>2, <1>s
    <3>3. PreparedBy(p) = {}
      BY <1>3
    <3> QED BY <1>4, <3>1, <3>2, <3>3
  <2> QED BY <1>0, <2>1, <2>2 DEF Owned
<1>7. AnsweredOnce
  <2> SUFFICES ASSUME NEW t \in Clients PROVE ran[t] + Outstanding(t) <= sent[t]
    BY DEF AnsweredOnce
  <2>1. ran[t] = 0 /\ sent[t] = 0 /\ calling[t] = NoCall
    BY DEF AMInit
  <2>2. /\ Cardinality(InQueues(amq["request"], OnBehalfOf(t))) = 0
        /\ Cardinality(InQueues(amq["reply"], OnBehalfOf(t))) = 0
        /\ Cardinality(HandlersOf(OnBehalfOf(t), Unanswered)) = 0
    <3>1. InQueues(amq["request"], OnBehalfOf(t)) = {} /\ InQueues(amq["reply"], OnBehalfOf(t)) = {}
      BY <1>1, <1>s
    <3>2. HandlersOf(OnBehalfOf(t), Unanswered) = {}
      BY <1>2, <1>s
    <3> QED BY <1>4, <3>1, <3>2
  <2> QED BY <2>1, <2>2 DEF Outstanding
<1>8. SendLocksHeld
  BY <1>0 DEF SendLocksHeld, AMInit, NoCall, Nets
<1> QED BY <1>t, <1>5, <1>6, <1>7, <1>8 DEF AMInv

\* Every step keeps the invariant.
LEMMA AMInvStep ==
  AMInv /\ [AMNext]_amVars => AMInv'
<1> SUFFICES ASSUME AMInv, [AMNext]_amVars PROVE AMInv'
  OBVIOUS
<1>1. CASE AMNext
  <2>1. AMTypeOK'
    BY <1>1, AMTypeStep DEF AMInv
  <2>2. FiniteUse' /\ BuffersConserved' /\ AnsweredOnce'
    BY <1>1, <2>1, CountStep DEF AMInv
  <2>3. SendLocksHeld'
    BY <1>1, <2>1, SendLocksStep DEF AMInv
  <2> QED BY <2>1, <2>2, <2>3 DEF AMInv
<1>2. CASE UNCHANGED amVars
  <2>1. AMTypeOK'
    BY <1>2 DEF AMInv, amVars, AMTypeOK
  <2>2. FiniteUse'
    BY <1>2 DEF AMInv, amVars, FiniteUse, InQueues, HandlersOf, PreparedBy
  <2>3. BuffersConserved'
    <3>1. \A n \in Nets, p \in Processes : Owned(n, p)' = Owned(n, p)
      BY <1>2 DEF amVars, Owned, InQueues, HandlersOf, PreparedBy
    <3> QED BY <1>2, <3>1 DEF AMInv, amVars, BuffersConserved
  <2>4. AnsweredOnce'
    BY <1>2 DEF AMInv, amVars, AnsweredOnce, Outstanding, InQueues, HandlersOf
  <2>5. SendLocksHeld'
    BY <1>2 DEF AMInv, amVars, SendLocksHeld
  <2> QED BY <2>1, <2>2, <2>3, <2>4, <2>5 DEF AMInv
<1> QED BY <1>1, <1>2

\* The inductive invariant of Active Messages over shared memory.
THEOREM AMInvariant ==
  AMSpec => []AMInv
BY AMInitInv, AMInvStep, PTL DEF AMSpec

\* Every buffer of both networks is free, or holds one message or is to hold it
\* (ampshm_buf_alloc, ampshm_commit_inner, ampshm_cancel,
\* gasneti_pshmnet_recv_release).
THEOREM AMBuffersConserved ==
  AMSpec => []BuffersConserved
<1>1. AMInv => BuffersConserved
  BY DEF AMInv
<1> QED BY <1>1, AMInvariant, PTL

\* No request is answered twice (gasnetc_AMPSHM_ReqRepGeneric).
THEOREM RequestsAnsweredOnce ==
  AMSpec => []AnsweredOnce
<1>1. AMInv => AnsweredOnce
  BY DEF AMInv
<1> QED BY <1>1, AMInvariant, PTL

\* A thread that looks for a buffer has the alloc_lock of its process, and nobody
\* else has it (ampshm_buf_alloc).
THEOREM SendLocksExclusive ==
  AMSpec => []SendLocksHeld
<1>1. AMInv => SendLocksHeld
  BY DEF AMInv
<1> QED BY <1>1, AMInvariant, PTL

-----------------------------------------------------------------------------
(***************************************************************************)
(* The network over shared memory.  starts and order, the first pages of   *)
(* the blocks and the messages of the queues, are the witnesses of its     *)
(* inductive invariant; the state determines both.                         *)
(***************************************************************************)
(***************************************************************************)
(* Numbers and sequences.                                                  *)
(***************************************************************************)
\* Every nonempty set of naturals has a least element.
LEMMA LeastNatural ==
  ASSUME NEW T \in SUBSET Nat, T # {}
  PROVE  \E x \in T : \A y \in T : x <= y
<1> DEFINE S == {1 .. t : t \in T}
<1>1. S \subseteq FiniteSubsetsOf(Nat) /\ S # {}
  <2>1. \A t \in T : IsFiniteSet(1 .. t) /\ 1 .. t \in SUBSET Nat
    BY FS_Interval
  <2>. QED BY <2>1 DEF FiniteSubsetsOf
<1>2. IsWellFoundedOn(StrictSubsetOrdering(Nat), FiniteSubsetsOf(Nat))
  BY FS_StrictSubsetOrderingWellFounded
<1> HIDE DEF S
<1>3. PICK X \in S : \A Y \in S : ~(<<Y, X>> \in StrictSubsetOrdering(Nat))
  BY <1>1, <1>2, WFMin
<1>4. PICK x \in T : X = 1 .. x
  BY <1>3 DEF S
<1>5. ASSUME NEW y \in T, y < x PROVE FALSE
  <2>1. 1 .. y \in S
    BY DEF S
  <2>2. 1 .. y \subseteq 1 .. x /\ x \in 1 .. x /\ x \notin 1 .. y
    BY <1>5
  <2>3. 1 .. y \in SUBSET Nat /\ 1 .. x \in SUBSET Nat
    OBVIOUS
  <2>. QED BY <1>3, <1>4, <2>1, <2>2, <2>3 DEF StrictSubsetOrdering
<1>. QED BY <1>5

\* A bounded one has a greatest element.
LEMMA GreatestNatural ==
  ASSUME NEW n \in Nat, NEW T \in SUBSET (0 .. n), T # {}
  PROVE  \E x \in T : \A y \in T : y <= x
<1> DEFINE U == {n - t : t \in T}
<1>1. U \in SUBSET Nat /\ U # {}
  <2>1. \A t \in T : t \in Nat /\ t <= n /\ n - t \in Nat
    OBVIOUS
  <2>. QED BY <2>1
<1>2. PICK u \in U : \A v \in U : u <= v
  BY <1>1, LeastNatural
<1>3. PICK x \in T : u = n - x
  BY <1>2
<1>4. ASSUME NEW y \in T PROVE y <= x
  <2>1. n - y \in U
    OBVIOUS
  <2>2. u <= n - y
    BY <1>2, <2>1
  <2>. QED BY <1>3, <2>2
<1>. QED BY <1>4

\* The neighbours of an index.
LEMMA IndexFacts ==
  ASSUME NEW n \in Nat, NEW k \in 1 .. n
  PROVE  /\ k \in Nat /\ k >= 1 /\ k <= n /\ k + 1 \in Nat /\ (k + 1) - 1 = k
         /\ k # n => k + 1 \in 1 .. n
         /\ k # 1 => k - 1 \in 1 .. n /\ (k - 1) + 1 = k
         /\ k + 1 # 1 /\ (k + 1 = 2 <=> k = 1)
         /\ k + 1 <= n => k # n
         /\ 1 \in 1 .. n
OBVIOUS

\* The sequences among which a queue's order is chosen are all those without
\* repetition.
LEMMA OrdersAll ==
  ASSUME NEW list \in Seq(Addr), IsInjective(list)
  PROVE  list \in Orders
<1> DEFINE S == ToSet(list)
<1>1. list \in Bijection(1 .. Len(list), S)
  BY DEF IsInjective, ToSet, Bijection, Injection, Surjection
<1>2. Cardinality(S) = Len(list)
  <2>1. IsFiniteSet(1 .. Len(list)) /\ Cardinality(1 .. Len(list)) = Len(list)
    <3>1. Len(list) \in Int /\ 1 \in Int /\ Len(list) >= 0
      OBVIOUS
    <3>. QED BY <3>1, FS_Interval
  <2>2. ExistsBijection(1 .. Len(list), S)
    BY <1>1 DEF ExistsBijection
  <2>. QED BY <2>1, <2>2, FS_Bijection
<1>3. S \in SUBSET Addr
  BY DEF ToSet
<1>4. list \in [1 .. Cardinality(S) -> S]
  <2>1. list \in [1 .. Len(list) -> Addr] /\ \A k \in 1 .. Len(list) : list[k] \in S
    BY DEF ToSet
  <2>. QED BY <1>2, <2>1
<1>5. \A i, j \in 1 .. Cardinality(S) : i # j => list[i] # list[j]
  BY <1>2 DEF IsInjective
<1>6. list \in SetToSeqs(S)
  BY <1>4, <1>5 DEF SetToSeqs
<1>. QED BY <1>3, <1>6 DEF Orders, SetToAllKPermutations

-----------------------------------------------------------------------------
(***************************************************************************)
(* Blocks of a region.                                                     *)
(***************************************************************************)
Lengths == [Page -> 0..PageCount]

LEMMA PageFacts ==
  /\ PageCount \in Nat /\ PageCount > 0 /\ Page \subseteq Nat
  /\ \A k \in Nat : k \in Page <=> k < PageCount
  /\ \A k \in 0..PageCount : k \in Page <=> k # PageCount
  /\ Needs \subseteq 1..PageCount
BY PSHMNetAssumption DEF Page

LEMMA PageNat == PageCount \in Nat /\ PageCount > 0
BY PSHMNetAssumption

\* What a cut says of one block.
LEMMA CutFacts ==
  ASSUME NEW len \in Lengths, NEW S, Cuts(len, S), NEW k \in S, k # PageCount
  PROVE  /\ k \in Page /\ k \in Nat /\ len[k] \in 1..PageCount /\ k + len[k] \in S
         /\ k + len[k] <= PageCount /\ \A j \in S : j \in Nat /\ (j <= k \/ k + len[k] <= j)
<1>1. k \in 0..PageCount /\ k \in Page /\ len[k] \in 0..PageCount
  BY PageFacts DEF Cuts, Lengths
<1>2. len[k] > 0 /\ k + len[k] \in S /\ \A j \in S : j <= k \/ k + len[k] <= j
  BY DEF Cuts
<1>3. S \subseteq 0..PageCount
  BY DEF Cuts
<1>. QED BY <1>1, <1>2, <1>3, PageFacts

\* The walk along length[] from the start of a block meets the starts of the
\* blocks behind it and nothing else.
LEMMA StartsOfCut ==
  ASSUME NEW len \in Lengths, NEW S, Cuts(len, S), NEW k \in S
  PROVE  Starts(len, k) = {e \in S : e >= k}
<1> DEFINE Closed(C) == \A j \in C \ {PageCount} :
                          j + len[j] \in 0..PageCount => j + len[j] \in C
           T == {e \in S : e >= k}
<1>1. S \subseteq 0..PageCount /\ T \subseteq 0..PageCount /\ k \in T /\ k \in Nat
  <2>1. S \subseteq 0..PageCount
    BY DEF Cuts
  <2>2. \A j \in S : j \in 0..PageCount /\ j \in Nat
    BY <2>1, PageNat
  <2>3. k \in T
    BY <2>2
  <2>. QED BY <2>2, <2>3
<1>2. Closed(T)
  <2> SUFFICES ASSUME NEW j \in T, j # PageCount PROVE j + len[j] \in T
    OBVIOUS
  <2>. QED BY <1>1, CutFacts
<1>3. Starts(len, k) \subseteq T
  BY <1>1, <1>2 DEF Starts
<1>4. ASSUME NEW C \in SUBSET (0..PageCount), k \in C, Closed(C), NEW b \in T, b \notin C
      PROVE  FALSE
  <2> DEFINE Missed == T \ C
  <2>1. Missed \in SUBSET Nat /\ Missed # {}
    BY <1>1, <1>4, PageFacts
  <2>2. PICK e \in Missed : \A y \in Missed : e <= y
    BY <2>1, LeastNatural
  <2>3. e \in S /\ e \in Nat /\ e <= PageCount /\ k < e
    BY <1>1, <1>4, <2>2, PageFacts
  <2> DEFINE Met == {j \in T : j < e}
  <2>4. Met \in SUBSET (0..PageCount) /\ Met # {}
    BY <1>1, <2>3
  <2>5. PICK j \in Met : \A y \in Met : y <= j
    BY <2>4, PageFacts, GreatestNatural
  <2>6. j \in S /\ j \in T /\ j < e /\ j # PageCount /\ j \in Nat
    BY <1>1, <2>3, <2>5
  <2>7. j \in C
    BY <1>1, <2>1, <2>2, <2>6, PageFacts
  <2>8. j + len[j] \in T /\ j + len[j] <= e /\ j < j + len[j] /\ j + len[j] \in 0..PageCount
    BY <1>1, <2>3, <2>6, CutFacts, PageFacts
  <2>9. j + len[j] \in C
    BY <1>4, <2>6, <2>7, <2>8
  <2>10. j + len[j] \in Met
    BY <2>2, <2>3, <2>8, <2>9
  <2>. QED BY <2>5, <2>6, <2>8, <2>10
<1>5. T \subseteq Starts(len, k)
  <2> HIDE DEF T
  <2> SUFFICES ASSUME NEW b \in T PROVE b \in Starts(len, k)
    OBVIOUS
  <2>1. b \in 0..PageCount
    BY <1>1
  <2>. QED BY <1>4, <2>1 DEF Starts
<1>. QED BY <1>3, <1>5

\* Blocks merged up to page e, one of them split or not.
LEMMA CutMerged ==
  ASSUME NEW len \in Lengths, NEW S, Cuts(len, S), NEW k \in S, NEW e \in S, k < e,
         NEW len2 \in Lengths, len2[k] = e - k,
         \A j \in Page \ {k} : len2[j] = len[j]
  PROVE  Cuts(len2, {j \in S : j <= k \/ e <= j})
<1> DEFINE S2 == {j \in S : j <= k \/ e <= j}
<1>1. S \subseteq 0..PageCount /\ 0 \in S /\ PageCount \in S
  BY DEF Cuts
<1>2. {0, PageCount} \subseteq S2 /\ S2 \subseteq 0..PageCount
  <2>1. \A j \in S : j \in 0..PageCount /\ j \in Nat /\ j <= PageCount
    BY <1>1, PageNat
  <2>2. 0 \in S2 /\ PageCount \in S2
    BY <1>1, <2>1, PageNat
  <2>. QED BY <2>1, <2>2
<1>3. ASSUME NEW j \in S2, j # PageCount
      PROVE  /\ len2[j] > 0 /\ j + len2[j] \in S2
             /\ \A i \in S2 : i <= j \/ j + len2[j] <= i
  <2>1. CASE j = k
    BY <1>1, <2>1, PageFacts
  <2>2. CASE j # k
    <3>1. /\ j \in Page /\ len2[j] = len[j] /\ len[j] > 0 /\ j + len[j] \in S
          /\ \A i \in S : i <= j \/ j + len[j] <= i
      BY <1>1, <1>3, <2>2, CutFacts
    <3>2. j + len[j] \in S2
      <4>1. CASE j < k
        BY <1>1, <3>1, <4>1, PageFacts
      <4>2. CASE e <= j
        <5>1. j \in Nat /\ e \in Nat /\ len[j] \in Nat
          BY <1>1, <3>1 DEF Lengths
        <5>. QED BY <3>1, <4>2, <5>1
      <4>. QED BY <1>1, <2>2, <4>1, <4>2, PageFacts
    <3>. QED BY <3>1, <3>2
  <2>. QED BY <2>1, <2>2
<1>. QED BY <1>2, <1>3 DEF Cuts

\* A block split at page m.
LEMMA CutSplit ==
  ASSUME NEW len \in Lengths, NEW S, Cuts(len, S), NEW k \in S, k # PageCount,
         NEW m \in Nat, k < m, m < k + len[k],
         NEW len2 \in Lengths, len2[k] = m - k, len2[m] = k + len[k] - m,
         \A j \in Page \ {k, m} : len2[j] = len[j]
  PROVE  Cuts(len2, S \union {m})
<1>1. S \subseteq 0..PageCount /\ 0 \in S /\ PageCount \in S /\ k \in Nat
  BY PageFacts DEF Cuts
<1>2. /\ k \in Page /\ len[k] \in 1..PageCount /\ k + len[k] \in S
      /\ k + len[k] <= PageCount /\ \A j \in S : j \in Nat /\ (j <= k \/ k + len[k] <= j)
  BY CutFacts
<1>3. m \in 0..PageCount /\ m # PageCount /\ m \notin S
  BY <1>1, <1>2, PageFacts
<1>4. ASSUME NEW j \in S \union {m}, j # PageCount
      PROVE  /\ len2[j] > 0 /\ j + len2[j] \in S \union {m}
             /\ \A i \in S \union {m} : i <= j \/ j + len2[j] <= i
  <2>1. CASE j = k
    BY <1>1, <1>2, <1>3, <2>1, PageFacts
  <2>2. CASE j = m
    <3>1. m + len2[m] = k + len[k]
      BY <1>1, <1>2
    <3>. QED BY <1>1, <1>2, <1>3, <2>2, <3>1, PageFacts
  <2>3. CASE j # k /\ j # m
    <3>1. /\ j \in Page /\ j \in Nat /\ len2[j] = len[j] /\ len[j] \in Nat /\ len[j] > 0 /\ j + len[j] \in S
          /\ \A i \in S : i <= j \/ j + len[j] <= i
      BY <1>1, <1>4, <2>3, CutFacts
    <3>2. m <= j \/ j + len[j] <= m
      BY <1>1, <1>2, <2>3, <3>1
    <3>. QED BY <3>1, <3>2
  <2>. QED BY <2>1, <2>2, <2>3
<1>. QED BY <1>1, <1>3, <1>4 DEF Cuts

\* What the scan finds at the start of a block.
LEMMA MergedFacts ==
  ASSUME NEW p \in Procs, region[p].length \in Lengths, NEW S, Cuts(region[p].length, S),
         NEW k \in S, k # PageCount, NEW need \in Needs
  PROVE  /\ Merged(p, k, need) \in 1..PageCount
         /\ k + Merged(p, k, need) \in S
         /\ \A j \in S : k < j /\ j < k + Merged(p, k, need) =>
              ~inUse[<<p, j>>] /\ j - k < need
<1> DEFINE len == region[p].length
           Ends(e) == e > k /\ (e - k >= need \/ e = PageCount \/ inUse[<<p, e>>])
           T == {e \in Starts(len, k) : Ends(e)}
<1>1. Starts(len, k) = {e \in S : e >= k}
  BY StartsOfCut
<1>2. S \subseteq 0..PageCount /\ PageCount \in S /\ k \in Nat /\ k < PageCount
  BY PageFacts DEF Cuts
<1>3. T \in SUBSET Nat /\ PageCount \in T
  <2>1. PageCount \in Starts(len, k) /\ Ends(PageCount)
    BY <1>1, <1>2, PageNat
  <2>2. \A e \in Starts(len, k) : e \in Nat
    <3>1. \A e \in S : e \in Nat
      BY <1>2, PageNat
    <3>. QED BY <1>1, <3>1
  <2>. QED BY <2>1, <2>2
<1>4. PICK m \in T : \A e \in T : m <= e
  BY <1>3, LeastNatural
<1>5. Min(T) \in T /\ \A e \in T : Min(T) <= e
  BY <1>4 DEF Min
<1>6. Merged(p, k, need) = Min(T) - k
  BY DEF Merged
<1>7. PICK e0 : e0 = Min(T)
  OBVIOUS
<1>8. /\ e0 \in S /\ e0 > k /\ e0 \in Nat /\ e0 <= PageCount
      /\ \A j \in T : e0 <= j
  <2>1. e0 \in Starts(len, k) /\ Ends(e0) /\ \A j \in T : e0 <= j
    BY <1>5, <1>7
  <2>2. \A e \in S : e \in Nat /\ e <= PageCount
    BY <1>2, PageNat
  <2>3. e0 \in S /\ e0 > k
    BY <1>1, <2>1
  <2>. QED BY <2>1, <2>2, <2>3
<1>9. ASSUME NEW j \in S, k < j, j < e0 PROVE ~inUse[<<p, j>>] /\ j - k < need
  <2>1. j \in Nat /\ j \in Starts(len, k) /\ need \in Nat
    BY <1>1, <1>2, <1>9, PageFacts
  <2>2. j \notin T
    BY <1>8, <1>9, <2>1
  <2>3. ~Ends(j)
    BY <2>1, <2>2
  <2>. QED BY <1>2, <1>9, <2>1, <2>3
<1>10. Merged(p, k, need) = e0 - k
  BY <1>6, <1>7
<1> HIDE DEF T
<1>11. e0 - k \in 1..PageCount /\ k + (e0 - k) = e0
  BY <1>2, <1>8, PageNat
<1>. QED BY <1>8, <1>9, <1>10, <1>11

-----------------------------------------------------------------------------
(***************************************************************************)
(* Queues.                                                                 *)
(***************************************************************************)
LEMMA NullNoBlock == NetNull \notin Addr /\ Procs \subseteq Nat \ {0}
BY PSHMNetAssumption DEF NetNull, Addr, Procs

LEMMA AddrPage ==
  \A b \in Addr : /\ b[1] \in Procs /\ b[2] \in Page /\ b[2] \in Nat /\ b = <<b[1], b[2]>>
<1>1. \A b \in Addr : b[1] \in Procs /\ b[2] \in Page /\ b = <<b[1], b[2]>>
  BY DEF Addr
<1>. QED BY <1>1, PageFacts

LEMMA AddrFinite == IsFiniteSet(Addr)
<1>1. IsFiniteSet(Procs)
  <2>1. ProcOf \in Surjection(Senders \union Receivers, Procs)
    BY PSHMNetAssumption DEF Procs, Surjection
  <2>. QED BY <2>1, PSHMNetAssumption, FS_Surjection
<1>2. IsFiniteSet(Page)
  BY PSHMNetAssumption, FS_Interval DEF Page
<1>. QED BY <1>1, <1>2, FS_Product DEF Addr

\* A queue has one order at most.
LEMMA OneOrder ==
  ASSUME NEW p, NEW l1 \in Seq(Addr), NEW l2 \in Seq(Addr), IsOrder(p, l1), IsOrder(p, l2)
  PROVE  l1 = l2
<1> DEFINE Agree(k) == /\ k <= Len(l1) <=> k <= Len(l2)
                       /\ k <= Len(l1) => l1[k] = l2[k]
           D == {k \in Nat : k >= 1 /\ ~Agree(k)}
<1>1. /\ Len(l1) \in Nat /\ Len(l2) \in Nat
      /\ \A k \in 1..Len(l1) : l1[k] \in Addr /\ l1[k] # NetNull
      /\ \A k \in 1..Len(l2) : l2[k] \in Addr /\ l2[k] # NetNull
      /\ l1 = <<>> <=> Len(l1) = 0
      /\ l2 = <<>> <=> Len(l2) = 0
  BY NullNoBlock
<1>2. /\ FirstOf(p) = IF Len(l1) = 0 THEN NetNull ELSE l1[1]
      /\ FirstOf(p) = IF Len(l2) = 0 THEN NetNull ELSE l2[1]
      /\ \A k \in 1..Len(l1) : Behind(p, l1[k]) = IF k = Len(l1) THEN NetNull ELSE l1[k + 1]
      /\ \A k \in 1..Len(l2) : Behind(p, l2[k]) = IF k = Len(l2) THEN NetNull ELSE l2[k + 1]
  BY <1>1 DEF IsOrder
<1>3. ASSUME D # {} PROVE FALSE
  <2>1. D \in SUBSET Nat
    OBVIOUS
  <2>2. PICK k \in D : \A j \in D : k <= j
    BY <1>3, <2>1, LeastNatural
  <2>3. k \in Nat /\ k >= 1
    OBVIOUS
  <2>4. CASE k = 1
    BY <1>1, <1>2, <2>4
  <2>5. CASE k > 1
    <3>1. k - 1 \in Nat /\ k - 1 >= 1 /\ k - 1 \notin D /\ (k - 1) + 1 = k
      BY <2>2, <2>3, <2>5
    <3>2. /\ k - 1 <= Len(l1) <=> k - 1 <= Len(l2)
          /\ k - 1 <= Len(l1) => l1[k - 1] = l2[k - 1]
      <4>1. Agree(k - 1)
        BY <3>1
      <4>. QED BY <4>1
    <3>3. k - 1 <= Len(l1)
      <4>1. k - 1 > Len(l1) => k > Len(l1) /\ k > Len(l2)
        BY <1>1, <2>3, <3>2
      <4>. QED BY <1>1, <2>3, <4>1
    <3>4. k - 1 \in 1..Len(l1) /\ k - 1 \in 1..Len(l2)
      BY <1>1, <2>3, <2>5, <3>2, <3>3
    <3>5. (IF k - 1 = Len(l1) THEN NetNull ELSE l1[k])
            = (IF k - 1 = Len(l2) THEN NetNull ELSE l2[k])
      BY <1>2, <3>1, <3>2, <3>3, <3>4
    <3>6. k - 1 # Len(l1) => k \in 1..Len(l1)
      BY <1>1, <2>3, <3>4
    <3>7. k - 1 # Len(l2) => k \in 1..Len(l2)
      BY <1>1, <2>3, <3>4
    <3>8. k - 1 = Len(l1) <=> k - 1 = Len(l2)
      BY <1>1, <3>5, <3>6, <3>7
    <3>. QED BY <1>1, <2>3, <3>5, <3>6, <3>7, <3>8
  <2>. QED BY <2>3, <2>4, <2>5
<1>4. \A k \in Nat : k >= 1 => Agree(k)
  BY <1>3
<1> HIDE DEF D
<1>5. Len(l1) = Len(l2)
  <2>1. ASSUME Len(l1) # 0 PROVE Len(l1) <= Len(l2)
    <3>1. Len(l1) >= 1 /\ Len(l1) <= Len(l1)
      BY <1>1, <2>1
    <3>2. Agree(Len(l1))
      BY <1>1, <1>4, <3>1
    <3>. QED BY <3>1, <3>2
  <2>2. ASSUME Len(l2) # 0 PROVE Len(l2) <= Len(l1)
    <3>1. Len(l2) >= 1 /\ Len(l2) <= Len(l2)
      BY <1>1, <2>2
    <3>2. Agree(Len(l2))
      BY <1>1, <1>4, <3>1
    <3>. QED BY <3>1, <3>2
  <2>. QED BY <1>1, <2>1, <2>2
<1>6. \A k \in 1..Len(l1) : l1[k] = l2[k]
  <2> SUFFICES ASSUME NEW k \in 1..Len(l1) PROVE l1[k] = l2[k]
    OBVIOUS
  <2>1. k \in Nat /\ k >= 1 /\ k <= Len(l1)
    BY <1>1
  <2>. QED BY <1>4, <2>1
<1>. QED BY <1>1, <1>5, <1>6

\* At most one receiver dequeues.
LEMMA OneDequeues ==
  ASSUME LocksHeld, NEW p \in Procs, NEW r \in Dequeuing(p), NEW t \in Dequeuing(p)
  PROVE  r = t /\ dequeueLock[p] = r
BY DEF LocksHeld, Dequeuing

LEMMA PartedNotClearing ==
  ASSUME LocksHeld, NEW p \in Procs, Parted(p)
  PROVE  ~Clearing(p) /\ Dequeuing(p) # {}
BY OneDequeues DEF Parted, Clearing

\* The pieces of Holds, for indices.
LEMMA HoldsFacts ==
  ASSUME NEW p \in Procs, NEW list, Holds(p, list)
  PROVE  /\ Len(list) \in Nat /\ list \in Seq(Addr) /\ DOMAIN list = 1..Len(list)
         /\ \A k \in 1..Len(list) : list[k] \in Addr /\ list[k] # NetNull
         /\ \A j, k \in 1..Len(list) : list[j] = list[k] => j = k
         /\ \A k \in Nat : Visible(p, list, k) => k <= Len(list)
         /\ \A s \in Linking(p), k \in 1..Len(list) :
              snd[s].buf = list[k] => snd[s].prev = TailAt(p, list, k)
<1>1. list \in Seq(Addr) /\ IsInjective(list)
  BY DEF Holds
<1>2. /\ Len(list) \in Nat /\ DOMAIN list = 1..Len(list)
      /\ \A k \in 1..Len(list) : list[k] \in Addr /\ list[k] # NetNull
  BY <1>1, NullNoBlock
<1>3. \A j, k \in 1..Len(list) : list[j] = list[k] => j = k
  BY <1>1, <1>2 DEF IsInjective
<1>4. ASSUME NEW s \in Linking(p), NEW k \in 1..Len(list), snd[s].buf = list[k]
      PROVE  snd[s].prev = TailAt(p, list, k)
  <2>1. PICK j \in 1..Len(list) : snd[s].buf = list[j] /\ snd[s].prev = TailAt(p, list, j)
    BY DEF Holds
  <2>. QED BY <1>3, <1>4, <2>1
<1>. QED BY <1>1, <1>2, <1>3, <1>4 DEF Visible

\* Who is about to be linked to what.
LEMMA LinkedFacts ==
  ASSUME NEW p \in Procs, NEW list, Holds(p, list)
  PROVE  /\ \A x \in LinkedTo(p, NetNull) :
              \E k \in 1..Len(list) : /\ x = list[k] /\ ~Visible(p, list, k)
                                      /\ k = 1 \/ (k = 2 /\ Parted(p))
         /\ \A j \in 1..Len(list) : \A x \in LinkedTo(p, list[j]) :
              j + 1 \in 1..Len(list) /\ x = list[j + 1] /\ ~(j = 1 /\ Parted(p))
         /\ \A k \in 1..Len(list) : ~Visible(p, list, k) =>
              list[k] \in LinkedTo(p, TailAt(p, list, k))
<1>1. /\ Len(list) \in Nat
      /\ \A k \in 1..Len(list) : list[k] \in Addr /\ list[k] # NetNull
      /\ \A j, k \in 1..Len(list) : list[j] = list[k] => j = k
      /\ \A s \in Linking(p), k \in 1..Len(list) :
           snd[s].buf = list[k] => snd[s].prev = TailAt(p, list, k)
      /\ \A s \in Linking(p) : \E k \in 1..Len(list) :
           snd[s].buf = list[k] /\ snd[s].prev = TailAt(p, list, k)
  <2>1. \A s \in Linking(p) : \E k \in 1..Len(list) :
          snd[s].buf = list[k] /\ snd[s].prev = TailAt(p, list, k)
    BY DEF Holds
  <2>. QED BY <2>1, HoldsFacts
<1>2. \A a, x : x \in LinkedTo(p, a) <=> \E s \in Linking(p) : snd[s].prev = a /\ x = snd[s].buf
  BY DEF LinkedTo
<1>3. \A k \in 1..Len(list) : k # 1 => k - 1 \in 1..Len(list)
  BY <1>1
<1>4. ASSUME NEW x \in LinkedTo(p, NetNull)
      PROVE  \E k \in 1..Len(list) : /\ x = list[k] /\ ~Visible(p, list, k)
                                     /\ k = 1 \/ (k = 2 /\ Parted(p))
  <2>1. PICK s \in Linking(p) : snd[s].prev = NetNull /\ x = snd[s].buf
    BY <1>2
  <2>2. PICK k \in 1..Len(list) : snd[s].buf = list[k] /\ NetNull = TailAt(p, list, k)
    BY <1>1, <2>1
  <2>3. k = 1 \/ (k = 2 /\ Parted(p))
    BY <1>1, <1>3, <2>2 DEF TailAt
  <2>4. ~Visible(p, list, k)
    BY <2>2 DEF Visible
  <2>. QED BY <2>1, <2>2, <2>3, <2>4
<1>5. ASSUME NEW j \in 1..Len(list), NEW x \in LinkedTo(p, list[j])
      PROVE  j + 1 \in 1..Len(list) /\ x = list[j + 1] /\ ~(j = 1 /\ Parted(p))
  <2>1. PICK s \in Linking(p) : snd[s].prev = list[j] /\ x = snd[s].buf
    BY <1>2
  <2>2. PICK k \in 1..Len(list) : snd[s].buf = list[k] /\ list[j] = TailAt(p, list, k)
    BY <1>1, <2>1
  <2>3. k # 1 /\ ~(k = 2 /\ Parted(p)) /\ list[j] = list[k - 1]
    BY <1>1, <2>2 DEF TailAt
  <2>4. j = k - 1
    BY <1>1, <1>3, <2>3
  <2>5. k = j + 1
    BY <1>1, <2>4
  <2>. QED BY <2>1, <2>2, <2>3, <2>5
<1>6. ASSUME NEW k \in 1..Len(list), ~Visible(p, list, k)
      PROVE  list[k] \in LinkedTo(p, TailAt(p, list, k))
  <2>1. PICK s \in Linking(p) : snd[s].buf = list[k]
    BY <1>1, <1>6 DEF Visible
  <2>. QED BY <1>1, <1>2, <2>1
<1>. QED BY <1>4, <1>5, <1>6

LEMMA HeadOfQueue ==
  ASSUME LocksHeld, NEW p \in Procs, NEW list, Holds(p, list)
  PROVE  /\ queue[p].shead = NetNull =>
              HeadOf(p) = IF list = <<>> THEN NetNull ELSE list[1]
         /\ queue[p].shead # NetNull =>
              /\ list # <<>> /\ queue[p].shead = list[1]
              /\ HeadOf(p) = IF Clearing(p) THEN list[1]
                             ELSE IF Parted(p) /\ Len(list) >= 2 THEN list[2] ELSE NetNull
<1>1. /\ Len(list) \in Nat /\ (list = <<>> <=> Len(list) = 0)
      /\ \A k \in 1..Len(list) : list[k] \in Addr /\ list[k] # NetNull
      /\ \A k \in Nat : Visible(p, list, k) => k <= Len(list)
      /\ 1 \in Nat /\ 2 \in Nat
  BY HoldsFacts
<1>2. /\ \A x \in LinkedTo(p, NetNull) :
           \E k \in 1..Len(list) : /\ x = list[k] /\ ~Visible(p, list, k)
                                   /\ k = 1 \/ (k = 2 /\ Parted(p))
      /\ \A k \in 1..Len(list) : ~Visible(p, list, k) =>
           list[k] \in LinkedTo(p, TailAt(p, list, k))
  BY LinkedFacts
<1>3. ASSUME queue[p].shead = NetNull
      PROVE  HeadOf(p) = IF list = <<>> THEN NetNull ELSE list[1]
  <2>1. /\ queue[p].head = IF Visible(p, list, 1) THEN list[1] ELSE NetNull
        /\ ~Parted(p)
    BY <1>3 DEF Holds, Parted
  <2>2. CASE Visible(p, list, 1)
    BY <1>1, <2>1, <2>2 DEF HeadOf
  <2>3. CASE ~Visible(p, list, 1) /\ list = <<>>
    <3>1. LinkedTo(p, NetNull) = {}
      BY <1>1, <1>2, <2>3
    <3>. QED BY <2>1, <2>3, <3>1 DEF HeadOf
  <2>4. CASE ~Visible(p, list, 1) /\ list # <<>>
    <3>1. 1 \in 1..Len(list) /\ TailAt(p, list, 1) = NetNull
      BY <1>1, <2>4 DEF TailAt
    <3>2. list[1] \in LinkedTo(p, NetNull)
      BY <1>2, <2>4, <3>1
    <3>3. \A x \in LinkedTo(p, NetNull) : x = list[1]
      BY <1>2, <2>1
    <3>. QED BY <2>1, <2>4, <3>2, <3>3 DEF HeadOf
  <2>. QED BY <2>2, <2>3, <2>4
<1>4. ASSUME queue[p].shead # NetNull
      PROVE  /\ list # <<>> /\ queue[p].shead = list[1]
             /\ HeadOf(p) = IF Clearing(p) THEN list[1]
                            ELSE IF Parted(p) /\ Len(list) >= 2 THEN list[2] ELSE NetNull
  <2>1. /\ Visible(p, list, 1) /\ queue[p].shead = list[1]
        /\ queue[p].head = IF Clearing(p) THEN list[1]
                           ELSE IF Parted(p) /\ Visible(p, list, 2) THEN list[2]
                           ELSE NetNull
    BY <1>4 DEF Holds
  <2>2. Len(list) >= 1 /\ list # <<>> /\ list[1] # NetNull
    BY <1>1, <2>1
  <2>3. CASE Clearing(p)
    BY <2>1, <2>2, <2>3 DEF HeadOf
  <2>4. CASE ~Clearing(p) /\ Parted(p) /\ Visible(p, list, 2)
    <3>1. Len(list) >= 2 /\ list[2] # NetNull
      BY <1>1, <2>4
    <3>. QED BY <2>1, <2>2, <2>4, <3>1 DEF HeadOf
  <2>5. CASE ~Clearing(p) /\ Parted(p) /\ ~Visible(p, list, 2) /\ Len(list) >= 2
    <3>1. 2 \in 1..Len(list) /\ TailAt(p, list, 2) = NetNull
      BY <1>1, <2>5 DEF TailAt
    <3>2. list[2] \in LinkedTo(p, NetNull)
      BY <1>2, <2>5, <3>1
    <3>3. \A x \in LinkedTo(p, NetNull) : x = list[2]
      BY <1>2, <2>1
    <3>. QED BY <2>1, <2>2, <2>5, <3>2, <3>3 DEF HeadOf
  <2>6. CASE ~Clearing(p) /\ ~(Parted(p) /\ Len(list) >= 2)
    <3>1. LinkedTo(p, NetNull) = {}
      BY <1>1, <1>2, <2>1, <2>6
    <3>2. queue[p].head = NetNull
      BY <1>1, <2>1, <2>6
    <3>. QED BY <2>1, <2>2, <2>6, <3>1, <3>2 DEF HeadOf
  <2>. QED BY <2>3, <2>4, <2>5, <2>6
<1>. QED BY <1>3, <1>4

\* A queue that holds the messages of list has that order, also as TLC finds it.
LEMMA HoldsOrder ==
  ASSUME LocksHeld, NEW p \in Procs, NEW list, Holds(p, list)
  PROVE  Order(p) = list
<1>1. /\ Len(list) \in Nat /\ list \in Seq(Addr) /\ DOMAIN list = 1..Len(list)
      /\ \A k \in 1..Len(list) : list[k] \in Addr /\ list[k] # NetNull
      /\ \A j, k \in 1..Len(list) : list[j] = list[k] => j = k
      /\ \A k \in Nat : Visible(p, list, k) => k <= Len(list)
      /\ list = <<>> <=> Len(list) = 0
      /\ IsInjective(list)
  BY HoldsFacts DEF Holds
<1>2. FirstOf(p) = IF list = <<>> THEN NetNull ELSE list[1]
  BY HeadOfQueue DEF FirstOf
<1>3. ASSUME NEW k \in 1..Len(list)
      PROVE  Behind(p, list[k]) = IF k = Len(list) THEN NetNull ELSE list[k + 1]
  <2>1. /\ link[list[k]] = IF Visible(p, list, k + 1) /\ ~(k = 1 /\ Parted(p))
                           THEN list[k + 1] ELSE NetNull
        /\ k + 1 \in Nat /\ k \in Nat /\ k <= Len(list)
        /\ k # Len(list) => k + 1 \in 1..Len(list)
    <3>1. link[list[k]] = IF Visible(p, list, k + 1) /\ ~(k = 1 /\ Parted(p))
                          THEN list[k + 1] ELSE NetNull
      BY DEF Holds
    <3>2. /\ k + 1 \in Nat /\ k \in Nat /\ k <= Len(list)
          /\ k # Len(list) => k + 1 \in 1..Len(list)
      BY <1>1, IndexFacts
    <3>. QED BY <3>1, <3>2
  <2>2. \A x \in LinkedTo(p, list[k]) :
          k + 1 \in 1..Len(list) /\ x = list[k + 1] /\ ~(k = 1 /\ Parted(p))
    BY LinkedFacts
  <2>3. CASE Visible(p, list, k + 1) /\ ~(k = 1 /\ Parted(p))
    <3>1. k + 1 \in 1..Len(list) /\ k # Len(list)
      <4>1. k + 1 <= Len(list)
        BY <1>1, <2>1, <2>3
      <4>2. k # Len(list)
        BY <1>1, <4>1, IndexFacts
      <4>. QED BY <2>1, <4>2
    <3>. QED BY <1>1, <2>1, <2>3, <3>1 DEF Behind
  <2>4. CASE k = Len(list)
    <3>1. link[list[k]] = NetNull /\ LinkedTo(p, list[k]) = {}
      <4>1. ~Visible(p, list, k + 1)
        BY <1>1, <2>1, <2>4
      <4>. QED BY <1>1, <2>1, <2>2, <2>4, <4>1
    <3>2. list[k] = queue[p].shead /\ HeadOf(p) # list[k] => HeadOf(p) = NetNull
      <4>1. ASSUME list[k] = queue[p].shead, HeadOf(p) # list[k] PROVE HeadOf(p) = NetNull
        <5>1. queue[p].shead # NetNull
          BY <1>1, <4>1
        <5>2. list[k] = list[1]
          BY <4>1, <5>1, HeadOfQueue
        <5>3. k = 1 /\ Len(list) = 1
          BY <1>1, <2>4, <5>2
        <5>. QED BY <4>1, <5>1, <5>2, <5>3, HeadOfQueue
      <4>. QED BY <4>1
    <3>. QED BY <2>4, <3>1, <3>2 DEF Behind
  <2>5. CASE k # Len(list) /\ k = 1 /\ Parted(p)
    <3>1. link[list[k]] = NetNull /\ LinkedTo(p, list[k]) = {}
      BY <2>1, <2>2, <2>5
    <3>2. queue[p].shead # NetNull /\ ~Clearing(p)
      BY <2>5, PartedNotClearing DEF Holds
    <3>3. queue[p].shead = list[1] /\ HeadOf(p) = list[2] /\ list[2] # list[1]
      <4>1. Len(list) >= 2 /\ 2 \in 1..Len(list) /\ 1 \in 1..Len(list)
        BY <1>1, <2>5
      <4>. QED BY <1>1, <2>5, <3>2, <4>1, HeadOfQueue
    <3>. QED BY <2>5, <3>1, <3>3 DEF Behind
  <2>6. CASE k # Len(list) /\ ~(k = 1 /\ Parted(p)) /\ ~Visible(p, list, k + 1)
    <3>1. link[list[k]] = NetNull /\ k + 1 \in 1..Len(list)
      BY <2>1, <2>6
    <3>2. TailAt(p, list, k + 1) = list[k]
      <4>1. k + 1 # 1 /\ (k + 1 = 2 => k = 1) /\ (k + 1) - 1 = k
        BY <2>1
      <4>. QED BY <2>6, <4>1 DEF TailAt
    <3>3. list[k + 1] \in LinkedTo(p, list[k])
      BY <2>6, <3>1, <3>2, LinkedFacts
    <3>. QED BY <2>2, <2>6, <3>1, <3>3 DEF Behind
  <2>. QED BY <2>3, <2>4, <2>5, <2>6
<1>4. IsOrder(p, list)
  BY <1>1, <1>2, <1>3 DEF IsOrder
<1>5. list \in Orders
  BY <1>1, OrdersAll
<1>6. Order(p) \in Orders /\ IsOrder(p, Order(p))
  BY <1>4, <1>5 DEF Order
<1>7. Order(p) \in Seq(Addr)
  <2>1. PICK S \in SUBSET Addr : Order(p) \in SetToSeqs(S)
    BY <1>6 DEF Orders, SetToAllKPermutations
  <2>2. Order(p) \in [1..Cardinality(S) -> S]
    BY <2>1 DEF SetToSeqs
  <2>3. Cardinality(S) \in Nat
    BY AddrFinite, FS_Subset, FS_CardinalityType
  <2>4. Order(p) \in Seq(S)
    BY <2>2, <2>3, SeqDef
  <2>. QED BY <2>4
<1>. QED BY <1>1, <1>4, <1>6, <1>7, OneOrder

-----------------------------------------------------------------------------
(***************************************************************************)
(* The inductive invariant, with the blocks and the orders named.          *)
(***************************************************************************)
Sound(starts, order) ==
  /\ NetTypeOK /\ LocksHeld /\ Consistent(starts, order)
  /\ starts \in [Procs -> SUBSET (0..PageCount)]
  /\ order \in [Procs -> Seq(Addr)]

LEMMA SoundIsInv ==
  ASSUME NEW starts, NEW order, Sound(starts, order)
  PROVE  /\ NetInv
         /\ starts = [p \in Procs |-> Starts(region[p].length, 0)]
         /\ order = [p \in Procs |-> Order(p)]
<1>1. ASSUME NEW p \in Procs
      PROVE  starts[p] = Starts(region[p].length, 0) /\ order[p] = Order(p)
  <2>1. region[p].length \in Lengths /\ Cuts(region[p].length, starts[p]) /\ Holds(p, order[p])
    BY DEF Sound, Consistent, NetTypeOK, Lengths
  <2>2. 0 \in starts[p] /\ \A e \in starts[p] : e \in Nat /\ e >= 0
    BY <2>1, PageNat DEF Cuts
  <2>3. Starts(region[p].length, 0) = {e \in starts[p] : e >= 0}
    BY <2>1, <2>2, StartsOfCut
  <2>. QED BY <2>1, <2>2, <2>3, HoldsOrder DEF Sound
<1>2. /\ starts = [p \in Procs |-> Starts(region[p].length, 0)]
      /\ order = [p \in Procs |-> Order(p)]
  BY <1>1 DEF Sound
<1>. QED BY <1>2 DEF Sound, NetInv

LEMMA InvIsSound ==
  ASSUME NetInv
  PROVE  \E starts, order : Sound(starts, order)
<1> DEFINE st == [p \in Procs |-> Starts(region[p].length, 0)]
           or == [p \in Procs |-> Order(p)]
<1>1. NetTypeOK /\ LocksHeld /\ Consistent(st, or)
  BY DEF NetInv
<1>2. st \in [Procs -> SUBSET (0..PageCount)]
  BY DEF Starts
<1>3. or \in [Procs -> Seq(Addr)]
  BY <1>1 DEF Consistent, Holds
<1>. QED BY <1>1, <1>2, <1>3 DEF Sound

\* The pieces of Sound.
LEMMA SoundFacts ==
  ASSUME NEW starts, NEW order, Sound(starts, order)
  PROVE  /\ NetTypeOK /\ LocksHeld
         /\ \A p \in Procs : /\ Cuts(region[p].length, starts[p])
                             /\ region[p].next \in starts[p]
                             /\ Holds(p, order[p]) /\ order[p] \in Seq(Addr)
         /\ \A s \in Senders : snd[s].at = "scan" =>
              snd[s].curr \in starts[ProcOf[s]] /\ ScanSound(starts, s)
         /\ \A a \in Addr : BlockSound(starts, order, a)
BY DEF Sound, Consistent, ScanSound

\* What a thread's state is made of.
LEMMA SndFacts ==
  ASSUME NetTypeOK, NEW s \in Senders
  PROVE  /\ ProcOf[s] \in Procs
         /\ snd[s].at = "lock" => snd[s].need \in Needs /\ snd[s].to \in Procs
         /\ snd[s].at = "scan" => /\ snd[s].need \in Needs /\ snd[s].to \in Procs
                                  /\ snd[s].curr \in Page /\ snd[s].remain \in 1..PageCount
         /\ snd[s].at = "fill" => snd[s].buf \in Addr /\ snd[s].to \in Procs
         /\ snd[s].at = "link" => /\ snd[s].buf \in Addr /\ snd[s].to \in Procs
                                  /\ snd[s].prev \in Link
<1>1. snd[s] \in SenderStates
  BY DEF NetTypeOK
<1>2. ProcOf[s] \in Procs
  BY DEF Procs
<1>. QED BY <1>1, <1>2 DEF SenderStates

LEMMA RcvFacts ==
  ASSUME NetTypeOK, NEW r \in Receivers
  PROVE  /\ ProcOf[r] \in Procs
         /\ rcv[r].at \in {"idle", "clear", "next", "cas", "take", "handler"}
         /\ rcv[r].at \in {"next", "cas", "take", "handler"} => rcv[r].buf \in Addr
         /\ rcv[r].at = "take" => rcv[r].next \in Link
<1>1. rcv[r] \in ReceiverStates
  BY DEF NetTypeOK
<1>2. ProcOf[r] \in Procs
  BY DEF Procs
<1>. QED BY <1>1, <1>2 DEF ReceiverStates

LEMMA SenderForms ==
  /\ [at |-> "idle"] \in SenderStates
  /\ \A n \in Needs, p \in Procs : [at |-> "lock", need |-> n, to |-> p] \in SenderStates
  /\ \A n \in Needs, p \in Procs, k \in Page, m \in 1..PageCount :
       [at |-> "scan", need |-> n, to |-> p, curr |-> k, remain |-> m] \in SenderStates
  /\ \A a \in Addr, p \in Procs : [at |-> "fill", buf |-> a, to |-> p] \in SenderStates
  /\ \A a \in Addr, p \in Procs, b \in Link :
       [at |-> "link", buf |-> a, to |-> p, prev |-> b] \in SenderStates
BY DEF SenderStates

LEMMA ReceiverForms ==
  /\ [at |-> "idle"] \in ReceiverStates /\ [at |-> "clear"] \in ReceiverStates
  /\ \A a \in Addr : /\ [at |-> "next", buf |-> a] \in ReceiverStates
                     /\ [at |-> "cas", buf |-> a] \in ReceiverStates
                     /\ [at |-> "handler", buf |-> a] \in ReceiverStates
  /\ \A a \in Addr, b \in Link : [at |-> "take", buf |-> a, next |-> b] \in ReceiverStates
BY DEF ReceiverStates

\* One thread's state changes.
LEMMA SndChange ==
  ASSUME NetTypeOK, NEW s \in Senders, NEW x \in SenderStates,
         snd' = [snd EXCEPT ![s] = x]
  PROVE  /\ snd' \in [Senders -> SenderStates] /\ snd'[s] = x
         /\ \A t \in Senders : t # s => snd'[t] = snd[t]
BY DEF NetTypeOK

LEMMA RcvChange ==
  ASSUME NetTypeOK, NEW r \in Receivers, NEW x \in ReceiverStates,
         rcv' = [rcv EXCEPT ![r] = x]
  PROVE  /\ rcv' \in [Receivers -> ReceiverStates] /\ rcv'[r] = x
         /\ \A t \in Receivers : t # r => rcv'[t] = rcv[t]
BY DEF NetTypeOK

-----------------------------------------------------------------------------
(***************************************************************************)
(* What a step leaves as it was.                                           *)
(***************************************************************************)
LEMMA HoldsKept ==
  ASSUME NEW p \in Procs, NEW list, Holds(p, list),
         queue'[p] = queue[p],
         \A k \in 1..Len(list) : link'[list[k]] = link[list[k]],
         Linking(p)' = Linking(p), \A s \in Linking(p) : snd'[s] = snd[s],
         Dequeuing(p)' = Dequeuing(p), \A r \in Dequeuing(p) : rcv'[r] = rcv[r]
  PROVE  Holds(p, list)'
<1>2. (Parted(p)' <=> Parted(p)) /\ (Clearing(p)' <=> Clearing(p))
  BY DEF Parted, Clearing
<1>3. \A k \in Nat : Visible(p, list, k)' <=> Visible(p, list, k)
  BY DEF Visible
<1>4. \A k \in Nat : TailAt(p, list, k)' = TailAt(p, list, k)
  BY <1>2 DEF TailAt
<1>5. Len(list) \in Nat /\ \A k \in 1..Len(list) : k \in Nat /\ k + 1 \in Nat
  BY HoldsFacts
<1>6. Len(list) + 1 \in Nat /\ 1 \in Nat /\ 2 \in Nat
  BY <1>5
<1> HIDE DEF Dequeuing, Parted, Clearing, Visible, TailAt
<1>. QED BY <1>2, <1>3, <1>4, <1>5, <1>6 DEF Holds

LEMMA HoldsSame ==
  ASSUME NEW p \in Procs, NEW list, Holds(p, list),
         queue'[p] = queue[p],
         \A k \in 1..Len(list) : link'[list[k]] = link[list[k]],
         Linking(p)' = Linking(p), \A s \in Linking(p) : snd'[s] = snd[s],
         \A r \in Receivers : ProcOf[r] = p => rcv'[r] = rcv[r]
  PROVE  Holds(p, list)'
<1>1. Dequeuing(p)' = Dequeuing(p) /\ \A r \in Dequeuing(p) : rcv'[r] = rcv[r]
  BY DEF Dequeuing
<1>. QED BY <1>1, HoldsKept

LEMMA UsedSame ==
  ASSUME NEW order, NEW a,
         SendersOf(a)' = SendersOf(a), ReadersOf(a)' = ReadersOf(a),
         \A s \in SendersOf(a) : snd'[s].at = "fill" <=> snd[s].at = "fill",
         (\E s \in SendersOf(a) : snd[s].at = "fill") => link'[a] = link[a]
  PROVE  /\ Used(order, a)' <=> Used(order, a)
         /\ UsedAlone(order, a) => UsedAlone(order, a)'
BY DEF Used, UsedAlone, QueuesOf

-----------------------------------------------------------------------------
(***************************************************************************)
(* Initially one free block, empty queues and idle threads.                *)
(***************************************************************************)
LEMMA NetInitSound ==
  ASSUME NetInit
  PROVE  Sound([p \in Procs |-> {0, PageCount}], [p \in Procs |-> <<>>])
<1> DEFINE st == [p \in Procs |-> {0, PageCount}]
           or == [p \in Procs |-> <<>>]
<1>1. /\ 0 \in Page /\ PageCount \notin Page /\ PageCount \in Nat /\ PageCount # 0
      /\ NetNull \in Link /\ None \notin Senders /\ None \notin Receivers
  BY PageFacts, PSHMNetAssumption DEF Link
<1>2. /\ \A s \in Senders : snd[s].at = "idle"
      /\ \A r \in Receivers : rcv[r].at = "idle"
      /\ \A p \in Procs : /\ queue[p].tail = NetNull /\ queue[p].head = NetNull
                          /\ queue[p].shead = NetNull
                          /\ allocLock[p] = None /\ dequeueLock[p] = None
                          /\ region[p].next = 0
                          /\ region[p].length = [k \in Page |-> IF k = 0 THEN PageCount ELSE 0]
      /\ \A a \in Addr : ~inUse[a] /\ link[a] = NetNull
  BY DEF NetInit
<1>3. NetTypeOK
  <2>1. [k \in Page |-> IF k = 0 THEN PageCount ELSE 0] \in [Page -> 0..PageCount]
    BY <1>1
  <2>2. [at |-> "idle"] \in SenderStates /\ [at |-> "idle"] \in ReceiverStates
    BY SenderForms, ReceiverForms
  <2>. QED BY <1>1, <2>1, <2>2 DEF NetInit, NetTypeOK
<1>4. \A p \in Procs : Linking(p) = {} /\ Dequeuing(p) = {}
  BY <1>2 DEF Linking, Dequeuing
<1>5. LocksHeld
  <2>1. \A p \in Procs, s \in Senders : allocLock[p] # s /\ snd[s].at # "scan"
    BY <1>1, <1>2
  <2>2. \A p \in Procs, r \in Receivers : dequeueLock[p] # r /\ r \notin Dequeuing(p)
    BY <1>1, <1>2, <1>4
  <2>. QED BY <2>1, <2>2 DEF LocksHeld
<1>6. ASSUME NEW p \in Procs
      PROVE  Cuts(region[p].length, st[p]) /\ region[p].next \in st[p]
  <2>1. region[p].length[0] = PageCount /\ st[p] = {0, PageCount}
    BY <1>1, <1>2
  <2>2. 0 + PageCount = PageCount /\ PageCount > 0 /\ 0 \in 0..PageCount /\ PageCount \in 0..PageCount
    BY <1>1
  <2>3. Cuts(region[p].length, {0, PageCount})
    BY <2>1, <2>2 DEF Cuts
  <2>. QED BY <1>2, <2>1, <2>3
<1>7. ASSUME NEW p \in Procs PROVE Holds(p, <<>>)
  <2>1. Len(<<>>) = 0 /\ <<>> \in Seq(Addr) /\ IsInjective(<<>>)
    BY DEF IsInjective
  <2>2. ~Visible(p, <<>>, 1) /\ TailAt(p, <<>>, 1) = NetNull
    BY <2>1 DEF Visible, TailAt
  <2>3. /\ queue[p].tail = NetNull /\ queue[p].head = NetNull /\ queue[p].shead = NetNull
        /\ Linking(p) = {} /\ Dequeuing(p) = {}
    BY <1>2, <1>4
  <2>4. Len(<<>>) + 1 = 1 /\ 1..Len(<<>>) = {}
    BY <2>1
  <2>. QED BY <2>1, <2>2, <2>3, <2>4 DEF Holds
<1>8. ASSUME NEW a \in Addr PROVE BlockSound(st, or, a)
  <2>1. SendersOf(a) = {} /\ ReadersOf(a) = {}
    BY <1>2 DEF SendersOf, ReadersOf
  <2>2. QueuesOf(or, a) = {}
    BY DEF QueuesOf, ToSet
  <2>3. ~Used(or, a) /\ UsedAlone(or, a)
    BY <2>1, <2>2 DEF Used, UsedAlone
  <2>. QED BY <1>2, <2>3 DEF BlockSound
<1>9. st \in [Procs -> SUBSET (0..PageCount)]
  BY <1>1
<1>10. or \in [Procs -> Seq(Addr)] /\ \A p \in Procs : or[p] = <<>>
  <2>1. <<>> \in Seq(Addr)
    OBVIOUS
  <2>. QED BY <2>1
<1>11. \A p \in Procs : Holds(p, or[p])
  BY <1>7
<1>12. \A s \in Senders : snd[s].at # "scan"
  BY <1>2
<1> HIDE DEF st, or
<1>13. Consistent(st, or)
  BY <1>6, <1>8, <1>11, <1>12 DEF Consistent
<1>14. Sound(st, or)
  BY <1>3, <1>5, <1>9, <1>10, <1>13 DEF Sound
<1>. QED BY <1>14 DEF st, or

-----------------------------------------------------------------------------
(***************************************************************************)
(* Allocation.                                                             *)
(***************************************************************************)
\* A sender that neither fills nor links a message is in no queue and uses no
\* block, and what it does outside of them leaves the queues as they are.
LEMMA QuietSender ==
  ASSUME NEW starts, NEW order, Sound(starts, order),
         NEW s \in Senders, snd[s].at \notin {"fill", "link"},
         NEW x \in SenderStates, x.at \notin {"fill", "link"},
         snd' = [snd EXCEPT ![s] = x],
         UNCHANGED <<inUse, link, queue, dequeueLock, rcv>>
  PROVE  /\ snd' \in [Senders -> SenderStates] /\ snd'[s] = x
         /\ \A t \in Senders : t # s => snd'[t] = snd[t]
         /\ \A p \in Procs : Holds(p, order[p])'
         /\ \A a \in Addr : /\ Used(order, a)' <=> Used(order, a)
                            /\ UsedAlone(order, a)'
         /\ \A p \in Procs, r \in Receivers : dequeueLock'[p] = r <=> r \in Dequeuing(p)'
<1>1. NetTypeOK /\ LocksHeld
  BY SoundFacts
<1>2. /\ snd' \in [Senders -> SenderStates] /\ snd'[s] = x
      /\ \A t \in Senders : t # s => snd'[t] = snd[t]
  BY <1>1, SndChange
<1>3. ASSUME NEW p \in Procs PROVE Holds(p, order[p])'
  <2>1. Linking(p)' = Linking(p) /\ \A t \in Linking(p) : snd'[t] = snd[t]
    BY <1>2 DEF Linking
  <2>2. Holds(p, order[p])
    BY SoundFacts
  <2>. QED BY <2>1, <2>2, HoldsSame
<1>4. ASSUME NEW a \in Addr
      PROVE  (Used(order, a)' <=> Used(order, a)) /\ UsedAlone(order, a)'
  <2>1. SendersOf(a)' = SendersOf(a) /\ \A t \in SendersOf(a) : snd'[t] = snd[t]
    BY <1>2 DEF SendersOf
  <2>2. ReadersOf(a)' = ReadersOf(a)
    BY DEF ReadersOf
  <2>3. UsedAlone(order, a)
    BY SoundFacts DEF BlockSound
  <2>. QED BY <2>1, <2>2, <2>3, UsedSame
<1>5. \A p \in Procs, r \in Receivers : dequeueLock'[p] = r <=> r \in Dequeuing(p)'
  BY <1>1 DEF LocksHeld, Dequeuing
<1>. QED BY <1>2, <1>3, <1>4, <1>5

LEMMA BufAllocStep ==
  ASSUME NEW starts, NEW order, Sound(starts, order),
         NEW s \in Senders, ampshm_buf_alloc(s)
  PROVE  Sound(starts, order)'
<1>1. PICK n \in Needs, p \in {ProcOf[r] : r \in Receivers} :
        snd' = [snd EXCEPT ![s] = [at |-> "lock", need |-> n, to |-> p]]
  BY DEF ampshm_buf_alloc
<1>2. PICK x : x = [at |-> "lock", need |-> n, to |-> p]
  OBVIOUS
<1>3. p \in Procs /\ x \in SenderStates /\ x.at = "lock"
  BY <1>2, SenderForms DEF Procs
<1>4. /\ snd[s].at = "idle" /\ snd' = [snd EXCEPT ![s] = x]
      /\ UNCHANGED <<region, inUse, link, queue, allocLock, dequeueLock, rcv>>
  BY <1>1, <1>2 DEF ampshm_buf_alloc
<1>5. /\ snd' \in [Senders -> SenderStates] /\ snd'[s] = x
      /\ \A t \in Senders : t # s => snd'[t] = snd[t]
      /\ \A q \in Procs : Holds(q, order[q])'
      /\ \A a \in Addr : (Used(order, a)' <=> Used(order, a)) /\ UsedAlone(order, a)'
      /\ \A q \in Procs, r \in Receivers : dequeueLock'[q] = r <=> r \in Dequeuing(q)'
  BY <1>3, <1>4, QuietSender
<1>6. NetTypeOK' /\ LocksHeld'
  BY <1>3, <1>4, <1>5 DEF Sound, NetTypeOK, LocksHeld
<1>7. \A a \in Addr : BlockSound(starts, order, a)'
  BY <1>4, <1>5, SoundFacts DEF BlockSound
<1>8. \A t \in Senders : snd'[t].at = "scan" => ScanSound(starts, t)'
  BY <1>3, <1>4, <1>5, SoundFacts DEF ScanSound
<1>. QED BY <1>4, <1>5, <1>6, <1>7, <1>8 DEF Sound, Consistent

LEMMA TryLockStep ==
  ASSUME NEW starts, NEW order, Sound(starts, order),
         NEW s \in Senders, alloc_trylock(s)
  PROVE  Sound(starts, order)'
<1> DEFINE p == ProcOf[s]
<1>1. /\ NetTypeOK /\ LocksHeld /\ p \in Procs /\ snd[s].at = "lock"
      /\ snd[s].need \in Needs /\ snd[s].to \in Procs
      /\ UNCHANGED <<region, inUse, link, queue, dequeueLock, rcv>>
      /\ None \notin Senders
  BY SoundFacts, SndFacts, PSHMNetAssumption DEF alloc_trylock
<1>2. PICK x : x = IF allocLock[p] = None THEN Scan(s, region[p].next, PageCount) ELSE [at |-> "idle"]
  OBVIOUS
<1>3. /\ snd' = [snd EXCEPT ![s] = x]
      /\ allocLock' = IF allocLock[p] = None THEN [allocLock EXCEPT ![p] = s] ELSE allocLock
  BY <1>2 DEF alloc_trylock
<1>4. /\ x \in SenderStates /\ x.at \notin {"fill", "link"}
      /\ x.at = "scan" <=> allocLock[p] = None
      /\ x.at = "scan" => x.curr = region[p].next
  <2>1. [at |-> "idle"] \in SenderStates
    BY SenderForms
  <2>2. /\ Scan(s, region[p].next, PageCount) \in SenderStates /\ Scan(s, region[p].next, PageCount).at = "scan"
        /\ Scan(s, region[p].next, PageCount).curr = region[p].next
    <3>1. region[p].next \in Page /\ PageCount \in 1..PageCount
      BY <1>1, PageNat DEF NetTypeOK
    <3>. QED BY <1>1, <3>1, SenderForms DEF Scan
  <2>. QED BY <1>2, <2>1, <2>2
<1>5. /\ snd' \in [Senders -> SenderStates] /\ snd'[s] = x
      /\ \A t \in Senders : t # s => snd'[t] = snd[t]
      /\ \A q \in Procs : Holds(q, order[q])'
      /\ \A a \in Addr : (Used(order, a)' <=> Used(order, a)) /\ UsedAlone(order, a)'
      /\ \A q \in Procs, r \in Receivers : dequeueLock'[q] = r <=> r \in Dequeuing(q)'
  BY <1>1, <1>3, <1>4, QuietSender
<1>6. NetTypeOK'
  BY <1>1, <1>3, <1>5 DEF NetTypeOK
<1>7. LocksHeld'
  <2>1. ASSUME NEW q \in Procs, NEW t \in Senders
        PROVE  allocLock'[q] = t <=> ProcOf[t] = q /\ snd'[t].at = "scan"
    <3>1. allocLock[q] = t <=> ProcOf[t] = q /\ snd[t].at = "scan"
      BY <1>1 DEF LocksHeld
    <3>2. allocLock \in [Procs -> Senders \union {None}]
      BY <1>1 DEF NetTypeOK
    <3>. QED BY <1>1, <1>3, <1>4, <1>5, <3>1, <3>2
  <2>. QED BY <1>5, <2>1 DEF LocksHeld
<1>8. \A a \in Addr : BlockSound(starts, order, a)'
  BY <1>1, <1>5, SoundFacts DEF BlockSound
<1>9. ASSUME NEW t \in Senders, snd'[t].at = "scan" PROVE ScanSound(starts, t)'
  <2>1. CASE t # s
    BY <1>1, <1>5, <1>9, <2>1, SoundFacts DEF ScanSound
  <2>2. CASE t = s
    <3>1. region[p].next \in starts[p] /\ region[p].next \in Nat
      BY <1>1, SoundFacts, PageFacts DEF NetTypeOK
    <3>2. x = Scan(s, region[p].next, PageCount)
      BY <1>2, <1>4, <1>5, <1>9, <2>2
    <3>3. x.curr = region[p].next /\ x.remain = PageCount
      BY <3>2 DEF Scan
    <3>. QED BY <1>1, <1>5, <2>2, <3>1, <3>3, PageNat DEF ScanSound
  <2>. QED BY <2>1, <2>2
<1>. QED BY <1>1, <1>5, <1>6, <1>7, <1>8, <1>9 DEF Sound, Consistent

\* What the holder of alloc_lock knows of the block that it looks at.
LEMMA ScanFacts ==
  ASSUME NEW starts, NEW order, Sound(starts, order),
         NEW s \in Senders, snd[s].at = "scan"
  PROVE  LET p == ProcOf[s]
             k == snd[s].curr
             l == Merged(p, k, snd[s].need)
         IN /\ p \in Procs /\ k \in Page /\ k \in Nat /\ k # PageCount /\ <<p, k>> \in Addr
            /\ region[p].length \in Lengths /\ Cuts(region[p].length, starts[p])
            /\ k \in starts[p] /\ snd[s].need \in Needs /\ snd[s].to \in Procs
            /\ allocLock[p] = s
            /\ \A t \in Senders : ProcOf[t] = p /\ snd[t].at = "scan" => t = s
            /\ l \in 1..PageCount /\ k + l \in starts[p] /\ k + l \in 0..PageCount
            /\ \A j \in starts[p] : k < j /\ j < k + l => ~inUse[<<p, j>>]
<1> DEFINE p == ProcOf[s]
           k == snd[s].curr
           l == Merged(p, k, snd[s].need)
<1>1. NetTypeOK /\ LocksHeld
  BY SoundFacts
<1>2. p \in Procs /\ snd[s].need \in Needs /\ snd[s].to \in Procs /\ k \in Page
  BY <1>1, SndFacts
<1>3. /\ k \in Nat /\ k # PageCount /\ <<p, k>> \in Addr
  BY <1>2, PageNat DEF Page, Addr
<1>4. /\ region[p].length \in Lengths /\ Cuts(region[p].length, starts[p]) /\ k \in starts[p]
  BY <1>1, <1>2, SoundFacts DEF NetTypeOK, Lengths
<1>5. /\ allocLock[p] = s
      /\ \A t \in Senders : ProcOf[t] = p /\ snd[t].at = "scan" => t = s
  BY <1>1, <1>2 DEF LocksHeld
<1>6. /\ l \in 1..PageCount /\ k + l \in starts[p]
      /\ \A j \in starts[p] : k < j /\ j < k + l => ~inUse[<<p, j>>]
  BY <1>2, <1>3, <1>4, MergedFacts
<1>7. k + l \in 0..PageCount
  BY <1>4, <1>6 DEF Cuts
<1>. QED BY <1>2, <1>3, <1>4, <1>5, <1>6, <1>7

\* The starts of p's blocks once the one at k ends at e, and is split at m
\* unless m is e.
MergedStarts(S, k, e, m) == {j \in S : j <= k \/ e <= j} \union {m}

\* A region whose block at k is merged up to e and split at m.
LEMMA CutMergedSplit ==
  ASSUME NEW len \in Lengths, NEW S, Cuts(len, S), NEW k \in S, NEW e \in S, k < e,
         NEW m \in Nat, k < m, m <= e,
         NEW len2 \in Lengths, len2[k] = m - k, m # e => len2[m] = e - m,
         \A j \in Page \ {k, m} : len2[j] = len[j], m = e => \A j \in Page \ {k} : len2[j] = len[j]
  PROVE  Cuts(len2, MergedStarts(S, k, e, m))
<1> DEFINE S1 == {j \in S : j <= k \/ e <= j}
           len1 == [len EXCEPT ![k] = e - k]
<1>1. /\ \A j \in S : j \in Nat /\ j <= PageCount
      /\ k \in Nat /\ e \in Nat /\ e <= PageCount /\ k # PageCount /\ k \in Page
  <2>1. S \subseteq 0..PageCount
    BY DEF Cuts
  <2>2. \A j \in S : j \in Nat /\ j <= PageCount
    BY <2>1, PageNat
  <2>3. k < PageCount
    BY <2>2, PageNat
  <2>. QED BY <2>2, <2>3, PageFacts
<1>2. /\ len1 \in Lengths /\ len1[k] = e - k
      /\ \A j \in Page \ {k} : len1[j] = len[j]
  BY <1>1, PageNat DEF Lengths
<1>3. Cuts(len1, S1)
  <2>1. PICK l1 : l1 = len1
    OBVIOUS
  <2>2. l1 \in Lengths /\ l1[k] = e - k /\ \A j \in Page \ {k} : l1[j] = len[j]
    BY <1>2, <2>1
  <2>3. Cuts(l1, {j \in S : j <= k \/ e <= j})
    BY <2>2, CutMerged
  <2>. QED BY <2>1, <2>3
<1>4. k \in S1 /\ e \in S1 /\ k + len1[k] = e
  BY <1>1, <1>2
<1> HIDE DEF S1, len1
<1>5. CASE m = e
  <2>1. len2[k] = e - k /\ \A j \in Page \ {k} : len2[j] = len[j]
    BY <1>5
  <2>2. Cuts(len2, S1)
    BY <2>1, CutMerged DEF S1
  <2>3. MergedStarts(S, k, e, m) = S1
    BY <1>4, <1>5 DEF MergedStarts, S1
  <2>. QED BY <2>2, <2>3
<1>6. CASE m # e
  <2>1. k < m /\ m < k + len1[k] /\ len2[m] = k + len1[k] - m
    BY <1>1, <1>2, <1>4, <1>6
  <2>2. \A j \in Page \ {k, m} : len2[j] = len1[j]
    BY <1>2
  <2>3. Cuts(len2, S1 \union {m})
    BY <1>1, <1>2, <1>3, <1>4, <2>1, <2>2, CutSplit
  <2>. QED BY <2>3 DEF S1, MergedStarts
<1>. QED BY <1>5, <1>6

\* Blocks of other regions and blocks outside of the merged ones.
LEMMA OtherBlocks ==
  ASSUME NEW starts, NEW order, Sound(starts, order),
         NEW p \in Procs, NEW S, NEW st2, st2 = [starts EXCEPT ![p] = S],
         NEW a \in Addr, Used(order, a)' <=> Used(order, a), UsedAlone(order, a)',
         a[1] = p => (a[2] \in S <=> a[2] \in starts[p]),
         region'[a[1]].length[a[2]] = region[a[1]].length[a[2]],
         inUse'[a] = inUse[a]
  PROVE  BlockSound(st2, order, a)'
<1>1. a[1] \in Procs /\ a[2] \in Page /\ starts \in [Procs -> SUBSET (0..PageCount)]
  BY DEF Addr, Sound
<1>2. a[2] \in st2[a[1]] <=> a[2] \in starts[a[1]]
  BY <1>1
<1>. QED BY <1>2, SoundFacts DEF BlockSound

\* A block is taken.
LEMMA FoundStep ==
  ASSUME NEW starts, NEW order, Sound(starts, order),
         NEW s \in Senders, alloc_found(s)
  PROVE  \E st2 : Sound(st2, order)'
<1>1. PICK p, k, need, l, a : /\ p = ProcOf[s] /\ k = snd[s].curr /\ need = snd[s].need
                              /\ l = Merged(p, k, need) /\ a = <<p, k>>
  OBVIOUS
<1>2. /\ snd[s].at = "scan" /\ ~inUse[a] /\ l >= need
      /\ region' = [region EXCEPT
            ![p].next = Wrap(k + need),
            ![p].length = [j \in Page |-> IF j = k THEN need
                                          ELSE IF j = k + need /\ l > need THEN l - need
                                          ELSE @[j]]]
      /\ inUse' = [b \in Addr |-> IF b = a THEN TRUE
                                  ELSE IF b = <<p, k + need>> /\ l > need THEN FALSE
                                  ELSE inUse[b]]
      /\ link' = [link EXCEPT ![a] = NetNull]
      /\ allocLock' = [allocLock EXCEPT ![p] = None]
      /\ snd' = [snd EXCEPT ![s] = [at |-> "fill", buf |-> a, to |-> @.to]]
      /\ UNCHANGED <<queue, dequeueLock, rcv>>
  BY <1>1 DEF alloc_found
<1>3. /\ p \in Procs /\ k \in Page /\ k \in Nat /\ k # PageCount /\ a \in Addr
      /\ region[p].length \in Lengths /\ Cuts(region[p].length, starts[p])
      /\ k \in starts[p] /\ need \in Needs /\ snd[s].to \in Procs
      /\ allocLock[p] = s
      /\ \A t \in Senders : ProcOf[t] = p /\ snd[t].at = "scan" => t = s
      /\ l \in 1..PageCount /\ k + l \in starts[p] /\ k + l \in 0..PageCount
      /\ \A j \in starts[p] : k < j /\ j < k + l => ~inUse[<<p, j>>]
  BY <1>1, <1>2, ScanFacts
<1>4. NetTypeOK /\ LocksHeld /\ need \in 1..PageCount /\ a[1] = p /\ a[2] = k
      /\ starts \in [Procs -> SUBSET (0..PageCount)] /\ None \notin Senders
  BY <1>1, <1>3, SoundFacts, PageFacts, PSHMNetAssumption DEF Sound
<1> DEFINE len == region[p].length
           e == k + l
           m == k + need
           len2 == [j \in Page |-> IF j = k THEN need
                                   ELSE IF j = k + need /\ l > need THEN l - need
                                   ELSE len[j]]
           S2 == MergedStarts(starts[p], k, e, m)
           st2 == [starts EXCEPT ![p] = S2]
<1>5. /\ region'[p].length = len2 /\ region'[p].next = Wrap(m)
      /\ \A q \in Procs : q # p => region'[q] = region[q]
      /\ DOMAIN region' = Procs
  BY <1>2, <1>3, <1>4 DEF NetTypeOK
<1>6. /\ e \in Nat /\ m \in Nat /\ k < m /\ m <= e /\ e <= PageCount /\ k < e
      /\ m # e <=> l > need
      /\ m - k = need /\ e - m = l - need /\ l - need \in Nat
  BY <1>2, <1>3, <1>4, PageNat
<1>7. len2 \in Lengths
  <2>1. need \in 0..PageCount /\ (l > need => l - need \in 0..PageCount)
    BY <1>3, <1>4, <1>6, PageNat
  <2>2. \A j \in Page : len[j] \in 0..PageCount
    BY <1>3 DEF Lengths
  <2>. QED BY <2>1, <2>2 DEF Lengths
<1>8. /\ len2[k] = m - k
      /\ m # e => len2[m] = e - m
      /\ \A j \in Page \ {k, m} : len2[j] = len[j]
      /\ m = e => \A j \in Page \ {k} : len2[j] = len[j]
  <2>1. m # e => m \in Page
    BY <1>6, PageNat, PageFacts
  <2>. QED BY <1>3, <1>6, <2>1
<1>9. Cuts(region'[p].length, S2)
  <2> HIDE DEF len2, len, e, m, S2
  <2>1. e \in starts[p] /\ len \in Lengths /\ Cuts(len, starts[p])
    BY <1>3 DEF e, len
  <2>2. Cuts(len2, MergedStarts(starts[p], k, e, m))
    BY <1>3, <1>6, <1>7, <1>8, <2>1, CutMergedSplit
  <2>. QED BY <1>5, <2>2 DEF S2
<1>10. S2 \subseteq 0..PageCount /\ 0 \in S2 /\ PageCount \in S2
  BY <1>9 DEF Cuts
<1>11. region'[p].next \in S2 /\ region'[p].next \in Page
  <2>1. m \in S2
    BY DEF MergedStarts
  <2>2. m # PageCount => m \in Page
    BY <1>6, PageNat, PageFacts
  <2>. QED BY <1>5, <1>10, <2>1, <2>2, PageFacts DEF Wrap
<1>12. ~Used(order, a)
  BY <1>2, <1>3, SoundFacts DEF BlockSound
<1>13. PICK x : x = [at |-> "fill", buf |-> a, to |-> snd[s].to]
  OBVIOUS
<1>14. x \in SenderStates /\ x.at = "fill" /\ x.buf = a /\ snd' = [snd EXCEPT ![s] = x]
  BY <1>2, <1>3, <1>13, SenderForms
<1>15. /\ snd' \in [Senders -> SenderStates] /\ snd'[s] = x
       /\ \A t \in Senders : t # s => snd'[t] = snd[t]
  BY <1>4, <1>14, SndChange
<1>16. /\ link' \in [Addr -> Link] /\ link'[a] = NetNull
       /\ \A b \in Addr : b # a => link'[b] = link[b]
       /\ inUse' \in [Addr -> BOOLEAN] /\ inUse'[a] = TRUE
       /\ \A b \in Addr : b # a /\ ~(b = <<p, k + need>> /\ l > need) => inUse'[b] = inUse[b]
       /\ \A b \in Addr : b # a /\ b = <<p, k + need>> /\ l > need => ~inUse'[b]
  BY <1>2, <1>3, <1>4 DEF NetTypeOK, Link
<1>17. NetTypeOK'
  <2>1. region' \in [Procs -> [next : Page, length : [Page -> 0..PageCount]]]
    <3>1. /\ region \in [Procs -> [next : Page, length : [Page -> 0..PageCount]]]
          /\ Wrap(m) \in Page /\ len2 \in [Page -> 0..PageCount]
      BY <1>4, <1>5, <1>7, <1>11 DEF NetTypeOK, Lengths
    <3>2. PICK w, f : w = Wrap(m) /\ f = len2
      OBVIOUS
    <3>3. region' = [region EXCEPT ![p].next = w, ![p].length = f]
      <4>1. Wrap(k + need) = w /\ f = len2
        BY <3>2
      <4>. QED BY <1>2, <1>3, <3>1, <4>1
    <3>. QED BY <1>3, <3>1, <3>2, <3>3
  <2>2. allocLock' \in [Procs -> Senders \union {None}]
    BY <1>2, <1>4 DEF NetTypeOK
  <2>. QED BY <1>2, <1>4, <1>15, <1>16, <2>1, <2>2 DEF NetTypeOK
<1>18. LocksHeld'
  <2>1. ASSUME NEW q \in Procs, NEW t \in Senders
        PROVE  allocLock'[q] = t <=> ProcOf[t] = q /\ snd'[t].at = "scan"
    <3>1. allocLock[q] = t <=> ProcOf[t] = q /\ snd[t].at = "scan"
      BY <1>4 DEF LocksHeld
    <3>2. allocLock \in [Procs -> Senders \union {None}]
      BY <1>4 DEF NetTypeOK
    <3>. QED BY <1>1, <1>2, <1>3, <1>4, <1>14, <1>15, <3>1, <3>2
  <2>2. \A q \in Procs, r \in Receivers : dequeueLock'[q] = r <=> r \in Dequeuing(q)'
    BY <1>2, <1>4 DEF LocksHeld, Dequeuing
  <2>. QED BY <2>1, <2>2 DEF LocksHeld
<1>19. ASSUME NEW q \in Procs PROVE Holds(q, order[q])'
  <2>1. Holds(q, order[q])
    BY SoundFacts
  <2>2. Linking(q)' = Linking(q) /\ \A t \in Linking(q) : snd'[t] = snd[t]
    BY <1>2, <1>14, <1>15 DEF Linking
  <2>3. ASSUME NEW i \in 1..Len(order[q]) PROVE link'[order[q][i]] = link[order[q][i]]
    <3>1. order[q][i] \in Addr /\ order[q][i] \in ToSet(order[q])
      BY <2>1, HoldsFacts DEF ToSet
    <3>2. Used(order, order[q][i])
      BY <3>1 DEF Used, QueuesOf
    <3>. QED BY <1>12, <1>16, <3>1, <3>2
  <2>. QED BY <1>2, <2>1, <2>2, <2>3, HoldsSame
<1>20. ASSUME NEW b \in Addr, b # a
       PROVE  (Used(order, b)' <=> Used(order, b)) /\ UsedAlone(order, b)'
  <2>1. SendersOf(b)' = SendersOf(b) /\ \A t \in SendersOf(b) : snd'[t] = snd[t]
    BY <1>2, <1>14, <1>15, <1>20 DEF SendersOf
  <2>2. ReadersOf(b)' = ReadersOf(b)
    BY <1>2 DEF ReadersOf
  <2>3. UsedAlone(order, b)
    BY SoundFacts DEF BlockSound
  <2>. QED BY <1>16, <1>20, <2>1, <2>2, <2>3, UsedSame
<1>21. Used(order, a)' /\ UsedAlone(order, a)'
  <2>1. SendersOf(a)' = {s}
    <3>1. SendersOf(a) = {}
      BY <1>12 DEF Used
    <3>. QED BY <1>14, <1>15, <3>1 DEF SendersOf
  <2>2. ReadersOf(a)' = {}
    BY <1>2, <1>12 DEF Used, ReadersOf
  <2>3. QueuesOf(order, a) = {}
    BY <1>12 DEF Used
  <2>. QED BY <1>16, <2>1, <2>2, <2>3 DEF Used, UsedAlone, QueuesOf
<1>22. ASSUME NEW b \in Addr PROVE BlockSound(st2, order, b)'
  <2>1. CASE b = a
    <3>1. a[2] \in st2[a[1]]
      BY <1>3, <1>4, <1>6 DEF MergedStarts
    <3>2. region'[a[1]].length[a[2]] = need
      BY <1>4, <1>5, <1>6, <1>8
    <3> HIDE DEF st2
    <3>. QED BY <1>3, <1>16, <1>21, <2>1, <3>1, <3>2 DEF BlockSound
  <2>2. CASE b # a /\ b[1] # p
    <3>1. region'[b[1]] = region[b[1]] /\ inUse'[b] = inUse[b]
      BY <1>5, <1>16, <2>2 DEF Addr
    <3> HIDE DEF S2
    <3>2. PICK S, st : S = S2 /\ st = st2
      OBVIOUS
    <3>3. BlockSound(st, order, b)'
      BY <1>3, <1>20, <2>2, <3>1, <3>2, OtherBlocks
    <3>. QED BY <3>2, <3>3
  <2>3. CASE b # a /\ b[1] = p
    <3>1. PICK j \in Page : b = <<p, j>> /\ b[2] = j /\ j # k /\ j \in Nat
      BY <1>1, <2>3, AddrPage
    <3>2. CASE k < j /\ j < e
      <4>1. ~Used(order, b)
        BY <1>3, <2>3, <3>1, <3>2, SoundFacts DEF BlockSound
      <4>2. ~(j \in st2[p] /\ inUse'[b])
        <5>1. CASE j = m /\ l > need
          BY <1>16, <2>3, <3>1, <5>1
        <5>2. CASE ~(j = m /\ l > need)
          <6>1. j # m
            BY <1>6, <3>2, <5>2
          <6>2. j \notin S2
            BY <1>3, <1>6, <3>1, <3>2, <6>1 DEF MergedStarts
          <6>. QED BY <1>3, <1>4, <6>2
        <5>. QED BY <5>1, <5>2
      <4> HIDE DEF st2
      <4>. QED BY <1>20, <2>3, <3>1, <4>1, <4>2 DEF BlockSound
    <3>3. CASE ~(k < j /\ j < e)
      <4>1. j < k \/ e <= j
        BY <1>6, <3>1, <3>3, <1>3
      <4>2. j \in S2 <=> j \in starts[p]
        <5>1. j = m => j = e
          BY <1>3, <1>6, <3>1, <4>1
        <5>. QED BY <1>3, <1>6, <3>1, <4>1, <5>1 DEF MergedStarts
      <4>3. region'[p].length[j] = len[j]
        <5>1. j = m => m = e
          BY <1>3, <1>6, <3>1, <4>1
        <5>. QED BY <1>5, <1>6, <3>1, <5>1
      <4>4. inUse'[b] = inUse[b]
        <5>1. ~(b = <<p, k + need>> /\ l > need)
          BY <1>3, <1>6, <3>1, <4>1
        <5>. QED BY <1>16, <2>3, <5>1
      <4> HIDE DEF S2
      <4>5. PICK S, st : S = S2 /\ st = st2
        OBVIOUS
      <4>6. BlockSound(st, order, b)'
        BY <1>3, <1>20, <2>3, <3>1, <4>2, <4>3, <4>4, <4>5, OtherBlocks
      <4>. QED BY <4>5, <4>6
    <3>. QED BY <3>2, <3>3
  <2>. QED BY <2>1, <2>2, <2>3
<1>23. /\ st2 \in [Procs -> SUBSET (0..PageCount)]
       /\ st2[p] = S2 /\ \A q \in Procs : q # p => st2[q] = starts[q]
  BY <1>3, <1>4, <1>10
<1>24. ASSUME NEW q \in Procs
       PROVE  Cuts(region'[q].length, st2[q]) /\ region'[q].next \in st2[q]
  <2> HIDE DEF st2
  <2>. QED BY <1>5, <1>9, <1>11, <1>23, SoundFacts
<1>25. ASSUME NEW t \in Senders, snd'[t].at = "scan"
       PROVE  ScanSound(st2, t)'
  <2>1. t # s /\ snd'[t] = snd[t]
    BY <1>14, <1>15, <1>25
  <2>2. ProcOf[t] # p /\ ProcOf[t] \in Procs
    BY <1>3, <1>4, <1>25, <2>1, SndFacts
  <2> HIDE DEF st2
  <2>. QED BY <1>5, <1>23, <1>25, <2>1, <2>2, SoundFacts DEF ScanSound
<1> HIDE DEF st2
<1>26. PICK st : st = st2
  OBVIOUS
<1>27. order \in [Procs -> Seq(Addr)]
  BY DEF Sound
<1>28. Consistent(st, order)'
  BY <1>19, <1>22, <1>24, <1>25, <1>26 DEF Consistent
<1>29. Sound(st, order)'
  BY <1>17, <1>18, <1>23, <1>26, <1>27, <1>28 DEF Sound
<1>. QED BY <1>29

\* A block is passed over, merged with the free ones behind it.
LEMMA SkipStep ==
  ASSUME NEW starts, NEW order, Sound(starts, order),
         NEW s \in Senders, alloc_skip(s)
  PROVE  \E st2 : Sound(st2, order)'
<1>1. PICK p, k, need, first, l :
        /\ p = ProcOf[s] /\ k = snd[s].curr /\ need = snd[s].need
        /\ first = region[p].next
        /\ l = IF inUse[<<p, k>>] THEN region[p].length[k] ELSE Merged(p, k, need)
  OBVIOUS
<1> DEFINE goOn == snd[s].remain - l > 0
<1>2. /\ snd[s].at = "scan"
      /\ region' = [region EXCEPT ![p].length[k] = l,
                                  ![p].next = IF goOn THEN @ ELSE Wrap(k + l)]
      /\ snd' = [snd EXCEPT ![s] =
                   IF goOn THEN Scan(s, Wrap(k + l), snd[s].remain - l)
                   ELSE IF s \in Immediate THEN [at |-> "idle"]
                   ELSE Scan(s, Wrap(k + l), PageCount)]
      /\ allocLock' = [allocLock EXCEPT ![p] = IF ~goOn /\ s \in Immediate THEN None ELSE @]
      /\ UNCHANGED <<inUse, link, queue, dequeueLock, rcv>>
  BY <1>1 DEF alloc_skip
<1>3. /\ p \in Procs /\ k \in Page /\ k \in Nat /\ k # PageCount /\ <<p, k>> \in Addr
      /\ region[p].length \in Lengths /\ Cuts(region[p].length, starts[p])
      /\ k \in starts[p] /\ need \in Needs /\ snd[s].to \in Procs
      /\ allocLock[p] = s
      /\ \A t \in Senders : ProcOf[t] = p /\ snd[t].at = "scan" => t = s
      /\ Merged(p, k, need) \in 1..PageCount /\ k + Merged(p, k, need) \in starts[p]
      /\ k + Merged(p, k, need) \in 0..PageCount
      /\ \A j \in starts[p] : k < j /\ j < k + Merged(p, k, need) => ~inUse[<<p, j>>]
  BY <1>1, <1>2, ScanFacts
<1>4. /\ NetTypeOK /\ LocksHeld /\ None \notin Senders
      /\ starts \in [Procs -> SUBSET (0..PageCount)]
      /\ first \in Page /\ first \in Nat /\ first \in starts[p]
      /\ snd[s].remain = first - k + (IF k >= first THEN PageCount ELSE 0)
      /\ snd[s].remain \in 1..PageCount
  <2>1. NetTypeOK /\ LocksHeld /\ ScanSound(starts, s) /\ region[p].next \in starts[p]
    BY <1>2, <1>3, SoundFacts
  <2>2. region[p].next \in Page
    BY <1>3, <2>1 DEF NetTypeOK
  <2>3. snd[s].remain \in 1..PageCount
    BY <1>2, <2>1, SndFacts
  <2>. QED BY <1>1, <2>1, <2>2, <2>3, PageFacts, PSHMNetAssumption DEF Sound, ScanSound
<1> DEFINE len == region[p].length
           e == k + l
           S2 == MergedStarts(starts[p], k, e, e)
           st2 == [starts EXCEPT ![p] = S2]
           len2 == [len EXCEPT ![k] = l]
<1>5. /\ l \in 1..PageCount /\ e \in starts[p] /\ e \in 0..PageCount /\ e \in Nat
      /\ k < e /\ e - k = l
      /\ inUse[<<p, k>>] => l = len[k]
      /\ \A j \in starts[p] : k < j /\ j < e => ~inUse[<<p, j>>]
      /\ \A j \in starts[p] : j \in Nat /\ j <= PageCount
  <2>1. CASE inUse[<<p, k>>]
    <3>1. l = len[k]
      BY <1>1, <2>1
    <3>2. /\ len[k] \in 1..PageCount /\ k + len[k] \in starts[p] /\ k + len[k] <= PageCount
          /\ \A j \in starts[p] : j \in Nat /\ (j <= k \/ k + len[k] <= j)
      BY <1>3, CutFacts
    <3>3. starts[p] \subseteq 0..PageCount
      BY <1>3, <1>4
    <3>. QED BY <1>3, <3>1, <3>2, <3>3, PageNat
  <2>2. CASE ~inUse[<<p, k>>]
    <3>1. l = Merged(p, k, need)
      BY <1>1, <2>2
    <3>2. starts[p] \subseteq 0..PageCount
      BY <1>3, <1>4
    <3>. QED BY <1>3, <2>2, <3>1, <3>2, PageNat
  <2>. QED BY <2>1, <2>2
<1>6. /\ len2 \in Lengths /\ len2[k] = l /\ \A j \in Page \ {k} : len2[j] = len[j]
  BY <1>3, <1>5 DEF Lengths
<1>7. /\ region' \in [Procs -> [next : Page, length : [Page -> 0..PageCount]]]
      /\ region'[p].length = len2
      /\ region'[p].next = IF goOn THEN first ELSE Wrap(e)
      /\ \A q \in Procs : q # p => region'[q] = region[q]
  <2>1. region \in [Procs -> [next : Page, length : [Page -> 0..PageCount]]]
    BY <1>4 DEF NetTypeOK
  <2>2. Wrap(e) \in Page
    <3>1. e # PageCount => e \in Page
      BY <1>5, PageFacts
    <3>. QED BY <3>1, PageFacts DEF Wrap
  <2>3. PICK w : w = Wrap(k + l)
    OBVIOUS
  <2>4. region' = [region EXCEPT ![p].length[k] = l, ![p].next = IF goOn THEN @ ELSE w]
    BY <1>2, <2>3
  <2>5. l \in 0..PageCount /\ w \in Page
    BY <1>5, <2>2, <2>3
  <2>6. /\ region' \in [Procs -> [next : Page, length : [Page -> 0..PageCount]]]
        /\ \A q \in Procs : q # p => region'[q] = region[q]
    BY <1>3, <2>1, <2>4, <2>5
  <2>7. /\ region'[p].length = [region[p].length EXCEPT ![k] = l]
        /\ region'[p].next = IF goOn THEN first ELSE w
    BY <1>1, <1>3, <2>1, <2>4
  <2>. QED BY <2>3, <2>6, <2>7
<1>8. Cuts(region'[p].length, S2)
  <2> HIDE DEF len2, len, e
  <2>1. len \in Lengths /\ Cuts(len, starts[p])
    BY <1>3 DEF len
  <2>2. e <= e
    BY <1>5
  <2>3. Cuts(len2, MergedStarts(starts[p], k, e, e))
    BY <1>3, <1>5, <1>6, <2>1, <2>2, CutMergedSplit
  <2>. QED BY <1>7, <2>3
<1>9. S2 \subseteq 0..PageCount /\ 0 \in S2 /\ PageCount \in S2 /\ e \in S2 /\ Wrap(e) \in S2
  <2>1. S2 \subseteq 0..PageCount /\ 0 \in S2 /\ PageCount \in S2
    BY <1>8 DEF Cuts
  <2>2. e \in S2
    BY DEF MergedStarts
  <2>. QED BY <2>1, <2>2 DEF Wrap
<1>10. /\ goOn => first <= k \/ e < first
       /\ goOn => snd[s].remain - l \in 1..PageCount
  <2>1. PICK r : r = snd[s].remain
    OBVIOUS
  <2>2. /\ k \in Nat /\ first \in Nat /\ l \in 1..PageCount /\ r \in 1..PageCount
        /\ r = first - k + (IF k >= first THEN PageCount ELSE 0)
    BY <1>3, <1>4, <1>5, <2>1
  <2>3. r - l > 0 => first <= k \/ k + l < first
    BY <2>2, PageNat
  <2>4. r - l > 0 => r - l \in 1..PageCount
    BY <2>2, PageNat
  <2>. QED BY <2>1, <2>3, <2>4
<1>11. region'[p].next \in S2
  <2>1. goOn => first \in S2
    BY <1>3, <1>4, <1>5, <1>10 DEF MergedStarts
  <2>. QED BY <1>7, <1>9, <2>1
<1>12. PICK w, x : /\ w = Wrap(e)
                   /\ x = IF ~goOn /\ s \in Immediate THEN [at |-> "idle"]
                          ELSE [at |-> "scan", need |-> need, to |-> snd[s].to, curr |-> w,
                                remain |-> IF goOn THEN snd[s].remain - l ELSE PageCount]
  OBVIOUS
<1>13. w \in Page /\ w \in Nat /\ w \in S2 /\ w = IF e = PageCount THEN 0 ELSE e
  <2>1. e # PageCount => e \in Page
    BY <1>5, PageFacts
  <2>. QED BY <1>9, <1>12, <2>1, PageFacts DEF Wrap
<1>14. goOn => snd[s].remain - l \in 1..PageCount
  BY <1>10
<1>15. /\ x \in SenderStates /\ x.at \in {"idle", "scan"}
       /\ x.at = "scan" <=> goOn \/ s \notin Immediate
       /\ x.at = "scan" => /\ x.curr = w
                           /\ x.remain = IF goOn THEN snd[s].remain - l ELSE PageCount
  <2>1. [at |-> "idle"] \in SenderStates
    BY SenderForms
  <2>2. PageCount \in 1..PageCount
    BY PageNat
  <2>3. PICK m : m = IF goOn THEN snd[s].remain - l ELSE PageCount
    OBVIOUS
  <2>4. m \in 1..PageCount
    BY <1>14, <2>2, <2>3
  <2>5. [at |-> "scan", need |-> need, to |-> snd[s].to, curr |-> w, remain |-> m] \in SenderStates
    BY <1>3, <1>13, <2>4, SenderForms
  <2>. QED BY <1>12, <2>1, <2>3, <2>5
<1>16. snd' = [snd EXCEPT ![s] = x]
  <2>1. x = IF goOn THEN Scan(s, Wrap(k + l), snd[s].remain - l)
            ELSE IF s \in Immediate THEN [at |-> "idle"]
            ELSE Scan(s, Wrap(k + l), PageCount)
    BY <1>1, <1>12 DEF Scan
  <2>. QED BY <1>2, <2>1
<1>17. /\ snd' \in [Senders -> SenderStates] /\ snd'[s] = x
       /\ \A t \in Senders : t # s => snd'[t] = snd[t]
       /\ \A q \in Procs : Holds(q, order[q])'
       /\ \A a \in Addr : (Used(order, a)' <=> Used(order, a)) /\ UsedAlone(order, a)'
       /\ \A q \in Procs, r \in Receivers : dequeueLock'[q] = r <=> r \in Dequeuing(q)'
  <2>1. /\ snd[s].at \notin {"fill", "link"} /\ x \in SenderStates /\ x.at \notin {"fill", "link"}
        /\ UNCHANGED <<inUse, link, queue, dequeueLock, rcv>>
    BY <1>2, <1>15
  <2>. QED BY <1>16, <2>1, QuietSender
<1>18. NetTypeOK'
  BY <1>2, <1>4, <1>7, <1>17 DEF NetTypeOK
<1>19. LocksHeld'
  <2>1. ASSUME NEW q \in Procs, NEW t \in Senders
        PROVE  allocLock'[q] = t <=> ProcOf[t] = q /\ snd'[t].at = "scan"
    <3>1. allocLock[q] = t <=> ProcOf[t] = q /\ snd[t].at = "scan"
      BY <1>4 DEF LocksHeld
    <3>2. allocLock \in [Procs -> Senders \union {None}]
      BY <1>4 DEF NetTypeOK
    <3>3. q # p => allocLock'[q] = allocLock[q]
      BY <1>2, <1>3, <3>2
    <3>4. allocLock'[p] = IF ~goOn /\ s \in Immediate THEN None ELSE s
      BY <1>2, <1>3, <3>2
    <3>5. CASE t = s
      <4>1. q = p => ((allocLock'[q] = t) <=> x.at = "scan")
        BY <1>4, <1>15, <3>4, <3>5
      <4>. QED BY <1>1, <1>2, <1>17, <3>1, <3>3, <3>5, <4>1
    <3>6. CASE t # s
      <4>1. q = p => allocLock'[q] # t
        BY <1>4, <3>4, <3>6
      <4>2. q = p => ~(ProcOf[t] = q /\ snd[t].at = "scan")
        BY <1>3, <3>6
      <4>. QED BY <1>17, <3>1, <3>3, <3>6, <4>1, <4>2
    <3>. QED BY <3>5, <3>6
  <2>. QED BY <1>17, <2>1 DEF LocksHeld
<1>20. ASSUME NEW b \in Addr PROVE BlockSound(st2, order, b)'
  <2> HIDE DEF S2
  <2>1. PICK S, st : S = S2 /\ st = st2
    OBVIOUS
  <2>2. CASE b[1] # p
    <3>1. region'[b[1]] = region[b[1]] /\ inUse'[b] = inUse[b]
      BY <1>2, <1>7, <2>2 DEF Addr
    <3>2. (Used(order, b)' <=> Used(order, b)) /\ UsedAlone(order, b)'
      BY <1>17
    <3>3. BlockSound(st, order, b)'
      BY <1>3, <2>1, <2>2, <3>1, <3>2, OtherBlocks
    <3>. QED BY <2>1, <3>3
  <2>3. CASE b[1] = p
    <3>1. PICK j \in Page : b = <<p, j>> /\ b[2] = j /\ j \in Nat
      BY <2>3, AddrPage
    <3>2. CASE j = k
      <4>1. k \in S2 /\ region'[p].length[k] = l
        BY <1>3, <1>6, <1>7 DEF MergedStarts, S2
      <4>2. k \in st2[p]
        BY <1>3, <1>4, <4>1
      <4>3. BlockSound(starts, order, b)
        BY SoundFacts
      <4> HIDE DEF st2
      <4>. QED BY <1>2, <1>3, <1>5, <1>17, <2>3, <3>1, <3>2, <4>1, <4>2, <4>3 DEF BlockSound
    <3>3. CASE k < j /\ j < e
      <4>1. ~Used(order, b)
        BY <1>5, <2>3, <3>1, <3>3, SoundFacts DEF BlockSound
      <4>2. j \notin S2
        BY <1>3, <1>5, <3>1, <3>3 DEF MergedStarts, S2
      <4>3. j \notin st2[p]
        BY <1>3, <1>4, <4>2
      <4> HIDE DEF st2
      <4>. QED BY <1>17, <2>3, <3>1, <4>1, <4>3 DEF BlockSound
    <3>4. CASE j # k /\ ~(k < j /\ j < e)
      <4>1. j < k \/ e <= j
        BY <1>3, <1>5, <3>1, <3>4
      <4>2. j \in S2 <=> j \in starts[p]
        BY <1>3, <1>5, <3>1, <4>1 DEF MergedStarts, S2
      <4>3. region'[p].length[j] = region[p].length[j] /\ inUse'[b] = inUse[b]
        BY <1>2, <1>6, <1>7, <3>4
      <4>4. BlockSound(st, order, b)'
        BY <1>3, <1>17, <2>1, <2>3, <3>1, <4>2, <4>3, OtherBlocks
      <4>. QED BY <2>1, <4>4
    <3>. QED BY <3>2, <3>3, <3>4
  <2>. QED BY <2>2, <2>3
<1>21. /\ st2 \in [Procs -> SUBSET (0..PageCount)]
       /\ st2[p] = S2 /\ \A q \in Procs : q # p => st2[q] = starts[q]
  BY <1>3, <1>4, <1>9
<1>22. ASSUME NEW q \in Procs
       PROVE  Cuts(region'[q].length, st2[q]) /\ region'[q].next \in st2[q]
  <2> HIDE DEF st2
  <2>. QED BY <1>7, <1>8, <1>11, <1>21, SoundFacts
<1>23. ASSUME NEW t \in Senders, snd'[t].at = "scan"
       PROVE  ScanSound(st2, t)'
  <2> HIDE DEF st2, S2
  <2>1. CASE t # s
    <3>1. snd'[t] = snd[t]
      BY <1>17, <2>1
    <3>2. ProcOf[t] # p /\ ProcOf[t] \in Procs
      BY <1>3, <1>4, <1>23, <2>1, <3>1, SndFacts
    <3>. QED BY <1>7, <1>21, <1>23, <3>1, <3>2, SoundFacts DEF ScanSound
  <2>2. CASE t = s
    <3>1. x.at = "scan" /\ ProcOf[t] = p /\ snd'[t] = x
      BY <1>1, <1>17, <1>23, <2>2
    <3>2. CASE goOn
      <4>1. /\ x.curr = w /\ x.remain = snd[s].remain - l
            /\ region'[p].next = first
        BY <1>7, <1>15, <3>1, <3>2
      <4>2. snd[s].remain - l = first - w + (IF w >= first THEN PageCount ELSE 0)
        <5>1. CASE e = PageCount
          <6>1. w = 0 /\ k >= first
            BY <1>4, <1>10, <1>13, <3>2, <5>1, PageNat, PageFacts
          <6>2. first # 0
            BY <1>3, <1>4, <1>5, <1>14, <3>2, <5>1, <6>1, PageNat
          <6>. QED BY <1>3, <1>4, <1>5, <5>1, <6>1, <6>2, PageNat
        <5>2. CASE e # PageCount
          <6>1. w = e
            BY <1>13, <5>2
          <6>. QED BY <1>3, <1>4, <1>5, <1>10, <3>2, <6>1, PageNat
        <5>. QED BY <5>1, <5>2
      <4>. QED BY <1>13, <1>21, <3>1, <4>1, <4>2 DEF ScanSound
    <3>3. CASE ~goOn
      <4>1. x.curr = w /\ x.remain = PageCount /\ region'[p].next = w
        BY <1>7, <1>12, <1>15, <3>1, <3>3
      <4>2. PageCount = w - w + PageCount /\ w >= w
        BY <1>13, PageNat
      <4>. QED BY <1>13, <1>21, <3>1, <4>1, <4>2 DEF ScanSound
    <3>. QED BY <3>2, <3>3
  <2>. QED BY <2>1, <2>2
<1> HIDE DEF st2
<1>24. PICK st : st = st2
  OBVIOUS
<1>25. order \in [Procs -> Seq(Addr)]
  BY DEF Sound
<1>26. Consistent(st, order)'
  BY <1>17, <1>20, <1>22, <1>23, <1>24 DEF Consistent
<1>27. Sound(st, order)'
  BY <1>18, <1>19, <1>21, <1>24, <1>25, <1>26 DEF Sound
<1>. QED BY <1>27

-----------------------------------------------------------------------------
(***************************************************************************)
(* Memory is freed.                                                        *)
(***************************************************************************)
LEMMA Freed ==
  ASSUME NEW starts, NEW order, Sound(starts, order), NEW a \in Addr,
         inUse' = [inUse EXCEPT ![a] = FALSE], ~Used(order, a)', UsedAlone(order, a)',
         UNCHANGED <<region, link>>,
         \A b \in Addr : b # a =>
           /\ SendersOf(b)' = SendersOf(b) /\ ReadersOf(b)' = ReadersOf(b)
           /\ \A t \in SendersOf(b) : snd'[t].at = "fill" <=> snd[t].at = "fill"
  PROVE  \A b \in Addr : BlockSound(starts, order, b)'
<1>1. NetTypeOK
  BY SoundFacts
<1>2. inUse'[a] = FALSE /\ \A b \in Addr : b # a => inUse'[b] = inUse[b]
  BY <1>1 DEF NetTypeOK
<1>3. BlockSound(starts, order, a)'
  BY <1>2 DEF BlockSound
<1>4. ASSUME NEW b \in Addr, b # a PROVE BlockSound(starts, order, b)'
  <2>1. BlockSound(starts, order, b)
    BY SoundFacts
  <2>2. (Used(order, b)' <=> Used(order, b)) /\ (UsedAlone(order, b) => UsedAlone(order, b)')
    BY <1>4, UsedSame
  <2>. QED BY <1>2, <1>4, <2>1, <2>2 DEF BlockSound
<1>. QED BY <1>3, <1>4

LEMMA CancelStep ==
  ASSUME NEW starts, NEW order, Sound(starts, order),
         NEW s \in Senders, ampshm_cancel(s)
  PROVE  Sound(starts, order)'
<1>1. PICK a, x : a = snd[s].buf /\ x = [at |-> "idle"]
  OBVIOUS
<1>2. /\ snd[s].at = "fill" /\ inUse' = [inUse EXCEPT ![a] = FALSE]
      /\ snd' = [snd EXCEPT ![s] = x]
      /\ UNCHANGED <<region, link, queue, allocLock, dequeueLock, rcv>>
  BY <1>1 DEF ampshm_cancel
<1>3. NetTypeOK /\ LocksHeld /\ a \in Addr /\ x \in SenderStates /\ x.at = "idle"
  BY <1>1, <1>2, SoundFacts, SndFacts, SenderForms
<1>4. /\ snd' \in [Senders -> SenderStates] /\ snd'[s] = x
      /\ \A t \in Senders : t # s => snd'[t] = snd[t]
  BY <1>2, <1>3, SndChange
<1>5. SendersOf(a) = {s} /\ ReadersOf(a) = {} /\ QueuesOf(order, a) = {}
  <2>1. UsedAlone(order, a) /\ s \in SendersOf(a)
    BY <1>1, <1>2, <1>3, SoundFacts DEF BlockSound, SendersOf
  <2>. QED BY <1>2, <2>1 DEF UsedAlone
<1>6. SendersOf(a)' = {} /\ ReadersOf(a)' = {}
  BY <1>2, <1>3, <1>4, <1>5 DEF SendersOf, ReadersOf
<1>7. ~Used(order, a)' /\ UsedAlone(order, a)'
  BY <1>5, <1>6 DEF Used, UsedAlone, QueuesOf
<1>8. ASSUME NEW b \in Addr, b # a
      PROVE  /\ SendersOf(b)' = SendersOf(b) /\ ReadersOf(b)' = ReadersOf(b)
             /\ \A t \in SendersOf(b) : snd'[t].at = "fill" <=> snd[t].at = "fill"
  BY <1>1, <1>2, <1>3, <1>4, <1>8 DEF SendersOf, ReadersOf
<1>9. \A b \in Addr : BlockSound(starts, order, b)'
  BY <1>2, <1>3, <1>7, <1>8, Freed
<1>10. ASSUME NEW q \in Procs PROVE Holds(q, order[q])'
  <2>1. Linking(q)' = Linking(q) /\ \A t \in Linking(q) : snd'[t] = snd[t]
    BY <1>2, <1>3, <1>4 DEF Linking
  <2>2. Holds(q, order[q])
    BY SoundFacts
  <2>. QED BY <1>2, <2>1, <2>2, HoldsSame
<1>11. NetTypeOK' /\ LocksHeld'
  <2>1. inUse' \in [Addr -> BOOLEAN]
    BY <1>2, <1>3 DEF NetTypeOK
  <2>2. NetTypeOK'
    BY <1>2, <1>3, <1>4, <2>1 DEF NetTypeOK
  <2>3. \A t \in Senders : snd'[t].at = "scan" <=> snd[t].at = "scan"
    BY <1>2, <1>3, <1>4
  <2>4. \A q \in Procs : Dequeuing(q)' = Dequeuing(q)
    BY <1>2 DEF Dequeuing
  <2>5. LocksHeld'
    BY <1>2, <1>3, <2>3, <2>4 DEF LocksHeld
  <2>. QED BY <2>2, <2>5
<1>12. \A t \in Senders : snd'[t].at = "scan" => ScanSound(starts, t)'
  BY <1>2, <1>3, <1>4, SoundFacts DEF ScanSound
<1>. QED BY <1>2, <1>9, <1>10, <1>11, <1>12 DEF Sound, Consistent

LEMMA ReleaseStep ==
  ASSUME NEW starts, NEW order, Sound(starts, order),
         NEW r \in Receivers, recv_release(r)
  PROVE  Sound(starts, order)'
<1>1. PICK a, x : a = rcv[r].buf /\ x = [at |-> "idle"]
  OBVIOUS
<1>2. /\ rcv[r].at = "handler" /\ inUse' = [inUse EXCEPT ![a] = FALSE]
      /\ rcv' = [rcv EXCEPT ![r] = x]
      /\ UNCHANGED <<region, link, queue, allocLock, dequeueLock, snd>>
  BY <1>1 DEF recv_release
<1>3. NetTypeOK /\ LocksHeld /\ a \in Addr /\ x \in ReceiverStates /\ x.at = "idle"
  BY <1>1, <1>2, SoundFacts, RcvFacts, ReceiverForms
<1>4. /\ rcv' \in [Receivers -> ReceiverStates] /\ rcv'[r] = x
      /\ \A t \in Receivers : t # r => rcv'[t] = rcv[t]
  BY <1>2, <1>3, RcvChange
<1>5. SendersOf(a) = {} /\ ReadersOf(a) = {r} /\ QueuesOf(order, a) = {}
  <2>1. UsedAlone(order, a) /\ r \in ReadersOf(a)
    BY <1>1, <1>2, <1>3, SoundFacts DEF BlockSound, ReadersOf
  <2>. QED BY <2>1 DEF UsedAlone
<1>6. SendersOf(a)' = {} /\ ReadersOf(a)' = {}
  BY <1>2, <1>3, <1>4, <1>5 DEF SendersOf, ReadersOf
<1>7. ~Used(order, a)' /\ UsedAlone(order, a)'
  BY <1>5, <1>6 DEF Used, UsedAlone, QueuesOf
<1>8. ASSUME NEW b \in Addr, b # a
      PROVE  /\ SendersOf(b)' = SendersOf(b) /\ ReadersOf(b)' = ReadersOf(b)
             /\ \A t \in SendersOf(b) : snd'[t].at = "fill" <=> snd[t].at = "fill"
  BY <1>1, <1>2, <1>3, <1>4, <1>8 DEF SendersOf, ReadersOf
<1>9. \A b \in Addr : BlockSound(starts, order, b)'
  BY <1>2, <1>3, <1>7, <1>8, Freed
<1>10. \A q \in Procs : Dequeuing(q)' = Dequeuing(q) /\ \A t \in Dequeuing(q) : rcv'[t] = rcv[t]
  BY <1>2, <1>3, <1>4 DEF Dequeuing
<1>11. ASSUME NEW q \in Procs PROVE Holds(q, order[q])'
  <2>1. Linking(q)' = Linking(q) /\ \A t \in Linking(q) : snd'[t] = snd[t]
    BY <1>2 DEF Linking
  <2>2. Holds(q, order[q])
    BY SoundFacts
  <2>. QED BY <1>2, <1>10, <2>1, <2>2, HoldsKept
<1>12. NetTypeOK' /\ LocksHeld'
  <2>1. inUse' \in [Addr -> BOOLEAN]
    BY <1>2, <1>3 DEF NetTypeOK
  <2>2. NetTypeOK'
    BY <1>2, <1>3, <1>4, <2>1 DEF NetTypeOK
  <2>3. LocksHeld'
    BY <1>2, <1>3, <1>10 DEF LocksHeld
  <2>. QED BY <2>2, <2>3
<1>13. \A t \in Senders : snd'[t].at = "scan" => ScanSound(starts, t)'
  BY <1>2, SoundFacts DEF ScanSound
<1>. QED BY <1>2, <1>9, <1>11, <1>12, <1>13 DEF Sound, Consistent

-----------------------------------------------------------------------------
(***************************************************************************)
(* Delivery.                                                               *)
(***************************************************************************)
\* A block whose use does not change while queues do.
LEMMA BlockKept ==
  ASSUME NEW starts, NEW order, NEW order2, NEW a \in Addr, BlockSound(starts, order, a),
         UNCHANGED <<region, inUse>>,
         QueuesOf(order2, a) = QueuesOf(order, a),
         SendersOf(a)' = SendersOf(a), ReadersOf(a)' = ReadersOf(a),
         \A s \in SendersOf(a) : snd'[s].at = "fill" <=> snd[s].at = "fill",
         (\E s \in SendersOf(a) : snd[s].at = "fill") => link'[a] = link[a]
  PROVE  BlockSound(starts, order2, a)'
<1>1. QueuesOf(order2, a)' = QueuesOf(order2, a)
  BY DEF QueuesOf
<1>2. Used(order2, a)' <=> Used(order, a)
  BY <1>1 DEF Used
<1>3. UsedAlone(order2, a)'
  BY <1>1 DEF UsedAlone, BlockSound
<1>. QED BY <1>2, <1>3 DEF BlockSound

\* The list with one more message at its end.
LEMMA AppendFacts ==
  ASSUME NEW list \in Seq(Addr), IsInjective(list), NEW a \in Addr, a \notin ToSet(list)
  PROVE  /\ Append(list, a) \in Seq(Addr) /\ Len(Append(list, a)) = Len(list) + 1
         /\ \A k \in 1..Len(list) : Append(list, a)[k] = list[k] /\ list[k] # a
         /\ Append(list, a)[Len(list) + 1] = a
         /\ IsInjective(Append(list, a))
         /\ ToSet(Append(list, a)) = ToSet(list) \union {a}
<1>1. /\ Append(list, a) \in Seq(Addr) /\ Len(Append(list, a)) = Len(list) + 1
      /\ \A k \in 1..Len(list) : Append(list, a)[k] = list[k]
      /\ Append(list, a)[Len(list) + 1] = a
      /\ Len(list) \in Nat
      /\ DOMAIN Append(list, a) = 1..(Len(list) + 1) /\ DOMAIN list = 1..Len(list)
  OBVIOUS
<1>2. \A k \in 1..Len(list) : list[k] # a
  BY <1>1 DEF ToSet
<1>3. \A k \in 1..(Len(list) + 1) : k \in 1..Len(list) \/ k = Len(list) + 1
  BY <1>1
<1>4. IsInjective(Append(list, a))
  BY <1>1, <1>2, <1>3 DEF IsInjective
<1>5. ToSet(Append(list, a)) = ToSet(list) \union {a}
  <2>1. Len(list) + 1 \in 1..(Len(list) + 1) /\ 1..Len(list) \subseteq 1..(Len(list) + 1)
    BY <1>1
  <2>. QED BY <1>1, <1>3, <2>1 DEF ToSet
<1>. QED BY <1>1, <1>2, <1>4, <1>5

\* A message joins the end of a queue, not linked yet.
LEMMA Joined ==
  ASSUME LocksHeld, NEW p \in Procs, NEW list, Holds(p, list),
         NEW a \in Addr, a \notin ToSet(list), link[a] = NetNull,
         NEW s \in Senders, s \notin Linking(p),
         snd'[s].at = "link", snd'[s].to = p, snd'[s].buf = a, snd'[s].prev = queue[p].tail,
         \A t \in Senders : t # s => snd'[t] = snd[t],
         queue'[p] = [queue[p] EXCEPT !.tail = a],
         queue[p] \in [tail : Link, head : Link, shead : Link],
         UNCHANGED <<link, rcv>>
  PROVE  Holds(p, Append(list, a))'
<1>1. PICK list2, n : list2 = Append(list, a) /\ n = Len(list)
  OBVIOUS
<1>2. /\ n \in Nat /\ list \in Seq(Addr) /\ n = Len(list)
      /\ \A k \in Nat : Visible(p, list, k) => k <= n
      /\ list2 \in Seq(Addr) /\ Len(list2) = n + 1
      /\ \A k \in 1..n : list2[k] = list[k] /\ list[k] # a
      /\ list2[n + 1] = a
      /\ IsInjective(list2)
  BY <1>1, HoldsFacts, AppendFacts DEF Holds
<1>3. queue'[p].tail = a /\ queue'[p].head = queue[p].head /\ queue'[p].shead = queue[p].shead
  OBVIOUS
<1>4. Linking(p)' = Linking(p) \union {s}
  BY DEF Linking
<1>5. Dequeuing(p)' = Dequeuing(p) /\ (Parted(p)' <=> Parted(p)) /\ (Clearing(p)' <=> Clearing(p))
  BY DEF Dequeuing, Parted, Clearing
<1>6. ASSUME NEW k \in Nat, k >= 1 PROVE Visible(p, list2, k)' <=> Visible(p, list, k)
  <2>1. CASE k <= n
    <3>1. list2[k] = list[k] /\ list[k] # a
      BY <1>2, <1>6, <2>1
    <3>2. (\A t \in Linking(p)' : snd'[t].buf # list2[k]) <=> \A t \in Linking(p) : snd[t].buf # list[k]
      <4>1. \A t \in Linking(p) : t # s /\ snd'[t] = snd[t]
        BY DEF Linking
      <4>2. snd'[s].buf # list2[k]
        BY <3>1
      <4>. QED BY <1>4, <3>1, <4>1, <4>2
    <3>3. k <= Len(list) /\ k <= Len(list2)
      BY <1>2, <2>1
    <3>. QED BY <3>2, <3>3 DEF Visible
  <2>2. CASE k = n + 1
    BY <1>2, <1>4, <2>2 DEF Visible
  <2>3. CASE k > n + 1
    BY <1>2, <2>3 DEF Visible
  <2>. QED BY <1>2, <2>1, <2>2, <2>3
<1>7. ASSUME NEW k \in 1..(n + 1) PROVE TailAt(p, list2, k)' = TailAt(p, list, k)
  <2>1. k # 1 => k - 1 \in 1..n
    BY <1>2
  <2>. QED BY <1>2, <1>5, <2>1 DEF TailAt
<1>8. Parted(p) => n >= 1
  <2>1. Parted(p) => queue[p].shead # NetNull
    BY DEF Parted, Holds
  <2>2. queue[p].shead # NetNull => Visible(p, list, 1)
    BY DEF Holds
  <2>. QED BY <1>2, <2>1, <2>2
<1>9. TailAt(p, list2, Len(list2) + 1)' = a
  <2>1. /\ Len(list2) + 1 # 1 /\ (Len(list2) + 1) - 1 = n + 1
        /\ n >= 1 => Len(list2) + 1 # 2
    BY <1>2
  <2>. QED BY <1>2, <1>5, <1>8, <2>1 DEF TailAt
<1>10. ASSUME NEW t \in Linking(p)'
       PROVE  \E k \in 1..Len(list2) :
                snd'[t].buf = list2[k] /\ snd'[t].prev = TailAt(p, list2, k)'
  <2>1. CASE t = s
    <3>1. n + 1 \in 1..Len(list2) /\ queue[p].tail = TailAt(p, list, n + 1)
      BY <1>2 DEF Holds
    <3>. QED BY <1>2, <1>7, <2>1, <3>1
  <2>2. CASE t # s
    <3>1. t \in Linking(p) /\ snd'[t] = snd[t]
      BY <1>4, <1>10, <2>2 DEF Linking
    <3>2. PICK k \in 1..n : snd[t].buf = list[k] /\ snd[t].prev = TailAt(p, list, k)
      BY <1>2, <3>1 DEF Holds
    <3>3. k \in 1..(n + 1)
      BY <1>2
    <3>. QED BY <1>2, <1>7, <3>1, <3>2, <3>3
  <2>. QED BY <2>1, <2>2
<1>11. ASSUME NEW k \in 1..Len(list2)
       PROVE  link'[list2[k]] = IF Visible(p, list2, k + 1)' /\ ~(k = 1 /\ Parted(p)')
                                THEN list2[k + 1] ELSE NetNull
  <2>1. k \in Nat /\ k + 1 \in Nat /\ k + 1 >= 1 /\ (k \in 1..n \/ k = n + 1)
    BY <1>2
  <2>2. CASE k \in 1..n
    <3>1. link[list[k]] = IF Visible(p, list, k + 1) /\ ~(k = 1 /\ Parted(p))
                          THEN list[k + 1] ELSE NetNull
      BY <1>2, <2>2 DEF Holds
    <3>2. Visible(p, list, k + 1) => k + 1 \in 1..n
      BY <1>2, <2>1
    <3>. QED BY <1>2, <1>5, <1>6, <2>1, <2>2, <3>1, <3>2
  <2>3. CASE k = n + 1
    <3>1. ~Visible(p, list, k + 1)
      BY <1>2, <2>1, <2>3
    <3>. QED BY <1>2, <1>6, <2>1, <2>3, <3>1
  <2>. QED BY <2>1, <2>2, <2>3
<1>12. /\ Visible(p, list2, 1)' <=> Visible(p, list, 1)
       /\ Visible(p, list2, 2)' <=> Visible(p, list, 2)
       /\ Visible(p, list, 1) => list2[1] = list[1]
       /\ Visible(p, list, 2) => list2[2] = list[2]
  <2>1. /\ Visible(p, list, 1) => 1 \in 1..n
        /\ Visible(p, list, 2) => 2 \in 1..n
    BY <1>2
  <2>. QED BY <1>2, <1>6, <2>1
<1>13. queue'[p].shead = NetNull =>
         /\ queue'[p].head = IF Visible(p, list2, 1)' THEN list2[1] ELSE NetNull
         /\ Dequeuing(p)' = {}
  BY <1>3, <1>5, <1>12 DEF Holds
<1>14. queue'[p].shead # NetNull =>
         /\ Visible(p, list2, 1)' /\ queue'[p].shead = list2[1]
         /\ queue'[p].head = IF Clearing(p)' THEN list2[1]
                             ELSE IF Parted(p)' /\ Visible(p, list2, 2)' THEN list2[2]
                             ELSE NetNull
  BY <1>3, <1>5, <1>12 DEF Holds
<1>15. ASSUME NEW r \in Dequeuing(p)'
       PROVE  /\ rcv'[r].at # "clear" => rcv'[r].buf = list2[1]
              /\ rcv'[r].at = "take" /\ rcv'[r].next # NetNull =>
                   Visible(p, list2, 2)' /\ rcv'[r].next = list2[2]
  <2>1. r \in Dequeuing(p) /\ rcv'[r] = rcv[r]
    BY <1>5
  <2>2. Visible(p, list, 1)
    BY <2>1 DEF Holds
  <2>. QED BY <1>12, <2>1, <2>2 DEF Holds
<1> HIDE DEF Linking, Dequeuing, Parted, Clearing, Visible, TailAt
<1>16. Holds(p, list2)'
  BY <1>2, <1>3, <1>9, <1>10, <1>11, <1>13, <1>14, <1>15 DEF Holds
<1>. QED BY <1>1, <1>16

LEMMA SwapStep ==
  ASSUME NEW starts, NEW order, Sound(starts, order),
         NEW s \in Senders, deliver_swap(s),
         NEW p, NEW a, p = snd[s].to, a = snd[s].buf
  PROVE  Sound(starts, [order EXCEPT ![p] = Append(@, a)])'
<1>1. PICK x, list, order2 :
        /\ x = [at |-> "link", buf |-> a, to |-> p, prev |-> queue[p].tail]
        /\ list = Append(order[p], a)
        /\ order2 = [order EXCEPT ![p] = list]
  OBVIOUS
<1>2. /\ snd[s].at = "fill"
      /\ queue' = [queue EXCEPT ![p].tail = a]
      /\ snd' = [snd EXCEPT ![s] = x]
      /\ UNCHANGED <<region, inUse, link, allocLock, dequeueLock, rcv>>
  BY <1>1 DEF deliver_swap
<1>3. /\ NetTypeOK /\ LocksHeld /\ a \in Addr /\ p \in Procs
      /\ queue \in [Procs -> [tail : Link, head : Link, shead : Link]]
      /\ Holds(p, order[p]) /\ order \in [Procs -> Seq(Addr)]
  BY <1>1, <1>2, SoundFacts, SndFacts DEF Sound, NetTypeOK
<1>4. /\ x \in SenderStates /\ x.at = "link" /\ x.buf = a /\ x.to = p
      /\ x.prev = queue[p].tail
  <2>1. queue[p].tail \in Link
    BY <1>3
  <2>. QED BY <1>1, <1>3, <2>1, SenderForms
<1>5. /\ snd' \in [Senders -> SenderStates] /\ snd'[s] = x
      /\ \A t \in Senders : t # s => snd'[t] = snd[t]
  BY <1>2, <1>3, <1>4, SndChange
<1>6. SendersOf(a) = {s} /\ ReadersOf(a) = {} /\ QueuesOf(order, a) = {} /\ link[a] = NetNull
  <2>1. UsedAlone(order, a) /\ s \in SendersOf(a)
    BY <1>1, <1>2, <1>3, SoundFacts DEF BlockSound, SendersOf
  <2>. QED BY <1>2, <2>1 DEF UsedAlone
<1>7. a \notin ToSet(order[p]) /\ IsInjective(order[p])
  BY <1>3, <1>6 DEF QueuesOf, Holds
<1>8. list \in Seq(Addr) /\ ToSet(list) = ToSet(order[p]) \union {a}
  BY <1>1, <1>3, <1>7, AppendFacts
<1>9. /\ order2 \in [Procs -> Seq(Addr)] /\ order2[p] = list
      /\ \A q \in Procs : q # p => order2[q] = order[q]
      /\ \A b \in Addr : b # a => QueuesOf(order2, b) = QueuesOf(order, b)
  <2>1. /\ order2 \in [Procs -> Seq(Addr)] /\ order2[p] = list
        /\ \A q \in Procs : q # p => order2[q] = order[q]
    BY <1>1, <1>3, <1>8
  <2>2. ASSUME NEW b \in Addr, b # a PROVE QueuesOf(order2, b) = QueuesOf(order, b)
    <3>1. b \in ToSet(order2[p]) <=> b \in ToSet(order[p])
      BY <1>8, <2>1, <2>2
    <3>2. \A q \in Procs : b \in ToSet(order2[q]) <=> b \in ToSet(order[q])
      BY <2>1, <3>1
    <3>. QED BY <3>2 DEF QueuesOf
  <2>. QED BY <2>1, <2>2
<1>10. Holds(p, order2[p])'
  <2>1. /\ queue'[p] = [queue[p] EXCEPT !.tail = a]
        /\ queue[p] \in [tail : Link, head : Link, shead : Link]
    BY <1>2, <1>3
  <2>2. s \notin Linking(p)
    BY <1>2 DEF Linking
  <2>3. Holds(p, Append(order[p], a))'
    BY <1>2, <1>3, <1>4, <1>5, <1>6, <1>7, <2>1, <2>2, Joined
  <2>. QED BY <1>1, <1>9, <2>3
<1>11. ASSUME NEW q \in Procs, q # p PROVE Holds(q, order2[q])'
  <2>1. Linking(q)' = Linking(q) /\ \A t \in Linking(q) : snd'[t] = snd[t]
    BY <1>2, <1>4, <1>5, <1>11 DEF Linking
  <2>2. Holds(q, order2[q])
    BY <1>9, <1>11, SoundFacts
  <2>3. queue'[q] = queue[q]
    BY <1>2, <1>3, <1>11
  <2>. QED BY <1>2, <2>1, <2>2, <2>3, HoldsSame
<1>12. ASSUME NEW b \in Addr PROVE BlockSound(starts, order2, b)'
  <2>1. BlockSound(starts, order, b) /\ ReadersOf(b)' = ReadersOf(b)
    BY <1>2, SoundFacts DEF ReadersOf
  <2>2. CASE b # a
    <3>1. SendersOf(b)' = SendersOf(b) /\ \A t \in SendersOf(b) : snd'[t] = snd[t]
      BY <1>1, <1>2, <1>4, <1>5, <2>2 DEF SendersOf
    <3>. QED BY <1>2, <1>9, <2>1, <2>2, <3>1, BlockKept
  <2>3. CASE b = a
    <3>1. SendersOf(a)' = {s} /\ ReadersOf(a)' = {}
      BY <1>2, <1>4, <1>5, <1>6 DEF SendersOf, ReadersOf
    <3>2. QueuesOf(order2, a)' = {p}
      BY <1>6, <1>8, <1>9, <1>3 DEF QueuesOf
    <3>3. Used(order2, a)' /\ Used(order, a)
      BY <1>6, <3>1 DEF Used
    <3>4. UsedAlone(order2, a)'
      BY <1>4, <1>5, <3>1, <3>2 DEF UsedAlone
    <3>. QED BY <1>2, <2>1, <2>3, <3>3, <3>4 DEF BlockSound
  <2>. QED BY <2>2, <2>3
<1>13. NetTypeOK' /\ LocksHeld'
  <2>1. queue' \in [Procs -> [tail : Link, head : Link, shead : Link]]
    <3>1. a \in Link
      BY <1>3 DEF Link
    <3>2. queue' = [queue EXCEPT ![p].tail = a]
          /\ queue \in [Procs -> [tail : Link, head : Link, shead : Link]]
      BY <1>2, <1>3
    <3>. QED BY <3>1, <3>2
  <2>2. NetTypeOK'
    BY <1>2, <1>3, <1>5, <2>1 DEF NetTypeOK
  <2>3. \A t \in Senders : snd'[t].at = "scan" <=> snd[t].at = "scan"
    BY <1>2, <1>4, <1>5
  <2>4. \A q \in Procs : Dequeuing(q)' = Dequeuing(q)
    BY <1>2 DEF Dequeuing
  <2>5. LocksHeld'
    BY <1>2, <1>3, <2>3, <2>4 DEF LocksHeld
  <2>. QED BY <2>2, <2>5
<1>14. \A t \in Senders : snd'[t].at = "scan" => ScanSound(starts, t)'
  BY <1>2, <1>4, <1>5, SoundFacts DEF ScanSound
<1>15. \A q \in Procs : Cuts(region'[q].length, starts[q]) /\ region'[q].next \in starts[q]
  BY <1>2, SoundFacts
<1>16. Consistent(starts, order2)'
  BY <1>10, <1>11, <1>12, <1>14, <1>15 DEF Consistent
<1>17. Sound(starts, order2)'
  BY <1>9, <1>13, <1>16 DEF Sound
<1>18. order2 = [order EXCEPT ![p] = Append(@, a)]
  BY <1>1, <1>3
<1>. QED BY <1>17, <1>18

\* A message is linked to the one before it, or made the head.
LEMMA GetsLinked ==
  ASSUME LocksHeld, NEW p \in Procs, NEW list, Holds(p, list),
         NEW s \in Linking(p), \A t \in Linking(p) : snd[t].buf = snd[s].buf => t = s,
         Linking(p)' = Linking(p) \ {s}, \A t \in Linking(p)' : snd'[t] = snd[t],
         queue[p] \in [tail : Link, head : Link, shead : Link],
         queue'[p] = IF snd[s].prev = NetNull THEN [queue[p] EXCEPT !.head = snd[s].buf]
                     ELSE queue[p],
         \A b \in Addr : link'[b] = IF b = snd[s].prev THEN snd[s].buf ELSE link[b],
         UNCHANGED rcv
  PROVE  Holds(p, list)'
<1>1. /\ Len(list) \in Nat /\ list \in Seq(Addr) /\ IsInjective(list)
      /\ \A j \in 1..Len(list) : list[j] \in Addr /\ list[j] # NetNull
      /\ \A i, j \in 1..Len(list) : list[i] = list[j] => i = j
      /\ \A j \in Nat : Visible(p, list, j) => j <= Len(list)
  <2>1. IsInjective(list)
    BY DEF Holds
  <2>. QED BY <2>1, HoldsFacts
<1>2. PICK k \in 1..Len(list) : snd[s].buf = list[k] /\ snd[s].prev = TailAt(p, list, k)
  BY DEF Holds
<1>3. /\ Dequeuing(p)' = Dequeuing(p) /\ (Parted(p)' <=> Parted(p))
      /\ (Clearing(p)' <=> Clearing(p)) /\ (Parted(p) => ~Clearing(p))
  BY PartedNotClearing DEF Dequeuing, Parted, Clearing
<1>4. \A j \in Nat : TailAt(p, list, j)' = TailAt(p, list, j)
  BY <1>3 DEF TailAt
<1>5. Visible(p, list, k)' /\ ~Visible(p, list, k)
  BY <1>1, <1>2 DEF Visible
<1>6. \A j \in Nat : j >= 1 /\ j # k => (Visible(p, list, j)' <=> Visible(p, list, j))
  <2> SUFFICES ASSUME NEW j \in Nat, j >= 1, j # k
               PROVE  Visible(p, list, j)' <=> Visible(p, list, j)
    OBVIOUS
  <2>1. CASE j <= Len(list)
    <3>1. list[j] # snd[s].buf
      BY <1>1, <1>2, <2>1
    <3>. QED BY <2>1, <3>1 DEF Visible
  <2>2. CASE ~(j <= Len(list))
    BY <2>2 DEF Visible
  <2>. QED BY <2>1, <2>2
<1>7. k \in Nat /\ k >= 1 /\ k + 1 \in Nat /\ (k # 1 => k - 1 \in 1..Len(list))
  BY <1>1
<1>8. snd[s].prev = NetNull <=> k = 1 \/ (k = 2 /\ Parted(p))
  BY <1>1, <1>2, <1>7 DEF TailAt
<1>9. snd[s].prev # NetNull => snd[s].prev = list[k - 1]
  BY <1>2, <1>8 DEF TailAt
<1>10. /\ queue'[p].tail = queue[p].tail /\ queue'[p].shead = queue[p].shead
       /\ queue'[p].head = IF snd[s].prev = NetNull THEN list[k] ELSE queue[p].head
  BY <1>2
<1>11. ASSUME NEW t \in Linking(p)'
       PROVE  \E j \in 1..Len(list) :
                snd'[t].buf = list[j] /\ snd'[t].prev = TailAt(p, list, j)'
  <2>1. t \in Linking(p) /\ snd'[t] = snd[t]
    BY <1>11
  <2>2. PICK j \in 1..Len(list) : snd[t].buf = list[j] /\ snd[t].prev = TailAt(p, list, j)
    BY <2>1 DEF Holds
  <2>3. j \in Nat
    BY <1>1
  <2>. QED BY <1>4, <2>1, <2>2, <2>3
<1>12. ASSUME NEW j \in 1..Len(list)
       PROVE  link'[list[j]] = IF Visible(p, list, j + 1)' /\ ~(j = 1 /\ Parted(p)')
                               THEN list[j + 1] ELSE NetNull
  <2>1. /\ j \in Nat /\ j + 1 \in Nat /\ j + 1 >= 1 /\ (j + 1 = k <=> j = k - 1)
        /\ link[list[j]] = IF Visible(p, list, j + 1) /\ ~(j = 1 /\ Parted(p))
                           THEN list[j + 1] ELSE NetNull
    <3>1. link[list[j]] = IF Visible(p, list, j + 1) /\ ~(j = 1 /\ Parted(p))
                          THEN list[j + 1] ELSE NetNull
      BY DEF Holds
    <3>2. j \in Nat /\ j + 1 \in Nat /\ j + 1 >= 1 /\ (j + 1 = k <=> j = k - 1)
      BY <1>1
    <3>. QED BY <3>1, <3>2
  <2>2. CASE j + 1 # k
    <3>1. list[j] # snd[s].prev
      <4>1. snd[s].prev # NetNull => k - 1 \in 1..Len(list) /\ list[j] # list[k - 1]
        BY <1>1, <1>7, <1>8, <2>1, <2>2
      <4>. QED BY <1>1, <1>9, <4>1
    <3>2. link'[list[j]] = link[list[j]]
      BY <1>1, <3>1
    <3>. QED BY <1>3, <1>6, <2>1, <2>2, <3>2
  <2>3. CASE j + 1 = k /\ snd[s].prev # NetNull
    <3>1. link'[list[j]] = list[k] /\ ~(j = 1 /\ Parted(p))
      <4>1. list[j] = snd[s].prev
        BY <1>9, <2>1, <2>3
      <4>2. j = 1 => k = 2
        BY <2>3
      <4>. QED BY <1>1, <1>2, <1>8, <2>3, <4>1, <4>2
    <3>. QED BY <1>3, <1>5, <2>3, <3>1
  <2>4. CASE j + 1 = k /\ snd[s].prev = NetNull
    <3>1. j = 1 /\ Parted(p)
      BY <1>8, <2>1, <2>4
    <3>. QED BY <1>1, <1>3, <2>1, <2>4, <3>1
  <2>. QED BY <2>2, <2>3, <2>4
<1>13. queue'[p].shead = NetNull =>
         /\ queue'[p].head = IF Visible(p, list, 1)' THEN list[1] ELSE NetNull
         /\ Dequeuing(p)' = {}
  <2> SUFFICES ASSUME queue[p].shead = NetNull
               PROVE  /\ queue'[p].head = IF Visible(p, list, 1)' THEN list[1] ELSE NetNull
                      /\ Dequeuing(p)' = {}
    BY <1>10
  <2>1. /\ queue[p].head = IF Visible(p, list, 1) THEN list[1] ELSE NetNull
        /\ Dequeuing(p) = {} /\ ~Parted(p)
    BY DEF Holds, Parted
  <2>2. CASE k = 1
    BY <1>3, <1>5, <1>8, <1>10, <2>1, <2>2
  <2>3. CASE k # 1
    BY <1>3, <1>6, <1>8, <1>10, <2>1, <2>3
  <2>. QED BY <2>2, <2>3
<1>14. queue'[p].shead # NetNull =>
         /\ Visible(p, list, 1)' /\ queue'[p].shead = list[1]
         /\ queue'[p].head = IF Clearing(p)' THEN list[1]
                             ELSE IF Parted(p)' /\ Visible(p, list, 2)' THEN list[2]
                             ELSE NetNull
  <2> SUFFICES ASSUME queue[p].shead # NetNull
               PROVE  /\ Visible(p, list, 1)' /\ queue'[p].shead = list[1]
                      /\ queue'[p].head = IF Clearing(p)' THEN list[1]
                                          ELSE IF Parted(p)' /\ Visible(p, list, 2)' THEN list[2]
                                          ELSE NetNull
    BY <1>10
  <2>1. /\ Visible(p, list, 1) /\ queue[p].shead = list[1]
        /\ queue[p].head = IF Clearing(p) THEN list[1]
                           ELSE IF Parted(p) /\ Visible(p, list, 2) THEN list[2]
                           ELSE NetNull
    BY DEF Holds
  <2>2. k # 1 /\ 1 \in Nat /\ 2 \in Nat
    BY <1>5, <2>1
  <2>3. CASE k = 2 /\ Parted(p)
    BY <1>3, <1>5, <1>6, <1>8, <1>10, <2>1, <2>2, <2>3
  <2>4. CASE ~(k = 2 /\ Parted(p))
    <3>1. Parted(p) => (Visible(p, list, 2)' <=> Visible(p, list, 2))
      BY <1>6, <2>2, <2>4
    <3>. QED BY <1>3, <1>6, <1>8, <1>10, <2>1, <2>2, <2>4, <3>1
  <2>. QED BY <2>3, <2>4
<1>15. ASSUME NEW r \in Dequeuing(p)'
       PROVE  /\ rcv'[r].at # "clear" => rcv'[r].buf = list[1]
              /\ rcv'[r].at = "take" /\ rcv'[r].next # NetNull =>
                   Visible(p, list, 2)' /\ rcv'[r].next = list[2]
  <2>1. r \in Dequeuing(p) /\ rcv'[r] = rcv[r]
    BY <1>3
  <2>2. Visible(p, list, 2) => Visible(p, list, 2)'
    BY <1>5, <1>6
  <2>. QED BY <2>1, <2>2 DEF Holds
<1>16. queue'[p].tail = TailAt(p, list, Len(list) + 1)'
  <2>1. Len(list) + 1 \in Nat
    BY <1>1
  <2>. QED BY <1>4, <1>10, <2>1 DEF Holds
<1> HIDE DEF Linking, Dequeuing, Parted, Clearing, Visible, TailAt
<1>. QED BY <1>1, <1>11, <1>12, <1>13, <1>14, <1>15, <1>16 DEF Holds

LEMMA LinkStep ==
  ASSUME NEW starts, NEW order, Sound(starts, order),
         NEW s \in Senders, deliver_link(s)
  PROVE  Sound(starts, order)'
<1>1. PICK p, a, prev, x :
        /\ p = snd[s].to /\ a = snd[s].buf /\ prev = snd[s].prev /\ x = [at |-> "idle"]
  OBVIOUS
<1>2. /\ snd[s].at = "link"
      /\ IF prev # NetNull THEN link' = [link EXCEPT ![prev] = a] /\ queue' = queue
         ELSE queue' = [queue EXCEPT ![p].head = a] /\ link' = link
      /\ snd' = [snd EXCEPT ![s] = x]
      /\ UNCHANGED <<region, inUse, allocLock, dequeueLock, rcv>>
  BY <1>1 DEF deliver_link
<1>3. /\ NetTypeOK /\ LocksHeld /\ a \in Addr /\ p \in Procs /\ prev \in Link
      /\ queue \in [Procs -> [tail : Link, head : Link, shead : Link]]
      /\ link \in [Addr -> Link]
      /\ Holds(p, order[p]) /\ x \in SenderStates /\ x.at = "idle"
  BY <1>1, <1>2, SoundFacts, SndFacts, SenderForms DEF NetTypeOK
<1>4. /\ snd' \in [Senders -> SenderStates] /\ snd'[s] = x
      /\ \A t \in Senders : t # s => snd'[t] = snd[t]
  BY <1>2, <1>3, SndChange
<1>5. UsedAlone(order, a) /\ SendersOf(a) = {s} /\ ReadersOf(a) = {}
  <2>1. UsedAlone(order, a) /\ s \in SendersOf(a)
    BY <1>1, <1>2, <1>3, SoundFacts DEF BlockSound, SendersOf
  <2>. QED BY <2>1 DEF UsedAlone
<1>6. s \in Linking(p)
  BY <1>1, <1>2 DEF Linking
<1>7. /\ p \in QueuesOf(order, a)
      /\ prev # NetNull => prev \in Addr /\ p \in QueuesOf(order, prev)
  <2>1. PICK k \in 1..Len(order[p]) : a = order[p][k] /\ prev = TailAt(p, order[p], k)
    BY <1>1, <1>3, <1>6 DEF Holds
  <2>2. DOMAIN order[p] = 1..Len(order[p]) /\ Len(order[p]) \in Nat
    BY <1>3, HoldsFacts
  <2>3. prev # NetNull => \E j \in 1..Len(order[p]) : prev = order[p][j]
    <3>1. k # 1 => k - 1 \in 1..Len(order[p])
      BY <2>2
    <3>. QED BY <2>1, <3>1 DEF TailAt
  <2>. QED BY <1>3, <2>1, <2>2, <2>3 DEF QueuesOf, ToSet, Link
<1>8. /\ link' \in [Addr -> Link]
      /\ \A b \in Addr : link'[b] = IF b = prev THEN a ELSE link[b]
      /\ queue' \in [Procs -> [tail : Link, head : Link, shead : Link]]
      /\ queue'[p] = IF prev = NetNull THEN [queue[p] EXCEPT !.head = a] ELSE queue[p]
      /\ \A q \in Procs : q # p => queue'[q] = queue[q]
  BY <1>2, <1>3, <1>7, NullNoBlock DEF Link
<1>9. Holds(p, order[p])'
  <2>1. \A t \in Linking(p) : snd[t].buf = snd[s].buf => t = s
    BY <1>1, <1>5 DEF Linking, SendersOf
  <2>2. Linking(p)' = Linking(p) \ {s} /\ \A t \in Linking(p)' : snd'[t] = snd[t]
    BY <1>3, <1>4 DEF Linking
  <2>3. queue[p] \in [tail : Link, head : Link, shead : Link]
    BY <1>3
  <2>4. /\ queue'[p] = IF snd[s].prev = NetNull THEN [queue[p] EXCEPT !.head = snd[s].buf]
                      ELSE queue[p]
        /\ \A b \in Addr : link'[b] = IF b = snd[s].prev THEN snd[s].buf ELSE link[b]
        /\ UNCHANGED rcv
    BY <1>1, <1>2, <1>8
  <2>. QED BY <1>3, <1>6, <2>1, <2>2, <2>3, <2>4, GetsLinked
<1>10. ASSUME NEW q \in Procs, q # p PROVE Holds(q, order[q])'
  <2>1. Linking(q)' = Linking(q) /\ \A t \in Linking(q) : snd'[t] = snd[t]
    BY <1>1, <1>2, <1>3, <1>4, <1>10 DEF Linking
  <2>2. Holds(q, order[q])
    BY SoundFacts
  <2>3. ASSUME NEW i \in 1..Len(order[q]) PROVE link'[order[q][i]] = link[order[q][i]]
    <3>1. order[q][i] \in Addr /\ q \in QueuesOf(order, order[q][i])
      BY <2>2, HoldsFacts DEF QueuesOf, ToSet
    <3>2. ASSUME order[q][i] = prev PROVE FALSE
      <4>1. prev # NetNull /\ UsedAlone(order, prev)
        BY <3>1, <3>2, NullNoBlock, SoundFacts DEF BlockSound
      <4>. QED BY <1>3, <1>7, <1>10, <3>1, <3>2, <4>1 DEF UsedAlone
    <3>. QED BY <1>8, <3>1, <3>2
  <2>. QED BY <1>2, <1>8, <1>10, <2>1, <2>2, <2>3, HoldsSame
<1>11. ASSUME NEW b \in Addr PROVE BlockSound(starts, order, b)'
  <2>1. BlockSound(starts, order, b) /\ ReadersOf(b)' = ReadersOf(b)
        /\ QueuesOf(order, b)' = QueuesOf(order, b)
    BY <1>2, SoundFacts DEF ReadersOf, QueuesOf
  <2>2. CASE b # a
    <3>1. SendersOf(b)' = SendersOf(b) /\ \A t \in SendersOf(b) : snd'[t] = snd[t]
      BY <1>1, <1>2, <1>3, <1>4, <2>2 DEF SendersOf
    <3>2. (\E t \in SendersOf(b) : snd[t].at = "fill") => link'[b] = link[b]
      <4>1. b = prev => p \in QueuesOf(order, b)
        BY <1>7, NullNoBlock
      <4>2. (\E t \in SendersOf(b) : snd[t].at = "fill") => QueuesOf(order, b) = {}
        BY <2>1 DEF BlockSound, UsedAlone
      <4>. QED BY <1>8, <4>1, <4>2
    <3>. QED BY <1>2, <2>1, <3>1, <3>2, BlockKept
  <2>3. CASE b = a
    <3>1. SendersOf(a)' = {} /\ ReadersOf(a)' = {}
      BY <1>2, <1>3, <1>4, <1>5 DEF SendersOf, ReadersOf
    <3>2. Used(order, a)' /\ Used(order, a)
      BY <1>7, <2>1, <2>3 DEF Used
    <3>3. UsedAlone(order, a)'
      BY <1>5, <2>1, <2>3, <3>1 DEF UsedAlone
    <3>. QED BY <1>2, <2>1, <2>3, <3>2, <3>3 DEF BlockSound
  <2>. QED BY <2>2, <2>3
<1>12. NetTypeOK' /\ LocksHeld'
  <2>1. NetTypeOK'
    BY <1>2, <1>3, <1>4, <1>8 DEF NetTypeOK
  <2>2. \A t \in Senders : snd'[t].at = "scan" <=> snd[t].at = "scan"
    BY <1>2, <1>3, <1>4
  <2>3. \A q \in Procs : Dequeuing(q)' = Dequeuing(q)
    BY <1>2 DEF Dequeuing
  <2>4. LocksHeld'
    BY <1>2, <1>3, <2>2, <2>3 DEF LocksHeld
  <2>. QED BY <2>1, <2>4
<1>13. \A t \in Senders : snd'[t].at = "scan" => ScanSound(starts, t)'
  BY <1>2, <1>3, <1>4, SoundFacts DEF ScanSound
<1>14. \A q \in Procs : Cuts(region'[q].length, starts[q]) /\ region'[q].next \in starts[q]
  BY <1>2, SoundFacts
<1>15. order \in [Procs -> Seq(Addr)] /\ starts \in [Procs -> SUBSET (0..PageCount)]
  BY DEF Sound
<1>. QED BY <1>9, <1>10, <1>11, <1>12, <1>13, <1>14, <1>15 DEF Sound, Consistent

-----------------------------------------------------------------------------
(***************************************************************************)
(* Reception.                                                              *)
(***************************************************************************)
\* A step of one receiver that only changes its queue.
LEMMA Received ==
  ASSUME NEW starts, NEW order, Sound(starts, order),
         NEW r \in Receivers, NEW p, p = ProcOf[r], NEW x \in ReceiverStates,
         rcv' = [rcv EXCEPT ![r] = x], rcv[r].at # "handler", x.at # "handler",
         UNCHANGED <<region, inUse, link, allocLock, snd>>,
         queue' \in [Procs -> [tail : Link, head : Link, shead : Link]],
         \A q \in Procs : q # p => queue'[q] = queue[q],
         dequeueLock' = [dequeueLock EXCEPT ![p] = r],
         x.at \in {"clear", "next", "cas", "take"},
         dequeueLock[p] \in {None, r},
         Dequeuing(p)' = {r} /\ rcv'[r] = x => Holds(p, order[p])'
  PROVE  Sound(starts, order)'
<1>1. /\ NetTypeOK /\ LocksHeld /\ p \in Procs
      /\ dequeueLock \in [Procs -> Receivers \union {None}] /\ None \notin Receivers
  BY SoundFacts, PSHMNetAssumption DEF Procs, NetTypeOK
<1>2. /\ rcv' \in [Receivers -> ReceiverStates] /\ rcv'[r] = x
      /\ \A t \in Receivers : t # r => rcv'[t] = rcv[t]
  BY <1>1, RcvChange
<1>3. \A t \in Dequeuing(p) : t = r
  <2>1. \A t \in Receivers : dequeueLock[p] = t <=> t \in Dequeuing(p)
    BY <1>1 DEF LocksHeld
  <2>. QED BY <1>1, <2>1 DEF Dequeuing
<1>4. Dequeuing(p)' = {r}
  BY <1>1, <1>2, <1>3 DEF Dequeuing
<1>5. \A q \in Procs : q # p =>
        Dequeuing(q)' = Dequeuing(q) /\ \A t \in Dequeuing(q) : rcv'[t] = rcv[t]
  BY <1>2 DEF Dequeuing
<1>6. ASSUME NEW q \in Procs PROVE Holds(q, order[q])'
  <2>1. CASE q = p
    BY <1>2, <1>4, <2>1
  <2>2. CASE q # p
    <3>1. Linking(q)' = Linking(q) /\ \A t \in Linking(q) : snd'[t] = snd[t]
      BY DEF Linking
    <3>2. Holds(q, order[q]) /\ queue'[q] = queue[q]
      BY <2>2, SoundFacts
    <3>. QED BY <1>5, <2>2, <3>1, <3>2, HoldsKept
  <2>. QED BY <2>1, <2>2
<1>7. ASSUME NEW b \in Addr PROVE BlockSound(starts, order, b)'
  <2>1. SendersOf(b)' = SendersOf(b) /\ ReadersOf(b)' = ReadersOf(b)
    BY <1>2 DEF SendersOf, ReadersOf
  <2>2. BlockSound(starts, order, b)
    BY SoundFacts
  <2>. QED BY <2>1, <2>2, BlockKept
<1>8. NetTypeOK'
  <2>1. dequeueLock' \in [Procs -> Receivers \union {None}]
    BY <1>1
  <2>. QED BY <1>1, <1>2, <2>1 DEF NetTypeOK
<1>9. LocksHeld'
  <2>1. ASSUME NEW q \in Procs, NEW t \in Receivers
        PROVE  dequeueLock'[q] = t <=> t \in Dequeuing(q)'
    <3>1. CASE q = p
      BY <1>1, <1>4, <3>1
    <3>2. CASE q # p
      BY <1>1, <1>5, <3>2 DEF LocksHeld
    <3>. QED BY <3>1, <3>2
  <2>. QED BY <1>1, <2>1 DEF LocksHeld
<1>10. \A t \in Senders : snd'[t].at = "scan" => ScanSound(starts, t)'
  BY SoundFacts DEF ScanSound
<1>11. \A q \in Procs : Cuts(region'[q].length, starts[q]) /\ region'[q].next \in starts[q]
  BY SoundFacts
<1>12. order \in [Procs -> Seq(Addr)] /\ starts \in [Procs -> SUBSET (0..PageCount)]
  BY DEF Sound
<1>. QED BY <1>6, <1>7, <1>8, <1>9, <1>10, <1>11, <1>12 DEF Sound, Consistent

\* A queue whose receiver has not parted it goes on.
LEMMA GoesOn ==
  ASSUME NEW p \in Procs, NEW list, Holds(p, list), ~Parted(p),
         UNCHANGED <<link, snd>>,
         NEW r, Dequeuing(p)' = {r}, NEW x, rcv'[r] = x,
         x.at = "take" => x.next # NetNull,
         queue'[p].tail = queue[p].tail,
         Visible(p, list, 1), queue'[p].shead = list[1],
         queue'[p].head = IF x.at = "clear" THEN list[1] ELSE NetNull,
         x.at # "clear" => x.buf = list[1],
         x.at = "take" => Visible(p, list, 2) /\ x.next = list[2]
  PROVE  Holds(p, list)'
<1>1. (Clearing(p)' <=> x.at = "clear") /\ ~Parted(p)'
  BY DEF Clearing, Parted
<1>2. Linking(p)' = Linking(p)
  BY DEF Linking
<1>3. \A k \in Nat : Visible(p, list, k)' <=> Visible(p, list, k)
  BY <1>2 DEF Visible
<1>4. \A k \in Nat : TailAt(p, list, k)' = TailAt(p, list, k)
  BY <1>1 DEF TailAt
<1>5. /\ Len(list) \in Nat /\ \A k \in 1..Len(list) : k \in Nat /\ k + 1 \in Nat
      /\ Len(list) + 1 \in Nat /\ 1 \in Nat /\ 2 \in Nat /\ 1 \in 1..Len(list)
  BY HoldsFacts
<1>6. list[1] # NetNull
  BY <1>5, HoldsFacts
<1>7. \A k \in 1..Len(list) :
        link'[list[k]] = IF Visible(p, list, k + 1)' /\ ~(k = 1 /\ Parted(p)')
                         THEN list[k + 1] ELSE NetNull
  BY <1>1, <1>3, <1>5 DEF Holds
<1>8. \A t \in Linking(p)' : \E k \in 1..Len(list) :
        snd'[t].buf = list[k] /\ snd'[t].prev = TailAt(p, list, k)'
  BY <1>2, <1>4, <1>5 DEF Holds
<1> HIDE DEF Linking, Dequeuing, Parted, Clearing, Visible, TailAt
<1>. QED BY <1>1, <1>3, <1>4, <1>5, <1>6, <1>7, <1>8 DEF Holds
\* A receiver at work on its queue.
LEMMA Receiving ==
  ASSUME NEW starts, NEW order, Sound(starts, order),
         NEW r \in Receivers, rcv[r].at \in {"clear", "next", "cas", "take"},
         NEW p, p = ProcOf[r], NEW list, list = order[p]
  PROVE  /\ NetTypeOK /\ LocksHeld /\ p \in Procs /\ Holds(p, list)
         /\ queue \in [Procs -> [tail : Link, head : Link, shead : Link]]
         /\ Dequeuing(p) = {r} /\ dequeueLock[p] = r
         /\ dequeueLock = [dequeueLock EXCEPT ![p] = r]
         /\ Clearing(p) <=> rcv[r].at = "clear"
         /\ Parted(p) <=> rcv[r].at = "take" /\ rcv[r].next = NetNull
         /\ Visible(p, list, 1) /\ 1 \in 1..Len(list) /\ list[1] \in Addr
         /\ queue[p].shead = list[1]
         /\ queue[p].head = IF rcv[r].at = "clear" THEN list[1]
                            ELSE IF Parted(p) /\ Visible(p, list, 2) THEN list[2]
                            ELSE NetNull
         /\ link[list[1]] = IF Visible(p, list, 2) /\ ~Parted(p) THEN list[2] ELSE NetNull
         /\ rcv[r].at # "clear" => rcv[r].buf = list[1]
<1>1. /\ NetTypeOK /\ LocksHeld /\ p \in Procs /\ Holds(p, list)
      /\ queue \in [Procs -> [tail : Link, head : Link, shead : Link]]
      /\ dequeueLock \in [Procs -> Receivers \union {None}]
  BY SoundFacts, PSHMNetAssumption DEF Procs, NetTypeOK
<1>2. r \in Dequeuing(p)
  BY DEF Dequeuing
<1>3. dequeueLock[p] = r
  BY <1>1, <1>2 DEF LocksHeld
<1>4. Dequeuing(p) = {r}
  <2>1. \A t \in Receivers : dequeueLock[p] = t <=> t \in Dequeuing(p)
    BY <1>1 DEF LocksHeld
  <2>2. Dequeuing(p) \subseteq Receivers
    BY DEF Dequeuing
  <2>. QED BY <1>2, <1>3, <2>1, <2>2
<1>5. dequeueLock = [dequeueLock EXCEPT ![p] = r]
  BY <1>1, <1>3
<1>6. /\ Clearing(p) <=> rcv[r].at = "clear"
      /\ Parted(p) <=> rcv[r].at = "take" /\ rcv[r].next = NetNull
  BY <1>4 DEF Clearing, Parted
<1>7. /\ queue[p].shead # NetNull /\ Visible(p, list, 1) /\ queue[p].shead = list[1]
      /\ queue[p].head = IF Clearing(p) THEN list[1]
                         ELSE IF Parted(p) /\ Visible(p, list, 2) THEN list[2]
                         ELSE NetNull
      /\ rcv[r].at # "clear" => rcv[r].buf = list[1]
  BY <1>1, <1>2 DEF Holds
<1>8. 1 \in 1..Len(list) /\ list[1] \in Addr
  <2>1. 1 <= Len(list) /\ Len(list) \in Nat
    BY <1>1, <1>7, HoldsFacts DEF Visible
  <2>. QED BY <1>1, <2>1, HoldsFacts
<1>9. link[list[1]] = IF Visible(p, list, 1 + 1) /\ ~(1 = 1 /\ Parted(p))
                      THEN list[1 + 1] ELSE NetNull
  BY <1>1, <1>8 DEF Holds
<1>. QED BY <1>1, <1>3, <1>4, <1>5, <1>6, <1>7, <1>8, <1>9

LEMMA FetchStep ==
  ASSUME NEW starts, NEW order, Sound(starts, order), NEW r \in Receivers, recv_fetch(r)
  PROVE  Sound(starts, order)'
<1>1. PICK p, list : p = ProcOf[r] /\ list = order[p]
  OBVIOUS
<1>2. /\ rcv[r].at = "idle" /\ dequeueLock[p] = None
      /\ dequeueLock' = [dequeueLock EXCEPT ![p] = r]
      /\ UNCHANGED <<region, inUse, link, allocLock, snd>>
  BY <1>1 DEF recv_fetch
<1>3. /\ NetTypeOK /\ LocksHeld /\ p \in Procs /\ Holds(p, list)
      /\ queue \in [Procs -> [tail : Link, head : Link, shead : Link]]
      /\ None \notin Receivers
  BY <1>1, SoundFacts, PSHMNetAssumption DEF Procs, NetTypeOK
<1>4. Dequeuing(p) = {} /\ ~Parted(p) /\ ~Clearing(p)
  <2>1. Dequeuing(p) = {}
    BY <1>2, <1>3 DEF LocksHeld, Dequeuing
  <2>. QED BY <2>1 DEF Parted, Clearing
<1>5. CASE /\ queue[p].shead = NetNull /\ queue[p].head # NetNull
           /\ queue' = [queue EXCEPT ![p].shead = queue[p].head]
           /\ rcv' = [rcv EXCEPT ![r] = [at |-> "clear"]]
  <2>1. PICK x : x = [at |-> "clear"]
    OBVIOUS
  <2>2. x \in ReceiverStates /\ x.at = "clear"
    BY <2>1, ReceiverForms
  <2>3. Visible(p, list, 1) /\ queue[p].head = list[1]
    BY <1>3, <1>5 DEF Holds
  <2>4. /\ queue' \in [Procs -> [tail : Link, head : Link, shead : Link]]
        /\ \A q \in Procs : q # p => queue'[q] = queue[q]
        /\ queue'[p].tail = queue[p].tail /\ queue'[p].head = list[1]
        /\ queue'[p].shead = list[1]
    BY <1>3, <1>5, <2>3
  <2>5. Dequeuing(p)' = {r} /\ rcv'[r] = x => Holds(p, order[p])'
    BY <1>1, <1>2, <1>3, <1>4, <2>2, <2>3, <2>4, GoesOn
  <2>. QED BY <1>1, <1>2, <1>5, <2>1, <2>2, <2>4, <2>5, Received
<1>6. CASE /\ queue[p].shead # NetNull /\ queue' = queue
           /\ rcv' = [rcv EXCEPT ![r] = [at |-> "next", buf |-> queue[p].shead]]
  <2>1. PICK x : x = [at |-> "next", buf |-> queue[p].shead]
    OBVIOUS
  <2>2. Visible(p, list, 1) /\ queue[p].shead = list[1] /\ queue[p].head = NetNull
    BY <1>3, <1>4, <1>6 DEF Holds
  <2>3. queue[p].shead \in Addr
    BY <1>3, <1>6 DEF Link
  <2>4. x \in ReceiverStates /\ x.at = "next" /\ x.buf = list[1]
    BY <2>1, <2>2, <2>3, ReceiverForms
  <2>5. Dequeuing(p)' = {r} /\ rcv'[r] = x => Holds(p, order[p])'
    BY <1>1, <1>2, <1>3, <1>4, <1>6, <2>2, <2>4, GoesOn
  <2>. QED BY <1>1, <1>2, <1>3, <1>6, <2>1, <2>4, <2>5, Received
<1>. QED BY <1>1, <1>5, <1>6 DEF recv_fetch

LEMMA ClearStep ==
  ASSUME NEW starts, NEW order, Sound(starts, order), NEW r \in Receivers, recv_clear(r)
  PROVE  Sound(starts, order)'
<1>1. PICK p, list, x : /\ p = ProcOf[r] /\ list = order[p]
                        /\ x = [at |-> "next", buf |-> queue[p].shead]
  OBVIOUS
<1>2. /\ rcv[r].at = "clear" /\ rcv' = [rcv EXCEPT ![r] = x]
      /\ queue' = [queue EXCEPT ![p].head = NetNull]
      /\ UNCHANGED <<region, inUse, link, allocLock, dequeueLock, snd>>
  BY <1>1 DEF recv_clear
<1>3. /\ p \in Procs /\ Holds(p, list) /\ Dequeuing(p) = {r} /\ dequeueLock[p] = r
      /\ queue \in [Procs -> [tail : Link, head : Link, shead : Link]]
      /\ dequeueLock = [dequeueLock EXCEPT ![p] = r] /\ ~Parted(p)
      /\ Visible(p, list, 1) /\ list[1] \in Addr /\ queue[p].shead = list[1]
  <2>1. rcv[r].at \in {"clear", "next", "cas", "take"} /\ p = ProcOf[r] /\ list = order[p]
    BY <1>1, <1>2
  <2>2. rcv[r].at = "clear"
    BY <1>2
  <2>. QED BY <2>1, <2>2, Receiving
<1>4. x \in ReceiverStates /\ x.at = "next" /\ x.buf = list[1]
  BY <1>1, <1>3, ReceiverForms
<1>5. /\ queue' \in [Procs -> [tail : Link, head : Link, shead : Link]]
      /\ \A q \in Procs : q # p => queue'[q] = queue[q]
      /\ queue'[p].tail = queue[p].tail /\ queue'[p].head = NetNull
      /\ queue'[p].shead = list[1]
  BY <1>2, <1>3 DEF Link
<1>6. Dequeuing(p)' = {r} /\ rcv'[r] = x => Holds(p, order[p])'
  BY <1>1, <1>2, <1>3, <1>4, <1>5, GoesOn
<1>7. /\ rcv[r].at # "handler" /\ x.at \in {"clear", "next", "cas", "take"}
      /\ dequeueLock' = [dequeueLock EXCEPT ![p] = r] /\ dequeueLock[p] \in {None, r}
  BY <1>2, <1>3, <1>4
<1>8. p = ProcOf[r] /\ x \in ReceiverStates /\ rcv' = [rcv EXCEPT ![r] = x]
      /\ UNCHANGED <<region, inUse, link, allocLock, snd>>
  BY <1>1, <1>2, <1>4
<1>9. /\ queue' \in [Procs -> [tail : Link, head : Link, shead : Link]]
      /\ \A q \in Procs : q # p => queue'[q] = queue[q]
  BY <1>5
<1>. QED BY <1>6, <1>7, <1>8, <1>9, Received

LEMMA NextStep ==
  ASSUME NEW starts, NEW order, Sound(starts, order), NEW r \in Receivers, recv_next(r)
  PROVE  Sound(starts, order)'
<1>1. PICK p, list, a : p = ProcOf[r] /\ list = order[p] /\ a = rcv[r].buf
  OBVIOUS
<1>2. PICK x : x = IF link[a] # NetNull THEN [at |-> "take", buf |-> a, next |-> link[a]]
                   ELSE [at |-> "cas", buf |-> a]
  OBVIOUS
<1>3. /\ rcv[r].at = "next" /\ rcv' = [rcv EXCEPT ![r] = x]
      /\ UNCHANGED <<region, inUse, link, queue, allocLock, dequeueLock, snd>>
  BY <1>1, <1>2 DEF recv_next
<1>4. /\ p \in Procs /\ Holds(p, list) /\ Dequeuing(p) = {r} /\ dequeueLock[p] = r
      /\ queue \in [Procs -> [tail : Link, head : Link, shead : Link]]
      /\ dequeueLock = [dequeueLock EXCEPT ![p] = r] /\ ~Parted(p)
      /\ Visible(p, list, 1) /\ list[1] \in Addr /\ queue[p].shead = list[1]
      /\ queue[p].head = NetNull /\ a = list[1] /\ NetTypeOK
      /\ link[a] = IF Visible(p, list, 2) THEN list[2] ELSE NetNull
  <2>1. /\ rcv[r].at \in {"clear", "next", "cas", "take"} /\ p = ProcOf[r] /\ list = order[p]
        /\ rcv[r].at = "next" /\ a = rcv[r].buf
    BY <1>1, <1>3
  <2>. QED BY <2>1, Receiving
<1>5. link[a] \in Link
  BY <1>4 DEF NetTypeOK
<1>6. /\ x \in ReceiverStates /\ x.at \in {"cas", "take"} /\ x.buf = list[1]
      /\ x.at = "take" => x.next # NetNull /\ Visible(p, list, 2) /\ x.next = list[2]
  <2>1. CASE link[a] # NetNull
    BY <1>2, <1>4, <1>5, <2>1, ReceiverForms
  <2>2. CASE link[a] = NetNull
    BY <1>2, <1>4, <2>2, ReceiverForms
  <2>. QED BY <2>1, <2>2
<1>7. Dequeuing(p)' = {r} /\ rcv'[r] = x => Holds(p, order[p])'
  BY <1>1, <1>3, <1>4, <1>6, GoesOn
<1>8. /\ rcv[r].at # "handler" /\ x.at \in {"clear", "next", "cas", "take"}
      /\ dequeueLock' = [dequeueLock EXCEPT ![p] = r] /\ dequeueLock[p] \in {None, r}
      /\ queue' \in [Procs -> [tail : Link, head : Link, shead : Link]]
      /\ \A q \in Procs : q # p => queue'[q] = queue[q]
  BY <1>3, <1>4, <1>6
<1>9. p = ProcOf[r] /\ x \in ReceiverStates /\ rcv' = [rcv EXCEPT ![r] = x]
      /\ UNCHANGED <<region, inUse, link, allocLock, snd>>
  BY <1>1, <1>3, <1>6
<1>. QED BY <1>7, <1>8, <1>9, Received

\* The receiver takes the only message off its list.
LEMMA Parts ==
  ASSUME NEW p \in Procs, NEW list, Holds(p, list), ~Parted(p),
         UNCHANGED <<link, snd>>,
         NEW r, Dequeuing(p)' = {r}, NEW x, rcv'[r] = x,
         x.at = "take", x.next = NetNull, x.buf = list[1],
         Visible(p, list, 1), queue[p].tail = list[1],
         queue'[p].tail = NetNull,
         queue'[p].shead = list[1], queue'[p].head = NetNull
  PROVE  Holds(p, list)'
<1>1. /\ Len(list) \in Nat /\ 1 \in 1..Len(list) /\ list \in Seq(Addr)
      /\ \A k \in 1..Len(list) : list[k] \in Addr /\ list[k] # NetNull
      /\ \A j, k \in 1..Len(list) : list[j] = list[k] => j = k
  <2>1. 1 <= Len(list)
    BY DEF Visible
  <2>. QED BY <2>1, HoldsFacts
<1>2. Len(list) = 1
  <2>1. list[1] = TailAt(p, list, Len(list) + 1)
    BY DEF Holds
  <2>2. Len(list) + 1 # 1 /\ (Len(list) + 1) - 1 = Len(list) /\ Len(list) \in 1..Len(list)
    BY <1>1
  <2>3. list[1] = list[Len(list)]
    BY <2>1, <2>2 DEF TailAt
  <2>. QED BY <1>1, <2>2, <2>3
<1>3. Linking(p) = {}
  <2>1. ASSUME NEW s \in Linking(p) PROVE FALSE
    <3>1. PICK k \in 1..Len(list) : snd[s].buf = list[k]
      BY DEF Holds
    <3>2. k = 1
      BY <1>2
    <3>. QED BY <3>1, <3>2 DEF Visible
  <2>. QED BY <2>1
<1>4. Linking(p)' = {} /\ Parted(p)' /\ ~Clearing(p)'
  BY <1>3 DEF Linking, Parted, Clearing
<1>5. Visible(p, list, 1)' /\ ~Visible(p, list, 2)' /\ ~Visible(p, list, 2)
  BY <1>1, <1>2, <1>4 DEF Visible
<1>6. queue'[p].tail = TailAt(p, list, Len(list) + 1)'
  BY <1>2, <1>4 DEF TailAt
<1>7. ASSUME NEW k \in 1..Len(list)
      PROVE  link'[list[k]] = IF Visible(p, list, k + 1)' /\ ~(k = 1 /\ Parted(p)')
                              THEN list[k + 1] ELSE NetNull
  <2>1. k = 1 /\ k + 1 = 2
    BY <1>2
  <2>2. link[list[k]] = IF Visible(p, list, k + 1) /\ ~(k = 1 /\ Parted(p))
                        THEN list[k + 1] ELSE NetNull
    BY DEF Holds
  <2>. QED BY <1>5, <2>1, <2>2
<1> HIDE DEF Linking, Dequeuing, Parted, Clearing, Visible, TailAt
<1>8. list[1] # NetNull /\ list \in Seq(Addr) /\ IsInjective(list)
  BY <1>1 DEF Holds
<1>. QED BY <1>4, <1>5, <1>6, <1>7, <1>8 DEF Holds

LEMMA CasStep ==
  ASSUME NEW starts, NEW order, Sound(starts, order), NEW r \in Receivers, recv_cas(r)
  PROVE  Sound(starts, order)'
<1>1. PICK p, list, a : p = ProcOf[r] /\ list = order[p] /\ a = rcv[r].buf
  OBVIOUS
<1>2. PICK x : x = IF queue[p].tail = a THEN [at |-> "take", buf |-> a, next |-> NetNull]
                   ELSE [at |-> "next", buf |-> a]
  OBVIOUS
<1>3. /\ rcv[r].at = "cas" /\ rcv' = [rcv EXCEPT ![r] = x]
      /\ IF queue[p].tail = a THEN queue' = [queue EXCEPT ![p].tail = NetNull]
         ELSE queue' = queue
      /\ UNCHANGED <<region, inUse, link, allocLock, dequeueLock, snd>>
  BY <1>1, <1>2 DEF recv_cas
<1>4. /\ p \in Procs /\ Holds(p, list) /\ Dequeuing(p) = {r} /\ dequeueLock[p] = r
      /\ queue \in [Procs -> [tail : Link, head : Link, shead : Link]]
      /\ dequeueLock = [dequeueLock EXCEPT ![p] = r] /\ ~Parted(p)
      /\ Visible(p, list, 1) /\ list[1] \in Addr /\ queue[p].shead = list[1]
      /\ queue[p].head = NetNull /\ a = list[1]
  <2>1. /\ rcv[r].at \in {"clear", "next", "cas", "take"} /\ p = ProcOf[r] /\ list = order[p]
        /\ rcv[r].at = "cas" /\ a = rcv[r].buf
    BY <1>1, <1>3
  <2>. QED BY <2>1, Receiving
<1>5. /\ queue' \in [Procs -> [tail : Link, head : Link, shead : Link]]
      /\ \A q \in Procs : q # p => queue'[q] = queue[q]
      /\ queue'[p].shead = list[1] /\ queue'[p].head = NetNull
      /\ queue'[p].tail = IF queue[p].tail = a THEN NetNull ELSE queue[p].tail
  <2>1. CASE queue[p].tail = a
    BY <1>3, <1>4, <2>1 DEF Link
  <2>2. CASE queue[p].tail # a
    BY <1>3, <1>4, <2>2
  <2>. QED BY <2>1, <2>2
<1>6. /\ x \in ReceiverStates /\ x.at \in {"next", "take"} /\ x.buf = list[1]
      /\ x.at = "take" <=> queue[p].tail = a
      /\ x.at = "take" => x.next = NetNull
  <2>1. CASE queue[p].tail = a
    <3>1. NetNull \in Link
      BY DEF Link
    <3>. QED BY <1>2, <1>4, <2>1, <3>1, ReceiverForms
  <2>2. CASE queue[p].tail # a
    BY <1>2, <1>4, <2>2, ReceiverForms
  <2>. QED BY <2>1, <2>2
<1>7. ASSUME Dequeuing(p)' = {r}, rcv'[r] = x PROVE Holds(p, list)'
  <2>1. UNCHANGED <<link, snd>>
    BY <1>3
  <2>2. CASE queue[p].tail = a
    BY <1>4, <1>5, <1>6, <1>7, <2>1, <2>2, Parts
  <2>3. CASE queue[p].tail # a
    BY <1>4, <1>5, <1>6, <1>7, <2>1, <2>3, GoesOn
  <2>. QED BY <2>2, <2>3
<1>8. /\ rcv[r].at # "handler" /\ x.at \in {"clear", "next", "cas", "take"}
      /\ dequeueLock' = [dequeueLock EXCEPT ![p] = r] /\ dequeueLock[p] \in {None, r}
  BY <1>3, <1>4, <1>6
<1>9. p = ProcOf[r] /\ x \in ReceiverStates /\ rcv' = [rcv EXCEPT ![r] = x]
      /\ UNCHANGED <<region, inUse, link, allocLock, snd>>
  BY <1>1, <1>3, <1>6
<1>10. Dequeuing(p)' = {r} /\ rcv'[r] = x => Holds(p, order[p])'
  BY <1>1, <1>7
<1>11. /\ queue' \in [Procs -> [tail : Link, head : Link, shead : Link]]
       /\ \A q \in Procs : q # p => queue'[q] = queue[q]
  BY <1>5
<1>. QED BY <1>8, <1>9, <1>10, <1>11, Received

\* The list without its first message.
LEMMA TailFacts ==
  ASSUME NEW list \in Seq(Addr), IsInjective(list), 1 \in 1..Len(list)
  PROVE  /\ Tail(list) \in Seq(Addr) /\ Len(Tail(list)) = Len(list) - 1
         /\ Len(Tail(list)) \in Nat
         /\ \A k \in 1..Len(Tail(list)) : Tail(list)[k] = list[k + 1]
         /\ IsInjective(Tail(list))
         /\ ToSet(Tail(list)) = ToSet(list) \ {list[1]}
<1>1. Len(list) \in Nat /\ 1 <= Len(list) /\ list # <<>> /\ DOMAIN list = 1..Len(list)
  OBVIOUS
<1>2. /\ Tail(list) \in Seq(Addr) /\ Len(Tail(list)) = Len(list) - 1
      /\ DOMAIN Tail(list) = 1..(Len(list) - 1) /\ Len(list) - 1 \in Nat
      /\ \A k \in 1..(Len(list) - 1) : Tail(list)[k] = list[k + 1]
  BY <1>1
<1>3. \A k \in 1..(Len(list) - 1) : k \in Nat /\ k + 1 \in 1..Len(list) /\ k + 1 # 1
  BY <1>1
<1>4. \A j, k \in 1..Len(list) : list[j] = list[k] => j = k
  BY <1>1 DEF IsInjective
<1>5. ASSUME NEW j \in 1..(Len(list) - 1), NEW k \in 1..(Len(list) - 1),
             Tail(list)[j] = Tail(list)[k]
      PROVE  j = k
  <2>1. j + 1 = k + 1
    BY <1>2, <1>3, <1>4, <1>5
  <2>. QED BY <1>3, <2>1
<1>6. IsInjective(Tail(list))
  BY <1>2, <1>5 DEF IsInjective
<1>7. ToSet(list) = {list[k] : k \in 1..Len(list)}
      /\ ToSet(Tail(list)) = {list[k + 1] : k \in 1..(Len(list) - 1)}
  BY <1>1, <1>2 DEF ToSet
<1>8. \A k \in 1..Len(list) : k # 1 => k - 1 \in 1..(Len(list) - 1) /\ (k - 1) + 1 = k
  BY <1>1
<1>9. ToSet(Tail(list)) = ToSet(list) \ {list[1]}
  <2>1. ASSUME NEW b \in ToSet(Tail(list)) PROVE b \in ToSet(list) /\ b # list[1]
    <3>1. PICK k \in 1..(Len(list) - 1) : b = list[k + 1]
      BY <1>7
    <3>. QED BY <1>3, <1>4, <1>7, <3>1
  <2>2. ASSUME NEW b \in ToSet(list), b # list[1] PROVE b \in ToSet(Tail(list))
    <3>1. PICK k \in 1..Len(list) : b = list[k]
      BY <1>7
    <3>2. k - 1 \in 1..(Len(list) - 1) /\ (k - 1) + 1 = k
      BY <1>8, <2>2, <3>1
    <3>. QED BY <1>7, <3>1, <3>2
  <2>. QED BY <2>1, <2>2
<1>. QED BY <1>2, <1>6, <1>9

\* The receiver moves its queue's first message away.
LEMMA Removed ==
  ASSUME NEW p \in Procs, NEW list, Holds(p, list), UNCHANGED <<link, snd>>,
         NEW b, NEW list2, list2 = Tail(list),
         Parted(p) <=> b = NetNull,
         b # NetNull => Visible(p, list, 2) /\ b = list[2],
         Visible(p, list, 1), Dequeuing(p)' = {},
         queue[p].head = IF b = NetNull /\ Visible(p, list, 2) THEN list[2] ELSE NetNull,
         queue'[p].tail = queue[p].tail, queue'[p].head = queue[p].head,
         queue'[p].shead = b
  PROVE  Holds(p, list2)'
<1>1. /\ Len(list) \in Nat /\ 1 \in 1..Len(list) /\ list \in Seq(Addr) /\ IsInjective(list)
      /\ \A k \in 1..Len(list) : list[k] \in Addr /\ list[k] # NetNull
      /\ \A j, k \in 1..Len(list) : list[j] = list[k] => j = k
      /\ \A k \in Nat : Visible(p, list, k) => k <= Len(list)
  <2>1. 1 <= Len(list)
    BY DEF Visible
  <2>. QED BY <2>1, HoldsFacts DEF Holds
<1>2. PICK n \in Nat : n = Len(list)
  BY <1>1
<1>3. /\ list2 \in Seq(Addr) /\ IsInjective(list2) /\ Len(list2) = n - 1 /\ n - 1 \in Nat
      /\ \A k \in 1..(n - 1) : list2[k] = list[k + 1]
  BY <1>1, <1>2, TailFacts
<1>4. Linking(p)' = Linking(p) /\ ~Parted(p)' /\ ~Clearing(p)'
  BY DEF Linking, Parted, Clearing
<1>5. ASSUME NEW k \in Nat, k >= 1 PROVE Visible(p, list2, k)' <=> Visible(p, list, k + 1)
  <2>1. k <= n - 1 <=> k + 1 <= n
    BY <1>2
  <2>2. k <= n - 1 => list2[k] = list[k + 1]
    BY <1>2, <1>3, <1>5
  <2>. QED BY <1>2, <1>3, <1>4, <2>1, <2>2 DEF Visible
<1>6. ~Parted(p) => n >= 2
  BY <1>1, <1>2
<1>7. ASSUME NEW k \in 1..n, k # 1 \/ Parted(p)
      PROVE  TailAt(p, list2, k)' = TailAt(p, list, k + 1)
  <2>1. CASE k = 1
    BY <1>4, <1>7, <2>1 DEF TailAt
  <2>2. CASE k # 1
    <3>1. k - 1 \in 1..(n - 1) /\ (k - 1) + 1 = k /\ k + 1 # 1 /\ k + 1 # 2 /\ (k + 1) - 1 = k
      BY <1>2, <1>7, <2>2
    <3>2. list2[k - 1] = list[k]
      BY <1>3, <3>1
    <3>3. TailAt(p, list, k + 1) = list[k]
      BY <3>1 DEF TailAt
    <3>4. TailAt(p, list2, k)' = list2[k - 1]
      BY <1>4, <2>2 DEF TailAt
    <3>. QED BY <3>2, <3>3, <3>4
  <2>. QED BY <2>1, <2>2
<1>8. queue'[p].tail = TailAt(p, list2, Len(list2) + 1)'
  <2>1. n \in 1..n /\ (n # 1 \/ Parted(p)) /\ Len(list2) + 1 = n
    BY <1>1, <1>2, <1>3, <1>6
  <2>2. queue[p].tail = TailAt(p, list, n + 1)
    BY <1>2 DEF Holds
  <2>. QED BY <1>7, <2>1, <2>2
<1>9. ASSUME NEW s \in Linking(p)'
      PROVE  \E k \in 1..Len(list2) :
               snd'[s].buf = list2[k] /\ snd'[s].prev = TailAt(p, list2, k)'
  <2>1. s \in Linking(p) /\ snd'[s] = snd[s]
    BY <1>4, <1>9
  <2>2. PICK k \in 1..n : snd[s].buf = list[k] /\ snd[s].prev = TailAt(p, list, k)
    BY <1>2, <2>1 DEF Holds
  <2>3. k # 1 /\ (~Parted(p) => k # 2)
    BY <2>1, <2>2 DEF Visible
  <2>4. k - 1 \in 1..(n - 1) /\ k - 1 \in 1..n /\ (k - 1) + 1 = k /\ (k # 2 => k - 1 # 1)
    BY <1>2, <2>2, <2>3
  <2>5. TailAt(p, list2, k - 1)' = TailAt(p, list, k) /\ list2[k - 1] = list[k]
    BY <1>3, <1>7, <2>3, <2>4
  <2>. QED BY <1>3, <2>1, <2>2, <2>4, <2>5
<1>10. ASSUME NEW k \in 1..Len(list2)
       PROVE  link'[list2[k]] = IF Visible(p, list2, k + 1)' /\ ~(k = 1 /\ Parted(p)')
                                THEN list2[k + 1] ELSE NetNull
  <2>1. /\ k \in 1..(n - 1) /\ k + 1 \in 1..n /\ k + 1 # 1 /\ k + 1 \in Nat /\ k + 1 >= 1
        /\ (k + 1) + 1 <= n => k + 1 \in 1..(n - 1)
        /\ (k + 1) + 1 \in Nat
    BY <1>2, <1>3
  <2>2. link[list[k + 1]] = IF Visible(p, list, (k + 1) + 1) THEN list[(k + 1) + 1]
                            ELSE NetNull
    BY <1>2, <2>1 DEF Holds
  <2>3. Visible(p, list2, k + 1)' <=> Visible(p, list, (k + 1) + 1)
    BY <1>5, <2>1
  <2>4. Visible(p, list, (k + 1) + 1) => list2[k + 1] = list[(k + 1) + 1]
    BY <1>1, <1>2, <1>3, <2>1
  <2>. QED BY <1>3, <1>4, <2>1, <2>2, <2>3, <2>4
<1>11. /\ Visible(p, list2, 1)' <=> Visible(p, list, 2)
       /\ Visible(p, list, 2) => list2[1] = list[2]
  <2>1. 1 + 1 = 2 /\ 1 \in Nat /\ 1 >= 1
    OBVIOUS
  <2>2. Visible(p, list, 2) => 1 \in 1..(n - 1)
    BY <1>1, <1>2
  <2>. QED BY <1>3, <1>5, <2>1, <2>2
<1> HIDE DEF Linking, Dequeuing, Parted, Clearing, Visible, TailAt
<1>12. queue'[p].shead = NetNull =>
         /\ queue'[p].head = IF Visible(p, list2, 1)' THEN list2[1] ELSE NetNull
         /\ Dequeuing(p)' = {}
  BY <1>11
<1>13. queue'[p].shead # NetNull =>
         /\ Visible(p, list2, 1)' /\ queue'[p].shead = list2[1]
         /\ queue'[p].head = IF Clearing(p)' THEN list2[1]
                             ELSE IF Parted(p)' /\ Visible(p, list2, 2)' THEN list2[2]
                             ELSE NetNull
  BY <1>4, <1>11
<1>. QED BY <1>3, <1>8, <1>9, <1>10, <1>12, <1>13 DEF Holds

LEMMA TakeStep ==
  ASSUME NEW starts, NEW order, Sound(starts, order),
         NEW r \in Receivers, recv_take(r), NEW p, p = ProcOf[r]
  PROVE  Sound(starts, [order EXCEPT ![p] = Tail(@)])'
<1>1. PICK list, list2, a, b, x, order2 :
        /\ list = order[p] /\ list2 = Tail(list) /\ a = rcv[r].buf /\ b = rcv[r].next
        /\ x = [at |-> "handler", buf |-> a] /\ order2 = [order EXCEPT ![p] = list2]
  OBVIOUS
<1>2. /\ rcv[r].at = "take" /\ rcv' = [rcv EXCEPT ![r] = x]
      /\ queue' = [queue EXCEPT ![p].shead = b]
      /\ dequeueLock' = [dequeueLock EXCEPT ![p] = None]
      /\ UNCHANGED <<region, inUse, link, allocLock, snd>>
  BY <1>1 DEF recv_take
<1>3. /\ p \in Procs /\ Holds(p, list) /\ Dequeuing(p) = {r} /\ NetTypeOK /\ LocksHeld
      /\ queue \in [Procs -> [tail : Link, head : Link, shead : Link]]
      /\ Parted(p) <=> b = NetNull
      /\ Visible(p, list, 1) /\ 1 \in 1..Len(list) /\ list[1] \in Addr
      /\ queue[p].head = IF Parted(p) /\ Visible(p, list, 2) THEN list[2] ELSE NetNull
      /\ a = list[1]
  <2>1. /\ rcv[r].at \in {"clear", "next", "cas", "take"} /\ list = order[p]
        /\ rcv[r].at = "take"
    BY <1>1, <1>2
  <2>2. /\ p \in Procs /\ Holds(p, list) /\ Dequeuing(p) = {r} /\ NetTypeOK /\ LocksHeld
        /\ queue \in [Procs -> [tail : Link, head : Link, shead : Link]]
        /\ Parted(p) <=> rcv[r].next = NetNull
        /\ Visible(p, list, 1) /\ 1 \in 1..Len(list) /\ list[1] \in Addr
        /\ queue[p].head = IF Parted(p) /\ Visible(p, list, 2) THEN list[2] ELSE NetNull
        /\ rcv[r].buf = list[1]
    BY <2>1, Receiving
  <2>. QED BY <1>1, <2>2
<1>4. b \in Link /\ (b # NetNull => Visible(p, list, 2) /\ b = list[2])
  <2>1. r \in Dequeuing(p)
    BY <1>3
  <2>2. b # NetNull => Visible(p, list, 2) /\ b = list[2]
    BY <1>1, <1>2, <1>3, <2>1 DEF Holds
  <2>3. b \in Link
    BY <1>1, <1>2, <1>3, RcvFacts
  <2>. QED BY <2>2, <2>3
<1>5. /\ order \in [Procs -> Seq(Addr)] /\ starts \in [Procs -> SUBSET (0..PageCount)]
      /\ list \in Seq(Addr) /\ IsInjective(list)
  BY <1>3 DEF Sound, Holds
<1>6. list2 \in Seq(Addr) /\ ToSet(list2) = ToSet(list) \ {a}
  BY <1>1, <1>3, <1>5, TailFacts
<1>7. /\ order2 \in [Procs -> Seq(Addr)] /\ order2[p] = list2
      /\ \A q \in Procs : q # p => order2[q] = order[q]
  BY <1>1, <1>3, <1>5, <1>6
<1>8. x \in ReceiverStates /\ x.at = "handler" /\ x.buf = a
  BY <1>1, <1>3, ReceiverForms
<1>9. /\ rcv' \in [Receivers -> ReceiverStates] /\ rcv'[r] = x
      /\ \A t \in Receivers : t # r => rcv'[t] = rcv[t]
  BY <1>2, <1>3, <1>8, RcvChange
<1>10. /\ queue' \in [Procs -> [tail : Link, head : Link, shead : Link]]
       /\ \A q \in Procs : q # p => queue'[q] = queue[q]
       /\ queue'[p].tail = queue[p].tail /\ queue'[p].head = queue[p].head
       /\ queue'[p].shead = b
  BY <1>2, <1>3, <1>4
<1>11. Dequeuing(p)' = {}
  BY <1>3, <1>8, <1>9 DEF Dequeuing
<1>12. ASSUME NEW q \in Procs, q # p
       PROVE  Dequeuing(q)' = Dequeuing(q) /\ \A t \in Dequeuing(q) : rcv'[t] = rcv[t]
  BY <1>1, <1>9, <1>12 DEF Dequeuing
<1>13. ASSUME NEW q \in Procs PROVE Holds(q, order2[q])'
  <2>1. CASE q = p
    <3>1. UNCHANGED <<link, snd>> /\ list2 = Tail(list)
      BY <1>1, <1>2
    <3>2. queue[p].head = IF b = NetNull /\ Visible(p, list, 2) THEN list[2] ELSE NetNull
      BY <1>3
    <3>3. Holds(p, list) /\ p \in Procs /\ Visible(p, list, 1) /\ (Parted(p) <=> b = NetNull)
      BY <1>3
    <3>4. Holds(p, list2)'
      BY <1>4, <1>10, <1>11, <3>1, <3>2, <3>3, Removed
    <3>. QED BY <1>7, <2>1, <3>4
  <2>2. CASE q # p
    <3>1. Linking(q)' = Linking(q) /\ \A t \in Linking(q) : snd'[t] = snd[t]
      BY <1>2 DEF Linking
    <3>2. Holds(q, order2[q]) /\ queue'[q] = queue[q] /\ link' = link
      BY <1>2, <1>7, <1>10, <2>2, SoundFacts
    <3>. QED BY <1>12, <2>2, <3>1, <3>2, HoldsKept
  <2>. QED BY <2>1, <2>2
<1>14. /\ QueuesOf(order, a) = {p} /\ ReadersOf(a) = {} /\ SendersOf(a) = {}
       /\ Used(order, a)
  <2>1. BlockSound(starts, order, a)
    BY <1>3, SoundFacts
  <2>2. p \in QueuesOf(order, a)
    BY <1>1, <1>3, HoldsFacts DEF QueuesOf, ToSet
  <2>3. QueuesOf(order, a) = {p} /\ ReadersOf(a) = {}
    BY <2>1, <2>2 DEF BlockSound, UsedAlone
  <2>4. ASSUME NEW s \in SendersOf(a) PROVE FALSE
    <3>1. s \in Senders /\ snd[s].at = "link" /\ snd[s].buf = a
      BY <2>1, <2>2 DEF BlockSound, UsedAlone, SendersOf
    <3>2. PICK q \in Procs : q = snd[s].to
      BY <1>3, <3>1, SndFacts
    <3>3. s \in Linking(q) /\ Holds(q, order[q])
      BY <3>1, <3>2, SoundFacts DEF Linking
    <3>4. \E k \in 1..Len(order[q]) : a = order[q][k]
      BY <3>1, <3>3 DEF Holds
    <3>5. q \in QueuesOf(order, a)
      BY <3>3, <3>4, HoldsFacts DEF QueuesOf, ToSet
    <3>6. q = p
      BY <2>3, <3>5
    <3>. QED BY <1>3, <3>1, <3>3, <3>6 DEF Visible
  <2>. QED BY <2>2, <2>3, <2>4 DEF Used
<1>15. ASSUME NEW c \in Addr PROVE BlockSound(starts, order2, c)'
  <2>1. BlockSound(starts, order, c) /\ SendersOf(c)' = SendersOf(c)
    BY <1>2, SoundFacts DEF SendersOf
  <2>2. CASE c # a
    <3>1. ReadersOf(c)' = ReadersOf(c)
      BY <1>2, <1>8, <1>9, <2>2 DEF ReadersOf
    <3>2. c \in ToSet(order2[p]) <=> c \in ToSet(order[p])
      BY <1>1, <1>6, <1>7, <2>2
    <3>3. QueuesOf(order2, c) = QueuesOf(order, c)
      <4>1. \A q \in Procs : c \in ToSet(order2[q]) <=> c \in ToSet(order[q])
        BY <1>7, <3>2
      <4>. QED BY <4>1 DEF QueuesOf
    <3>. QED BY <1>2, <2>1, <3>1, <3>3, BlockKept
  <2>3. CASE c = a
    <3>1. SendersOf(a)' = {} /\ ReadersOf(a)' = {r}
      BY <1>8, <1>9, <1>14, <2>1, <2>3 DEF ReadersOf
    <3>2. QueuesOf(order2, a)' = {}
      BY <1>6, <1>7, <1>14 DEF QueuesOf
    <3>3. Used(order2, a)' /\ UsedAlone(order2, a)'
      BY <3>1, <3>2 DEF Used, UsedAlone
    <3>. QED BY <1>2, <1>14, <2>1, <2>3, <3>3 DEF BlockSound
  <2>. QED BY <2>2, <2>3
<1>16. NetTypeOK'
  <2>1. dequeueLock' \in [Procs -> Receivers \union {None}]
    BY <1>2, <1>3 DEF NetTypeOK
  <2>. QED BY <1>2, <1>3, <1>9, <1>10, <2>1 DEF NetTypeOK
<1>17. LocksHeld'
  <2>1. ASSUME NEW q \in Procs, NEW t \in Receivers
        PROVE  dequeueLock'[q] = t <=> t \in Dequeuing(q)'
    <3>1. CASE q = p
      <4>1. dequeueLock'[p] = None /\ None \notin Receivers
        BY <1>2, <1>3, PSHMNetAssumption DEF NetTypeOK
      <4>. QED BY <1>11, <3>1, <4>1
    <3>2. CASE q # p
      <4>1. dequeueLock'[q] = dequeueLock[q]
        BY <1>2, <1>3, <3>2 DEF NetTypeOK
      <4>. QED BY <1>3, <1>12, <3>2, <4>1 DEF LocksHeld
    <3>. QED BY <3>1, <3>2
  <2>. QED BY <1>2, <1>3, <2>1 DEF LocksHeld
<1>18. \A t \in Senders : snd'[t].at = "scan" => ScanSound(starts, t)'
  BY <1>2, SoundFacts DEF ScanSound
<1>19. \A q \in Procs : Cuts(region'[q].length, starts[q]) /\ region'[q].next \in starts[q]
  BY <1>2, SoundFacts
<1>20. Sound(starts, order2)'
  BY <1>5, <1>7, <1>13, <1>15, <1>16, <1>17, <1>18, <1>19 DEF Sound, Consistent
<1>21. order2 = [order EXCEPT ![p] = Tail(@)]
  BY <1>1, <1>3, <1>5
<1>. QED BY <1>20, <1>21

-----------------------------------------------------------------------------
(***************************************************************************)
(* The invariant and the allocator.                                        *)
(***************************************************************************)
LEMMA NetStutter ==
  ASSUME NEW starts, NEW order, Sound(starts, order), UNCHANGED netVars
  PROVE  Sound(starts, order)'
<1>1. UNCHANGED <<region, inUse, link, queue, allocLock, dequeueLock, snd, rcv>>
  BY DEF netVars
<1>2. NetTypeOK' /\ LocksHeld'
  <2>1. NetTypeOK'
    BY <1>1, SoundFacts DEF NetTypeOK
  <2>2. \A p \in Procs : Dequeuing(p)' = Dequeuing(p)
    BY <1>1 DEF Dequeuing
  <2>3. LocksHeld
    BY SoundFacts
  <2>4. LocksHeld'
    BY <1>1, <2>2, <2>3 DEF LocksHeld
  <2>. QED BY <2>1, <2>4
<1>3. ASSUME NEW p \in Procs PROVE Holds(p, order[p])'
  <2>1. Linking(p)' = Linking(p)
    BY <1>1 DEF Linking
  <2>2. Holds(p, order[p])
    BY SoundFacts
  <2>. QED BY <1>1, <2>1, <2>2, HoldsSame
<1>4. ASSUME NEW a \in Addr PROVE BlockSound(starts, order, a)'
  <2>1. BlockSound(starts, order, a)
    BY SoundFacts
  <2>2. SendersOf(a)' = SendersOf(a) /\ ReadersOf(a)' = ReadersOf(a)
    BY <1>1 DEF SendersOf, ReadersOf
  <2>. QED BY <1>1, <2>1, <2>2, BlockKept
<1>5. \A s \in Senders : snd'[s].at = "scan" => ScanSound(starts, s)'
  BY <1>1, SoundFacts DEF ScanSound
<1>6. \A p \in Procs : Cuts(region'[p].length, starts[p]) /\ region'[p].next \in starts[p]
  BY <1>1, SoundFacts
<1>7. order \in [Procs -> Seq(Addr)] /\ starts \in [Procs -> SUBSET (0..PageCount)]
  BY DEF Sound
<1>. QED BY <1>2, <1>3, <1>4, <1>5, <1>6, <1>7 DEF Sound, Consistent

LEMMA SoundStep ==
  ASSUME NEW starts, NEW order, Sound(starts, order), [NetNext]_netVars
  PROVE  \E st2, order2 : Sound(st2, order2)'
<1>1. CASE UNCHANGED netVars
  BY <1>1, NetStutter
<1>2. ASSUME NEW s \in Senders, ampshm_buf_alloc(s) \/ SendStep(s) \/ ampshm_cancel(s)
      PROVE  \E st2, order2 : Sound(st2, order2)'
  <2>1. CASE ampshm_buf_alloc(s)
    BY <2>1, BufAllocStep
  <2>2. CASE alloc_trylock(s)
    BY <2>2, TryLockStep
  <2>3. CASE alloc_found(s)
    BY <2>3, FoundStep
  <2>4. CASE alloc_skip(s)
    BY <2>4, SkipStep
  <2>5. CASE deliver_swap(s)
    <3>1. PICK p, a : p = snd[s].to /\ a = snd[s].buf
      OBVIOUS
    <3>2. Sound(starts, [order EXCEPT ![p] = Append(@, a)])'
      BY <2>5, <3>1, SwapStep
    <3>. QED BY <3>2
  <2>6. CASE deliver_link(s)
    BY <2>6, LinkStep
  <2>7. CASE ampshm_cancel(s)
    BY <2>7, CancelStep
  <2>. QED BY <1>2, <2>1, <2>2, <2>3, <2>4, <2>5, <2>6, <2>7 DEF SendStep
<1>3. ASSUME NEW r \in Receivers, RecvStep(r)
      PROVE  \E st2, order2 : Sound(st2, order2)'
  <2>1. CASE recv_fetch(r)
    BY <2>1, FetchStep
  <2>2. CASE recv_clear(r)
    BY <2>2, ClearStep
  <2>3. CASE recv_next(r)
    BY <2>3, NextStep
  <2>4. CASE recv_cas(r)
    BY <2>4, CasStep
  <2>5. CASE recv_take(r)
    <3>1. PICK p : p = ProcOf[r]
      OBVIOUS
    <3>2. Sound(starts, [order EXCEPT ![p] = Tail(@)])'
      BY <2>5, <3>1, TakeStep
    <3>. QED BY <3>2
  <2>6. CASE recv_release(r)
    BY <2>6, ReleaseStep
  <2>. QED BY <1>3, <2>1, <2>2, <2>3, <2>4, <2>5, <2>6 DEF RecvStep
<1>. QED BY <1>1, <1>2, <1>3 DEF NetNext

\* The allocator's region is always cut into blocks, of which exactly those in
\* use have their flag set, and the queue pointers, links and unlinked messages
\* of each process spell one list (gasnet_pshm.c: alloc, free, deliver, recv).
THEOREM NetInvariance == NetSpec => []NetInv
<1>1. NetInit => NetInv
  BY NetInitSound, SoundIsInv
<1>2. \A st2, order2 : Sound(st2, order2) => NetInv
  BY SoundIsInv
<1>3. (\A st2, order2 : Sound(st2, order2) => NetInv)'
  BY <1>2, PTL
<1>4. NetInv /\ [NetNext]_netVars => NetInv'
  <2> SUFFICES ASSUME NetInv, [NetNext]_netVars PROVE NetInv'
    OBVIOUS
  <2>1. PICK starts, order : Sound(starts, order)
    BY InvIsSound
  <2>2. PICK st2, order2 : Sound(st2, order2)'
    BY <2>1, SoundStep
  <2>. QED BY <1>3, <2>2
<1>. QED BY <1>1, <1>4, PTL DEF NetSpec

\* The blocks of the messages being filled and being handled.
Fills == {snd[s].buf : s \in {t \in Senders : snd[t].at = "fill"}}
Reads == {rcv[r].buf : r \in {t \in Receivers : rcv[t].at = "handler"}}

\* What the abstract network sees of the state.
LEMMA View ==
  ASSUME NEW starts, NEW order, Sound(starts, order)
  PROVE  /\ Filling = {Buf(a) : a \in Fills} /\ Reading = {Buf(a) : a \in Reads}
         /\ \A p \in Procs : Queued(p) = [k \in 1..Len(order[p]) |-> Buf(order[p][k])]
<1>1. Filling = {Buf(a) : a \in Fills} /\ Reading = {Buf(a) : a \in Reads}
  BY DEF Filling, Reading, Fills, Reads
<1>2. ASSUME NEW p \in Procs
      PROVE  Queued(p) = [k \in 1..Len(order[p]) |-> Buf(order[p][k])]
  <2>1. order[p] = Order(p)
    BY SoundIsInv
  <2>2. DOMAIN order[p] = 1..Len(order[p])
    BY SoundFacts
  <2>. QED BY <2>1, <2>2 DEF Queued
<1>. QED BY <1>1, <1>2

\* These are the blocks in use.
LEMMA WhoUses ==
  ASSUME NEW starts, NEW order, Sound(starts, order)
  PROVE  /\ \A a \in Fills : a \in Addr /\ Used(order, a)
         /\ \A a \in Reads : a \in Addr /\ Used(order, a)
         /\ \A p \in Procs : \A k \in 1..Len(order[p]) :
              order[p][k] \in Addr /\ Used(order, order[p][k])
         /\ \A a \in Addr : Used(order, a) =>
              a \in Fills \/ a \in Reads \/ \E p \in Procs : \E k \in 1..Len(order[p]) : a = order[p][k]
<1>1. ASSUME NEW a \in Fills PROVE a \in Addr /\ Used(order, a)
  <2>1. PICK s \in Senders : snd[s].at = "fill" /\ a = snd[s].buf
    BY DEF Fills
  <2>2. a \in Addr
    BY <2>1, SoundFacts, SndFacts
  <2>3. s \in SendersOf(a)
    BY <2>1 DEF SendersOf
  <2>. QED BY <2>2, <2>3 DEF Used
<1>2. ASSUME NEW a \in Reads PROVE a \in Addr /\ Used(order, a)
  <2>1. PICK r \in Receivers : rcv[r].at = "handler" /\ a = rcv[r].buf
    BY DEF Reads
  <2>2. a \in Addr
    BY <2>1, SoundFacts, RcvFacts
  <2>3. r \in ReadersOf(a)
    BY <2>1 DEF ReadersOf
  <2>. QED BY <2>2, <2>3 DEF Used
<1>3. ASSUME NEW p \in Procs PROVE Holds(p, order[p]) /\ DOMAIN order[p] = 1..Len(order[p])
  <2>1. Holds(p, order[p])
    BY SoundFacts
  <2>. QED BY <2>1, HoldsFacts
<1>4. ASSUME NEW p \in Procs, NEW k \in 1..Len(order[p])
      PROVE  order[p][k] \in Addr /\ Used(order, order[p][k])
  <2>1. order[p][k] \in Addr
    BY <1>3, HoldsFacts
  <2>2. p \in QueuesOf(order, order[p][k])
    BY <1>3 DEF QueuesOf, ToSet
  <2>. QED BY <2>1, <2>2 DEF Used
<1>5. ASSUME NEW a \in Addr, Used(order, a), a \notin Fills, a \notin Reads
      PROVE  \E p \in Procs : \E k \in 1..Len(order[p]) : a = order[p][k]
  <2>1. ReadersOf(a) = {}
    BY <1>5 DEF Reads, ReadersOf
  <2>2. CASE QueuesOf(order, a) # {}
    BY <1>3, <2>2 DEF QueuesOf, ToSet
  <2>3. CASE SendersOf(a) # {}
    <3>1. PICK s \in Senders : snd[s].at = "link" /\ snd[s].buf = a
      BY <1>5, <2>3 DEF SendersOf, Fills
    <3>2. PICK q \in Procs : q = snd[s].to
      BY <3>1, SoundFacts, SndFacts
    <3>3. s \in Linking(q) /\ Holds(q, order[q])
      BY <1>3, <3>1, <3>2 DEF Linking
    <3>. QED BY <3>1, <3>3 DEF Holds
  <2>. QED BY <1>5, <2>1, <2>2, <2>3 DEF Used
<1>. QED BY <1>1, <1>2, <1>4, <1>5

\* The abstract network's buffers in use are the blocks in use.
LEMMA TakenBlocks ==
  ASSUME NEW starts, NEW order, Sound(starts, order)
  PROVE  Taken = {Buf(a) : a \in {b \in Addr : Used(order, b)}}
<1> DEFINE U == {Buf(a) : a \in {b \in Addr : Used(order, b)}}
<1>1. ASSUME NEW p \in Procs PROVE ToSet(Queued(p)) = {Buf(order[p][k]) : k \in 1..Len(order[p])}
  BY View DEF ToSet
<1>2. Filling \subseteq U /\ Reading \subseteq U
  BY View, WhoUses
<1>3. ASSUME NEW p \in Procs PROVE ToSet(Queued(p)) \subseteq U
  BY <1>1, WhoUses
<1>4. ASSUME NEW a \in Addr, Used(order, a) PROVE Buf(a) \in Taken
  <2>1. CASE a \in Fills
    BY <2>1, View DEF Taken
  <2>2. CASE a \in Reads
    BY <2>2, View DEF Taken
  <2>3. CASE \E p \in Procs : \E k \in 1..Len(order[p]) : a = order[p][k]
    <3>1. PICK p \in Procs : \E k \in 1..Len(order[p]) : a = order[p][k]
      BY <2>3
    <3>2. Buf(a) \in ToSet(Queued(p))
      BY <1>1, <3>1
    <3>. QED BY <3>2 DEF Taken
  <2>. QED BY <1>4, <2>1, <2>2, <2>3, WhoUses
<1>5. Taken \subseteq U
  BY <1>2, <1>3 DEF Taken
<1>. QED BY <1>4, <1>5

LEMMA AllocatorFacts ==
  ASSUME NEW starts, NEW order, Sound(starts, order)
  PROVE  AllocatorSound
<1> SUFFICES ASSUME NEW p \in Procs, NEW S, S = Starts(region[p].length, 0),
                    NEW T, T = {a[2] : a \in {b \in Taken : b[1] = p}}
             PROVE  /\ PageCount \in S /\ region[p].next \in S
                    /\ T = {k \in S \ {PageCount} : inUse[<<p, k>>]}
  BY DEF AllocatorSound
<1>1. S = starts[p]
  BY SoundIsInv
<1>2. PageCount \in S /\ region[p].next \in S /\ S \subseteq 0..PageCount
  BY <1>1, SoundFacts DEF Cuts
<1>3. ASSUME NEW k \in T PROVE k \in S /\ k # PageCount /\ inUse[<<p, k>>]
  <2>1. PICK c \in Taken : c[1] = p /\ k = c[2]
    OBVIOUS
  <2>2. PICK a \in Addr : Used(order, a) /\ c = Buf(a)
    BY <2>1, TakenBlocks
  <2>3. a[1] = p /\ a[2] = k /\ a = <<p, k>> /\ k \in Page
    BY <2>1, <2>2 DEF Buf, Addr
  <2>4. BlockSound(starts, order, a)
    BY SoundFacts
  <2>5. k # PageCount
    BY <2>3, PageFacts
  <2>. QED BY <1>1, <2>2, <2>3, <2>4, <2>5 DEF BlockSound
<1>4. ASSUME NEW k \in S, k # PageCount, inUse[<<p, k>>] PROVE k \in T
  <2>1. k \in Page
    BY <1>2, <1>4, PageFacts
  <2>2. PICK a \in Addr : a = <<p, k>>
    BY <2>1 DEF Addr
  <2>3. a[1] = p /\ a[2] = k
    BY <2>2
  <2>4. BlockSound(starts, order, a)
    BY SoundFacts
  <2>5. Used(order, a)
    BY <1>1, <1>4, <2>2, <2>3, <2>4 DEF BlockSound
  <2>6. Buf(a) \in Taken
    BY <2>5, TakenBlocks
  <2>7. Buf(a)[1] = p /\ Buf(a)[2] = k
    BY <2>3 DEF Buf
  <2>. QED BY <2>6, <2>7
<1>. QED BY <1>2, <1>3, <1>4

\* Memory is neither lost nor handed out twice while receivers in other
\* processes free blocks that the owner scans and merges (gasneti_pshmnet_alloc,
\* gasneti_pshmnet_free).
THEOREM NetworkMemory == NetSpec => []AllocatorSound
<1>1. NetInv => AllocatorSound
  BY InvIsSound, AllocatorFacts
<1>. QED BY <1>1, NetInvariance, PTL

-----------------------------------------------------------------------------
(***************************************************************************)
(* The network implements PSHMSpec.                                        *)
(***************************************************************************)
\* Two blocks of a cut have no page in common.
LEMMA CutDisjoint ==
  ASSUME NEW len \in Lengths, NEW S, Cuts(len, S),
         NEW j \in S, j # PageCount, NEW k \in S, k # PageCount, j # k
  PROVE  (j..(j + len[j] - 1)) \intersect (k..(k + len[k] - 1)) = {}
<1>1. /\ j \in Nat /\ k \in Nat /\ len[j] \in Nat /\ len[k] \in Nat
      /\ (k <= j \/ j + len[j] <= k) /\ (j <= k \/ k + len[k] <= j)
  BY CutFacts, PageNat
<1>. QED BY <1>1

LEMMA UsedApart ==
  ASSUME NEW starts, NEW order, Sound(starts, order),
         NEW a \in Addr, Used(order, a), NEW c \in Addr, Used(order, c), a # c
  PROVE  Network!Pages(Buf(a)) \intersect Network!Pages(Buf(c)) = {}
<1>1. /\ a[1] \in Procs /\ a[2] \in starts[a[1]] /\ a[2] # PageCount
      /\ c[1] \in Procs /\ c[2] \in starts[c[1]] /\ c[2] # PageCount
      /\ a[1] # c[1] \/ a[2] # c[2]
  <2>1. BlockSound(starts, order, a) /\ BlockSound(starts, order, c)
    BY SoundFacts
  <2>2. a[1] \in Procs /\ c[1] \in Procs /\ a[2] \in Page /\ c[2] \in Page
        /\ (a[1] # c[1] \/ a[2] # c[2])
    BY DEF Addr
  <2>. QED BY <2>1, <2>2, PageFacts DEF BlockSound
<1> DEFINE Span(b) == b[2]..(b[2] + region[b[1]].length[b[2]] - 1)
<1>2. \A b : Network!Pages(Buf(b)) = {<<b[1], k>> : k \in Span(b)}
  BY DEF Network!Pages, Buf
<1>3. a[1] = c[1] => Span(a) \intersect Span(c) = {}
  <2>1. region[a[1]].length \in Lengths /\ Cuts(region[a[1]].length, starts[a[1]])
    BY <1>1, SoundFacts DEF NetTypeOK, Lengths
  <2>. QED BY <1>1, <2>1, CutDisjoint
<1> HIDE DEF Span
<1>. QED BY <1>2, <1>3

\* Buffers of different blocks differ, and those in use are the network's.
LEMMA BufFacts ==
  /\ \A a, c \in Addr : Buf(a) = Buf(c) => a = c
  /\ \A starts, order : Sound(starts, order) =>
       \A a \in Addr : Used(order, a) => Buf(a) \in {<<b[1], b[2], n>> : b \in Addr, n \in Needs}
<1>1. ASSUME NEW a \in Addr, NEW c \in Addr, Buf(a) = Buf(c) PROVE a = c
  <2>1. a[1] = c[1] /\ a[2] = c[2]
    BY <1>1 DEF Buf
  <2>. QED BY <2>1 DEF Addr
<1>2. ASSUME NEW starts, NEW order, Sound(starts, order), NEW a \in Addr, Used(order, a)
      PROVE  Buf(a) \in {<<b[1], b[2], n>> : b \in Addr, n \in Needs}
  <2>1. BlockSound(starts, order, a)
    BY <1>2, SoundFacts
  <2>. QED BY <1>2, <2>1 DEF BlockSound, Buf
<1>. QED BY <1>1, <1>2

\* The same of the state after a step.
LEMMA ViewAfter ==
  \A starts, order : Sound(starts, order)' =>
    /\ Filling' = {Buf(a)' : a \in Fills'} /\ Reading' = {Buf(a)' : a \in Reads'}
    /\ \A p \in Procs : Queued(p)' = [k \in 1..Len(order[p]) |-> Buf(order[p][k])']
<1>1. \A starts, order : Sound(starts, order) =>
        /\ Filling = {Buf(a) : a \in Fills} /\ Reading = {Buf(a) : a \in Reads}
        /\ \A p \in Procs : Queued(p) = [k \in 1..Len(order[p]) |-> Buf(order[p][k])]
  BY View
<1>2. (\A starts, order : Sound(starts, order) =>
         /\ Filling = {Buf(a) : a \in Fills} /\ Reading = {Buf(a) : a \in Reads}
         /\ \A p \in Procs : Queued(p) = [k \in 1..Len(order[p]) |-> Buf(order[p][k])])'
  BY <1>1, PTL
<1>. QED BY <1>2

LEMMA ApartAfter ==
  \A starts, order : Sound(starts, order)' =>
    \A a, c \in Addr : Used(order, a)' /\ Used(order, c)' /\ a # c =>
      Network!Pages(Buf(a)') \intersect Network!Pages(Buf(c)') = {}
<1>1. \A starts, order : Sound(starts, order) =>
        \A a, c \in Addr : Used(order, a) /\ Used(order, c) /\ a # c =>
          Network!Pages(Buf(a)) \intersect Network!Pages(Buf(c)) = {}
  BY UsedApart
<1>2. (\A starts, order : Sound(starts, order) =>
         \A a, c \in Addr : Used(order, a) /\ Used(order, c) /\ a # c =>
           Network!Pages(Buf(a)) \intersect Network!Pages(Buf(c)) = {})'
  BY <1>1, PTL
<1>. QED BY <1>2

LEMMA BufAfter ==
  /\ \A a, c \in Addr : Buf(a)' = Buf(c)' => a = c
  /\ \A starts, order : Sound(starts, order)' =>
       \A a \in Addr : Used(order, a)' => Buf(a)' \in {<<b[1], b[2], n>> : b \in Addr, n \in Needs}
<1>1. (/\ \A a, c \in Addr : Buf(a) = Buf(c) => a = c
       /\ \A starts, order : Sound(starts, order) =>
            \A a \in Addr : Used(order, a) => Buf(a) \in {<<b[1], b[2], n>> : b \in Addr, n \in Needs})'
  BY BufFacts, PTL
<1>. QED BY <1>1

\* A step that leaves the users of all blocks as they are is none of the
\* abstract network.
LEMMA ViewKept ==
  ASSUME NEW starts, NEW order, Sound(starts, order), NEW st2, Sound(st2, order)',
         \A a \in Addr : Used(order, a) => Buf(a)' = Buf(a),
         Fills' = Fills, Reads' = Reads
  PROVE  UNCHANGED Network!vars
<1>1. Filling' = Filling /\ Reading' = Reading
  <2>1. \A a \in Fills \union Reads : Buf(a)' = Buf(a)
    BY WhoUses
  <2>2. /\ Filling = {Buf(a) : a \in Fills} /\ Reading = {Buf(a) : a \in Reads}
        /\ Filling' = {Buf(a)' : a \in Fills'} /\ Reading' = {Buf(a)' : a \in Reads'}
    BY View, ViewAfter
  <2>. QED BY <2>1, <2>2
<1>2. ASSUME NEW p \in Procs PROVE Queued(p)' = Queued(p)
  BY View, ViewAfter, WhoUses
<1>. QED BY <1>1, <1>2 DEF Network!vars

LEMMA InUseBlocks ==
  ASSUME NEW starts, NEW order, Sound(starts, order), NEW b \in Network!InUse
  PROVE  \E a \in Addr : Used(order, a) /\ b = Buf(a)
<1> DEFINE Q == [p \in Procs |-> Queued(p)]
<1>1. b \in Filling \/ b \in Reading \/ \E p \in Procs : \E k \in 1..Len(Q[p]) : b = Q[p][k]
  BY DEF Network!InUse
<1>2. CASE b \in Filling
  BY <1>2, View, WhoUses
<1>3. CASE b \in Reading
  BY <1>3, View, WhoUses
<1>4. CASE \E p \in Procs : \E k \in 1..Len(Q[p]) : b = Q[p][k]
  <2>1. PICK p \in Procs : \E k \in 1..Len(Q[p]) : b = Q[p][k]
    BY <1>4
  <2>2. /\ Q[p] = [k \in 1..Len(order[p]) |-> Buf(order[p][k])]
        /\ Len(order[p]) \in Nat
    BY View, SoundFacts
  <2>3. Len(Q[p]) = Len(order[p])
    BY <2>2
  <2>4. PICK k \in 1..Len(order[p]) : b = Buf(order[p][k])
    BY <2>1, <2>2, <2>3
  <2>. QED BY <2>4, WhoUses
<1>. QED BY <1>1, <1>2, <1>3, <1>4

LEMMA FoundView ==
  ASSUME NEW starts, NEW order, Sound(starts, order),
         NEW s \in Senders, alloc_found(s)
  PROVE  Network!Next
<1>1. PICK p, k, need, l, a : /\ p = ProcOf[s] /\ k = snd[s].curr /\ need = snd[s].need
                              /\ l = Merged(p, k, need) /\ a = <<p, k>>
  OBVIOUS
<1>2. /\ snd[s].at = "scan" /\ ~inUse[a]
      /\ region' = [region EXCEPT
            ![p].next = Wrap(k + need),
            ![p].length = [j \in Page |-> IF j = k THEN need
                                          ELSE IF j = k + need /\ l > need THEN l - need
                                          ELSE @[j]]]
      /\ snd' = [snd EXCEPT ![s] = [at |-> "fill", buf |-> a, to |-> @.to]]
      /\ UNCHANGED rcv
  BY <1>1 DEF alloc_found
<1>3. /\ p \in Procs /\ k \in Nat /\ a \in Addr /\ need \in Needs /\ snd[s].to \in Procs
      /\ \A j \in starts[p] : k < j /\ j < k + l => ~inUse[<<p, j>>]
      /\ l \in 1..PageCount
  BY <1>1, <1>2, ScanFacts
<1>4. PICK st2 : Sound(st2, order)'
  BY FoundStep
<1>5. ASSUME NEW c \in Addr, Used(order, c) PROVE c # a /\ Buf(c)' = Buf(c)
  <2>1. /\ c[1] \in Procs /\ c[2] \in Page /\ c = <<c[1], c[2]>>
        /\ c[2] \in starts[c[1]] /\ inUse[c]
    BY <1>5, SoundFacts DEF Addr, BlockSound
  <2>2. c # a
    BY <1>2, <2>1
  <2>3. region'[c[1]].length[c[2]] = region[c[1]].length[c[2]]
    <3>1. region \in [Procs -> [next : Page, length : [Page -> 0..PageCount]]]
      BY SoundFacts DEF NetTypeOK
    <3>2. CASE c[1] # p
      BY <1>2, <2>1, <3>1, <3>2
    <3>3. CASE c[1] = p
      <4>1. c[2] # k
        BY <1>1, <2>1, <2>2, <3>3
      <4>2. ~(c[2] = k + need /\ l > need)
        <5>1. need \in Nat /\ need > 0 /\ l \in Nat
          BY <1>3, PageFacts
        <5>2. l > need => k < k + need /\ k + need < k + l
          BY <1>3, <5>1
        <5>3. inUse[<<p, c[2]>>] /\ c[2] \in starts[p]
          BY <2>1, <3>3
        <5>. QED BY <1>3, <5>2, <5>3
      <4>3. region'[p].length = [j \in Page |-> IF j = k THEN need
                                                ELSE IF j = k + need /\ l > need THEN l - need
                                                ELSE region[p].length[j]]
        BY <1>2, <1>3, <3>1
      <4>. QED BY <2>1, <3>3, <4>1, <4>2, <4>3
    <3>. QED BY <3>2, <3>3
  <2>. QED BY <2>2, <2>3 DEF Buf
<1>6. PICK x : x = [at |-> "fill", buf |-> a, to |-> snd[s].to]
  OBVIOUS
<1>7. x \in SenderStates /\ x.at = "fill" /\ x.buf = a
  BY <1>3, <1>6, SenderForms
<1>8. snd'[s] = x /\ \A t \in Senders : t # s => snd'[t] = snd[t]
  <2>1. NetTypeOK /\ snd' = [snd EXCEPT ![s] = x]
    BY <1>2, <1>6, SoundFacts
  <2>. QED BY <1>7, <2>1, SndChange
<1>9. Fills' = Fills \union {a} /\ Reads' = Reads
  BY <1>2, <1>7, <1>8 DEF Fills, Reads
<1>10. Used(order, a)'
  <2>1. s \in SendersOf(a)'
    BY <1>7, <1>8 DEF SendersOf
  <2>. QED BY <2>1 DEF Used
<1>11. ASSUME NEW c \in Addr, Used(order, c) PROVE Used(order, c)'
  <2>1. SendersOf(c) \subseteq SendersOf(c)'
    BY <1>2, <1>8 DEF SendersOf
  <2>2. ReadersOf(c)' = ReadersOf(c) /\ QueuesOf(order, c)' = QueuesOf(order, c)
    BY <1>2 DEF ReadersOf, QueuesOf
  <2>. QED BY <1>11, <2>1, <2>2 DEF Used
<1>12. PICK b : b = Buf(a)'
  OBVIOUS
<1>13. b \in {<<c[1], c[2], n>> : c \in Addr, n \in Needs}
  BY <1>3, <1>4, <1>10, <1>12, BufAfter
<1>14. ASSUME NEW d \in Network!InUse
       PROVE  Network!Pages(b) \intersect Network!Pages(d) = {}
  <2>1. PICK c \in Addr : Used(order, c) /\ d = Buf(c)
    BY InUseBlocks
  <2>2. c # a /\ d = Buf(c)' /\ Used(order, c)'
    BY <1>5, <1>11, <2>1
  <2>. QED BY <1>3, <1>4, <1>10, <1>12, <2>2, ApartAfter
<1>15. Filling' = Filling \union {b} /\ Reading' = Reading
  <2>1. \A c \in Fills \union Reads : Buf(c)' = Buf(c)
    BY <1>5, WhoUses
  <2>2. /\ Filling = {Buf(c) : c \in Fills} /\ Reading = {Buf(c) : c \in Reads}
        /\ Filling' = {Buf(c)' : c \in Fills'} /\ Reading' = {Buf(c)' : c \in Reads'}
    BY <1>4, View, ViewAfter
  <2>. QED BY <1>9, <1>12, <2>1, <2>2
<1>16. ASSUME NEW q \in Procs PROVE Queued(q)' = Queued(q)
  BY <1>4, <1>5, View, ViewAfter, WhoUses
<1>17. Network!Obtain(b)
  BY <1>14, <1>15, <1>16 DEF Network!Obtain
<1>. QED BY <1>13, <1>17 DEF Network!Next

LEMMA SkipView ==
  ASSUME NEW starts, NEW order, Sound(starts, order),
         NEW s \in Senders, alloc_skip(s)
  PROVE  UNCHANGED Network!vars
<1>1. PICK p, k, l, nx :
        /\ p = ProcOf[s] /\ k = snd[s].curr
        /\ l = IF inUse[<<p, k>>] THEN region[p].length[k] ELSE Merged(p, k, snd[s].need)
        /\ nx = IF snd[s].remain - l > 0 THEN region[p].next ELSE Wrap(k + l)
  OBVIOUS
<1>2. /\ snd[s].at = "scan"
      /\ region' = [region EXCEPT ![p].length[k] = l, ![p].next = nx]
      /\ snd'[s].at \in {"idle", "scan"} /\ \A t \in Senders : t # s => snd'[t] = snd[t]
      /\ UNCHANGED rcv
  <2>1. snd'[s].at \in {"idle", "scan"} /\ \A t \in Senders : t # s => snd'[t] = snd[t]
    <3>1. PICK y : y = IF snd[s].remain - l > 0 THEN Scan(s, Wrap(k + l), snd[s].remain - l)
                       ELSE IF s \in Immediate THEN [at |-> "idle"]
                       ELSE Scan(s, Wrap(k + l), PageCount)
      OBVIOUS
    <3>2. snd' = [snd EXCEPT ![s] = y]
      BY <1>1, <3>1 DEF alloc_skip
    <3>3. \A i, j : Scan(s, i, j).at = "scan"
      BY DEF Scan
    <3>4. y.at \in {"idle", "scan"}
      BY <3>1, <3>3
    <3>5. snd'[s] = y /\ \A t \in Senders : t # s => snd'[t] = snd[t]
      BY <3>2, SoundFacts DEF NetTypeOK
    <3>. QED BY <3>4, <3>5
  <2>2. snd[s].at = "scan" /\ UNCHANGED rcv
    BY DEF alloc_skip
  <2>3. region' = [region EXCEPT ![p].length[k] = l, ![p].next = nx]
    BY <1>1 DEF alloc_skip
  <2>. QED BY <2>1, <2>2, <2>3
<1>3. p \in Procs /\ k \in Page /\ NetTypeOK
  BY <1>1, <1>2, SoundFacts, SndFacts
<1>4. PICK st2 : Sound(st2, order)'
  BY SkipStep
<1>5. ASSUME NEW c \in Addr, Used(order, c) PROVE Buf(c)' = Buf(c)
  <2>1. c[1] \in Procs /\ c[2] \in Page /\ c = <<c[1], c[2]>> /\ inUse[c]
    BY <1>5, SoundFacts DEF Addr, BlockSound
  <2>2. region \in [Procs -> [next : Page, length : [Page -> 0..PageCount]]]
    BY <1>3 DEF NetTypeOK
  <2>3. region'[c[1]].length[c[2]] = region[c[1]].length[c[2]]
    <3>1. CASE c[1] # p
      BY <1>2, <2>1, <2>2, <3>1
    <3>2. CASE c[1] = p
      <4>1. region'[p].length = [region[p].length EXCEPT ![k] = l]
        BY <1>2, <1>3, <2>2
      <4>2. c[2] = k => l = region[p].length[k]
        BY <1>1, <2>1, <3>2
      <4>3. region[p].length \in [Page -> 0..PageCount]
        BY <1>3, <2>2
      <4>. QED BY <2>1, <3>2, <4>1, <4>2, <4>3
    <3>. QED BY <3>1, <3>2
  <2>. QED BY <2>3 DEF Buf
<1>6. Fills' = Fills /\ Reads' = Reads
  <2>1. \A t \in Senders : (snd'[t].at = "fill" <=> snd[t].at = "fill")
                            /\ (snd[t].at = "fill" => snd'[t] = snd[t])
    BY <1>2
  <2>. QED BY <1>2, <2>1 DEF Fills, Reads
<1>. QED BY <1>4, <1>5, <1>6, ViewKept

LEMMA QuietView ==
  ASSUME NEW starts, NEW order, Sound(starts, order), Sound(starts, order)',
         region' = region, Fills' = Fills, Reads' = Reads
  PROVE  UNCHANGED Network!vars
<1>1. \A a \in Addr : Used(order, a) => Buf(a)' = Buf(a)
  BY DEF Buf
<1>. QED BY <1>1, ViewKept

LEMMA SenderUnseen ==
  ASSUME NEW starts, NEW order, Sound(starts, order), NEW s \in Senders,
         ampshm_buf_alloc(s) \/ alloc_trylock(s) \/ deliver_link(s)
  PROVE  UNCHANGED Network!vars
<1>1. Sound(starts, order)' /\ region' = region /\ rcv' = rcv
  BY BufAllocStep, TryLockStep, LinkStep
     DEF ampshm_buf_alloc, alloc_trylock, deliver_link
<1>2. snd \in [Senders -> SenderStates]
  BY SoundFacts DEF NetTypeOK
<1>3. /\ snd[s].at # "fill" /\ snd'[s].at # "fill"
      /\ \A t \in Senders : t # s => snd'[t] = snd[t]
  <2>1. CASE ampshm_buf_alloc(s)
    BY <1>2, <2>1 DEF ampshm_buf_alloc
  <2>2. CASE alloc_trylock(s)
    BY <1>2, <2>2 DEF alloc_trylock, Scan
  <2>3. CASE deliver_link(s)
    BY <1>2, <2>3 DEF deliver_link
  <2>. QED BY <2>1, <2>2, <2>3
<1>4. Fills' = Fills /\ Reads' = Reads
  <2>1. \A t \in Senders : (snd'[t].at = "fill" <=> snd[t].at = "fill")
                           /\ (snd[t].at = "fill" => snd'[t] = snd[t])
    BY <1>3
  <2>. QED BY <1>1, <2>1 DEF Fills, Reads
<1>. QED BY <1>1, <1>4, QuietView

LEMMA ReceiverUnseen ==
  ASSUME NEW starts, NEW order, Sound(starts, order), NEW r \in Receivers,
         recv_fetch(r) \/ recv_clear(r) \/ recv_next(r) \/ recv_cas(r)
  PROVE  UNCHANGED Network!vars
<1>1. Sound(starts, order)' /\ region' = region /\ snd' = snd
  BY FetchStep, ClearStep, NextStep, CasStep
     DEF recv_fetch, recv_clear, recv_next, recv_cas
<1>2. rcv \in [Receivers -> ReceiverStates]
  BY SoundFacts DEF NetTypeOK
<1>3. /\ rcv[r].at # "handler" /\ rcv'[r].at # "handler"
      /\ \A t \in Receivers : t # r => rcv'[t] = rcv[t]
  <2>1. CASE recv_fetch(r)
    BY <1>2, <2>1 DEF recv_fetch
  <2>2. CASE recv_clear(r)
    BY <1>2, <2>2 DEF recv_clear
  <2>3. CASE recv_next(r)
    BY <1>2, <2>3 DEF recv_next
  <2>4. CASE recv_cas(r)
    BY <1>2, <2>4 DEF recv_cas
  <2>. QED BY <2>1, <2>2, <2>3, <2>4
<1>4. Fills' = Fills /\ Reads' = Reads
  <2>1. \A t \in Receivers : (rcv'[t].at = "handler" <=> rcv[t].at = "handler")
                             /\ (rcv[t].at = "handler" => rcv'[t] = rcv[t])
    BY <1>3
  <2>. QED BY <1>1, <2>1 DEF Fills, Reads
<1>. QED BY <1>1, <1>4, QuietView

\* A message leaves its sender.
LEMMA FillsLess ==
  ASSUME NEW starts, NEW order, Sound(starts, order), NEW s \in Senders,
         snd[s].at = "fill", snd'[s].at # "fill",
         \A t \in Senders : t # s => snd'[t] = snd[t],
         region' = region, NEW a, a = snd[s].buf, NEW b, b = Buf(a),
         NEW st2, NEW order2, Sound(st2, order2)'
  PROVE  a \in Addr /\ a \in Fills /\ b \in Filling /\ Filling' = Filling \ {b}
<1>1. a \in Addr /\ a \in Fills
  BY SoundFacts, SndFacts DEF Fills
<1>2. \A t \in Senders : snd[t].at = "fill" /\ snd[t].buf = a => t = s
  <2>1. UsedAlone(order, a)
    BY <1>1, SoundFacts DEF BlockSound
  <2>. QED BY <2>1 DEF UsedAlone, SendersOf
<1>3. Fills' = Fills \ {a}
  <2>1. ASSUME NEW c \in Fills' PROVE c \in Fills /\ c # a
    <3>1. PICK t \in Senders : snd'[t].at = "fill" /\ c = snd'[t].buf
      BY <2>1 DEF Fills
    <3>2. t # s /\ snd'[t] = snd[t]
      BY <3>1
    <3>. QED BY <1>2, <3>1, <3>2 DEF Fills
  <2>2. ASSUME NEW c \in Fills, c # a PROVE c \in Fills'
    <3>1. PICK t \in Senders : snd[t].at = "fill" /\ c = snd[t].buf
      BY DEF Fills
    <3>2. t # s /\ snd'[t] = snd[t]
      BY <2>2, <3>1
    <3>. QED BY <3>1, <3>2 DEF Fills
  <2>. QED BY <2>1, <2>2
<1>4. /\ Filling = {Buf(c) : c \in Fills} /\ Filling' = {Buf(c)' : c \in Fills'}
      /\ \A c \in Fills : Buf(c)' = Buf(c)
  BY View, ViewAfter DEF Buf
<1>5. \A c \in Fills : c # a => Buf(c) # b
  BY <1>1, WhoUses, BufFacts
<1>. QED BY <1>1, <1>3, <1>4, <1>5

LEMMA CancelView ==
  ASSUME NEW starts, NEW order, Sound(starts, order),
         NEW s \in Senders, ampshm_cancel(s)
  PROVE  Network!Next
<1>1. PICK a, b : a = snd[s].buf /\ b = Buf(a)
  OBVIOUS
<1>2. Sound(starts, order)'
  BY CancelStep
<1>3. /\ snd[s].at = "fill" /\ snd'[s].at # "fill" /\ region' = region /\ rcv' = rcv
      /\ \A t \in Senders : t # s => snd'[t] = snd[t]
  <2>1. snd \in [Senders -> SenderStates]
    BY SoundFacts DEF NetTypeOK
  <2>. QED BY <2>1 DEF ampshm_cancel
<1>4. b \in Filling /\ Filling' = Filling \ {b}
  BY <1>1, <1>2, <1>3, FillsLess
<1>5. Reading' = Reading
  BY <1>3 DEF Reading, Buf
<1>6. ASSUME NEW p \in Procs PROVE Queued(p)' = Queued(p)
  <2>1. \A c : Buf(c)' = Buf(c)
    BY <1>3 DEF Buf
  <2>. QED BY <1>2, <2>1, View, ViewAfter
<1>7. Network!Cancel(b)
  BY <1>4, <1>5, <1>6 DEF Network!Cancel
<1>. QED BY <1>4, <1>7 DEF Network!Next

LEMMA SwapView ==
  ASSUME NEW starts, NEW order, Sound(starts, order),
         NEW s \in Senders, deliver_swap(s)
  PROVE  Network!Next
<1>1. PICK p, a, b, order2 : /\ p = snd[s].to /\ a = snd[s].buf /\ b = Buf(a)
                             /\ order2 = [order EXCEPT ![p] = Append(@, a)]
  OBVIOUS
<1>2. Sound(starts, order2)'
  <2>1. Sound(starts, [order EXCEPT ![p] = Append(@, a)])'
    BY <1>1, SwapStep
  <2>. QED BY <1>1, <2>1
<1>3. /\ snd[s].at = "fill" /\ snd'[s].at # "fill" /\ region' = region /\ rcv' = rcv
      /\ \A t \in Senders : t # s => snd'[t] = snd[t]
  <2>1. snd \in [Senders -> SenderStates]
    BY SoundFacts DEF NetTypeOK
  <2>. QED BY <2>1 DEF deliver_swap
<1>4. a \in Addr /\ b \in Filling /\ Filling' = Filling \ {b}
  BY <1>1, <1>2, <1>3, FillsLess
<1>5. Reading' = Reading
  BY <1>3 DEF Reading, Buf
<1>6. p \in Procs /\ order \in [Procs -> Seq(Addr)]
  BY <1>1, <1>3, SoundFacts, SndFacts DEF Sound
<1>7. /\ order2[p] = Append(order[p], a)
      /\ \A q \in Procs : q # p => order2[q] = order[q]
  BY <1>1, <1>6
<1>8. \A c : Buf(c)' = Buf(c)
  BY <1>3 DEF Buf
<1>9. \A q \in Procs : q # p => Queued(q)' = Queued(q)
  BY <1>2, <1>7, <1>8, View, ViewAfter
<1>10. Queued(p)' = Append(Queued(p), b)
  <2>1. PICK list : list = order[p] /\ list \in Seq(Addr) /\ Len(list) \in Nat
    BY <1>6
  <2>2. Queued(p) = [k \in 1..Len(list) |-> Buf(list[k])]
    BY <1>6, <2>1, View
  <2>3. Queued(p)' = [k \in 1..Len(Append(list, a)) |-> Buf(Append(list, a)[k])]
    <3>1. Queued(p)' = [k \in 1..Len(order2[p]) |-> Buf(order2[p][k])']
      BY <1>2, <1>6, ViewAfter
    <3>2. order2[p] = Append(list, a)
      BY <1>7, <2>1
    <3>. QED BY <1>8, <3>1, <3>2
  <2>4. /\ Len(Append(list, a)) = Len(list) + 1
        /\ \A k \in 1..(Len(list) + 1) :
             Append(list, a)[k] = IF k = Len(list) + 1 THEN a ELSE list[k]
    BY <1>4, <2>1
  <2>5. Append(Queued(p), b) = [k \in 1..(Len(list) + 1) |->
                                  IF k = Len(list) + 1 THEN b ELSE Buf(list[k])]
    BY <2>1, <2>2
  <2>. QED BY <1>1, <2>3, <2>4, <2>5
<1>11. [q \in Procs |-> Queued(q)'] = [[q \in Procs |-> Queued(q)] EXCEPT ![p] = Append(@, b)]
  BY <1>6, <1>9, <1>10
<1>12. Network!Deliver(b, p)
  BY <1>4, <1>5, <1>11 DEF Network!Deliver
<1>. QED BY <1>4, <1>6, <1>12 DEF Network!Next

LEMMA ReleaseView ==
  ASSUME NEW starts, NEW order, Sound(starts, order),
         NEW r \in Receivers, recv_release(r)
  PROVE  Network!Next
<1>1. PICK a, b : a = rcv[r].buf /\ b = Buf(a)
  OBVIOUS
<1>2. Sound(starts, order)'
  BY ReleaseStep
<1>3. /\ rcv[r].at = "handler" /\ rcv'[r].at # "handler" /\ region' = region /\ snd' = snd
      /\ \A t \in Receivers : t # r => rcv'[t] = rcv[t]
  <2>1. rcv \in [Receivers -> ReceiverStates]
    BY SoundFacts DEF NetTypeOK
  <2>. QED BY <2>1 DEF recv_release
<1>4. a \in Addr /\ a \in Reads
  BY <1>1, <1>3, SoundFacts, RcvFacts DEF Reads
<1>5. \A t \in Receivers : rcv[t].at = "handler" /\ rcv[t].buf = a => t = r
  <2>1. UsedAlone(order, a)
    BY <1>4, SoundFacts DEF BlockSound
  <2>. QED BY <1>1, <1>3, <2>1 DEF UsedAlone, ReadersOf
<1>6. Reads' = Reads \ {a}
  <2>1. ASSUME NEW c \in Reads' PROVE c \in Reads /\ c # a
    <3>1. PICK t \in Receivers : rcv'[t].at = "handler" /\ c = rcv'[t].buf
      BY <2>1 DEF Reads
    <3>2. t # r /\ rcv'[t] = rcv[t]
      BY <1>3, <3>1
    <3>. QED BY <1>5, <3>1, <3>2 DEF Reads
  <2>2. ASSUME NEW c \in Reads, c # a PROVE c \in Reads'
    <3>1. PICK t \in Receivers : rcv[t].at = "handler" /\ c = rcv[t].buf
      BY DEF Reads
    <3>2. t # r /\ rcv'[t] = rcv[t]
      BY <1>1, <1>3, <2>2, <3>1
    <3>. QED BY <3>1, <3>2 DEF Reads
  <2>. QED BY <2>1, <2>2
<1>7. \A c : Buf(c)' = Buf(c)
  BY <1>3 DEF Buf
<1>8. b \in Reading /\ Reading' = Reading \ {b}
  <2>1. Reading = {Buf(c) : c \in Reads} /\ Reading' = {Buf(c)' : c \in Reads'}
    BY <1>2, View, ViewAfter
  <2>2. \A c \in Reads : c # a => Buf(c) # b
    BY <1>1, <1>4, WhoUses, BufFacts
  <2>. QED BY <1>1, <1>4, <1>6, <1>7, <2>1, <2>2
<1>9. Filling' = Filling
  BY <1>3 DEF Filling, Buf
<1>10. ASSUME NEW p \in Procs PROVE Queued(p)' = Queued(p)
  BY <1>2, <1>7, View, ViewAfter
<1>11. Network!GiveBack(b)
  BY <1>8, <1>9, <1>10 DEF Network!GiveBack
<1>. QED BY <1>8, <1>11 DEF Network!Next

LEMMA TailForm ==
  ASSUME NEW T, NEW q \in Seq(T), q # <<>>
  PROVE  Tail(q) = [k \in 1..(Len(q) - 1) |-> q[k + 1]]
<1>1. PICK t : t = Tail(q)
  OBVIOUS
<1>2. /\ t \in Seq(T) /\ Len(t) = Len(q) - 1
      /\ \A k \in 1..(Len(q) - 1) : t[k] = q[k + 1]
  BY <1>1
<1>3. t = [k \in 1..Len(t) |-> t[k]]
  BY <1>2
<1>. QED BY <1>1, <1>2, <1>3

LEMMA TakeView ==
  ASSUME NEW starts, NEW order, Sound(starts, order),
         NEW r \in Receivers, recv_take(r)
  PROVE  Network!Next
<1>1. PICK p, list, a, b, order2 :
        /\ p = ProcOf[r] /\ list = order[p] /\ a = list[1] /\ b = Buf(a)
        /\ order2 = [order EXCEPT ![p] = Tail(@)]
  OBVIOUS
<1>2. Sound(starts, order2)'
  <2>1. Sound(starts, [order EXCEPT ![p] = Tail(@)])'
    BY <1>1, TakeStep
  <2>. QED BY <1>1, <2>1
<1>3. rcv[r].at = "take"
  BY DEF recv_take
<1>4. p \in Procs /\ Holds(p, list) /\ 1 \in 1..Len(list) /\ rcv[r].buf = a
  <2>1. rcv[r].at \in {"clear", "next", "cas", "take"} /\ p = ProcOf[r] /\ list = order[p]
        /\ rcv[r].at = "take"
    BY <1>1, <1>3
  <2>2. p \in Procs /\ Holds(p, list) /\ 1 \in 1..Len(list) /\ rcv[r].buf = list[1]
    BY <2>1, Receiving
  <2>. QED BY <1>1, <2>2
<1>5. /\ rcv'[r].at = "handler" /\ rcv'[r].buf = a /\ region' = region /\ snd' = snd
      /\ \A t \in Receivers : t # r => rcv'[t] = rcv[t]
  <2>1. rcv \in [Receivers -> ReceiverStates]
    BY SoundFacts DEF NetTypeOK
  <2>. QED BY <1>4, <2>1 DEF recv_take
<1>6. \A c : Buf(c)' = Buf(c)
  BY <1>5 DEF Buf
<1>7. Reads' = Reads \union {a}
  BY <1>3, <1>5 DEF Reads
<1>8. Reading' = Reading \union {b}
  <2>1. Reading = {Buf(c) : c \in Reads} /\ Reading' = {Buf(c)' : c \in Reads'}
    BY <1>2, View, ViewAfter
  <2>. QED BY <1>1, <1>6, <1>7, <2>1
<1>9. Filling' = Filling
  BY <1>5 DEF Filling, Buf
<1>10. order \in [Procs -> Seq(Addr)] /\ list \in Seq(Addr) /\ Len(list) \in Nat /\ list # <<>>
  BY <1>1, <1>4 DEF Sound
<1>11. order2[p] = Tail(list) /\ \A q \in Procs : q # p => order2[q] = order[q]
  BY <1>1, <1>4, <1>10
<1>12. \A q \in Procs : q # p => Queued(q)' = Queued(q)
  BY <1>2, <1>6, <1>11, View, ViewAfter
<1>13. /\ Queued(p) # <<>> /\ Head(Queued(p)) = b /\ Queued(p)' = Tail(Queued(p))
  <2>1. Queued(p) = [k \in 1..Len(list) |-> Buf(list[k])]
    BY <1>1, <1>4, View
  <2>2. Queued(p)' = [k \in 1..Len(Tail(list)) |-> Buf(Tail(list)[k])]
    <3>1. Queued(p)' = [k \in 1..Len(order2[p]) |-> Buf(order2[p][k])']
      BY <1>2, <1>4, ViewAfter
    <3>. QED BY <1>6, <1>11, <3>1
  <2>3. /\ Len(Tail(list)) = Len(list) - 1 /\ Len(list) - 1 \in Nat
        /\ \A k \in 1..(Len(list) - 1) : Tail(list)[k] = list[k + 1]
    BY <1>10
  <2>4. /\ Queued(p) # <<>> /\ Head(Queued(p)) = Buf(list[1])
        /\ Tail(Queued(p)) = [k \in 1..(Len(list) - 1) |-> Buf(list[k + 1])]
    <3>1. Len(Queued(p)) = Len(list) /\ Queued(p)[1] = Buf(list[1])
      BY <1>4, <1>10, <2>1
    <3>2. Queued(p) # <<>> /\ Head(Queued(p)) = Queued(p)[1]
      BY <1>4, <1>10, <3>1
    <3>3. Tail(Queued(p)) = [k \in 1..(Len(list) - 1) |-> Queued(p)[k + 1]]
      <4>1. PICK T : T = {Buf(list[k]) : k \in 1..Len(list)}
        OBVIOUS
      <4>2. Queued(p) \in Seq(T)
        BY <1>10, <2>1, <4>1
      <4>. QED BY <3>1, <3>2, <4>2, TailForm
    <3>4. \A k \in 1..(Len(list) - 1) : Queued(p)[k + 1] = Buf(list[k + 1])
      BY <1>10, <2>1
    <3>. QED BY <3>1, <3>2, <3>3, <3>4
  <2>5. Queued(p)' = [k \in 1..(Len(list) - 1) |-> Buf(list[k + 1])]
    BY <2>2, <2>3
  <2>6. b = Buf(list[1])
    BY <1>1
  <2>. QED BY <2>4, <2>5, <2>6
<1>14. [q \in Procs |-> Queued(q)'] = [[q \in Procs |-> Queued(q)] EXCEPT ![p] = Tail(@)]
  BY <1>4, <1>12, <1>13
<1>15. Network!Receive(p)
  BY <1>4, <1>8, <1>9, <1>13, <1>14 DEF Network!Receive
<1>. QED BY <1>4, <1>15 DEF Network!Next

\* Buffers in use never share a page, and each message is received once, in the
\* order in which the senders swapped the tail of the queue, although it is
\* linked later (gasneti_pshmnet_deliver_send_buffer, gasneti_pshmnet_recv).
THEOREM NetworkRefinement == NetSpec => ImplementsNetwork
<1>1. NetInit => Network!Init
  <2> SUFFICES ASSUME NetInit PROVE Network!Init
    OBVIOUS
  <2>1. Filling = {} /\ Reading = {}
    BY DEF NetInit, Filling, Reading
  <2>2. ASSUME NEW p \in Procs PROVE Queued(p) = <<>>
    <3>1. PICK starts, order : Sound(starts, order) /\ order[p] = <<>>
      <4>1. [q \in Procs |-> <<>>][p] = <<>>
        OBVIOUS
      <4>. QED BY <4>1, NetInitSound
    <3>2. Queued(p) = [k \in 1..0 |-> Buf(order[p][k])]
      BY <3>1, View
    <3>. QED BY <3>2
  <2>. QED BY <2>1, <2>2 DEF Network!Init
<1>2. NetInv /\ [NetNext]_netVars => [Network!Next]_(Network!vars)
  <2> SUFFICES ASSUME NetInv, [NetNext]_netVars PROVE Network!Next \/ UNCHANGED Network!vars
    OBVIOUS
  <2>1. PICK starts, order : Sound(starts, order)
    BY InvIsSound
  <2>2. CASE UNCHANGED netVars
    BY <2>1, <2>2, NetStutter, QuietView DEF netVars, Fills, Reads
  <2>3. ASSUME NEW s \in Senders, ampshm_buf_alloc(s) \/ SendStep(s) \/ ampshm_cancel(s)
        PROVE  Network!Next \/ UNCHANGED Network!vars
    <3>1. CASE ampshm_buf_alloc(s) \/ alloc_trylock(s) \/ deliver_link(s)
      BY <2>1, <3>1, SenderUnseen
    <3>2. CASE alloc_found(s)
      BY <2>1, <3>2, FoundView
    <3>3. CASE alloc_skip(s)
      BY <2>1, <3>3, SkipView
    <3>4. CASE deliver_swap(s)
      BY <2>1, <3>4, SwapView
    <3>5. CASE ampshm_cancel(s)
      BY <2>1, <3>5, CancelView
    <3>. QED BY <2>3, <3>1, <3>2, <3>3, <3>4, <3>5 DEF SendStep
  <2>4. ASSUME NEW r \in Receivers, RecvStep(r)
        PROVE  Network!Next \/ UNCHANGED Network!vars
    <3>1. CASE recv_fetch(r) \/ recv_clear(r) \/ recv_next(r) \/ recv_cas(r)
      BY <2>1, <3>1, ReceiverUnseen
    <3>2. CASE recv_take(r)
      BY <2>1, <3>2, TakeView
    <3>3. CASE recv_release(r)
      BY <2>1, <3>3, ReleaseView
    <3>. QED BY <2>4, <3>1, <3>2, <3>3 DEF RecvStep
  <2>. QED BY <2>2, <2>3, <2>4 DEF NetNext
<1>. QED BY <1>1, <1>2, NetInvariance, PTL DEF NetSpec, ImplementsNetwork, Network!Spec
=============================================================================
