---------------------------- MODULE EventsProofs ----------------------------
(* Proofs about the events and handles: the ops stay where the lists, the    *)
(* stacks, the client and the array calls say they are, the counters of an   *)
(* iop account for its transfers, gasnete_test_array tells the truth, and    *)
(* all of it implements EventSpec.  One lemma per action and part of         *)
(* EventInv, then the theorems, and last the refinement.                     *)
EXTENDS Events, FiniteSetTheorems, SequenceTheorems, TLAPS

-----------------------------------------------------------------------------
(* Sequences without repetition, and the sets of what they hold.             *)

\* The first of a sequence taken off.
LEMMA TailFacts ==
  ASSUME NEW S, NEW s \in Seq(S), s # <<>>, IsInjective(s)
  PROVE  /\ Tail(s) \in Seq(S) /\ IsInjective(Tail(s)) /\ Head(s) \in S /\ Head(s) \in ToSet(s)
         /\ ToSet(Tail(s)) = ToSet(s) \ {Head(s)}
         /\ Len(s) \in Nat /\ Len(s) > 0 /\ Head(s) = s[1]
         /\ Len(Tail(s)) = Len(s) - 1 /\ \A k \in DOMAIN Tail(s) : k + 1 \in DOMAIN s /\ Tail(s)[k] = s[k + 1]
<1>1. /\ Tail(s) \in Seq(S) /\ Len(s) \in Nat /\ Len(s) > 0 /\ Head(s) = s[1]
      /\ DOMAIN s = 1..Len(s) /\ \A k \in 1..Len(s) : s[k] \in S
  OBVIOUS
<1>2. /\ Len(Tail(s)) = Len(s) - 1 /\ DOMAIN Tail(s) = 1..(Len(s) - 1)
      /\ \A k \in 1..(Len(s) - 1) : Tail(s)[k] = s[k + 1]
  OBVIOUS
<1> DEFINE r == Tail(s)
           h == Head(s)
<1>3. r \in Seq(S) /\ DOMAIN r = 1..(Len(s) - 1) /\ \A k \in 1..(Len(s) - 1) : r[k] = s[k + 1]
  BY <1>1, <1>2
<1>4. h = s[1]
  BY <1>1
<1> HIDE DEF r, h
<1>5. IsInjective(r)
  <2> SUFFICES ASSUME NEW j \in 1..(Len(s) - 1), NEW k \in 1..(Len(s) - 1), r[j] = r[k]
               PROVE  j = k
    BY <1>3 DEF IsInjective
  <2>1. j + 1 \in DOMAIN s /\ k + 1 \in DOMAIN s
    BY <1>1
  <2>2. s[j + 1] = s[k + 1]
    BY <1>3
  <2>3. j + 1 = k + 1
    BY <2>1, <2>2 DEF IsInjective
  <2> QED BY <1>1, <2>3
<1>6. ToSet(r) = ToSet(s) \ {h}
  <2>1. ASSUME NEW x \in ToSet(r) PROVE x \in ToSet(s) \ {h}
    <3>1. PICK k \in 1..(Len(s) - 1) : x = s[k + 1]
      BY <1>3, <2>1 DEF ToSet
    <3>2. k + 1 \in DOMAIN s /\ k + 1 # 1 /\ 1 \in DOMAIN s
      BY <1>1
    <3> QED BY <1>4, <3>1, <3>2 DEF ToSet, IsInjective
  <2>2. ASSUME NEW x \in ToSet(s) \ {h} PROVE x \in ToSet(r)
    <3>1. PICK k \in 1..Len(s) : x = s[k]
      BY <1>1, <2>2 DEF ToSet
    <3>2. k # 1
      BY <1>4, <2>2, <3>1
    <3>3. k - 1 \in 1..(Len(s) - 1) /\ (k - 1) + 1 = k
      BY <1>1, <3>2
    <3> QED BY <1>3, <3>1, <3>3 DEF ToSet
  <2> QED BY <2>1, <2>2
<1>7. h \in ToSet(s)
  BY <1>1, <1>4 DEF ToSet
<1> QED BY <1>1, <1>2, <1>5, <1>6, <1>7 DEF r, h

\* One sequence put before another that shares nothing with it.
LEMMA ConcatFacts ==
  ASSUME NEW S, NEW r \in Seq(S), NEW s \in Seq(S), IsInjective(r), IsInjective(s),
         ToSet(r) \intersect ToSet(s) = {}
  PROVE  /\ r \o s \in Seq(S) /\ IsInjective(r \o s) /\ ToSet(r \o s) = ToSet(r) \union ToSet(s)
<1> DEFINE q == r \o s
           m == Len(r)
           n == Len(s)
<1>1. /\ q \in Seq(S) /\ m \in Nat /\ n \in Nat
      /\ DOMAIN r = 1..m /\ DOMAIN s = 1..n /\ DOMAIN q = 1..(m + n)
      /\ \A k \in 1..(m + n) : q[k] = IF k <= m THEN r[k] ELSE s[k - m]
  OBVIOUS
<1> HIDE DEF q, m, n
<1>2. \A k \in 1..(m + n) : (k <= m /\ k \in 1..m /\ q[k] = r[k])
                            \/ (k > m /\ k - m \in 1..n /\ q[k] = s[k - m])
  BY <1>1
<1>3. IsInjective(q)
  <2> SUFFICES ASSUME NEW j \in 1..(m + n), NEW k \in 1..(m + n), q[j] = q[k] PROVE j = k
    BY <1>1 DEF IsInjective
  <2>1. CASE j <= m /\ k <= m
    <3>1. j \in DOMAIN r /\ k \in DOMAIN r /\ r[j] = r[k]
      BY <1>1, <2>1
    <3> QED BY <3>1 DEF IsInjective
  <2>2. CASE j > m /\ k > m
    <3>1. j - m \in DOMAIN s /\ k - m \in DOMAIN s /\ s[j - m] = s[k - m]
      BY <1>1, <2>2
    <3>2. j - m = k - m
      BY <3>1 DEF IsInjective
    <3> QED BY <1>1, <3>2
  <2>3. CASE j <= m /\ k > m
    <3>1. j \in DOMAIN r /\ k - m \in DOMAIN s /\ r[j] = s[k - m]
      BY <1>1, <2>3
    <3> QED BY <3>1 DEF ToSet
  <2>4. CASE j > m /\ k <= m
    <3>1. k \in DOMAIN r /\ j - m \in DOMAIN s /\ r[k] = s[j - m]
      BY <1>1, <2>4
    <3> QED BY <3>1 DEF ToSet
  <2> QED BY <1>1, <2>1, <2>2, <2>3, <2>4
<1>4. ToSet(q) = ToSet(r) \union ToSet(s)
  <2>1. ASSUME NEW x \in ToSet(q) PROVE x \in ToSet(r) \union ToSet(s)
    <3>1. PICK k \in 1..(m + n) : x = q[k]
      BY <1>1, <2>1 DEF ToSet
    <3>2. CASE k \in 1..m /\ q[k] = r[k]
      BY <1>1, <3>1, <3>2 DEF ToSet
    <3>3. CASE k - m \in 1..n /\ q[k] = s[k - m]
      BY <1>1, <3>1, <3>3 DEF ToSet
    <3> QED BY <1>2, <3>1, <3>2, <3>3
  <2>2. \A k \in 1..m : k \in 1..(m + n) /\ q[k] = r[k]
    BY <1>1
  <2>3. \A k \in 1..n : m + k \in 1..(m + n) /\ q[m + k] = s[k]
    BY <1>1
  <2>4. ASSUME NEW x \in ToSet(r) PROVE x \in ToSet(q)
    BY <1>1, <2>2, <2>4 DEF ToSet
  <2>5. ASSUME NEW x \in ToSet(s) PROVE x \in ToSet(q)
    <3>1. PICK k \in 1..n : x = s[k]
      BY <1>1, <2>5 DEF ToSet
    <3> QED BY <1>1, <2>3, <3>1 DEF ToSet
  <2> QED BY <2>1, <2>4, <2>5
<1> QED BY <1>1, <1>3, <1>4 DEF q

\* A sequence of one element.
LEMMA OneFacts ==
  ASSUME NEW S, NEW x \in S
  PROVE  /\ <<x>> \in Seq(S) /\ IsInjective(<<x>>) /\ ToSet(<<x>>) = {x} /\ <<x>> # <<>>
         /\ Head(<<x>>) = x
BY DEF IsInjective, ToSet

\* One element put at the end.
LEMMA AppendFacts ==
  ASSUME NEW S, NEW s \in Seq(S), NEW x \in S, IsInjective(s), x \notin ToSet(s)
  PROVE  /\ Append(s, x) \in Seq(S) /\ IsInjective(Append(s, x))
         /\ ToSet(Append(s, x)) = ToSet(s) \union {x}
         /\ Append(s, x) # <<>> /\ Head(Append(s, x)) = IF s = <<>> THEN x ELSE Head(s)
<1> DEFINE q == Append(s, x)
           n == Len(s)
<1>1. /\ q \in Seq(S) /\ n \in Nat /\ DOMAIN s = 1..n /\ DOMAIN q = 1..(n + 1)
      /\ \A k \in 1..n : q[k] = s[k]
      /\ q[n + 1] = x /\ q # <<>> /\ Head(q) = q[1] /\ (s # <<>> => Head(s) = s[1] /\ n >= 1)
      /\ s = <<>> <=> n = 0
  OBVIOUS
<1> HIDE DEF q, n
<1>2. \A k \in 1..(n + 1) : (k \in 1..n /\ q[k] = s[k]) \/ (k = n + 1 /\ q[k] = x)
  BY <1>1
<1>3. IsInjective(q)
  BY <1>1, <1>2 DEF IsInjective, ToSet
<1>4. ToSet(q) = ToSet(s) \union {x}
  <2>1. ToSet(q) \subseteq ToSet(s) \union {x}
    BY <1>1, <1>2 DEF ToSet
  <2>2. \A k \in 1..n : k \in 1..(n + 1)
    BY <1>1
  <2>3. n + 1 \in 1..(n + 1)
    BY <1>1
  <2> QED BY <1>1, <2>1, <2>2, <2>3 DEF ToSet
<1>5. Head(q) = IF s = <<>> THEN x ELSE Head(s)
  BY <1>1
<1> QED BY <1>1, <1>3, <1>4, <1>5 DEF q

\* The sequences that list a finite set.
LEMMA ListingFacts ==
  ASSUME NEW E, IsFiniteSet(E), NEW s \in SetToSeqs(E)
  PROVE  s \in Seq(E) /\ IsInjective(s) /\ ToSet(s) = E /\ Len(s) = Cardinality(E)
<1> DEFINE n == Cardinality(E)
           D == 1..n
<1>0. n \in Nat
  BY FS_CardinalityType
<1>1. s \in [D -> E] /\ IsInjective(s)
  BY DEF SetToSeqs, IsInjective
<1>2. IsFiniteSet(D) /\ Cardinality(D) = n
  BY <1>0, FS_Interval
<1>3. s \in Seq(E) /\ Len(s) = n
  <2> HIDE DEF n
  <2> QED BY <1>0, <1>1
<1>4. s \in Injection(D, E)
  BY <1>1 DEF Injection, IsInjective
<1>5. s \in Surjection(D, E)
  BY <1>2, <1>4, FS_Injection
<1>6. ToSet(s) = E
  BY <1>1, <1>5 DEF Surjection, ToSet
<1> QED BY <1>1, <1>3, <1>6

-----------------------------------------------------------------------------
(* The constants.                                                            *)

\* The ops are numbers other than 0, so that GEX_EVENT_INVALID is no event of
\* theirs; iops and eops are apart.
LEMMA Ids ==
  /\ 0 \notin OpIds /\ OpIds \subseteq Nat /\ Iops \subseteq OpIds /\ Eops \subseteq OpIds
  /\ \A i \in OpIds : i \in Iops <=> i \notin Eops
  /\ Root \in Cats
  /\ \A e \in OpIds \X Cats : e # Invalid /\ OpOf(e) \in OpIds /\ (~IsLeaf(e) => e = <<OpOf(e), Root>>)
  /\ ~IsLeaf(Invalid)
BY EventsAssumption DEF OpIds, Invalid, OpOf, IsLeaf

\* gasnete_init_threaddata gives every thread an iop of its own.
LEMMA FirstIopFacts ==
  FirstIop \in [Threads -> Iops] /\ \A t, u \in Threads : FirstIop[t] = FirstIop[u] => t = u
<1>1. FirstIop \in [Threads -> Iops] /\ IsInjective(FirstIop)
  BY EventsAssumption DEF FirstIop
<1> QED BY <1>1 DEF IsInjective

-----------------------------------------------------------------------------
(* The initial state.                                                        *)

\* What malloc and gasnete_iop_alloc return.
LEMMA NewOps ==
  /\ Zero \in [Cats -> Nat] /\ \A c \in Cats : Zero[c] = 0
  /\ Unborn \in OpRecords /\ Unborn.type = "unborn" /\ Unborn.live = {} /\ Unborn.owner = NoThread
  /\ Unborn.ini = Zero /\ Unborn.com = Zero /\ Unborn.next = "null"
  /\ \A t \in Threads : /\ NewIop(t) \in OpRecords
                        /\ NewIop(t).owner = t /\ NewIop(t).type = "busy" /\ NewIop(t).live = {}
                        /\ NewIop(t).ini = Zero /\ NewIop(t).com = Zero /\ NewIop(t).next = "null"
<1>1. Zero \in [Cats -> Nat] /\ \A c \in Cats : Zero[c] = 0
  BY DEF Zero
<1>2. /\ Unborn \in OpRecords /\ Unborn.type = "unborn" /\ Unborn.live = {} /\ Unborn.owner = NoThread
      /\ Unborn.ini = Zero /\ Unborn.com = Zero /\ Unborn.next = "null"
  BY <1>1 DEF Unborn, OpRecords, Types
<1>3. ASSUME NEW t \in Threads
      PROVE  /\ NewIop(t) \in OpRecords
             /\ NewIop(t).owner = t /\ NewIop(t).type = "busy" /\ NewIop(t).live = {}
             /\ NewIop(t).ini = Zero /\ NewIop(t).com = Zero /\ NewIop(t).next = "null"
  BY <1>2 DEF NewIop, OpRecords, Types
<1> QED BY <1>1, <1>2, <1>3

\* What EventInit makes of each op.
LEMMA InitialOps ==
  ASSUME EventInit
  PROVE  /\ \A t \in Threads : op[FirstIop[t]] = NewIop(t)
         /\ \A i \in OpIds : op[i] = Unborn \/ \E t \in Threads : i = FirstIop[t]
<1>1. \A i \in OpIds : op[i] = IF \E t \in Threads : FirstIop[t] = i
             THEN NewIop(CHOOSE t \in Threads : FirstIop[t] = i) ELSE Unborn
  BY DEF EventInit
<1>2. ASSUME NEW t \in Threads PROVE op[FirstIop[t]] = NewIop(t)
  <2>1. FirstIop[t] \in OpIds
    BY Ids, FirstIopFacts
  <2>2. (CHOOSE u \in Threads : FirstIop[u] = FirstIop[t]) = t
    BY FirstIopFacts
  <2> QED BY <1>1, <2>1, <2>2
<1> QED BY <1>1, <1>2

\* Every thread starts with its implicit iop, and nothing else is allocated.
LEMMA EventInitial == EventInit => EventInv
<1> SUFFICES ASSUME EventInit PROVE EventInv
  OBVIOUS
<1>z. FirstIop \in [Threads -> Iops]
  BY FirstIopFacts
<1>0. /\ cur = [t \in Threads |-> <<FirstIop[t]>>]
      /\ free = [t \in Threads |-> [l \in Lists |-> <<>>]]
      /\ xf = [x \in Xfers |-> [op |-> 0, cat |-> Root, st |-> "none"]]
      /\ hnd = [p \in Pollers |-> Idle]
      /\ call = [t \in Threads |-> Idle]
      /\ held = {} /\ regions = 0
  BY DEF EventInit
<1>a. \A t \in Threads : /\ NewIop(t).owner = t /\ NewIop(t).type = "busy" /\ NewIop(t).live = {}
                         /\ NewIop(t).ini = Zero /\ NewIop(t).com = Zero /\ NewIop(t).next = "null"
  BY NewOps
<1>b. Unborn.type = "unborn" /\ Unborn.live = {} /\ Unborn.ini = Zero /\ Unborn.com = Zero
      /\ Unborn.next = "null" /\ Unborn \in OpRecords
  BY NewOps
<1>c. Zero \in [Cats -> Nat] /\ \A c \in Cats : Zero[c] = 0
  BY NewOps
<1>d. \A t \in Threads : NewIop(t) \in OpRecords
  BY NewOps
<1>e. InArrays = {}
  BY <1>0 DEF InArrays, Idle
<1>f. \A t \in Threads : Passed(t) = {} /\ Synced(t) = {}
  BY <1>e DEF Passed, Synced
<1>g. \A i \in OpIds : op[i].type = "unborn" \/ \E t \in Threads : i = FirstIop[t] /\ op[i] = NewIop(t)
  BY <1>b, InitialOps
<1>1. EventTypeOK
  <2>1. op \in [OpIds -> OpRecords]
    <3>1. \A i \in OpIds : op[i] \in OpRecords
      BY <1>b, <1>d, InitialOps
    <3>2. op = [i \in OpIds |-> op[i]]
      BY DEF EventInit
    <3> QED BY <3>1, <3>2
  <2>2. cur \in [Threads -> Seq(Iops)]
    BY <1>0, <1>z
  <2>3. free \in [Threads -> [Lists -> Seq(OpIds)]]
    BY <1>0
  <2>4. \A x \in Xfers : xf[x] \in [op : OpIds \union {0}, cat : Cats,
                       st : {"none", "request", "reply", "done"}]
    BY <1>0, Ids
  <2> QED BY <1>0, <2>1, <2>2, <2>3, <2>4, EventsAssumption DEF EventTypeOK
<1>2. ListsInv
  <2>1. \A t \in Threads, l \in Lists : Listed(t, l) = {} /\ IsInjective(free[t][l])
    BY <1>0 DEF Listed, ToSet, IsInjective
  <2>2. \A i \in OpIds : op[i].type # "free"
    BY <1>a, <1>g, InitialOps
  <2> QED BY <2>1, <2>2 DEF ListsInv
<1>3. StacksInv
  <2>1. \A t \in Threads : cur[t] = <<FirstIop[t]>> /\ IsInjective(cur[t]) /\ Stacked(t) = {FirstIop[t]}
    BY <1>0, <1>z, OneFacts DEF Stacked
  <2>2. \A t \in Threads : IsOpen(FirstIop[t]) /\ op[FirstIop[t]].owner = t /\ op[FirstIop[t]].next = "null"
    BY <1>a, <1>z, InitialOps DEF IsOpen
  <2>3. \A i \in Iops : IsOpen(i) => \E t \in Threads : i = FirstIop[t]
    BY <1>g, Ids DEF IsOpen
  <2>4. ASSUME NEW t \in Threads
        PROVE  cur[t] # <<>> /\ Len(cur[t]) = 1 /\ \A k \in DOMAIN cur[t] : k = 1 /\ cur[t][k] = FirstIop[t]
    <3> DEFINE f == FirstIop[t]
    <3>1. <<f>> # <<>> /\ Len(<<f>>) = 1 /\ \A k \in DOMAIN <<f>> : k = 1 /\ <<f>>[k] = f
      OBVIOUS
    <3> QED BY <2>1, <3>1
  <2> QED BY ZenonT(60), <2>1, <2>2, <2>3, <2>4 DEF StacksInv
<1>4. HandsInv
  <2>1. \A i \in OpIds : ~IsClosed(i) /\ op[i].type # "pendingfree"
    <3>1. \A t \in Threads : ~IsClosed(FirstIop[t]) /\ op[FirstIop[t]].type # "pendingfree"
      <4> SUFFICES ASSUME NEW t \in Threads
                   PROVE  ~IsClosed(FirstIop[t]) /\ op[FirstIop[t]].type # "pendingfree"
        OBVIOUS
      <4>1. FirstIop[t] \in OpIds /\ FirstIop[t] \notin Eops
        BY <1>z, Ids
      <4>2. op[FirstIop[t]].type = "busy" /\ op[FirstIop[t]].next = "null"
        BY <1>a, InitialOps
      <4> QED BY <4>1, <4>2 DEF IsClosed
    <3> QED BY <1>g, <3>1 DEF IsClosed
  <2>2. \A t \in Threads : call[t].in # "bulk"
    BY <1>0 DEF Idle
  <2> QED BY <1>0, <1>f, <2>1, <2>2 DEF HandsInv
<1>5. ArraysInv
  BY <1>e DEF ArraysInv
<1>6. CountersInv
  <2>1. \A i \in Iops, c \in Cats : Pending(i, c) = {}
    BY <1>0, Ids DEF Pending
  <2>2. \A i \in Iops, c \in Cats : op[i].ini[c] = 0 /\ op[i].com[c] = 0 /\ op[i].next = "null"
    <3>1. \A i \in Iops : i \in OpIds
      BY Ids
    <3>2. \A t \in Threads : /\ op[FirstIop[t]].ini = Zero /\ op[FirstIop[t]].com = Zero
                             /\ op[FirstIop[t]].next = "null"
      BY <1>a, InitialOps
    <3> QED BY <1>b, <1>c, <3>1, <3>2, InitialOps
  <2>3. Cardinality({}) = 0
    BY FS_EmptySet
  <2> QED BY <2>1, <2>2, <2>3 DEF CountersInv
<1>7. BitsInv
  <2>1. \A i \in OpIds : /\ op[i].type \in {"unborn", "busy"} /\ op[i].live = {} /\ op[i].next = "null"
                         /\ (op[i].type = "unborn" => op[i] = Unborn)
                         /\ (op[i].type # "unborn" => op[i].owner \in Threads)
    BY <1>a, <1>b, <1>g, InitialOps
  <2>2. \A i \in Iops : i \in OpIds
    BY Ids
  <2>3. \A i \in Eops : i \in OpIds
    BY Ids
  <2> QED BY <2>1, <2>2, <2>3 DEF BitsInv
<1>8. TransfersInv
  BY <1>0, Ids DEF TransfersInv, Idle, Underway
<1> QED BY <1>1, <1>2, <1>3, <1>4, <1>5, <1>6, <1>7, <1>8 DEF EventInv

-----------------------------------------------------------------------------
(* Frames: what each part of EventInv rests on.                              *)

ArraysKept ==
  \A t \in Threads : /\ call'[t].in \in ArrayStages <=> call[t].in \in ArrayStages
                     /\ call[t].in \in ArrayStages => call'[t] = call[t]

\* The array calls are those of before.
LEMMA ArraysFrame ==
  ASSUME ArraysKept
  PROVE  /\ InArrays' = InArrays
         /\ \A t \in Threads : /\ Passed(t)' = Passed(t) /\ Synced(t)' = Synced(t)
                               /\ call'[t].in = "bulk" <=> call[t].in = "bulk"
                               /\ t \in InArrays => call'[t] = call[t]
<1>1. InArrays' = InArrays
  BY DEF ArraysKept, ArrayStages, InArrays
<1>2. ASSUME NEW t \in Threads
      PROVE  /\ Passed(t)' = Passed(t) /\ Synced(t)' = Synced(t)
             /\ call'[t].in = "bulk" <=> call[t].in = "bulk"
             /\ t \in InArrays => call'[t] = call[t]
  <2>1. t \in InArrays => call'[t] = call[t]
    BY DEF ArraysKept, ArrayStages, InArrays
  <2>2. Passed(t)' = Passed(t)
    BY <1>1, <2>1 DEF Passed
  <2>3. Synced(t)' = Synced(t)
    BY <1>1, <2>1 DEF Synced
  <2>4. call'[t].in = "bulk" <=> call[t].in = "bulk"
    BY <1>1, <2>1 DEF InArrays
  <2> QED BY <2>1, <2>2, <2>3, <2>4
<1> QED BY <1>1, <1>2

\* A call that is not an array's, before and after, changes no array.
LEMMA OtherCall ==
  ASSUME NEW t \in Threads, call[t].in \notin ArrayStages, call'[t].in \notin ArrayStages,
         \A u \in Threads \ {t} : call'[u] = call[u]
  PROVE  ArraysKept
BY DEF ArraysKept

\* Where the lists, stacks, arrays and hands can hold ops.
LEMMA Ranges ==
  ASSUME EventTypeOK
  PROVE  /\ \A t \in Threads, l \in Lists : Listed(t, l) \subseteq OpIds /\ free[t][l] \in Seq(OpIds)
         /\ \A t \in Threads : Stacked(t) \subseteq Iops /\ cur[t] \in Seq(Iops)
         /\ \A t \in InArrays : /\ t \in Threads /\ call[t] \in ArrayCalls
                                /\ ToSet(call[t].arr) \subseteq (OpIds \X Cats) \union {Invalid}
                                /\ \A b \in Batches : ToSet(call[t].synced[b]) \subseteq OpIds
         /\ \A t \in Threads : Passed(t) \subseteq OpIds \X Cats /\ Synced(t) \subseteq OpIds
<1>1. ASSUME NEW t \in Threads, NEW l \in Lists
      PROVE  Listed(t, l) \subseteq OpIds /\ free[t][l] \in Seq(OpIds)
  BY DEF EventTypeOK, Listed, ToSet
<1>2. ASSUME NEW t \in Threads PROVE Stacked(t) \subseteq Iops /\ cur[t] \in Seq(Iops)
  BY DEF EventTypeOK, Stacked, ToSet
<1>3. ASSUME NEW t \in InArrays
      PROVE  /\ t \in Threads /\ call[t] \in ArrayCalls
             /\ ToSet(call[t].arr) \subseteq (OpIds \X Cats) \union {Invalid}
             /\ \A b \in Batches : ToSet(call[t].synced[b]) \subseteq OpIds
  <2>1. t \in Threads /\ call[t] \in ArrayCalls
    <3>1. t \in Threads /\ call[t].in \in {"pass1", "pass2", "bulk"}
      BY DEF InArrays
    <3>2. call[t] \in {Idle} \union [in : {"nbi", "nb"}, cat : Cats, left : Nat] \union ArrayCalls
      BY <3>1 DEF EventTypeOK
    <3>3. call[t] # Idle
      BY <3>1 DEF Idle
    <3>4. call[t] \notin [in : {"nbi", "nb"}, cat : Cats, left : Nat]
      BY <3>1
    <3> QED BY <3>1, <3>2, <3>3, <3>4
  <2>2. call[t].arr \in Seq((OpIds \X Cats) \union {Invalid}) /\ call[t].synced \in [Batches -> Seq(OpIds)]
    BY <2>1 DEF ArrayCalls
  <2>3. \A b \in Batches : call[t].synced[b] \in Seq(OpIds)
    BY <2>2
  <2> QED BY <2>1, <2>2, <2>3 DEF ToSet
<1>4. ASSUME NEW t \in Threads PROVE Passed(t) \subseteq OpIds \X Cats /\ Synced(t) \subseteq OpIds
  <2>1. CASE t \in InArrays
    <3>1. Passed(t) \subseteq OpIds \X Cats
      BY <1>3, <2>1 DEF Passed
    <3>2. Synced(t) \subseteq OpIds
      BY <1>3, <2>1 DEF Synced
    <3> QED BY <3>1, <3>2
  <2>2. CASE t \notin InArrays
    BY <2>2 DEF Passed, Synced
  <2> QED BY <2>1, <2>2
<1> QED BY <1>1, <1>2, <1>3, <1>4

\* The lists keep what they promise when the free ops are the same.
LEMMA ListsFrame ==
  ASSUME EventTypeOK, ListsInv, free' = free,
         \A i \in OpIds : /\ op'[i].type = "free" <=> op[i].type = "free"
                          /\ op[i].type = "free" => op'[i].owner = op[i].owner
  PROVE  ListsInv'
<1>1. \A t \in Threads, l \in Lists : Listed(t, l)' = Listed(t, l) /\ Listed(t, l) \subseteq OpIds
  BY Ranges DEF Listed
<1> QED BY <1>1 DEF ListsInv

\* The stacks keep what they promise when the open iops are the same.
LEMMA StacksFrame ==
  ASSUME EventTypeOK, StacksInv, cur' = cur,
         \A i \in Iops : /\ IsOpen(i)' <=> IsOpen(i)
                         /\ IsOpen(i) => op'[i].owner = op[i].owner /\ op'[i].next = op[i].next
  PROVE  StacksInv'
<1>1. \A t \in Threads : Stacked(t)' = Stacked(t) /\ \A k \in DOMAIN cur[t] : cur[t][k] \in Iops
  BY Ranges DEF Stacked, ToSet
<1> QED BY <1>1 DEF StacksInv

\* The client keeps what it holds when the same ops are closed and synced.
LEMMA HandsFrame ==
  ASSUME EventTypeOK, HandsInv, ArraysKept, held' = held,
         \A i \in OpIds : /\ IsClosed(i)' <=> IsClosed(i)
                          /\ op'[i].type = "pendingfree" <=> op[i].type = "pendingfree"
  PROVE  HandsInv'
<1>1. \A t \in Threads : /\ Passed(t)' = Passed(t) /\ Synced(t)' = Synced(t)
                         /\ call'[t].in = "bulk" <=> call[t].in = "bulk"
                         /\ Synced(t) \subseteq OpIds
                         /\ \A e \in Passed(t) : OpOf(e) \in OpIds
  BY ArraysFrame, Ranges, Ids
<1>2. \A e \in held : OpOf(e) \in OpIds
  BY Ids DEF EventTypeOK
<1> QED BY <1>1, <1>2 DEF HandsInv

\* The array calls keep what they promise when the ops they synced keep
\* their owners.
LEMMA ArraysInvFrame ==
  ASSUME EventTypeOK, HandsInv, ArraysInv, ArraysKept,
         \A i \in OpIds : op[i].type = "pendingfree" => op'[i].owner = op[i].owner
  PROVE  ArraysInv'
<1> SUFFICES ASSUME NEW t \in InArrays PROVE BatchesInv(call[t])' /\ ArrayInv(call[t])'
  BY ArraysFrame DEF ArraysInv
<1>1. t \in Threads /\ call'[t] = call[t]
  BY ArraysFrame, Ranges
<1>2. \A b \in Batches : \A i \in ToSet(call[t].synced[b]) : op'[i].owner = op[i].owner
  <2>1. \A b \in Batches : \A i \in ToSet(call[t].synced[b]) : i \in Synced(t) /\ i \in OpIds
    BY Ranges DEF Synced
  <2> QED BY <1>1, <2>1 DEF HandsInv
<1>3. \A b \in Batches : \A i \in ToSet(call[t].synced[b]) : Head(call[t].synced[b]) \in ToSet(call[t].synced[b])
  <2> SUFFICES ASSUME NEW b \in Batches, NEW i \in ToSet(call[t].synced[b])
               PROVE  Head(call[t].synced[b]) \in ToSet(call[t].synced[b])
    OBVIOUS
  <2>1. call[t].synced[b] \in Seq(OpIds)
    BY Ranges DEF ArrayCalls
  <2> QED BY <2>1 DEF ToSet
<1>4. BatchesInv(call[t])'
  BY <1>1, <1>2, <1>3 DEF ArraysInv, BatchesInv
<1>5. ArrayInv(call[t])'
  <2>1. ArrayInv(call[t])
    BY DEF ArraysInv
  <2> QED BY <1>1, <2>1
<1> QED BY <1>4, <1>5

\* The counters balance as before.
LEMMA CountersFrame ==
  ASSUME CountersInv,
         \A x \in Xfers : xf'[x].op = xf[x].op /\ xf'[x].cat = xf[x].cat,
         \A i \in Iops : /\ op'[i].ini = op[i].ini /\ op'[i].com = op[i].com
                         /\ op'[i].next = op[i].next
  PROVE  CountersInv'
<1>1. \A i \in Iops, c \in Cats : Pending(i, c)' = Pending(i, c)
  BY DEF Pending
<1> QED BY <1>1 DEF CountersInv

\* The event bits are as before.
LEMMA BitsFrame ==
  ASSUME BitsInv, op' = op
  PROVE  BitsInv'
BY DEF BitsInv

\* The transfers and handlers keep what they promise when the eops in use stay
\* in use and no completed counter goes back.
LEMMA TransfersFrame ==
  ASSUME EventTypeOK, TransfersInv, xf' = xf, hnd' = hnd,
         \A i \in Eops : op[i].type = "busy" /\ op[i].live = {Root} =>
                           op'[i].type = "busy" /\ op'[i].live = {Root},
         \A i \in Iops, c \in Cats : op[i].com[c] <= op'[i].com[c] /\ op'[i].com[c] \in Nat
  PROVE  TransfersInv'
<1>1. ASSUME NEW x \in Xfers
      PROVE  /\ xf'[x].st = "none" => xf'[x].op = 0
             /\ Underway(x)' => xf'[x].op # 0
             /\ xf'[x].op \in Eops =>
                  /\ op'[xf'[x].op].type = "busy" /\ op'[xf'[x].op].live = {Root}
                  /\ \A y \in Xfers \ {x} : xf'[y].op # xf'[x].op
  BY DEF TransfersInv, Underway
<1>2. ASSUME NEW p \in Pollers
      PROVE  /\ hnd'[p].in = "mark" =>
                  /\ xf'[hnd'[p].x].st = "done" /\ xf'[hnd'[p].x].op # 0
                  /\ \A q \in Pollers \ {p} : hnd'[q].in = "mark" => hnd'[q].x # hnd'[p].x
             /\ hnd'[p].in = "compare" => hnd'[p].com <= op'[hnd'[p].op].com[hnd'[p].cat]
  <2>1. /\ hnd[p].in = "mark" =>
             /\ xf[hnd[p].x].st = "done" /\ xf[hnd[p].x].op # 0
             /\ \A q \in Pollers \ {p} : hnd[q].in = "mark" => hnd[q].x # hnd[p].x
        /\ hnd[p].in = "compare" => hnd[p].com <= op[hnd[p].op].com[hnd[p].cat]
    BY DEF TransfersInv
  <2>2. ASSUME hnd[p].in = "compare"
        PROVE  hnd[p].op \in Iops /\ hnd[p].cat \in Cats /\ hnd[p].com \in Nat
               /\ op[hnd[p].op].com[hnd[p].cat] \in Nat
    <3>1. hnd[p].op \in Iops /\ hnd[p].cat \in Cats /\ hnd[p].com \in Nat
      BY <2>2 DEF EventTypeOK, Idle
    <3>2. op[hnd[p].op] \in OpRecords
      BY <3>1, Ids DEF EventTypeOK
    <3> QED BY <3>1, <3>2 DEF OpRecords
  <2> QED BY <2>1, <2>2
<1> QED BY <1>1, <1>2 DEF TransfersInv, Underway

-----------------------------------------------------------------------------
(* Transfers and their handlers.                                             *)

\* What the types say of one op.
LEMMA OpFacts ==
  ASSUME EventTypeOK, NEW i \in OpIds
  PROVE  /\ op[i] \in OpRecords /\ op[i].type \in Types /\ op[i].live \subseteq Cats
         /\ op[i].next \in {"null", "parent", "self"}
         /\ op[i].ini \in [Cats -> Nat] /\ op[i].com \in [Cats -> Nat]
         /\ \A c \in Cats : op[i].ini[c] \in Nat /\ op[i].com[c] \in Nat
BY DEF EventTypeOK, OpRecords

\* What the types say of one transfer.
LEMMA XfFacts ==
  ASSUME EventTypeOK, NEW x \in Xfers
  PROVE  /\ xf[x].op \in OpIds \union {0} /\ xf[x].cat \in Cats
         /\ xf[x].st \in {"none", "request", "reply", "done"}
BY DEF EventTypeOK

\* What the types say of a handler.
LEMMA HandlerFacts ==
  ASSUME EventTypeOK, NEW p \in Pollers
  PROVE  /\ hnd[p].in = "mark" => hnd[p].x \in Xfers
         /\ hnd[p].in = "compare" => hnd[p].op \in Iops /\ hnd[p].cat \in Cats /\ hnd[p].com \in Nat
<1>1. hnd[p] \in {Idle} \union [in : {"mark"}, x : Xfers]
                         \union [in : {"compare"}, op : Iops, cat : Cats, com : Nat]
  BY DEF EventTypeOK
<1>2. CASE hnd[p] = Idle
  BY <1>2 DEF Idle
<1>3. CASE hnd[p] \in [in : {"mark"}, x : Xfers]
  BY <1>3
<1>4. CASE hnd[p] \in [in : {"compare"}, op : Iops, cat : Cats, com : Nat]
  BY <1>4
<1> QED BY <1>1, <1>2, <1>3, <1>4

\* The transfers an op waits for are finitely many.
LEMMA PendingFinite ==
  \A i \in Iops, c \in Cats : IsFiniteSet(Pending(i, c)) /\ Cardinality(Pending(i, c)) \in Nat
<1> SUFFICES ASSUME NEW i \in Iops, NEW c \in Cats
             PROVE  IsFiniteSet(Pending(i, c)) /\ Cardinality(Pending(i, c)) \in Nat
  OBVIOUS
<1>1. IsFiniteSet(Xfers) /\ Pending(i, c) \subseteq Xfers
  BY EventsAssumption DEF Pending
<1> QED BY <1>1, FS_Subset, FS_CardinalityType

\* A message's arrival changes no op, and no event fires before its reply ran.
LEMMA ReqhStep ==
  ASSUME EventInv, NEW x \in Xfers, reqh(x)
  PROVE  EventInv'
<1> USE DEF EventInv
<1>1. /\ xf[x].st = "request" /\ xf'[x].st = "reply"
      /\ xf'[x].op = xf[x].op /\ xf'[x].cat = xf[x].cat
      /\ \A y \in Xfers \ {x} : xf'[y] = xf[y]
      /\ UNCHANGED <<op, cur, free, hnd, call, held, regions>>
  BY DEF reqh, EventTypeOK
<1>2. \A y \in Xfers : xf'[y].op = xf[y].op /\ xf'[y].cat = xf[y].cat
  BY <1>1
<1>3. EventTypeOK'
  <2>1. xf' \in [Xfers -> [op : OpIds \union {0}, cat : Cats,
                           st : {"none", "request", "reply", "done"}]]
    BY ZenonT(60) DEF reqh, EventTypeOK
  <2> QED BY <1>1, <2>1 DEF EventTypeOK
<1>4. ArraysKept
  BY <1>1 DEF ArraysKept
<1>5. ListsInv' /\ StacksInv'
  BY <1>1, ListsFrame, StacksFrame DEF IsOpen
<1>6. HandsInv' /\ ArraysInv'
  BY <1>1, <1>4, HandsFrame, ArraysInvFrame DEF IsClosed
<1>7. CountersInv' /\ BitsInv'
  BY <1>1, <1>2, CountersFrame, BitsFrame
<1>8. TransfersInv'
  <2>1. ASSUME NEW y \in Xfers
        PROVE  /\ xf'[y].st = "none" => xf'[y].op = 0
               /\ Underway(y)' => xf'[y].op # 0
               /\ xf'[y].op \in Eops =>
                    /\ op'[xf'[y].op].type = "busy" /\ op'[xf'[y].op].live = {Root}
                    /\ \A z \in Xfers \ {y} : xf'[z].op # xf'[y].op
    BY <1>1, <1>2 DEF TransfersInv, Underway
  <2>2. ASSUME NEW p \in Pollers
        PROVE  /\ hnd'[p].in = "mark" =>
                    /\ xf'[hnd'[p].x].st = "done" /\ xf'[hnd'[p].x].op # 0
                    /\ \A q \in Pollers \ {p} : hnd'[q].in = "mark" => hnd'[q].x # hnd'[p].x
               /\ hnd'[p].in = "compare" => hnd'[p].com <= op'[hnd'[p].op].com[hnd'[p].cat]
    BY <1>1, <1>2, HandlerFacts DEF TransfersInv
  <2> QED BY <2>1, <2>2 DEF TransfersInv, Underway
<1> QED BY <1>3, <1>5, <1>6, <1>7, <1>8

\* A reply handler has copied the data: its MARK_DONE comes next.
LEMMA RephStep ==
  ASSUME EventInv, NEW p \in Pollers, NEW x \in Xfers, reph(p, x)
  PROVE  EventInv'
<1> USE DEF EventInv
<1>1. /\ xf[x].st = "reply" /\ xf'[x].st = "done"
      /\ xf'[x].op = xf[x].op /\ xf'[x].cat = xf[x].cat
      /\ \A y \in Xfers \ {x} : xf'[y] = xf[y]
      /\ hnd'[p].in = "mark" /\ hnd'[p].x = x
      /\ \A q \in Pollers \ {p} : hnd'[q] = hnd[q]
      /\ UNCHANGED <<op, cur, free, call, held, regions>>
  BY DEF reph, EventTypeOK
<1>2. \A y \in Xfers : xf'[y].op = xf[y].op /\ xf'[y].cat = xf[y].cat
  BY <1>1
<1>3. EventTypeOK'
  <2>1. xf' \in [Xfers -> [op : OpIds \union {0}, cat : Cats,
                           st : {"none", "request", "reply", "done"}]]
    BY ZenonT(60) DEF reph, EventTypeOK
  <2>2. hnd' \in [Pollers -> {Idle} \union [in : {"mark"}, x : Xfers]
                         \union [in : {"compare"}, op : Iops, cat : Cats, com : Nat]]
    BY DEF reph, EventTypeOK
  <2> QED BY <1>1, <2>1, <2>2 DEF EventTypeOK
<1>4. ArraysKept
  BY <1>1 DEF ArraysKept
<1>5. ListsInv' /\ StacksInv'
  BY <1>1, ListsFrame, StacksFrame DEF IsOpen
<1>6. HandsInv' /\ ArraysInv'
  BY <1>1, <1>4, HandsFrame, ArraysInvFrame DEF IsClosed
<1>7. CountersInv' /\ BitsInv'
  BY <1>1, <1>2, CountersFrame, BitsFrame
<1>8. TransfersInv'
  <2>1. ASSUME NEW y \in Xfers
        PROVE  /\ xf'[y].st = "none" => xf'[y].op = 0
               /\ Underway(y)' => xf'[y].op # 0
               /\ xf'[y].op \in Eops =>
                    /\ op'[xf'[y].op].type = "busy" /\ op'[xf'[y].op].live = {Root}
                    /\ \A z \in Xfers \ {y} : xf'[z].op # xf'[y].op
    BY <1>1, <1>2 DEF TransfersInv, Underway
  <2>2. ASSUME NEW q \in Pollers
        PROVE  /\ hnd'[q].in = "mark" =>
                    /\ xf'[hnd'[q].x].st = "done" /\ xf'[hnd'[q].x].op # 0
                    /\ \A r \in Pollers \ {q} : hnd'[r].in = "mark" => hnd'[r].x # hnd'[q].x
               /\ hnd'[q].in = "compare" => hnd'[q].com <= op'[hnd'[q].op].com[hnd'[q].cat]
    <3>1. xf[x].op # 0
      BY <1>1 DEF TransfersInv, Underway
    <3>2. \A r \in Pollers : hnd[r].in = "mark" => hnd[r].x \in Xfers /\ hnd[r].x # x
      BY <1>1, HandlerFacts DEF TransfersInv
    <3>3. CASE q = p
      BY <1>1, <3>1, <3>2, <3>3
    <3>4. CASE q # p
      BY <1>1, <1>2, <3>2, <3>4 DEF TransfersInv
    <3> QED BY <3>3, <3>4
  <2> QED BY <2>1, <2>2 DEF TransfersInv, Underway
<1> QED BY <1>3, <1>5, <1>6, <1>7, <1>8

\* One transfer less to wait for.
LEMMA PendingLess ==
  ASSUME NEW i \in Iops, NEW c \in Cats, NEW x \in Pending(i, c)
  PROVE  /\ Cardinality(Pending(i, c)) >= 1
         /\ Cardinality(Pending(i, c) \ {x}) = Cardinality(Pending(i, c)) - 1
<1>1. IsFiniteSet(Pending(i, c)) /\ Cardinality(Pending(i, c)) \in Nat
  BY PendingFinite
<1>2. Cardinality(Pending(i, c)) # 0
  BY <1>1, FS_EmptySet
<1>3. Cardinality(Pending(i, c) \ {x}) = Cardinality(Pending(i, c)) - 1
  BY <1>1, FS_RemoveElement
<1> QED BY <1>1, <1>2, <1>3

\* One transfer more.
LEMMA PendingMore ==
  ASSUME NEW i \in Iops, NEW c \in Cats, NEW x, x \notin Pending(i, c)
  PROVE  Cardinality(Pending(i, c) \union {x}) = Cardinality(Pending(i, c)) + 1
BY PendingFinite, FS_AddElement

\* An op is its fields.
LEMMA SameOp ==
  ASSUME NEW o \in OpRecords, NEW q \in OpRecords,
         o.owner = q.owner, o.type = q.type, o.live = q.live, o.ini = q.ini, o.com = q.com,
         o.next = q.next
  PROVE  o = q
<1>1. ASSUME NEW r \in OpRecords
      PROVE  r = [owner |-> r.owner, type |-> r.type, live |-> r.live, ini |-> r.ini,
                  com |-> r.com, next |-> r.next]
  BY DEF OpRecords
<1>2. /\ o = [owner |-> o.owner, type |-> o.type, live |-> o.live, ini |-> o.ini,
              com |-> o.com, next |-> o.next]
      /\ q = [owner |-> q.owner, type |-> q.type, live |-> q.live, ini |-> q.ini,
              com |-> q.com, next |-> q.next]
  BY <1>1
<1> QED BY <1>2

\* A MARK_DONE takes the transfer off what its op waits for, and an eop's
\* event is marked.
LEMMA MarkdoneStep ==
  ASSUME EventInv, NEW p \in Pollers, markdone(p)
  PROVE  EventInv'
<1> DEFINE x == hnd[p].x
           i == xf[x].op
           c == xf[x].cat
<1> USE DEF EventInv
<1>1. hnd[p].in = "mark" /\ x \in Xfers /\ xf[x].st = "done" /\ i \in OpIds /\ c \in Cats
  BY HandlerFacts, XfFacts DEF markdone, TransfersInv
<1>2. /\ op' = IF i \in Eops THEN [op EXCEPT ![i].live = {}]
              ELSE [op EXCEPT ![i].com[c] = @ + 1]
      /\ hnd' = [hnd EXCEPT ![p] =
                  IF i \in Eops \/ op[i].next = "null" THEN Idle
                  ELSE [in |-> "compare", op |-> i, cat |-> c, com |-> op[i].com[c] + 1]]
      /\ xf' = [xf EXCEPT ![x] = Gone]
      /\ UNCHANGED <<cur, free, call, held, regions>>
  BY DEF markdone
<1> HIDE DEF x, i, c
<1>3. op[i] \in OpRecords /\ op[i].com \in [Cats -> Nat] /\ op[i].com[c] \in Nat
  BY <1>1, OpFacts
<1>4. \A j \in OpIds \ {i} : op'[j] = op[j]
  BY <1>2 DEF EventTypeOK
<1>5. /\ op'[i].type = op[i].type /\ op'[i].owner = op[i].owner /\ op'[i].next = op[i].next
      /\ op'[i].ini = op[i].ini
      /\ i \in Eops => op'[i].live = {} /\ op'[i].com = op[i].com
      /\ i \in Iops => /\ op'[i].live = op[i].live /\ op'[i].com[c] = op[i].com[c] + 1
                       /\ \A d \in Cats \ {c} : op'[i].com[d] = op[i].com[d]
      /\ op'[i] \in OpRecords
  <2>1. CASE i \in Eops
    <3>1. op'[i] = [op[i] EXCEPT !.live = {}]
      BY <1>1, <1>2, <2>1 DEF EventTypeOK
    <3>2. i \notin Iops
      BY <1>1, <2>1, Ids
    <3> QED BY <1>3, <2>1, <3>1, <3>2 DEF OpRecords
  <2>2. CASE i \notin Eops
    <3>1. op'[i] = [op[i] EXCEPT !.com[c] = @ + 1]
      <4>1. op' = [op EXCEPT ![i].com[c] = @ + 1]
        BY <1>2, <2>2
      <4> QED BY <1>1, <4>1 DEF EventTypeOK
    <3> QED BY <1>1, <1>3, <2>2, <3>1 DEF OpRecords
  <2> QED BY <2>1, <2>2
<1>6. /\ xf'[x].op = 0 /\ xf'[x].st = "done" /\ xf'[x].cat = Root
      /\ \A y \in Xfers \ {x} : xf'[y] = xf[y]
  BY <1>1, <1>2 DEF EventTypeOK, Gone
<1>7. /\ \A q \in Pollers \ {p} : hnd'[q] = hnd[q]
      /\ hnd'[p].in # "mark"
      /\ hnd'[p].in = "compare" => /\ hnd'[p].op = i /\ hnd'[p].cat = c /\ i \in Iops
                                   /\ hnd'[p].com = op[i].com[c] + 1
  BY <1>1, <1>2, Ids DEF EventTypeOK, Idle
<1>8. \A j \in OpIds : /\ op'[j].type = op[j].type /\ op'[j].owner = op[j].owner
                       /\ op'[j].next = op[j].next
  BY <1>4, <1>5
<1>9. \A j \in Iops : j \in OpIds /\ j \notin Eops
  BY Ids
<1>10. EventTypeOK'
  <2>1. op' \in [OpIds -> OpRecords]
    BY <1>2, <1>4, <1>5 DEF EventTypeOK
  <2>2. xf' \in [Xfers -> [op : OpIds \union {0}, cat : Cats,
                           st : {"none", "request", "reply", "done"}]]
    BY <1>2, Ids DEF EventTypeOK, Gone
  <2>3. hnd' \in [Pollers -> {Idle} \union [in : {"mark"}, x : Xfers]
                         \union [in : {"compare"}, op : Iops, cat : Cats, com : Nat]]
    BY <1>1, <1>2, <1>3, Ids DEF EventTypeOK
  <2> QED BY <1>2, <2>1, <2>2, <2>3 DEF EventTypeOK
<1>11. ArraysKept
  BY <1>2 DEF ArraysKept
<1>12. ListsInv' /\ StacksInv'
  BY <1>2, <1>8, <1>9, ListsFrame, StacksFrame DEF IsOpen
<1>13. HandsInv' /\ ArraysInv'
  BY <1>2, <1>8, <1>11, HandsFrame, ArraysInvFrame DEF IsClosed
<1>14. CountersInv'
  <2> SUFFICES ASSUME NEW j \in Iops, NEW d \in Cats
               PROVE  op'[j].ini[d] = op'[j].com[d] + Cardinality(Pending(j, d)')
                        + (IF op'[j].next = "parent" THEN 1 ELSE 0)
    BY DEF CountersInv
  <2>1. /\ op[j].ini[d] = op[j].com[d] + Cardinality(Pending(j, d))
                            + (IF op[j].next = "parent" THEN 1 ELSE 0)
        /\ op[j].ini[d] \in Nat /\ op[j].com[d] \in Nat
    BY <1>9, OpFacts DEF CountersInv
  <2>2. CASE j = i /\ d = c
    <3>1. x \in Pending(j, d) /\ Pending(j, d)' = Pending(j, d) \ {x}
      BY <1>1, <1>6, <1>9, <2>2, Ids DEF Pending, x, i, c
    <3>2. /\ Cardinality(Pending(j, d)) \in Nat
          /\ Cardinality(Pending(j, d)') = Cardinality(Pending(j, d)) - 1
      BY <3>1, PendingLess, PendingFinite
    <3>3. op'[j].com[d] = op[j].com[d] + 1 /\ op'[j].ini[d] = op[j].ini[d] /\ op'[j].next = op[j].next
      BY <1>5, <2>2
    <3> QED BY <2>1, <3>2, <3>3
  <2>3. CASE j # i \/ d # c
    <3>1. Pending(j, d)' = Pending(j, d)
      BY <1>1, <1>6, <1>9, <2>3, Ids DEF Pending, x, i, c
    <3>2. op'[j].com[d] = op[j].com[d] /\ op'[j].ini[d] = op[j].ini[d] /\ op'[j].next = op[j].next
      BY <1>4, <1>5, <1>9, <2>3
    <3> QED BY <2>1, <3>1, <3>2
  <2> QED BY <2>2, <2>3
\* an iop that waits for a transfer has the event of its category live
<1>15. i \in Iops => op[i].ini[c] # op[i].com[c]
  <2> SUFFICES ASSUME i \in Iops PROVE op[i].ini[c] # op[i].com[c]
    OBVIOUS
  <2>1. x \in Pending(i, c)
    BY <1>1 DEF Pending, x, i, c
  <2>2. Cardinality(Pending(i, c)) \in Nat /\ Cardinality(Pending(i, c)) >= 1
    BY <1>1, <2>1, PendingLess, PendingFinite
  <2>3. op[i].ini[c] = op[i].com[c] + Cardinality(Pending(i, c))
                            + (IF op[i].next = "parent" THEN 1 ELSE 0)
    BY <1>1 DEF CountersInv
  <2> QED BY <1>3, <2>2, <2>3
<1>16. BitsInv'
  <2>1. i \in OpIds /\ op[i].type # "unborn"
    <3>1. CASE i \in Eops
      BY <1>1, <3>1 DEF TransfersInv, x, i
    <3>2. CASE i \in Iops
      <4>1. op[i].type = "unborn" => op[i] = Unborn
        BY <1>1 DEF BitsInv
      <4>2. Unborn.ini[c] = Unborn.com[c]
        BY NewOps
      <4> QED BY <1>1, <1>15, <3>2, <4>1, <4>2
    <3> QED BY <1>1, <3>1, <3>2, Ids
  <2>2. i \in Iops => /\ op'[i].next = "parent" => op'[i].type = "busy" /\ op'[i].live = Cats
                      /\ op'[i].type \in {"free", "pendingfree"} => op'[i].next = "self"
                      /\ op'[i].next = "self" =>
                           \A d \in Cats \ op'[i].live : op'[i].ini[d] = op'[i].com[d]
    <3> SUFFICES ASSUME i \in Iops
                 PROVE  /\ op'[i].next = "parent" => op'[i].type = "busy" /\ op'[i].live = Cats
                        /\ op'[i].type \in {"free", "pendingfree"} => op'[i].next = "self"
                        /\ op'[i].next = "self" =>
                             \A d \in Cats \ op'[i].live : op'[i].ini[d] = op'[i].com[d]
      OBVIOUS
    <3>1. /\ op[i].next = "parent" => op[i].type = "busy" /\ op[i].live = Cats
          /\ op[i].type \in {"free", "pendingfree"} => op[i].next = "self"
          /\ op[i].next = "self" => \A d \in Cats \ op[i].live : op[i].ini[d] = op[i].com[d]
      BY DEF BitsInv
    <3>2. op[i].next = "self" => c \in op[i].live
      BY <1>1, <1>15, <3>1
    <3> QED BY <1>5, <3>1, <3>2
  <2>3. op'[i].type \in {"free", "pendingfree"} => op'[i].live = {}
    BY <1>5, <2>1, Ids DEF BitsInv
  <2>4. op'[i].owner \in Threads
    BY <1>5, <2>1 DEF BitsInv
  <2>5. i \in Eops => op'[i].live \subseteq {Root}
    BY <1>5
  <2>6. \A j \in OpIds : /\ op'[j].type \in {"free", "pendingfree"} => op'[j].live = {}
                         /\ op'[j].type = "unborn" => op'[j] = Unborn
                         /\ op'[j].type # "unborn" => op'[j].owner \in Threads
    BY <1>4, <1>8, <2>1, <2>3, <2>4 DEF BitsInv
  <2>7. \A j \in Iops : /\ op'[j].type \in {"free", "pendingfree"} => op'[j].next = "self"
                        /\ op'[j].next = "parent" => op'[j].type = "busy" /\ op'[j].live = Cats
                        /\ op'[j].next = "self" =>
                             \A d \in Cats \ op'[j].live : op'[j].ini[d] = op'[j].com[d]
    <3> SUFFICES ASSUME NEW j \in Iops, j # i
                 PROVE  /\ op'[j].type \in {"free", "pendingfree"} => op'[j].next = "self"
                        /\ op'[j].next = "parent" => op'[j].type = "busy" /\ op'[j].live = Cats
                        /\ op'[j].next = "self" =>
                             \A d \in Cats \ op'[j].live : op'[j].ini[d] = op'[j].com[d]
      BY <2>2
    <3>1. op'[j] = op[j]
      BY <1>4, <1>9
    <3> QED BY <3>1 DEF BitsInv
  <2>8. \A j \in Eops : op'[j].live \subseteq {Root}
    BY <1>4, <2>5, Ids DEF BitsInv
  <2> QED BY <2>6, <2>7, <2>8 DEF BitsInv
<1>17. TransfersInv'
  <2>1. ASSUME NEW y \in Xfers
        PROVE  /\ xf'[y].st = "none" => xf'[y].op = 0
               /\ Underway(y)' => xf'[y].op # 0
               /\ xf'[y].op \in Eops =>
                    /\ op'[xf'[y].op].type = "busy" /\ op'[xf'[y].op].live = {Root}
                    /\ \A z \in Xfers \ {y} : xf'[z].op # xf'[y].op
    <3>1. CASE y = x
      BY <1>6, <3>1, Ids DEF Underway
    <3>2. CASE y # x
      <4>1. xf'[y] = xf[y]
        BY <1>6, <3>2
      <4>2. xf[y].op \in Eops => xf[y].op # i
        BY <1>1, <3>2 DEF TransfersInv, i
      <4>3. xf[y].op \in Eops => op'[xf[y].op] = op[xf[y].op]
        BY <1>4, <4>2, Ids
      <4> QED BY <1>6, <4>1, <4>3, Ids DEF TransfersInv, Underway
    <3> QED BY <3>1, <3>2
  <2>2. ASSUME NEW q \in Pollers
        PROVE  /\ hnd'[q].in = "mark" =>
                    /\ xf'[hnd'[q].x].st = "done" /\ xf'[hnd'[q].x].op # 0
                    /\ \A r \in Pollers \ {q} : hnd'[r].in = "mark" => hnd'[r].x # hnd'[q].x
               /\ hnd'[q].in = "compare" => hnd'[q].com <= op'[hnd'[q].op].com[hnd'[q].cat]
    <3>1. CASE q = p
      BY <1>3, <1>5, <1>7, <3>1
    <3>2. CASE q # p
      <4>1. hnd'[q] = hnd[q]
        BY <1>7, <3>2
      <4>2. hnd[q].in = "mark" => /\ hnd[q].x # x /\ hnd[q].x \in Xfers
                                  /\ xf'[hnd[q].x] = xf[hnd[q].x]
        BY <1>1, <1>6, <3>2, HandlerFacts DEF TransfersInv, x
      <4>3. hnd[q].in = "compare" =>
              op[hnd[q].op].com[hnd[q].cat] <= op'[hnd[q].op].com[hnd[q].cat]
              /\ op[hnd[q].op].com[hnd[q].cat] \in Nat /\ hnd[q].com \in Nat
              /\ op'[hnd[q].op].com[hnd[q].cat] \in Nat
        <5> SUFFICES ASSUME hnd[q].in = "compare"
                     PROVE  op[hnd[q].op].com[hnd[q].cat] <= op'[hnd[q].op].com[hnd[q].cat]
                            /\ op[hnd[q].op].com[hnd[q].cat] \in Nat /\ hnd[q].com \in Nat
                            /\ op'[hnd[q].op].com[hnd[q].cat] \in Nat
          OBVIOUS
        <5>1. hnd[q].op \in Iops /\ hnd[q].op \in OpIds /\ hnd[q].cat \in Cats /\ hnd[q].com \in Nat
              /\ op[hnd[q].op].com[hnd[q].cat] \in Nat
          BY HandlerFacts, Ids, OpFacts
        <5> QED BY <1>4, <1>5, <5>1
      <4>4. hnd[q].in = "compare" => hnd[q].com <= op[hnd[q].op].com[hnd[q].cat]
        BY DEF TransfersInv
      <4>5. hnd[q].in = "mark" =>
               /\ xf[hnd[q].x].st = "done" /\ xf[hnd[q].x].op # 0
               /\ \A r \in Pollers \ {q} : hnd[r].in = "mark" => hnd[r].x # hnd[q].x
        BY DEF TransfersInv
      <4>6. \A r \in Pollers \ {q} : hnd'[r].in = "mark" => hnd'[r] = hnd[r]
        BY <1>7
      <4>7. hnd[q].in = "compare" => hnd[q].com <= op'[hnd[q].op].com[hnd[q].cat]
        BY <4>3, <4>4
      <4> QED BY <4>1, <4>2, <4>5, <4>6, <4>7
    <3> QED BY <3>1, <3>2
  <2> QED BY <2>1, <2>2 DEF TransfersInv, Underway
<1> QED BY <1>10, <1>12, <1>13, <1>14, <1>16, <1>17

\* The handler that saw the counters meet marks the event, and no other: the
\* op may have been recycled in between, but then its counters do not meet.
LEMMA FinishStep ==
  ASSUME EventInv, NEW p \in Pollers, finish_compare(p)
  PROVE  EventInv'
<1> DEFINE h == hnd[p]
           i == hnd[p].op
<1> USE DEF EventInv
<1>1. h.in = "compare" /\ i \in Iops /\ i \in OpIds /\ i \notin Eops /\ h.cat \in Cats /\ h.com \in Nat
      /\ h.com <= op[i].com[h.cat]
  BY HandlerFacts, Ids DEF finish_compare, TransfersInv
<1>2. /\ \A j \in OpIds \ {i} : op'[j] = op[j]
      /\ op'[i].type = op[i].type /\ op'[i].owner = op[i].owner /\ op'[i].next = op[i].next
      /\ op'[i].ini = op[i].ini /\ op'[i].com = op[i].com
      /\ op'[i].live \subseteq op[i].live
      /\ op'[i] \in OpRecords /\ op' = [j \in OpIds |-> op'[j]]
      /\ op'[i] = op[i] \/ (h.com = op[i].ini[h.cat] /\ op'[i].live = op[i].live \ {h.cat})
  <2>1. op[i] \in OpRecords
    BY <1>1, OpFacts
  <2>2. op' = op \/ (h.com = op[i].ini[h.cat] /\ op' = [op EXCEPT ![i].live = @ \ {h.cat}])
    BY DEF finish_compare, CountersMeet
  <2>3. CASE op' = op
    BY <2>1, <2>3 DEF EventTypeOK
  <2>4. CASE h.com = op[i].ini[h.cat] /\ op' = [op EXCEPT ![i].live = @ \ {h.cat}]
    <3> HIDE DEF h, i
    <3>1. /\ op'[i] = [op[i] EXCEPT !.live = op[i].live \ {h.cat}] /\ op' = [j \in OpIds |-> op'[j]]
          /\ \A j \in OpIds \ {i} : op'[j] = op[j]
      BY <1>1, <2>4 DEF EventTypeOK
    <3> QED BY <2>1, <2>4, <3>1 DEF OpRecords
  <2> QED BY <2>2, <2>3, <2>4
<1>3. /\ hnd' = [hnd EXCEPT ![p] = Idle]
      /\ UNCHANGED <<cur, free, xf, call, held, regions>>
  BY DEF finish_compare
<1> HIDE DEF h, i
<1>4. \A j \in OpIds : /\ op'[j].type = op[j].type /\ op'[j].owner = op[j].owner
                       /\ op'[j].next = op[j].next /\ op'[j].ini = op[j].ini
                       /\ op'[j].com = op[j].com
  BY <1>2
<1>5. \A j \in Iops : j \in OpIds /\ j \notin Eops
  BY Ids
<1>6. \A q \in Pollers : hnd'[q] = hnd[q] \/ hnd'[q].in = "client"
  BY <1>3 DEF EventTypeOK, Idle
<1>7. EventTypeOK'
  <2>1. op' \in [OpIds -> OpRecords]
    BY <1>2 DEF EventTypeOK
  <2>2. hnd' \in [Pollers -> {Idle} \union [in : {"mark"}, x : Xfers]
                         \union [in : {"compare"}, op : Iops, cat : Cats, com : Nat]]
    BY <1>3 DEF EventTypeOK
  <2> QED BY <1>3, <2>1, <2>2 DEF EventTypeOK
<1>8. ArraysKept
  BY <1>3 DEF ArraysKept
<1>9. ListsInv' /\ StacksInv'
  BY <1>3, <1>4, <1>5, ListsFrame, StacksFrame DEF IsOpen
<1>10. HandsInv' /\ ArraysInv'
  BY <1>3, <1>4, <1>8, HandsFrame, ArraysInvFrame DEF IsClosed
<1>11. CountersInv'
  BY <1>3, <1>4, <1>5, CountersFrame
<1>12. BitsInv'
  <2>1. \A j \in OpIds : /\ op'[j].type \in {"free", "pendingfree"} => op'[j].live = {}
                         /\ op'[j].type = "unborn" => op'[j] = Unborn
                         /\ op'[j].type # "unborn" => op'[j].owner \in Threads
    <3>1. op[i].type = "unborn" => op'[i] = op[i]
      <4> SUFFICES ASSUME op[i].type = "unborn" PROVE op'[i] = op[i]
        OBVIOUS
      <4>1. op[i] = Unborn /\ op[i].live = {}
        BY <1>1, NewOps DEF BitsInv
      <4>2. op'[i].live = op[i].live
        BY <1>2, <4>1
      <4> QED BY <1>1, <1>2, <4>2, OpFacts, SameOp
    <3> QED BY <1>2, <1>4, <3>1 DEF BitsInv
  <2>2. ASSUME NEW j \in Iops
        PROVE  /\ op'[j].type \in {"free", "pendingfree"} => op'[j].next = "self"
               /\ op'[j].next = "parent" => op'[j].type = "busy" /\ op'[j].live = Cats
               /\ op'[j].next = "self" =>
                    \A d \in Cats \ op'[j].live : op'[j].ini[d] = op'[j].com[d]
    <3>1. /\ op[j].type \in {"free", "pendingfree"} => op[j].next = "self"
          /\ op[j].next = "parent" => op[j].type = "busy" /\ op[j].live = Cats
          /\ op[j].next = "self" => \A d \in Cats \ op[j].live : op[j].ini[d] = op[j].com[d]
      BY DEF BitsInv
    <3>2. CASE op'[j] = op[j]
      BY <3>1, <3>2
    <3>3. CASE j = i /\ h.com = op[i].ini[h.cat] /\ op'[i].live = op[i].live \ {h.cat}
      <4>1. /\ op[i].ini[h.cat] = op[i].com[h.cat] + Cardinality(Pending(i, h.cat))
                                   + (IF op[i].next = "parent" THEN 1 ELSE 0)
            /\ Cardinality(Pending(i, h.cat)) \in Nat /\ op[i].com[h.cat] \in Nat
        BY <1>1, OpFacts, PendingFinite DEF CountersInv
      <4>2. op[i].next # "parent" /\ op[i].ini[h.cat] = op[i].com[h.cat]
        BY <1>1, <3>3, <4>1
      <4> QED BY <1>2, <3>1, <3>3, <4>2
    <3> QED BY <1>2, <1>5, <3>2, <3>3
  <2>3. \A j \in Eops : op'[j].live \subseteq {Root}
    BY <1>1, <1>2, Ids DEF BitsInv
  <2> QED BY <2>1, <2>2, <2>3 DEF BitsInv
<1>13. TransfersInv'
  <2>1. \A j \in Eops : op'[j] = op[j]
    BY <1>1, <1>2, Ids
  <2>2. ASSUME NEW y \in Xfers
        PROVE  /\ xf'[y].st = "none" => xf'[y].op = 0
               /\ Underway(y)' => xf'[y].op # 0
               /\ xf'[y].op \in Eops =>
                    /\ op'[xf'[y].op].type = "busy" /\ op'[xf'[y].op].live = {Root}
                    /\ \A z \in Xfers \ {y} : xf'[z].op # xf'[y].op
    BY <1>3, <2>1 DEF TransfersInv, Underway
  <2>3. ASSUME NEW q \in Pollers
        PROVE  /\ hnd'[q].in = "mark" =>
                    /\ xf'[hnd'[q].x].st = "done" /\ xf'[hnd'[q].x].op # 0
                    /\ \A r \in Pollers \ {q} : hnd'[r].in = "mark" => hnd'[r].x # hnd'[q].x
               /\ hnd'[q].in = "compare" => hnd'[q].com <= op'[hnd'[q].op].com[hnd'[q].cat]
    <3>1. \A r \in Pollers : hnd'[r].in = "mark" => hnd'[r] = hnd[r]
      BY <1>6
    <3>2. hnd'[q].in = "compare" => hnd'[q] = hnd[q] /\ op'[hnd[q].op].com = op[hnd[q].op].com
      <4>1. hnd'[q].in = "compare" => hnd'[q] = hnd[q]
        BY <1>6
      <4>2. hnd[q].in = "compare" => hnd[q].op \in OpIds
        BY HandlerFacts, Ids
      <4> QED BY <1>4, <4>1, <4>2
    <3> QED BY <1>3, <3>1, <3>2 DEF TransfersInv
  <2> QED BY <2>2, <2>3 DEF TransfersInv, Underway
<1> QED BY <1>7, <1>9, <1>10, <1>11, <1>12, <1>13

-----------------------------------------------------------------------------
(* Ops off and onto the lists.                                               *)

\* The kinds of lists are four.
LEMMA Kinds ==
  ASSUME NEW k \in {"iop", "eop"}
  PROVE  /\ k \in Lists /\ Foreign(k) \in Lists /\ Foreign(k) # k
         /\ k = "eop" <=> k \in {"eop", "feop"}
         /\ k = "eop" <=> Foreign(k) \in {"eop", "feop"}
BY DEF Lists, Foreign

\* The op a thread takes from its lists is free, its own and of the right kind.
LEMMA TakenOp ==
  ASSUME EventTypeOK, ListsInv, NEW t \in Threads, NEW k \in {"iop", "eop"},
         Available(t, k) # <<>>
  PROVE  LET h == Head(Available(t, k)) IN
           /\ h \in OpIds /\ op[h].type = "free" /\ op[h].owner = t
           /\ h \in Eops <=> k = "eop"
           /\ free[t][k] # <<>> => h \in Listed(t, k)
           /\ free[t][k] = <<>> => h \in Listed(t, Foreign(k))
           /\ free[t][k] # <<>> => Listed(t, k) # {}
<1> DEFINE src == IF free[t][k] # <<>> THEN k ELSE Foreign(k)
           s == free[t][src]
           h == Head(s)
<1>1. src \in Lists /\ s \in Seq(OpIds) /\ s # <<>> /\ Available(t, k) = s
      /\ (src \in {"eop", "feop"} <=> k = "eop") /\ IsInjective(s)
  BY Kinds DEF EventTypeOK, Available, ListsInv
<1>2. h \in ToSet(s) /\ h \in OpIds
  BY <1>1, TailFacts
<1>3. op[h].type = "free" /\ op[h].owner = t /\ (h \in Eops <=> src \in {"eop", "feop"})
  BY <1>1, <1>2 DEF ListsInv, Listed
<1>4. h \in Listed(t, src)
  BY <1>2 DEF Listed
<1> QED BY <1>1, <1>2, <1>3, <1>4

\* Two lists of one thread replaced.
LEMMA TwoLists ==
  ASSUME NEW fr \in [Threads -> [Lists -> Seq(OpIds)]], NEW t \in Threads,
         NEW k \in Lists, NEW f \in Lists, f # k, NEW A \in Seq(OpIds), NEW B \in Seq(OpIds),
         NEW g, g = [fr EXCEPT ![t][k] = A, ![t][f] = B]
  PROVE  /\ g \in [Threads -> [Lists -> Seq(OpIds)]]
         /\ g[t][k] = A /\ g[t][f] = B
         /\ \A u \in Threads, l \in Lists : (u # t \/ l \notin {k, f}) => g[u][l] = fr[u][l]
<1> DEFINE g1 == [fr EXCEPT ![t][k] = A]
<1>1. g1 \in [Threads -> [Lists -> Seq(OpIds)]]
      /\ g1[t] = [fr[t] EXCEPT ![k] = A] /\ \A u \in Threads \ {t} : g1[u] = fr[u]
  OBVIOUS
<1>2. g = [g1 EXCEPT ![t][f] = B]
  OBVIOUS
<1> HIDE DEF g1
<1>a. g1 \in [Threads -> [Lists -> Seq(OpIds)]]
  BY <1>1
<1>b. g \in [Threads -> [Lists -> Seq(OpIds)]]
  BY <1>a, <1>2
<1>c. g[t] = [g1[t] EXCEPT ![f] = B]
  BY <1>a, <1>2
<1>d. \A u \in Threads \ {t} : g[u] = g1[u]
  BY <1>a, <1>2
<1>3. g \in [Threads -> [Lists -> Seq(OpIds)]]
      /\ g[t] = [g1[t] EXCEPT ![f] = B] /\ \A u \in Threads \ {t} : g[u] = g1[u]
  BY <1>b, <1>c, <1>d
<1>4. fr[t] \in [Lists -> Seq(OpIds)] /\ g1[t] \in [Lists -> Seq(OpIds)]
  BY <1>1
<1> QED BY <1>1, <1>3, <1>4

\* What is left of the lists.
LEMMA TakenLists ==
  ASSUME EventTypeOK, ListsInv, NEW t \in Threads, NEW k \in {"iop", "eop"},
         Available(t, k) # <<>>, free' = TakeFrom(t, k, Available(t, k))
  PROVE  /\ free' \in [Threads -> [Lists -> Seq(OpIds)]]
         /\ \A u \in Threads, l \in Lists : IsInjective(free'[u][l])
         /\ \/ \A u \in Threads, l \in Lists :
                 Listed(u, l)' = Listed(u, l) \ {Head(Available(t, k))}
            \/ /\ Listed(t, k) = {} /\ Listed(t, Foreign(k))' = {}
               /\ Listed(t, k)' = Listed(t, Foreign(k)) \ {Head(Available(t, k))}
               /\ \A u \in Threads, l \in Lists :
                    (u # t \/ l \notin {k, Foreign(k)}) => Listed(u, l)' = Listed(u, l)
<1> DEFINE f == Foreign(k)
<1>1. k \in Lists /\ f \in Lists /\ f # k
  BY Kinds
<1>2. /\ free \in [Threads -> [Lists -> Seq(OpIds)]]
      /\ \A u \in Threads : free[u] \in [Lists -> Seq(OpIds)]
      /\ \A u \in Threads, l \in Lists : free[u][l] \in Seq(OpIds)
  BY DEF EventTypeOK
<1> HIDE DEF f
<1>3. CASE free[t][k] # <<>>
  <2> DEFINE h == Head(free[t][k])
  <2>1. Available(t, k) = free[t][k]
    BY <1>3 DEF Available
  <2>2. free' = [free EXCEPT ![t][k] = Tail(free[t][k])]
    BY <1>3, <2>1 DEF TakeFrom
  <2>3. /\ free'[t][k] = Tail(free[t][k])
        /\ \A u \in Threads, l \in Lists : (u # t \/ l # k) => free'[u][l] = free[u][l]
    <3>1. free'[t] = [free[t] EXCEPT ![k] = Tail(free[t][k])]
      BY <1>1, <1>2, <2>2
    <3>2. \A u \in Threads \ {t} : free'[u] = free[u]
      BY <1>2, <2>2
    <3>3. free[t] \in [Lists -> Seq(OpIds)]
      BY <1>2
    <3> QED BY <1>1, <3>1, <3>2, <3>3
  <2>4. /\ Tail(free[t][k]) \in Seq(OpIds) /\ IsInjective(Tail(free[t][k]))
        /\ ToSet(Tail(free[t][k])) = ToSet(free[t][k]) \ {h} /\ h \in ToSet(free[t][k])
    BY <1>1, <1>2, <1>3, TailFacts DEF ListsInv
  <2>5. free' \in [Threads -> [Lists -> Seq(OpIds)]]
    BY <1>1, <1>2, <2>2, <2>4
  <2>6. \A u \in Threads, l \in Lists : (u # t \/ l # k) => h \notin Listed(u, l)
    <3>1. h \in Listed(t, k) /\ op[h].owner = t
      BY <1>1, <2>4 DEF ListsInv, Listed
    <3>2. \A l \in Lists : l # k => h \notin Listed(t, l)
      BY <1>1, <3>1 DEF ListsInv
    <3> QED BY <3>1, <3>2 DEF ListsInv
  <2>7. ASSUME NEW u \in Threads, NEW l \in Lists
        PROVE  IsInjective(free'[u][l]) /\ Listed(u, l)' = Listed(u, l) \ {h}
    <3>1. CASE u = t /\ l = k
      BY <2>3, <2>4, <3>1 DEF Listed
    <3>2. CASE u # t \/ l # k
      BY <2>3, <2>6, <3>2 DEF Listed, ListsInv
    <3> QED BY <3>1, <3>2
  <2> QED BY <2>1, <2>5, <2>7
<1>4. CASE free[t][k] = <<>>
  <2> DEFINE h == Head(free[t][f])
  <2>1. Available(t, k) = free[t][f] /\ free[t][f] # <<>>
    BY <1>4 DEF Available, f
  <2>2. free' = [free EXCEPT ![t][k] = Tail(free[t][f]), ![t][f] = <<>>]
    BY <1>4, <2>1 DEF TakeFrom, f
  <2>3. /\ free'[t][k] = Tail(free[t][f]) /\ free'[t][f] = <<>>
        /\ \A u \in Threads, l \in Lists : (u # t \/ l \notin {k, f}) => free'[u][l] = free[u][l]
        /\ free' \in [Threads -> [Lists -> Seq(OpIds)]]
    <3>1. Tail(free[t][f]) \in Seq(OpIds) /\ <<>> \in Seq(OpIds)
      BY <1>1, <1>2, <2>1
    <3> QED BY <1>1, <1>2, <2>2, <3>1, TwoLists
  <2>4. /\ Tail(free[t][f]) \in Seq(OpIds) /\ IsInjective(Tail(free[t][f]))
        /\ ToSet(Tail(free[t][f])) = ToSet(free[t][f]) \ {h}
    BY <1>1, <1>2, <2>1, TailFacts DEF ListsInv
  <2>5. free' \in [Threads -> [Lists -> Seq(OpIds)]]
    BY <2>3
  <2>6. ToSet(<<>>) = {} /\ IsInjective(<<>>)
    BY DEF ToSet, IsInjective
  <2>7. \A u \in Threads, l \in Lists : IsInjective(free'[u][l])
    <3> SUFFICES ASSUME NEW u \in Threads, NEW l \in Lists PROVE IsInjective(free'[u][l])
      OBVIOUS
    <3>1. CASE u = t /\ l = k
      BY <2>3, <2>4, <3>1
    <3>2. CASE u = t /\ l = f
      BY <2>3, <2>6, <3>2
    <3>3. CASE u # t \/ l \notin {k, f}
      BY <2>3, <3>3 DEF ListsInv
    <3> QED BY <3>1, <3>2, <3>3
  <2>8. /\ Listed(t, k) = {} /\ Listed(t, f)' = {} /\ Listed(t, k)' = Listed(t, f) \ {h}
        /\ \A u \in Threads, l \in Lists :
             (u # t \/ l \notin {k, f}) => Listed(u, l)' = Listed(u, l)
    BY <1>4, <2>3, <2>4, <2>6 DEF Listed
  <2> QED BY <2>1, <2>5, <2>7, <2>8 DEF f
<1> QED BY <1>3, <1>4

\* Taking an op keeps what the lists promise.
LEMMA TakeStep ==
  ASSUME EventTypeOK, ListsInv, NEW t \in Threads, NEW k \in {"iop", "eop"},
         Available(t, k) # <<>>, free' = TakeFrom(t, k, Available(t, k)),
         op'[Head(Available(t, k))].type # "free",
         \A j \in OpIds \ {Head(Available(t, k))} :
           op'[j].type = op[j].type /\ op'[j].owner = op[j].owner
  PROVE  ListsInv'
<1> DEFINE h == Head(Available(t, k))
           f == Foreign(k)
<1>1. /\ k \in Lists /\ f \in Lists /\ f # k
      /\ (k \in {"eop", "feop"}) = (f \in {"eop", "feop"})
  BY Kinds
<1>2. /\ \A u \in Threads, l \in Lists : IsInjective(free'[u][l])
      /\ \/ \A u \in Threads, l \in Lists : Listed(u, l)' = Listed(u, l) \ {h}
         \/ /\ Listed(t, k) = {} /\ Listed(t, f)' = {} /\ Listed(t, k)' = Listed(t, f) \ {h}
            /\ \A u \in Threads, l \in Lists :
                 (u # t \/ l \notin {k, f}) => Listed(u, l)' = Listed(u, l)
  BY TakenLists
<1>3. /\ h \in OpIds /\ op[h].type = "free" /\ op[h].owner = t
      /\ op'[h].type # "free"
      /\ \A j \in OpIds \ {h} : op'[j].type = op[j].type /\ op'[j].owner = op[j].owner
  BY TakenOp
<1>4. \A u \in Threads, l \in Lists : Listed(u, l) \subseteq OpIds
  BY Ranges
<1>5. /\ \A u \in Threads, l \in Lists :
           /\ \A i \in Listed(u, l) : /\ op[i].type = "free" /\ op[i].owner = u
                                      /\ i \in Eops <=> l \in {"eop", "feop"}
           /\ \A m \in Lists \ {l} : Listed(u, l) \intersect Listed(u, m) = {}
      /\ \A i \in OpIds :
           op[i].type = "free" => \E u \in Threads, l \in Lists : i \in Listed(u, l)
  BY DEF ListsInv
<1> HIDE DEF h, f
<1>6. CASE \A u \in Threads, l \in Lists : Listed(u, l)' = Listed(u, l) \ {h}
  <2>1. ASSUME NEW u \in Threads, NEW l \in Lists
        PROVE  /\ \A i \in Listed(u, l)' : /\ op'[i].type = "free" /\ op'[i].owner = u
                                           /\ i \in Eops <=> l \in {"eop", "feop"}
               /\ \A m \in Lists \ {l} : Listed(u, l)' \intersect Listed(u, m)' = {}
    BY <1>3, <1>4, <1>5, <1>6
  <2>2. \A i \in OpIds :
           op'[i].type = "free" => \E u \in Threads, l \in Lists : i \in Listed(u, l)'
    BY <1>3, <1>5, <1>6
  <2> QED BY <1>2, <2>1, <2>2 DEF ListsInv
<1>7. CASE /\ Listed(t, k) = {} /\ Listed(t, f)' = {} /\ Listed(t, k)' = Listed(t, f) \ {h}
           /\ \A u \in Threads, l \in Lists :
                (u # t \/ l \notin {k, f}) => Listed(u, l)' = Listed(u, l)
  <2>1. \A u \in Threads, l \in Lists : h \in Listed(u, l) => u = t
    BY <1>3, <1>5
  <2>2. h \in Listed(t, f)
    BY <1>7, TakenOp DEF h, f
  <2>3. \A l \in Lists : l # f => h \notin Listed(t, l)
    BY <1>1, <1>5, <2>2
  <2>4. ASSUME NEW u \in Threads, NEW l \in Lists, NEW i \in Listed(u, l)'
        PROVE  op'[i].type = "free" /\ op'[i].owner = u /\ (i \in Eops <=> l \in {"eop", "feop"})
    <3>1. CASE u = t /\ l = k
      BY <1>1, <1>3, <1>4, <1>5, <1>7, <2>4, <3>1
    <3>2. CASE u = t /\ l = f
      BY <1>7, <2>4, <3>2
    <3>3. CASE u # t \/ l \notin {k, f}
      BY <1>1, <1>3, <1>4, <1>5, <1>7, <2>1, <2>3, <2>4, <3>3
    <3> QED BY <3>1, <3>2, <3>3
  <2>5. ASSUME NEW u \in Threads, NEW l \in Lists, NEW m \in Lists \ {l}
        PROVE  Listed(u, l)' \intersect Listed(u, m)' = {}
    <3>1. CASE u # t
      BY <1>5, <1>7, <3>1
    <3>2. CASE u = t /\ (l = f \/ m = f)
      BY <1>7, <3>2
    <3>3. CASE u = t /\ l = k /\ m # f
      BY <1>1, <1>5, <1>7, <3>3
    <3>4. CASE u = t /\ m = k /\ l # f
      BY <1>1, <1>5, <1>7, <3>4
    <3>5. CASE u = t /\ l \notin {k, f} /\ m \notin {k, f}
      BY <1>5, <1>7, <3>5
    <3> QED BY <3>1, <3>2, <3>3, <3>4, <3>5
  <2>6. ASSUME NEW i \in OpIds, op'[i].type = "free"
        PROVE  \E u \in Threads, l \in Lists : i \in Listed(u, l)'
    <3>1. i # h /\ op[i].type = "free"
      BY <1>3, <2>6
    <3>2. PICK u \in Threads, l \in Lists : i \in Listed(u, l)
      BY <1>5, <3>1
    <3>3. CASE u = t /\ l = f
      BY <1>1, <1>7, <3>1, <3>2, <3>3
    <3>4. CASE u = t /\ l = k
      BY <1>7, <3>2, <3>4
    <3>5. CASE u # t \/ l \notin {k, f}
      BY <1>7, <3>2, <3>5
    <3> QED BY <3>3, <3>4, <3>5
  <2> QED BY <1>2, <2>4, <2>5, <2>6 DEF ListsInv
<1> QED BY <1>2, <1>6, <1>7

\* One list of one thread replaced.
LEMMA OneList ==
  ASSUME NEW fr \in [Threads -> [Lists -> Seq(OpIds)]], NEW t \in Threads,
         NEW k \in Lists, NEW A \in Seq(OpIds),
         NEW g, g = [fr EXCEPT ![t][k] = A]
  PROVE  /\ g \in [Threads -> [Lists -> Seq(OpIds)]]
         /\ g[t][k] = A
         /\ \A u \in Threads, l \in Lists : (u # t \/ l # k) => g[u][l] = fr[u][l]
<1>1. g \in [Threads -> [Lists -> Seq(OpIds)]]
  OBVIOUS
<1>2. g[t] = [fr[t] EXCEPT ![k] = A] /\ fr[t] \in [Lists -> Seq(OpIds)]
  OBVIOUS
<1>3. \A u \in Threads \ {t} : g[u] = fr[u]
  OBVIOUS
<1> QED BY <1>1, <1>2, <1>3

\* Ops of one owner that become free go before those on one of its lists.
LEMMA AddStep ==
  ASSUME EventTypeOK, ListsInv, NEW o \in Threads, NEW k \in Lists, NEW q \in Seq(OpIds),
         IsInjective(q), free' = [free EXCEPT ![o][k] = q \o @],
         \A i \in ToSet(q) : /\ op[i].type # "free" /\ op'[i].type = "free" /\ op'[i].owner = o
                             /\ i \in Eops <=> k \in {"eop", "feop"},
         \A i \in OpIds \ ToSet(q) : /\ op'[i].type = "free" <=> op[i].type = "free"
                                     /\ op[i].type = "free" => op'[i].owner = op[i].owner
  PROVE  ListsInv' /\ free' \in [Threads -> [Lists -> Seq(OpIds)]]
<1>1. /\ \A u \in Threads, l \in Lists :
           /\ IsInjective(free[u][l])
           /\ \A i \in Listed(u, l) : /\ op[i].type = "free" /\ op[i].owner = u
                                      /\ i \in Eops <=> l \in {"eop", "feop"}
           /\ \A m \in Lists \ {l} : Listed(u, l) \intersect Listed(u, m) = {}
      /\ \A i \in OpIds :
           op[i].type = "free" => \E u \in Threads, l \in Lists : i \in Listed(u, l)
  BY DEF ListsInv
<1>2. \A u \in Threads, l \in Lists : Listed(u, l) \subseteq OpIds /\ free[u][l] \in Seq(OpIds)
  BY Ranges
<1>3. ToSet(q) \intersect Listed(o, k) = {} /\ ToSet(q) \subseteq OpIds
  BY <1>1 DEF ToSet
<1>4. /\ q \o free[o][k] \in Seq(OpIds) /\ IsInjective(q \o free[o][k])
      /\ ToSet(q \o free[o][k]) = ToSet(q) \union Listed(o, k)
  <2>1. free[o][k] \in Seq(OpIds) /\ IsInjective(free[o][k])
        /\ ToSet(q) \intersect ToSet(free[o][k]) = {}
    BY <1>1, <1>2, <1>3 DEF Listed
  <2> QED BY <2>1, ConcatFacts DEF Listed
<1>5. /\ free' \in [Threads -> [Lists -> Seq(OpIds)]]
      /\ free'[o][k] = q \o free[o][k]
      /\ \A u \in Threads, l \in Lists : (u # o \/ l # k) => free'[u][l] = free[u][l]
  <2> DEFINE A == q \o free[o][k]
  <2>1. free \in [Threads -> [Lists -> Seq(OpIds)]] /\ A \in Seq(OpIds)
    BY <1>4 DEF EventTypeOK
  <2>2. free' = [free EXCEPT ![o][k] = A]
    OBVIOUS
  <2> HIDE DEF A
  <2>3. /\ free' \in [Threads -> [Lists -> Seq(OpIds)]]
        /\ free'[o][k] = A
        /\ \A u \in Threads, l \in Lists : (u # o \/ l # k) => free'[u][l] = free[u][l]
    BY <2>1, <2>2, OneList
  <2> QED BY <2>3 DEF A
<1>6. /\ Listed(o, k)' = ToSet(q) \union Listed(o, k) /\ IsInjective(free'[o][k])
      /\ \A u \in Threads, l \in Lists :
           (u # o \/ l # k) => Listed(u, l)' = Listed(u, l) /\ IsInjective(free'[u][l])
  BY <1>1, <1>4, <1>5 DEF Listed
<1>7. \A u \in Threads, l \in Lists : Listed(u, l) \intersect ToSet(q) = {}
  BY <1>1
<1>8. ASSUME NEW u \in Threads, NEW l \in Lists, NEW i \in Listed(u, l)'
      PROVE  op'[i].type = "free" /\ op'[i].owner = u /\ (i \in Eops <=> l \in {"eop", "feop"})
  <2>1. CASE i \in ToSet(q)
    <3>1. u = o /\ l = k
      BY <1>6, <1>7, <1>8, <2>1
    <3> QED BY <2>1, <3>1
  <2>2. CASE i \notin ToSet(q)
    <3>1. i \in Listed(u, l) /\ i \in OpIds
      BY <1>2, <1>6, <1>8, <2>2
    <3> QED BY <1>1, <2>2, <3>1
  <2> QED BY <2>1, <2>2
<1>9. ASSUME NEW u \in Threads, NEW l \in Lists, NEW m \in Lists \ {l}
      PROVE  Listed(u, l)' \intersect Listed(u, m)' = {}
  <2>1. CASE u = o /\ l = k
    BY <1>1, <1>6, <1>7, <2>1
  <2>2. CASE u = o /\ m = k
    BY <1>1, <1>6, <1>7, <2>2
  <2>3. CASE u # o \/ (l # k /\ m # k)
    BY <1>1, <1>6, <2>3
  <2> QED BY <2>1, <2>2, <2>3
<1>10. ASSUME NEW i \in OpIds, op'[i].type = "free"
       PROVE  \E u \in Threads, l \in Lists : i \in Listed(u, l)'
  <2>1. CASE i \in ToSet(q)
    BY <1>6, <2>1
  <2>2. CASE i \notin ToSet(q)
    <3>1. PICK u \in Threads, l \in Lists : i \in Listed(u, l)
      BY <1>1, <1>10, <2>2
    <3> QED BY <1>6, <3>1
  <2> QED BY <2>1, <2>2
<1>11. \A u \in Threads, l \in Lists : IsInjective(free'[u][l])
  BY <1>6
<1> QED BY <1>5, <1>8, <1>9, <1>10, <1>11 DEF ListsInv

\* Freeing ops of one kind and one owner keeps what the lists promise.
LEMMA FreeStep ==
  ASSUME EventTypeOK, ListsInv, NEW t \in Threads, NEW o \in Threads, NEW q \in Seq(OpIds),
         q # <<>>, IsInjective(q), free' = Freed(t, q),
         \A i \in ToSet(q) : /\ op[i].type # "free" /\ op[i].owner = o
                             /\ KindOf(i) = KindOf(Head(q))
                             /\ op'[i].type = "free" /\ op'[i].owner = o,
         \A i \in OpIds \ ToSet(q) : /\ op'[i].type = "free" <=> op[i].type = "free"
                                     /\ op[i].type = "free" => op'[i].owner = op[i].owner
  PROVE  ListsInv' /\ free' \in [Threads -> [Lists -> Seq(OpIds)]]
<1> DEFINE h == Head(q)
           k == IF o = t THEN KindOf(h) ELSE Foreign(KindOf(h))
<1>1. h \in ToSet(q) /\ h \in OpIds
  BY TailFacts
<1>2. KindOf(h) \in {"iop", "eop"} /\ \A i \in ToSet(q) : i \in Eops <=> KindOf(h) = "eop"
  BY <1>1 DEF KindOf
<1>3. k \in Lists /\ (k \in {"eop", "feop"} <=> KindOf(h) = "eop")
  BY <1>2, Kinds
<1>4. free' = [free EXCEPT ![o][k] = q \o @]
  BY <1>1 DEF Freed
<1> HIDE DEF k, h
<1>5. \A i \in ToSet(q) : /\ op[i].type # "free" /\ op'[i].type = "free" /\ op'[i].owner = o
                          /\ i \in Eops <=> k \in {"eop", "feop"}
  BY <1>2, <1>3
<1> QED BY <1>3, <1>4, <1>5, AddStep

-----------------------------------------------------------------------------
(* The stacks of iops.                                                       *)

\* A thread's current iop is open and its own.
LEMMA TopFacts ==
  ASSUME EventTypeOK, StacksInv, NEW t \in Threads
  PROVE  LET i == Head(cur[t]) IN
           /\ i \in Iops /\ i \in OpIds /\ i \notin Eops /\ IsOpen(i) /\ op[i].owner = t
           /\ op[i].type = "busy" /\ op[i].next # "self"
           /\ i = cur[t][1] /\ 1 \in DOMAIN cur[t] /\ i \in Stacked(t)
           /\ op[i].next = "null" <=> Len(cur[t]) = 1
           /\ cur[t] \in Seq(Iops) /\ cur[t] # <<>> /\ IsInjective(cur[t])
<1>1. cur[t] \in Seq(Iops) /\ cur[t] # <<>> /\ IsInjective(cur[t])
  BY DEF EventTypeOK, StacksInv
<1>2. Head(cur[t]) = cur[t][1] /\ 1 \in DOMAIN cur[t] /\ Len(cur[t]) \in Nat
  BY <1>1
<1>3. Head(cur[t]) \in Iops /\ Head(cur[t]) \in Stacked(t)
  BY <1>1, TailFacts DEF Stacked
<1>4. /\ IsOpen(cur[t][1]) /\ op[cur[t][1]].owner = t
      /\ op[cur[t][1]].next = "null" <=> 1 = Len(cur[t])
  BY <1>2 DEF StacksInv
<1> QED BY <1>1, <1>2, <1>3, <1>4, Ids DEF IsOpen

\* The new transfer was on nobody's account.
LEMMA RequestFacts ==
  ASSUME EventInv, NEW x \in Xfers, NEW i \in OpIds, NEW c \in Cats, Request(x, i, c)
  PROVE  /\ xf[x].op = 0 /\ xf[x].st = "none"
         /\ xf'[x].op = i /\ xf'[x].cat = c /\ xf'[x].st = "request"
         /\ \A y \in Xfers \ {x} : xf'[y] = xf[y]
         /\ xf' \in [Xfers -> [op : OpIds \union {0}, cat : Cats,
                               st : {"none", "request", "reply", "done"}]]
         /\ \A p \in Pollers : hnd[p].in = "mark" => hnd[p].x # x
<1>1. xf[x].op = 0 /\ xf[x].st = "none"
  BY DEF Request, FreshXfer, EventInv, TransfersInv
<1>2. /\ xf'[x].op = i /\ xf'[x].cat = c /\ xf'[x].st = "request"
      /\ \A y \in Xfers \ {x} : xf'[y] = xf[y]
      /\ xf' \in [Xfers -> [op : OpIds \union {0}, cat : Cats,
                               st : {"none", "request", "reply", "done"}]]
  BY DEF Request, EventInv, EventTypeOK
<1>3. \A p \in Pollers : hnd[p].in = "mark" => hnd[p].x # x
  BY <1>1 DEF EventInv, TransfersInv
<1> QED BY <1>1, <1>2, <1>3

\* A new transfer on an iop, or on an eop no other transfer is on, keeps what
\* the transfers and handlers promise.
LEMMA NewTransfer ==
  ASSUME EventInv, NEW x \in Xfers, NEW i \in OpIds,
         xf[x].op = 0 /\ xf[x].st = "none" /\ xf'[x].op = i /\ xf'[x].st = "request",
         \A y \in Xfers \ {x} : xf'[y] = xf[y],
         hnd' = hnd, \A p \in Pollers : hnd[p].in = "mark" => hnd[p].x # x,
         i \in Eops => /\ op'[i].type = "busy" /\ op'[i].live = {Root}
                       /\ \A y \in Xfers \ {x} : xf[y].op # i,
         \A j \in Eops : op[j].type = "busy" /\ op[j].live = {Root} =>
                           op'[j].type = "busy" /\ op'[j].live = {Root},
         \A j \in Iops, c \in Cats : op'[j].com[c] = op[j].com[c]
  PROVE  TransfersInv'
<1> USE DEF EventInv
<1>1. ASSUME NEW y \in Xfers
      PROVE  /\ xf'[y].st = "none" => xf'[y].op = 0
             /\ Underway(y)' => xf'[y].op # 0
             /\ xf'[y].op \in Eops =>
                  /\ op'[xf'[y].op].type = "busy" /\ op'[xf'[y].op].live = {Root}
                  /\ \A z \in Xfers \ {y} : xf'[z].op # xf'[y].op
  <2>1. CASE y = x
    BY <2>1, Ids DEF Underway
  <2>2. CASE y # x
    <3>1. xf'[y] = xf[y]
      BY <2>2
    <3>2. /\ xf[y].st = "none" => xf[y].op = 0
          /\ Underway(y) => xf[y].op # 0
          /\ xf[y].op \in Eops =>
               /\ op[xf[y].op].type = "busy" /\ op[xf[y].op].live = {Root}
               /\ \A z \in Xfers \ {y} : xf[z].op # xf[y].op
      BY DEF TransfersInv
    <3>3. xf[y].op \in Eops => xf[y].op # i
      BY <2>2
    <3> QED BY <3>1, <3>2, <3>3 DEF Underway
  <2> QED BY <2>1, <2>2
<1>2. ASSUME NEW q \in Pollers
      PROVE  /\ hnd'[q].in = "mark" =>
                  /\ xf'[hnd'[q].x].st = "done" /\ xf'[hnd'[q].x].op # 0
                  /\ \A r \in Pollers \ {q} : hnd'[r].in = "mark" => hnd'[r].x # hnd'[q].x
             /\ hnd'[q].in = "compare" => hnd'[q].com <= op'[hnd'[q].op].com[hnd'[q].cat]
  <2>1. hnd[q].in = "mark" => hnd[q].x \in Xfers /\ xf'[hnd[q].x] = xf[hnd[q].x]
    BY HandlerFacts
  <2>2. hnd[q].in = "compare" => op'[hnd[q].op].com[hnd[q].cat] = op[hnd[q].op].com[hnd[q].cat]
    BY HandlerFacts
  <2> QED BY <2>1, <2>2 DEF TransfersInv
<1> QED BY <1>1, <1>2 DEF TransfersInv, Underway

\* A message of a loop: one more transfer initiated, on the iop that is current.
LEMMA ChunkStep ==
  ASSUME EventInv, NEW t \in Threads, NEW c \in Cats, Chunk(t, c), ArraysKept,
         UNCHANGED <<cur, free, hnd, held, regions>>,
         call' \in [Threads -> {Idle} \union [in : {"nbi", "nb"}, cat : Cats, left : Nat]
                               \union ArrayCalls]
  PROVE  EventInv'
<1> DEFINE i == Head(cur[t])
<1> USE DEF EventInv
<1>1. /\ i \in Iops /\ i \in OpIds /\ i \notin Eops /\ op[i].type = "busy" /\ op[i].next # "self"
  BY TopFacts
<1>2. PICK x \in Xfers : Request(x, i, c)
  BY DEF Chunk
<1>3. op' = [op EXCEPT ![i].ini[c] = @ + 1]
  BY DEF Chunk
<1> HIDE DEF i
<1>4. /\ xf[x].op = 0 /\ xf[x].st = "none"
      /\ xf'[x].op = i /\ xf'[x].cat = c /\ xf'[x].st = "request"
      /\ \A y \in Xfers \ {x} : xf'[y] = xf[y]
      /\ xf' \in [Xfers -> [op : OpIds \union {0}, cat : Cats,
                               st : {"none", "request", "reply", "done"}]]
      /\ \A p \in Pollers : hnd[p].in = "mark" => hnd[p].x # x
  BY <1>1, <1>2, RequestFacts
<1>5. op[i] \in OpRecords /\ op[i].ini \in [Cats -> Nat] /\ op[i].ini[c] \in Nat
  BY <1>1, OpFacts
<1>6. /\ \A j \in OpIds \ {i} : op'[j] = op[j]
      /\ op'[i] = [op[i] EXCEPT !.ini[c] = @ + 1]
  BY <1>1, <1>3 DEF EventTypeOK
<1>7. /\ op'[i].type = op[i].type /\ op'[i].owner = op[i].owner /\ op'[i].next = op[i].next
      /\ op'[i].com = op[i].com /\ op'[i].live = op[i].live
      /\ op'[i].ini[c] = op[i].ini[c] + 1
      /\ \A d \in Cats \ {c} : op'[i].ini[d] = op[i].ini[d]
      /\ op'[i] \in OpRecords
  BY <1>5, <1>6 DEF OpRecords
<1>8. \A j \in OpIds : /\ op'[j].type = op[j].type /\ op'[j].owner = op[j].owner
                       /\ op'[j].next = op[j].next /\ op'[j].live = op[j].live
                       /\ op'[j].com = op[j].com
  BY <1>6, <1>7
<1>9. \A j \in Iops : j \in OpIds /\ j \notin Eops
  BY Ids
<1>10. EventTypeOK'
  <2>1. op' \in [OpIds -> OpRecords]
    BY <1>3, <1>6, <1>7 DEF EventTypeOK
  <2> QED BY <1>4, <2>1 DEF EventTypeOK
<1>12. ListsInv' /\ StacksInv'
  BY <1>8, <1>9, ListsFrame, StacksFrame DEF IsOpen
<1>13. HandsInv' /\ ArraysInv'
  BY <1>8, HandsFrame, ArraysInvFrame DEF IsClosed
<1>14. CountersInv'
  <2> SUFFICES ASSUME NEW j \in Iops, NEW d \in Cats
               PROVE  op'[j].ini[d] = op'[j].com[d] + Cardinality(Pending(j, d)')
                        + (IF op'[j].next = "parent" THEN 1 ELSE 0)
    BY DEF CountersInv
  <2>1. /\ op[j].ini[d] = op[j].com[d] + Cardinality(Pending(j, d))
                            + (IF op[j].next = "parent" THEN 1 ELSE 0)
        /\ op[j].ini[d] \in Nat /\ op[j].com[d] \in Nat /\ Cardinality(Pending(j, d)) \in Nat
    BY <1>9, OpFacts, PendingFinite DEF CountersInv
  <2>2. CASE j = i /\ d = c
    <3>1. x \notin Pending(j, d) /\ Pending(j, d)' = Pending(j, d) \union {x}
      BY <1>1, <1>4, <2>2, Ids DEF Pending
    <3>2. Cardinality(Pending(j, d)') = Cardinality(Pending(j, d)) + 1
      BY <3>1, PendingMore
    <3> QED BY <1>7, <2>1, <2>2, <3>2
  <2>3. CASE j # i \/ d # c
    <3>1. Pending(j, d)' = Pending(j, d)
      BY <1>1, <1>4, <1>9, <2>3, Ids DEF Pending
    <3>2. op'[j].com[d] = op[j].com[d] /\ op'[j].ini[d] = op[j].ini[d] /\ op'[j].next = op[j].next
      BY <1>6, <1>7, <1>9, <2>3
    <3> QED BY <2>1, <3>1, <3>2
  <2> QED BY <2>2, <2>3
<1>15. BitsInv'
  <2>1. \A j \in OpIds : /\ op'[j].type \in {"free", "pendingfree"} => op'[j].live = {}
                         /\ op'[j].type = "unborn" => op'[j] = Unborn
                         /\ op'[j].type # "unborn" => op'[j].owner \in Threads
    BY <1>1, <1>6, <1>8 DEF BitsInv
  <2>2. ASSUME NEW j \in Iops
        PROVE  /\ op'[j].type \in {"free", "pendingfree"} => op'[j].next = "self"
               /\ op'[j].next = "parent" => op'[j].type = "busy" /\ op'[j].live = Cats
               /\ op'[j].next = "self" =>
                    \A d \in Cats \ op'[j].live : op'[j].ini[d] = op'[j].com[d]
    <3>1. CASE j = i
      BY <1>1, <1>7, <3>1 DEF BitsInv
    <3>2. CASE j # i
      <4>1. op'[j] = op[j]
        BY <1>6, <1>9, <3>2
      <4> QED BY <4>1 DEF BitsInv
    <3> QED BY <3>1, <3>2
  <2>3. \A j \in Eops : op'[j].live \subseteq {Root}
    BY <1>8, Ids DEF BitsInv
  <2> QED BY <2>1, <2>2, <2>3 DEF BitsInv
<1>16. TransfersInv'
  <2>1. \A j \in Eops : op'[j].type = op[j].type /\ op'[j].live = op[j].live
    BY <1>8, Ids
  <2>2. \A j \in Iops, d \in Cats : op'[j].com[d] = op[j].com[d]
    BY <1>8, <1>9
  <2> QED BY <1>1, <1>4, <2>1, <2>2, NewTransfer
<1> QED BY <1>10, <1>12, <1>13, <1>14, <1>15, <1>16

\* What the type of a call is made of.
CallTypes ==
  {Idle} \union [in : {"nbi", "nb"}, cat : Cats, left : Nat] \union ArrayCalls

\* A transfer call begins: its first message.
LEMMA NbiStep ==
  ASSUME EventInv, NEW t \in Threads, NEW c \in Cats, call[t] = Idle, amref_nbi(t, c)
  PROVE  EventInv'
<1>1. PICK n \in 0..(MaxChunks - 1) :
        call' = [call EXCEPT ![t] = IF n = 0 THEN Idle ELSE [in |-> "nbi", cat |-> c, left |-> n]]
  BY DEF amref_nbi
<1>2. n \in Nat /\ call \in [Threads -> CallTypes]
  BY EventsAssumption DEF EventInv, EventTypeOK, CallTypes
<1>3. (IF n = 0 THEN Idle ELSE [in |-> "nbi", cat |-> c, left |-> n]) \in CallTypes
  BY <1>2 DEF CallTypes
<1>4. call' \in [Threads -> CallTypes]
  BY <1>1, <1>2, <1>3
<1>5. call'[t].in \notin ArrayStages /\ \A u \in Threads \ {t} : call'[u] = call[u]
  BY <1>1, <1>2 DEF ArrayStages, Idle
<1>6. ArraysKept
  BY <1>5, OtherCall DEF ArrayStages, Idle
<1> QED BY <1>4, <1>6, ChunkStep DEF amref_nbi, CallTypes

\* What the types say of the calls.
LEMMA CallFacts ==
  ASSUME EventTypeOK, NEW t \in Threads
  PROVE  /\ call[t] \in CallTypes
         /\ call[t].in \in {"nbi", "nb"} =>
              call[t] \in [in : {"nbi", "nb"}, cat : Cats, left : Nat] /\ call[t].in \notin ArrayStages
         /\ call[t].in \in ArrayStages => call[t] \in ArrayCalls /\ t \in InArrays
         /\ call[t] = Idle => call[t].in \notin ArrayStages
<1>1. call[t] \in CallTypes
  BY DEF EventTypeOK, CallTypes
<1>2. ASSUME call[t] = Idle
      PROVE  call[t].in \notin ArrayStages \union {"nbi", "nb"}
  BY <1>2 DEF Idle, ArrayStages
<1>3. ASSUME call[t] \in [in : {"nbi", "nb"}, cat : Cats, left : Nat]
      PROVE  call[t].in \notin ArrayStages
  BY <1>3 DEF ArrayStages
<1>4. ASSUME call[t] \in ArrayCalls
      PROVE  call[t].in \notin {"nbi", "nb"} /\ call[t].in \in ArrayStages
  BY <1>4 DEF ArrayCalls, ArrayStages
<1> QED BY <1>1, <1>2, <1>3, <1>4 DEF CallTypes, InArrays, ArrayStages

\* One more message of the loop.
LEMMA NbiLoopStep ==
  ASSUME EventInv, NEW t \in Threads, amref_nbi_loop(t)
  PROVE  EventInv'
<1> DEFINE last == call[t].in = "nbi" /\ call[t].left = 1
           next == IF last THEN Idle ELSE [call[t] EXCEPT !.left = @ - 1]
<1>1. /\ call[t].in \in {"nbi", "nb"} /\ call[t].left > 0 /\ Chunk(t, call[t].cat)
      /\ call' = [call EXCEPT ![t] = next]
      /\ UNCHANGED <<cur, free, hnd, held, regions>>
  BY DEF amref_nbi_loop
<1>2. /\ call[t] \in [in : {"nbi", "nb"}, cat : Cats, left : Nat] /\ call[t].in \notin ArrayStages
      /\ call \in [Threads -> CallTypes]
  BY <1>1, CallFacts DEF EventInv, EventTypeOK, CallTypes
<1>3. next \in CallTypes /\ next.in \notin ArrayStages
  <2>1. CASE last
    BY <2>1 DEF CallTypes, Idle, ArrayStages
  <2>2. CASE ~last
    <3>1. [call[t] EXCEPT !.left = @ - 1] \in [in : {"nbi", "nb"}, cat : Cats, left : Nat]
      BY <1>1, <1>2
    <3> QED BY <1>2, <2>2, <3>1 DEF CallTypes
  <2> QED BY <2>1, <2>2
<1> HIDE DEF next
<1>4. /\ call' \in [Threads -> CallTypes] /\ call'[t] = next
      /\ \A u \in Threads \ {t} : call'[u] = call[u]
  BY <1>1, <1>2, <1>3
<1>5. ArraysKept
  BY <1>2, <1>3, <1>4, OtherCall
<1>6. ASSUME NEW c, c = call[t].cat PROVE EventInv'
  <2>1. c \in Cats /\ Chunk(t, c)
    BY <1>1, <1>2, <1>6
  <2> QED BY <1>1, <1>4, <1>5, <2>1, ChunkStep DEF CallTypes
<1> QED BY <1>6

\* One element put before a sequence.
LEMMA ConsFacts ==
  ASSUME NEW S, NEW x \in S, NEW s \in Seq(S), IsInjective(s), x \notin ToSet(s), s # <<>>
  PROVE  LET q == <<x>> \o s IN
           /\ q \in Seq(S) /\ IsInjective(q) /\ ToSet(q) = ToSet(s) \union {x} /\ q # <<>>
           /\ Len(q) = Len(s) + 1 /\ Len(s) \in Nat /\ Len(s) > 0 /\ q[1] = x
           /\ \A k \in DOMAIN q : k = 1 \/ (k \in Nat /\ k - 1 \in DOMAIN s /\ q[k] = s[k - 1])
<1> DEFINE r == <<x>>
           q == r \o s
<1>1. r \in Seq(S) /\ IsInjective(r) /\ ToSet(r) = {x} /\ Len(r) = 1 /\ r[1] = x
  BY OneFacts
<1>2. ToSet(r) \intersect ToSet(s) = {}
  BY <1>1
<1> HIDE DEF r
<1>3. q \in Seq(S) /\ IsInjective(q) /\ ToSet(q) = ToSet(r) \union ToSet(s)
  BY <1>1, <1>2, ConcatFacts
<1>4. /\ Len(q) = Len(s) + 1 /\ Len(s) \in Nat /\ Len(s) > 0 /\ q # <<>> /\ q[1] = x
      /\ DOMAIN q = 1..(Len(s) + 1) /\ DOMAIN s = 1..Len(s)
      /\ \A k \in 1..(Len(s) + 1) : k = 1 \/ q[k] = s[k - 1]
  <2>1. Len(s) \in Nat /\ Len(s) > 0 /\ DOMAIN s = 1..Len(s)
    OBVIOUS
  <2>a. r \in Seq(S)
    BY <1>1
  <2>b. /\ Len(q) = Len(r) + Len(s) /\ DOMAIN q = 1..(Len(r) + Len(s))
        /\ \A k \in 1..(Len(r) + Len(s)) : q[k] = IF k <= Len(r) THEN r[k] ELSE s[k - Len(r)]
    BY <2>a
  <2>2. Len(q) = Len(s) + 1 /\ DOMAIN q = 1..(Len(s) + 1)
    <3> HIDE DEF q
    <3> QED BY <1>1, <2>1, <2>b
  <2>3. \A k \in 1..(Len(s) + 1) : q[k] = IF k <= 1 THEN r[k] ELSE s[k - 1]
    <3> HIDE DEF q
    <3>1. Len(r) + Len(s) = Len(s) + 1
      BY <1>1, <2>1
    <3> QED BY <1>1, <2>b, <3>1
  <2>4. q # <<>>
    BY <2>1, <2>2
  <2>5. 1 \in 1..(Len(s) + 1) /\ \A k \in 1..(Len(s) + 1) : k <= 1 <=> k = 1
    BY <2>1
  <2> HIDE DEF q
  <2> QED BY <1>1, <2>1, <2>2, <2>3, <2>4, <2>5
<1>5. \A k \in DOMAIN q : k = 1 \/ (k \in Nat /\ k - 1 \in DOMAIN s /\ q[k] = s[k - 1])
  <2> HIDE DEF q
  <2> QED BY <1>4
<1> QED BY <1>1, <1>3, <1>4, <1>5 DEF r

\* gasnete_aop_push of a fresh or recycled iop.
LEMMA PushStep ==
  ASSUME EventInv, NEW t \in Threads, NEW i \in Iops, NEW o \in OpRecords,
         op[i].type \in {"free", "unborn"}, o.type = "busy", o.owner = t,
         o.ini = op[i].ini, o.com = op[i].com,
         op' = [op EXCEPT ![i] = Armed(o)], cur' = [cur EXCEPT ![t] = <<i>> \o @],
         regions' \in 0..MaxRegions,
         ListsInv', free' \in [Threads -> [Lists -> Seq(OpIds)]],
         ArraysKept, call' \in [Threads -> CallTypes], UNCHANGED <<xf, hnd, held>>
  PROVE  EventInv'
<1> USE DEF EventInv
<1>1. i \in OpIds /\ i \notin Eops /\ op[i] \in OpRecords
  BY Ids, OpFacts
<1>2. /\ \A j \in OpIds \ {i} : op'[j] = op[j]
      /\ op'[i] = Armed(o)
  BY <1>1 DEF EventTypeOK
<1>3. /\ op'[i].type = "busy" /\ op'[i].owner = t /\ op'[i].next = "parent" /\ op'[i].live = Cats
      /\ op'[i].com = op[i].com /\ op'[i] \in OpRecords
      /\ \A c \in Cats : op'[i].ini[c] = op[i].ini[c] + 1
  <2>1. /\ Armed(o).type = "busy" /\ Armed(o).owner = t /\ Armed(o).next = "parent"
        /\ Armed(o).live = Cats /\ Armed(o).com = o.com /\ Armed(o).ini = [c \in Cats |-> o.ini[c] + 1]
        /\ Armed(o) \in OpRecords
    <3> DEFINE n == [c \in Cats |-> o.ini[c] + 1]
    <3>1. n \in [Cats -> Nat]
      BY DEF OpRecords
    <3>2. Armed(o) = [o EXCEPT !.live = Cats, !.ini = n, !.next = "parent"]
      BY DEF Armed
    <3> HIDE DEF n
    <3>3. /\ Armed(o).type = "busy" /\ Armed(o).owner = t /\ Armed(o).next = "parent"
          /\ Armed(o).live = Cats /\ Armed(o).com = o.com /\ Armed(o).ini = n
          /\ Armed(o) \in OpRecords
      BY <3>1, <3>2 DEF OpRecords
    <3> QED BY <3>3 DEF n
  <2> QED BY <1>2, <2>1
<1>4. \A j \in Iops : j \in OpIds /\ j \notin Eops
  BY Ids
<1>5. EventTypeOK'
  <2>1. op' \in [OpIds -> OpRecords]
    BY <1>2, <1>3 DEF EventTypeOK
  <2>2. cur' \in [Threads -> Seq(Iops)]
    <3>1. <<i>> \o cur[t] \in Seq(Iops)
      BY DEF EventTypeOK
    <3> QED BY <3>1 DEF EventTypeOK
  <2> QED BY <2>1, <2>2 DEF EventTypeOK, CallTypes
<1>6. StacksInv'
  <2>1. /\ \A u \in Threads \ {t} : cur'[u] = cur[u]
        /\ cur'[t] = <<i>> \o cur[t]
    BY DEF EventTypeOK
  <2>2. \A u \in Threads : \A j \in Stacked(u) : IsOpen(j) /\ j # i /\ j \in Iops /\ op'[j] = op[j]
    <3> SUFFICES ASSUME NEW u \in Threads, NEW j \in Stacked(u)
                 PROVE  IsOpen(j) /\ j # i /\ j \in Iops /\ op'[j] = op[j]
      OBVIOUS
    <3>1. IsOpen(j)
      BY DEF StacksInv, Stacked, ToSet
    <3> QED BY <1>2, <1>4, <3>1 DEF IsOpen
  <2>3. /\ cur[t] \in Seq(Iops) /\ IsInjective(cur[t]) /\ cur[t] # <<>> /\ i \notin ToSet(cur[t])
    BY <2>2 DEF StacksInv, EventTypeOK, Stacked
  <2>4. /\ IsInjective(cur'[t]) /\ ToSet(cur'[t]) = ToSet(cur[t]) \union {i} /\ cur'[t] # <<>>
        /\ Len(cur'[t]) = Len(cur[t]) + 1 /\ Len(cur[t]) \in Nat /\ Len(cur[t]) > 0
        /\ cur'[t][1] = i
        /\ \A k \in DOMAIN cur'[t] :
             k = 1 \/ (k \in Nat /\ k - 1 \in DOMAIN cur[t] /\ cur'[t][k] = cur[t][k - 1])
    BY SMTT(30), <2>1, <2>3, ConsFacts
  <2>5. IsOpen(i)'
    BY <1>3 DEF IsOpen
  <2>6. \A u \in Threads : \A k \in DOMAIN cur[u] : cur[u][k] \in Stacked(u)
    BY DEF Stacked, ToSet
  <2>7. ASSUME NEW u \in Threads, NEW k \in DOMAIN cur'[u]
        PROVE  /\ IsOpen(cur[u][k])' /\ op'[cur'[u][k]].owner = u
               /\ op'[cur'[u][k]].next = "null" <=> k = Len(cur'[u])
    <3>1. CASE u = t /\ k = 1
      BY <1>3, <2>4, <2>5, <3>1
    <3>2. CASE u = t /\ k # 1
      <4>1. k \in Nat /\ k - 1 \in DOMAIN cur[t] /\ cur'[t][k] = cur[t][k - 1]
        BY <2>4, <2>7, <3>2
      <4>2. /\ op'[cur[t][k - 1]] = op[cur[t][k - 1]] /\ IsOpen(cur[t][k - 1])
            /\ op[cur[t][k - 1]].owner = t
            /\ op[cur[t][k - 1]].next = "null" <=> k - 1 = Len(cur[t])
        BY <2>2, <2>6, <4>1 DEF StacksInv
      <4> QED BY <2>4, <3>2, <4>1, <4>2 DEF IsOpen
    <3>3. CASE u # t
      BY <2>1, <2>2, <2>6, <2>7, <3>3 DEF StacksInv, IsOpen
    <3> QED BY <3>1, <3>2, <3>3
  <2>8. \A u \in Threads : cur'[u] # <<>> /\ IsInjective(cur'[u])
    BY <2>1, <2>4 DEF StacksInv
  <2>9. ASSUME NEW j \in Iops, IsOpen(j)' PROVE \E u \in Threads : j \in Stacked(u)'
    <3>1. CASE j = i
      BY <2>4, <3>1 DEF Stacked
    <3>2. CASE j # i
      <4>1. IsOpen(j)
        BY <1>2, <1>4, <2>9, <3>2 DEF IsOpen
      <4>2. PICK u \in Threads : j \in Stacked(u)
        BY <4>1 DEF StacksInv
      <4>3. j \in Stacked(u)'
        BY <2>1, <2>4, <4>2 DEF Stacked
      <4> QED BY <4>3
    <3> QED BY <3>1, <3>2
  <2> QED BY <2>7, <2>8, <2>9 DEF StacksInv
<1>7. HandsInv'
  <2>1. \A j \in OpIds : /\ IsClosed(j)' <=> IsClosed(j)
                         /\ op'[j].type = "pendingfree" <=> op[j].type = "pendingfree"
    BY <1>1, <1>2, <1>3 DEF IsClosed
  <2> QED BY <2>1, HandsFrame
<1>8. ArraysInv'
  <2>1. \A j \in OpIds : op[j].type = "pendingfree" => op'[j].owner = op[j].owner
    BY <1>2
  <2> QED BY <2>1, ArraysInvFrame
<1>9. CountersInv'
  <2> SUFFICES ASSUME NEW j \in Iops, NEW d \in Cats
               PROVE  op'[j].ini[d] = op'[j].com[d] + Cardinality(Pending(j, d)')
                        + (IF op'[j].next = "parent" THEN 1 ELSE 0)
    BY DEF CountersInv
  <2>1. /\ op[j].ini[d] = op[j].com[d] + Cardinality(Pending(j, d))
                            + (IF op[j].next = "parent" THEN 1 ELSE 0)
        /\ op[j].ini[d] \in Nat /\ op[j].com[d] \in Nat /\ Cardinality(Pending(j, d)) \in Nat
    BY <1>4, OpFacts, PendingFinite DEF CountersInv
  <2>2. Pending(j, d)' = Pending(j, d)
    BY DEF Pending
  <2>3. op[i].next # "parent"
    BY DEF BitsInv
  <2>4. CASE j = i
    BY <1>3, <2>1, <2>2, <2>3, <2>4
  <2>5. CASE j # i
    BY <1>2, <1>4, <2>1, <2>2, <2>5
  <2> QED BY <2>4, <2>5
<1>10. BitsInv'
  <2>1. \A j \in OpIds : /\ op'[j].type \in {"free", "pendingfree"} => op'[j].live = {}
                         /\ op'[j].type = "unborn" => op'[j] = Unborn
                         /\ op'[j].type # "unborn" => op'[j].owner \in Threads
    BY <1>2, <1>3 DEF BitsInv
  <2>2. ASSUME NEW j \in Iops
        PROVE  /\ op'[j].type \in {"free", "pendingfree"} => op'[j].next = "self"
               /\ op'[j].next = "parent" => op'[j].type = "busy" /\ op'[j].live = Cats
               /\ op'[j].next = "self" =>
                    \A d \in Cats \ op'[j].live : op'[j].ini[d] = op'[j].com[d]
    <3>1. CASE j = i
      BY <1>3, <3>1
    <3>2. CASE j # i
      <4>1. op'[j] = op[j]
        BY <1>2, <1>4, <3>2
      <4> QED BY <4>1 DEF BitsInv
    <3> QED BY <3>1, <3>2
  <2>3. \A j \in Eops : op'[j].live \subseteq {Root}
    BY <1>1, <1>2, Ids DEF BitsInv
  <2> QED BY <2>1, <2>2, <2>3 DEF BitsInv
<1>11. TransfersInv'
  <2>1. \A j \in Eops : op'[j] = op[j]
    BY <1>1, <1>2, Ids
  <2>2. \A j \in Iops, c \in Cats : op[j].com[c] <= op'[j].com[c] /\ op'[j].com[c] \in Nat
    <3> SUFFICES ASSUME NEW j \in Iops, NEW c \in Cats
                 PROVE  op[j].com[c] <= op'[j].com[c] /\ op'[j].com[c] \in Nat
      OBVIOUS
    <3>1. op[j].com[c] \in Nat /\ op'[j].com = op[j].com
      BY <1>2, <1>3, <1>4, OpFacts
    <3> QED BY <3>1
  <2> QED BY <2>1, <2>2, TransfersFrame
<1> QED BY <1>5, <1>6, <1>7, <1>8, <1>9, <1>10, <1>11

\* gasnete_aop_create and gasnete_aop_push: the iop keeps its counters when it
\* is recycled, and they balance.
LEMMA BeginStep ==
  ASSUME EventInv, ~StatsOrTrace, NEW t \in Threads, gasnete_begin_nbi_accessregion(t),
         ArraysKept, call' \in [Threads -> CallTypes], UNCHANGED <<xf, hnd, held>>
  PROVE  EventInv'
<1> DEFINE list == Available(t, "iop")
<1> USE DEF EventInv
<1>1. regions' \in 0..MaxRegions
  <2>1. regions' = regions + 1 /\ regions < MaxRegions
    BY DEF gasnete_begin_nbi_accessregion, PushAop
  <2>2. regions \in 0..MaxRegions /\ MaxRegions \in Nat
    BY EventsAssumption DEF EventTypeOK
  <2> QED BY <2>1, <2>2
<1>2. CASE list # <<>> /\ PushAop(t, Head(list), Reused(op[Head(list)]), TakeFrom(t, "iop", list))
  <2> SUFFICES ASSUME NEW i, i = Head(list), NEW o, o = Reused(op[i]) PROVE EventInv'
    OBVIOUS
  <2>1. i \in OpIds /\ op[i].type = "free" /\ op[i].owner = t /\ i \in Iops /\ i \notin Eops
    BY <1>2, TakenOp, Ids
  <2>2. /\ op' = [op EXCEPT ![i] = Armed(o)] /\ cur' = [cur EXCEPT ![t] = <<i>> \o @]
        /\ free' = TakeFrom(t, "iop", list)
    BY <1>2 DEF PushAop
  <2>3. /\ o.type = "busy" /\ o.owner = t /\ o.ini = op[i].ini /\ o.com = op[i].com /\ o \in OpRecords
    <3>1. op[i] \in OpRecords
      BY <2>1, OpFacts
    <3>2. o = [op[i] EXCEPT !.type = "busy", !.next = "null", !.ini = op[i].ini, !.com = op[i].com]
      BY DEF Reused
    <3> QED BY <2>1, <3>1, <3>2 DEF OpRecords, Types
  <2>4. /\ op'[i].type = "busy" /\ \A j \in OpIds \ {i} : op'[j] = op[j]
    BY <2>1, <2>2, <2>3 DEF EventTypeOK, Armed, OpRecords
  <2>5. ListsInv'
    BY <1>2, <2>2, <2>4, TakeStep
  <2>6. free' \in [Threads -> [Lists -> Seq(OpIds)]]
    BY <1>2, <2>2, TakenLists
  <2> HIDE DEF list
  <2> QED BY <1>1, <2>1, <2>2, <2>3, <2>5, <2>6, PushStep
<1>3. ASSUME NEW i \in Lowest(1, UnbornOf(Iops)), PushAop(t, i, NewIop(t), free)
      PROVE  EventInv'
  <2> SUFFICES ASSUME NEW o, o = NewIop(t) PROVE EventInv'
    OBVIOUS
  <2>1. i \in Iops /\ i \in OpIds /\ op[i].type = "unborn" /\ op[i] = Unborn
    BY Ids DEF Lowest, UnbornOf, BitsInv
  <2>2. /\ op' = [op EXCEPT ![i] = Armed(o)] /\ cur' = [cur EXCEPT ![t] = <<i>> \o @]
        /\ free' = free
    BY <1>3 DEF PushAop
  <2>3. /\ o.type = "busy" /\ o.owner = t /\ o.ini = op[i].ini /\ o.com = op[i].com /\ o \in OpRecords
    BY <2>1, NewOps
  <2>4. /\ op'[i].type = "busy" /\ \A j \in OpIds \ {i} : op'[j] = op[j]
    BY <2>1, <2>2, <2>3 DEF EventTypeOK, Armed, OpRecords
  <2>5. ListsInv'
    BY <2>1, <2>2, <2>4, ListsFrame
  <2>6. free' \in [Threads -> [Lists -> Seq(OpIds)]]
    BY <2>2 DEF EventTypeOK
  <2> QED BY <1>1, <2>1, <2>2, <2>3, <2>5, <2>6, PushStep
<1> QED BY <1>2, <1>3 DEF gasnete_begin_nbi_accessregion

\* gasnete_aop_pop: the iop leaves the stack and its event goes to the client;
\* what is not complete yet stays live.
LEMMA PopStep ==
  ASSUME EventInv, NEW t \in Threads, PopAop(t), ArraysKept, call' \in [Threads -> CallTypes],
         UNCHANGED <<free, xf, hnd, regions>>
  PROVE  EventInv'
<1> USE DEF EventInv
<1> SUFFICES ASSUME NEW i, i = Head(cur[t]) PROVE EventInv'
  OBVIOUS
<1>1. /\ i \in Iops /\ i \in OpIds /\ i \notin Eops /\ IsOpen(i) /\ op[i].owner = t
      /\ op[i].type = "busy" /\ i \in Stacked(t) /\ op[i].next = "parent"
      /\ cur[t] \in Seq(Iops) /\ cur[t] # <<>> /\ IsInjective(cur[t])
      /\ Len(cur[t]) # 1
  <2>1. op[i].next # "null"
    BY DEF PopAop
  <2> QED BY <2>1, TopFacts, OpFacts
<1>2. /\ op' = [op EXCEPT ![i] = Balanced(op[i])] /\ cur' = [cur EXCEPT ![t] = Tail(@)]
      /\ held' = held \union {<<i, Root>>}
  BY DEF PopAop
<1>3. /\ \A j \in OpIds \ {i} : op'[j] = op[j]
      /\ op'[i] = Balanced(op[i]) /\ op[i] \in OpRecords
  BY <1>1, <1>2, OpFacts DEF EventTypeOK
<1>4. /\ op'[i].type = "busy" /\ op'[i].owner = t /\ op'[i].next = "self"
      /\ op'[i].ini = op[i].ini
      /\ \A c \in Cats : op'[i].com[c] = op[i].com[c] + 1
      /\ op'[i].live = {c \in op[i].live : op'[i].com[c] # op[i].ini[c]}
      /\ op'[i] \in OpRecords
  <2> DEFINE n == [c \in Cats |-> op[i].com[c] + 1]
             L == {c \in op[i].live : n[c] # op[i].ini[c]}
  <2>1. n \in [Cats -> Nat] /\ L \subseteq Cats
    BY <1>3 DEF OpRecords
  <2>2. op'[i] = [op[i] EXCEPT !.com = n, !.next = "self", !.live = L]
    BY <1>3 DEF Balanced
  <2>3. \A c \in Cats : n[c] = op[i].com[c] + 1
    OBVIOUS
  <2>4. L = {c \in op[i].live : n[c] # op[i].ini[c]}
    OBVIOUS
  <2> HIDE DEF n, L
  <2>5. /\ op'[i].type = "busy" /\ op'[i].owner = t /\ op'[i].next = "self"
        /\ op'[i].ini = op[i].ini /\ op'[i].com = n /\ op'[i].live = L
        /\ op'[i] \in OpRecords
    BY ZenonT(60), <1>1, <1>3, <2>1, <2>2 DEF OpRecords
  <2> QED BY <2>3, <2>4, <2>5
<1>5. \A j \in Iops : j \in OpIds /\ j \notin Eops
  BY Ids
<1>6. /\ Tail(cur[t]) \in Seq(Iops) /\ IsInjective(Tail(cur[t]))
      /\ ToSet(Tail(cur[t])) = Stacked(t) \ {i} /\ Tail(cur[t]) # <<>>
      /\ Len(Tail(cur[t])) = Len(cur[t]) - 1 /\ Len(cur[t]) \in Nat
      /\ \A k \in DOMAIN Tail(cur[t]) : /\ k \in Nat /\ k + 1 \in DOMAIN cur[t]
                                        /\ Tail(cur[t])[k] = cur[t][k + 1]
                                        /\ Tail(cur[t])[k] # i
  <2>1. /\ Tail(cur[t]) \in Seq(Iops) /\ IsInjective(Tail(cur[t]))
        /\ ToSet(Tail(cur[t])) = Stacked(t) \ {i}
        /\ Len(Tail(cur[t])) = Len(cur[t]) - 1 /\ Len(cur[t]) \in Nat /\ Len(cur[t]) > 0
        /\ \A k \in DOMAIN Tail(cur[t]) : k + 1 \in DOMAIN cur[t] /\ Tail(cur[t])[k] = cur[t][k + 1]
    BY <1>1, TailFacts DEF Stacked
  <2>2. Tail(cur[t]) # <<>>
    <3> SUFFICES ASSUME NEW s, s = Tail(cur[t]), NEW n, n = Len(cur[t]) PROVE s # <<>>
      OBVIOUS
    <3>1. Len(s) = n - 1 /\ n \in Nat /\ n > 0 /\ n # 1
      BY <1>1, <2>1
    <3>2. Len(s) # 0
      BY <3>1
    <3>3. Len(<<>>) = 0
      OBVIOUS
    <3> QED BY <3>2, <3>3, Zenon
  <2>3. \A k \in DOMAIN Tail(cur[t]) : k \in Nat /\ Tail(cur[t])[k] \in ToSet(Tail(cur[t]))
    BY <2>1 DEF ToSet
  <2> QED BY <2>1, <2>2, <2>3
<1>7. cur'[t] = Tail(cur[t]) /\ \A u \in Threads \ {t} : cur'[u] = cur[u]
  BY <1>2 DEF EventTypeOK
<1>8. EventTypeOK'
  <2>1. op' \in [OpIds -> OpRecords]
    BY <1>2, <1>3, <1>4 DEF EventTypeOK
  <2>2. cur' \in [Threads -> Seq(Iops)]
    BY <1>2, <1>6 DEF EventTypeOK
  <2>3. held' \subseteq OpIds \X Cats
    BY <1>1, <1>2, Ids DEF EventTypeOK
  <2> QED BY <2>1, <2>2, <2>3 DEF EventTypeOK, CallTypes
<1>9. ListsInv'
  BY <1>1, <1>3, <1>4, ListsFrame
<1>10. StacksInv'
  <2>1. \A u \in Threads : \A k \in DOMAIN cur[u] : cur[u][k] \in Stacked(u) /\ cur[u][k] \in Iops
    BY Ranges DEF Stacked, ToSet
  <2>2. \A u \in Threads \ {t} : i \notin Stacked(u)
    <3> SUFFICES ASSUME NEW u \in Threads \ {t}, i \in Stacked(u) PROVE FALSE
      OBVIOUS
    <3>1. PICK k \in DOMAIN cur[u] : cur[u][k] = i
      BY DEF Stacked, ToSet
    <3>2. op[cur[u][k]].owner = u
      BY <3>1 DEF StacksInv
    <3> QED BY <1>1, <3>1, <3>2
  <2>3. ASSUME NEW u \in Threads, NEW k \in DOMAIN cur'[u]
        PROVE  /\ IsOpen(cur[u][k])' /\ op'[cur'[u][k]].owner = u
               /\ op'[cur'[u][k]].next = "null" <=> k = Len(cur'[u])
    <3>1. CASE u = t
      <4>1. k \in Nat /\ k + 1 \in DOMAIN cur[t] /\ cur'[t][k] = cur[t][k + 1] /\ cur'[t][k] # i
        BY <1>6, <1>7, <2>3, <3>1
      <4>2. op'[cur[t][k + 1]] = op[cur[t][k + 1]]
        BY <1>3, <1>5, <2>1, <4>1
      <4>3. /\ IsOpen(cur[t][k + 1]) /\ op[cur[t][k + 1]].owner = t
            /\ op[cur[t][k + 1]].next = "null" <=> k + 1 = Len(cur[t])
        BY <4>1 DEF StacksInv
      <4>4. k + 1 = Len(cur[t]) <=> k = Len(cur'[t])
        <5> SUFFICES ASSUME NEW m, m = Len(cur'[t]), NEW n, n = Len(cur[t])
                     PROVE  k + 1 = n <=> k = m
          OBVIOUS
        <5>1. m = n - 1 /\ n \in Nat
          BY <1>6, <1>7
        <5> QED BY <4>1, <5>1
      <4> QED BY <3>1, <4>1, <4>2, <4>3, <4>4 DEF IsOpen
    <3>2. CASE u # t
      <4>1. cur'[u] = cur[u]
        BY <1>7, <3>2
      <4>2. op'[cur[u][k]] = op[cur[u][k]]
        BY <1>3, <1>5, <2>1, <2>2, <2>3, <3>2, <4>1
      <4>3. /\ IsOpen(cur[u][k]) /\ op[cur[u][k]].owner = u
            /\ op[cur[u][k]].next = "null" <=> k = Len(cur[u])
        BY <2>3, <4>1 DEF StacksInv
      <4> QED BY <4>1, <4>2, <4>3 DEF IsOpen
    <3> QED BY <3>1, <3>2
  <2>4. \A u \in Threads : cur'[u] # <<>> /\ IsInjective(cur'[u])
    BY <1>6, <1>7 DEF StacksInv
  <2>5. ASSUME NEW j \in Iops, IsOpen(j)' PROVE \E u \in Threads : j \in Stacked(u)'
    <3>1. j # i
      BY <1>4, <2>5 DEF IsOpen
    <3>2. IsOpen(j)
      BY <1>3, <1>5, <2>5, <3>1 DEF IsOpen
    <3>3. PICK u \in Threads : j \in Stacked(u)
      BY <3>2 DEF StacksInv
    <3>4. j \in Stacked(u)'
      BY <1>6, <1>7, <3>1, <3>3 DEF Stacked
    <3> QED BY <3>4
  <2> QED BY <2>3, <2>4, <2>5 DEF StacksInv
<1>11. HandsInv'
  <2>1. \A u \in Threads : /\ Passed(u)' = Passed(u) /\ Synced(u)' = Synced(u)
                           /\ call'[u].in = "bulk" <=> call[u].in = "bulk"
                           /\ Synced(u) \subseteq OpIds
                           /\ \A e \in Passed(u) : OpOf(e) \in OpIds
    BY ArraysFrame, Ranges, Ids
  <2>2. \A e \in held : OpOf(e) \in OpIds
    BY Ids DEF EventTypeOK
  <2>3. \A j \in OpIds : /\ IsClosed(j) => IsClosed(j)'
                         /\ IsClosed(j)' => IsClosed(j) \/ j = i
                         /\ op'[j].type = "pendingfree" <=> op[j].type = "pendingfree"
    BY <1>1, <1>3, <1>4 DEF IsClosed
  <2>4. IsClosed(i)' /\ ~IsClosed(i) /\ op[i].type # "pendingfree" /\ OpOf(<<i, Root>>) = i
    BY <1>1, <1>4 DEF IsClosed, OpOf
  <2>5. \A u \in Threads : <<i, Root>> \notin Passed(u)
    BY <2>4 DEF HandsInv
  <2>6. \A e \in held' : IsClosed(OpOf(e))' /\ <<OpOf(e), Root>> \in held'
    BY <1>2, <2>2, <2>3, <2>4 DEF HandsInv
  <2>7. ASSUME NEW u \in Threads
        PROVE  /\ Passed(u) \intersect held' = {}
               /\ \A w \in Threads \ {u} : /\ Passed(u) \intersect Passed(w) = {}
                                           /\ Synced(u) \intersect Synced(w) = {}
               /\ \A e \in Passed(u) :
                    \/ OpOf(e) \in Synced(u)
                    \/ IsClosed(OpOf(e))' /\ <<OpOf(e), Root>> \in held' \union Passed(u)
               /\ \A j \in Synced(u) : op'[j].type = "pendingfree"
               /\ call'[u].in = "bulk" => \A e \in Passed(u) : OpOf(e) \notin Synced(u)
    BY <1>2, <2>1, <2>3, <2>5 DEF HandsInv
  <2>8. \A j \in OpIds :
          /\ IsClosed(j)' => \/ <<j, Root>> \in held'
                             \/ \E u \in Threads : <<j, Root>> \in Passed(u)
          /\ op'[j].type = "pendingfree" => \E u \in Threads : j \in Synced(u)
    BY <1>2, <2>3 DEF HandsInv
  <2> QED BY <2>1, <2>6, <2>7, <2>8 DEF HandsInv
<1>12. ArraysInv'
  <2>1. \A j \in OpIds : op[j].type = "pendingfree" => op'[j].owner = op[j].owner
    BY <1>1, <1>3, <1>4
  <2> QED BY <2>1, ArraysInvFrame
<1>13. CountersInv'
  <2> SUFFICES ASSUME NEW j \in Iops, NEW d \in Cats
               PROVE  op'[j].ini[d] = op'[j].com[d] + Cardinality(Pending(j, d)')
                        + (IF op'[j].next = "parent" THEN 1 ELSE 0)
    BY DEF CountersInv
  <2>1. /\ op[j].ini[d] = op[j].com[d] + Cardinality(Pending(j, d))
                            + (IF op[j].next = "parent" THEN 1 ELSE 0)
        /\ op[j].ini[d] \in Nat /\ op[j].com[d] \in Nat /\ Cardinality(Pending(j, d)) \in Nat
    BY <1>5, OpFacts, PendingFinite DEF CountersInv
  <2>2. Pending(j, d)' = Pending(j, d)
    BY DEF Pending
  <2>3. CASE j = i
    <3>1. /\ op'[i].com[d] = op[i].com[d] + 1 /\ op'[i].ini[d] = op[i].ini[d]
          /\ op'[i].next # "parent" /\ op[i].next = "parent"
      BY <1>1, <1>4
    <3>2. op[i].ini[d] = op[i].com[d] + Cardinality(Pending(i, d)) + 1
      BY <2>1, <2>3, <3>1
    <3>3. op'[i].ini[d] = op'[i].com[d] + Cardinality(Pending(i, d))
      BY <2>1, <2>3, <3>1, <3>2
    <3> QED BY <2>1, <2>2, <2>3, <3>1, <3>3
  <2>4. CASE j # i
    BY <1>3, <1>5, <2>1, <2>2, <2>4
  <2> QED BY <2>3, <2>4
<1>14. BitsInv'
  <2>1. \A j \in OpIds : /\ op'[j].type \in {"free", "pendingfree"} => op'[j].live = {}
                         /\ op'[j].type = "unborn" => op'[j] = Unborn
                         /\ op'[j].type # "unborn" => op'[j].owner \in Threads
    BY <1>3, <1>4 DEF BitsInv
  <2>2. ASSUME NEW j \in Iops
        PROVE  /\ op'[j].type \in {"free", "pendingfree"} => op'[j].next = "self"
               /\ op'[j].next = "parent" => op'[j].type = "busy" /\ op'[j].live = Cats
               /\ op'[j].next = "self" =>
                    \A d \in Cats \ op'[j].live : op'[j].ini[d] = op'[j].com[d]
    <3>1. CASE j = i
      <4>1. op[i].live = Cats
        BY <1>1 DEF BitsInv
      <4> QED BY <1>4, <3>1, <4>1
    <3>2. CASE j # i
      <4>1. op'[j] = op[j]
        BY <1>3, <1>5, <3>2
      <4> QED BY <4>1 DEF BitsInv
    <3> QED BY <3>1, <3>2
  <2>3. \A j \in Eops : op'[j].live \subseteq {Root}
    BY <1>1, <1>3, Ids DEF BitsInv
  <2> QED BY <2>1, <2>2, <2>3 DEF BitsInv
<1>15. TransfersInv'
  <2>1. \A j \in Eops : op'[j] = op[j]
    BY <1>1, <1>3, Ids
  <2>2. \A j \in Iops, c \in Cats : op[j].com[c] <= op'[j].com[c] /\ op'[j].com[c] \in Nat
    <3> SUFFICES ASSUME NEW j \in Iops, NEW c \in Cats
                 PROVE  op[j].com[c] <= op'[j].com[c] /\ op'[j].com[c] \in Nat
      OBVIOUS
    <3>1. op[j].com[c] \in Nat /\ (op'[j].com[c] = op[j].com[c] \/ op'[j].com[c] = op[j].com[c] + 1)
      BY <1>3, <1>4, <1>5, OpFacts
    <3> QED BY <3>1
  <2> QED BY <2>1, <2>2, TransfersFrame
<1> QED BY <1>8, <1>9, <1>10, <1>11, <1>12, <1>13, <1>14, <1>15

-----------------------------------------------------------------------------
(* Explicit events.                                                          *)

\* gasnete_eop_new takes an eop off a list, or the first of a new chunk whose
\* others go on the list.
LEMMA NewEopFacts ==
  ASSUME EventInv, NEW t \in Threads, NEW i \in Eops, NewEop(t, i)
  PROVE  /\ op[i].type \in {"free", "unborn"}
         /\ op'[i].type = "busy" /\ op'[i].owner = t /\ op'[i].live = {Root} /\ op'[i] \in OpRecords
         /\ op' = [j \in OpIds |-> op'[j]]
         /\ \A j \in OpIds \ {i} :
              \/ op'[j] = op[j]
              \/ /\ j \in Eops /\ op[j].type = "unborn" /\ op'[j].type = "free"
                 /\ op'[j].owner = t /\ op'[j].live = {} /\ op'[j] \in OpRecords
         /\ ListsInv' /\ free' \in [Threads -> [Lists -> Seq(OpIds)]]
<1> DEFINE list == Available(t, "eop")
<1> USE DEF EventInv
<1>0. i \in OpIds /\ Root \in Cats
  BY Ids
<1>1. CASE list # <<>> /\ i = Head(list) /\ gasnete_eop_new(t, i, op, TakeFrom(t, "eop", list))
  <2>1. op[i].type = "free" /\ op[i].owner = t
    BY <1>1, TakenOp
  <2>2. /\ op' = [j \in OpIds |-> IF j = i THEN [op[i] EXCEPT !.type = "busy", !.live = {Root}]
                                  ELSE op[j]]
        /\ free' = TakeFrom(t, "eop", list)
    BY <1>1 DEF gasnete_eop_new
  <2>3. /\ op'[i] = [op[i] EXCEPT !.type = "busy", !.live = {Root}] /\ op[i] \in OpRecords
        /\ \A j \in OpIds \ {i} : op'[j] = op[j]
        /\ op' = [j \in OpIds |-> op'[j]]
    BY <1>0, <2>2, OpFacts
  <2>4. op'[i].type = "busy" /\ op'[i].owner = t /\ op'[i].live = {Root} /\ op'[i] \in OpRecords
    <3>1. {Root} \in SUBSET Cats /\ "busy" \in Types
      BY <1>0 DEF Types
    <3> SUFFICES ASSUME NEW o, o = op[i], NEW q, q = op'[i]
                 PROVE  q.type = "busy" /\ q.owner = t /\ q.live = {Root} /\ q \in OpRecords
      OBVIOUS
    <3>2. o \in OpRecords /\ o.owner = t /\ q = [o EXCEPT !.type = "busy", !.live = {Root}]
      BY <2>1, <2>3
    <3> QED BY <3>1, <3>2 DEF OpRecords
  <2>5. ListsInv'
    <3>1. \A j \in OpIds \ {i} : op'[j].type = op[j].type /\ op'[j].owner = op[j].owner
      BY <2>3
    <3>2. op'[i].type # "free"
      BY <2>4
    <3> QED BY <1>1, <2>2, <3>1, <3>2, TakeStep
  <2>6. free' \in [Threads -> [Lists -> Seq(OpIds)]]
    BY <1>1, <2>2, TakenLists
  <2> QED BY <2>1, <2>3, <2>4, <2>5, <2>6
<1>2. ASSUME list = <<>>, EopChunk # {}, NEW chunk \in SetToSeqs(EopChunk), i = Head(chunk),
             gasnete_eop_new(t, i,
               [j \in OpIds |-> IF j \in EopChunk
                                THEN [Unborn EXCEPT !.owner = t, !.type = "free"] ELSE op[j]],
               [free EXCEPT ![t]["eop"] = Tail(chunk)])
      PROVE  /\ op[i].type \in {"free", "unborn"}
             /\ op'[i].type = "busy" /\ op'[i].owner = t /\ op'[i].live = {Root} /\ op'[i] \in OpRecords
             /\ op' = [j \in OpIds |-> op'[j]]
             /\ \A j \in OpIds \ {i} :
                  \/ op'[j] = op[j]
                  \/ /\ j \in Eops /\ op[j].type = "unborn" /\ op'[j].type = "free"
                     /\ op'[j].owner = t /\ op'[j].live = {} /\ op'[j] \in OpRecords
             /\ ListsInv' /\ free' \in [Threads -> [Lists -> Seq(OpIds)]]
  <2> DEFINE fresh == [Unborn EXCEPT !.owner = t, !.type = "free"]
  <2>1. EopChunk \subseteq Eops /\ EopChunk \subseteq OpIds /\ \A j \in EopChunk : op[j].type = "unborn"
    BY Ids DEF EopChunk, Lowest, UnbornOf
  <2>2. IsFiniteSet(EopChunk)
    BY <2>1, EventsAssumption, FS_Subset
  <2>3. chunk \in Seq(EopChunk) /\ IsInjective(chunk) /\ ToSet(chunk) = EopChunk
    BY <1>2, <2>2, ListingFacts
  <2>4. chunk # <<>>
    BY <1>2, <2>3 DEF ToSet
  <2>5. /\ Tail(chunk) \in Seq(EopChunk) /\ IsInjective(Tail(chunk)) /\ i \in EopChunk
        /\ ToSet(Tail(chunk)) = EopChunk \ {i}
    BY <1>2, <2>3, <2>4, TailFacts
  <2>6. Tail(chunk) \in Seq(OpIds) /\ Tail(chunk) \o <<>> = Tail(chunk)
    <3>1. \A s \in Seq(EopChunk) : s \in Seq(OpIds) /\ s \o <<>> = s
      BY <2>1
    <3> QED BY <2>5, <3>1
  <2>7. free[t]["eop"] = <<>>
    BY <1>2 DEF Available
  <2>8. free' = [free EXCEPT ![t]["eop"] = Tail(chunk) \o @]
    BY <1>2, <2>6, <2>7 DEF gasnete_eop_new
  <2>9. /\ fresh.owner = t /\ fresh.type = "free" /\ fresh.live = {} /\ fresh \in OpRecords
        /\ [fresh EXCEPT !.type = "busy", !.live = {Root}].type = "busy"
        /\ [fresh EXCEPT !.type = "busy", !.live = {Root}].owner = t
        /\ [fresh EXCEPT !.type = "busy", !.live = {Root}].live = {Root}
        /\ [fresh EXCEPT !.type = "busy", !.live = {Root}] \in OpRecords
    <3>1. /\ fresh.owner = t /\ fresh.type = "free" /\ fresh.live = {} /\ fresh \in OpRecords
      BY NewOps DEF OpRecords, Types
    <3> HIDE DEF fresh
    <3> QED BY <1>0, <3>1 DEF OpRecords, Types
  <2> HIDE DEF fresh
  <2>10. op' = [j \in OpIds |-> IF j = i THEN [fresh EXCEPT !.type = "busy", !.live = {Root}]
                                ELSE IF j \in EopChunk THEN fresh ELSE op[j]]
    <3>1. op' = [j \in OpIds |->
                   IF j = i
                   THEN [[k \in OpIds |-> IF k \in EopChunk THEN fresh ELSE op[k]][i]
                           EXCEPT !.type = "busy", !.live = {Root}]
                   ELSE [k \in OpIds |-> IF k \in EopChunk THEN fresh ELSE op[k]][j]]
      BY <1>2 DEF gasnete_eop_new, fresh
    <3>2. [k \in OpIds |-> IF k \in EopChunk THEN fresh ELSE op[k]][i] = fresh
      BY <1>0, <2>5
    <3>3. \A j \in OpIds : [k \in OpIds |-> IF k \in EopChunk THEN fresh ELSE op[k]][j] =
                             IF j \in EopChunk THEN fresh ELSE op[j]
      OBVIOUS
    <3> QED BY <3>1, <3>2, <3>3
  <2>11. /\ op'[i].type = "busy" /\ op'[i].owner = t /\ op'[i].live = {Root} /\ op'[i] \in OpRecords
         /\ \A j \in EopChunk \ {i} : op'[j] = fresh
         /\ \A j \in OpIds \ EopChunk : op'[j] = op[j]
         /\ op' = [j \in OpIds |-> op'[j]]
    BY <1>0, <2>1, <2>5, <2>9, <2>10
  <2>12. ListsInv' /\ free' \in [Threads -> [Lists -> Seq(OpIds)]]
    <3>1. \A j \in ToSet(Tail(chunk)) :
            /\ op[j].type # "free" /\ op'[j].type = "free" /\ op'[j].owner = t
            /\ j \in Eops <=> "eop" \in {"eop", "feop"}
      BY <2>1, <2>5, <2>9, <2>11
    <3>2. \A j \in OpIds \ ToSet(Tail(chunk)) :
            /\ op'[j].type = "free" <=> op[j].type = "free"
            /\ op[j].type = "free" => op'[j].owner = op[j].owner
      BY <2>1, <2>5, <2>11
    <3>3. "eop" \in Lists
      BY DEF Lists
    <3> SUFFICES ASSUME NEW q, q = Tail(chunk)
                 PROVE  ListsInv' /\ free' \in [Threads -> [Lists -> Seq(OpIds)]]
      OBVIOUS
    <3> QED BY <2>5, <2>6, <2>8, <3>1, <3>2, <3>3, AddStep
  <2> QED BY <1>0, <2>1, <2>5, <2>9, <2>11, <2>12
<1> QED BY <1>1, <1>2 DEF NewEop

\* gasnete_amref_put_nb and gasnete_amref_get_nb of one message: the eop is the
\* client's, with its event live until the reply.
LEMMA EopStep ==
  ASSUME EventInv, NEW t \in Threads, NEW c \in Cats, amref_nb_eop(t, c)
  PROVE  EventInv'
<1> USE DEF EventInv
<1>1. PICK i \in Eops, x \in Xfers :
        /\ NewEop(t, i) /\ Request(x, i, c)
        /\ held' = held \union {<<i, Root>>}
        /\ UNCHANGED <<cur, hnd, call, regions>>
  BY DEF amref_nb_eop
<1>2. /\ i \in OpIds /\ i \notin Iops /\ Root \in Cats
  BY Ids
<1>3. /\ op[i].type \in {"free", "unborn"}
      /\ op'[i].type = "busy" /\ op'[i].owner = t /\ op'[i].live = {Root} /\ op'[i] \in OpRecords
      /\ op' = [j \in OpIds |-> op'[j]]
      /\ \A j \in OpIds \ {i} :
              \/ op'[j] = op[j]
              \/ /\ j \in Eops /\ op[j].type = "unborn" /\ op'[j].type = "free"
                 /\ op'[j].owner = t /\ op'[j].live = {} /\ op'[j] \in OpRecords
      /\ ListsInv' /\ free' \in [Threads -> [Lists -> Seq(OpIds)]]
  BY <1>1, NewEopFacts
<1>4. \A j \in Iops : j \in OpIds /\ j \notin Eops /\ op'[j] = op[j]
  BY <1>2, <1>3, Ids
<1>5. /\ xf[x].op = 0 /\ xf[x].st = "none"
      /\ xf'[x].op = i /\ xf'[x].cat = c /\ xf'[x].st = "request"
      /\ \A y \in Xfers \ {x} : xf'[y] = xf[y]
      /\ xf' \in [Xfers -> [op : OpIds \union {0}, cat : Cats,
                               st : {"none", "request", "reply", "done"}]]
      /\ \A p \in Pollers : hnd[p].in = "mark" => hnd[p].x # x
  BY <1>1, <1>2, RequestFacts
<1>6. EventTypeOK'
  <2>1. op' \in [OpIds -> OpRecords]
    BY <1>3 DEF EventTypeOK
  <2>2. held' \subseteq OpIds \X Cats
    BY <1>1, <1>2 DEF EventTypeOK
  <2> QED BY <1>1, <1>3, <1>5, <2>1, <2>2 DEF EventTypeOK
<1>7. ArraysKept
  BY <1>1 DEF ArraysKept
<1>8. StacksInv'
  BY <1>1, <1>4, StacksFrame DEF IsOpen
<1>9. HandsInv'
  <2>1. \A u \in Threads : /\ Passed(u)' = Passed(u) /\ Synced(u)' = Synced(u)
                           /\ call'[u].in = "bulk" <=> call[u].in = "bulk"
                           /\ Synced(u) \subseteq OpIds
                           /\ \A e \in Passed(u) : OpOf(e) \in OpIds
    BY <1>7, ArraysFrame, Ranges, Ids
  <2>2. \A e \in held : OpOf(e) \in OpIds
    BY Ids DEF EventTypeOK
  <2>3. \A j \in OpIds : /\ IsClosed(j) => IsClosed(j)'
                         /\ IsClosed(j)' => IsClosed(j) \/ j = i
                         /\ op'[j].type = "pendingfree" <=> op[j].type = "pendingfree"
    BY <1>3 DEF IsClosed
  <2>4. IsClosed(i)' /\ ~IsClosed(i) /\ op[i].type # "pendingfree" /\ OpOf(<<i, Root>>) = i
    BY <1>3 DEF IsClosed, OpOf
  <2>5. \A u \in Threads : <<i, Root>> \notin Passed(u)
    BY <2>4 DEF HandsInv
  <2>6. \A e \in held' : IsClosed(OpOf(e))' /\ <<OpOf(e), Root>> \in held'
    BY <1>1, <2>2, <2>3, <2>4 DEF HandsInv
  <2>7. ASSUME NEW u \in Threads
        PROVE  /\ Passed(u) \intersect held' = {}
               /\ \A w \in Threads \ {u} : /\ Passed(u) \intersect Passed(w) = {}
                                           /\ Synced(u) \intersect Synced(w) = {}
               /\ \A e \in Passed(u) :
                    \/ OpOf(e) \in Synced(u)
                    \/ IsClosed(OpOf(e))' /\ <<OpOf(e), Root>> \in held' \union Passed(u)
               /\ \A j \in Synced(u) : op'[j].type = "pendingfree"
               /\ call'[u].in = "bulk" => \A e \in Passed(u) : OpOf(e) \notin Synced(u)
    BY <1>1, <2>1, <2>3, <2>5 DEF HandsInv
  <2>8. \A j \in OpIds :
          /\ IsClosed(j)' => \/ <<j, Root>> \in held'
                             \/ \E u \in Threads : <<j, Root>> \in Passed(u)
          /\ op'[j].type = "pendingfree" => \E u \in Threads : j \in Synced(u)
    BY <1>1, <2>3 DEF HandsInv
  <2> QED BY <2>1, <2>6, <2>7, <2>8 DEF HandsInv
<1>10. ArraysInv'
  <2>1. \A j \in OpIds : op[j].type = "pendingfree" => op'[j].owner = op[j].owner
    BY <1>3
  <2> QED BY <1>7, <2>1, ArraysInvFrame
<1>11. CountersInv'
  <2>1. \A j \in Iops, d \in Cats : Pending(j, d)' = Pending(j, d)
    BY <1>2, <1>5, <1>4, Ids DEF Pending
  <2> QED BY <1>4, <2>1 DEF CountersInv
<1>12. BitsInv'
  <2>1. \A j \in OpIds : /\ op'[j].type \in {"free", "pendingfree"} => op'[j].live = {}
                         /\ op'[j].type = "unborn" => op'[j] = Unborn
                         /\ op'[j].type # "unborn" => op'[j].owner \in Threads
    <3> SUFFICES ASSUME NEW j \in OpIds
                 PROVE  /\ op'[j].type \in {"free", "pendingfree"} => op'[j].live = {}
                        /\ op'[j].type = "unborn" => op'[j] = Unborn
                        /\ op'[j].type # "unborn" => op'[j].owner \in Threads
      OBVIOUS
    <3>1. CASE j = i
      BY <1>3, <3>1
    <3>2. CASE j # i /\ op'[j] = op[j]
      BY <3>2 DEF BitsInv
    <3>3. CASE op'[j].type = "free" /\ op'[j].live = {} /\ op'[j].owner = t
      BY <3>3
    <3> QED BY <1>3, <3>1, <3>2, <3>3
  <2>2. \A j \in Iops :
          /\ op'[j].type \in {"free", "pendingfree"} => op'[j].next = "self"
          /\ op'[j].next = "parent" => op'[j].type = "busy" /\ op'[j].live = Cats
          /\ op'[j].next = "self" =>
               \A d \in Cats \ op'[j].live : op'[j].ini[d] = op'[j].com[d]
    BY <1>4 DEF BitsInv
  <2>3. \A j \in Eops : op'[j].live \subseteq {Root}
    <3> SUFFICES ASSUME NEW j \in Eops PROVE op'[j].live \subseteq {Root}
      OBVIOUS
    <3>1. j \in OpIds
      BY Ids
    <3> QED BY <1>3, <3>1 DEF BitsInv
  <2> QED BY <2>1, <2>2, <2>3 DEF BitsInv
<1>13. TransfersInv'
  <2>1. \A y \in Xfers \ {x} : xf[y].op # i
    BY <1>3 DEF TransfersInv
  <2>2. \A j \in Eops : op[j].type = "busy" /\ op[j].live = {Root} =>
                           op'[j].type = "busy" /\ op'[j].live = {Root}
    BY <1>3, Ids
  <2>3. \A j \in Iops, d \in Cats : op'[j].com[d] = op[j].com[d]
    BY <1>4
  <2>4. /\ op'[i].type = "busy" /\ op'[i].live = {Root} /\ hnd' = hnd
        /\ xf[x].op = 0 /\ xf[x].st = "none" /\ xf'[x].op = i /\ xf'[x].st = "request"
        /\ \A y \in Xfers \ {x} : xf'[y] = xf[y]
        /\ \A p \in Pollers : hnd[p].in = "mark" => hnd[p].x # x
    BY <1>1, <1>3, <1>5
  <2> QED BY <1>2, <2>1, <2>2, <2>3, <2>4, NewTransfer
<1> QED BY <1>3, <1>6, <1>8, <1>9, <1>10, <1>11, <1>12, <1>13

-----------------------------------------------------------------------------
(* Syncing single events.                                                    *)

\* An event the client holds is that of a closed op whose root it holds too.
LEMMA HeldFacts ==
  ASSUME EventTypeOK, HandsInv, NEW e \in held
  PROVE  /\ e \in OpIds \X Cats /\ OpOf(e) \in OpIds /\ e[2] \in Cats /\ e = <<OpOf(e), e[2]>>
         /\ IsClosed(OpOf(e)) /\ <<OpOf(e), Root>> \in held /\ op[OpOf(e)].type = "busy"
         /\ ~IsLeaf(e) <=> e = <<OpOf(e), Root>>
<1>1. e \in OpIds \X Cats
  BY DEF EventTypeOK
<1> QED BY <1>1, Ids DEF HandsInv, IsClosed, OpOf, IsLeaf

\* Nobody else has an event of a root that is held and whose leaves are in no
\* call.
LEMMA NoLeaves ==
  ASSUME EventTypeOK, HandsInv, NEW i \in OpIds, ~LeavesInUse(i), <<i, Root>> \in held,
         NEW u \in Threads, NEW e \in Passed(u)
  PROVE  OpOf(e) # i
<1> SUFFICES ASSUME OpOf(e) = i PROVE FALSE
  OBVIOUS
<1>1. u \in InArrays /\ e \in ToSet(call[u].arr) /\ e \in OpIds \X Cats
  BY Ranges DEF Passed
<1>2. e # <<i, Root>>
  BY DEF HandsInv
<1>3. IsLeaf(e)
  BY <1>1, <1>2, Ids
<1> QED BY <1>1, <1>3 DEF LeavesInUse, InArrays

\* gasnete_op_try_free of a root: the op goes back to the thread that made it,
\* and the client has none of its events any more.
LEMMA TestRootStep ==
  ASSUME EventInv, NEW t \in Threads, NEW e \in held, gasnete_test_root(t, e)
  PROVE  EventInv'
<1> USE DEF EventInv
<1> SUFFICES ASSUME NEW i, i = OpOf(e) PROVE EventInv'
  OBVIOUS
<1>1. /\ e = <<i, Root>> /\ i \in OpIds /\ IsClosed(i) /\ op[i].type = "busy" /\ op[i].live = {}
      /\ ~LeavesInUse(i)
  BY HeldFacts DEF gasnete_test_root, AnyLive
<1>2. /\ op' = [op EXCEPT ![i].type = "free"] /\ free' = Freed(t, <<i>>)
      /\ held' = held \ EventsOf(i)
      /\ UNCHANGED <<cur, xf, hnd, call, regions>>
  BY DEF gasnete_test_root
<1>3. op[i] \in OpRecords /\ op[i].owner \in Threads
  BY <1>1, OpFacts DEF BitsInv
<1>4. /\ \A j \in OpIds \ {i} : op'[j] = op[j]
      /\ op'[i] = [op[i] EXCEPT !.type = "free"] /\ op' = [j \in OpIds |-> op'[j]]
  BY <1>1, <1>2 DEF EventTypeOK
<1>5. /\ op'[i].type = "free" /\ op'[i].owner = op[i].owner /\ op'[i].next = op[i].next
      /\ op'[i].ini = op[i].ini /\ op'[i].com = op[i].com /\ op'[i].live = op[i].live
      /\ op'[i] \in OpRecords
  BY <1>3, <1>4 DEF OpRecords, Types
<1>6. \A j \in Iops : j \in OpIds /\ j \notin Eops
  BY Ids
<1>7. ListsInv' /\ free' \in [Threads -> [Lists -> Seq(OpIds)]]
  <2>0. op[i].owner \in Threads /\ <<i>> \in Seq(OpIds)
    BY <1>1, <1>3
  <2>1. ASSUME NEW q \in Seq(OpIds), q = <<i>>, NEW o \in Threads, o = op[i].owner
        PROVE  ListsInv' /\ free' \in [Threads -> [Lists -> Seq(OpIds)]]
    <3>1. IsInjective(q) /\ ToSet(q) = {i} /\ q # <<>> /\ Head(q) = i
      BY <1>1, <2>1, OneFacts
    <3>2. free' = Freed(t, q)
      BY <1>2, <2>1
    <3>3. \A j \in ToSet(q) : /\ op[j].type # "free" /\ op[j].owner = o
                              /\ KindOf(j) = KindOf(Head(q))
                              /\ op'[j].type = "free" /\ op'[j].owner = o
      BY <1>1, <1>5, <2>1, <3>1
    <3>4. \A j \in OpIds \ ToSet(q) : /\ op'[j].type = "free" <=> op[j].type = "free"
                                      /\ op[j].type = "free" => op'[j].owner = op[j].owner
      BY <1>4, <3>1
    <3>5. EventTypeOK /\ ListsInv /\ q # <<>> /\ IsInjective(q)
      BY <3>1
    <3> HIDE DEF EventInv
    <3> QED BY <3>2, <3>3, <3>4, <3>5, FreeStep
  <2> QED BY <2>0, <2>1
<1>8. EventTypeOK'
  <2>1. op' \in [OpIds -> OpRecords]
    BY <1>4, <1>5 DEF EventTypeOK
  <2>2. held' \subseteq OpIds \X Cats
    BY <1>2 DEF EventTypeOK
  <2> QED BY <1>2, <1>7, <2>1, <2>2 DEF EventTypeOK
<1>9. ArraysKept
  BY <1>2 DEF ArraysKept
<1>10. StacksInv'
  <2>1. \A j \in Iops : /\ IsOpen(j)' <=> IsOpen(j)
                        /\ IsOpen(j) => op'[j].owner = op[j].owner /\ op'[j].next = op[j].next
    BY <1>1, <1>4, <1>5, <1>6 DEF IsOpen, IsClosed
  <2> QED BY <1>2, <2>1, StacksFrame
<1>11. HandsInv'
  <2>1. \A u \in Threads : /\ Passed(u)' = Passed(u) /\ Synced(u)' = Synced(u)
                           /\ call'[u].in = "bulk" <=> call[u].in = "bulk"
                           /\ Synced(u) \subseteq OpIds
                           /\ \A d \in Passed(u) : OpOf(d) \in OpIds
    BY <1>9, ArraysFrame, Ranges, Ids
  <2>2. \A d \in held : OpOf(d) \in OpIds /\ OpOf(<<OpOf(d), Root>>) = OpOf(d)
    BY HeldFacts DEF OpOf
  <2>3. \A j \in OpIds : /\ j # i => (IsClosed(j)' <=> IsClosed(j))
                         /\ op'[j].type = "pendingfree" <=> op[j].type = "pendingfree"
    BY <1>1, <1>4, <1>5 DEF IsClosed
  <2>4. ~IsClosed(i)'
    BY <1>5 DEF IsClosed
  <2>5. \A u \in Threads : \A d \in Passed(u) : OpOf(d) # i
    BY <1>1, NoLeaves
  <2>6. \A d \in held : OpOf(d) # i <=> d \in held'
    BY <1>2 DEF EventsOf
  <2>7. held' \subseteq held
    BY <1>2
  <2>8. \A d \in held' : IsClosed(OpOf(d))' /\ <<OpOf(d), Root>> \in held'
    BY <2>2, <2>3, <2>6, <2>7 DEF HandsInv
  <2>9. ASSUME NEW u \in Threads
        PROVE  /\ Passed(u) \intersect held' = {}
               /\ \A w \in Threads \ {u} : /\ Passed(u) \intersect Passed(w) = {}
                                           /\ Synced(u) \intersect Synced(w) = {}
               /\ \A d \in Passed(u) :
                    \/ OpOf(d) \in Synced(u)
                    \/ IsClosed(OpOf(d))' /\ <<OpOf(d), Root>> \in held' \union Passed(u)
               /\ \A j \in Synced(u) : op'[j].type = "pendingfree"
               /\ call'[u].in = "bulk" => \A d \in Passed(u) : OpOf(d) \notin Synced(u)
    <3>1. /\ Passed(u) \intersect held' = {}
          /\ \A w \in Threads \ {u} : /\ Passed(u) \intersect Passed(w) = {}
                                      /\ Synced(u) \intersect Synced(w) = {}
          /\ \A j \in Synced(u) : op'[j].type = "pendingfree"
          /\ call'[u].in = "bulk" => \A d \in Passed(u) : OpOf(d) \notin Synced(u)
      BY <2>1, <2>3, <2>7 DEF HandsInv
    <3>2. ASSUME NEW d \in Passed(u), OpOf(d) \notin Synced(u)
          PROVE  IsClosed(OpOf(d))' /\ <<OpOf(d), Root>> \in held' \union Passed(u)
      <4>1. IsClosed(OpOf(d)) /\ <<OpOf(d), Root>> \in held \union Passed(u)
        BY <3>2 DEF HandsInv
      <4>2. OpOf(d) # i /\ OpOf(d) \in OpIds /\ OpOf(<<OpOf(d), Root>>) = OpOf(d)
        BY <2>1, <2>5 DEF OpOf
      <4> QED BY <2>3, <2>6, <4>1, <4>2
    <3> QED BY <3>1, <3>2
  <2>10. \A j \in OpIds :
          /\ IsClosed(j)' => \/ <<j, Root>> \in held'
                             \/ \E u \in Threads : <<j, Root>> \in Passed(u)
          /\ op'[j].type = "pendingfree" => \E u \in Threads : j \in Synced(u)
    <3> SUFFICES ASSUME NEW j \in OpIds
                 PROVE  /\ IsClosed(j)' => \/ <<j, Root>> \in held'
                                           \/ \E u \in Threads : <<j, Root>> \in Passed(u)
                        /\ op'[j].type = "pendingfree" => \E u \in Threads : j \in Synced(u)
      OBVIOUS
    <3>1. OpOf(<<j, Root>>) = j
      BY DEF OpOf
    <3> QED BY <2>3, <2>4, <2>6, <3>1 DEF HandsInv
  <2> QED BY <2>1, <2>8, <2>9, <2>10 DEF HandsInv
<1>12. ArraysInv'
  <2>1. \A j \in OpIds : op[j].type = "pendingfree" => op'[j].owner = op[j].owner
    BY <1>1, <1>4, <1>5
  <2> QED BY <1>9, <2>1, ArraysInvFrame
<1>13. CountersInv'
  BY <1>2, <1>4, <1>5, <1>6, CountersFrame
<1>14. BitsInv'
  <2>1. \A j \in OpIds : /\ op'[j].type \in {"free", "pendingfree"} => op'[j].live = {}
                         /\ op'[j].type = "unborn" => op'[j] = Unborn
                         /\ op'[j].type # "unborn" => op'[j].owner \in Threads
    BY <1>1, <1>3, <1>4, <1>5 DEF BitsInv
  <2>2. ASSUME NEW j \in Iops
        PROVE  /\ op'[j].type \in {"free", "pendingfree"} => op'[j].next = "self"
               /\ op'[j].next = "parent" => op'[j].type = "busy" /\ op'[j].live = Cats
               /\ op'[j].next = "self" =>
                    \A d \in Cats \ op'[j].live : op'[j].ini[d] = op'[j].com[d]
    <3>1. CASE j = i
      BY <1>1, <1>5, <1>6, <3>1 DEF BitsInv, IsClosed
    <3>2. CASE j # i
      <4>1. op'[j] = op[j]
        BY <1>4, <1>6, <3>2
      <4> QED BY <4>1 DEF BitsInv
    <3> QED BY <3>1, <3>2
  <2>3. \A j \in Eops : op'[j].live \subseteq {Root}
    BY ZenonT(60), <1>4, <1>5, Ids DEF BitsInv
  <2> QED BY <2>1, <2>2, <2>3 DEF BitsInv
<1>15. TransfersInv'
  <2>1. \A j \in Eops : op[j].type = "busy" /\ op[j].live = {Root} =>
                          op'[j].type = "busy" /\ op'[j].live = {Root}
    BY <1>1, <1>4, Ids
  <2>2. \A j \in Iops, c \in Cats : op[j].com[c] <= op'[j].com[c] /\ op'[j].com[c] \in Nat
    <3> SUFFICES ASSUME NEW j \in Iops, NEW c \in Cats
                 PROVE  op[j].com[c] <= op'[j].com[c] /\ op'[j].com[c] \in Nat
      OBVIOUS
    <3>1. op[j].com[c] \in Nat /\ op'[j].com[c] = op[j].com[c]
      BY <1>4, <1>5, <1>6, OpFacts
    <3> QED BY <3>1
  <2> QED BY <1>2, <2>1, <2>2, TransfersFrame
<1> QED BY <1>7, <1>8, <1>10, <1>11, <1>12, <1>13, <1>14, <1>15

\* Only what the client holds changes.
LEMMA HeldStep ==
  ASSUME EventInv, UNCHANGED <<op, cur, free, xf, hnd, call, regions>>,
         held' \subseteq OpIds \X Cats, HandsInv'
  PROVE  EventInv'
<1> USE DEF EventInv
<1>1. EventTypeOK'
  BY DEF EventTypeOK
<1>2. ArraysKept
  BY DEF ArraysKept
<1>3. ListsInv' /\ StacksInv'
  BY ListsFrame, StacksFrame DEF IsOpen
<1>4. ArraysInv'
  BY <1>2, ArraysInvFrame
<1>5. CountersInv' /\ BitsInv'
  BY CountersFrame, BitsFrame
<1>6. TransfersInv'
  BY DEF TransfersInv, Underway
<1> QED BY <1>1, <1>3, <1>4, <1>5, <1>6

\* A leaf found complete is dropped.
LEMMA TestLeafStep ==
  ASSUME EventInv, NEW t \in Threads, NEW e \in held, gasnete_test_leaf(t, e)
  PROVE  EventInv'
<1> USE DEF EventInv
<1>1. /\ IsLeaf(e) /\ held' = held \ {e} /\ UNCHANGED <<op, cur, free, xf, hnd, call, regions>>
  BY DEF gasnete_test_leaf
<1>2. \A i : <<i, Root>> # e
  BY <1>1 DEF IsLeaf
<1>3. ArraysKept
  BY <1>1 DEF ArraysKept
<1>4. \A u \in Threads : /\ Passed(u)' = Passed(u) /\ Synced(u)' = Synced(u)
                         /\ call'[u].in = "bulk" <=> call[u].in = "bulk"
  BY <1>3, ArraysFrame
<1>5. \A j : IsClosed(j)' <=> IsClosed(j)
  BY <1>1 DEF IsClosed
<1>6. HandsInv'
  BY <1>1, <1>2, <1>4, <1>5 DEF HandsInv
<1> QED BY <1>1, <1>6, HeldStep DEF EventTypeOK

\* gasnete_Event_QueryLeaf hands out a leaf of a root the client holds.
LEMMA QueryLeafStep ==
  ASSUME EventInv, NEW e \in held, NEW c \in Cats, gasnete_Event_QueryLeaf(e, c)
  PROVE  EventInv'
<1> USE DEF EventInv
<1> SUFFICES ASSUME NEW i, i = OpOf(e) PROVE EventInv'
  OBVIOUS
<1>1. /\ c # Root /\ ~LeavesInUse(i) /\ held' = held \union {<<i, c>>}
      /\ UNCHANGED <<op, cur, free, xf, hnd, call, regions>>
  BY DEF gasnete_Event_QueryLeaf
<1>2. i \in OpIds /\ IsClosed(i) /\ <<i, Root>> \in held /\ OpOf(<<i, c>>) = i
  BY HeldFacts DEF OpOf
<1>3. ArraysKept
  BY <1>1 DEF ArraysKept
<1>4. \A u \in Threads : /\ Passed(u)' = Passed(u) /\ Synced(u)' = Synced(u)
                         /\ call'[u].in = "bulk" <=> call[u].in = "bulk"
                         /\ <<i, c>> \notin Passed(u)
  BY <1>1, <1>2, <1>3, ArraysFrame, NoLeaves
<1>5. \A j : IsClosed(j)' <=> IsClosed(j)
  BY <1>1 DEF IsClosed
<1>6. HandsInv'
  BY <1>1, <1>2, <1>4, <1>5 DEF HandsInv
<1> QED BY <1>1, <1>2, <1>6, HeldStep DEF EventTypeOK

-----------------------------------------------------------------------------
(* Syncing arrays of events.                                                 *)

\* A step of one thread's call leaves the others' arrays alone.
LEMMA OtherArrays ==
  ASSUME NEW t \in Threads, \A u \in Threads \ {t} : call'[u] = call[u],
         NEW u \in Threads \ {t}
  PROVE  /\ Passed(u)' = Passed(u) /\ Synced(u)' = Synced(u)
         /\ call'[u].in = "bulk" <=> call[u].in = "bulk"
         /\ (u \in InArrays)' <=> u \in InArrays
<1>1. call'[u] = call[u]
  OBVIOUS
<1>2. (u \in InArrays)' <=> u \in InArrays
  BY <1>1 DEF InArrays
<1>3. Passed(u)' = Passed(u)
  BY <1>1, <1>2 DEF Passed
<1>4. Synced(u)' = Synced(u)
  BY <1>1, <1>2 DEF Synced
<1> QED BY <1>1, <1>2, <1>3, <1>4

\* The batches of an array name owners only of ops that it has synced.
LEMMA BatchOwners ==
  ASSUME EventTypeOK, HandsInv, NEW t \in InArrays, NEW b \in Batches,
         NEW i \in ToSet(call[t].synced[b])
  PROVE  /\ i \in OpIds /\ i \in Synced(t) /\ op[i].type = "pendingfree"
         /\ Head(call[t].synced[b]) \in ToSet(call[t].synced[b])
<1>1. t \in Threads /\ i \in OpIds /\ i \in Synced(t)
  BY Ranges DEF Synced
<1>2. op[i].type = "pendingfree"
  BY <1>1 DEF HandsInv
<1>3. call[t].synced[b] \in Seq(OpIds)
  BY Ranges DEF ArrayCalls
<1>4. Head(call[t].synced[b]) \in ToSet(call[t].synced[b])
  BY <1>3 DEF ToSet
<1> QED BY <1>1, <1>2, <1>4

\* A call that is as before has found out as much as before.
LEMMA SameArray ==
  ASSUME NEW u \in Threads, call'[u] = call[u], ArrayInv(call[u])
  PROVE  ArrayInv(call[u])'
OBVIOUS

\* The array calls keep what they promise when the one that moves does.
LEMMA ArraysInvStep ==
  ASSUME EventTypeOK, HandsInv, ArraysInv, NEW t \in Threads,
         \A u \in Threads \ {t} : call'[u] = call[u],
         \A i \in OpIds : op[i].type = "pendingfree" => op'[i].owner = op[i].owner,
         (t \in InArrays)' => BatchesInv(call[t])' /\ ArrayInv(call[t])'
  PROVE  ArraysInv'
<1> SUFFICES ASSUME NEW u \in InArrays' PROVE BatchesInv(call[u])' /\ ArrayInv(call[u])'
  BY DEF ArraysInv
<1>1. u \in Threads
  BY DEF InArrays
<1>2. CASE u = t
  BY <1>2
<1>3. CASE u # t
  <2>1. u \in InArrays /\ call'[u] = call[u]
    BY <1>1, <1>3 DEF InArrays
  <2>2. \A b \in Batches : \A i \in ToSet(call[u].synced[b]) :
          /\ op'[i].owner = op[i].owner
          /\ Head(call[u].synced[b]) \in OpIds
          /\ op'[Head(call[u].synced[b])].owner = op[Head(call[u].synced[b])].owner
    BY <2>1, BatchOwners
  <2>3. BatchesInv(call[u]) /\ ArrayInv(call[u])
    BY <2>1 DEF ArraysInv
  <2>4. BatchesInv(call[u])'
    BY <2>1, <2>2, <2>3 DEF BatchesInv
  <2>5. ArrayInv(call[u])'
    BY <1>1, <2>1, <2>3, SameArray
  <2> QED BY <2>4, <2>5
<1> QED BY <1>2, <1>3

\* The events of a call are finitely many.
LEMMA EventsFinite == IsFiniteSet(OpIds \X Cats)
<1>1. IsFiniteSet(OpIds) /\ IsFiniteSet(Cats)
  BY EventsAssumption, FS_Union DEF OpIds
<1> QED BY <1>1, FS_Product

\* gasnete_test_all and gasnete_test_some start: the array's events are with
\* the call, and the leaves of the roots among them too.
LEMMA TestArrayStep ==
  ASSUME EventInv, NEW t \in Threads, call[t] = Idle, gasnete_test_array(t)
  PROVE  EventInv'
<1> USE DEF EventInv
<1>1. PICK E \in SUBSET held \ {{}} :
        /\ Cardinality(E) > 1 /\ Passable(E)
        /\ \E arr \in SetToSeqs(E) : call' = [call EXCEPT ![t] =
             [in |-> "pass1", arr |-> arr, i |-> 1, retest |-> 0,
              all |-> TRUE, some |-> FALSE, synced |-> [b \in Batches |-> <<>>]]]
        /\ held' = held \ E
        /\ UNCHANGED <<op, cur, free, xf, hnd, regions>>
  BY DEF gasnete_test_array
<1>16. PICK arr \in SetToSeqs(E) : call' = [call EXCEPT ![t] =
             [in |-> "pass1", arr |-> arr, i |-> 1, retest |-> 0,
              all |-> TRUE, some |-> FALSE, synced |-> [b \in Batches |-> <<>>]]]
  BY <1>1
<1> SUFFICES ASSUME NEW a, a = [in |-> "pass1", arr |-> arr, i |-> 1, retest |-> 0,
                                all |-> TRUE, some |-> FALSE,
                                synced |-> [b \in Batches |-> <<>>]]
             PROVE  EventInv'
  OBVIOUS
<1>2. E \subseteq held /\ E \subseteq OpIds \X Cats /\ IsFiniteSet(E)
  <2>1. E \subseteq held /\ E \subseteq OpIds \X Cats
    BY DEF EventTypeOK
  <2> QED BY <2>1, EventsFinite, FS_Subset
<1>3. /\ arr \in Seq(E) /\ IsInjective(arr) /\ ToSet(arr) = E /\ Len(arr) = Cardinality(E)
      /\ Cardinality(E) \in Nat
  BY <1>2, ListingFacts, FS_CardinalityType
<1>4. /\ a.in = "pass1" /\ a.arr = arr /\ a.i = 1 /\ a.retest = 0 /\ a.all = TRUE /\ a.some = FALSE
      /\ \A b \in Batches : a.synced[b] = <<>>
  OBVIOUS
<1>5. a \in ArrayCalls
  <2>1. arr \in Seq((OpIds \X Cats) \union {Invalid})
    <3>1. \A s \in Seq(E) : s \in Seq((OpIds \X Cats) \union {Invalid})
      BY <1>2
    <3> QED BY <1>3, <3>1
  <2>2. [b \in Batches |-> <<>>] \in [Batches -> Seq(OpIds)]
    OBVIOUS
  <2> QED BY <2>1, <2>2 DEF ArrayCalls, ArrayStages
<1>6. call' = [call EXCEPT ![t] = a]
  BY <1>16
<1>7. /\ call'[t] = a /\ \A u \in Threads \ {t} : call'[u] = call[u]
      /\ call' \in [Threads -> CallTypes]
  BY <1>5, <1>6 DEF EventTypeOK, CallTypes
<1>8. EventTypeOK'
  BY <1>1, <1>7 DEF EventTypeOK, CallTypes
<1>9. (t \in InArrays)' /\ t \notin InArrays
  BY <1>4, <1>7 DEF InArrays, Idle
<1>10. Passed(t)' = E /\ Synced(t)' = {} /\ Passed(t) = {} /\ Synced(t) = {}
  <2>1. Passed(t) = {} /\ Synced(t) = {}
    BY <1>9 DEF Passed, Synced
  <2>2. Passed(t)' = E
    BY <1>2, <1>3, <1>4, <1>7, <1>9, Ids DEF Passed
  <2>3. Synced(t)' = {}
    BY <1>4, <1>7, <1>9 DEF Synced, ToSet
  <2> QED BY <2>1, <2>2, <2>3
<1>11. ListsInv' /\ StacksInv'
  BY <1>1, ListsFrame, StacksFrame DEF IsOpen
<1>12. CountersInv' /\ BitsInv'
  BY <1>1, CountersFrame, BitsFrame
<1>13. TransfersInv'
  BY <1>1 DEF TransfersInv, Underway
<1>14. HandsInv'
  <2>1. \A u \in Threads \ {t} : /\ Passed(u)' = Passed(u) /\ Synced(u)' = Synced(u)
                                 /\ call'[u].in = "bulk" <=> call[u].in = "bulk"
    BY <1>7, OtherArrays
  <2>2. \A j : /\ IsClosed(j)' <=> IsClosed(j)
               /\ op'[j].type = "pendingfree" <=> op[j].type = "pendingfree"
    BY <1>1 DEF IsClosed
  <2>3. \A d \in held : /\ OpOf(d) \in OpIds /\ IsClosed(OpOf(d)) /\ <<OpOf(d), Root>> \in held
                        /\ OpOf(<<OpOf(d), Root>>) = OpOf(d) /\ ~IsLeaf(<<OpOf(d), Root>>)
    BY HeldFacts DEF OpOf, IsLeaf
  <2>4. \A d \in held : <<OpOf(d), Root>> \in E => d \in E /\ ~LeavesInUse(OpOf(d))
    BY <1>1, <2>3 DEF Passable, EventsOf
  <2>5. \A d \in held' : IsClosed(OpOf(d))' /\ <<OpOf(d), Root>> \in held'
    BY <1>1, <2>2, <2>3, <2>4
  <2>6. ASSUME NEW u \in Threads
        PROVE  /\ Passed(u)' \intersect held' = {}
               /\ \A w \in Threads \ {u} : /\ Passed(u)' \intersect Passed(w)' = {}
                                           /\ Synced(u)' \intersect Synced(w)' = {}
               /\ \A d \in Passed(u)' :
                    \/ OpOf(d) \in Synced(u)'
                    \/ IsClosed(OpOf(d))' /\ <<OpOf(d), Root>> \in held' \union Passed(u)'
               /\ \A j \in Synced(u)' : op'[j].type = "pendingfree"
               /\ call'[u].in = "bulk" => \A d \in Passed(u)' : OpOf(d) \notin Synced(u)'
    <3>1. Passed(u)' \intersect held' = {}
      BY <1>1, <1>10, <2>1 DEF HandsInv
    <3>2. \A w \in Threads \ {u} : /\ Passed(u)' \intersect Passed(w)' = {}
                                   /\ Synced(u)' \intersect Synced(w)' = {}
      BY <1>2, <1>10, <2>1 DEF HandsInv
    <3>3. ASSUME NEW d \in Passed(u)', OpOf(d) \notin Synced(u)'
          PROVE  IsClosed(OpOf(d))' /\ <<OpOf(d), Root>> \in held' \union Passed(u)'
      <4>1. CASE u = t
        <5>1. d \in E /\ d \in held
          BY <1>2, <1>10, <3>3, <4>1
        <5> QED BY <1>1, <1>10, <2>2, <2>3, <4>1, <5>1
      <4>2. CASE u # t
        <5>1. /\ d \in Passed(u) /\ IsClosed(OpOf(d)) /\ OpOf(d) \in OpIds
              /\ <<OpOf(d), Root>> \in held \union Passed(u)
          BY <2>1, <3>3, <4>2, Ranges, Ids DEF HandsInv
        <5>2. <<OpOf(d), Root>> \in held => <<OpOf(d), Root>> \notin E
          <6> SUFFICES ASSUME <<OpOf(d), Root>> \in held, <<OpOf(d), Root>> \in E PROVE FALSE
            OBVIOUS
          <6>1. OpOf(<<OpOf(d), Root>>) = OpOf(d)
            BY DEF OpOf
          <6>2. ~LeavesInUse(OpOf(d))
            BY <2>4, <6>1
          <6>3. OpOf(d) # OpOf(d)
            <7> SUFFICES ASSUME NEW i \in OpIds, i = OpOf(d) PROVE OpOf(d) # i
              BY <5>1
            <7> QED BY <5>1, <6>2, NoLeaves
          <6> QED BY <6>3
        <5> QED BY <1>1, <2>1, <2>2, <4>2, <5>1, <5>2
      <4> QED BY <4>1, <4>2
    <3>4. /\ \A j \in Synced(u)' : op'[j].type = "pendingfree"
          /\ call'[u].in = "bulk" => \A d \in Passed(u)' : OpOf(d) \notin Synced(u)'
      BY <1>4, <1>7, <1>10, <2>1, <2>2 DEF HandsInv
    <3> QED BY <3>1, <3>2, <3>3, <3>4
  <2>7. ASSUME NEW j \in OpIds
        PROVE  /\ IsClosed(j)' => \/ <<j, Root>> \in held'
                                  \/ \E u \in Threads : <<j, Root>> \in Passed(u)'
               /\ op'[j].type = "pendingfree" => \E u \in Threads : j \in Synced(u)'
    <3>1. ASSUME IsClosed(j)
          PROVE  \/ <<j, Root>> \in held'
                 \/ \E u \in Threads : <<j, Root>> \in Passed(u)'
      <4>1. CASE <<j, Root>> \in held
        BY <1>1, <1>10, <4>1
      <4>2. CASE \E u \in Threads : <<j, Root>> \in Passed(u)
        BY <1>10, <2>1, <4>2
      <4> QED BY <3>1, <4>1, <4>2 DEF HandsInv
    <3>2. ASSUME op[j].type = "pendingfree" PROVE \E u \in Threads : j \in Synced(u)'
      <4>1. PICK u \in Threads : j \in Synced(u)
        BY <3>2 DEF HandsInv
      <4>2. u # t
        BY <1>10, <4>1
      <4> QED BY <2>1, <4>1, <4>2
    <3> QED BY <2>2, <3>1, <3>2
  <2> QED BY <2>5, <2>6, <2>7 DEF HandsInv
<1>15. ArraysInv'
  <2>1. BatchesInv(call[t])'
    BY <1>4, <1>7 DEF BatchesInv, ToSet, IsInjective
  <2>2. ArrayInv(a)
    <3>1. DOMAIN a.arr = 1..Len(arr) /\ Len(arr) \in Nat /\ Len(arr) > 1
      BY <1>1, <1>3, <1>4
    <3>2. \A k \in DOMAIN a.arr : a.arr[k] # Invalid
      <4>1. \A k \in DOMAIN arr : arr[k] \in E
        BY <1>3 DEF ToSet
      <4> QED BY <1>2, <1>4, <4>1, Ids
    <3>3. 1..(a.i - 1) = {} /\ a.i \in DOMAIN a.arr
      BY <1>4, <3>1
    <3>4. LeavesIn(a, 1..(a.i - 1)) = {} /\ Cardinality({}) = 0
      BY <3>3, FS_EmptySet DEF LeavesIn
    <3>5. ToFree(a) = {}
      BY <1>4 DEF ToFree
    <3>6. \A j, k \in DOMAIN a.arr : a.arr[j] = a.arr[k] => j = k
      BY <1>3, <1>4 DEF IsInjective
    <3>7. \A b \in Batches : ToSet(a.synced[b]) = {}
      BY <1>4 DEF ToSet
    <3> QED BY <1>4, <3>2, <3>3, <3>4, <3>5, <3>6, <3>7 DEF ArrayInv, Tested
  <2>3. ArrayInv(call[t])'
    BY <1>7, <2>2 DEF ArrayInv, Tested, LeavesIn, ToFree
  <2> QED BY <1>1, <1>7, <2>1, <2>3, ArraysInvStep
<1> QED BY <1>8, <1>11, <1>12, <1>13, <1>14, <1>15

\* Pass 1 has looked at the events before a.i, which may be past the end.
Halfway(a) ==
  /\ a.in = "pass1" /\ a.i \in 1..(Len(a.arr) + 1) /\ Len(a.arr) > 0
  /\ \A j, k \in DOMAIN a.arr : a.arr[j] = a.arr[k] => j = k \/ a.arr[j] = Invalid
  /\ a.some = \E k \in 1..(a.i - 1) : a.arr[k] = Invalid
  /\ ToFree(a) # {} => a.some
  /\ \A k \in DOMAIN a.arr, b \in Batches :
       ~IsLeaf(a.arr[k]) => OpOf(a.arr[k]) \notin ToSet(a.synced[b])
  /\ \A k \in DOMAIN a.arr : k >= a.i => a.arr[k] # Invalid
  /\ a.retest = Cardinality(LeavesIn(a, 1..(a.i - 1)))
  /\ a.all = \A k \in 1..(a.i - 1) : a.arr[k] = Invalid \/ IsLeaf(a.arr[k])

\* The parts of an array call.
LEMMA CallParts ==
  ASSUME NEW a \in ArrayCalls
  PROVE  /\ a.in \in ArrayStages /\ a.arr \in Seq((OpIds \X Cats) \union {Invalid})
         /\ a.i \in Nat /\ a.retest \in Nat /\ a.all \in BOOLEAN /\ a.some \in BOOLEAN
         /\ a.synced \in [Batches -> Seq(OpIds)]
         /\ Len(a.arr) \in Nat /\ DOMAIN a.arr = 1..Len(a.arr)
         /\ \A k \in DOMAIN a.arr : a.arr[k] \in (OpIds \X Cats) \union {Invalid}
<1>1. /\ a.in \in ArrayStages /\ a.arr \in Seq((OpIds \X Cats) \union {Invalid})
      /\ a.i \in Nat /\ a.retest \in Nat /\ a.all \in BOOLEAN /\ a.some \in BOOLEAN
      /\ a.synced \in [Batches -> Seq(OpIds)]
  BY DEF ArrayCalls
<1>2. /\ Len(a.arr) \in Nat /\ DOMAIN a.arr = 1..Len(a.arr)
      /\ \A k \in DOMAIN a.arr : a.arr[k] \in (OpIds \X Cats) \union {Invalid}
  BY <1>1
<1> QED BY <1>1, <1>2

\* The leaves at some of an array's places are finitely many.
LEMMA LeafCount ==
  ASSUME NEW a \in ArrayCalls, NEW S, S \subseteq DOMAIN a.arr
  PROVE  /\ IsFiniteSet(LeavesIn(a, S)) /\ Cardinality(LeavesIn(a, S)) \in Nat
         /\ Cardinality(LeavesIn(a, S)) = 0 <=> \A k \in S : ~IsLeaf(a.arr[k])
<1>1. IsFiniteSet(1..Len(a.arr)) /\ DOMAIN a.arr = 1..Len(a.arr)
  <2>1. DOMAIN a.arr = 1..Len(a.arr) /\ Len(a.arr) \in Int /\ 1 \in Int
    BY CallParts
  <2>2. IsFiniteSet(1..Len(a.arr))
    BY <2>1, FS_Interval
  <2> QED BY <2>1, <2>2
<1>2. LeavesIn(a, S) \subseteq 1..Len(a.arr)
  BY <1>1 DEF LeavesIn
<1>3. IsFiniteSet(LeavesIn(a, S))
  BY <1>1, <1>2, FS_Subset
<1>4. Cardinality(LeavesIn(a, S)) = 0 <=> LeavesIn(a, S) = {}
  BY <1>3, FS_EmptySet
<1>5. LeavesIn(a, S) = {} <=> \A k \in S : ~IsLeaf(a.arr[k])
  BY DEF LeavesIn
<1> QED BY <1>3, <1>4, <1>5, FS_CardinalityType

\* The event that pass 1 looks at is counted or synced.
LEMMA Pass1Advance ==
  ASSUME NEW a \in ArrayCalls, ArrayInv(a), a.in = "pass1",
         NEW m \in ArrayCalls, m.in = "pass1", m.i = a.i + 1,
         Len(m.arr) = Len(a.arr),
         \A k \in DOMAIN a.arr : k # a.i => m.arr[k] = a.arr[k],
         NEW v, v = m.arr[a.i], v \in {Invalid, a.arr[a.i]},
         IsLeaf(v) => m.retest = a.retest + 1, ~IsLeaf(v) => m.retest = a.retest,
         m.all <=> a.all /\ (v = Invalid \/ IsLeaf(v)),
         m.some <=> a.some \/ v = Invalid,
         ToFree(m) # {} => m.some,
         \A k \in DOMAIN m.arr, b \in Batches :
           ~IsLeaf(m.arr[k]) => OpOf(m.arr[k]) \notin ToSet(m.synced[b])
  PROVE  Halfway(m)
<1> DEFINE n == Len(a.arr)
           i == a.i
<1>1. /\ n \in Nat /\ i \in 1..n /\ DOMAIN a.arr = 1..n /\ DOMAIN m.arr = 1..n
      /\ m.i = i + 1 /\ m.i - 1 = i /\ n > 0
  BY CallParts DEF ArrayInv
<1>2. \A k \in 1..i : k = i \/ k \in 1..(i - 1)
  BY <1>1
<1>3. \A k \in 1..(i - 1) : k \in 1..i /\ k \in 1..n /\ k # i /\ m.arr[k] = a.arr[k]
  BY <1>1
<1>4. i \in 1..i
  BY <1>1
<1>5. \A j, k \in DOMAIN m.arr : m.arr[j] = m.arr[k] => j = k \/ m.arr[j] = Invalid
  BY <1>1 DEF ArrayInv
<1>6. m.some = \E k \in 1..(m.i - 1) : m.arr[k] = Invalid
  <2>1. m.some \in BOOLEAN /\ (a.some <=> \E k \in 1..(i - 1) : a.arr[k] = Invalid)
    BY CallParts DEF ArrayInv, Tested
  <2>2. m.some <=> \E k \in 1..i : m.arr[k] = Invalid
    BY <1>2, <1>3, <1>4, <2>1
  <2> QED BY <1>1, <2>1, <2>2
<1>7. \A k \in DOMAIN m.arr : k >= m.i => m.arr[k] # Invalid
  BY <1>1 DEF ArrayInv
<1>8. m.all = \A k \in 1..(m.i - 1) : m.arr[k] = Invalid \/ IsLeaf(m.arr[k])
  <2>1. /\ m.all \in BOOLEAN
        /\ a.all <=> \A k \in 1..(i - 1) : a.arr[k] = Invalid \/ IsLeaf(a.arr[k])
    BY CallParts DEF ArrayInv
  <2>2. m.all <=> \A k \in 1..i : m.arr[k] = Invalid \/ IsLeaf(m.arr[k])
    BY <1>2, <1>3, <1>4, <2>1
  <2> QED BY <1>1, <2>1, <2>2
<1>9. m.retest = Cardinality(LeavesIn(m, 1..(m.i - 1)))
  <2> DEFINE L == LeavesIn(a, 1..(i - 1))
  <2>1. a.retest = Cardinality(L) /\ L \subseteq 1..(i - 1)
    BY DEF ArrayInv, LeavesIn
  <2>2. 1..(i - 1) \subseteq DOMAIN a.arr
    BY <1>1
  <2>3. IsFiniteSet(L) /\ Cardinality(L) \in Nat
    BY <2>2, LeafCount
  <2>4. i \notin L
    BY <1>1, <2>1
  <2>5. CASE IsLeaf(v)
    <3>1. LeavesIn(m, 1..i) = L \union {i}
      BY <1>2, <1>3, <1>4, <2>5 DEF LeavesIn
    <3>2. Cardinality(L \union {i}) = Cardinality(L) + 1
      BY <2>3, <2>4, FS_AddElement
    <3> QED BY <1>1, <2>1, <2>5, <3>1, <3>2
  <2>6. CASE ~IsLeaf(v)
    <3>1. LeavesIn(m, 1..i) = L
      BY <1>2, <1>3, <1>4, <2>6 DEF LeavesIn
    <3> QED BY <1>1, <2>1, <2>6, <3>1
  <2> QED BY <2>5, <2>6
<1>10. m.i \in 1..(Len(m.arr) + 1) /\ Len(m.arr) > 0
  BY <1>1
<1> QED BY <1>5, <1>6, <1>7, <1>8, <1>9, <1>10 DEF Halfway

\* What AfterPass1 makes of the call is what the call promises from then on;
\* a call that goes on to free its ops has no event of theirs left.
LEMMA AfterPass1Facts ==
  ASSUME NEW m \in ArrayCalls, Halfway(m), NEW b, b = AfterPass1(m)
  PROVE  /\ b \in ArrayCalls /\ ArrayInv(b) /\ b.arr = m.arr /\ b.synced = m.synced
         /\ b.in = "bulk" =>
              \A k \in DOMAIN b.arr, c \in Batches :
                b.arr[k] # Invalid => OpOf(b.arr[k]) \notin ToSet(b.synced[c])
<1> DEFINE n == Len(m.arr)
<1>1. /\ n \in Nat /\ n > 0 /\ m.i \in 1..(n + 1) /\ DOMAIN m.arr = 1..n /\ m.in = "pass1"
      /\ m.retest \in Nat /\ m.all \in BOOLEAN /\ m.some \in BOOLEAN /\ m.i \in Nat
  BY CallParts DEF Halfway
<1>2. CASE m.i <= n
  <2>1. b = m
    BY <1>2 DEF AfterPass1
  <2>2. m.i \in DOMAIN m.arr
    BY <1>1, <1>2
  <2>3. ArrayInv(m)
    BY <1>1, <2>2 DEF Halfway, ArrayInv, Tested
  <2> QED BY <1>1, <2>1, <2>3
<1>3. CASE m.i > n
  <2>1. m.i = n + 1 /\ m.i - 1 = n
    BY <1>1, <1>3
  <2>2. /\ \A j, k \in DOMAIN m.arr : m.arr[j] = m.arr[k] => j = k \/ m.arr[j] = Invalid
        /\ m.some = \E k \in DOMAIN m.arr : m.arr[k] = Invalid
        /\ ToFree(m) # {} => m.some
        /\ \A k \in DOMAIN m.arr, c \in Batches :
             ~IsLeaf(m.arr[k]) => OpOf(m.arr[k]) \notin ToSet(m.synced[c])
    BY <1>1, <2>1 DEF Halfway
  <2>3. m.all = \A k \in DOMAIN m.arr : m.arr[k] = Invalid \/ IsLeaf(m.arr[k])
    BY <1>1, <2>1 DEF Halfway
  <2>4. m.retest = Cardinality(LeavesIn(m, DOMAIN m.arr))
    BY <1>1, <2>1 DEF Halfway
  <2>5. m.retest = 0 <=> \A k \in DOMAIN m.arr : ~IsLeaf(m.arr[k])
    BY <2>4, LeafCount
  <2>6. CASE m.retest = 0
    <3>1. b = [m EXCEPT !.in = "bulk"]
      BY <1>1, <1>3, <2>6 DEF AfterPass1
    <3>2. /\ b \in ArrayCalls /\ b.in = "bulk" /\ b.arr = m.arr /\ b.synced = m.synced
          /\ b.all = m.all /\ b.some = m.some /\ ToFree(b) = ToFree(m)
      BY <3>1 DEF ArrayCalls, ArrayStages, ToFree
    <3>3. b.all = \A k \in DOMAIN b.arr : b.arr[k] = Invalid
      BY <2>3, <2>5, <2>6, <3>2
    <3>4. ArrayInv(b)
      BY <2>2, <3>2, <3>3 DEF ArrayInv, Tested
    <3> QED BY <2>2, <2>5, <2>6, <3>2, <3>4
  <2>7. CASE m.retest # 0 /\ ToFree(m) # {}
    <3>1. b = [m EXCEPT !.in = "pass2", !.i = 1]
      BY <1>1, <1>3, <2>7 DEF AfterPass1
    <3>2. /\ b \in ArrayCalls /\ b.in = "pass2" /\ b.i = 1 /\ b.arr = m.arr /\ b.synced = m.synced
          /\ b.all = m.all /\ b.some = m.some /\ b.retest = m.retest /\ ToFree(b) = ToFree(m)
      <4> DEFINE p == [m EXCEPT !.in = "pass2"]
      <4>1. p \in ArrayCalls /\ b = [p EXCEPT !.i = 1]
        BY <3>1 DEF ArrayCalls, ArrayStages
      <4> HIDE DEF p
      <4>2. b \in ArrayCalls
        <5>1. \A q \in Nat : [p EXCEPT !.i = q] \in ArrayCalls
          BY <4>1 DEF ArrayCalls
        <5> QED BY <4>1, <5>1
      <4>3. /\ b.in = "pass2" /\ b.i = 1 /\ b.arr = m.arr /\ b.synced = m.synced
            /\ b.all = m.all /\ b.some = m.some /\ b.retest = m.retest
        BY <3>1 DEF ArrayCalls
      <4> QED BY <4>2, <4>3 DEF ToFree
    <3>3. LeavesIn(b, b.i..Len(b.arr)) = LeavesIn(m, DOMAIN m.arr) /\ b.retest > 0 /\ b.i \in DOMAIN b.arr
      BY <1>1, <2>7, <3>2 DEF LeavesIn
    <3>4. b.all = \A k \in DOMAIN b.arr : b.arr[k] = Invalid \/ (k >= b.i /\ IsLeaf(b.arr[k]))
      BY <1>1, <2>3, <3>2
    <3>5. 1..(b.i - 1) = {}
      BY <3>2
    <3>6. ArrayInv(b)
      BY <2>2, <2>4, <3>2, <3>3, <3>4, <3>5 DEF ArrayInv, Tested
    <3> QED BY <3>2, <3>6
  <2>8. CASE m.retest # 0 /\ ToFree(m) = {}
    <3>1. b = [m EXCEPT !.in = "bulk", !.all = FALSE]
      BY <1>1, <1>3, <2>8 DEF AfterPass1
    <3>2. /\ b \in ArrayCalls /\ b.in = "bulk" /\ b.arr = m.arr /\ b.synced = m.synced
          /\ b.all = FALSE /\ b.some = m.some /\ ToFree(b) = ToFree(m)
      BY <3>1 DEF ArrayCalls, ArrayStages, ToFree
    <3>3. \E k \in DOMAIN b.arr : b.arr[k] # Invalid
      BY <2>5, <2>8, <3>2, Ids
    <3>4. \A c \in Batches : ToSet(b.synced[c]) = {}
      BY <2>8, <3>2 DEF ToFree, ToSet
    <3>5. b.all = \A k \in DOMAIN b.arr : b.arr[k] = Invalid
      BY <3>2, <3>3
    <3>6. b.some = \E k \in DOMAIN b.arr : b.arr[k] = Invalid
      BY <2>2, <3>2
    <3>7. ArrayInv(b)
      BY <2>2, <3>2, <3>5, <3>6 DEF ArrayInv, Tested
    <3> QED BY <3>2, <3>4, <3>7
  <2> QED BY <2>6, <2>7, <2>8
<1> QED BY <1>1, <1>2, <1>3

\* What an array call has in hand, place by place.
LEMMA InHand ==
  ASSUME NEW t \in InArrays
  PROVE  /\ Passed(t) = {call[t].arr[k] : k \in DOMAIN call[t].arr} \ {Invalid}
         /\ Synced(t) = UNION {ToSet(call[t].synced[b]) : b \in Batches}
BY DEF Passed, Synced, ToSet

\* A turn of an array call that syncs no root: it may find leaves done.
LEMMA ArrayTurn ==
  ASSUME EventInv, NEW t \in InArrays, NEW b \in ArrayCalls,
         call' = [call EXCEPT ![t] = b], UNCHANGED <<op, cur, free, xf, hnd, held, regions>>,
         ArrayInv(b), b.synced = call[t].synced, Len(b.arr) = Len(call[t].arr),
         \A k \in DOMAIN call[t].arr :
           \/ b.arr[k] = call[t].arr[k]
           \/ b.arr[k] = Invalid /\ IsLeaf(call[t].arr[k]),
         b.in = "bulk" =>
           \A k \in DOMAIN b.arr, c \in Batches :
             b.arr[k] # Invalid => OpOf(b.arr[k]) \notin ToSet(b.synced[c])
  PROVE  EventInv'
<1> USE DEF EventInv
<1>1. t \in Threads /\ call[t] \in ArrayCalls
  BY Ranges
<1>2. /\ call'[t] = b /\ \A u \in Threads \ {t} : call'[u] = call[u]
      /\ call' \in [Threads -> CallTypes]
  BY <1>1 DEF EventTypeOK, CallTypes
<1>3. EventTypeOK'
  BY <1>2 DEF EventTypeOK, CallTypes
<1>4. (t \in InArrays)' /\ b.in \in ArrayStages
  BY <1>1, <1>2, CallParts DEF InArrays, ArrayStages
<1>5. DOMAIN b.arr = DOMAIN call[t].arr
  BY <1>1, CallParts
<1>6. /\ Synced(t)' = Synced(t) /\ Passed(t)' \subseteq Passed(t)
      /\ \A d \in Passed(t) : ~IsLeaf(d) => d \in Passed(t)'
      /\ b.in = "bulk" => \A d \in Passed(t)' : OpOf(d) \notin Synced(t)'
  <2>1. Synced(t)' = Synced(t)
    BY <1>2, <1>4 DEF Synced
  <2>2. Passed(t)' = {b.arr[k] : k \in DOMAIN b.arr} \ {Invalid}
    BY <1>2, <1>4 DEF Passed, ToSet
  <2>3. Synced(t)' = UNION {ToSet(b.synced[c]) : c \in Batches}
    BY <1>2, <1>4 DEF Synced
  <2>4. Passed(t)' \subseteq Passed(t)
    BY <1>5, <2>2, InHand
  <2>5. \A d \in Passed(t) : ~IsLeaf(d) => d \in Passed(t)'
    BY <1>5, <2>2, InHand
  <2>6. b.in = "bulk" => \A d \in Passed(t)' : OpOf(d) \notin Synced(t)'
    BY <2>2, <2>3
  <2> QED BY <2>1, <2>4, <2>5, <2>6
<1>7. ListsInv' /\ StacksInv'
  BY ListsFrame, StacksFrame DEF IsOpen
<1>8. CountersInv' /\ BitsInv'
  BY CountersFrame, BitsFrame
<1>9. TransfersInv'
  BY DEF TransfersInv, Underway
<1>10. HandsInv'
  <2>1. \A u \in Threads \ {t} : /\ Passed(u)' = Passed(u) /\ Synced(u)' = Synced(u)
                                 /\ call'[u].in = "bulk" <=> call[u].in = "bulk"
    BY <1>1, <1>2, OtherArrays
  <2>2. \A j : /\ IsClosed(j)' <=> IsClosed(j)
               /\ op'[j].type = "pendingfree" <=> op[j].type = "pendingfree"
    BY DEF IsClosed
  <2>3. \A d \in held' : IsClosed(OpOf(d))' /\ <<OpOf(d), Root>> \in held'
    BY <2>2 DEF HandsInv
  <2>4. \A u \in Threads : Passed(u)' \subseteq Passed(u) /\ Synced(u)' = Synced(u)
    BY <1>6, <2>1
  <2>5. \A u \in Threads : \A i \in OpIds : <<i, Root>> \in Passed(u) => <<i, Root>> \in Passed(u)'
    <3>1. \A i \in OpIds : ~IsLeaf(<<i, Root>>)
      BY DEF IsLeaf
    <3> QED BY <1>6, <2>1, <3>1
  <2>6. ASSUME NEW u \in Threads
        PROVE  /\ Passed(u)' \intersect held' = {}
               /\ \A w \in Threads \ {u} : /\ Passed(u)' \intersect Passed(w)' = {}
                                           /\ Synced(u)' \intersect Synced(w)' = {}
               /\ \A d \in Passed(u)' :
                    \/ OpOf(d) \in Synced(u)'
                    \/ IsClosed(OpOf(d))' /\ <<OpOf(d), Root>> \in held' \union Passed(u)'
               /\ \A j \in Synced(u)' : op'[j].type = "pendingfree"
               /\ call'[u].in = "bulk" => \A d \in Passed(u)' : OpOf(d) \notin Synced(u)'
    <3>1. /\ Passed(u)' \intersect held' = {}
          /\ \A w \in Threads \ {u} : /\ Passed(u)' \intersect Passed(w)' = {}
                                      /\ Synced(u)' \intersect Synced(w)' = {}
          /\ \A j \in Synced(u)' : op'[j].type = "pendingfree"
      BY <2>2, <2>4 DEF HandsInv
    <3>2. ASSUME NEW d \in Passed(u)', OpOf(d) \notin Synced(u)'
          PROVE  IsClosed(OpOf(d))' /\ <<OpOf(d), Root>> \in held' \union Passed(u)'
      <4>1. /\ OpOf(d) \in OpIds /\ IsClosed(OpOf(d))
            /\ <<OpOf(d), Root>> \in held \union Passed(u)
        BY <2>4, <3>2, Ranges, Ids DEF HandsInv
      <4> QED BY <2>2, <2>5, <4>1
    <3>3. call'[u].in = "bulk" => \A d \in Passed(u)' : OpOf(d) \notin Synced(u)'
      BY <1>2, <1>6, <2>1 DEF HandsInv
    <3> QED BY <3>1, <3>2, <3>3
  <2>7. ASSUME NEW j \in OpIds
        PROVE  /\ IsClosed(j)' => \/ <<j, Root>> \in held'
                                  \/ \E u \in Threads : <<j, Root>> \in Passed(u)'
               /\ op'[j].type = "pendingfree" => \E u \in Threads : j \in Synced(u)'
    <3>1. IsClosed(j) => \/ <<j, Root>> \in held
                         \/ \E u \in Threads : <<j, Root>> \in Passed(u)
      BY DEF HandsInv
    <3>2. op[j].type = "pendingfree" => \E u \in Threads : j \in Synced(u)
      BY DEF HandsInv
    <3> QED BY <2>2, <2>4, <2>5, <3>1, <3>2
  <2> QED BY <2>3, <2>6, <2>7 DEF HandsInv
<1>11. ArraysInv'
  <2>1. BatchesInv(call[t])
    BY DEF ArraysInv
  <2>2. BatchesInv(call[t])'
    BY <1>2, <2>1 DEF BatchesInv
  <2>3. ArrayInv(call[t])'
    BY <1>2
  <2> QED BY <1>1, <1>2, <2>2, <2>3, ArraysInvStep
<1> QED BY <1>3, <1>7, <1>8, <1>9, <1>10, <1>11

\* A turn of pass 1 that syncs no root: m is what it makes of the call before
\* it looks whether the pass is over.
LEMMA Pass1Turn ==
  ASSUME EventInv, NEW t \in InArrays, call[t].in = "pass1", NEW m \in ArrayCalls,
         call' = [call EXCEPT ![t] = AfterPass1(m)],
         UNCHANGED <<op, cur, free, xf, hnd, held, regions>>,
         Halfway(m), m.synced = call[t].synced, Len(m.arr) = Len(call[t].arr),
         \A k \in DOMAIN call[t].arr :
           \/ m.arr[k] = call[t].arr[k]
           \/ m.arr[k] = Invalid /\ IsLeaf(call[t].arr[k])
  PROVE  EventInv'
<1> DEFINE b == AfterPass1(m)
<1>1. /\ b \in ArrayCalls /\ ArrayInv(b) /\ b.arr = m.arr /\ b.synced = m.synced
      /\ b.in = "bulk" =>
           \A k \in DOMAIN b.arr, c \in Batches :
             b.arr[k] # Invalid => OpOf(b.arr[k]) \notin ToSet(b.synced[c])
  BY AfterPass1Facts
<1>2. call' = [call EXCEPT ![t] = b]
  OBVIOUS
<1> HIDE DEF b
<1> QED BY <1>1, <1>2, ArrayTurn

\* A turn of pass 1 on a leaf, live or not, or on a root still live.
LEMMA Pass1QuietStep ==
  ASSUME EventInv, NEW t \in InArrays, call[t].in = "pass1", NEW a, a = call[t], NEW e, e = a.arr[a.i],
         NEW m, call' = [call EXCEPT ![t] = AfterPass1(m)],
         UNCHANGED <<op, cur, free, xf, hnd, held, regions>>,
         \/ IsLeaf(e) /\ m = [a EXCEPT !.i = a.i + 1, !.retest = a.retest + 1]
         \/ IsLeaf(e) /\ m = [a EXCEPT !.i = a.i + 1, !.arr = [a.arr EXCEPT ![a.i] = Invalid], !.some = TRUE]
         \/ ~IsLeaf(e) /\ m = [a EXCEPT !.i = a.i + 1, !.all = FALSE]
  PROVE  EventInv'
<1> USE DEF EventInv
<1>1. /\ a \in ArrayCalls /\ ArrayInv(a) /\ t \in Threads /\ a.in = "pass1"
      /\ a.i \in DOMAIN a.arr /\ e # Invalid /\ a.arr[a.i] = e
  <2>1. a \in ArrayCalls /\ ArrayInv(a) /\ t \in Threads
    BY Ranges DEF ArraysInv
  <2>2. a.i \in DOMAIN a.arr
    BY <2>1 DEF ArrayInv
  <2>3. a.i >= a.i
    BY <2>1, CallParts
  <2>4. e # Invalid
    BY <2>1, <2>2, <2>3 DEF ArrayInv
  <2> QED BY <2>1, <2>2, <2>4
<1>2. /\ a.i \in Nat /\ a.retest \in Nat /\ a.all \in BOOLEAN /\ a.some \in BOOLEAN
      /\ a.i + 1 \in Nat /\ a.retest + 1 \in Nat
      /\ a.arr \in Seq((OpIds \X Cats) \union {Invalid})
      /\ Len(a.arr) \in Nat /\ DOMAIN a.arr = 1..Len(a.arr)
  BY SMTT(30), <1>1, CallParts
<1> DEFINE r == [a.arr EXCEPT ![a.i] = Invalid]
<1>3. /\ r \in Seq((OpIds \X Cats) \union {Invalid}) /\ Len(r) = Len(a.arr) /\ DOMAIN r = DOMAIN a.arr
      /\ r[a.i] = Invalid /\ \A k \in DOMAIN a.arr : k # a.i => r[k] = a.arr[k]
  BY <1>1, <1>2
<1> HIDE DEF r
<1>4. ~IsLeaf(Invalid) /\ OpOf(Invalid) \notin OpIds
  BY Ids DEF OpOf, Invalid
<1>5. \A b \in Batches : ToSet(a.synced[b]) \subseteq OpIds
  BY <1>1, Ranges
<1>6. ASSUME NEW arr, arr \in {a.arr, r}
      PROVE  \A k \in DOMAIN arr, b \in Batches :
               ~IsLeaf(arr[k]) => OpOf(arr[k]) \notin ToSet(a.synced[b])
  <2>1. \A k \in DOMAIN a.arr, b \in Batches :
          ~IsLeaf(a.arr[k]) => OpOf(a.arr[k]) \notin ToSet(a.synced[b])
    BY <1>1 DEF ArrayInv
  <2>2. DOMAIN arr = DOMAIN a.arr /\ \A k \in DOMAIN arr : arr[k] = a.arr[k] \/ arr[k] = Invalid
    BY <1>3, <1>6
  <2> QED BY <1>4, <1>5, <2>1, <2>2
<1>7. ToFree(a) # {} => a.some
  BY <1>1 DEF ArrayInv
<1>8. CASE IsLeaf(e) /\ m = [a EXCEPT !.i = a.i + 1, !.retest = a.retest + 1]
  <2>1. /\ m \in ArrayCalls /\ m.in = "pass1" /\ m.i = a.i + 1 /\ m.arr = a.arr
        /\ m.synced = a.synced /\ m.retest = a.retest + 1 /\ m.all = a.all /\ m.some = a.some
    <3> DEFINE p == [a EXCEPT !.i = a.i + 1]
    <3>1. p \in ArrayCalls
      BY <1>1, <1>2 DEF ArrayCalls
    <3>2. m = [p EXCEPT !.retest = a.retest + 1]
      BY <1>8
    <3>3. /\ m.in = "pass1" /\ m.i = a.i + 1 /\ m.arr = a.arr
          /\ m.synced = a.synced /\ m.retest = a.retest + 1 /\ m.all = a.all /\ m.some = a.some
      BY <1>1, <1>8 DEF ArrayCalls
    <3> HIDE DEF p
    <3>4. \A q \in Nat : [p EXCEPT !.retest = q] \in ArrayCalls
      BY <3>1 DEF ArrayCalls
    <3> QED BY <1>2, <3>2, <3>3, <3>4
  <2>2. ToFree(m) = ToFree(a)
    BY <2>1 DEF ToFree
  <2>3. Halfway(m)
    <3>1. /\ m.in = "pass1" /\ m.i = a.i + 1 /\ Len(m.arr) = Len(a.arr)
          /\ \A k \in DOMAIN a.arr : k # a.i => m.arr[k] = a.arr[k]
          /\ e = m.arr[a.i] /\ e \in {Invalid, a.arr[a.i]}
          /\ IsLeaf(e) => m.retest = a.retest + 1
          /\ ~IsLeaf(e) => m.retest = a.retest
          /\ m.all <=> a.all /\ (e = Invalid \/ IsLeaf(e))
          /\ m.some <=> a.some \/ e = Invalid
          /\ ToFree(m) # {} => m.some
      BY <1>1, <1>7, <1>8, <2>1, <2>2
    <3>2. \A k \in DOMAIN m.arr, b \in Batches :
            ~IsLeaf(m.arr[k]) => OpOf(m.arr[k]) \notin ToSet(m.synced[b])
      BY <1>6, <2>1
    <3> QED BY <1>1, <2>1, <3>1, <3>2, Pass1Advance
  <2> QED BY <1>1, <2>1, <2>3, Pass1Turn
<1>9. CASE IsLeaf(e) /\ m = [a EXCEPT !.i = a.i + 1, !.arr = r, !.some = TRUE]
  <2>1. /\ m \in ArrayCalls /\ m.in = "pass1" /\ m.i = a.i + 1 /\ m.arr = r
        /\ m.synced = a.synced /\ m.retest = a.retest /\ m.all = a.all /\ m.some = TRUE
    <3> DEFINE p == [a EXCEPT !.i = a.i + 1]
    <3>1. p \in ArrayCalls
      BY <1>1, <1>2 DEF ArrayCalls
    <3>2. m = [p EXCEPT !.arr = r, !.some = TRUE]
      BY <1>9
    <3>3. /\ m.in = "pass1" /\ m.i = a.i + 1 /\ m.arr = r
          /\ m.synced = a.synced /\ m.retest = a.retest /\ m.all = a.all /\ m.some = TRUE
      BY <1>1, <1>9 DEF ArrayCalls
    <3> HIDE DEF p
    <3>4. m \in ArrayCalls
      BY <1>3, <3>1, <3>2 DEF ArrayCalls
    <3> QED BY <3>3, <3>4
  <2>2. ToFree(m) = ToFree(a)
    BY <2>1 DEF ToFree
  <2>3. Halfway(m)
    BY <1>1, <1>3, <1>4, <1>6, <2>1, <2>2, Pass1Advance
  <2>4. \A k \in DOMAIN a.arr : m.arr[k] = a.arr[k] \/ (m.arr[k] = Invalid /\ IsLeaf(a.arr[k]))
    BY <1>1, <1>3, <1>9, <2>1
  <2> QED BY <1>1, <1>3, <2>1, <2>3, <2>4, Pass1Turn
<1>10. CASE ~IsLeaf(e) /\ m = [a EXCEPT !.i = a.i + 1, !.all = FALSE]
  <2>1. /\ m \in ArrayCalls /\ m.in = "pass1" /\ m.i = a.i + 1 /\ m.arr = a.arr
        /\ m.synced = a.synced /\ m.retest = a.retest /\ m.all = FALSE /\ m.some = a.some
    <3> DEFINE p == [a EXCEPT !.i = a.i + 1]
    <3>1. p \in ArrayCalls
      BY <1>1, <1>2 DEF ArrayCalls
    <3>2. m = [p EXCEPT !.all = FALSE]
      BY <1>10
    <3>3. /\ m.in = "pass1" /\ m.i = a.i + 1 /\ m.arr = a.arr
          /\ m.synced = a.synced /\ m.retest = a.retest /\ m.all = FALSE /\ m.some = a.some
      BY <1>1, <1>10 DEF ArrayCalls
    <3> HIDE DEF p
    <3>4. m \in ArrayCalls
      BY <3>1, <3>2 DEF ArrayCalls
    <3> QED BY <3>3, <3>4
  <2>2. ToFree(m) = ToFree(a)
    BY <2>1 DEF ToFree
  <2>3. Halfway(m)
    BY ZenonT(60), <1>1, <1>6, <1>7, <1>10, <2>1, <2>2, Pass1Advance
  <2> QED BY <1>1, <2>1, <2>3, Pass1Turn
<1> QED BY <1>8, <1>9, <1>10 DEF r

\* Ops found complete change type, on their way to a free list, and nothing
\* else of them does.
LEMMA OpsRetyped ==
  ASSUME EventInv, NEW B, B \subseteq OpIds, NEW ty \in {"free", "pendingfree"},
         op' = [j \in OpIds |-> op'[j]], \A j \in OpIds \ B : op'[j] = op[j],
         \A j \in B : /\ op'[j] = [op[j] EXCEPT !.type = ty]
                      /\ op[j].type \in {"busy", "pendingfree"} /\ op[j].live = {}
                      /\ j \in Iops => op[j].next = "self",
         UNCHANGED <<cur, xf, hnd>>
  PROVE  /\ op' \in [OpIds -> OpRecords] /\ StacksInv' /\ CountersInv' /\ BitsInv' /\ TransfersInv'
         /\ \A j \in OpIds : /\ op'[j].owner = op[j].owner
                             /\ op'[j].type = IF j \in B THEN ty ELSE op[j].type
                             /\ IsClosed(j)' <=> IsClosed(j) /\ j \notin B
<1> USE DEF EventInv
<1>1. \A j \in B : /\ op'[j].type = ty /\ op'[j].owner = op[j].owner /\ op'[j].next = op[j].next
                   /\ op'[j].ini = op[j].ini /\ op'[j].com = op[j].com /\ op'[j].live = op[j].live
                   /\ op'[j] \in OpRecords
  <2> SUFFICES ASSUME NEW j \in B
               PROVE  /\ op'[j].type = ty /\ op'[j].owner = op[j].owner /\ op'[j].next = op[j].next
                      /\ op'[j].ini = op[j].ini /\ op'[j].com = op[j].com /\ op'[j].live = op[j].live
                      /\ op'[j] \in OpRecords
    OBVIOUS
  <2>1. op[j] \in OpRecords /\ op'[j] = [op[j] EXCEPT !.type = ty]
    BY OpFacts
  <2> QED BY <2>1 DEF OpRecords, Types
<1>2. \A j \in Iops : j \in OpIds /\ j \notin Eops
  BY Ids
<1>3. op' \in [OpIds -> OpRecords]
  <2>1. \A j \in OpIds : op'[j] \in OpRecords
    BY <1>1, OpFacts
  <2> QED BY <2>1
<1>4. StacksInv'
  <2>1. \A j \in Iops : /\ IsOpen(j)' <=> IsOpen(j)
                        /\ IsOpen(j) => op'[j].owner = op[j].owner /\ op'[j].next = op[j].next
    BY <1>1, <1>2 DEF IsOpen
  <2> QED BY <2>1, StacksFrame
<1>5. CountersInv'
  <2>1. \A j \in Iops : /\ op'[j].ini = op[j].ini /\ op'[j].com = op[j].com
                        /\ op'[j].next = op[j].next
    BY <1>1, <1>2
  <2> QED BY <2>1, CountersFrame
<1>6. BitsInv'
  <2>1. \A j \in OpIds : /\ op'[j].type \in {"free", "pendingfree"} => op'[j].live = {}
                         /\ op'[j].type = "unborn" => op'[j] = Unborn
                         /\ op'[j].type # "unborn" => op'[j].owner \in Threads
    <3>1. \A j \in OpIds : /\ op[j].type \in {"free", "pendingfree"} => op[j].live = {}
                           /\ op[j].type = "unborn" => op[j] = Unborn
                           /\ op[j].type # "unborn" => op[j].owner \in Threads
      BY DEF BitsInv
    <3> QED BY ZenonT(60), <1>1, <3>1
  <2>2. ASSUME NEW j \in Iops
        PROVE  /\ op'[j].type \in {"free", "pendingfree"} => op'[j].next = "self"
               /\ op'[j].next = "parent" => op'[j].type = "busy" /\ op'[j].live = Cats
               /\ op'[j].next = "self" =>
                    \A d \in Cats \ op'[j].live : op'[j].ini[d] = op'[j].com[d]
    <3>1. CASE j \in B
      <4>1. op[j].next = "self" /\ op[j].live = {} /\ op[j].next # "parent"
        BY <3>1
      <4>2. \A d \in Cats \ op[j].live : op[j].ini[d] = op[j].com[d]
        BY <4>1 DEF BitsInv
      <4> QED BY <1>1, <3>1, <4>1, <4>2
    <3>2. CASE j \notin B
      <4>1. op'[j] = op[j]
        BY <1>2, <3>2
      <4> QED BY <4>1 DEF BitsInv
    <3> QED BY <3>1, <3>2
  <2>3. \A j \in Eops : op'[j].live \subseteq {Root}
    BY <1>1, Ids DEF BitsInv
  <2> QED BY <2>1, <2>2, <2>3 DEF BitsInv
<1>7. TransfersInv'
  <2>1. \A j \in Eops : op[j].type = "busy" /\ op[j].live = {Root} =>
                          op'[j].type = "busy" /\ op'[j].live = {Root}
    BY Ids
  <2>2. \A j \in Iops, c \in Cats : op[j].com[c] <= op'[j].com[c] /\ op'[j].com[c] \in Nat
    <3> SUFFICES ASSUME NEW j \in Iops, NEW c \in Cats
                 PROVE  op[j].com[c] <= op'[j].com[c] /\ op'[j].com[c] \in Nat
      OBVIOUS
    <3>1. op[j].com[c] \in Nat /\ op'[j].com[c] = op[j].com[c]
      BY <1>1, <1>2, OpFacts
    <3> QED BY <3>1
  <2> QED BY <2>1, <2>2, TransfersFrame
<1>8. \A j \in OpIds : /\ op'[j].owner = op[j].owner
                       /\ op'[j].type = IF j \in B THEN ty ELSE op[j].type
                       /\ IsClosed(j)' <=> IsClosed(j) /\ j \notin B
  BY <1>1 DEF IsClosed
<1> QED BY <1>3, <1>4, <1>5, <1>6, <1>7, <1>8

(* The batches of call a when op i joins one of them.                         *)
WithOp(a, i) == [a.synced EXCEPT ![BatchFor(a, i)] = Append(a.synced[BatchFor(a, i)], i)]

(* What the batches s of a call are, once i has joined those of a.             *)
Grown(a, i, s) ==
  /\ BatchFor(a, i) \in Batches /\ s \in [Batches -> Seq(OpIds)]
  /\ \A b \in Batches :
       /\ IsInjective(s[b])
       /\ ToSet(s[b]) =
            IF b = BatchFor(a, i) THEN ToSet(a.synced[b]) \union {i} ELSE ToSet(a.synced[b])
  /\ \A b \in Batches : \A j \in ToSet(s[b]) :
       /\ KindOf(j) = b[1] /\ (b[2] = 0 => op[j].owner = op[Head(s[b])].owner)
       /\ Head(s[b]) \in ToSet(s[b])
  /\ \A b \in Batches : \A c \in Batches \ {b} : ToSet(s[b]) \intersect ToSet(s[c]) = {}

\* The op goes to the batch of its kind and owner.
LEMMA BatchesGrow ==
  ASSUME NEW a \in ArrayCalls, BatchesInv(a), NEW i \in OpIds,
         \A b \in Batches : i \notin ToSet(a.synced[b])
  PROVE  Grown(a, i, WithOp(a, i))
<1> SUFFICES ASSUME NEW b0, b0 = BatchFor(a, i), NEW s, s = WithOp(a, i) PROVE Grown(a, i, s)
  OBVIOUS
<1> DEFINE q == a.synced[b0]
<1>0. /\ \A b \in Batches : IsInjective(a.synced[b])
      /\ \A b \in Batches : \A j \in ToSet(a.synced[b]) :
           KindOf(j) = b[1] /\ (b[2] = 0 => op[j].owner = op[Head(a.synced[b])].owner)
      /\ \A b \in Batches : \A c \in Batches \ {b} :
           ToSet(a.synced[b]) \intersect ToSet(a.synced[c]) = {}
  BY DEF BatchesInv
<1>1. /\ b0 \in Batches /\ b0[1] = KindOf(i)
      /\ b0[2] = 0 => a.synced[b0] = <<>> \/ op[Head(a.synced[b0])].owner = op[i].owner
  <2> DEFINE main == a.synced[<<KindOf(i), 0>>]
             z == IF main = <<>> \/ op[Head(main)].owner = op[i].owner THEN 0 ELSE 1
  <2>1. b0 = <<KindOf(i), z>>
    BY DEF BatchFor
  <2>2. KindOf(i) \in {"eop", "iop"} /\ z \in {0, 1}
    BY DEF KindOf
  <2>3. b0 \in Batches /\ b0[1] = KindOf(i) /\ b0[2] = z
    BY <2>1, <2>2 DEF Batches
  <2>4. b0[2] = 0 => b0 = <<KindOf(i), 0>> /\ (main = <<>> \/ op[Head(main)].owner = op[i].owner)
    BY <2>1, <2>3
  <2> QED BY <2>3, <2>4
<1>2. a.synced \in [Batches -> Seq(OpIds)] /\ q \in Seq(OpIds) /\ IsInjective(q) /\ i \notin ToSet(q)
  BY <1>0, <1>1, CallParts
<1>3. /\ Append(q, i) \in Seq(OpIds) /\ IsInjective(Append(q, i))
      /\ ToSet(Append(q, i)) = ToSet(q) \union {i}
      /\ Append(q, i) # <<>> /\ Head(Append(q, i)) = IF q = <<>> THEN i ELSE Head(q)
  BY <1>2, AppendFacts
<1> DEFINE r == Append(q, i)
<1>4. s = [a.synced EXCEPT ![b0] = r]
  BY DEF WithOp
<1>5. /\ r \in Seq(OpIds) /\ IsInjective(r) /\ ToSet(r) = ToSet(q) \union {i}
      /\ r # <<>> /\ Head(r) = IF q = <<>> THEN i ELSE Head(q)
  BY <1>3
<1> HIDE DEF r
<1>6. s \in [Batches -> Seq(OpIds)] /\ s[b0] = r /\ \A b \in Batches \ {b0} : s[b] = a.synced[b]
  <2>1. /\ b0 \in Batches /\ a.synced \in [Batches -> Seq(OpIds)] /\ r \in Seq(OpIds)
        /\ s = [a.synced EXCEPT ![b0] = r]
    BY <1>1, <1>2, <1>4, <1>5
  <2> QED BY <2>1
<1>7. \A b \in Batches :
        /\ IsInjective(s[b])
        /\ ToSet(s[b]) = IF b = b0 THEN ToSet(a.synced[b]) \union {i} ELSE ToSet(a.synced[b])
  BY <1>0, <1>5, <1>6
<1>8. ASSUME NEW b \in Batches, NEW j \in ToSet(s[b])
      PROVE  /\ KindOf(j) = b[1] /\ (b[2] = 0 => op[j].owner = op[Head(s[b])].owner)
             /\ Head(s[b]) \in ToSet(s[b])
  <2>1. KindOf(j) = b[1]
    <3>1. j \in ToSet(a.synced[b]) \/ (b = b0 /\ j = i)
      <4>1. ToSet(s[b]) = IF b = b0 THEN ToSet(a.synced[b]) \union {i} ELSE ToSet(a.synced[b])
        BY <1>7
      <4> QED BY <1>8, <4>1
    <3> QED BY <1>0, <1>1, <3>1
  <2>2. Head(s[b]) \in ToSet(s[b])
    BY <1>6 DEF ToSet
  <2>3. ASSUME b[2] = 0 PROVE op[j].owner = op[Head(s[b])].owner
    <3>1. CASE b = b0
      <4>1. CASE q = <<>>
        <5>1. ToSet(q) = {}
          BY <4>1 DEF ToSet
        <5> QED BY <1>5, <1>6, <1>8, <3>1, <4>1, <5>1
      <4>2. CASE q # <<>>
        <5>1. Head(s[b]) = Head(q)
          BY <1>5, <1>6, <3>1, <4>2
        <5>2. j \in ToSet(q) => op[j].owner = op[Head(q)].owner
          BY <1>0, <1>1, <2>3, <3>1
        <5>3. op[i].owner = op[Head(q)].owner
          BY <1>1, <2>3, <3>1, <4>2
        <5>4. j \in ToSet(q) \/ j = i
          BY <1>5, <1>6, <1>8, <3>1
        <5> QED BY <5>1, <5>2, <5>3, <5>4
      <4> QED BY <4>1, <4>2
    <3>2. CASE b # b0
      BY <1>0, <1>6, <1>8, <2>3, <3>2
    <3> QED BY <3>1, <3>2
  <2> QED BY <2>1, <2>2, <2>3
<1>9. \A b \in Batches : \A c \in Batches \ {b} : ToSet(s[b]) \intersect ToSet(s[c]) = {}
  <2> SUFFICES ASSUME NEW b \in Batches, NEW c \in Batches \ {b}
               PROVE  ToSet(s[b]) \intersect ToSet(s[c]) = {}
    OBVIOUS
  <2>1. ToSet(a.synced[b]) \intersect ToSet(a.synced[c]) = {}
    BY <1>0
  <2>2. /\ ToSet(s[b]) = IF b = b0 THEN ToSet(a.synced[b]) \union {i} ELSE ToSet(a.synced[b])
        /\ ToSet(s[c]) = IF c = b0 THEN ToSet(a.synced[c]) \union {i} ELSE ToSet(a.synced[c])
    BY <1>7
  <2> QED BY <2>1, <2>2
<1> QED BY <1>1, <1>6, <1>7, <1>8, <1>9 DEF Grown

(* A turn of pass 1 on a root found complete: a is the call, e the event, i   *)
(* its op, r and s what becomes of the array and of the batches.              *)
SyncsRoot(t, a, e, i, r, s, m) ==
  /\ a = call[t] /\ a.in = "pass1" /\ e = a.arr[a.i] /\ ~IsLeaf(e) /\ i = OpOf(e)
  /\ op[i].live = {}
  /\ r = [a.arr EXCEPT ![a.i] = Invalid]
  /\ s = WithOp(a, i)
  /\ m = [a EXCEPT !.i = a.i + 1, !.arr = r, !.some = TRUE, !.synced = s]
  /\ call' = [call EXCEPT ![t] = AfterPass1(m)]
  /\ op' = [op EXCEPT ![i].type = "pendingfree"]
  /\ UNCHANGED <<cur, free, xf, hnd, held, regions>>

\* The op of a root found complete is with the call, which is to free it.
LEMMA Pass1RootStep ==
  ASSUME EventInv, NEW t \in InArrays,
         NEW a, NEW e, NEW i, NEW r, NEW s, NEW m, SyncsRoot(t, a, e, i, r, s, m)
  PROVE  EventInv'
<1> USE DEF EventInv
<1>0. /\ a = call[t] /\ a.in = "pass1" /\ e = a.arr[a.i] /\ ~IsLeaf(e) /\ i = OpOf(e)
      /\ op[i].live = {}
  BY DEF SyncsRoot
<1>30. UNCHANGED <<cur, free, xf, hnd, held, regions>>
  BY DEF SyncsRoot
<1> DEFINE b0 == BatchFor(a, i)
<1>1. /\ a \in ArrayCalls /\ ArrayInv(a) /\ BatchesInv(a) /\ t \in Threads /\ a.in = "pass1"
      /\ a.i \in DOMAIN a.arr /\ e # Invalid /\ a.arr[a.i] = e
  <2>1. a \in ArrayCalls /\ ArrayInv(a) /\ BatchesInv(a) /\ t \in Threads
    <3>1. call[t] \in ArrayCalls /\ t \in Threads
      BY Ranges
    <3>2. BatchesInv(call[t]) /\ ArrayInv(call[t])
      BY DEF ArraysInv
    <3> QED BY <3>1, <3>2, <1>0
  <2>2. a.i \in DOMAIN a.arr
    BY <1>0, <2>1 DEF ArrayInv
  <2>3. a.i >= a.i
    BY <2>1, CallParts
  <2>4. e # Invalid
    BY <1>0, <2>1, <2>2, <2>3 DEF ArrayInv
  <2> QED BY <1>0, <2>1, <2>2, <2>4
<1>2. /\ a.i \in Nat /\ a.retest \in Nat /\ a.all \in BOOLEAN /\ a.some \in BOOLEAN
      /\ a.i + 1 \in Nat /\ a.synced \in [Batches -> Seq(OpIds)]
      /\ a.arr \in Seq((OpIds \X Cats) \union {Invalid})
      /\ Len(a.arr) \in Nat /\ DOMAIN a.arr = 1..Len(a.arr)
      /\ \A k \in DOMAIN a.arr : a.arr[k] \in (OpIds \X Cats) \union {Invalid}
  BY <1>1, CallParts
<1>3. /\ e \in OpIds \X Cats /\ i \in OpIds /\ e = <<i, Root>> /\ OpOf(e) = i
  BY <1>0, <1>1, <1>2, Ids
<1>4. /\ r \in Seq((OpIds \X Cats) \union {Invalid}) /\ Len(r) = Len(a.arr) /\ DOMAIN r = DOMAIN a.arr
      /\ r[a.i] = Invalid /\ \A k \in DOMAIN a.arr : k # a.i => r[k] = a.arr[k]
  <2>1. r = [a.arr EXCEPT ![a.i] = Invalid]
    BY DEF SyncsRoot
  <2> QED BY <1>1, <1>2, <2>1
<1>5. /\ \A k \in DOMAIN a.arr, b \in Batches :
           ~IsLeaf(a.arr[k]) => OpOf(a.arr[k]) \notin ToSet(a.synced[b])
      /\ \A j, k \in DOMAIN a.arr : a.arr[j] = a.arr[k] => j = k \/ a.arr[j] = Invalid
  BY <1>1 DEF ArrayInv
<1>6. \A b \in Batches : i \notin ToSet(a.synced[b])
  <2> SUFFICES ASSUME NEW b \in Batches PROVE i \notin ToSet(a.synced[b])
    OBVIOUS
  <2>1. ~IsLeaf(a.arr[a.i]) => OpOf(a.arr[a.i]) \notin ToSet(a.synced[b])
    BY <1>1, <1>5
  <2> QED BY <1>0, <1>1, <1>3, <2>1
<1>7. /\ Passed(t) = {a.arr[k] : k \in DOMAIN a.arr} \ {Invalid}
      /\ Synced(t) = UNION {ToSet(a.synced[b]) : b \in Batches}
  BY <1>0, InHand
<1>8. e \in Passed(t) /\ i \notin Synced(t)
  BY <1>1, <1>6, <1>7
<1>9. IsClosed(i) /\ op[i].type = "busy" /\ (i \in Iops => op[i].next = "self")
  <2>1. IsClosed(i)
    BY <1>1, <1>3, <1>8 DEF HandsInv
  <2> QED BY <2>1, Ids DEF IsClosed
<1>10. /\ \A j \in OpIds \ {i} : op'[j] = op[j]
       /\ op'[i] = [op[i] EXCEPT !.type = "pendingfree"] /\ op' = [j \in OpIds |-> op'[j]]
  BY <1>3 DEF EventTypeOK, SyncsRoot
<1>11. /\ op' \in [OpIds -> OpRecords] /\ StacksInv' /\ CountersInv' /\ BitsInv' /\ TransfersInv'
       /\ \A j \in OpIds : /\ op'[j].owner = op[j].owner
                           /\ op'[j].type = IF j = i THEN "pendingfree" ELSE op[j].type
                           /\ IsClosed(j)' <=> IsClosed(j) /\ j # i
  <2> DEFINE B == {i}
  <2>1. /\ B \subseteq OpIds /\ \A j \in OpIds \ B : op'[j] = op[j]
        /\ \A j \in B : /\ op'[j] = [op[j] EXCEPT !.type = "pendingfree"]
                        /\ op[j].type \in {"busy", "pendingfree"} /\ op[j].live = {}
                        /\ j \in Iops => op[j].next = "self"
    BY <1>0, <1>3, <1>9, <1>10
  <2>2. \A j : j \in B <=> j = i
    OBVIOUS
  <2>4. EventInv
    OBVIOUS
  <2> HIDE DEF B, EventInv
  <2>3. /\ op' \in [OpIds -> OpRecords] /\ StacksInv' /\ CountersInv' /\ BitsInv' /\ TransfersInv'
        /\ \A j \in OpIds : /\ op'[j].owner = op[j].owner
                            /\ op'[j].type = IF j \in B THEN "pendingfree" ELSE op[j].type
                            /\ IsClosed(j)' <=> IsClosed(j) /\ j \notin B
    BY <1>10, <1>30, <2>1, <2>4, OpsRetyped
  <2> QED BY <2>2, <2>3
<1>12. /\ b0 \in Batches /\ s \in [Batches -> Seq(OpIds)]
       /\ \A b \in Batches :
            /\ IsInjective(s[b])
            /\ ToSet(s[b]) = IF b = b0 THEN ToSet(a.synced[b]) \union {i} ELSE ToSet(a.synced[b])
       /\ \A b \in Batches : \A j \in ToSet(s[b]) :
            /\ KindOf(j) = b[1] /\ (b[2] = 0 => op[j].owner = op[Head(s[b])].owner)
            /\ Head(s[b]) \in ToSet(s[b])
       /\ \A b \in Batches : \A c \in Batches \ {b} : ToSet(s[b]) \intersect ToSet(s[c]) = {}
  <2>1. a \in ArrayCalls /\ BatchesInv(a) /\ i \in OpIds /\ \A b \in Batches : i \notin ToSet(a.synced[b])
    BY <1>1, <1>3, <1>6
  <2>2. s = WithOp(a, i)
    BY DEF SyncsRoot
  <2>3. Grown(a, i, WithOp(a, i))
    BY <2>1, BatchesGrow
  <2> QED BY <2>2, <2>3 DEF Grown
<1>13. /\ m \in ArrayCalls /\ m.in = "pass1" /\ m.i = a.i + 1 /\ m.arr = r
       /\ m.synced = s /\ m.retest = a.retest /\ m.all = a.all /\ m.some = TRUE
  <2> DEFINE p == [a EXCEPT !.i = a.i + 1]
  <2>1. p \in ArrayCalls
    BY <1>1, <1>2 DEF ArrayCalls
  <2>2. m = [p EXCEPT !.arr = r, !.some = TRUE, !.synced = s]
    BY DEF SyncsRoot
  <2>3. /\ m.in = "pass1" /\ m.i = a.i + 1 /\ m.arr = r
        /\ m.synced = s /\ m.retest = a.retest /\ m.all = a.all /\ m.some = TRUE
    BY <1>1 DEF ArrayCalls, SyncsRoot
  <2> HIDE DEF p
  <2>4. m \in ArrayCalls
    BY <1>4, <1>12, <2>1, <2>2 DEF ArrayCalls
  <2> QED BY <2>3, <2>4
<1>14. \A k \in DOMAIN r, b \in Batches : ~IsLeaf(r[k]) => OpOf(r[k]) \notin ToSet(s[b])
  <2> SUFFICES ASSUME NEW k \in DOMAIN r, NEW b \in Batches, ~IsLeaf(r[k])
               PROVE  OpOf(r[k]) \notin ToSet(s[b])
    OBVIOUS
  <2>1. ToSet(s[b]) \subseteq OpIds /\ ToSet(s[b]) \subseteq ToSet(a.synced[b]) \union {i}
    <3>1. ToSet(s[b]) = IF b = b0 THEN ToSet(a.synced[b]) \union {i} ELSE ToSet(a.synced[b])
      BY <1>12
    <3>2. ToSet(a.synced[b]) \subseteq OpIds
      BY <1>0, Ranges
    <3> QED BY <1>3, <3>1, <3>2
  <2>2. CASE r[k] = Invalid
    BY <2>1, <2>2, Ids DEF OpOf, Invalid
  <2>3. CASE r[k] # Invalid
    <3>1. k # a.i /\ r[k] = a.arr[k] /\ k \in DOMAIN a.arr
      BY <1>4, <2>3
    <3>2. r[k] \in OpIds \X Cats
      BY <1>2, <2>3, <3>1
    <3>3. OpOf(r[k]) # i
      <4>1. r[k] = <<OpOf(r[k]), Root>>
        BY <3>2, Ids
      <4>2. a.arr[k] # a.arr[a.i]
        BY <1>1, <1>5, <2>3, <3>1
      <4> QED BY <1>1, <1>3, <3>1, <4>1, <4>2
    <3> QED BY <1>5, <2>1, <3>1, <3>3
  <2> QED BY <2>2, <2>3
<1>15. Halfway(m)
  <2>1. /\ m.in = "pass1" /\ m.i = a.i + 1 /\ Len(m.arr) = Len(a.arr)
        /\ \A k \in DOMAIN a.arr : k # a.i => m.arr[k] = a.arr[k]
        /\ Invalid = m.arr[a.i]
        /\ IsLeaf(Invalid) => m.retest = a.retest + 1
        /\ ~IsLeaf(Invalid) => m.retest = a.retest
        /\ m.all <=> a.all /\ (Invalid = Invalid \/ IsLeaf(Invalid))
        /\ m.some <=> a.some \/ Invalid = Invalid
        /\ ToFree(m) # {} => m.some
    BY <1>1, <1>4, <1>13, Ids
  <2>2. \A k \in DOMAIN m.arr, b \in Batches :
          ~IsLeaf(m.arr[k]) => OpOf(m.arr[k]) \notin ToSet(m.synced[b])
    BY <1>13, <1>14
  <2>3. ArrayInv(a) /\ a.in = "pass1" /\ a \in ArrayCalls /\ m \in ArrayCalls
    BY <1>1, <1>13
  <2> QED BY <2>1, <2>2, <2>3, Pass1Advance
<1> DEFINE z == AfterPass1(m)
<1>16. /\ z \in ArrayCalls /\ ArrayInv(z) /\ z.arr = r /\ z.synced = s
       /\ z.in = "bulk" =>
            \A k \in DOMAIN z.arr, c \in Batches :
              z.arr[k] # Invalid => OpOf(z.arr[k]) \notin ToSet(z.synced[c])
  BY <1>13, <1>15, AfterPass1Facts
<1>17. call' = [call EXCEPT ![t] = z]
  BY DEF SyncsRoot
<1> HIDE DEF z
<1>18. /\ call'[t] = z /\ \A u \in Threads \ {t} : call'[u] = call[u]
       /\ call' \in [Threads -> CallTypes]
  BY <1>1, <1>16, <1>17 DEF EventTypeOK, CallTypes
<1>19. EventTypeOK'
  BY <1>11, <1>18, <1>30 DEF EventTypeOK, CallTypes
<1>20. (t \in InArrays)'
  BY <1>1, <1>16, <1>18, CallParts DEF InArrays, ArrayStages
<1>21. Passed(t)' = Passed(t) \ {e} /\ Synced(t)' = Synced(t) \union {i}
  <2>1. Passed(t)' = {r[k] : k \in DOMAIN r} \ {Invalid}
    BY <1>16, <1>18, <1>20 DEF Passed, ToSet
  <2>2. Synced(t)' = UNION {ToSet(s[b]) : b \in Batches}
    BY <1>16, <1>18, <1>20 DEF Synced
  <2>3. \A k \in DOMAIN a.arr : k # a.i => a.arr[k] # e
    BY <1>1, <1>5
  <2>4. Passed(t)' = Passed(t) \ {e}
    BY <1>1, <1>4, <1>7, <2>1, <2>3
  <2>5. Synced(t)' = Synced(t) \union {i}
    BY <1>7, <1>12, <2>2
  <2> QED BY <2>4, <2>5
<1>22. ListsInv'
  <2>1. \A j \in OpIds : /\ op'[j].type = "free" <=> op[j].type = "free"
                         /\ op[j].type = "free" => op'[j].owner = op[j].owner
    BY <1>9, <1>11
  <2> QED BY <1>30, <2>1, ListsFrame
<1>23. HandsInv'
  <2>1. \A u \in Threads \ {t} : /\ Passed(u)' = Passed(u) /\ Synced(u)' = Synced(u)
                                 /\ call'[u].in = "bulk" <=> call[u].in = "bulk"
    BY <1>1, <1>18, OtherArrays
  <2>2. \A u \in Threads \ {t} : /\ Passed(u) \intersect Passed(t) = {}
                                 /\ e \notin Passed(u) /\ i \notin Synced(u)
    BY <1>1, <1>8, <1>9 DEF HandsInv
  <2>3. e \notin held
    BY <1>1, <1>8 DEF HandsInv
  <2>4. ASSUME NEW d \in held PROVE IsClosed(OpOf(d))' /\ <<OpOf(d), Root>> \in held'
    <3>1. OpOf(d) \in OpIds /\ IsClosed(OpOf(d)) /\ <<OpOf(d), Root>> \in held
      BY HeldFacts
    <3>2. OpOf(d) # i
      BY <1>3, <2>3, <3>1
    <3> QED BY <1>11, <1>30, <3>1, <3>2
  <2>5. ASSUME NEW u \in Threads
        PROVE  /\ Passed(u)' \intersect held' = {}
               /\ \A w \in Threads \ {u} : /\ Passed(u)' \intersect Passed(w)' = {}
                                           /\ Synced(u)' \intersect Synced(w)' = {}
               /\ \A d \in Passed(u)' :
                    \/ OpOf(d) \in Synced(u)'
                    \/ IsClosed(OpOf(d))' /\ <<OpOf(d), Root>> \in held' \union Passed(u)'
               /\ \A j \in Synced(u)' : op'[j].type = "pendingfree"
               /\ call'[u].in = "bulk" => \A d \in Passed(u)' : OpOf(d) \notin Synced(u)'
    <3>1. Passed(u)' \intersect held' = {}
      BY <1>21, <1>30, <2>1 DEF HandsInv
    <3>2. ASSUME NEW w \in Threads \ {u}
          PROVE  Passed(u)' \intersect Passed(w)' = {} /\ Synced(u)' \intersect Synced(w)' = {}
      <4>1. Passed(u) \intersect Passed(w) = {} /\ Synced(u) \intersect Synced(w) = {}
        BY <3>2 DEF HandsInv
      <4> QED BY <1>21, <2>1, <2>2, <3>2, <4>1
    <3>3. ASSUME NEW d \in Passed(u)', OpOf(d) \notin Synced(u)'
          PROVE  IsClosed(OpOf(d))' /\ <<OpOf(d), Root>> \in held' \union Passed(u)'
      <4>1. d \in Passed(u) /\ OpOf(d) \notin Synced(u) /\ OpOf(d) \in OpIds
        BY <1>21, <2>1, <3>3, Ranges, Ids
      <4>2. IsClosed(OpOf(d)) /\ <<OpOf(d), Root>> \in held \union Passed(u)
        BY <4>1 DEF HandsInv
      <4>3. OpOf(d) # i
        <5>1. CASE u = t
          BY <1>21, <3>3, <5>1
        <5>2. CASE u # t
          BY <1>3, <2>2, <2>3, <4>2, <5>2
        <5> QED BY <5>1, <5>2
      <4>4. <<OpOf(d), Root>> # e
        BY <1>3, <4>3
      <4> QED BY <1>11, <1>21, <1>30, <2>1, <4>1, <4>2, <4>3, <4>4
    <3>4. \A j \in Synced(u)' : op'[j].type = "pendingfree"
      <4>1. \A j \in Synced(u) : j \in OpIds /\ op[j].type = "pendingfree"
        BY Ranges DEF HandsInv
      <4> QED BY <1>3, <1>11, <1>21, <2>1, <4>1
    <3>5. ASSUME call'[u].in = "bulk", NEW d \in Passed(u)' PROVE OpOf(d) \notin Synced(u)'
      <4>1. CASE u = t
        <5>1. PICK k \in DOMAIN z.arr : d = z.arr[k] /\ z.arr[k] # Invalid
          BY <1>18, <1>20, <3>5, <4>1 DEF Passed, ToSet
        <5>2. \A c \in Batches : OpOf(d) \notin ToSet(z.synced[c])
          BY <1>16, <1>18, <3>5, <4>1, <5>1
        <5> QED BY <1>18, <1>20, <4>1, <5>2 DEF Synced
      <4>2. CASE u # t
        BY <2>1, <3>5, <4>2 DEF HandsInv
      <4> QED BY <4>1, <4>2
    <3> QED BY <3>1, <3>2, <3>3, <3>4, <3>5
  <2>6. ASSUME NEW j \in OpIds
        PROVE  /\ IsClosed(j)' => \/ <<j, Root>> \in held'
                                  \/ \E u \in Threads : <<j, Root>> \in Passed(u)'
               /\ op'[j].type = "pendingfree" => \E u \in Threads : j \in Synced(u)'
    <3>1. ASSUME IsClosed(j)'
          PROVE  \/ <<j, Root>> \in held'
                 \/ \E u \in Threads : <<j, Root>> \in Passed(u)'
      <4>1. IsClosed(j) /\ j # i
        BY <1>11, <3>1
      <4>2. <<j, Root>> # e
        BY <1>3, <4>1
      <4>3. CASE <<j, Root>> \in held
        BY <1>30, <4>3
      <4>4. CASE \E u \in Threads : <<j, Root>> \in Passed(u)
        BY <1>21, <2>1, <4>2, <4>4
      <4> QED BY <4>1, <4>3, <4>4 DEF HandsInv
    <3>2. ASSUME op'[j].type = "pendingfree" PROVE \E u \in Threads : j \in Synced(u)'
      <4>1. CASE j = i
        BY <1>1, <1>21, <4>1
      <4>2. CASE j # i
        <5>1. PICK u \in Threads : j \in Synced(u)
          BY <1>11, <3>2, <4>2 DEF HandsInv
        <5> QED BY <1>21, <2>1, <5>1
      <4> QED BY <4>1, <4>2
    <3> QED BY <3>1, <3>2
  <2> QED BY <1>30, <2>4, <2>5, <2>6 DEF HandsInv
<1>24. ArraysInv'
  <2>1. \A b \in Batches : \A j \in ToSet(s[b]) : j \in OpIds /\ Head(s[b]) \in OpIds
    BY <1>12 DEF ToSet
  <2>2. \A b \in Batches : \A j \in ToSet(s[b]) :
          KindOf(j) = b[1] /\ (b[2] = 0 => op'[j].owner = op'[Head(s[b])].owner)
    BY <1>11, <1>12, <2>1
  <2>3. BatchesInv(call[t])'
    BY <1>12, <1>16, <1>18, <2>2 DEF BatchesInv
  <2>4. ArrayInv(call[t])'
    BY <1>16, <1>18
  <2> QED BY <1>1, <1>11, <1>18, <2>3, <2>4, ArraysInvStep
<1> QED BY <1>11, <1>19, <1>22, <1>23, <1>24

\* Pass 1 looks at one event.
LEMMA Pass1Step ==
  ASSUME EventInv, NEW t \in Threads, test_array_pass1(t)
  PROVE  EventInv'
<1> USE DEF EventInv
<1> SUFFICES ASSUME NEW a, a = call[t], NEW e, e = a.arr[a.i] PROVE EventInv'
  OBVIOUS
<1>1. call[t].in = "pass1" /\ t \in InArrays /\ a \in ArrayCalls
  BY Ranges DEF test_array_pass1, InArrays
<1>2. UNCHANGED <<cur, free, xf, hnd, held, regions>>
  BY DEF test_array_pass1
<1> DEFINE r == [a.arr EXCEPT ![a.i] = Invalid]
           next == [a EXCEPT !.i = a.i + 1]
           hit == [a EXCEPT !.i = a.i + 1, !.arr = r, !.some = TRUE]
<1>3. \/ /\ IsLeaf(e) /\ LeafLive(e) /\ op' = op
         /\ call' = [call EXCEPT ![t] = AfterPass1([next EXCEPT !.retest = next.retest + 1])]
      \/ /\ IsLeaf(e) /\ ~LeafLive(e) /\ op' = op /\ call' = [call EXCEPT ![t] = AfterPass1(hit)]
      \/ /\ ~IsLeaf(e) /\ AnyLive(e) /\ op' = op
         /\ call' = [call EXCEPT ![t] = AfterPass1([next EXCEPT !.all = FALSE])]
      \/ /\ ~IsLeaf(e) /\ ~AnyLive(e)
         /\ call' = [call EXCEPT ![t] = AfterPass1([hit EXCEPT !.synced = WithOp(a, OpOf(e))])]
         /\ op' = [op EXCEPT ![OpOf(e)].type = "pendingfree"]
  <2>1. [next EXCEPT !.arr[a.i] = Invalid, !.some = TRUE] = hit
    BY <1>1 DEF ArrayCalls
  <2>2. hit.synced = a.synced
    BY <1>1 DEF ArrayCalls
  <2>3. ASSUME NEW b, NEW i
        PROVE  [hit EXCEPT !.synced[b] = Append(hit.synced[b], i)]
                 = [hit EXCEPT !.synced = [a.synced EXCEPT ![b] = Append(a.synced[b], i)]]
    BY <2>2
  <2> HIDE DEF EventInv
  <2>4. CASE IsLeaf(e)
    BY <2>1, <2>4 DEF test_array_pass1
  <2>5. CASE ~IsLeaf(e) /\ AnyLive(e)
    BY <2>5 DEF test_array_pass1
  <2>6. CASE ~IsLeaf(e) /\ ~AnyLive(e)
    <3> DEFINE i == OpOf(e)
               b == BatchFor(a, i)
               new == [hit EXCEPT !.synced[b] = Append(hit.synced[b], i)]
    <3>1. /\ op' = [op EXCEPT ![i].type = "pendingfree"]
          /\ call' = [call EXCEPT ![t] = AfterPass1(new)]
      BY ZenonT(60), <2>1, <2>6 DEF test_array_pass1
    <3>2. new = [hit EXCEPT !.synced = WithOp(a, i)]
      BY <2>3 DEF WithOp
    <3> QED BY <2>6, <3>1, <3>2
  <2> QED BY <2>4, <2>5, <2>6
<1>4. CASE /\ IsLeaf(e) /\ LeafLive(e) /\ op' = op
           /\ call' = [call EXCEPT ![t] = AfterPass1([next EXCEPT !.retest = next.retest + 1])]
  <2> DEFINE m == [a EXCEPT !.i = a.i + 1, !.retest = a.retest + 1]
  <2>1. [next EXCEPT !.retest = next.retest + 1] = m
    BY <1>1 DEF ArrayCalls
  <2>2. call' = [call EXCEPT ![t] = AfterPass1(m)]
    BY <1>4, <2>1
  <2>3. m = [a EXCEPT !.i = a.i + 1, !.retest = a.retest + 1]
    OBVIOUS
  <2>4. IsLeaf(e) /\ m = [a EXCEPT !.i = a.i + 1, !.retest = a.retest + 1]
    BY <1>4, <2>3
  <2>5. UNCHANGED <<op, cur, free, xf, hnd, held, regions>> /\ call[t].in = "pass1" /\ EventInv
    BY <1>1, <1>2, <1>4
  <2> HIDE DEF m, EventInv
  <2> QED BY <1>1, <2>2, <2>4, <2>5, Pass1QuietStep
<1>5. CASE IsLeaf(e) /\ ~LeafLive(e) /\ op' = op /\ call' = [call EXCEPT ![t] = AfterPass1(hit)]
  BY <1>1, <1>2, <1>5, Pass1QuietStep
<1>6. CASE /\ ~IsLeaf(e) /\ AnyLive(e) /\ op' = op
           /\ call' = [call EXCEPT ![t] = AfterPass1([next EXCEPT !.all = FALSE])]
  <2> DEFINE m == [a EXCEPT !.i = a.i + 1, !.all = FALSE]
  <2>1. [next EXCEPT !.all = FALSE] = m
    BY <1>1 DEF ArrayCalls
  <2>2. call' = [call EXCEPT ![t] = AfterPass1(m)]
    BY <1>6, <2>1
  <2> QED BY <1>1, <1>2, <1>6, <2>2, Pass1QuietStep
<1>7. CASE /\ ~IsLeaf(e) /\ ~AnyLive(e)
           /\ call' = [call EXCEPT ![t] = AfterPass1([hit EXCEPT !.synced = WithOp(a, OpOf(e))])]
           /\ op' = [op EXCEPT ![OpOf(e)].type = "pendingfree"]
  <2> DEFINE i == OpOf(e)
             s == WithOp(a, i)
             m == [a EXCEPT !.i = a.i + 1, !.arr = r, !.some = TRUE, !.synced = s]
  <2>1. [hit EXCEPT !.synced = s] = m
    BY <1>1 DEF ArrayCalls
  <2>2. call' = [call EXCEPT ![t] = AfterPass1(m)]
    BY <1>7, <2>1
  <2>3. op[i].live = {} /\ op' = [op EXCEPT ![i].type = "pendingfree"]
    BY <1>7 DEF AnyLive
  <2>4. SyncsRoot(t, a, e, i, r, s, m)
    BY <1>1, <1>2, <1>7, <2>2, <2>3 DEF SyncsRoot
  <2> QED BY <1>1, <2>4, Pass1RootStep
<1> QED BY <1>3, <1>4, <1>5, <1>6, <1>7

\* Pass 2 looks at one event once more.
LEMMA Pass2Advance ==
  ASSUME NEW a \in ArrayCalls, ArrayInv(a), a.in = "pass2",
         NEW b \in ArrayCalls, b.i = a.i + 1, b.synced = a.synced, Len(b.arr) = Len(a.arr),
         \A k \in DOMAIN a.arr : k # a.i => b.arr[k] = a.arr[k],
         NEW v, v = b.arr[a.i], v \in {Invalid, a.arr[a.i]},
         IsLeaf(a.arr[a.i]) => b.retest = a.retest - 1,
         ~IsLeaf(a.arr[a.i]) => b.retest = a.retest /\ v = a.arr[a.i],
         b.all <=> a.all /\ ~IsLeaf(v), b.some <=> a.some \/ v = Invalid,
         b.in = IF b.retest = 0 THEN "bulk" ELSE "pass2",
         \A c \in Batches : IsLeaf(v) => OpOf(v) \notin ToSet(a.synced[c])
  PROVE  /\ ArrayInv(b)
         /\ b.in = "bulk" =>
              \A k \in DOMAIN b.arr, c \in Batches :
                b.arr[k] # Invalid => OpOf(b.arr[k]) \notin ToSet(b.synced[c])
<1> DEFINE n == Len(a.arr)
           i == a.i
<1>1. /\ n \in Nat /\ i \in 1..n /\ DOMAIN a.arr = 1..n /\ DOMAIN b.arr = 1..n
      /\ b.i = i + 1 /\ b.i - 1 = i /\ Len(b.arr) = n
  BY CallParts DEF ArrayInv
<1>2. \A k \in 1..n : /\ k = i \/ b.arr[k] = a.arr[k]
                      /\ b.arr[k] = a.arr[k] \/ b.arr[k] = Invalid
  BY <1>1
<1>3. /\ \A j, k \in 1..n : a.arr[j] = a.arr[k] => j = k \/ a.arr[j] = Invalid
      /\ a.some <=> \E k \in 1..n : a.arr[k] = Invalid
      /\ ToFree(a) # {} => a.some
      /\ \A k \in 1..n, c \in Batches :
           ~IsLeaf(a.arr[k]) => OpOf(a.arr[k]) \notin ToSet(a.synced[c])
      /\ a.retest > 0 /\ a.retest = Cardinality(LeavesIn(a, i..n))
      /\ a.all <=> \A k \in 1..n : a.arr[k] = Invalid \/ (k >= i /\ IsLeaf(a.arr[k]))
      /\ \A k \in 1..(i - 1), c \in Batches :
           IsLeaf(a.arr[k]) => OpOf(a.arr[k]) \notin ToSet(a.synced[c])
  BY <1>1 DEF ArrayInv, Tested
<1>4. /\ ~IsLeaf(Invalid) /\ a.all \in BOOLEAN /\ b.all \in BOOLEAN
      /\ a.some \in BOOLEAN /\ b.some \in BOOLEAN
  BY Ids, CallParts
<1>5. b.retest = Cardinality(LeavesIn(b, (i + 1)..n))
  <2> DEFINE L == LeavesIn(a, (i + 1)..n)
  <2>1. (i + 1)..n \subseteq DOMAIN a.arr
    BY <1>1
  <2>2. IsFiniteSet(L) /\ Cardinality(L) \in Nat
    BY <2>1, LeafCount
  <2>3. LeavesIn(b, (i + 1)..n) = L
    BY <1>1, <1>2 DEF LeavesIn
  <2>4. i \notin L
    BY <1>1 DEF LeavesIn
  <2>9. /\ \A k : k \in L <=> k \in (i + 1)..n /\ IsLeaf(a.arr[k])
        /\ a.retest = Cardinality(LeavesIn(a, i..n))
    BY <1>3 DEF LeavesIn
  <2> HIDE DEF L
  <2>5. \A k \in i..n : k = i \/ k \in (i + 1)..n
    BY <1>1
  <2>6. i \in i..n /\ (i + 1)..n \subseteq i..n
    BY <1>1
  <2>7. CASE IsLeaf(a.arr[i])
    <3>1. LeavesIn(a, i..n) = L \union {i}
      BY <2>5, <2>6, <2>7, <2>9 DEF LeavesIn
    <3>2. Cardinality(L \union {i}) = Cardinality(L) + 1
      BY <2>2, <2>4, FS_AddElement
    <3>3. a.retest = Cardinality(L) + 1 /\ b.retest = a.retest - 1
      BY <2>7, <2>9, <3>1, <3>2
    <3> QED BY <2>2, <2>3, <3>3
  <2>8. CASE ~IsLeaf(a.arr[i])
    <3>1. LeavesIn(a, i..n) = L
      BY <2>5, <2>6, <2>8, <2>9 DEF LeavesIn
    <3> QED BY <2>3, <2>8, <2>9, <3>1
  <2> QED BY <2>7, <2>8
<1>6. b.retest \in Nat /\ (b.retest = 0 <=> \A k \in (i + 1)..n : ~IsLeaf(b.arr[k]))
  <2> DEFINE S == (i + 1)..n
  <2>1. S \subseteq DOMAIN b.arr
    BY <1>1
  <2>2. b.retest = Cardinality(LeavesIn(b, S))
    BY <1>5
  <2> HIDE DEF S
  <2>3. b.retest \in Nat /\ (b.retest = 0 <=> \A k \in S : ~IsLeaf(b.arr[k]))
    BY <2>1, <2>2, LeafCount
  <2> QED BY <2>3 DEF S
<1>7. \A j, k \in 1..n : b.arr[j] = b.arr[k] => j = k \/ b.arr[j] = Invalid
  BY <1>2, <1>3
<1>8. b.some <=> \E k \in 1..n : b.arr[k] = Invalid
  BY <1>1, <1>2, <1>3, <1>4
<1>9. ToFree(b) = ToFree(a) /\ (ToFree(b) # {} => b.some)
  BY <1>3 DEF ToFree
<1>10. \A k \in 1..n, c \in Batches : ~IsLeaf(b.arr[k]) => OpOf(b.arr[k]) \notin ToSet(b.synced[c])
  <2>1. \A c \in Batches : ToSet(a.synced[c]) \subseteq OpIds
    BY CallParts DEF ToSet
  <2>2. OpOf(Invalid) \notin OpIds
    BY Ids DEF OpOf, Invalid
  <2> QED BY <1>2, <1>3, <2>1, <2>2
<1>11. \A k \in 1..i, c \in Batches : IsLeaf(b.arr[k]) => OpOf(b.arr[k]) \notin ToSet(b.synced[c])
  <2>1. \A k \in 1..i : k \in 1..n /\ (k = i \/ k \in 1..(i - 1))
    BY <1>1
  <2> QED BY <1>2, <1>3, <2>1
<1>12. b.all <=> \A k \in 1..n : b.arr[k] = Invalid \/ (k >= i + 1 /\ IsLeaf(b.arr[k]))
  <2>1. ASSUME b.all, NEW k \in 1..n PROVE b.arr[k] = Invalid \/ (k >= i + 1 /\ IsLeaf(b.arr[k]))
    <3>1. a.arr[k] = Invalid \/ (k >= i /\ IsLeaf(a.arr[k]))
      BY <1>3, <1>4, <2>1
    <3>2. CASE k = i
      BY <1>1, <1>4, <2>1, <3>1, <3>2
    <3>3. CASE k # i
      BY <1>1, <1>2, <3>1, <3>3
    <3> QED BY <3>2, <3>3
  <2>2. ASSUME \A k \in 1..n : b.arr[k] = Invalid \/ (k >= i + 1 /\ IsLeaf(b.arr[k])) PROVE b.all
    <3>1. v = Invalid
      BY <1>1, <2>2
    <3>2. ASSUME NEW k \in 1..n PROVE a.arr[k] = Invalid \/ (k >= i /\ IsLeaf(a.arr[k]))
      <4>1. CASE k = i
        BY <1>1, <3>1, <4>1
      <4>2. CASE k # i
        BY <1>1, <1>2, <2>2, <4>2
      <4> QED BY <4>1, <4>2
    <3> QED BY <1>3, <1>4, <3>1, <3>2
  <2> QED BY <2>1, <2>2
<1>13. CASE b.retest = 0
  <2>1. b.in = "bulk"
    BY <1>13
  <2>2. \A k \in 1..n : k \in 1..i \/ k \in (i + 1)..n
    BY <1>1
  <2>3. \A k \in DOMAIN b.arr, c \in Batches :
          b.arr[k] # Invalid => OpOf(b.arr[k]) \notin ToSet(b.synced[c])
    BY <1>1, <1>6, <1>10, <1>11, <1>13, <2>2
  <2>4. \A k \in 1..n : k >= i + 1 => ~IsLeaf(b.arr[k])
    BY <1>1, <1>6, <1>13
  <2>5. b.all = \A k \in DOMAIN b.arr : b.arr[k] = Invalid
    BY <1>1, <1>4, <1>12, <2>4
  <2>6. b.some = \E k \in DOMAIN b.arr : b.arr[k] = Invalid
    BY <1>1, <1>4, <1>8
  <2>7. ArrayInv(b)
    BY <1>1, <1>7, <1>9, <1>10, <2>1, <2>5, <2>6 DEF ArrayInv, Tested
  <2> QED BY <2>3, <2>7
<1>14. CASE b.retest # 0
  <2>1. b.in = "pass2" /\ b.retest > 0
    BY <1>6, <1>14
  <2>2. b.i \in DOMAIN b.arr
    BY <1>1, <1>6, <1>14
  <2>3. b.all = \A k \in DOMAIN b.arr : b.arr[k] = Invalid \/ (k >= b.i /\ IsLeaf(b.arr[k]))
    BY <1>1, <1>4, <1>12
  <2>4. b.some = \E k \in DOMAIN b.arr : b.arr[k] = Invalid
    BY <1>1, <1>4, <1>8
  <2>5. ArrayInv(b)
    BY <1>1, <1>5, <1>7, <1>9, <1>10, <1>11, <2>1, <2>2, <2>3, <2>4 DEF ArrayInv, Tested
  <2> QED BY <2>1, <2>5
<1> QED BY <1>13, <1>14

\* What is left of the call when pass 2 has looked at an event.
LEMMA RetestedFacts ==
  ASSUME NEW a \in ArrayCalls, a.in = "pass2", a.i \in DOMAIN a.arr, a.retest > 0,
         NEW e, e = a.arr[a.i]
  PROVE  /\ Retested(a) \in ArrayCalls /\ Retested(a).in = "pass2" /\ Retested(a).i = a.i
         /\ Retested(a).synced = a.synced /\ Len(Retested(a).arr) = Len(a.arr)
         /\ \A k \in DOMAIN a.arr : k # a.i => Retested(a).arr[k] = a.arr[k]
         /\ ~IsLeaf(e) => Retested(a) = a
         /\ IsLeaf(e) => Retested(a).retest = a.retest - 1
         /\ IsLeaf(e) /\ LeafLive(e) =>
              Retested(a).arr = a.arr /\ Retested(a).all = FALSE /\ Retested(a).some = a.some
         /\ IsLeaf(e) /\ ~LeafLive(e) =>
              Retested(a).arr[a.i] = Invalid /\ Retested(a).all = a.all /\ Retested(a).some = TRUE
<1>1. /\ a.i \in Nat /\ a.retest \in Nat /\ a.retest - 1 \in Nat
      /\ a.arr \in Seq((OpIds \X Cats) \union {Invalid})
      /\ Len(a.arr) \in Nat /\ DOMAIN a.arr = 1..Len(a.arr)
  BY CallParts
<1> DEFINE r == [a.arr EXCEPT ![a.i] = Invalid]
           d == a.retest - 1
           b == [a EXCEPT !.retest = d]
<1>2. /\ r \in Seq((OpIds \X Cats) \union {Invalid}) /\ Len(r) = Len(a.arr)
      /\ r[a.i] = Invalid /\ \A k \in DOMAIN a.arr : k # a.i => r[k] = a.arr[k]
  BY <1>1
<1>3. d \in Nat /\ d = a.retest - 1
  BY <1>1
<1>4. CASE ~IsLeaf(e)
  BY <1>4 DEF Retested
<1>5. CASE IsLeaf(e) /\ LeafLive(e)
  <2> DEFINE m == [b EXCEPT !.all = FALSE]
  <2>1. Retested(a) = [a EXCEPT !.retest = d, !.all = FALSE]
    BY <1>5 DEF Retested
  <2>2. Retested(a) = m
    BY <2>1 DEF ArrayCalls
  <2> HIDE DEF d, r
  <2>3. b \in ArrayCalls
    BY <1>3 DEF ArrayCalls
  <2>4. /\ m.in = a.in /\ m.arr = a.arr /\ m.i = a.i /\ m.retest = d /\ m.all = FALSE
        /\ m.some = a.some /\ m.synced = a.synced
    BY DEF ArrayCalls
  <2> HIDE DEF b
  <2>5. m \in ArrayCalls
    BY <2>3 DEF ArrayCalls
  <2> QED BY <1>3, <1>5, <2>2, <2>4, <2>5
<1>6. CASE IsLeaf(e) /\ ~LeafLive(e)
  <2> DEFINE m == [b EXCEPT !.arr = r, !.some = TRUE]
  <2>1. Retested(a) = [a EXCEPT !.retest = d, !.arr = r, !.some = TRUE]
    BY <1>6 DEF Retested
  <2>2. Retested(a) = m
    BY <2>1 DEF ArrayCalls
  <2> HIDE DEF d, r
  <2>3. b \in ArrayCalls
    BY <1>3 DEF ArrayCalls
  <2>4. /\ m.in = a.in /\ m.arr = r /\ m.i = a.i /\ m.retest = d /\ m.all = a.all
        /\ m.some = TRUE /\ m.synced = a.synced
    BY DEF ArrayCalls
  <2> HIDE DEF b
  <2>5. m \in ArrayCalls
    BY <1>2, <2>3 DEF ArrayCalls
  <2> QED BY ZenonT(60), <1>2, <1>3, <1>6, <2>2, <2>4, <2>5
<1> QED BY <1>4, <1>5, <1>6

\* Pass 2 looks at one event.
LEMMA Pass2Step ==
  ASSUME EventInv, NEW t \in Threads, test_array_pass2(t)
  PROVE  EventInv'
<1> USE DEF EventInv
<1>1. call[t].in = "pass2" /\ t \in InArrays /\ call[t] \in ArrayCalls /\ ArrayInv(call[t])
  <2>1. call[t].in = "pass2" /\ t \in InArrays
    BY DEF test_array_pass2, InArrays
  <2> QED BY <2>1, Ranges DEF ArraysInv
<1>2. ASSUME NEW a \in ArrayCalls, a = call[t], NEW e, e = a.arr[a.i],
             NEW left \in ArrayCalls, left = Retested(a),
             NEW b, b = [left EXCEPT !.i = left.i + 1, !.in = IF left.retest = 0 THEN "bulk" ELSE left.in]
      PROVE  EventInv'
  <2>1. /\ call' = [call EXCEPT ![t] = b] /\ UNCHANGED <<op, cur, free, xf, hnd, held, regions>>
    BY <1>2 DEF test_array_pass2
  <2>2. a.in = "pass2" /\ a.i \in DOMAIN a.arr /\ a.retest > 0 /\ ArrayInv(a) /\ a.arr[a.i] = e
    BY <1>1, <1>2 DEF ArrayInv
  <2>3. /\ left.in = "pass2" /\ left.i = a.i
        /\ left.synced = a.synced /\ Len(left.arr) = Len(a.arr)
        /\ \A k \in DOMAIN a.arr : k # a.i => left.arr[k] = a.arr[k]
        /\ ~IsLeaf(e) => left = a
        /\ IsLeaf(e) => left.retest = a.retest - 1
        /\ IsLeaf(e) /\ LeafLive(e) =>
             left.arr = a.arr /\ left.all = FALSE /\ left.some = a.some
        /\ IsLeaf(e) /\ ~LeafLive(e) =>
             left.arr[a.i] = Invalid /\ left.all = a.all /\ left.some = TRUE
    BY <1>2, <2>2, RetestedFacts
  <2>4. /\ b \in ArrayCalls /\ b.i = a.i + 1 /\ b.in = (IF b.retest = 0 THEN "bulk" ELSE "pass2")
        /\ b.arr = left.arr /\ b.synced = a.synced /\ b.retest = left.retest
        /\ b.all = left.all /\ b.some = left.some
    <3>0. left.i \in Nat /\ left.i + 1 \in Nat
      BY CallParts
    <3>1. ASSUME NEW n \in Nat, n = left.i + 1, NEW s \in ArrayStages,
                 s = IF left.retest = 0 THEN "bulk" ELSE left.in
          PROVE  /\ b \in ArrayCalls /\ b.i = n /\ b.in = s
                 /\ b.arr = left.arr /\ b.synced = left.synced /\ b.retest = left.retest
                 /\ b.all = left.all /\ b.some = left.some
      <4> DEFINE p == [left EXCEPT !.i = n]
      <4>1. p \in ArrayCalls
        BY DEF ArrayCalls
      <4>2. b = [left EXCEPT !.i = n, !.in = s]
        BY <1>2, <3>1
      <4>3. b = [p EXCEPT !.in = s]
        BY <4>2
      <4>4. /\ b.i = n /\ b.in = s
            /\ b.arr = left.arr /\ b.synced = left.synced /\ b.retest = left.retest
            /\ b.all = left.all /\ b.some = left.some
        BY <4>2 DEF ArrayCalls
      <4> HIDE DEF p
      <4>5. b \in ArrayCalls
        BY <4>1, <4>3 DEF ArrayCalls
      <4> QED BY <4>4, <4>5
    <3>2. (IF left.retest = 0 THEN "bulk" ELSE left.in) \in ArrayStages
      BY <2>3 DEF ArrayStages
    <3>3. /\ b \in ArrayCalls /\ b.i = left.i + 1 /\ b.in = (IF left.retest = 0 THEN "bulk" ELSE left.in)
          /\ b.arr = left.arr /\ b.synced = left.synced /\ b.retest = left.retest
          /\ b.all = left.all /\ b.some = left.some
      BY <3>0, <3>1, <3>2
    <3> QED BY <2>3, <3>3
  <2>5. /\ Len(b.arr) = Len(a.arr)
        /\ \A k \in DOMAIN a.arr : k # a.i => b.arr[k] = a.arr[k]
        /\ b.arr[a.i] \in {Invalid, a.arr[a.i]} /\ (b.arr[a.i] = Invalid \/ b.arr[a.i] = e)
        /\ b.arr[a.i] = Invalid => IsLeaf(e) \/ e = Invalid
    BY <2>2, <2>3, <2>4
  <2>6. /\ IsLeaf(a.arr[a.i]) => b.retest = a.retest - 1
        /\ ~IsLeaf(a.arr[a.i]) => b.retest = a.retest /\ b.arr[a.i] = a.arr[a.i]
    BY <2>2, <2>3, <2>4
  <2>7. ~IsLeaf(Invalid) /\ a.all \in BOOLEAN /\ a.some \in BOOLEAN
    BY Ids, CallParts
  <2>8. b.all <=> a.all /\ ~IsLeaf(b.arr[a.i])
    BY <2>2, <2>3, <2>4, <2>7
  <2>9. b.some <=> a.some \/ b.arr[a.i] = Invalid
    <3>1. CASE IsLeaf(e)
      BY <2>2, <2>3, <2>4, <2>7, <3>1
    <3>2. CASE ~IsLeaf(e)
      <4>1. b.some = a.some /\ b.arr[a.i] = a.arr[a.i]
        BY <2>3, <2>4, <3>2
      <4>2. a.arr[a.i] = Invalid => a.some
        BY <2>2 DEF ArrayInv, Tested
      <4> QED BY <4>1, <4>2
    <3> QED BY <3>1, <3>2
  <2>10. \A c \in Batches : IsLeaf(b.arr[a.i]) => OpOf(b.arr[a.i]) \notin ToSet(a.synced[c])
    <3> SUFFICES ASSUME NEW c \in Batches, IsLeaf(b.arr[a.i]), OpOf(b.arr[a.i]) \in ToSet(a.synced[c])
                 PROVE  FALSE
      OBVIOUS
    <3>1. b.arr[a.i] = e /\ LeafLive(e)
      BY <2>2, <2>3, <2>4, <2>5, <2>7
    <3>2. OpOf(e) \in Synced(t) /\ OpOf(e) \in OpIds
      BY <1>1, <1>2, <3>1, InHand, Ranges
    <3>3. op[OpOf(e)].type = "pendingfree"
      BY <3>2 DEF HandsInv
    <3>4. op[OpOf(e)].live = {}
      BY <3>2, <3>3 DEF BitsInv
    <3> QED BY <3>1, <3>4 DEF LeafLive
  <2>11. /\ ArrayInv(b)
         /\ b.in = "bulk" =>
              \A k \in DOMAIN b.arr, c \in Batches :
                b.arr[k] # Invalid => OpOf(b.arr[k]) \notin ToSet(b.synced[c])
    <3>1. ASSUME NEW v, v = b.arr[a.i]
          PROVE  /\ v \in {Invalid, a.arr[a.i]}
                 /\ ~IsLeaf(a.arr[a.i]) => b.retest = a.retest /\ v = a.arr[a.i]
                 /\ b.all <=> a.all /\ ~IsLeaf(v)
                 /\ b.some <=> a.some \/ v = Invalid
                 /\ \A c \in Batches : IsLeaf(v) => OpOf(v) \notin ToSet(a.synced[c])
      BY <2>5, <2>6, <2>8, <2>9, <2>10, <3>1
    <3>2. ArrayInv(a) /\ a.in = "pass2"
      BY <2>2
    <3> HIDE DEF EventInv
    <3> QED BY <2>4, <2>5, <2>6, <3>1, <3>2, Pass2Advance
  <2>12. \A k \in DOMAIN a.arr : b.arr[k] = a.arr[k] \/ (b.arr[k] = Invalid /\ IsLeaf(a.arr[k]))
    BY <2>2, <2>3, <2>5
  <2> HIDE DEF EventInv
  <2>13. call[t] = a
    BY <1>2
  <2> QED BY <1>1, <2>1, <2>4, <2>5, <2>11, <2>12, <2>13, ArrayTurn
<1>3. Retested(call[t]) \in ArrayCalls
  <2>1. call[t].i \in DOMAIN call[t].arr /\ call[t].retest > 0
    BY <1>1 DEF ArrayInv
  <2> QED BY <1>1, <2>1, RetestedFacts
<1> QED BY <1>1, <1>2, <1>3

\* An array call frees some of the ops it has synced, and goes on or gives the
\* client back the events that were not.
LEMMA BulkStep ==
  ASSUME EventInv, NEW t \in InArrays, call[t].in = "bulk", NEW F, F \subseteq Synced(t),
         op' = [j \in OpIds |-> op'[j]], \A j \in OpIds \ F : op'[j] = op[j],
         \A j \in F : op'[j] = [op[j] EXCEPT !.type = "free"],
         UNCHANGED <<cur, xf, hnd, regions>>,
         ListsInv', free' \in [Threads -> [Lists -> Seq(OpIds)]],
         \A u \in Threads \ {t} : call'[u] = call[u], call' \in [Threads -> CallTypes],
         Synced(t)' = Synced(t) \ F,
         \/ /\ Passed(t)' = Passed(t) /\ held' = held /\ call'[t].in = "bulk"
            /\ BatchesInv(call[t])' /\ ArrayInv(call[t])'
         \/ /\ (t \notin InArrays)' /\ Passed(t)' = {} /\ held' = held \union Passed(t)
  PROVE  EventInv'
<1> USE DEF EventInv
<1>1. t \in Threads /\ F \subseteq OpIds
  BY Ranges
<1>2. \A j \in F : /\ op[j].type = "pendingfree" /\ op[j].live = {} /\ ~IsClosed(j)
                   /\ j \in Iops => op[j].next = "self"
  BY <1>1 DEF HandsInv, BitsInv, IsClosed
<1>3. /\ op' \in [OpIds -> OpRecords] /\ StacksInv' /\ CountersInv' /\ BitsInv' /\ TransfersInv'
      /\ \A j \in OpIds : /\ op'[j].owner = op[j].owner
                          /\ op'[j].type = IF j \in F THEN "free" ELSE op[j].type
                          /\ IsClosed(j)' <=> IsClosed(j) /\ j \notin F
  BY <1>1, <1>2, OpsRetyped
<1>4. EventTypeOK'
  <2>1. held' \subseteq OpIds \X Cats
    BY <1>1, Ranges DEF EventTypeOK
  <2> QED BY <1>3, <2>1 DEF EventTypeOK, CallTypes
<1>5. \A u \in Threads \ {t} : /\ Passed(u)' = Passed(u) /\ Synced(u)' = Synced(u)
                               /\ call'[u].in = "bulk" <=> call[u].in = "bulk"
  BY <1>1, OtherArrays
<1>6. /\ Passed(t)' \union held' = Passed(t) \union held
      /\ Passed(t)' \subseteq Passed(t) /\ held \subseteq held' /\ Passed(t)' \intersect held' = {}
  BY <1>1 DEF HandsInv
<1>7. HandsInv'
  <2>1. \A d \in held \union Passed(t) : /\ OpOf(d) \in OpIds /\ IsClosed(OpOf(d))
                                         /\ <<OpOf(d), Root>> \in held \union Passed(t)
    <3>1. \A d \in held : /\ OpOf(d) \in OpIds /\ IsClosed(OpOf(d)) /\ <<OpOf(d), Root>> \in held
      BY HeldFacts
    <3>2. \A d \in Passed(t) : /\ OpOf(d) \in OpIds /\ IsClosed(OpOf(d))
                               /\ <<OpOf(d), Root>> \in held \union Passed(t)
      BY <1>1, Ranges, Ids DEF HandsInv
    <3> QED BY <3>1, <3>2
  <2>2. \A d \in held \union Passed(t) : IsClosed(OpOf(d))'
    BY <1>2, <1>3, <2>1
  <2>3. ASSUME NEW d \in held' PROVE IsClosed(OpOf(d))' /\ <<OpOf(d), Root>> \in held'
    <3>1. CASE held' = held
      <4>1. <<OpOf(d), Root>> \in held
        BY <2>3, <3>1, HeldFacts
      <4> QED BY <2>2, <2>3, <3>1, <4>1
    <3>2. CASE held' = held \union Passed(t)
      BY <2>1, <2>2, <2>3, <3>2
    <3> QED BY <3>1, <3>2
  <2>4. ASSUME NEW u \in Threads
        PROVE  /\ Passed(u)' \intersect held' = {}
               /\ \A w \in Threads \ {u} : /\ Passed(u)' \intersect Passed(w)' = {}
                                           /\ Synced(u)' \intersect Synced(w)' = {}
               /\ \A d \in Passed(u)' :
                    \/ OpOf(d) \in Synced(u)'
                    \/ IsClosed(OpOf(d))' /\ <<OpOf(d), Root>> \in held' \union Passed(u)'
               /\ \A j \in Synced(u)' : op'[j].type = "pendingfree"
               /\ call'[u].in = "bulk" => \A d \in Passed(u)' : OpOf(d) \notin Synced(u)'
    <3>1. Passed(u)' \intersect held' = {}
      <4>1. CASE u = t
        BY <1>6, <4>1
      <4>2. CASE u # t
        <5>1. Passed(u) \intersect held = {} /\ Passed(u) \intersect Passed(t) = {}
          BY <1>1, <4>2 DEF HandsInv
        <5> QED BY <1>5, <1>6, <4>2, <5>1
      <4> QED BY <4>1, <4>2
    <3>2. ASSUME NEW w \in Threads \ {u}
          PROVE  Passed(u)' \intersect Passed(w)' = {} /\ Synced(u)' \intersect Synced(w)' = {}
      <4>1. Passed(u) \intersect Passed(w) = {} /\ Synced(u) \intersect Synced(w) = {}
        BY <3>2 DEF HandsInv
      <4>2. \A x \in Threads : Passed(x)' \subseteq Passed(x) /\ Synced(x)' \subseteq Synced(x)
        BY <1>5, <1>6
      <4> QED BY <3>2, <4>1, <4>2
    <3>3. ASSUME NEW d \in Passed(u)', OpOf(d) \notin Synced(u)'
          PROVE  IsClosed(OpOf(d))' /\ <<OpOf(d), Root>> \in held' \union Passed(u)'
      <4>1. CASE u = t
        BY <1>6, <2>1, <2>2, <3>3, <4>1
      <4>2. CASE u # t
        <5>1. d \in Passed(u) /\ OpOf(d) \notin Synced(u) /\ OpOf(d) \in OpIds
          BY <1>5, <3>3, <4>2, Ranges, Ids
        <5>2. IsClosed(OpOf(d)) /\ <<OpOf(d), Root>> \in held \union Passed(u)
          BY <5>1 DEF HandsInv
        <5> QED BY <1>2, <1>3, <1>5, <1>6, <4>2, <5>1, <5>2
      <4> QED BY <4>1, <4>2
    <3>4. ASSUME NEW j \in Synced(u)' PROVE op'[j].type = "pendingfree"
      <4>1. j \in Synced(u) /\ j \in OpIds /\ op[j].type = "pendingfree"
        <5>1. j \in Synced(u)
          BY <1>5, <3>4
        <5> QED BY <5>1, Ranges DEF HandsInv
      <4>2. j \notin F
        <5>1. CASE u = t
          BY <3>4, <5>1
        <5>2. CASE u # t
          BY <1>1, <4>1, <5>2 DEF HandsInv
        <5> QED BY <5>1, <5>2
      <4> QED BY <1>3, <4>1, <4>2
    <3>5. ASSUME call'[u].in = "bulk", NEW d \in Passed(u)' PROVE OpOf(d) \notin Synced(u)'
      BY <1>5, <1>6, <3>5 DEF HandsInv
    <3> QED BY <3>1, <3>2, <3>3, <3>4, <3>5
  <2>5. ASSUME NEW j \in OpIds
        PROVE  /\ IsClosed(j)' => \/ <<j, Root>> \in held'
                                  \/ \E u \in Threads : <<j, Root>> \in Passed(u)'
               /\ op'[j].type = "pendingfree" => \E u \in Threads : j \in Synced(u)'
    <3>1. ASSUME IsClosed(j)'
          PROVE  \/ <<j, Root>> \in held'
                 \/ \E u \in Threads : <<j, Root>> \in Passed(u)'
      <4>1. IsClosed(j)
        BY <1>3, <3>1
      <4>2. CASE <<j, Root>> \in held
        BY <1>6, <4>2
      <4>3. CASE \E u \in Threads : <<j, Root>> \in Passed(u)
        <5>1. PICK u \in Threads : <<j, Root>> \in Passed(u)
          BY <4>3
        <5> QED BY <1>5, <1>6, <5>1
      <4> QED BY <4>1, <4>2, <4>3 DEF HandsInv
    <3>2. ASSUME op'[j].type = "pendingfree" PROVE \E u \in Threads : j \in Synced(u)'
      <4>1. j \notin F /\ op[j].type = "pendingfree"
        BY <1>3, <3>2
      <4>2. PICK u \in Threads : j \in Synced(u)
        BY <4>1 DEF HandsInv
      <4> QED BY <1>5, <4>1, <4>2
    <3> QED BY <3>1, <3>2
  <2> QED BY <2>3, <2>4, <2>5 DEF HandsInv
<1>8. ArraysInv'
  <2>1. (t \in InArrays)' => BatchesInv(call[t])' /\ ArrayInv(call[t])'
    OBVIOUS
  <2>2. \A j \in OpIds : op[j].type = "pendingfree" => op'[j].owner = op[j].owner
    BY <1>3
  <2> QED BY <1>1, <2>1, <2>2, ArraysInvStep
<1> QED BY <1>3, <1>4, <1>7, <1>8

\* The call returns: what it had not synced is the client's again.
LEMMA ReturnFacts ==
  ASSUME EventTypeOK, NEW t \in InArrays, ArrayReturns(t)
  PROVE  /\ held' = held \union Passed(t) /\ (t \notin InArrays)'
         /\ Passed(t)' = {} /\ Synced(t)' = {}
         /\ \A u \in Threads \ {t} : call'[u] = call[u]
         /\ call' \in [Threads -> CallTypes]
<1>1. t \in Threads
  BY Ranges
<1>2. /\ held' = held \union (ToSet(call[t].arr) \ {Invalid})
      /\ call' = [call EXCEPT ![t] = Idle]
  BY DEF ArrayReturns
<1>3. call'[t] = Idle /\ (\A u \in Threads \ {t} : call'[u] = call[u]) /\ call' \in [Threads -> CallTypes]
  BY <1>1, <1>2 DEF EventTypeOK, CallTypes
<1>4. (t \notin InArrays)'
  BY <1>3 DEF InArrays, Idle
<1> QED BY <1>2, <1>3, <1>4 DEF Passed, Synced

\* gasnete_test_array returns with nothing to free.
LEMMA TestArrayReturnStep ==
  ASSUME EventInv, NEW t \in Threads, test_array_return(t)
  PROVE  EventInv'
<1> USE DEF EventInv
<1>1. /\ call[t].in = "bulk" /\ t \in InArrays /\ ToFree(call[t]) = {} /\ ArrayReturns(t)
      /\ UNCHANGED <<op, cur, free, xf, hnd, regions>>
  BY DEF test_array_return, InArrays
<1>2. Synced(t) = {}
  <2>1. \A b \in Batches : call[t].synced[b] = <<>>
    BY <1>1 DEF ToFree
  <2>2. \A b \in Batches : ToSet(call[t].synced[b]) = {}
    BY <2>1 DEF ToSet
  <2> QED BY <2>2 DEF Synced
<1>3. /\ held' = held \union Passed(t) /\ (t \notin InArrays)'
      /\ Passed(t)' = {} /\ Synced(t)' = {}
      /\ \A u \in Threads \ {t} : call'[u] = call[u]
      /\ call' \in [Threads -> CallTypes]
  BY <1>1, ReturnFacts
<1>4. ListsInv'
  BY <1>1, ListsFrame
<1>5. op' = [j \in OpIds |-> op'[j]] /\ free' \in [Threads -> [Lists -> Seq(OpIds)]]
  BY <1>1 DEF EventTypeOK
<1> DEFINE F == {}
<1>6. /\ F \subseteq Synced(t) /\ \A j \in OpIds \ F : op'[j] = op[j]
      /\ \A j \in F : op'[j] = [op[j] EXCEPT !.type = "free"]
      /\ Synced(t)' = Synced(t) \ F
  BY <1>1, <1>2, <1>3
<1> HIDE DEF F, EventInv
<1> QED BY <1>1, <1>3, <1>4, <1>5, <1>6, BulkStep

(* The ops freed together, and the batches left.                               *)
OpsOf(a, b) == IF b[2] = 0 THEN a.synced[b] ELSE <<Head(a.synced[b])>>
Rest(a, b) == [a.synced EXCEPT ![b] = IF b[2] = 0 THEN <<>> ELSE Tail(a.synced[b])]

Left(a, b) == [a EXCEPT !.synced = Rest(a, b)]

\* A batch, or the first of one, is taken off the ops a call has to free.
LEMMA BatchesShrink ==
  ASSUME NEW a \in ArrayCalls, BatchesInv(a), NEW b \in Batches, a.synced[b] # <<>>
  PROVE  /\ OpsOf(a, b) \in Seq(OpIds) /\ OpsOf(a, b) # <<>> /\ IsInjective(OpsOf(a, b))
         /\ Head(OpsOf(a, b)) \in ToSet(OpsOf(a, b))
         /\ ToSet(OpsOf(a, b)) \subseteq ToSet(a.synced[b])
         /\ \A i \in ToSet(OpsOf(a, b)) : /\ op[i].owner = op[Head(OpsOf(a, b))].owner
                                          /\ KindOf(i) = KindOf(Head(OpsOf(a, b)))
         /\ Rest(a, b) \in [Batches -> Seq(OpIds)]
         /\ b[2] = 0 => Rest(a, b)[b] = <<>>
         /\ IsInjective(Rest(a, b)[b])
         /\ ToSet(Rest(a, b)[b]) = ToSet(a.synced[b]) \ ToSet(OpsOf(a, b))
         /\ \A c \in Batches \ {b} : Rest(a, b)[c] = a.synced[c]
<1> DEFINE list == a.synced[b]
<1>1. /\ a.synced \in [Batches -> Seq(OpIds)] /\ list \in Seq(OpIds) /\ list # <<>> /\ IsInjective(list)
      /\ \A j \in ToSet(list) :
           KindOf(j) = b[1] /\ (b[2] = 0 => op[j].owner = op[Head(list)].owner)
  <2>1. a.synced \in [Batches -> Seq(OpIds)]
    BY CallParts
  <2> QED BY <2>1 DEF BatchesInv
<1>2. Head(list) \in OpIds /\ Head(list) \in ToSet(list)
      /\ Tail(list) \in Seq(OpIds) /\ IsInjective(Tail(list))
      /\ ToSet(Tail(list)) = ToSet(list) \ {Head(list)}
  BY <1>1, TailFacts
<1> DEFINE h == Head(list)
           w == Tail(list)
<1>3. CASE b[2] = 0
  <2>1. OpsOf(a, b) = list /\ Rest(a, b) = [a.synced EXCEPT ![b] = <<>>]
    BY <1>3 DEF OpsOf, Rest
  <2>2. /\ Rest(a, b) \in [Batches -> Seq(OpIds)] /\ Rest(a, b)[b] = <<>>
        /\ \A c \in Batches \ {b} : Rest(a, b)[c] = a.synced[c]
    BY <1>1, <2>1
  <2>3. IsInjective(<<>>) /\ ToSet(<<>>) = {}
    BY DEF IsInjective, ToSet
  <2>4. \A i \in ToSet(list) : op[i].owner = op[Head(list)].owner /\ KindOf(i) = KindOf(Head(list))
    BY <1>1, <1>2, <1>3
  <2> QED BY <1>1, <1>2, <2>1, <2>2, <2>3, <2>4
<1>4. CASE b[2] # 0
  <2>1. OpsOf(a, b) = <<h>> /\ Rest(a, b) = [a.synced EXCEPT ![b] = w]
    BY <1>4 DEF OpsOf, Rest
  <2>2. h \in OpIds /\ h \in ToSet(list) /\ w \in Seq(OpIds) /\ IsInjective(w)
        /\ ToSet(w) = ToSet(list) \ {h}
    BY <1>2
  <2> HIDE DEF h, w
  <2>3. /\ Rest(a, b) \in [Batches -> Seq(OpIds)] /\ Rest(a, b)[b] = w
        /\ \A c \in Batches \ {b} : Rest(a, b)[c] = a.synced[c]
    BY <1>1, <2>1, <2>2
  <2>4. <<h>> \in Seq(OpIds) /\ IsInjective(<<h>>) /\ ToSet(<<h>>) = {h} /\ <<h>> # <<>> /\ Head(<<h>>) = h
    BY <2>2, OneFacts
  <2> QED BY <1>4, <2>1, <2>2, <2>3, <2>4
<1> QED BY <1>3, <1>4

\* The call that is left has found out the same about its array.
LEMMA LeftOver ==
  ASSUME NEW a \in ArrayCalls, ArrayInv(a), BatchesInv(a), a.in = "bulk", NEW b \in Batches,
         a.synced[b] # <<>>
  PROVE  /\ Left(a, b) \in ArrayCalls /\ Left(a, b).in = "bulk" /\ Left(a, b).arr = a.arr
         /\ ArrayInv(Left(a, b))
         /\ \A i : (\E c \in Batches : i \in ToSet(Left(a, b).synced[c]))
              <=> (\E c \in Batches : i \in ToSet(a.synced[c])) /\ i \notin ToSet(OpsOf(a, b))
         /\ \A c \in Batches :
              /\ IsInjective(Left(a, b).synced[c])
              /\ ToSet(Left(a, b).synced[c]) \subseteq ToSet(a.synced[c])
              /\ c[2] = 0 /\ Left(a, b).synced[c] # <<>> => Left(a, b).synced[c] = a.synced[c]
<1> DEFINE s == Rest(a, b)
           left == Left(a, b)
<1>2. /\ ToSet(OpsOf(a, b)) \subseteq ToSet(a.synced[b])
      /\ s \in [Batches -> Seq(OpIds)]
      /\ IsInjective(s[b])
      /\ ToSet(s[b]) = ToSet(a.synced[b]) \ ToSet(OpsOf(a, b))
      /\ \A c \in Batches \ {b} : s[c] = a.synced[c]
  BY BatchesShrink
<1>3. b[2] = 0 => s[b] = <<>>
  BY BatchesShrink
<1>4. left = [a EXCEPT !.synced = s]
  BY DEF Left
<1> HIDE DEF s, left
<1>5. /\ left \in ArrayCalls /\ left.in = a.in /\ left.arr = a.arr /\ left.synced = s
      /\ left.all = a.all /\ left.some = a.some
  BY <1>2, <1>4 DEF ArrayCalls
<1>6. \A c \in Batches : \A d \in Batches \ {c} : ToSet(a.synced[c]) \intersect ToSet(a.synced[d]) = {}
  BY DEF BatchesInv
<1>7. \A i : (\E c \in Batches : i \in ToSet(s[c]))
        <=> (\E c \in Batches : i \in ToSet(a.synced[c])) /\ i \notin ToSet(OpsOf(a, b))
  <2>1. \A c \in Batches \ {b} : ToSet(a.synced[c]) \intersect ToSet(OpsOf(a, b)) = {}
    BY <1>2, <1>6
  <2> QED BY <1>2, <2>1
<1>8. \A c \in Batches : /\ IsInjective(s[c])
                         /\ ToSet(s[c]) \subseteq ToSet(a.synced[c])
                         /\ c[2] = 0 /\ s[c] # <<>> => s[c] = a.synced[c]
                         /\ s[c] # <<>> => a.synced[c] # <<>>
  <2>1. \A c \in Batches : IsInjective(a.synced[c])
    BY DEF BatchesInv
  <2> QED BY <1>2, <1>3, <2>1
<1>9. ArrayInv(left)
  <2>1. /\ \A j, k \in DOMAIN a.arr : a.arr[j] = a.arr[k] => j = k \/ a.arr[j] = Invalid
        /\ a.some = \E k \in DOMAIN a.arr : a.arr[k] = Invalid
        /\ ToFree(a) # {} => a.some
        /\ \A k \in DOMAIN a.arr, c \in Batches :
             ~IsLeaf(a.arr[k]) => OpOf(a.arr[k]) \notin ToSet(a.synced[c])
        /\ a.all = \A k \in DOMAIN a.arr : a.arr[k] = Invalid
    BY DEF ArrayInv, Tested
  <2>2. ToFree(left) # {} => ToFree(a) # {}
    BY <1>5, <1>8 DEF ToFree
  <2>3. ToFree(left) # {} => left.some
    BY <1>5, <2>1, <2>2
  <2>4. \A k \in DOMAIN left.arr, c \in Batches :
          ~IsLeaf(left.arr[k]) => OpOf(left.arr[k]) \notin ToSet(left.synced[c])
    BY <1>5, <1>8, <2>1
  <2> QED BY <1>5, <2>1, <2>3, <2>4 DEF ArrayInv, Tested
<1> QED BY <1>5, <1>7, <1>8, <1>9 DEF left

\* gasnete_test_array frees a batch of the ops it synced.
LEMMA TestArrayFreeStep ==
  ASSUME EventInv, NEW t \in Threads, test_array_free(t)
  PROVE  EventInv'
<1> USE DEF EventInv
<1>1. /\ call[t].in = "bulk" /\ t \in InArrays /\ call[t] \in ArrayCalls
      /\ BatchesInv(call[t]) /\ ArrayInv(call[t])
      /\ UNCHANGED <<cur, xf, hnd, regions>>
  <2>1. call[t].in = "bulk" /\ t \in InArrays /\ UNCHANGED <<cur, xf, hnd, regions>>
    BY DEF test_array_free, InArrays
  <2> QED BY <2>1, Ranges DEF ArraysInv
<1>2. PICK b \in ToFree(call[t]) :
        LET ops == OpsOf(call[t], b)
            left == Left(call[t], b) IN
          /\ op' = [i \in OpIds |-> IF i \in ToSet(ops) THEN [op[i] EXCEPT !.type = "free"]
                                  ELSE op[i]]
          /\ free' = Freed(t, ops)
          /\ \/ ToFree(left) # {} /\ call' = [call EXCEPT ![t] = left] /\ UNCHANGED held
             \/ ToFree(left) = {} /\ ArrayReturns(t)
  <2> HIDE DEF EventInv
  <2> QED BY DEF test_array_free, OpsOf, Rest, Left
<1>3. ASSUME NEW a \in ArrayCalls, a = call[t], NEW ops \in Seq(OpIds), ops = OpsOf(a, b),
             NEW left, left = Left(a, b), NEW F, F = ToSet(ops)
      PROVE  EventInv'
  <2>1. b \in Batches /\ a.synced[b] # <<>> /\ ArrayInv(a) /\ BatchesInv(a) /\ a.in = "bulk"
    BY <1>1, <1>3 DEF ToFree
  <2>2. /\ op' = [i \in OpIds |-> IF i \in F THEN [op[i] EXCEPT !.type = "free"] ELSE op[i]]
        /\ free' = Freed(t, ops)
        /\ \/ ToFree(left) # {} /\ call' = [call EXCEPT ![t] = left] /\ UNCHANGED held
           \/ ToFree(left) = {} /\ ArrayReturns(t)
    BY <1>2, <1>3
  <2>3. /\ op' = [j \in OpIds |-> op'[j]] /\ \A j \in OpIds \ F : op'[j] = op[j]
        /\ \A j \in OpIds \intersect F : op'[j] = [op[j] EXCEPT !.type = "free"]
    BY <2>2
  <2>4. /\ ops # <<>> /\ IsInjective(ops) /\ Head(ops) \in F /\ F \subseteq ToSet(a.synced[b])
        /\ \A i \in F : op[i].owner = op[Head(ops)].owner /\ KindOf(i) = KindOf(Head(ops))
    BY <1>3, <2>1, BatchesShrink
  <2>5. /\ left \in ArrayCalls /\ left.in = "bulk" /\ left.arr = a.arr
        /\ ArrayInv(left)
        /\ \A i : (\E c \in Batches : i \in ToSet(left.synced[c]))
             <=> (\E c \in Batches : i \in ToSet(a.synced[c])) /\ i \notin F
        /\ \A c \in Batches : /\ IsInjective(left.synced[c])
                              /\ ToSet(left.synced[c]) \subseteq ToSet(a.synced[c])
                              /\ c[2] = 0 /\ left.synced[c] # <<>> => left.synced[c] = a.synced[c]
    <3> DEFINE z == Left(a, b)
    <3>1. /\ z \in ArrayCalls /\ z.in = "bulk" /\ z.arr = a.arr
          /\ ArrayInv(z)
          /\ \A i : (\E c \in Batches : i \in ToSet(z.synced[c]))
               <=> (\E c \in Batches : i \in ToSet(a.synced[c])) /\ i \notin ToSet(OpsOf(a, b))
          /\ \A c \in Batches : /\ IsInjective(z.synced[c])
                                /\ ToSet(z.synced[c]) \subseteq ToSet(a.synced[c])
                                /\ c[2] = 0 /\ z.synced[c] # <<>> => z.synced[c] = a.synced[c]
      BY <2>1, LeftOver
    <3>2. z = left /\ F = ToSet(OpsOf(a, b))
      BY <1>3
    <3> HIDE DEF z
    <3> QED BY <3>1, <3>2
  <2>6. F \subseteq Synced(t) /\ F \subseteq OpIds
    <3>1. Synced(t) = UNION {ToSet(a.synced[c]) : c \in Batches}
      BY <1>1, <1>3, InHand
    <3>2. ToSet(a.synced[b]) \subseteq Synced(t)
      BY <2>1, <3>1
    <3> QED BY <1>1, <2>4, <3>2, Ranges
  <2>7. \A j \in F : op'[j] = [op[j] EXCEPT !.type = "free"]
    BY <2>3, <2>6
  <2>8. \A j \in F : /\ op[j].type = "pendingfree" /\ op[j].owner \in Threads /\ op[j] \in OpRecords
    BY <2>6, OpFacts DEF HandsInv, BitsInv
  <2>9. \A j \in F : op'[j].type = "free" /\ op'[j].owner = op[j].owner
    BY ZenonT(60), <2>7, <2>8 DEF OpRecords
  <2>10. ListsInv' /\ free' \in [Threads -> [Lists -> Seq(OpIds)]]
    <3>1. op[Head(ops)].owner \in Threads
      BY <2>4, <2>8
    <3>2. ASSUME NEW o \in Threads, o = op[Head(ops)].owner
          PROVE  ListsInv' /\ free' \in [Threads -> [Lists -> Seq(OpIds)]]
      <4>1. \A j \in ToSet(ops) : /\ op[j].type # "free" /\ op[j].owner = o
                                  /\ KindOf(j) = KindOf(Head(ops))
                                  /\ op'[j].type = "free" /\ op'[j].owner = o
        BY <1>3, <2>4, <2>8, <2>9, <3>2
      <4>2. \A j \in OpIds \ ToSet(ops) : /\ op'[j].type = "free" <=> op[j].type = "free"
                                          /\ op[j].type = "free" => op'[j].owner = op[j].owner
        BY <1>3, <2>3
      <4>3. EventTypeOK /\ ListsInv
        OBVIOUS
      <4> HIDE DEF EventInv
      <4> QED BY <2>2, <2>4, <4>1, <4>2, <4>3, FreeStep
    <3> QED BY <3>1, <3>2
  <2>11. Synced(t) = UNION {ToSet(a.synced[c]) : c \in Batches}
    BY <1>1, <1>3, InHand
  <2>12. CASE ToFree(left) # {} /\ call' = [call EXCEPT ![t] = left] /\ UNCHANGED held
    <3>1. /\ call'[t] = left /\ \A u \in Threads \ {t} : call'[u] = call[u]
          /\ call' \in [Threads -> CallTypes]
      BY <2>5, <2>12 DEF EventTypeOK, CallTypes
    <3>2. (t \in InArrays)'
      BY <2>5, <3>1 DEF InArrays
    <3>3. Passed(t)' = Passed(t) /\ Synced(t)' = Synced(t) \ F
      <4>1. Passed(t)' = ToSet(left.arr) \ {Invalid} /\ Passed(t) = ToSet(a.arr) \ {Invalid}
        BY <1>1, <1>3, <3>1, <3>2 DEF Passed
      <4>2. Synced(t)' = UNION {ToSet(left.synced[c]) : c \in Batches}
        BY <3>1, <3>2 DEF Synced
      <4>3. \A i : i \in Synced(t)' <=> i \in Synced(t) /\ i \notin F
        BY <2>5, <2>11, <4>2
      <4> QED BY <2>5, <4>1, <4>3
    <3>4. \A j \in OpIds : op'[j].owner = op[j].owner
      BY <2>3, <2>9
    <3>5. BatchesInv(call[t])'
      <4>1. \A c \in Batches : \A j \in ToSet(a.synced[c]) :
              KindOf(j) = c[1] /\ (c[2] = 0 => op[j].owner = op[Head(a.synced[c])].owner)
        BY <2>1 DEF BatchesInv
      <4>2. \A c \in Batches : \A d \in Batches \ {c} :
              ToSet(a.synced[c]) \intersect ToSet(a.synced[d]) = {}
        BY <2>1 DEF BatchesInv
      <4>3. ASSUME NEW c \in Batches, NEW j \in ToSet(left.synced[c])
            PROVE  /\ KindOf(j) = c[1]
                   /\ c[2] = 0 => op'[j].owner = op'[Head(left.synced[c])].owner
        <5>1. j \in ToSet(a.synced[c]) /\ left.synced[c] # <<>>
          <6>1. left.synced[c] = <<>> => ToSet(left.synced[c]) = {}
            BY DEF ToSet
          <6> QED BY <2>5, <4>3, <6>1
        <5>2. \A k \in ToSet(a.synced[c]) : k \in OpIds /\ Head(a.synced[c]) \in OpIds
          BY <1>1, <1>3, BatchOwners
        <5> QED BY <2>5, <3>4, <4>1, <5>1, <5>2
      <4>4. \A c \in Batches : \A d \in Batches \ {c} :
              ToSet(left.synced[c]) \intersect ToSet(left.synced[d]) = {}
        BY <2>5, <4>2
      <4> QED BY ZenonT(60), <2>5, <3>1, <4>3, <4>4 DEF BatchesInv
    <3>6. ArrayInv(call[t])' /\ call'[t].in = "bulk"
      BY <2>5, <3>1
    <3> HIDE DEF EventInv
    <3> QED BY <1>1, <2>3, <2>6, <2>7, <2>10, <2>12, <3>1, <3>3, <3>5, <3>6, BulkStep
  <2>13. CASE ToFree(left) = {} /\ ArrayReturns(t)
    <3>1. /\ held' = held \union Passed(t) /\ (t \notin InArrays)'
          /\ Passed(t)' = {} /\ Synced(t)' = {}
          /\ \A u \in Threads \ {t} : call'[u] = call[u]
          /\ call' \in [Threads -> CallTypes]
      BY <1>1, <2>13, ReturnFacts
    <3>2. Synced(t) \ F = {}
      <4>1. \A c \in Batches : left.synced[c] = <<>>
        BY <2>13 DEF ToFree
      <4>2. \A c \in Batches : ToSet(left.synced[c]) = {}
        BY <4>1 DEF ToSet
      <4>3. \A i : i \in Synced(t) <=> \E c \in Batches : i \in ToSet(a.synced[c])
        BY <2>11
      <4> QED BY <2>5, <4>2, <4>3
    <3> HIDE DEF EventInv
    <3> QED BY <1>1, <2>3, <2>6, <2>7, <2>10, <3>1, <3>2, BulkStep
  <2> QED BY <2>2, <2>12, <2>13
<1>4. OpsOf(call[t], b) \in Seq(OpIds)
  <2>1. b \in Batches /\ call[t].synced[b] # <<>>
    BY DEF ToFree
  <2> QED BY <1>1, <2>1, BatchesShrink
<1> QED BY <1>1, <1>3, <1>4

\* A thread outside the library opens a region, or ends one.
LEMMA RegionSteps ==
  ASSUME EventInv, ~StatsOrTrace, NEW t \in Threads, call[t] = Idle,
         begin_region(t) \/ gasnete_end_nbi_accessregion(t)
  PROVE  EventInv'
<1>1. UNCHANGED <<xf, hnd, call>>
  BY DEF begin_region, gasnete_end_nbi_accessregion
<1>2. ArraysKept /\ call' \in [Threads -> CallTypes]
  BY <1>1 DEF ArraysKept, EventInv, EventTypeOK, CallTypes
<1>3. CASE begin_region(t)
  BY <1>2, <1>3, BeginStep DEF begin_region
<1>4. CASE gasnete_end_nbi_accessregion(t)
  BY <1>2, <1>4, PopStep DEF gasnete_end_nbi_accessregion
<1> QED BY <1>3, <1>4

\* A large put or get opens a region of its own.
LEMMA NbRegionStep ==
  ASSUME EventInv, ~StatsOrTrace, NEW t \in Threads, NEW c \in Cats, call[t] = Idle,
         amref_nb_region(t, c)
  PROVE  EventInv'
<1>1. PICK n \in 1..MaxChunks : call' = [call EXCEPT ![t] = [in |-> "nb", cat |-> c, left |-> n]]
  BY DEF amref_nb_region
<1>2. n \in Nat /\ call \in [Threads -> CallTypes]
  BY EventsAssumption DEF EventInv, EventTypeOK, CallTypes
<1>3. [in |-> "nb", cat |-> c, left |-> n] \in CallTypes
  BY <1>2 DEF CallTypes
<1>4. call' \in [Threads -> CallTypes]
  BY <1>1, <1>2, <1>3
<1>5. call'[t].in \notin ArrayStages /\ \A u \in Threads \ {t} : call'[u] = call[u]
  BY <1>1, <1>2 DEF ArrayStages
<1>6. ArraysKept
  BY <1>5, CallFacts, OtherCall DEF EventInv
<1> QED BY <1>4, <1>6, BeginStep DEF amref_nb_region

\* A large put or get ends its region.
LEMMA NbEndStep ==
  ASSUME EventInv, NEW t \in Threads, amref_nb_end(t)
  PROVE  EventInv'
<1>1. call[t].in = "nb" /\ call' = [call EXCEPT ![t] = Idle] /\ UNCHANGED <<free, xf, hnd, regions>>
  BY DEF amref_nb_end
<1>2. call \in [Threads -> CallTypes] /\ Idle \in CallTypes
  BY DEF EventInv, EventTypeOK, CallTypes
<1>3. call' \in [Threads -> CallTypes]
  BY <1>1, <1>2
<1>4. call'[t].in \notin ArrayStages /\ \A u \in Threads \ {t} : call'[u] = call[u]
  BY <1>1, <1>2 DEF ArrayStages, Idle
<1>5. call[t].in \notin ArrayStages
  BY <1>1 DEF ArrayStages
<1>6. ArraysKept
  BY <1>4, <1>5, OtherCall
<1> QED BY <1>1, <1>3, <1>6, PopStep DEF amref_nb_end

\* Every step of the threads and the handlers keeps the invariant.
LEMMA EventStep ==
  ASSUME ~StatsOrTrace, EventInv, [EventNext]_eventVars
  PROVE  EventInv'
<1>1. ASSUME NEW t \in Starters, StartStep(t) PROVE EventInv'
  <2>1. t \in Threads /\ call[t] = Idle
    BY <1>1, EventsAssumption DEF StartStep
  <2>2. CASE begin_region(t) \/ gasnete_end_nbi_accessregion(t)
    BY <2>1, <2>2, RegionSteps
  <2>3. ASSUME NEW c \in Cats, amref_nbi(t, c) PROVE EventInv'
    BY <2>1, <2>3, NbiStep
  <2>4. ASSUME NEW c \in Cats, amref_nb_region(t, c) PROVE EventInv'
    BY <2>1, <2>4, NbRegionStep
  <2>5. ASSUME NEW c \in Cats, amref_nb_eop(t, c) PROVE EventInv'
    BY <2>1, <2>5, EopStep
  <2> QED BY <1>1, <2>2, <2>3, <2>4, <2>5 DEF StartStep
<1>2. ASSUME NEW t \in Threads, SyncStep(t) PROVE EventInv'
  <2>1. call[t] = Idle
    BY <1>2 DEF SyncStep
  <2>2. ASSUME NEW e \in held, gasnete_test_root(t, e) PROVE EventInv'
    BY <2>2, TestRootStep
  <2>3. ASSUME NEW e \in held, gasnete_test_leaf(t, e) PROVE EventInv'
    BY <2>3, TestLeafStep
  <2>4. ASSUME NEW e \in held, NEW c \in Cats, gasnete_Event_QueryLeaf(e, c) PROVE EventInv'
    BY <2>4, QueryLeafStep
  <2>5. CASE gasnete_test_array(t)
    BY <2>1, <2>5, TestArrayStep
  <2> QED BY <1>2, <2>2, <2>3, <2>4, <2>5 DEF SyncStep
<1>3. ASSUME NEW t \in Threads, LibraryStep(t) PROVE EventInv'
  BY <1>3, NbiLoopStep, NbEndStep, Pass1Step, Pass2Step, TestArrayFreeStep, TestArrayReturnStep
     DEF LibraryStep
<1>4. ASSUME NEW p \in Pollers, HandlerStep(p) PROVE EventInv'
  BY <1>4, RephStep, MarkdoneStep, FinishStep DEF HandlerStep
<1>5. ASSUME NEW x \in Xfers, reqh(x) PROVE EventInv'
  BY <1>5, ReqhStep
<1>6. ASSUME UNCHANGED eventVars PROVE EventInv'
  <2> USE DEF EventInv
  <2>1. ArraysKept
    BY <1>6 DEF ArraysKept, eventVars
  <2>2. held' \subseteq OpIds \X Cats
    BY <1>6 DEF EventTypeOK, eventVars
  <2>3. HandsInv'
    BY <1>6, <2>1, HandsFrame DEF IsClosed, eventVars
  <2> HIDE DEF EventInv
  <2> QED BY <1>6, <2>2, <2>3, HeldStep DEF eventVars
<1> QED BY <1>1, <1>2, <1>3, <1>4, <1>5, <1>6 DEF EventNext

(***************************************************************************)
(* What the events keep                                                    *)
(***************************************************************************)
\* In every reachable state the ops are where they should be, the counters
\* balance and the event bits tell the truth (gasnet_event.c; in a build whose
\* recycled iops keep their counters, which is every one without statistics or
\* tracing).
THEOREM EventsInvariant ==
  ASSUME ~StatsOrTrace
  PROVE  EventSpecification => []EventInv
BY EventInitial, EventStep, PTL DEF EventSpecification

\* No client keeps an event of an op that was freed (gasnete_test_array).
THEOREM NoLeafIsLeft ==
  ASSUME ~StatsOrTrace
  PROVE  EventSpecification => []NoLeafLeftBehind
<1>1. EventInv => NoLeafLeftBehind
  BY HeldFacts DEF EventInv, NoLeafLeftBehind
<1> QED BY <1>1, EventsInvariant, PTL

\* gasnete_test_array returns the truth about its array: all were synced, some
\* were.
THEOREM ArrayResults ==
  ASSUME ~StatsOrTrace
  PROVE  EventSpecification => []ArrayResultTrue
<1>1. EventInv => ArrayResultTrue
  <2> SUFFICES ASSUME EventInv, NEW t \in Threads, call[t].in = "bulk"
               PROVE  /\ call[t].all = (\A n \in 1..Len(call[t].arr) : call[t].arr[n] = Invalid)
                      /\ call[t].some = (\E n \in 1..Len(call[t].arr) : call[t].arr[n] = Invalid)
    BY DEF ArrayResultTrue
  <2>1. t \in InArrays
    BY DEF InArrays
  <2>2. call[t] \in ArrayCalls /\ ArrayInv(call[t])
    BY <2>1, Ranges DEF EventInv, ArraysInv
  <2>3. DOMAIN call[t].arr = 1..Len(call[t].arr)
    BY <2>2, CallParts
  <2> QED BY <2>2, <2>3 DEF ArrayInv, Tested
<1> QED BY <1>1, EventsInvariant, PTL

\* Where an op can be, by what it is.
LEMMA Places ==
  ASSUME EventInv, NEW i \in OpIds
  PROVE  /\ \A tl \in OnLists(i) : /\ tl \in Threads \X Lists /\ op[i].type = "free"
                                   /\ op[i].owner = tl[1] /\ i \in Listed(tl[1], tl[2])
         /\ \A t \in OnStacks(i) : t \in Threads /\ IsOpen(i) /\ op[i].owner = t
         /\ \A t \in InCalls(i) : /\ t \in Threads
                                  /\ \/ i \in Synced(t) /\ op[i].type = "pendingfree"
                                     \/ <<i, Root>> \in Passed(t) /\ IsClosed(i)
         /\ \A t \in Threads : i \in Synced(t) \/ <<i, Root>> \in Passed(t) => t \in InCalls(i)
         /\ <<i, Root>> \in held => IsClosed(i)
<1> USE DEF EventInv
<1>0. OpOf(<<i, Root>>) = i /\ <<i, Root>> # Invalid /\ <<i, Root>> \in OpIds \X Cats
  BY Ids DEF OpOf
<1>1. ASSUME NEW tl \in OnLists(i)
      PROVE  /\ tl \in Threads \X Lists /\ op[i].type = "free"
             /\ op[i].owner = tl[1] /\ i \in Listed(tl[1], tl[2])
  BY DEF OnLists, Listed, ListsInv
<1>2. ASSUME NEW t \in OnStacks(i) PROVE t \in Threads /\ IsOpen(i) /\ op[i].owner = t
  <2>1. t \in Threads /\ i \in ToSet(cur[t])
    BY DEF OnStacks
  <2>2. PICK k \in DOMAIN cur[t] : i = cur[t][k]
    BY <2>1 DEF ToSet
  <2> QED BY <2>1, <2>2 DEF StacksInv
<1>3. ASSUME NEW t \in InArrays
      PROVE  t \in InCalls(i) <=> <<i, Root>> \in Passed(t) \/ i \in Synced(t)
  BY <1>0 DEF InCalls, Passed, Synced
<1>4. ASSUME NEW t \in InCalls(i)
      PROVE  /\ t \in Threads
             /\ \/ i \in Synced(t) /\ op[i].type = "pendingfree"
                \/ <<i, Root>> \in Passed(t) /\ IsClosed(i)
  <2>1. t \in InArrays /\ t \in Threads
    BY DEF InCalls, InArrays
  <2>2. CASE i \in Synced(t)
    BY <2>1, <2>2 DEF HandsInv
  <2>3. CASE i \notin Synced(t)
    <3>1. <<i, Root>> \in Passed(t)
      BY <1>3, <2>1, <2>3
    <3> QED BY <1>0, <2>1, <2>3, <3>1 DEF HandsInv
  <2> QED BY <2>2, <2>3
<1>5. \A t \in Threads : i \in Synced(t) \/ <<i, Root>> \in Passed(t) => t \in InCalls(i)
  BY <1>3 DEF Passed, Synced
<1>6. <<i, Root>> \in held => IsClosed(i)
  BY <1>0 DEF HandsInv
<1> QED BY <1>1, <1>2, <1>4, <1>5, <1>6

\* Every op that was ever allocated is in one place.
LEMMA OnePlace ==
  ASSUME EventInv, NEW i \in OpIds
  PROVE  Homes(i, OnLists(i)) = IF op[i].type = "unborn" THEN 0 ELSE 1
<1> USE DEF EventInv
<1> DEFINE L == OnLists(i)
           S == OnStacks(i)
           C == InCalls(i)
           n == IF <<i, Root>> \in held THEN 1 ELSE 0
<1>1. Homes(i, OnLists(i)) = Cardinality(L) + Cardinality(S) + Cardinality(C) + n
  BY DEF Homes
<1>2. /\ op[i].type # "free" => L = {}
      /\ ~IsOpen(i) => S = {}
      /\ op[i].type # "pendingfree" /\ ~IsClosed(i) => C = {}
      /\ ~IsClosed(i) => n = 0
  BY Places
<1>3. Cardinality({}) = 0 /\ \A x : Cardinality({x}) = 1
  BY FS_EmptySet, FS_Singleton
<1>4. /\ IsOpen(i) => op[i].type = "busy" /\ ~IsClosed(i)
      /\ IsClosed(i) => op[i].type = "busy"
      /\ op[i].type = "busy" => IsOpen(i) \/ IsClosed(i)
  BY Ids DEF IsOpen, IsClosed
<1>5. op[i].type \in {"unborn", "free", "pendingfree", "busy"}
  BY OpFacts DEF Types
<1>6. CASE op[i].type = "unborn"
  BY <1>1, <1>2, <1>3, <1>4, <1>6
<1>7. CASE op[i].type = "free"
  <2>1. PICK t \in Threads, l \in Lists : i \in Listed(t, l)
    BY <1>7 DEF ListsInv
  <2>2. <<t, l>> \in L
    BY <2>1 DEF OnLists, Listed
  <2>3. \A tl \in L : tl = <<t, l>>
    <3> SUFFICES ASSUME NEW tl \in L PROVE tl = <<t, l>>
      OBVIOUS
    <3>1. /\ tl \in Threads \X Lists /\ op[i].owner = tl[1] /\ i \in Listed(tl[1], tl[2])
      BY Places
    <3>2. tl[1] = t
      BY <2>2, <3>1, Places
    <3>3. tl[2] = l
      BY <2>1, <3>1, <3>2 DEF ListsInv
    <3> QED BY <3>1, <3>2, <3>3
  <2>4. L = {<<t, l>>}
    BY <2>2, <2>3
  <2>5. ~IsOpen(i) /\ ~IsClosed(i)
    BY <1>4, <1>7
  <2>6. S = {} /\ C = {} /\ n = 0
    BY <1>2, <1>7, <2>5
  <2>7. Cardinality(L) = 1
    BY <1>3, <2>4
  <2> QED BY <1>1, <1>3, <1>7, <2>6, <2>7
<1>8. CASE op[i].type = "pendingfree"
  <2>1. PICK t \in Threads : i \in Synced(t)
    BY <1>8 DEF HandsInv
  <2>2. t \in C
    BY <2>1, Places
  <2>3. \A u \in C : u = t
    <3> SUFFICES ASSUME NEW u \in C PROVE u = t
      OBVIOUS
    <3>1. u \in Threads /\ i \in Synced(u)
      BY <1>4, <1>8, Places
    <3> QED BY <2>1, <3>1 DEF HandsInv
  <2>4. C = {t}
    BY <2>2, <2>3
  <2>5. ~IsOpen(i) /\ ~IsClosed(i)
    BY <1>4, <1>8
  <2>6. S = {} /\ L = {} /\ n = 0
    BY <1>2, <1>8, <2>5
  <2>7. Cardinality(C) = 1
    BY <1>3, <2>4
  <2> QED BY <1>1, <1>3, <1>8, <2>6, <2>7
<1>9. CASE IsOpen(i)
  <2>1. i \in Iops
    BY <1>9 DEF IsOpen
  <2>2. PICK t \in Threads : i \in Stacked(t)
    BY <1>9, <2>1 DEF StacksInv
  <2>3. t \in S
    BY <2>2 DEF OnStacks, Stacked
  <2>4. \A u \in S : u = t
    BY <2>3, Places
  <2>5. S = {t}
    BY <2>3, <2>4
  <2>6. C = {} /\ L = {} /\ n = 0 /\ op[i].type # "unborn"
    <3>1. ~IsClosed(i) /\ op[i].type = "busy"
      BY <1>4, <1>9
    <3> QED BY <1>2, <3>1
  <2>7. Cardinality(S) = 1
    BY <1>3, <2>5
  <2> QED BY <1>1, <1>3, <2>6, <2>7
<1>10. CASE IsClosed(i) /\ <<i, Root>> \in held
  <2>1. C = {}
    <3> SUFFICES ASSUME NEW t \in C PROVE FALSE
      OBVIOUS
    <3>1. t \in Threads /\ <<i, Root>> \in Passed(t)
      BY <1>4, <1>10, Places
    <3> QED BY <1>10, <3>1 DEF HandsInv
  <2>2. S = {} /\ L = {} /\ n = 1 /\ op[i].type # "unborn"
    <3>1. ~IsOpen(i) /\ op[i].type = "busy"
      BY <1>4, <1>10
    <3> QED BY <1>2, <1>10, <3>1
  <2> QED BY <1>1, <1>3, <2>1, <2>2
<1>11. CASE IsClosed(i) /\ <<i, Root>> \notin held
  <2>1. PICK t \in Threads : <<i, Root>> \in Passed(t)
    BY <1>11 DEF HandsInv
  <2>2. t \in C
    BY <2>1, Places
  <2>3. \A u \in C : u = t
    <3> SUFFICES ASSUME NEW u \in C PROVE u = t
      OBVIOUS
    <3>1. u \in Threads /\ <<i, Root>> \in Passed(u)
      BY <1>4, <1>11, Places
    <3> QED BY <2>1, <3>1 DEF HandsInv
  <2>4. C = {t}
    BY <2>2, <2>3
  <2>5. S = {} /\ L = {} /\ n = 0 /\ op[i].type # "unborn"
    <3>1. ~IsOpen(i) /\ op[i].type = "busy"
      BY <1>4, <1>11
    <3> QED BY <1>2, <1>11, <3>1
  <2>6. Cardinality(C) = 1
    BY <1>3, <2>4
  <2> QED BY <1>1, <1>3, <2>5, <2>6
<1> QED BY <1>4, <1>5, <1>6, <1>7, <1>8, <1>9, <1>10, <1>11

\* Nothing is on its way to an op that is free or about to be.
LEMMA NothingPending ==
  ASSUME EventInv, NEW i \in OpIds, op[i].type \in {"free", "pendingfree"}, NEW x \in Xfers
  PROVE  xf[x].op # i
<1> USE DEF EventInv
<1> SUFFICES ASSUME xf[x].op = i PROVE FALSE
  OBVIOUS
<1>1. CASE i \in Eops
  BY <1>1 DEF TransfersInv
<1>2. CASE i \notin Eops
  <2> DEFINE c == xf[x].cat
  <2>1. i \in Iops /\ c \in Cats
    BY <1>2, Ids, XfFacts
  <2>2. op[i].live = {} /\ op[i].next = "self"
    BY <2>1 DEF BitsInv
  <2>3. op[i].ini[c] = op[i].com[c]
    BY <2>1, <2>2 DEF BitsInv
  <2>4. op[i].ini[c] = op[i].com[c] + Cardinality(Pending(i, c))
                         + (IF op[i].next = "parent" THEN 1 ELSE 0)
    BY <2>1 DEF CountersInv
  <2>5. x \in Pending(i, c)
    BY DEF Pending
  <2>6. Cardinality(Pending(i, c)) >= 1 /\ Cardinality(Pending(i, c)) \in Nat
    BY <2>1, <2>5, PendingLess, PendingFinite
  <2>7. op[i].ini[c] \in Nat /\ op[i].com[c] \in Nat
    BY <2>1, OpFacts
  <2> HIDE DEF c
  <2> QED BY <2>2, <2>3, <2>4, <2>6, <2>7
<1> QED BY <1>1, <1>2

\* Every op is in one place: a free list of the thread that owns it, that
\* thread's stack of iops, the client's hands or one array call; a free one has
\* no live event, no transfer on its way and no handler about to mark it
\* (gasnete_eop_free, gasnete_iop_free, gasnete_test_array, foreign_lock).
THEOREM OpsHaveOneHome ==
  ASSUME ~StatsOrTrace
  PROVE  EventSpecification => []OneHome
<1>1. EventInv => OneHome
  <2> SUFFICES ASSUME EventInv, NEW i \in OpIds
               PROVE  /\ Homes(i, OnLists(i)) = IF op[i].type = "unborn" THEN 0 ELSE 1
                      /\ \A tl \in OnLists(i) :
                           /\ tl[1] = op[i].owner /\ IsInjective(free[tl[1]][tl[2]])
                           /\ op[i].type = "free" /\ op[i].live = {}
                           /\ InFlight(i) = {} /\ Marking(i) = {}
    BY DEF OneHome
  <2>1. ASSUME NEW tl \in OnLists(i)
        PROVE  /\ tl[1] = op[i].owner /\ IsInjective(free[tl[1]][tl[2]])
               /\ op[i].type = "free" /\ op[i].live = {}
               /\ InFlight(i) = {} /\ Marking(i) = {}
    <3>1. /\ tl[1] \in Threads /\ tl[2] \in Lists /\ op[i].type = "free" /\ op[i].owner = tl[1]
      BY Places
    <3>2. IsInjective(free[tl[1]][tl[2]])
      BY <3>1 DEF EventInv, ListsInv
    <3>3. op[i].live = {}
      BY <3>1 DEF EventInv, BitsInv
    <3>4. \A x \in Xfers : xf[x].op # i
      BY <3>1, NothingPending
    <3>5. Marking(i) = {}
      <4>1. \A p \in Pollers : hnd[p].in = "mark" => hnd[p].x \in Xfers
        BY HandlerFacts DEF EventInv
      <4> QED BY <3>4, <4>1 DEF Marking
    <3> QED BY <3>1, <3>2, <3>3, <3>4, <3>5 DEF InFlight
  <2> QED BY <2>1, OnePlace
<1> QED BY <1>1, EventsInvariant, PTL

-----------------------------------------------------------------------------
(***************************************************************************)
(* The events implement EventSpec                                          *)
(***************************************************************************)
(* What the refinement mapping makes of the state: the phase of an op and    *)
(* the events it has fired, and the tokens of the transfers on their way.    *)
FiredOf(i) == IF EventPhase(i) = "closed" THEN Cats \ op[i].live ELSE {}
OnTheWay(x) == Underway(x) /\ ~Landed(x)
OwedMap == {<<xf[x].op, EventOf(x), x>> : x \in {y \in Xfers : Underway(y) /\ ~Landed(y)}}

(* how a step changes each of the three *)
PhaseSet(i, s) == \A j \in OpIds : EventPhase(j)' = IF j = i THEN s ELSE EventPhase(j)
FiredSet(i, S) == \A j \in OpIds : FiredOf(j)' = IF j = i THEN S ELSE FiredOf(j)
PhasesKept == \A j \in OpIds : EventPhase(j)' = EventPhase(j)
FiredKept == \A j \in OpIds : FiredOf(j)' = FiredOf(j)
XferKept(x) ==
  /\ OnTheWay(x)' <=> OnTheWay(x)
  /\ OnTheWay(x) => xf'[x].op = xf[x].op /\ EventOf(x)' = EventOf(x)

MappedStep == Abstract!Next \/ UNCHANGED Abstract!vars

\* A step that changes none of the three is a stutter.
LEMMA MapsToStutter ==
  ASSUME PhasesKept, FiredKept, OwedMap' = OwedMap
  PROVE  MappedStep
<1>1. [i \in OpIds |-> EventPhase(i)]' = [i \in OpIds |-> EventPhase(i)]
  BY DEF PhasesKept
<1>2. [i \in OpIds |-> IF EventPhase(i) = "closed" THEN Cats \ op[i].live ELSE {}]'
        = [i \in OpIds |-> IF EventPhase(i) = "closed" THEN Cats \ op[i].live ELSE {}]
  BY DEF FiredKept, FiredOf
<1> QED BY <1>1, <1>2 DEF MappedStep, Abstract!vars, OwedMap

\* EventSpec's Open.
LEMMA MapsToOpen ==
  ASSUME NEW i \in OpIds, EventPhase(i) = "idle", PhaseSet(i, "open"), FiredKept,
         OwedMap' = OwedMap
  PROVE  MappedStep
<1>1. [j \in OpIds |-> EventPhase(j)]' = [[j \in OpIds |-> EventPhase(j)] EXCEPT ![i] = "open"]
  BY DEF PhaseSet
<1>2. [j \in OpIds |-> IF EventPhase(j) = "closed" THEN Cats \ op[j].live ELSE {}]'
        = [j \in OpIds |-> IF EventPhase(j) = "closed" THEN Cats \ op[j].live ELSE {}]
  BY DEF FiredKept, FiredOf
<1>3. Abstract!Open(i)
  BY <1>1, <1>2 DEF Abstract!Open, OwedMap
<1> QED BY <1>3 DEF MappedStep, Abstract!Next

\* EventSpec's Single, of an op of one transfer.
LEMMA MapsToSingle ==
  ASSUME NEW i \in OpIds, NEW c \in Cats, NEW x \in Xfers,
         EventPhase(i) = "idle", PhaseSet(i, "closed"), FiredSet(i, Cats \ {c}),
         OwedMap' = OwedMap \union {<<i, c, x>>}
  PROVE  MappedStep
<1>1. [j \in OpIds |-> EventPhase(j)]' = [[j \in OpIds |-> EventPhase(j)] EXCEPT ![i] = "closed"]
  BY DEF PhaseSet
<1>2. [j \in OpIds |-> IF EventPhase(j) = "closed" THEN Cats \ op[j].live ELSE {}]'
        = [[j \in OpIds |-> IF EventPhase(j) = "closed" THEN Cats \ op[j].live ELSE {}]
             EXCEPT ![i] = Cats \ {c}]
  BY DEF FiredSet, FiredOf
<1>3. Abstract!Single(i)
  BY <1>1, <1>2 DEF Abstract!Single, OwedMap
<1> QED BY <1>3 DEF MappedStep, Abstract!Next

\* EventSpec's Issue.
LEMMA MapsToIssue ==
  ASSUME NEW i \in OpIds, NEW c \in Cats, NEW x \in Xfers,
         EventPhase(i) = "open", PhasesKept, FiredKept,
         OwedMap' = OwedMap \union {<<i, c, x>>}
  PROVE  MappedStep
<1>1. [j \in OpIds |-> EventPhase(j)]' = [j \in OpIds |-> EventPhase(j)]
  BY DEF PhasesKept
<1>2. [j \in OpIds |-> IF EventPhase(j) = "closed" THEN Cats \ op[j].live ELSE {}]'
        = [j \in OpIds |-> IF EventPhase(j) = "closed" THEN Cats \ op[j].live ELSE {}]
  BY DEF FiredKept, FiredOf
<1>3. Abstract!Issue(i)
  BY <1>1, <1>2 DEF Abstract!Issue, OwedMap
<1> QED BY <1>3 DEF MappedStep, Abstract!Next

\* EventSpec's Land.
LEMMA MapsToLand ==
  ASSUME NEW y \in OwedMap, PhasesKept, FiredKept, OwedMap' = OwedMap \ {y}
  PROVE  MappedStep
<1>1. [j \in OpIds |-> EventPhase(j)]' = [j \in OpIds |-> EventPhase(j)]
  BY DEF PhasesKept
<1>2. [j \in OpIds |-> IF EventPhase(j) = "closed" THEN Cats \ op[j].live ELSE {}]'
        = [j \in OpIds |-> IF EventPhase(j) = "closed" THEN Cats \ op[j].live ELSE {}]
  BY DEF FiredKept, FiredOf
<1>3. Abstract!Land(y)
  BY <1>1, <1>2 DEF Abstract!Land, OwedMap
<1> QED BY <1>3 DEF MappedStep, Abstract!Next, OwedMap

\* Nothing of op i is on its way for event c.
NotOwed(i, c) == \A x \in Xfers : OnTheWay(x) => ~(xf[x].op = i /\ EventOf(x) = c)

\* What is not on its way is not owed.
LEMMA OwesNothing ==
  ASSUME NEW i \in OpIds, NEW c \in Cats, NotOwed(i, c)
  PROVE  ~Abstract!Owes(i, c)
BY DEF Abstract!Owes, NotOwed, OnTheWay

\* EventSpec's Close.
LEMMA MapsToClose ==
  ASSUME NEW i \in OpIds, NEW C \in SUBSET Cats,
         EventPhase(i) = "open", PhaseSet(i, "closed"), FiredSet(i, C), OwedMap' = OwedMap,
         \A c \in C : NotOwed(i, c)
  PROVE  MappedStep
<1>1. [j \in OpIds |-> EventPhase(j)]' = [[j \in OpIds |-> EventPhase(j)] EXCEPT ![i] = "closed"]
  BY DEF PhaseSet
<1>2. [j \in OpIds |-> IF EventPhase(j) = "closed" THEN Cats \ op[j].live ELSE {}]'
        = [[j \in OpIds |-> IF EventPhase(j) = "closed" THEN Cats \ op[j].live ELSE {}]
             EXCEPT ![i] = C]
  BY DEF FiredSet, FiredOf
<1>3. C \in SUBSET {c \in Cats : ~Abstract!Owes(i, c)}
  BY OwesNothing
<1>4. Abstract!Close(i)
  BY <1>1, <1>2, <1>3 DEF Abstract!Close, OwedMap
<1> QED BY <1>4 DEF MappedStep, Abstract!Next

\* EventSpec's Fire.
LEMMA MapsToFire ==
  ASSUME NEW i \in OpIds, NEW c \in Cats,
         EventPhase(i) = "closed", PhasesKept, c \in op[i].live, NotOwed(i, c),
         FiredSet(i, FiredOf(i) \union {c}), OwedMap' = OwedMap
  PROVE  MappedStep
<1>1. [j \in OpIds |-> EventPhase(j)]' = [j \in OpIds |-> EventPhase(j)]
  BY DEF PhasesKept
<1>2. [j \in OpIds |-> IF EventPhase(j) = "closed" THEN Cats \ op[j].live ELSE {}]'
        = [[j \in OpIds |-> IF EventPhase(j) = "closed" THEN Cats \ op[j].live ELSE {}]
             EXCEPT ![i] = @ \union {c}]
  BY DEF FiredSet, FiredOf
<1>3. Abstract!Fire(i, c)
  BY <1>1, <1>2, OwesNothing DEF Abstract!Fire, OwedMap
<1> QED BY <1>3 DEF MappedStep, Abstract!Next

\* EventSpec's Retire.
LEMMA MapsToRetire ==
  ASSUME NEW i \in OpIds, EventPhase(i) = "closed", op[i].live = {},
         PhaseSet(i, "idle"), FiredSet(i, {}), OwedMap' = OwedMap
  PROVE  MappedStep
<1>1. [j \in OpIds |-> EventPhase(j)]' = [[j \in OpIds |-> EventPhase(j)] EXCEPT ![i] = "idle"]
  BY DEF PhaseSet
<1>2. [j \in OpIds |-> IF EventPhase(j) = "closed" THEN Cats \ op[j].live ELSE {}]'
        = [[j \in OpIds |-> IF EventPhase(j) = "closed" THEN Cats \ op[j].live ELSE {}]
             EXCEPT ![i] = {}]
  BY DEF FiredSet, FiredOf
<1>3. Abstract!Retire(i)
  BY <1>1, <1>2 DEF Abstract!Retire, OwedMap
<1> QED BY <1>3 DEF MappedStep, Abstract!Next

\* Transfers none of which moves.
LEMMA SameOwed ==
  ASSUME \A x \in Xfers : XferKept(x)
  PROVE  OwedMap' = OwedMap
BY DEF OwedMap, XferKept, OnTheWay

\* A transfer set out.
LEMMA OneMoreOwed ==
  ASSUME NEW x \in Xfers, NEW i, NEW c, ~OnTheWay(x), OnTheWay(x)', xf'[x].op = i, EventOf(x)' = c,
         \A y \in Xfers \ {x} : XferKept(y)
  PROVE  OwedMap' = OwedMap \union {<<i, c, x>>}
BY DEF OwedMap, XferKept, OnTheWay

\* A transfer arrived.
LEMMA OneLessOwed ==
  ASSUME NEW x \in Xfers, OnTheWay(x), ~OnTheWay(x)',
         \A y \in Xfers \ {x} : XferKept(y)
  PROVE  /\ <<xf[x].op, EventOf(x), x>> \in OwedMap
         /\ OwedMap' = OwedMap \ {<<xf[x].op, EventOf(x), x>>}
BY DEF OwedMap, XferKept, OnTheWay

\* Transfers that stay what they are.
LEMMA QuietTransfers ==
  ASSUME xf' = xf
  PROVE  OwedMap' = OwedMap
<1>1. \A x \in Xfers : XferKept(x)
  BY DEF XferKept, OnTheWay, EventOf, Underway, Landed
<1> QED BY <1>1, SameOwed

\* Ops whose type, next pointer and event bits do not change.
LEMMA QuietOps ==
  ASSUME \A j \in OpIds : /\ op'[j].type = op[j].type /\ op'[j].next = op[j].next
                          /\ op'[j].live = op[j].live
  PROVE  PhasesKept /\ FiredKept
BY DEF PhasesKept, FiredKept, FiredOf, EventPhase

-----------------------------------------------------------------------------
(* Each action, mapped.                                                      *)

\* A put's data lands when the request is handled; a get's goes on with the
\* reply (gasnete_amref_put_reqh_inner, gasnete_amref_get_reqh_inner).
LEMMA ReqhMaps ==
  ASSUME EventInv, NEW x \in Xfers, reqh(x)
  PROVE  MappedStep
<1>1. /\ xf[x].st = "request" /\ xf'[x].st = "reply"
      /\ xf'[x].op = xf[x].op /\ xf'[x].cat = xf[x].cat
      /\ \A y \in Xfers \ {x} : xf'[y] = xf[y]
      /\ op' = op
  BY DEF reqh, EventInv, EventTypeOK
<1>2. PhasesKept /\ FiredKept
  BY <1>1, QuietOps
<1>3. \A y \in Xfers \ {x} : XferKept(y)
  BY <1>1 DEF XferKept, OnTheWay, EventOf, Underway, Landed
<1>4. CASE xf[x].cat = Root
  <2>1. OnTheWay(x) /\ ~OnTheWay(x)'
    BY <1>1, <1>4 DEF OnTheWay, Underway, Landed
  <2> QED BY <1>2, <1>3, <2>1, OneLessOwed, MapsToLand
<1>5. CASE xf[x].cat # Root
  <2>1. XferKept(x)
    BY <1>1, <1>5 DEF XferKept, OnTheWay, EventOf, Underway, Landed
  <2> QED BY <1>2, <1>3, <2>1, SameOwed, MapsToStutter
<1> QED BY <1>4, <1>5

\* The reply handler copies a get's data.
LEMMA RephMaps ==
  ASSUME EventInv, NEW p \in Pollers, NEW x \in Xfers, reph(p, x)
  PROVE  MappedStep
<1>1. /\ xf[x].st = "reply" /\ xf'[x].st = "done"
      /\ xf'[x].op = xf[x].op /\ xf'[x].cat = xf[x].cat
      /\ \A y \in Xfers \ {x} : xf'[y] = xf[y]
      /\ op' = op
  BY DEF reph, EventInv, EventTypeOK
<1>2. PhasesKept /\ FiredKept
  BY <1>1, QuietOps
<1>3. \A y \in Xfers \ {x} : XferKept(y)
  BY <1>1 DEF XferKept, OnTheWay, EventOf, Underway, Landed
<1>4. CASE xf[x].cat # Root
  <2>1. OnTheWay(x) /\ ~OnTheWay(x)'
    BY <1>1, <1>4 DEF OnTheWay, Underway, Landed
  <2> QED BY <1>2, <1>3, <2>1, OneLessOwed, MapsToLand
<1>5. CASE xf[x].cat = Root
  <2>1. XferKept(x)
    BY <1>1, <1>5 DEF XferKept, OnTheWay, EventOf, Underway, Landed
  <2> QED BY <1>2, <1>3, <2>1, SameOwed, MapsToStutter
<1> QED BY <1>4, <1>5

\* gasnete_op_markdone fires the event of an eop; of an iop it only counts.
LEMMA MarkdoneMaps ==
  ASSUME EventInv, NEW p \in Pollers, markdone(p)
  PROVE  MappedStep
<1>0. PICK x \in Xfers, i \in OpIds, c \in Cats :
        /\ x = hnd[p].x /\ i = xf[x].op /\ c = xf[x].cat
        /\ hnd[p].in = "mark" /\ xf[x].st = "done"
        /\ i \in Eops => /\ op[i].type = "busy" /\ op[i].live = {Root}
                         /\ \A y \in Xfers \ {x} : xf[y].op # i
  <2>1. /\ hnd[p].in = "mark" /\ hnd[p].x \in Xfers /\ xf[hnd[p].x].st = "done"
        /\ xf[hnd[p].x].op \in OpIds /\ xf[hnd[p].x].cat \in Cats
        /\ xf[hnd[p].x].op \in Eops =>
             /\ op[xf[hnd[p].x].op].type = "busy" /\ op[xf[hnd[p].x].op].live = {Root}
             /\ \A y \in Xfers \ {hnd[p].x} : xf[y].op # xf[hnd[p].x].op
    BY HandlerFacts, XfFacts DEF markdone, TransfersInv, EventInv
  <2> QED BY <2>1
<1>1. /\ i \in OpIds /\ c \in Cats /\ xf[x].st = "done"
      /\ i \in Eops => /\ op[i].type = "busy" /\ op[i].live = {Root}
                       /\ \A y \in Xfers \ {x} : xf[y].op # i
  BY <1>0
<1>2. /\ op' = IF i \in Eops THEN [op EXCEPT ![i].live = {}]
              ELSE [op EXCEPT ![i].com[c] = @ + 1]
      /\ xf' = [xf EXCEPT ![x] = Gone]
  BY <1>0 DEF markdone
<1>3. op[i] \in OpRecords
  BY <1>1, OpFacts DEF EventInv
<1>4. \A j \in OpIds \ {i} : op'[j] = op[j]
  BY <1>2 DEF EventInv, EventTypeOK
<1>5. OwedMap' = OwedMap
  <2>1. xf'[x].st = "done" /\ \A y \in Xfers \ {x} : xf'[y] = xf[y]
    BY <1>1, <1>2 DEF EventInv, EventTypeOK, Gone
  <2>2. \A y \in Xfers : XferKept(y)
    BY <1>1, <2>1 DEF XferKept, OnTheWay, EventOf, Underway, Landed
  <2> QED BY <2>2, SameOwed
<1>6. CASE i \in Eops
  <2>1. op'[i] = [op[i] EXCEPT !.live = {}]
    BY <1>1, <1>2, <1>6 DEF EventInv, EventTypeOK
  <2>2. op'[i].type = op[i].type /\ op'[i].next = op[i].next /\ op'[i].live = {}
    BY <1>3, <2>1 DEF OpRecords
  <2>3. EventPhase(i) = "closed" /\ EventPhase(i)' = "closed"
    BY <1>1, <1>6, <2>2 DEF EventPhase
  <2>4. PhasesKept /\ FiredSet(i, FiredOf(i) \union {Root})
    <3>1. FiredOf(i) = Cats \ {Root} /\ FiredOf(i)' = Cats
      BY <1>1, <1>6, <2>2, <2>3 DEF FiredOf
    <3>2. FiredOf(i)' = FiredOf(i) \union {Root}
      BY <3>1, Ids
    <3>3. \A j \in OpIds \ {i} : EventPhase(j)' = EventPhase(j) /\ FiredOf(j)' = FiredOf(j)
      BY <1>4 DEF EventPhase, FiredOf
    <3> QED BY <2>3, <3>2, <3>3 DEF PhasesKept, FiredSet
  <2>5. NotOwed(i, Root)
    BY <1>1, <1>6 DEF NotOwed, OnTheWay, Underway
  <2> QED BY <1>1, <1>5, <1>6, <2>3, <2>4, <2>5, Ids, MapsToFire
<1>7. CASE i \notin Eops
  <2>1. op'[i] = [op[i] EXCEPT !.com[c] = @ + 1]
    <3>1. op' = [op EXCEPT ![i].com[c] = @ + 1]
      BY <1>2, <1>7
    <3> QED BY <1>1, <3>1 DEF EventInv, EventTypeOK
  <2>2. op'[i].type = op[i].type /\ op'[i].next = op[i].next /\ op'[i].live = op[i].live
    BY <1>3, <2>1 DEF OpRecords
  <2> QED BY <1>4, <1>5, <2>2, QuietOps, MapsToStutter
<1> QED BY <1>6, <1>7

\* When an op's counters of a category meet, nothing of that category is on its
\* way.
LEMMA CountersTell ==
  ASSUME EventInv, NEW i \in Iops, NEW c \in Cats, op[i].ini[c] <= op[i].com[c]
  PROVE  op[i].next # "parent" /\ NotOwed(i, c)
<1> USE DEF EventInv
<1>1. i \in OpIds /\ i \notin Eops
  BY Ids
<1>2. op[i].ini[c] = op[i].com[c] + Cardinality(Pending(i, c))
                       + (IF op[i].next = "parent" THEN 1 ELSE 0)
  BY DEF CountersInv
<1>3. op[i].ini[c] \in Nat /\ op[i].com[c] \in Nat /\ Cardinality(Pending(i, c)) \in Nat
  BY <1>1, OpFacts, PendingFinite
<1>4. op[i].next # "parent" /\ Cardinality(Pending(i, c)) = 0
  BY <1>2, <1>3
<1>5. \A x \in Pending(i, c) : FALSE
  <2> SUFFICES ASSUME NEW x \in Pending(i, c) PROVE FALSE
    OBVIOUS
  <2>1. Cardinality(Pending(i, c)) >= 1
    BY PendingLess
  <2> QED BY <1>4, <2>1
<1>6. NotOwed(i, c)
  BY <1>1, <1>5 DEF NotOwed, EventOf, Pending
<1> QED BY <1>4, <1>6

\* The comparison after the count fires the event of an iop that was closed; of
\* one still open it changes nothing, as the offset keeps its counters apart.
LEMMA FinishMaps ==
  ASSUME EventInv, NEW p \in Pollers, finish_compare(p)
  PROVE  MappedStep
<1>1. PICK i \in Iops, c \in Cats, n \in Nat :
        /\ i = hnd[p].op /\ c = hnd[p].cat /\ n = hnd[p].com
        /\ i \in OpIds /\ i \notin Eops /\ n <= op[i].com[c]
  <2>1. /\ hnd[p].in = "compare" /\ hnd[p].op \in Iops /\ hnd[p].op \in OpIds
        /\ hnd[p].op \notin Eops /\ hnd[p].cat \in Cats /\ hnd[p].com \in Nat
        /\ hnd[p].com <= op[hnd[p].op].com[hnd[p].cat]
    BY HandlerFacts, Ids DEF finish_compare, TransfersInv, EventInv
  <2> QED BY <2>1
<1>2. /\ op' = op \/ (n = op[i].ini[c] /\ op' = [op EXCEPT ![i].live = @ \ {c}])
      /\ xf' = xf
  BY <1>1 DEF finish_compare, CountersMeet
<1>3. op[i] \in OpRecords
  BY <1>1, OpFacts DEF EventInv
<1>4. OwedMap' = OwedMap
  BY <1>2, QuietTransfers
<1>5. CASE op' = op
  BY <1>4, <1>5, QuietOps, MapsToStutter
<1>6. CASE n = op[i].ini[c] /\ op' = [op EXCEPT ![i].live = @ \ {c}]
  <2>1. /\ op'[i] = [op[i] EXCEPT !.live = op[i].live \ {c}]
        /\ \A j \in OpIds \ {i} : op'[j] = op[j]
    BY <1>1, <1>6 DEF EventInv, EventTypeOK
  <2>2. op'[i].type = op[i].type /\ op'[i].next = op[i].next /\ op'[i].live = op[i].live \ {c}
    BY <1>3, <2>1 DEF OpRecords
  <2>3. PhasesKept
    BY <2>1, <2>2 DEF PhasesKept, EventPhase
  <2>4. \A j \in OpIds \ {i} : FiredOf(j)' = FiredOf(j)
    BY <2>1 DEF FiredOf, EventPhase
  <2>5. NotOwed(i, c)
    BY <1>1, <1>6, CountersTell
  <2>6. CASE EventPhase(i) = "closed" /\ c \in op[i].live
    <3>1. FiredOf(i) = Cats \ op[i].live /\ FiredOf(i)' = Cats \ (op[i].live \ {c})
      BY <1>1, <2>2, <2>3, <2>6 DEF FiredOf, PhasesKept
    <3>2. FiredOf(i)' = FiredOf(i) \union {c}
      BY <1>1, <3>1
    <3>3. FiredSet(i, FiredOf(i) \union {c})
      BY <2>4, <3>2 DEF FiredSet
    <3> QED BY <1>1, <1>4, <2>3, <2>5, <2>6, <3>3, MapsToFire
  <2>7. CASE EventPhase(i) # "closed" \/ c \notin op[i].live
    <3>1. FiredOf(i)' = FiredOf(i)
      BY <1>1, <2>2, <2>3, <2>7 DEF FiredOf, PhasesKept
    <3> QED BY <1>4, <2>3, <2>4, <3>1, MapsToStutter DEF FiredKept
  <2> QED BY <2>6, <2>7
<1> QED BY <1>2, <1>5, <1>6

\* A message of an open iop sets out.
LEMMA ChunkMaps ==
  ASSUME EventInv, NEW t \in Threads, NEW c \in Cats, Chunk(t, c)
  PROVE  MappedStep
<1> DEFINE i == Head(cur[t])
<1>1. /\ i \in Iops /\ i \in OpIds /\ i \notin Eops /\ op[i].type = "busy" /\ op[i].next # "self"
  BY TopFacts DEF EventInv
<1>2. PICK x \in Xfers : Request(x, i, c)
  BY DEF Chunk
<1>3. op' = [op EXCEPT ![i].ini[c] = @ + 1]
  BY DEF Chunk
<1> HIDE DEF i
<1>4. /\ xf[x].op = 0 /\ xf[x].st = "none"
      /\ xf'[x].op = i /\ xf'[x].cat = c /\ xf'[x].st = "request"
      /\ \A y \in Xfers \ {x} : xf'[y] = xf[y]
  BY <1>1, <1>2, RequestFacts
<1>5. op[i] \in OpRecords
  BY <1>1, OpFacts DEF EventInv
<1>6. /\ \A j \in OpIds \ {i} : op'[j] = op[j]
      /\ op'[i] = [op[i] EXCEPT !.ini[c] = @ + 1]
  BY <1>1, <1>3 DEF EventInv, EventTypeOK
<1>7. op'[i].type = op[i].type /\ op'[i].next = op[i].next /\ op'[i].live = op[i].live
  BY <1>5, <1>6 DEF OpRecords
<1>8. PhasesKept /\ FiredKept /\ EventPhase(i) = "open"
  BY <1>1, <1>6, <1>7, QuietOps DEF EventPhase
<1>9. OwedMap' = OwedMap \union {<<i, c, x>>}
  <2>1. ~OnTheWay(x) /\ OnTheWay(x)' /\ EventOf(x)' = c
    BY <1>1, <1>4 DEF OnTheWay, Underway, Landed, EventOf
  <2>2. \A y \in Xfers \ {x} : XferKept(y)
    BY <1>4 DEF XferKept, OnTheWay, EventOf, Underway, Landed
  <2> QED BY <1>4, <2>1, <2>2, OneMoreOwed
<1> QED BY <1>1, <1>8, <1>9, MapsToIssue

\* An op found complete leaves the client's hands.
LEMMA RetireMaps ==
  ASSUME EventInv, NEW i \in OpIds, IsClosed(i), op[i].live = {}, NEW ty \in {"free", "pendingfree"},
         op' = [op EXCEPT ![i].type = ty], xf' = xf
  PROVE  MappedStep
<1>1. op[i] \in OpRecords
  BY OpFacts DEF EventInv
<1>2. /\ op'[i] = [op[i] EXCEPT !.type = ty]
      /\ \A j \in OpIds \ {i} : op'[j] = op[j]
  BY DEF EventInv, EventTypeOK
<1>3. op'[i].type = ty
  BY <1>1, <1>2 DEF OpRecords
<1>4. EventPhase(i) = "closed" /\ EventPhase(i)' = "idle" /\ FiredOf(i)' = {}
  BY <1>3 DEF EventPhase, IsClosed, FiredOf
<1>5. \A j \in OpIds \ {i} : EventPhase(j)' = EventPhase(j) /\ FiredOf(j)' = FiredOf(j)
  BY <1>2 DEF EventPhase, FiredOf
<1>6. PhaseSet(i, "idle") /\ FiredSet(i, {})
  BY <1>4, <1>5 DEF PhaseSet, FiredSet
<1> QED BY <1>4, <1>6, QuietTransfers, MapsToRetire

\* An iop made current is an operation opened (gasnete_aop_create).
LEMMA PushMaps ==
  ASSUME EventInv, NEW t \in Threads, NEW i \in Iops, NEW o \in OpRecords,
         op[i].type \in {"free", "unborn"}, o.type = "busy",
         op' = [op EXCEPT ![i] = Armed(o)], xf' = xf
  PROVE  MappedStep
<1>1. i \in OpIds /\ i \notin Eops
  BY Ids
<1>2. op'[i] = Armed(o) /\ \A j \in OpIds \ {i} : op'[j] = op[j]
  BY <1>1 DEF EventInv, EventTypeOK
<1>3. op'[i].type = "busy" /\ op'[i].next = "parent"
  <2> DEFINE n == [c \in Cats |-> o.ini[c] + 1]
  <2>1. op'[i] = [o EXCEPT !.live = Cats, !.ini = n, !.next = "parent"]
    BY <1>2 DEF Armed
  <2> HIDE DEF n
  <2> QED BY <2>1 DEF OpRecords
<1>4. /\ EventPhase(i) = "idle" /\ EventPhase(i)' = "open"
      /\ FiredOf(i)' = FiredOf(i)
  BY <1>1, <1>3 DEF EventPhase, FiredOf
<1>5. \A j \in OpIds \ {i} : EventPhase(j)' = EventPhase(j) /\ FiredOf(j)' = FiredOf(j)
  BY <1>2 DEF EventPhase, FiredOf
<1>6. PhaseSet(i, "open") /\ FiredKept
  BY <1>4, <1>5 DEF PhaseSet, FiredKept
<1> QED BY <1>1, <1>4, <1>6, QuietTransfers, MapsToOpen

\* Both ways to come by an iop for a region.
LEMMA BeginMaps ==
  ASSUME EventInv, NEW t \in Threads, gasnete_begin_nbi_accessregion(t), xf' = xf
  PROVE  MappedStep
<1> DEFINE list == Available(t, "iop")
<1>1. CASE list # <<>> /\ PushAop(t, Head(list), Reused(op[Head(list)]), TakeFrom(t, "iop", list))
  <2> SUFFICES ASSUME NEW i, i = Head(list), NEW o, o = Reused(op[i]) PROVE MappedStep
    OBVIOUS
  <2>1. i \in OpIds /\ op[i].type = "free" /\ i \in Iops
    BY <1>1, TakenOp, Ids DEF EventInv
  <2>2. op' = [op EXCEPT ![i] = Armed(o)]
    BY <1>1 DEF PushAop
  <2>3. o.type = "busy" /\ o \in OpRecords
    <3>1. op[i] \in OpRecords /\ Zero \in [Cats -> Nat]
      BY <2>1, OpFacts, NewOps DEF EventInv
    <3>2. PICK n \in [Cats -> Nat], m \in [Cats -> Nat] :
            o = [op[i] EXCEPT !.type = "busy", !.next = "null", !.ini = n, !.com = m]
      BY <3>1 DEF Reused, OpRecords
    <3> QED BY <3>1, <3>2 DEF OpRecords, Types
  <2> HIDE DEF list
  <2> QED BY <2>1, <2>2, <2>3, PushMaps
<1>2. ASSUME NEW i \in Lowest(1, UnbornOf(Iops)), PushAop(t, i, NewIop(t), free)
      PROVE  MappedStep
  <2> SUFFICES ASSUME NEW o, o = NewIop(t) PROVE MappedStep
    OBVIOUS
  <2>1. i \in Iops /\ op[i].type = "unborn"
    BY DEF Lowest, UnbornOf
  <2>2. op' = [op EXCEPT ![i] = Armed(o)]
    BY <1>2 DEF PushAop
  <2>3. o.type = "busy" /\ o \in OpRecords
    BY NewOps
  <2> QED BY <2>1, <2>2, <2>3, PushMaps
<1> QED BY <1>1, <1>2 DEF gasnete_begin_nbi_accessregion

\* The end of a region closes its iop; the events whose transfers are all done
\* fire with it (gasnete_aop_to_event).
LEMMA PopMaps ==
  ASSUME EventInv, NEW t \in Threads, PopAop(t), xf' = xf
  PROVE  MappedStep
<1> USE DEF EventInv
<1> SUFFICES ASSUME NEW i, i = Head(cur[t]) PROVE MappedStep
  OBVIOUS
<1>1. /\ i \in Iops /\ i \in OpIds /\ i \notin Eops /\ op[i].type = "busy" /\ op[i].next = "parent"
      /\ op[i].live = Cats
  <2>1. op[i].next # "null"
    BY DEF PopAop
  <2>2. /\ i \in Iops /\ i \in OpIds /\ i \notin Eops /\ op[i].type = "busy" /\ op[i].next = "parent"
    BY <2>1, TopFacts, OpFacts
  <2> QED BY <2>2 DEF BitsInv
<1>2. op' = [op EXCEPT ![i] = Balanced(op[i])]
  BY DEF PopAop
<1>3. /\ \A j \in OpIds \ {i} : op'[j] = op[j]
      /\ op'[i] = Balanced(op[i]) /\ op[i] \in OpRecords
  BY <1>1, <1>2, OpFacts DEF EventTypeOK
<1> DEFINE n == [c \in Cats |-> op[i].com[c] + 1]
           L == {c \in op[i].live : n[c] # op[i].ini[c]}
<1>4. op'[i].type = "busy" /\ op'[i].next = "self" /\ op'[i].live = L
  <2>1. op'[i] = [op[i] EXCEPT !.com = n, !.next = "self", !.live = L]
    BY <1>3 DEF Balanced
  <2> HIDE DEF n, L
  <2> QED BY <1>1, <1>3, <2>1 DEF OpRecords
<1>5. /\ EventPhase(i) = "open" /\ EventPhase(i)' = "closed" /\ FiredOf(i)' = Cats \ L
  BY <1>1, <1>4 DEF EventPhase, FiredOf
<1>6. \A j \in OpIds \ {i} : EventPhase(j)' = EventPhase(j) /\ FiredOf(j)' = FiredOf(j)
  BY <1>3 DEF EventPhase, FiredOf
<1>7. PhaseSet(i, "closed") /\ FiredSet(i, Cats \ L)
  BY <1>5, <1>6 DEF PhaseSet, FiredSet
<1>8. \A c \in Cats \ L : NotOwed(i, c)
  <2> SUFFICES ASSUME NEW c \in Cats \ L PROVE NotOwed(i, c)
    OBVIOUS
  <2>1. op[i].com[c] + 1 = op[i].ini[c]
    BY <1>1
  <2>2. op[i].ini[c] = op[i].com[c] + Cardinality(Pending(i, c)) + 1
    BY <1>1 DEF CountersInv
  <2>3. op[i].com[c] \in Nat /\ op[i].ini[c] \in Nat /\ Cardinality(Pending(i, c)) \in Nat
    BY <1>1, OpFacts, PendingFinite
  <2>4. Cardinality(Pending(i, c)) = 0
    <3> HIDE DEF L, n, EventInv
    <3> QED BY <2>1, <2>2, <2>3
  <2>5. \A x \in Pending(i, c) : FALSE
    <3> SUFFICES ASSUME NEW x \in Pending(i, c) PROVE FALSE
      OBVIOUS
    <3>1. Cardinality(Pending(i, c)) >= 1
      BY <1>1, PendingLess
    <3> QED BY <2>4, <3>1
  <2> QED BY <1>1, <2>5 DEF NotOwed, EventOf, Pending
<1> HIDE DEF L, EventInv
<1> QED BY <1>1, <1>5, <1>7, <1>8, QuietTransfers, MapsToClose

\* A put or get of one message is an operation made and closed at once; the
\* other eops of a new chunk stay idle.
LEMMA EopMaps ==
  ASSUME EventInv, NEW t \in Threads, NEW c \in Cats, amref_nb_eop(t, c)
  PROVE  MappedStep
<1>1. PICK i \in Eops, x \in Xfers : NewEop(t, i) /\ Request(x, i, c)
  BY DEF amref_nb_eop
<1>2. i \in OpIds /\ i \notin Iops /\ Root \in Cats
  BY Ids
<1>3. /\ op[i].type \in {"free", "unborn"}
      /\ op'[i].type = "busy" /\ op'[i].live = {Root}
      /\ \A j \in OpIds \ {i} :
           \/ op'[j] = op[j]
           \/ j \in Eops /\ op[j].type = "unborn" /\ op'[j].type = "free"
  BY <1>1, NewEopFacts
<1>4. /\ xf[x].op = 0 /\ xf[x].st = "none"
      /\ xf'[x].op = i /\ xf'[x].cat = c /\ xf'[x].st = "request"
      /\ \A y \in Xfers \ {x} : xf'[y] = xf[y]
  BY <1>1, <1>2, RequestFacts
<1>5. /\ EventPhase(i) = "idle" /\ EventPhase(i)' = "closed" /\ FiredOf(i)' = Cats \ {Root}
  BY <1>1, <1>3 DEF EventPhase, FiredOf
<1>6. \A j \in OpIds \ {i} : EventPhase(j)' = EventPhase(j) /\ FiredOf(j)' = FiredOf(j)
  BY <1>3 DEF EventPhase, FiredOf
<1>7. PhaseSet(i, "closed") /\ FiredSet(i, Cats \ {Root})
  BY <1>5, <1>6 DEF PhaseSet, FiredSet
<1>8. OwedMap' = OwedMap \union {<<i, Root, x>>}
  <2>1. ~OnTheWay(x) /\ OnTheWay(x)' /\ EventOf(x)' = Root
    BY <1>1, <1>4 DEF OnTheWay, Underway, Landed, EventOf
  <2>2. \A y \in Xfers \ {x} : XferKept(y)
    BY <1>4 DEF XferKept, OnTheWay, EventOf, Underway, Landed
  <2> QED BY <1>4, <2>1, <2>2, OneMoreOwed
<1> QED BY <1>2, <1>5, <1>7, <1>8, MapsToSingle

\* Pass 1 retires the roots that it finds complete, and reads the rest.
LEMMA Pass1Maps ==
  ASSUME EventInv, NEW t \in Threads, test_array_pass1(t)
  PROVE  MappedStep
<1> SUFFICES ASSUME NEW a, a = call[t], NEW e, e = a.arr[a.i] PROVE MappedStep
  OBVIOUS
<1>1. /\ a.in = "pass1" /\ xf' = xf
      /\ \/ op' = op
         \/ ~IsLeaf(e) /\ ~AnyLive(e) /\ op' = [op EXCEPT ![OpOf(e)].type = "pendingfree"]
  BY DEF test_array_pass1
<1>2. CASE op' = op
  BY <1>1, <1>2, QuietOps, QuietTransfers, MapsToStutter
<1>3. CASE ~IsLeaf(e) /\ ~AnyLive(e) /\ op' = [op EXCEPT ![OpOf(e)].type = "pendingfree"]
  <2>1. t \in InArrays /\ a \in ArrayCalls /\ ArrayInv(a)
    <3>1. t \in InArrays
      BY <1>1 DEF InArrays
    <3> QED BY <3>1, Ranges DEF ArraysInv, EventInv
  <2>2. /\ a.i \in DOMAIN a.arr /\ e # Invalid /\ a.i \in Nat
        /\ \A b \in Batches : OpOf(e) \notin ToSet(a.synced[b])
    <3>1. a.i \in DOMAIN a.arr /\ a.i \in Nat
      BY <1>1, <2>1, CallParts DEF ArrayInv
    <3>2. a.i >= a.i
      BY <3>1
    <3> QED BY <1>1, <1>3, <2>1, <3>1, <3>2 DEF ArrayInv
  <2>3. e \in OpIds \X Cats /\ e \in Passed(t)
    <3>1. e \in (OpIds \X Cats) \union {Invalid}
      BY <2>1, <2>2, CallParts
    <3> QED BY <2>1, <2>2, <3>1, InHand
  <2>4. OpOf(e) \in OpIds
    BY <2>3, Ids
  <2>5. OpOf(e) \notin Synced(t)
    BY <2>1, <2>2, InHand
  <2>6. IsClosed(OpOf(e))
    <3>1. \A f \in Passed(t) : OpOf(f) \in Synced(t) \/ IsClosed(OpOf(f))
      BY DEF EventInv, HandsInv
    <3> QED BY <2>3, <2>5, <3>1
  <2>7. op[OpOf(e)].live = {}
    BY <1>3 DEF AnyLive
  <2> QED BY <1>1, <1>3, <2>4, <2>6, <2>7, RetireMaps
<1> QED BY <1>1, <1>2, <1>3

\* The frees of an array call are of ops already idle.
LEMMA FreeMaps ==
  ASSUME EventInv, NEW t \in Threads, test_array_free(t)
  PROVE  MappedStep
<1>1. call[t].in = "bulk" /\ t \in InArrays /\ xf' = xf
  BY DEF test_array_free, InArrays
<1>2. PICK b \in ToFree(call[t]) :
        op' = [i \in OpIds |-> IF i \in ToSet(OpsOf(call[t], b))
                               THEN [op[i] EXCEPT !.type = "free"] ELSE op[i]]
  BY DEF test_array_free, OpsOf
<1>3. b \in Batches /\ call[t].synced[b] # <<>>
  BY DEF ToFree
<1>4. ToSet(OpsOf(call[t], b)) \subseteq Synced(t)
  <2>1. call[t] \in ArrayCalls /\ BatchesInv(call[t])
    BY <1>1, Ranges DEF EventInv, ArraysInv
  <2>2. ToSet(OpsOf(call[t], b)) \subseteq ToSet(call[t].synced[b])
    BY <1>3, <2>1, BatchesShrink
  <2> QED BY <1>1, <1>3, <2>2, InHand
<1> DEFINE F == ToSet(OpsOf(call[t], b))
<1>5. \A i \in OpIds : /\ i \notin F => op'[i] = op[i]
                       /\ i \in F => op'[i] = [op[i] EXCEPT !.type = "free"]
  BY <1>2
<1> HIDE DEF F
<1>6. \A i \in OpIds : i \in F => op[i].type = "pendingfree" /\ op'[i].type = "free"
  <2> SUFFICES ASSUME NEW i \in OpIds, i \in F
               PROVE  op[i].type = "pendingfree" /\ op'[i].type = "free"
    OBVIOUS
  <2>1. op[i].type = "pendingfree"
    BY <1>4 DEF EventInv, HandsInv, F
  <2>2. op[i] \in OpRecords
    BY OpFacts DEF EventInv
  <2> QED BY <1>5, <2>1, <2>2 DEF OpRecords
<1>7. PhasesKept /\ FiredKept
  BY <1>5, <1>6 DEF PhasesKept, FiredKept, FiredOf, EventPhase
<1> QED BY <1>1, <1>7, QuietTransfers, MapsToStutter

\* Steps that leave ops and transfers alone.
LEMMA QuietMaps ==
  ASSUME UNCHANGED <<op, xf>>
  PROVE  MappedStep
BY QuietOps, QuietTransfers, MapsToStutter

\* Every step is one of EventSpec's, or a stutter.
LEMMA EventsMap ==
  ASSUME EventInv, [EventNext]_eventVars
  PROVE  MappedStep
<1>1. ASSUME NEW t \in Starters, StartStep(t) PROVE MappedStep
  <2>1. t \in Threads
    BY EventsAssumption
  <2>2. CASE begin_region(t)
    BY <2>1, <2>2, BeginMaps DEF begin_region
  <2>3. CASE gasnete_end_nbi_accessregion(t)
    BY <2>1, <2>3, PopMaps DEF gasnete_end_nbi_accessregion
  <2>4. ASSUME NEW c \in Cats, amref_nbi(t, c) PROVE MappedStep
    BY <2>1, <2>4, ChunkMaps DEF amref_nbi
  <2>5. ASSUME NEW c \in Cats, amref_nb_region(t, c) PROVE MappedStep
    BY <2>1, <2>5, BeginMaps DEF amref_nb_region
  <2>6. ASSUME NEW c \in Cats, amref_nb_eop(t, c) PROVE MappedStep
    BY <2>1, <2>6, EopMaps
  <2> QED BY <1>1, <2>2, <2>3, <2>4, <2>5, <2>6 DEF StartStep
<1>2. ASSUME NEW t \in Threads, SyncStep(t) PROVE MappedStep
  <2>1. ASSUME NEW e \in held, gasnete_test_root(t, e) PROVE MappedStep
    <3>1. OpOf(e) \in OpIds /\ IsClosed(OpOf(e))
      BY HeldFacts DEF EventInv
    <3> QED BY <2>1, <3>1, RetireMaps DEF gasnete_test_root, AnyLive
  <2>2. ASSUME NEW e \in held, gasnete_test_leaf(t, e) PROVE MappedStep
    BY <2>2, QuietMaps DEF gasnete_test_leaf
  <2>3. ASSUME NEW e \in held, NEW c \in Cats, gasnete_Event_QueryLeaf(e, c) PROVE MappedStep
    BY <2>3, QuietMaps DEF gasnete_Event_QueryLeaf
  <2>4. CASE gasnete_test_array(t)
    BY <2>4, QuietMaps DEF gasnete_test_array
  <2> QED BY <1>2, <2>1, <2>2, <2>3, <2>4 DEF SyncStep
<1>3. ASSUME NEW t \in Threads, LibraryStep(t) PROVE MappedStep
  <2>1. CASE amref_nbi_loop(t)
    <3>1. call[t].in \in {"nbi", "nb"} /\ Chunk(t, call[t].cat)
      BY <2>1 DEF amref_nbi_loop
    <3>2. call[t].cat \in Cats
      BY <3>1, CallFacts DEF EventInv
    <3> QED BY <3>1, <3>2, ChunkMaps
  <2>2. CASE amref_nb_end(t)
    BY <2>2, PopMaps DEF amref_nb_end
  <2>3. CASE test_array_pass1(t)
    BY <2>3, Pass1Maps
  <2>4. CASE test_array_pass2(t)
    BY <2>4, QuietMaps DEF test_array_pass2
  <2>5. CASE test_array_free(t)
    BY <2>5, FreeMaps
  <2>6. CASE test_array_return(t)
    BY <2>6, QuietMaps DEF test_array_return
  <2> QED BY <1>3, <2>1, <2>2, <2>3, <2>4, <2>5, <2>6 DEF LibraryStep
<1>4. ASSUME NEW p \in Pollers, HandlerStep(p) PROVE MappedStep
  BY <1>4, RephMaps, MarkdoneMaps, FinishMaps DEF HandlerStep
<1>5. ASSUME NEW x \in Xfers, reqh(x) PROVE MappedStep
  BY <1>5, ReqhMaps
<1>6. CASE UNCHANGED eventVars
  BY <1>6, QuietMaps DEF eventVars
<1> QED BY <1>1, <1>2, <1>3, <1>4, <1>5, <1>6 DEF EventNext

\* Every thread's implicit iop is open at the start, and nothing was sent.
LEMMA InitialMaps == EventInit => Abstract!Init
<1> SUFFICES ASSUME EventInit PROVE Abstract!Init
  OBVIOUS
<1>1. \A i \in OpIds : EventPhase(i) \in {"idle", "open"}
  <2> SUFFICES ASSUME NEW i \in OpIds PROVE EventPhase(i) \in {"idle", "open"}
    OBVIOUS
  <2>1. CASE op[i] = Unborn
    BY <2>1, NewOps DEF EventPhase
  <2>2. ASSUME NEW t \in Threads, i = FirstIop[t] PROVE EventPhase(i) \in {"idle", "open"}
    <3>1. i \in Iops /\ i \notin Eops
      BY <2>2, FirstIopFacts, Ids
    <3>2. op[i] = NewIop(t)
      BY <2>2, InitialOps
    <3> QED BY <3>1, <3>2, NewOps DEF EventPhase
  <2> QED BY <2>1, <2>2, InitialOps
<1>2. [i \in OpIds |-> EventPhase(i)] \in [OpIds -> {"idle", "open"}]
  BY <1>1
<1>3. {<<xf[x].op, EventOf(x), x>> : x \in {y \in Xfers : Underway(y) /\ ~Landed(y)}} = {}
  <2>1. \A x \in Xfers : xf[x].st = "none"
    BY DEF EventInit
  <2> QED BY <2>1 DEF Underway
<1>4. [i \in OpIds |-> IF EventPhase(i) = "closed" THEN Cats \ op[i].live ELSE {}]
        = [i \in OpIds |-> {}]
  BY <1>1
<1> QED BY <1>2, <1>3, <1>4 DEF Abstract!Init

\* Each event fires once, after its region ended and after the data of every
\* transfer arrived, and the storage of an operation is used again only after all
\* its events fired (GASNETE_IOP_CNT_FINISH, gasnete_aop_to_event,
\* gasnete_op_try_free, gasnete_test_array).
THEOREM EventsRefine ==
  ASSUME ~StatsOrTrace
  PROVE  EventSpecification => ImplementsEvents
<1>1. EventInit => Abstract!Init
  BY InitialMaps
<1>2. EventInv /\ [EventNext]_eventVars => [Abstract!Next]_(Abstract!vars)
  BY EventsMap DEF MappedStep
<1> QED BY <1>1, <1>2, EventsInvariant, PTL DEF EventSpecification, ImplementsEvents, Abstract!Spec
=============================================================================
