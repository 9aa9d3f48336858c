--------------------------- MODULE AMDBarrierProofs ---------------------------
(***************************************************************************)
(* TLAPS proofs about the dissemination barrier, for every number of       *)
(* ranks, any set of ranks with a poller and any number of barriers.       *)
(***************************************************************************)
EXTENDS AMDBarrier, BarrierNamingProofs

-----------------------------------------------------------------------------
(***************************************************************************)
(* Arithmetic: powers of two, remainders.                                  *)
(***************************************************************************)
\* 2^n counts the subsets of 1 .. n.
LEMMA PowerCounts ==
  ASSUME NEW n \in Nat
  PROVE  /\ 2^n \in Nat /\ 2^n = Cardinality(SUBSET (1 .. n))
         /\ IsFiniteSet(SUBSET (1 .. n))
<1>1. IsFiniteSet(1 .. n) /\ Cardinality(1 .. n) = n
  BY FS_Interval
<1>2. IsFiniteSet(SUBSET (1 .. n)) /\ Cardinality(SUBSET (1 .. n)) = 2^n
  BY <1>1, FS_SUBSET
<1>. QED BY <1>2, FS_CardinalityType

\* The distance to the peer doubles from step to step.
LEMMA PowerDoubles ==
  ASSUME NEW n \in Nat
  PROVE  2^(n + 1) = 2 * 2^n
<1> DEFINE A == SUBSET (1 .. n)
           B == {T \cup {n + 1} : T \in A}
           f == [T \in A |-> T \cup {n + 1}]
<1>1. f \in Bijection(A, B)
  <2>1. f \in [A -> B]
    OBVIOUS
  <2>2. \A T \in A : n + 1 \notin T
    OBVIOUS
  <2>3. ASSUME NEW T \in A, NEW U \in A, f[T] = f[U] PROVE T = U
    BY <2>2, <2>3
  <2>4. \A V \in B : \E T \in A : f[T] = V
    OBVIOUS
  <2> HIDE DEF f, A, B
  <2>. QED BY <2>1, <2>3, <2>4 DEF Bijection, Injection, Surjection, IsInjective
<1>2. IsFiniteSet(A) /\ Cardinality(A) = 2^n /\ 2^n \in Nat
  BY PowerCounts
<1>3. IsFiniteSet(B) /\ Cardinality(B) = 2^n
  BY <1>1, <1>2, FS_Bijection DEF ExistsBijection
<1>4. SUBSET (1 .. n + 1) = A \cup B
  <2>1. ASSUME NEW V \in SUBSET (1 .. n + 1), n + 1 \in V PROVE V \in B
    <3>1. V \ {n + 1} \in A /\ V = (V \ {n + 1}) \cup {n + 1}
      BY <2>1
    <3>. QED BY <3>1
  <2>2. ASSUME NEW V \in SUBSET (1 .. n + 1), n + 1 \notin V PROVE V \in A
    BY <2>2
  <2>3. A \subseteq SUBSET (1 .. n + 1)
    OBVIOUS
  <2>4. B \subseteq SUBSET (1 .. n + 1)
    <3>1. \A T \in A : T \cup {n + 1} \in SUBSET (1 .. n + 1)
      OBVIOUS
    <3>. QED BY ZenonT(60), <3>1
  <2> HIDE DEF A, B
  <2>. QED BY <2>1, <2>2, <2>3, <2>4
<1>5. A \cap B = {}
  <2>1. \A T \in A : n + 1 \notin T
    OBVIOUS
  <2>2. \A T \in B : n + 1 \in T
    OBVIOUS
  <2>. QED BY <2>1, <2>2
<1>6. 2^(n + 1) = Cardinality(A \cup B)
  <2>1. 2^(n + 1) = Cardinality(SUBSET (1 .. n + 1))
    BY PowerCounts, n + 1 \in Nat
  <2>. QED BY <1>4, <2>1
<1> HIDE DEF A, B, f
<1>7. Cardinality(A \cup B) = Cardinality(A) + Cardinality(B) - 0
  BY <1>2, <1>3, <1>5, FS_Union, FS_EmptySet
<1>. QED BY <1>2, <1>3, <1>6, <1>7

\* What the proofs use of powers of two.
LEMMA Powers ==
  /\ 2^0 = 1
  /\ \A n \in Nat : 2^n \in Nat /\ 2^(n + 1) = 2 * 2^n
  /\ \A n \in Nat : 2^n > n
  /\ \A m, n \in Nat : m <= n => 2^m <= 2^n
<1>1. 2^0 = 1
  <2>1. SUBSET (1 .. 0) = {{}}
    OBVIOUS
  <2>. QED BY <2>1, PowerCounts, FS_Singleton
<1>2. \A n \in Nat : 2^n \in Nat /\ 2^(n + 1) = 2 * 2^n
  BY PowerCounts, PowerDoubles
<1>3. \A n \in Nat : 2^n > n
  <2> DEFINE T == {n \in Nat : ~(2^n > n)}
  <2>1. SUFFICES ASSUME T # {} PROVE FALSE
    OBVIOUS
  <2>2. PICK x \in T : \A y \in T : x <= y
    BY <2>1, LeastElement
  <2>3. x # 0
    <3>1. ASSUME x = 0 PROVE 2^x = 1
      BY <1>1, <3>1
    <3>. QED BY <2>2, <3>1
  <2>4. x - 1 \in Nat /\ x - 1 \notin T
    BY <2>2, <2>3
  <2>5. 2^(x - 1) > x - 1 /\ 2^(x - 1) \in Nat
    BY <1>2, <2>4
  <2>6. 2^x = 2 * 2^(x - 1)
    <3>1. (x - 1) + 1 = x
      BY <2>2
    <3>. QED BY <1>2, <2>4, <3>1
  <2>. QED BY <2>2, <2>3, <2>5, <2>6
<1>4. ASSUME NEW m \in Nat, NEW n \in Nat, m <= n PROVE 2^m <= 2^n
  <2>1. SUBSET (1 .. m) \in SUBSET (SUBSET (1 .. n))
    BY <1>4
  <2>2. /\ 2^m = Cardinality(SUBSET (1 .. m))
        /\ 2^n = Cardinality(SUBSET (1 .. n)) /\ IsFiniteSet(SUBSET (1 .. n))
    BY PowerCounts
  <2>. QED BY <2>1, <2>2, FS_Subset
<1>. QED BY <1>1, <1>2, <1>3, <1>4

\* Remainders: the quotient and the remainder are unique.
LEMMA Division ==
  ASSUME NEW a \in Int
  PROVE  /\ a % N \in Ranks /\ a \div N \in Int
         /\ a = N * (a \div N) + (a % N)
BY NAssumption DEF Ranks

\* A remainder below N is the remainder.
LEMMA DivisionUnique ==
  ASSUME NEW a \in Int, NEW x \in Ranks, NEW c \in Int, a = N * c + x
  PROVE  a % N = x
<1> DEFINE d == a \div N
           y == a % N
<1>1. y \in 0 .. N - 1 /\ a = N * d + y /\ d \in Int /\ x \in 0 .. N - 1
  BY NAssumption, Division DEF Ranks
<1> HIDE DEF d, y
<1>2. N * (d - c) = x - y /\ N \in Nat
  BY <1>1, NAssumption
<1>3. ASSUME d - c >= 1 PROVE FALSE
  <2>1. N * (d - c) >= N
    BY <1>1, <1>2, <1>3
  <2>. QED BY <2>1, <1>1, <1>2
<1>4. ASSUME d - c <= -1 PROVE FALSE
  <2>1. N * (d - c) <= -N
    BY <1>1, <1>2, <1>4
  <2>. QED BY <2>1, <1>1, <1>2
<1>5. d = c
  BY <1>1, <1>3, <1>4
<1>6. y = x
  <2>1. N * d = N * c /\ N * d \in Int
    BY <1>1, <1>5, NAssumption
  <2>. QED BY <1>1, <2>1
<1>. QED BY <1>6 DEF y

\* Moving round the ring twice.
LEMMA Around ==
  ASSUME NEW a \in Int, NEW b \in Int
  PROVE  ((a % N) + b) % N = (a + b) % N
<1> DEFINE d == a \div N
           y == a % N
           g == (y + b) \div N
           z == (y + b) % N
<1>1. y \in Int /\ d \in Int /\ a = N * d + y
  BY Division DEF Ranks
<1>2. z \in Ranks /\ g \in Int /\ y + b = N * g + z
  BY <1>1, Division
<1> HIDE DEF d, y, z, g
<1>3. a + b = N * (d + g) + z /\ a + b \in Int /\ d + g \in Int
  BY <1>1, <1>2, NAssumption DEF Ranks
<1>4. (a + b) % N = z
  BY <1>2, <1>3, DivisionUnique
<1>. QED BY <1>4 DEF z, y

-----------------------------------------------------------------------------
(***************************************************************************)
(* The geometry of dissemination.                                          *)
(***************************************************************************)
\* gasnete_amdbarrier_init's loop ends: Size is the least number of steps
\* whose distances reach all ranks.
LEMMA SizeFacts ==
  /\ Size \in 0 .. N /\ 2^Size >= N
  /\ Steps = 0 .. Size - 1 /\ Steps \subseteq Nat
<1> DEFINE T == {s \in Nat : 2^s >= N}
<1>1. N \in T
  BY Powers, NAssumption
<1>2. PICK s \in T : \A y \in T : s <= y
  BY <1>1, LeastElement
<1>3. \A i \in 0 .. s - 1 : 2^i < N
  <2>1. ASSUME NEW i \in 0 .. s - 1 PROVE 2^i < N
    <3>1. i \in Nat /\ i \notin T /\ 2^i \in Nat
      BY <1>2, Powers
    <3>. QED BY <3>1, NAssumption
  <2>. QED BY <2>1
<1>4. s \in 0 .. N /\ 2^s >= N
  BY <1>1, <1>2, NAssumption
<1>5. Size \in 0 .. N /\ 2^Size >= N
  BY <1>3, <1>4 DEF Size
<1>. QED BY <1>5, NAssumption DEF Steps

\* The rank that sends to q at step k, and the rank that s sends to, are
\* inverse to each other.
LEMMA PeerFacts ==
  ASSUME NEW r \in Ranks, NEW k \in Nat
  PROVE  /\ Peer(r, k) \in Ranks /\ From(r, k) \in Ranks
         /\ From(Peer(r, k), k) = r /\ Peer(From(r, k), k) = r
<1>1. 2^k \in Nat /\ r \in Int /\ r = N * 0 + r
  BY Powers, NAssumption DEF Ranks
<1>2. r % N = r
  BY <1>1, DivisionUnique
<1>3. Peer(r, k) \in Ranks /\ From(r, k) \in Ranks
  BY <1>1, Division DEF Peer, From
<1> DEFINE d == 2^k
<1>4. d \in Int /\ -d \in Int
  BY <1>1
<1> HIDE DEF d
<1>5. (((r + d) % N) + (-d)) % N = ((r + d) + (-d)) % N
  BY <1>1, <1>4, Around
<1>6. (((r - d) % N) + d) % N = ((r - d) + d) % N
  BY <1>1, <1>4, Around
<1>7. (r + d) + (-d) = r /\ (r - d) + d = r
  BY <1>1, <1>4
<1>8. ((r + d) % N) - d = ((r + d) % N) + (-d)
  <2>1. (r + d) % N \in Int
    BY <1>1, <1>4, Division DEF Ranks
  <2>. QED BY <2>1, <1>4
<1>. QED BY <1>2, <1>3, <1>5, <1>6, <1>7, <1>8 DEF Peer, From, d

\* What a rank has heard grows by what its peer of each step had heard, and
\* after the last step it has heard of all ranks.
LEMMA HeardFacts ==
  ASSUME NEW r \in Ranks
  PROVE  /\ Heard(r, 0) = {r}
         /\ \A k \in Nat : r \in Heard(r, k) /\ Heard(r, k) \subseteq Ranks
         /\ \A j, k \in Nat : j <= k => Heard(r, j) \subseteq Heard(r, k)
         /\ Heard(r, Size) = Ranks
<1>1. \A k \in Nat : 2^k \in Nat /\ 2^k > k
  BY Powers
<1>2. r \in Int /\ r = N * 0 + r /\ r - 0 = r
  BY NAssumption DEF Ranks
<1>3. (r - 0) % N = r
  BY <1>2, DivisionUnique
<1>4. Heard(r, 0) = {r}
  <2>1. 0 .. 2^0 - 1 = {0}
    BY Powers
  <2>. QED BY <2>1, <1>3 DEF Heard
<1>5. ASSUME NEW k \in Nat PROVE r \in Heard(r, k) /\ Heard(r, k) \subseteq Ranks
  <2>1. 0 \in 0 .. 2^k - 1
    BY <1>1
  <2>2. \A i \in 0 .. 2^k - 1 : (r - i) % N \in Ranks
    BY <1>2, Division
  <2>. QED BY <2>1, <2>2, <1>3 DEF Heard
<1>6. ASSUME NEW j \in Nat, NEW k \in Nat, j <= k
      PROVE  Heard(r, j) \subseteq Heard(r, k)
  <2>1. 0 .. 2^j - 1 \subseteq 0 .. 2^k - 1
    BY <1>1, <1>6, Powers
  <2>. QED BY <2>1 DEF Heard
<1>7. ASSUME NEW q \in Ranks PROVE q \in Heard(r, Size)
  <2> DEFINE i == IF q <= r THEN r - q ELSE r - q + N
             c == IF q <= r THEN 0 ELSE -1
  <2>1. i \in 0 .. N - 1 /\ r - i \in Int /\ c \in Int /\ r - i = N * c + q
    BY NAssumption DEF Ranks
  <2>2. i \in 0 .. 2^Size - 1
    <3>1. 2^Size \in Nat /\ 2^Size >= N
      BY SizeFacts, <1>1
    <3> HIDE DEF i
    <3>. QED BY <2>1, <3>1, NAssumption
  <2> HIDE DEF i, c
  <2>3. (r - i) % N = q
    BY <2>1, DivisionUnique
  <2>. QED BY <2>2, <2>3 DEF Heard
<1>8. Size \in Nat
  BY SizeFacts
<1>. QED BY <1>4, <1>5, <1>6, <1>7, <1>8

\* What is heard by step c and not by step k came with a step between them.
LEMMA HeardGrows ==
  ASSUME NEW r \in Ranks, NEW k \in Nat, NEW c \in Nat, k <= c,
         NEW q \in Heard(r, c), q \notin Heard(r, k)
  PROVE  \E j \in k .. c - 1 : q \in Heard(From(r, j), j)
<1>1. \A n \in Nat : 2^n \in Nat
  BY Powers
<1>2. PICK i \in 0 .. 2^c - 1 : q = (r - i) % N
  BY DEF Heard
<1>3. i \in Nat /\ i < 2^c /\ ~(i < 2^k) /\ r \in Int
  BY <1>1, <1>2, NAssumption DEF Heard, Ranks
<1> DEFINE T == {n \in Nat : i < 2^n}
<1>4. PICK m \in T : \A n \in T : m <= n
  BY <1>3, LeastElement
<1>5. m <= c /\ m > k
  <2>1. m <= c
    BY <1>3, <1>4
  <2>2. ASSUME m <= k PROVE FALSE
    <3>1. 2^m <= 2^k /\ 2^m \in Nat /\ 2^k \in Nat
      BY <1>1, <1>4, <2>2, Powers
    <3>. QED BY <1>3, <1>4, <3>1
  <2>. QED BY <1>4, <2>1, <2>2
<1> DEFINE j == m - 1
<1>6. j \in Nat /\ j \in k .. c - 1 /\ j \notin T /\ m = j + 1
  BY <1>4, <1>5
<1>7. 2^j \in Nat /\ 2^j <= i /\ i < 2 * 2^j
  <2>1. 2^m = 2 * 2^j /\ 2^j \in Nat
    BY <1>6, Powers
  <2>. QED BY <1>3, <1>4, <1>6, <2>1
<1> DEFINE d == 2^j
<1> HIDE DEF j, d, T
<1>8. d \in Nat /\ d <= i /\ i < 2 * d
  BY <1>7 DEF d
<1>9. i - d \in 0 .. d - 1 /\ r - d \in Int /\ -(i - d) \in Int
  BY <1>3, <1>8
<1>10. (((r - d) % N) + (-(i - d))) % N = ((r - d) + (-(i - d))) % N
  BY <1>9, Around
<1>11. (r - d) + (-(i - d)) = r - i
  BY <1>3, <1>8
<1>12. ((r - d) % N) + (-(i - d)) = ((r - d) % N) - (i - d)
  <2>1. (r - d) % N \in Int
    BY <1>9, Division, NAssumption DEF Ranks
  <2>. QED BY <1>3, <1>8, <2>1
<1>13. (((r - d) % N) - (i - d)) % N = q
  BY <1>2, <1>10, <1>11, <1>12
<1>14. q \in Heard(From(r, j), j)
  BY <1>9, <1>13 DEF Heard, From, d
<1>. QED BY <1>6, <1>14

-----------------------------------------------------------------------------
(***************************************************************************)
(* What a summary covers.                                                  *)
(***************************************************************************)
\* Covers as a function of the histories ep of epochs and ag of arguments.
CoversIn(ep, ag, a, low, e) ==
  \E S \in SUBSET Ranks :
    /\ low \subseteq S
    /\ \A q \in S : ep[q] >= e
    /\ Summarises(a, {ag[q][e % 2] : q \in S})

\* A summary stays one when no argument that it may summarise is replaced.
LEMMA CoversStable ==
  ASSUME NEW ep, NEW ep2, NEW ag, NEW ag2, NEW a, NEW low, NEW low2, NEW e,
         CoversIn(ep, ag, a, low, e), low2 \subseteq low,
         \A q \in Ranks : ep[q] >= e =>
           ep2[q] >= e /\ ag2[q][e % 2] = ag[q][e % 2]
  PROVE  CoversIn(ep2, ag2, a, low2, e)
<1>1. PICK S \in SUBSET Ranks :
        /\ low \subseteq S
        /\ \A q \in S : ep[q] >= e
        /\ Summarises(a, {ag[q][e % 2] : q \in S})
  BY DEF CoversIn
<1>2. {ag2[q][e % 2] : q \in S} = {ag[q][e % 2] : q \in S}
  BY <1>1
<1>3. low2 \subseteq S /\ \A q \in S : ep2[q] >= e
  BY <1>1
<1>. QED BY <1>1, <1>2, <1>3 DEF CoversIn

\* The accumulator covers what it covered and what the notification did.
LEMMA CoversMerge ==
  ASSUME NEW ep, NEW ag \in [Ranks -> [Phases -> Arg]], NEW a \in Arg,
         NEW b \in Arg, NEW low, NEW low2, NEW e \in Nat,
         CoversIn(ep, ag, a, low, e), CoversIn(ep, ag, b, low2, e)
  PROVE  CoversIn(ep, ag, Merge(a, b), low \cup low2, e)
<1>1. PICK S \in SUBSET Ranks :
        /\ low \subseteq S
        /\ \A q \in S : ep[q] >= e
        /\ Summarises(a, {ag[q][e % 2] : q \in S})
  BY DEF CoversIn
<1>2. PICK T \in SUBSET Ranks :
        /\ low2 \subseteq T
        /\ \A q \in T : ep[q] >= e
        /\ Summarises(b, {ag[q][e % 2] : q \in T})
  BY DEF CoversIn
<1> DEFINE A == {ag[q][e % 2] : q \in S}
           B == {ag[q][e % 2] : q \in T}
<1>3. e % 2 \in Phases
  BY DEF Phases
<1>4. A \in SUBSET Arg /\ B \in SUBSET Arg
  BY <1>3
<1>5. {ag[q][e % 2] : q \in S \cup T} = A \cup B
  OBVIOUS
<1> HIDE DEF A, B
<1>6. Summarises(Merge(a, b), A \cup B)
  BY <1>1, <1>2, <1>4, MergeUnion DEF A, B
<1>7. S \cup T \in SUBSET Ranks /\ low \cup low2 \subseteq S \cup T
      /\ \A q \in S \cup T : ep[q] >= e
  BY <1>1, <1>2
<1>. QED BY <1>5, <1>6, <1>7 DEF CoversIn

\* A rank's own arguments, and an accumulator just reset.
LEMMA CoversOne ==
  ASSUME NEW ep, NEW ag \in [Ranks -> [Phases -> Arg]], NEW r \in Ranks,
         NEW e \in Nat, ep[r] >= e
  PROVE  CoversIn(ep, ag, ag[r][e % 2], {r}, e)
<1>1. ag[r][e % 2] \in Arg
  BY DEF Phases
<1>2. {ag[q][e % 2] : q \in {r}} = {ag[r][e % 2]}
  OBVIOUS
<1>. QED BY <1>1, <1>2, OneSummarises DEF CoversIn

\* A reset accumulator summarises nobody.
LEMMA CoversNone ==
  ASSUME NEW ep, NEW ag, NEW a \in Arg, NEW e, a.flags = {"ANONYMOUS"}
  PROVE  CoversIn(ep, ag, a, {}, e)
<1>1. Summarises(a, {})
  BY ResetSummarises
<1>2. {ag[q][e % 2] : q \in {}} = {}
  OBVIOUS
<1>. QED BY <1>1, <1>2 DEF CoversIn

-----------------------------------------------------------------------------
(***************************************************************************)
(* Consequences of the invariant.                                          *)
(***************************************************************************)
USE NAssumption, IdsAssumption, ArgsAssumption, MaxEpochAssumption,
    HelpedAssumption

\* Each thread has a rank, each rank a main thread.
LEMMA ThreadFacts ==
  /\ \A t \in Threads : RankOf(t) \in Ranks
  /\ \A r \in Ranks : Main(r) \in Threads /\ RankOf(Main(r)) = r
  /\ NotKicking \in Kicks
BY SizeFacts, FreshSummarises
   DEF Threads, RankOf, Main, NotKicking, Kicks, Phases

\* Consecutive barriers use different phases.
LEMMA Parity ==
  ASSUME NEW n \in Nat
  PROVE  /\ n % 2 \in Phases /\ (n + 1) % 2 \in Phases
         /\ (n + 1) % 2 = 1 - (n % 2)
         /\ (n + 1) % 2 # n % 2
         /\ (n + 2) % 2 = n % 2
         /\ (n + 3) % 2 = (n + 1) % 2
BY SMT DEF Phases

\* Who entered a barrier entered those before it.
LEMMA EnteredMonotone ==
  ASSUME TypeOK, NEW q \in Ranks, NEW x \in Nat, NEW e \in Nat, e <= x,
         Entered(q, x)
  PROVE  Entered(q, e) /\ epoch[q] >= e
<1>1. epoch[q] \in Nat
  BY DEF TypeOK
<1>. QED BY <1>1 DEF Entered

\* No rank is two barriers ahead of another.
LEMMA CloseTogether ==
  ASSUME Inv, NEW r \in Ranks, NEW q \in Ranks
  PROVE  /\ completed[r] \in Nat /\ epoch[r] \in {completed[r], completed[r] + 1}
         /\ completed[r] <= epoch[q] /\ epoch[r] <= epoch[q] + 1
         /\ epoch[r] > completed[q] + 1 => client[q] \notin {"outside", "flipping"}
<1>1. /\ completed[r] \in Nat /\ epoch[r] \in Nat /\ epoch[q] \in Nat
      /\ completed[q] \in Nat
      /\ epoch[r] \in {completed[r], completed[r] + 1}
  BY DEF Inv, IndInv, WindowInv, TypeOK
<1>2. Entered(q, completed[r])
  BY DEF Inv, IndInv, EnteredInv
<1>3. /\ client[q] = "outside" => epoch[q] = completed[q]
      /\ client[q] # "outside" => epoch[q] = completed[q] + 1
  BY DEF Inv, IndInv, WindowInv
<1>. QED BY <1>1, <1>2, <1>3 DEF Entered

\* Whoever has issued the message of a step knows whom it covers.
LEMMA IssuedKnows ==
  ASSUME Inv, NEW s \in Ranks, NEW k \in Steps, NEW e \in Nat,
         Issued(s, k, e), NEW q \in Heard(s, k)
  PROVE  q \in Ranks /\ Entered(q, e)
<1>1. k \in Nat /\ step[s] \in Nat /\ epoch[s] \in Nat
  BY SizeFacts DEF Inv, TypeOK
<1>2. q \in Ranks
  BY <1>1, HeardFacts
<1>3. CASE epoch[s] > e
  <2>1. completed[s] \in Nat /\ completed[s] >= e
    BY <1>1, <1>3, CloseTogether
  <2>2. Entered(q, completed[s])
    BY <1>2 DEF Inv, IndInv, EnteredInv
  <2>. QED BY <1>2, <2>1, <2>2, EnteredMonotone DEF Inv
<1>4. CASE ~(epoch[s] > e)
  <2>1. epoch[s] = e /\ client[s] # "flipping" /\ k <= step[s]
    BY <1>4 DEF Issued
  <2>2. q \in Heard(s, step[s])
    BY <1>1, <2>1, HeardFacts
  <2>. QED BY <1>2, <2>1, <2>2 DEF Inv, IndInv, EnteredInv
<1>. QED BY <1>3, <1>4

\* No message is for a barrier more than one ahead of its receiver.
LEMMA IssuedAwaited ==
  ASSUME Inv, NEW q \in Ranks, NEW s \in Ranks, NEW k \in Steps,
         NEW e \in Nat \ {0}, Issued(s, k, e)
  PROVE  /\ Entered(q, e - 1) /\ e <= epoch[q] + 1
         /\ e <= completed[q] + 2 /\ e <= MaxEpoch
         /\ client[q] \in {"outside", "flipping"} => e <= completed[q] + 1
<1>1. /\ completed[s] \in Nat /\ epoch[s] \in Nat /\ completed[q] \in Nat
      /\ epoch[s] <= completed[s] + 1 /\ epoch[s] >= e /\ epoch[s] <= MaxEpoch
      /\ epoch[q] \in Nat
  BY DEF Inv, IndInv, WindowInv, TypeOK, Issued
<1>2. Entered(q, completed[s])
  BY DEF Inv, IndInv, EnteredInv
<1>3. Entered(q, e - 1)
  BY <1>1, <1>2, EnteredMonotone DEF Inv
<1>4. /\ client[q] = "outside" => epoch[q] = completed[q]
      /\ client[q] # "outside" => epoch[q] = completed[q] + 1
  BY DEF Inv, IndInv, WindowInv
<1>. QED BY <1>1, <1>3, <1>4 DEF Entered

\* Where a message is determines its token.
LEMMA MessageToken ==
  ASSUME Inv, NEW m \in net \cup handling
  PROVE  /\ m.to \in Ranks /\ m.step \in Steps /\ m.arg \in Arg
         /\ m.epoch \in 1 .. MaxEpoch /\ m.phase = m.epoch % 2
         /\ From(m.to, m.step) \in Ranks
         /\ Issued(From(m.to, m.step), m.step, m.epoch)
         /\ ~Received(m.to, m.step, m.epoch)
         /\ completed[m.to] < m.epoch /\ m.epoch <= completed[m.to] + 2
<1>1. /\ m.to \in Ranks /\ m.step \in Steps /\ m.arg \in Arg
      /\ m.epoch \in 1 .. MaxEpoch /\ m.phase = m.epoch % 2
  BY DEF Inv, IndInv, MessageInv, TypeOK, Messages
<1>2. From(m.to, m.step) \in Ranks
  BY <1>1, PeerFacts, SizeFacts
<1>3. m.epoch \in 1 .. MaxEpoch + 2 /\ m.epoch \in Nat \ {0}
  BY <1>1
<1>4. OnePlace(From(m.to, m.step), m.to, m.step, m.epoch)
  BY <1>1, <1>3 DEF Inv, IndInv, TokenInv
<1>5. OnWire(m.to, m.step, m.epoch) \/ InHandler(m.to, m.step, m.epoch)
  BY DEF OnWire, InHandler, IsFor
<1>6. /\ Issued(From(m.to, m.step), m.step, m.epoch)
      /\ ~Received(m.to, m.step, m.epoch)
  BY <1>4, <1>5 DEF OnePlace
<1>7. m.epoch <= completed[m.to] + 2
  BY <1>1, <1>2, <1>3, <1>6, IssuedAwaited
<1>8. completed[m.to] \in Nat
  BY <1>1 DEF Inv, TypeOK
<1>. QED BY <1>1, <1>2, <1>6, <1>7, <1>8 DEF Received

\* The same for a message that a kick has still to send.
LEMMA UnsentToken ==
  ASSUME Inv, NEW t \in Threads, kick[t].pc = "send", NEW i \in Unsent(t)
  PROVE  LET r == RankOf(t)  q == Peer(r, i)  e == kick[t].epoch IN
         /\ r \in Ranks /\ q \in Ranks /\ From(q, i) = r
         /\ i \in Steps /\ i >= 1 /\ e \in 1 .. epoch[r] /\ e \in 1 .. MaxEpoch
         /\ kick[t].arg \in Arg
         /\ Pending(r, i, e) /\ Issued(r, i, e)
         /\ ~OnWire(q, i, e) /\ ~InHandler(q, i, e) /\ ~Received(q, i, e)
         /\ completed[q] < e /\ e <= completed[q] + 2
<1> DEFINE r == RankOf(t)
           q == Peer(r, i)
           e == kick[t].epoch
<1>1. r \in Ranks /\ epoch[r] \in Nat /\ epoch[r] <= MaxEpoch
  BY ThreadFacts DEF Inv, IndInv, WindowInv, TypeOK
<1>2. /\ e \in 1 .. epoch[r] /\ kick[t].step >= 1 /\ kick[t].numsteps >= 1
      /\ kick[t].step + kick[t].numsteps <= Size
      /\ kick[t].step \in Nat /\ kick[t].numsteps \in Nat /\ kick[t].arg \in Arg
  BY SizeFacts DEF Inv, IndInv, KickInv, TypeOK, Kicks
<1>3. i \in Steps /\ i >= 1 /\ i \in Nat
  BY SMTT(30), <1>2, SizeFacts DEF Unsent
<1>4. e \in 1 .. MaxEpoch /\ e \in 1 .. MaxEpoch + 2 /\ e \in Nat \ {0}
  BY <1>1, <1>2
<1>5. q \in Ranks /\ From(q, i) = r
  BY <1>1, <1>3, PeerFacts
<1>6. Pending(r, i, e)
  BY <1>1 DEF Pending
<1>7. OnePlace(r, q, i, e)
  BY <1>3, <1>4, <1>5 DEF Inv, IndInv, TokenInv
<1>8. Issued(r, i, e) /\ ~OnWire(q, i, e) /\ ~InHandler(q, i, e) /\ ~Received(q, i, e)
  BY <1>6, <1>7 DEF OnePlace
<1>9. e <= completed[q] + 2 /\ completed[q] \in Nat
  BY <1>1, <1>3, <1>4, <1>5, <1>8, IssuedAwaited DEF Inv, TypeOK
<1>. QED BY <1>1, <1>2, <1>3, <1>4, <1>5, <1>6, <1>8, <1>9 DEF Received

\* The least step at or after k that has not arrived.
LEMMA CursorFacts ==
  ASSUME NEW done \in [Steps -> BOOLEAN], NEW k \in 0 .. Size
  PROVE  LET c == Cursor(done, k) IN
         /\ c \in k .. Size
         /\ \A i \in k .. c - 1 : i \in Steps /\ done[i]
         /\ c = Size \/ ~done[c]
<1> DEFINE T == {n \in k .. Size : n = Size \/ ~done[n]}
<1>1. Size \in T /\ T \in SUBSET Nat
  BY SizeFacts
<1>2. PICK x \in T : \A y \in T : x <= y
  BY <1>1, LeastElement
<1>3. ASSUME NEW i \in k .. x - 1 PROVE done[i]
  <2>1. i \in k .. Size /\ i # Size /\ i \notin T
    BY <1>1, <1>2, SizeFacts
  <2>. QED BY <2>1
<1>4. \E c \in k .. Size : /\ \A i \in k .. c - 1 : done[i]
                           /\ c = Size \/ ~done[c]
  BY <1>2, <1>3
<1> DEFINE c == Cursor(done, k)
<1>5. /\ c \in k .. Size
      /\ \A i \in k .. c - 1 : done[i]
      /\ c = Size \/ ~done[c]
  BY <1>4 DEF Cursor
<1> HIDE DEF c
<1>6. \A i \in k .. c - 1 : i \in Steps
  BY <1>5, SizeFacts
<1>. QED BY <1>5, <1>6 DEF c

\* A kick that holds the lock is inside a barrier.
LEMMA LockedInside ==
  ASSUME Inv, NEW t \in Threads, kick[t].pc = "locked"
  PROVE  LET r == RankOf(t) IN
         /\ r \in Ranks /\ client[r] # "outside" /\ lock[r] = t
         /\ kick[t].step = step[r] /\ step[r] \in Steps /\ step[r] \in Nat
         /\ epoch[r] = completed[r] + 1 /\ completed[r] \in Nat
         /\ epoch[r] \in 1 .. MaxEpoch
<1> DEFINE r == RankOf(t)
<1>1. r \in Ranks /\ step[r] \in 0 .. Size /\ completed[r] \in Nat /\ epoch[r] \in Nat
  BY ThreadFacts DEF Inv, TypeOK
<1>2. lock[r] = t /\ kick[t].step = step[r] /\ step[r] # Size /\ epoch[r] # 0
  BY DEF Inv, IndInv, KickInv
<1>3. client[r] # "outside" /\ epoch[r] = completed[r] + 1 /\ epoch[r] <= MaxEpoch
  BY <1>1, <1>2 DEF Inv, IndInv, WindowInv
<1>. QED BY <1>1, <1>2, <1>3, SizeFacts

\* The invariant on tokens, by sender and receiver.
LEMMA TokenOf ==
  ASSUME Inv, NEW q \in Ranks, NEW s \in Ranks, NEW k \in Steps,
         NEW e \in 1 .. MaxEpoch + 2, s = From(q, k)
  PROVE  OnePlace(s, q, k, e)
BY DEF Inv, IndInv, TokenInv

\* Covers in terms of the histories.
LEMMA CoversHistory ==
  ASSUME NEW a, NEW low, NEW e
  PROVE  Covers(a, low, e) <=> CoversIn(epoch, args, a, low, e)
BY DEF Covers, CoversIn

-----------------------------------------------------------------------------
(***************************************************************************)
(* The invariant is inductive.                                             *)
(***************************************************************************)
USE NAssumption, IdsAssumption, ArgsAssumption, MaxEpochAssumption,
    HelpedAssumption

-----------------------------------------------------------------------------
\* Before the first barrier nobody has entered, sent or heard.
LEMMA InitInv == Init => Inv
<1> SUFFICES ASSUME Init PROVE Inv
  OBVIOUS
<1>1. /\ Size \in Nat /\ Steps \subseteq Nat /\ Fresh \in Arg
      /\ Summarises(Fresh, {}) /\ NotKicking \in Kicks
      /\ \A t \in Threads : RankOf(t) \in Ranks
  BY SizeFacts, FreshSummarises, ThreadFacts
<1>2. TypeOK
  <2>1. [flags |-> {}, value |-> 0] \in Arg
    BY DEF Arg
  <2>2. [i \in {0, 1} |-> Fresh] \in [Phases -> Arg]
    BY <1>1 DEF Phases
  <2>3. epoch \in [Ranks -> Nat] /\ completed \in [Ranks -> Nat]
        /\ outcome \in [Ranks -> Outcomes \cup {NoOutcome}]
    BY DEF Init, SpecInit
  <2>4. args \in [Ranks -> [Phases -> Arg]]
    BY <2>2 DEF Init, SpecInit
  <2>. QED BY <1>1, <2>1, <2>3, <2>4 DEF Init, TypeOK, Phases, Free
<1>3. \A r \in Ranks : /\ epoch[r] = 0 /\ completed[r] = 0 /\ phase[r] = 0
                       /\ step[r] = 0 /\ client[r] = "outside" /\ ~pf[r]
                       /\ \A p \in Phases : recv[r][p] = Fresh
                       /\ \A p \in Phases, k \in Steps : ~step_done[r][p][k]
  BY DEF Init, SpecInit
<1>4. \A t \in Threads : kick[t] = NotKicking /\ kick[t].pc = "out"
  BY DEF Init, NotKicking
<1>5. net = {} /\ handling = {}
  BY DEF Init
<1>6. WindowInv
  BY <1>1, <1>3 DEF WindowInv
<1>7. EnteredInv
  <2>1. \A r \in Ranks : Heard(r, step[r]) = {r}
    BY <1>3, HeardFacts
  <2>. QED BY <1>3, <2>1 DEF EnteredInv, Entered
<1>8. KickInv /\ MessageInv /\ UniqueInv /\ WireInv /\ UnsentInv
  BY <1>1, <1>3, <1>4, <1>5
     DEF KickInv, MessageInv, UniqueInv, WireInv, UnsentInv
<1>a. \A q \in Ranks, k \in Steps, e \in Nat \ {0} :
        ~InHandler(q, k, e) /\ ~OnWire(q, k, e) /\ ~Received(q, k, e)
  BY <1>1, <1>3, <1>5 DEF InHandler, OnWire, Received, Phases
<1>9. TokenInv
  <2> SUFFICES ASSUME NEW q \in Ranks, NEW k \in Steps, NEW e \in 1 .. MaxEpoch + 2
               PROVE  OnePlace(From(q, k), q, k, e)
    BY DEF TokenInv
  <2>1. PICK s \in Ranks : s = From(q, k)
    BY <1>1, PeerFacts
  <2>2. ~Issued(s, k, e) /\ ~Pending(s, k, e)
    BY <1>3, <1>4 DEF Issued, Pending
  <2>. QED BY <1>a, <2>1, <2>2 DEF OnePlace
<1>10. RecvInv
  <2> SUFFICES ASSUME NEW r \in Ranks, NEW d \in {1, 2}
               PROVE  Covers(recv[r][(completed[r] + d) % 2],
                             Merged(r, completed[r] + d), completed[r] + d)
    BY DEF RecvInv
  <2>1. completed[r] + d = d /\ d % 2 \in Phases /\ d \in Nat \ {0}
    BY <1>3, Parity
  <2>2. Merged(r, d) = {}
    BY <1>a, <1>3, <2>1 DEF Merged
  <2>3. Covers(Fresh, {}, d)
    BY <1>1, CoversNone, CoversHistory DEF Fresh
  <2>. QED BY <1>3, <2>1, <2>2, <2>3
<1>. QED BY <1>2, <1>6, <1>7, <1>8, <1>9, <1>10 DEF Inv, IndInv

-----------------------------------------------------------------------------
(***************************************************************************)
(* Steps that change neither what was issued nor where it is: a kick that  *)
(* starts, or finds nothing to do; entering wait and try; a failed try.    *)
(***************************************************************************)
LEMMA QuietStep ==
  ASSUME Inv, TypeOK', KickInv',
         UNCHANGED <<local, step, phase, step_done, recv, net, handling, specVars>>,
         \A r \in Ranks : \/ client'[r] = client[r]
                          \/ /\ client[r] \in {"inside", "waiting", "trying"}
                             /\ client'[r] \in {"inside", "waiting", "trying"},
         \A t \in Threads : /\ kick'[t].pc = "send" <=> kick[t].pc = "send"
                            /\ kick[t].pc = "send" => kick'[t] = kick[t]
  PROVE  Inv'
<1>1. WindowInv'
  BY DEF Inv, IndInv, WindowInv, specVars
<1>2. \A r \in Ranks : \A e : Entered(r, e)' = Entered(r, e)
  BY DEF Entered, specVars
<1>3. EnteredInv'
  <2>1. \A r \in Ranks : Heard(r, step[r]) \subseteq Ranks
    BY HeardFacts, SizeFacts DEF Inv, TypeOK
  <2>. QED BY <1>2, <2>1 DEF Inv, IndInv, EnteredInv, specVars
<1>4. MessageInv'
  BY DEF Inv, IndInv, MessageInv
<1>5. \A s \in Ranks, k \in Steps, e \in Nat :
        Issued(s, k, e)' = Issued(s, k, e) /\ Pending(s, k, e)' = Pending(s, k, e)
  BY DEF Issued, Pending, Unsent, specVars
<1>6. \A q \in Ranks, k \in Steps, e \in Nat :
        /\ OnWire(q, k, e)' = OnWire(q, k, e)
        /\ InHandler(q, k, e)' = InHandler(q, k, e)
        /\ Received(q, k, e)' = Received(q, k, e)
  BY DEF OnWire, InHandler, Received, specVars
<1>7. TokenInv'
  <2> SUFFICES ASSUME NEW q \in Ranks, NEW k \in Steps, NEW e \in 1 .. MaxEpoch + 2
               PROVE  OnePlace(From(q, k), q, k, e)'
    BY DEF TokenInv
  <2>1. PICK s \in Ranks : s = From(q, k)
    BY PeerFacts, SizeFacts
  <2>. QED BY <1>5, <1>6, <2>1, TokenOf DEF OnePlace
<1>8. UniqueInv'
  BY DEF Inv, IndInv, UniqueInv, Unsent
<1>9. \A a, low, e : Covers(a, low, e)' = Covers(a, low, e)
  BY DEF Covers, specVars
<1>10. RecvInv'
  <2>1. \A r \in Ranks, e \in Nat : Merged(r, e)' = Merged(r, e)
    BY <1>6 DEF Merged, specVars
  <2>2. \A r \in Ranks, d \in {1, 2} : completed[r] + d \in Nat
    BY DEF Inv, TypeOK
  <2>. QED BY <1>9, <2>1, <2>2 DEF Inv, IndInv, RecvInv, specVars
<1>11. WireInv'
  BY <1>9 DEF Inv, IndInv, WireInv
<1>12. UnsentInv'
  BY <1>9 DEF Inv, IndInv, UnsentInv, Unsent
<1>. QED BY <1>1, <1>3, <1>4, <1>7, <1>8, <1>10, <1>11, <1>12 DEF Inv, IndInv

\* A kick that finds no further step done changes nothing the barrier sees.
LEMMA QuietKickStep ==
  ASSUME Inv, NEW t \in Threads,
         \/ KickCall(t) \/ KickEnter(t)
         \/ /\ KickLocked(t)
            /\ Cursor(step_done[RankOf(t)][phase[RankOf(t)]], kick[t].step)
                 = kick[t].step
  PROVE  Inv' /\ UNCHANGED specVars
<1> DEFINE r == RankOf(t)
<1>1. /\ r \in Ranks /\ kick[t] \in Kicks /\ NotKicking \in Kicks
      /\ Free \notin Threads /\ NotKicking.pc = "out"
      /\ epoch[r] \in Nat /\ completed[r] \in Nat /\ step[r] \in 0 .. Size
  BY ThreadFacts DEF Inv, TypeOK, Threads, Free, NotKicking
<1>2. UNCHANGED <<client, local, step, phase, step_done, recv, pf, net, handling,
                  specVars>>
  BY DEF KickCall, KickEnter, KickLocked
<1>3. \/ kick' = [kick EXCEPT ![t] = NotKicking]
      \/ kick' = [kick EXCEPT ![t] = [@ EXCEPT !.pc = "enter"]]
      \/ kick' = [kick EXCEPT ![t] = [@ EXCEPT !.pc = "locked", !.step = step[r]]]
  BY DEF KickCall, KickEnter, KickLocked
<1>4. [kick[t] EXCEPT !.pc = "enter"] \in Kicks
      /\ [kick[t] EXCEPT !.pc = "enter"].pc = "enter"
      /\ [kick[t] EXCEPT !.pc = "locked", !.step = step[r]] \in Kicks
      /\ [kick[t] EXCEPT !.pc = "locked", !.step = step[r]].pc = "locked"
      /\ [kick[t] EXCEPT !.pc = "locked", !.step = step[r]].step = step[r]
  BY <1>1 DEF Kicks
<1>5. kick[t].pc # "send" /\ kick'[t].pc # "send" /\ kick' \in [Threads -> Kicks]
      /\ \A u \in Threads : u # t => kick'[u] = kick[u]
  <2>1. kick[t].pc # "send"
    BY DEF KickCall, KickEnter, KickLocked
  <2>2. kick \in [Threads -> Kicks]
    BY DEF Inv, TypeOK
  <2>. QED BY <1>1, <1>3, <1>4, <2>1, <2>2
<1>6. lock' = lock \/ lock' = [lock EXCEPT ![r] = t] \/ lock' = [lock EXCEPT ![r] = Free]
  BY DEF KickCall, KickEnter, KickLocked
<1>7. TypeOK'
  <2>1. lock' \in [Ranks -> Threads \cup {Free}]
    BY <1>6 DEF Inv, TypeOK
  <2>. QED BY <1>2, <1>5, <2>1 DEF Inv, TypeOK, specVars
<1>8. KickInv'
  <2> SUFFICES ASSUME NEW u \in Threads
               PROVE  LET q == RankOf(u) IN
                      /\ kick'[u].pc = "locked" =>
                           lock'[q] = u /\ kick'[u].step = step[q] /\ step[q] # Size
                      /\ kick'[u].pc = "send" =>
                           /\ kick'[u].phase = kick'[u].epoch % 2
                           /\ kick'[u].epoch \in 1 .. epoch[q]
                           /\ kick'[u].step >= 1 /\ kick'[u].numsteps >= 1
                           /\ kick'[u].step + kick'[u].numsteps <= Size
                      /\ epoch[q] = 0 => kick'[u].pc = "out" /\ ~pf[q]
    BY <1>2 DEF KickInv, specVars
  <2> DEFINE q == RankOf(u)
  <2>1. /\ q \in Ranks
        /\ kick[u].pc = "locked" =>
             lock[q] = u /\ kick[u].step = step[q] /\ step[q] # Size
        /\ kick[u].pc = "send" =>
             /\ kick[u].phase = kick[u].epoch % 2
             /\ kick[u].epoch \in 1 .. epoch[q]
             /\ kick[u].step >= 1 /\ kick[u].numsteps >= 1
             /\ kick[u].step + kick[u].numsteps <= Size
        /\ epoch[q] = 0 => kick[u].pc = "out" /\ ~pf[q]
    BY ThreadFacts DEF Inv, IndInv, KickInv
  <2>2. CASE u # t
    <3>1. kick[u].pc = "locked" => lock'[q] = lock[q]
      <4>1. CASE q # r
        BY <1>1, <1>6, <2>1, <4>1 DEF Inv, TypeOK
      <4>2. CASE q = r /\ kick[u].pc = "locked"
        <5>1. lock[r] = u /\ lock[r] # Free
          BY <1>1, <2>1, <4>2
        <5>2. kick[t].pc # "locked"
          BY <2>2, <5>1, LockedInside
        <5>. QED BY <5>1, <5>2 DEF KickCall, KickEnter, KickLocked
      <4>. QED BY <4>1, <4>2
    <3>. QED BY <1>5, <2>1, <2>2, <3>1
  <2>3. CASE u = t
    <3>1. CASE KickCall(t)
      <4>1. kick'[t].pc = "enter"
        BY <1>4, <3>1 DEF KickCall, Inv, TypeOK
      <4>2. epoch[r] # 0
        <5>1. client[r] = "waiting" \/ pf[r]
          BY <3>1 DEF KickCall
        <5>2. client[r] = "waiting" => epoch[r] = completed[r] + 1
          BY <1>1 DEF Inv, IndInv, WindowInv
        <5>. QED BY <1>1, <2>1, <2>3, <5>1, <5>2
      <4>. QED BY <2>3, <4>1, <4>2
    <3>2. CASE KickEnter(t)
      <4>1. epoch[r] # 0
        BY <2>1, <2>3, <3>2 DEF KickEnter
      <4>2. CASE step[r] = Size \/ lock[r] # Free
        <5>1. kick'[t] = NotKicking
          BY <3>2, <4>2 DEF KickEnter, Inv, TypeOK
        <5>. QED BY <1>1, <2>3, <4>1, <5>1
      <4>3. CASE ~(step[r] = Size \/ lock[r] # Free)
        <5>1. lock'[r] = t
          BY <1>1, <3>2, <4>3 DEF KickEnter, Inv, TypeOK
        <5>2. kick'[t] = [kick[t] EXCEPT !.pc = "locked", !.step = step[r]]
          BY <3>2, <4>3 DEF KickEnter, Inv, TypeOK
        <5>. QED BY <1>4, <2>3, <4>1, <4>3, <5>1, <5>2
      <4>. QED BY <4>2, <4>3
    <3>3. CASE /\ KickLocked(t)
               /\ Cursor(step_done[r][phase[r]], kick[t].step) = kick[t].step
      <4>1. kick'[t] = NotKicking
        BY <3>3 DEF KickLocked, Inv, TypeOK
      <4>2. epoch[r] # 0
        BY <2>1, <2>3, <3>3 DEF KickLocked
      <4>. QED BY <1>1, <2>3, <4>1, <4>2
    <3>. QED BY <3>1, <3>2, <3>3
  <2>. QED BY <2>2, <2>3
<1>9. \A u \in Threads : /\ kick'[u].pc = "send" <=> kick[u].pc = "send"
                         /\ kick[u].pc = "send" => kick'[u] = kick[u]
  BY <1>5
<1>. QED BY <1>2, <1>7, <1>8, <1>9, QuietStep

\* Starting to wait or to try, or giving up, changes no barrier's state.
LEMMA QuietCallStep ==
  ASSUME Inv, NEW r \in Ranks, Wait(r) \/ Try(r) \/ TryFail(r)
  PROVE  Inv' /\ UNCHANGED specVars
<1>1. UNCHANGED <<lock, local, step, phase, step_done, recv, net, handling, specVars>>
  BY DEF Wait, Try, TryFail
<1>2. \E c \in {"inside", "waiting", "trying"} :
        /\ client[r] \in {"inside", "waiting", "trying"}
        /\ client' = [client EXCEPT ![r] = c]
  BY DEF Wait, Try, TryFail
<1>3. pf' = pf \/ pf' = [pf EXCEPT ![r] = FALSE]
  BY DEF Wait, Try, TryFail, PfDisable
<1>4. /\ Main(r) \in Threads /\ RankOf(Main(r)) = r /\ kick[Main(r)] \in Kicks
      /\ \A t \in Threads : RankOf(t) \in Ranks
      /\ epoch[r] \in Nat /\ completed[r] \in Nat
  BY ThreadFacts DEF Inv, TypeOK
<1>5. epoch[r] # 0
  BY <1>2, <1>4 DEF Inv, IndInv, WindowInv
<1>6. \/ kick' = kick
      \/ /\ kick[Main(r)].pc = "out"
         /\ kick' = [kick EXCEPT ![Main(r)] = [@ EXCEPT !.pc = "enter"]]
  BY DEF Wait, Try, TryFail, MainFree
<1>7. [kick[Main(r)] EXCEPT !.pc = "enter"] \in Kicks
      /\ [kick[Main(r)] EXCEPT !.pc = "enter"].pc = "enter"
  BY <1>4 DEF Kicks
<1>8. kick' \in [Threads -> Kicks]
  BY <1>4, <1>6, <1>7 DEF Inv, TypeOK
<1>9. client' \in [Ranks -> {"outside", "flipping", "sending", "inside",
                             "waiting", "trying"}]
  BY <1>2 DEF Inv, TypeOK
<1>10. TypeOK'
  BY <1>1, <1>3, <1>8, <1>9 DEF Inv, TypeOK, specVars
<1>11. \A t \in Threads : \/ kick'[t] = kick[t]
                          \/ /\ RankOf(t) = r /\ kick[t].pc = "out"
                             /\ kick'[t].pc = "enter"
  BY <1>4, <1>6, <1>7 DEF Inv, TypeOK
<1>12. KickInv'
  <2>1. \A q \in Ranks : pf'[q] => pf[q]
    BY <1>3 DEF Inv, TypeOK
  <2>. QED BY <1>1, <1>4, <1>5, <1>11, <2>1 DEF Inv, IndInv, KickInv, specVars
<1>13. \A q \in Ranks : \/ client'[q] = client[q]
                        \/ /\ client[q] \in {"inside", "waiting", "trying"}
                           /\ client'[q] \in {"inside", "waiting", "trying"}
  BY <1>2 DEF Inv, TypeOK
<1>. QED BY <1>1, <1>10, <1>11, <1>12, <1>13, QuietStep

\* Where nothing changes the invariant stays.
LEMMA StutteringStep ==
  ASSUME Inv, UNCHANGED vars
  PROVE  Inv' /\ UNCHANGED specVars
<1>1. TypeOK' /\ KickInv'
  BY DEF vars, amdVars, specVars, Inv, TypeOK, IndInv, KickInv
<1>. QED BY <1>1, QuietStep DEF vars, amdVars, specVars
-----------------------------------------------------------------------------
(***************************************************************************)
(* Notification.                                                           *)
(***************************************************************************)
\* A notification replaces the argument of a barrier that no rank awaits any
\* more, so that what is awaited is covered as before.
LEMMA NotifyCovers ==
  ASSUME Inv, NEW r \in Ranks, SpecNotify(r), NEW q \in Ranks, NEW e \in Nat,
         completed[q] < e, NEW a, NEW low, Covers(a, low, e), NEW low2 \in SUBSET low
  PROVE  Covers(a, low2, e)'
<1>1. /\ completed[r] \in Nat /\ completed[q] \in Nat /\ epoch[r] = completed[r]
      /\ completed[r] <= completed[q] + 1
  BY CloseTogether DEF SpecNotify
<1>2. epoch' = [epoch EXCEPT ![r] = completed[r] + 1]
      /\ \E b \in NotifyArgs : args' = [args EXCEPT ![r][(completed[r] + 1) % 2] = b]
  BY <1>1 DEF SpecNotify
<1>3. epoch \in [Ranks -> Nat] /\ args \in [Ranks -> [Phases -> Arg]]
  BY DEF Inv, TypeOK
<1>4. ASSUME NEW x \in Ranks, epoch[x] >= e
      PROVE  epoch'[x] >= e /\ args'[x][e % 2] = args[x][e % 2]
  <2>1. CASE x = r
    <3>1. e = completed[r]
      BY <1>1, <1>4, <2>1
    <3>2. e % 2 # (completed[r] + 1) % 2 /\ e % 2 \in Phases
      BY <1>1, <3>1, Parity
    <3>. QED BY <1>1, <1>2, <1>3, <2>1, <3>1, <3>2
  <2>2. CASE x # r
    BY <1>2, <1>3, <1>4, <2>2
  <2>. QED BY <2>1, <2>2
<1>5. CoversIn(epoch, args, a, low, e)
  BY CoversHistory
<1>6. CoversIn(epoch', args', a, low2, e)
  BY <1>4, <1>5, CoversStable
<1>. QED BY <1>6 DEF Covers, CoversIn

\* A notify with peers: arguments recorded, the phase not flipped yet.
LEMMA NotifyStep ==
  ASSUME Inv, NEW r \in Ranks, Notify(r), Size # 0
  PROVE  Inv'
<1> DEFINE c == completed[r]
           arg == args'[r][epoch'[r] % 2]
<1>1. /\ Size \in Nat /\ Steps \subseteq Nat
      /\ \A t \in Threads : RankOf(t) \in Ranks
  BY SizeFacts, ThreadFacts
<1>2. /\ c \in Nat /\ epoch[r] = c /\ c < MaxEpoch /\ client[r] = "outside"
      /\ step[r] = (IF c = 0 THEN 0 ELSE Size)
      /\ epoch' = [epoch EXCEPT ![r] = c + 1]
      /\ UNCHANGED <<completed, outcome>>
  BY DEF Notify, SpecNotify, Inv, IndInv, WindowInv, TypeOK
<1>3. /\ local' = [local EXCEPT ![r] = arg]
      /\ client' = [client EXCEPT ![r] = "flipping"]
      /\ step' = [step EXCEPT ![r] = 0]
      /\ UNCHANGED <<recv, phase, lock, step_done, pf, kick, net, handling>>
  BY DEF Notify
<1>4. PICK b \in NotifyArgs : args' = [args EXCEPT ![r][(c + 1) % 2] = b]
  BY <1>2 DEF Notify, SpecNotify
<1>5. args' \in [Ranks -> [Phases -> Arg]] /\ arg \in Arg
      /\ \A q \in Ranks : q # r => args'[q] = args[q]
  <2>1. (c + 1) % 2 \in Phases /\ b \in Arg /\ args \in [Ranks -> [Phases -> Arg]]
    BY <1>2, Parity DEF Inv, TypeOK
  <2>2. epoch'[r] = c + 1
    BY <1>2 DEF Inv, TypeOK
  <2>. QED BY <1>4, <2>1, <2>2
<1> HIDE DEF arg
<1>6. TypeOK'
  <2>1. epoch' \in [Ranks -> Nat] /\ step' \in [Ranks -> 0 .. Size]
    BY <1>1, <1>2, <1>3 DEF Inv, TypeOK
  <2>2. /\ client' \in [Ranks -> {"outside", "flipping", "sending", "inside",
                                  "waiting", "trying"}]
        /\ local' \in [Ranks -> Arg]
    BY <1>3, <1>5 DEF Inv, TypeOK
  <2>. QED BY <1>2, <1>3, <1>5, <2>1, <2>2 DEF Inv, TypeOK
<1>7. /\ client'[r] = "flipping" /\ epoch'[r] = c + 1 /\ step'[r] = 0
      /\ local'[r] = arg
      /\ \A q \in Ranks : q # r =>
           /\ client'[q] = client[q] /\ epoch'[q] = epoch[q] /\ step'[q] = step[q]
           /\ local'[q] = local[q]
  BY <1>2, <1>3 DEF Inv, TypeOK
<1>8. WindowInv'
  <2> SUFFICES ASSUME NEW q \in Ranks
        PROVE /\ client'[q] = "outside" => /\ epoch'[q] = completed[q]
                                /\ step'[q] = (IF epoch'[q] = 0 THEN 0 ELSE Size)
              /\ client'[q] # "outside" => /\ epoch'[q] = completed[q] + 1
                                /\ local'[q] = args'[q][epoch'[q] % 2]
              /\ client'[q] = "flipping" => step'[q] = 0
              /\ client'[q] \in {"flipping", "sending"} => Size # 0
              /\ phase[q] = (IF client'[q] = "flipping" THEN completed[q]
                                                        ELSE epoch'[q]) % 2
              /\ epoch'[q] <= MaxEpoch
              /\ \A k \in Steps : k < step'[q] => ~step_done[q][epoch'[q] % 2][k]
    BY <1>2, <1>3 DEF WindowInv
  <2>1. CASE q # r
    BY <1>5, <1>7, <2>1 DEF Inv, IndInv, WindowInv
  <2>2. CASE q = r
    <3>1. phase[r] = c % 2
      BY <1>2 DEF Inv, IndInv, WindowInv
    <3>2. \A k \in Steps : ~(k < 0)
      BY <1>1 DEF Steps
    <3>. QED BY <1>2, <1>7, <2>2, <3>1, <3>2 DEF arg
  <2>. QED BY <2>1, <2>2
<1>9. EnteredInv'
  <2> SUFFICES ASSUME NEW q \in Ranks
        PROVE (/\ client[q] # "flipping" =>
                    \A x \in Heard(q, step[q]) : Entered(x, epoch[q])
               /\ \A x \in Ranks : Entered(x, completed[q]))'
    BY DEF EnteredInv
  <2>1. completed[q] \in Nat /\ epoch[q] \in Nat /\ Heard(q, step[q]) \subseteq Ranks
    BY <1>1, HeardFacts DEF Inv, TypeOK
  <2>2. (\A x \in Ranks : Entered(x, completed[q]))'
    BY <1>2, <1>7, <2>1 DEF Inv, IndInv, EnteredInv, Entered
  <2>3. ASSUME q # r, client[q] # "flipping"
        PROVE  (\A x \in Heard(q, step[q]) : Entered(x, epoch[q]))'
    <3>1. \A x \in Heard(q, step[q]) : Entered(x, epoch[q])
      BY <2>3 DEF Inv, IndInv, EnteredInv
    <3>2. step'[q] = step[q] /\ epoch'[q] = epoch[q]
      BY <1>7, <2>3
    <3>. QED BY <1>2, <1>7, <2>1, <3>1, <3>2 DEF Entered
  <2>. QED BY <1>7, <2>2, <2>3
<1>11. KickInv'
  <2>1. \A t \in Threads : kick[t].pc = "locked" => RankOf(t) # r
    BY <1>2, LockedInside
  <2>2. \A q \in Ranks : epoch'[q] >= epoch[q]
    BY <1>2, <1>7 DEF Inv, TypeOK
  <2>3. \A q \in Ranks : epoch'[q] \in Nat /\ epoch[q] \in Nat
    BY <1>6 DEF Inv, TypeOK
  <2>. QED BY <1>1, <1>3, <1>7, <2>1, <2>2, <2>3 DEF Inv, IndInv, KickInv
<1>12. MessageInv' /\ UniqueInv'
  BY <1>3 DEF Inv, IndInv, MessageInv, UniqueInv, Unsent
<1>13. \A s \in Ranks, k \in Steps, e \in Nat \ {0} :
         Issued(s, k, e)' = Issued(s, k, e) /\ Pending(s, k, e)' = Pending(s, k, e)
  <2> SUFFICES ASSUME NEW s \in Ranks, NEW k \in Steps, NEW e \in Nat \ {0}
        PROVE Issued(s, k, e)' = Issued(s, k, e) /\ Pending(s, k, e)' = Pending(s, k, e)
    OBVIOUS
  <2>1. CASE s # r
    BY <1>3, <1>7, <2>1 DEF Issued, Pending, Unsent
  <2>2. CASE s = r
    <3>1. epoch[r] = e => k <= step[r]
      BY <1>1, <1>2 DEF Steps
    <3>2. Issued(r, k, e)' = Issued(r, k, e)
      BY <1>2, <1>7, <3>1 DEF Issued
    <3>. QED BY <1>2, <1>3, <1>7, <2>2, <3>2 DEF Pending, Unsent
  <2>. QED BY <2>1, <2>2
<1>14. \A q \in Ranks, k \in Steps, e \in Nat :
         /\ OnWire(q, k, e)' = OnWire(q, k, e)
         /\ InHandler(q, k, e)' = InHandler(q, k, e)
         /\ Received(q, k, e)' = Received(q, k, e)
  <2> SUFFICES ASSUME NEW q \in Ranks, NEW k \in Steps, NEW e \in Nat
               PROVE  Received(q, k, e)' = Received(q, k, e)
    BY <1>3 DEF OnWire, InHandler
  <2>1. k \in Nat /\ completed[q] \in Nat
    BY <1>1 DEF Inv, TypeOK
  <2>2. CASE q # r
    BY <1>2, <1>3, <1>7, <2>2 DEF Received
  <2>3. CASE q = r
    BY <1>2, <1>3, <1>7, <2>1, <2>3 DEF Received
  <2>. QED BY <2>2, <2>3
<1>15. TokenInv'
  <2> SUFFICES ASSUME NEW q \in Ranks, NEW k \in Steps, NEW e \in 1 .. MaxEpoch + 2
               PROVE  OnePlace(From(q, k), q, k, e)'
    BY DEF TokenInv
  <2>1. PICK s \in Ranks : s = From(q, k)
    BY PeerFacts, <1>1
  <2>. QED BY <1>13, <1>14, <2>1, TokenOf DEF OnePlace
<1>16. SpecNotify(r)
  BY DEF Notify
<1>17. RecvInv'
  <2> SUFFICES ASSUME NEW q \in Ranks, NEW d \in {1, 2}
        PROVE Covers(recv[q][(completed[q] + d) % 2],
                     Merged(q, completed[q] + d), completed[q] + d)'
    BY DEF RecvInv
  <2>1. completed[q] + d \in Nat /\ completed[q] < completed[q] + d
    BY DEF Inv, TypeOK
  <2>2. PICK e \in Nat : e = completed[q] + d
    BY <2>1
  <2>3. PICK a : a = recv[q][e % 2]
    OBVIOUS
  <2>4. Covers(a, Merged(q, e), e)
    BY <2>2, <2>3 DEF Inv, IndInv, RecvInv
  <2>5. \A x : x \in Merged(q, e)' => x \in Merged(q, e)
    <3>1. q # r \/ (step'[q] = 0 /\ Size # 0)
      BY <1>7
    <3>. QED BY <1>7, <1>14, <3>1 DEF Merged
  <2>6. PICK low : low = Merged(q, e)'
    OBVIOUS
  <2>7. Covers(a, low, e)'
    BY <1>16, <2>1, <2>2, <2>4, <2>5, <2>6, NotifyCovers
  <2>8. a = recv'[q][e % 2] /\ e = completed'[q] + d
    BY <1>2, <1>3, <2>2, <2>3
  <2>. QED BY <2>6, <2>7, <2>8
<1>18. WireInv'
  <2> SUFFICES ASSUME NEW m \in net
               PROVE  Covers(m.arg, Heard(From(m.to, m.step), m.step), m.epoch)'
    BY <1>3 DEF WireInv
  <2>1. m.to \in Ranks /\ m.epoch \in Nat /\ completed[m.to] < m.epoch
    BY MessageToken
  <2>2. Covers(m.arg, Heard(From(m.to, m.step), m.step), m.epoch)
    BY DEF Inv, IndInv, WireInv
  <2>. QED BY <1>16, <2>1, <2>2, NotifyCovers
<1>19. UnsentInv'
  <2> SUFFICES ASSUME NEW t \in Threads, kick[t].pc = "send", NEW i \in Unsent(t)
               PROVE  Covers(kick[t].arg, Heard(RankOf(t), i), kick[t].epoch)'
    BY <1>3 DEF UnsentInv, Unsent
  <2>1. /\ Peer(RankOf(t), i) \in Ranks /\ kick[t].epoch \in Nat
        /\ completed[Peer(RankOf(t), i)] < kick[t].epoch
    BY UnsentToken
  <2>2. Covers(kick[t].arg, Heard(RankOf(t), i), kick[t].epoch)
    BY DEF Inv, IndInv, UnsentInv
  <2>3. PICK e \in Nat : e = kick[t].epoch
    BY <2>1
  <2>a. PICK a : a = kick[t].arg
    OBVIOUS
  <2>4. Covers(a, Heard(RankOf(t), i), e)'
    BY <1>16, <2>1, <2>2, <2>3, <2>a, NotifyCovers
  <2>. QED BY <1>3, <2>3, <2>4, <2>a
<1>. QED BY <1>6, <1>8, <1>9, <1>11, <1>12, <1>15, <1>17, <1>18, <1>19
         DEF Inv, IndInv

\* A team of one rank has no steps, no messages and no kicks that send.
LEMMA SingletonFacts ==
  ASSUME Inv, Size = 0
  PROVE  /\ Steps = {} /\ N = 1 /\ Ranks = {0} /\ net = {} /\ handling = {}
         /\ \A t \in Threads : kick[t].pc \notin {"send", "locked"}
<1>1. Steps = {} /\ N = 1 /\ Ranks = {0}
  BY SizeFacts, Powers DEF Steps, Ranks
<1>2. net = {} /\ handling = {}
  <2>1. Messages = {}
    BY <1>1 DEF Messages
  <2>. QED BY <2>1 DEF Inv, TypeOK
<1>3. ASSUME NEW t \in Threads, kick[t].pc \in {"send", "locked"} PROVE FALSE
  <2>1. kick[t] \in Kicks
    BY DEF Inv, TypeOK
  <2>2. kick[t].step \in Nat /\ kick[t].numsteps \in Nat
    BY <2>1 DEF Kicks
  <2>3. CASE kick[t].pc = "send"
    BY <2>2, <2>3 DEF Inv, IndInv, KickInv
  <2>4. CASE kick[t].pc = "locked"
    BY <1>1, <2>4, LockedInside
  <2>. QED BY <1>3, <2>3, <2>4
<1>. QED BY <1>1, <1>2, <1>3

\* A notify without peers is complete at once.
LEMMA NotifySingletonStep ==
  ASSUME Inv, NEW r \in Ranks, Notify(r), Size = 0
  PROVE  Inv'
<1> DEFINE c == completed[r]
           arg == args'[r][epoch'[r] % 2]
<1>1. /\ Steps = {} /\ Ranks = {r} /\ net = {} /\ handling = {}
      /\ \A t \in Threads : kick[t].pc \notin {"send", "locked"}
      /\ \A t \in Threads : RankOf(t) = r
  BY SingletonFacts, ThreadFacts
<1>2. /\ c \in Nat /\ epoch[r] = c /\ c < MaxEpoch /\ client[r] = "outside"
      /\ epoch' = [epoch EXCEPT ![r] = c + 1] /\ phase[r] = c % 2
      /\ step[r] = 0
      /\ UNCHANGED <<completed, outcome>>
  BY DEF Notify, SpecNotify, Inv, IndInv, WindowInv, TypeOK
<1>3. /\ local' = [local EXCEPT ![r] = arg]
      /\ client' = [client EXCEPT ![r] = "inside"]
      /\ step' = [step EXCEPT ![r] = 0]
      /\ recv' = [recv EXCEPT ![r][1 - phase[r]] = arg]
      /\ phase' = [phase EXCEPT ![r] = 1 - @]
      /\ UNCHANGED <<lock, step_done, pf, kick, net, handling>>
  BY DEF Notify
<1>4. PICK b \in NotifyArgs : args' = [args EXCEPT ![r][(c + 1) % 2] = b]
  BY <1>2 DEF Notify, SpecNotify
<1>5. args' \in [Ranks -> [Phases -> Arg]] /\ arg \in Arg
  <2>1. (c + 1) % 2 \in Phases /\ b \in Arg /\ args \in [Ranks -> [Phases -> Arg]]
    BY <1>2, Parity DEF Inv, TypeOK
  <2>2. epoch'[r] = c + 1
    BY <1>2 DEF Inv, TypeOK
  <2>. QED BY <1>4, <2>1, <2>2
<1> HIDE DEF arg
<1>6. /\ (c + 1) % 2 \in Phases /\ 1 - phase[r] = (c + 1) % 2
      /\ (c + 2) % 2 = c % 2 /\ c % 2 # (c + 1) % 2 /\ c % 2 \in Phases
  BY <1>2, Parity
<1>7. TypeOK'
  <2>1. epoch' \in [Ranks -> Nat] /\ step' \in [Ranks -> 0 .. Size]
    BY <1>2, <1>3, SizeFacts DEF Inv, TypeOK
  <2>2. /\ client' \in [Ranks -> {"outside", "flipping", "sending", "inside",
                                  "waiting", "trying"}]
        /\ local' \in [Ranks -> Arg]
    BY <1>3, <1>5 DEF Inv, TypeOK
  <2>3. recv' \in [Ranks -> [Phases -> Arg]] /\ phase' \in [Ranks -> Phases]
    BY <1>3, <1>5, <1>6 DEF Inv, TypeOK
  <2>. QED BY <1>2, <1>3, <1>5, <2>1, <2>2, <2>3 DEF Inv, TypeOK
<1>8. /\ client'[r] = "inside" /\ epoch'[r] = c + 1 /\ step'[r] = 0
      /\ local'[r] = arg /\ phase'[r] = (c + 1) % 2 /\ completed'[r] = c
      /\ recv'[r][(c + 1) % 2] = arg /\ recv'[r][c % 2] = recv[r][c % 2]
  BY <1>2, <1>3, <1>6 DEF Inv, TypeOK
<1>9. WindowInv'
  BY <1>1, <1>2, <1>8 DEF WindowInv, arg
<1>10. EnteredInv'
  <2>1. Heard(r, 0) = {r}
    BY HeardFacts
  <2>2. (\A q \in Heard(r, step[r]) : Entered(q, epoch[r]))'
    BY <1>8, <2>1 DEF Entered
  <2>3. (\A q \in Ranks : Entered(q, completed[r]))'
    BY <1>1, <1>2, <1>8 DEF Entered
  <2>4. \A q \in Ranks : q = r
    BY <1>1
  <2>. QED BY <2>2, <2>3, <2>4 DEF EnteredInv
<1>11. KickInv'
  BY <1>1, <1>2, <1>3, <1>8 DEF KickInv
<1>12. MessageInv' /\ UniqueInv' /\ TokenInv' /\ WireInv' /\ UnsentInv'
  BY <1>1, <1>3
     DEF MessageInv, UniqueInv, TokenInv, WireInv, UnsentInv
<1>13. RecvInv'
  <2> SUFFICES ASSUME NEW d \in {1, 2}
        PROVE Covers(recv[r][(completed[r] + d) % 2],
                     Merged(r, completed[r] + d), completed[r] + d)'
    BY <1>1 DEF RecvInv
  <2>1. PICK e \in Nat : e = c + d
    BY <1>2
  <2>2. PICK a : a = recv'[r][e % 2]
    OBVIOUS
  <2>3. PICK low : low = Merged(r, e)'
    OBVIOUS
  <2>4. Covers(a, low, e)'
    <3>1. CASE d = 1
      <4>1. CoversIn(epoch', args', args'[r][e % 2], {r}, e)
        <5>1. epoch'[r] >= e
          BY <1>2, <1>8, <2>1, <3>1
        <5>. QED BY <1>5, <5>1, CoversOne
      <4>2. a = args'[r][e % 2] /\ low \subseteq {r}
        BY <1>1, <1>8, <2>1, <2>2, <2>3, <3>1 DEF arg, Merged
      <4>3. CoversIn(epoch', args', a, low, e)
        BY <4>1, <4>2, CoversStable
      <4>. QED BY <4>3 DEF Covers, CoversIn
    <3>2. CASE d = 2
      <4>1. low = {}
        BY <1>1, <1>2, <1>8, <2>1, <2>3, <3>2 DEF Merged
      <4>2. Covers(a, Merged(r, e), e)
        <5>1. a = recv[r][e % 2]
          BY <1>6, <1>8, <2>1, <2>2, <3>2
        <5>. QED BY <2>1, <5>1 DEF Inv, IndInv, RecvInv
      <4>3. SpecNotify(r) /\ completed[r] < e /\ low \in SUBSET Merged(r, e)
        BY <1>2, <2>1, <4>1 DEF Notify
      <4>. QED BY <4>2, <4>3, NotifyCovers
    <3>. QED BY <3>1, <3>2
  <2>. QED BY <1>2, <2>1, <2>2, <2>3, <2>4
<1>. QED BY <1>7, <1>9, <1>10, <1>11, <1>12, <1>13 DEF Inv, IndInv

\* The phase is flipped outside the lock, with the new one's steps clear.
LEMMA FlipStep ==
  ASSUME Inv, NEW r \in Ranks, NotifyFlip(r)
  PROVE  Inv' /\ UNCHANGED specVars
<1> DEFINE e0 == epoch[r]
<1>1. /\ client[r] = "flipping" /\ client' = [client EXCEPT ![r] = "sending"]
      /\ phase' = [phase EXCEPT ![r] = 1 - @]
      /\ UNCHANGED <<lock, local, step, step_done, recv, pf, kick, net, handling>>
      /\ UNCHANGED specVars /\ UNCHANGED <<epoch, completed, args, outcome>>
  BY DEF NotifyFlip, specVars
<1>2. /\ completed[r] \in Nat /\ e0 = completed[r] + 1 /\ e0 \in Nat \ {0}
      /\ phase[r] = completed[r] % 2 /\ step[r] = 0 /\ Size # 0
      /\ e0 \in 1 .. MaxEpoch + 2
  BY <1>1 DEF Inv, IndInv, WindowInv, TypeOK
<1>3. 1 - phase[r] = e0 % 2 /\ e0 % 2 \in Phases
  BY <1>2, Parity
<1>4. /\ client'[r] = "sending" /\ phase'[r] = e0 % 2
      /\ \A q \in Ranks : q # r => client'[q] = client[q] /\ phase'[q] = phase[q]
  BY <1>1, <1>3 DEF Inv, TypeOK
<1>5. 0 \in Steps /\ Steps \subseteq Nat /\ \A t \in Threads : RankOf(t) \in Ranks
  BY <1>2, SizeFacts, ThreadFacts DEF Steps
<1>6. TypeOK'
  <2>1. phase' \in [Ranks -> Phases]
        /\ client' \in [Ranks -> {"outside", "flipping", "sending", "inside",
                                  "waiting", "trying"}]
    BY <1>1, <1>3 DEF Inv, TypeOK
  <2>. QED BY <1>1, <2>1 DEF Inv, TypeOK
<1>7. WindowInv'
  BY <1>1, <1>2, <1>4 DEF Inv, IndInv, WindowInv
<1>8. EnteredInv'
  <2> SUFFICES ASSUME NEW q \in Ranks
        PROVE (/\ client[q] # "flipping" =>
                    \A x \in Heard(q, step[q]) : Entered(x, epoch[q])
               /\ \A x \in Ranks : Entered(x, completed[q]))'
    BY DEF EnteredInv
  <2>1. Heard(q, step[q]) \subseteq Ranks
    BY <1>5, HeardFacts, SizeFacts DEF Inv, TypeOK
  <2>2. (\A x \in Ranks : Entered(x, completed[q]))'
    BY <1>1, <1>4 DEF Inv, IndInv, EnteredInv, Entered
  <2>3. ASSUME q # r, client[q] # "flipping"
        PROVE  (\A x \in Heard(q, step[q]) : Entered(x, epoch[q]))'
    <3>1. \A x \in Heard(q, step[q]) : Entered(x, epoch[q])
      BY <2>3 DEF Inv, IndInv, EnteredInv
    <3>. QED BY <1>1, <1>4, <2>1, <3>1 DEF Entered
  <2>4. ASSUME q = r
        PROVE  (\A x \in Heard(q, step[q]) : Entered(x, epoch[q]))'
    <3>1. Heard(r, 0) = {r}
      BY HeardFacts
    <3>. QED BY <1>1, <1>2, <1>4, <2>4, <3>1 DEF Entered
  <2>. QED BY <1>4, <2>2, <2>3, <2>4
<1>9. KickInv' /\ MessageInv' /\ UniqueInv'
  BY <1>1 DEF Inv, IndInv, KickInv, MessageInv, UniqueInv, Unsent
<1>10. \A q \in Ranks, k \in Steps, e \in Nat :
         /\ OnWire(q, k, e)' = OnWire(q, k, e)
         /\ InHandler(q, k, e)' = InHandler(q, k, e)
         /\ Received(q, k, e)' = Received(q, k, e)
  BY <1>1 DEF OnWire, InHandler, Received
<1>11. TokenInv'
  <2> SUFFICES ASSUME NEW q \in Ranks, NEW k \in Steps, NEW e \in 1 .. MaxEpoch + 2
               PROVE  OnePlace(From(q, k), q, k, e)'
    BY DEF TokenInv
  <2>1. PICK s \in Ranks : s = From(q, k)
    BY PeerFacts, <1>5
  <2>2. OnePlace(s, q, k, e)
    BY <2>1, TokenOf
  <2>3. CASE s = r /\ k = 0 /\ e = e0
    <3>1. ~Issued(s, k, e)
      BY <1>1, <1>2, <2>3 DEF Issued
    <3>2. Issued(s, k, e)'
      BY <1>1, <1>2, <1>4, <2>3 DEF Issued
    <3>3. Pending(s, k, e)'
      BY <1>1, <1>2, <1>4, <2>3 DEF Pending
    <3>. QED BY <1>10, <2>1, <2>2, <3>1, <3>2, <3>3 DEF OnePlace
  <2>4. CASE ~(s = r /\ k = 0 /\ e = e0)
    <3>1. Issued(s, k, e)' = Issued(s, k, e)
      <4>1. k \in Nat
        BY <1>5
      <4>. QED BY <1>1, <1>2, <1>4, <2>4, <4>1 DEF Issued
    <3>2. Pending(s, k, e)' = Pending(s, k, e)
      BY <1>1, <1>4, <2>4 DEF Pending, Unsent
    <3>. QED BY <1>10, <2>1, <2>2, <3>1, <3>2 DEF OnePlace
  <2>. QED BY <2>3, <2>4
<1>12. \A a, low, e : Covers(a, low, e)' = Covers(a, low, e)
  BY <1>1 DEF Covers
<1>13. RecvInv'
  <2>1. \A q \in Ranks, e \in Nat : Merged(q, e)' = Merged(q, e)
    BY <1>1, <1>10 DEF Merged
  <2>2. \A q \in Ranks, d \in {1, 2} : completed[q] + d \in Nat
    BY DEF Inv, TypeOK
  <2>. QED BY <1>1, <1>12, <2>1, <2>2 DEF Inv, IndInv, RecvInv
<1>14. WireInv' /\ UnsentInv'
  BY <1>1, <1>12 DEF Inv, IndInv, WireInv, UnsentInv, Unsent
<1>. QED BY <1>1, <1>6, <1>7, <1>8, <1>9, <1>11, <1>13, <1>14 DEF Inv, IndInv

-----------------------------------------------------------------------------
(***************************************************************************)
(* Sending.                                                                *)
(***************************************************************************)
\* A message that its sender still had to send is put on the wire.
LEMMA PostedStep ==
  ASSUME Inv, NEW s \in Ranks, NEW k0 \in Steps, NEW m0 \in Messages,
         m0.to = Peer(s, k0), m0.step = k0, m0.epoch \in 1 .. MaxEpoch,
         m0.phase = m0.epoch % 2, Pending(s, k0, m0.epoch),
         Covers(m0.arg, Heard(s, k0), m0.epoch),
         net' = net \cup {m0},
         UNCHANGED <<handling, step, step_done, recv, specVars>>,
         \A x \in Ranks, k \in Steps, e \in Nat :
           /\ Issued(x, k, e)' = Issued(x, k, e)
           /\ Pending(x, k, e)' <=> /\ Pending(x, k, e)
                                    /\ ~(x = s /\ k = k0 /\ e = m0.epoch)
  PROVE  /\ MessageInv' /\ TokenInv' /\ RecvInv' /\ WireInv'
         /\ (\A m, n \in net \cup handling : IsFor(m, n.to, n.step, n.epoch) => m = n)'
<1>1. /\ Peer(s, k0) \in Ranks /\ From(Peer(s, k0), k0) = s
      /\ Steps \subseteq Nat
      /\ UNCHANGED <<epoch, completed, args, outcome>>
  BY PeerFacts, SizeFacts DEF specVars
<1>2. MessageInv'
  BY DEF Inv, IndInv, MessageInv
<1>3. /\ ~OnWire(m0.to, k0, m0.epoch) /\ ~InHandler(m0.to, k0, m0.epoch)
      /\ ~Received(m0.to, k0, m0.epoch)
  <2>1. OnePlace(s, m0.to, k0, m0.epoch)
    <3>1. m0.epoch \in 1 .. MaxEpoch + 2
      OBVIOUS
    <3>. QED BY <1>1, <3>1, TokenOf
  <2>. QED BY <2>1 DEF OnePlace
<1>4. \A q \in Ranks, k \in Steps, e \in Nat :
        /\ OnWire(q, k, e)' <=> OnWire(q, k, e) \/ IsFor(m0, q, k, e)
        /\ InHandler(q, k, e)' = InHandler(q, k, e)
        /\ Received(q, k, e)' = Received(q, k, e)
  BY <1>1 DEF OnWire, InHandler, Received
<1>5. TokenInv'
  <2> SUFFICES ASSUME NEW q \in Ranks, NEW k \in Steps, NEW e \in 1 .. MaxEpoch + 2
               PROVE  OnePlace(From(q, k), q, k, e)'
    BY DEF TokenInv
  <2>1. PICK x \in Ranks : x = From(q, k)
    BY PeerFacts, <1>1
  <2>2. OnePlace(x, q, k, e)
    BY <2>1, TokenOf
  <2>3. IsFor(m0, q, k, e) <=> x = s /\ k = k0 /\ e = m0.epoch
    <3>1. k \in Nat /\ Peer(From(q, k), k) = q
      BY <1>1, PeerFacts
    <3>. QED BY <1>1, <2>1, <3>1 DEF IsFor
  <2>4. e \in Nat
    OBVIOUS
  <2>5. CASE x = s /\ k = k0 /\ e = m0.epoch
    <3>1. q = m0.to
      BY <2>3, <2>5 DEF IsFor
    <3>. QED BY <1>3, <1>4, <2>1, <2>2, <2>3, <2>4, <2>5, <3>1 DEF OnePlace
  <2>6. CASE ~(x = s /\ k = k0 /\ e = m0.epoch)
    BY <1>4, <2>1, <2>2, <2>3, <2>4, <2>6 DEF OnePlace
  <2>. QED BY <2>5, <2>6
<1>6. (\A m, n \in net \cup handling : IsFor(m, n.to, n.step, n.epoch) => m = n)'
  <2>1. \A n \in net \cup handling :
          ~IsFor(m0, n.to, n.step, n.epoch) /\ ~IsFor(n, m0.to, m0.step, m0.epoch)
    BY <1>3 DEF IsFor, OnWire, InHandler
  <2>. QED BY <2>1 DEF Inv, IndInv, UniqueInv
<1>7. \A a, low, e : Covers(a, low, e)' = Covers(a, low, e)
  BY <1>1 DEF Covers
<1>8. RecvInv'
  <2>1. \A q \in Ranks, e \in Nat : Merged(q, e)' = Merged(q, e)
    BY <1>1, <1>4 DEF Merged
  <2>2. \A q \in Ranks, d \in {1, 2} : completed[q] + d \in Nat
    BY DEF Inv, TypeOK
  <2>. QED BY <1>1, <1>7, <2>1, <2>2 DEF Inv, IndInv, RecvInv
<1>9. WireInv'
  BY <1>1, <1>7 DEF Inv, IndInv, WireInv
<1>. QED BY <1>2, <1>5, <1>6, <1>8, <1>9

\* The first message of a notify goes from its sender to the wire.
LEMMA SendStep ==
  ASSUME Inv, NEW r \in Ranks, NotifySend(r)
  PROVE  Inv' /\ UNCHANGED specVars
<1>1. /\ client[r] = "sending" /\ client' = [client EXCEPT ![r] = "inside"]
      /\ pf' = [pf EXCEPT ![r] = TeamAll]
      /\ net' = net \cup {Msg(Peer(r, 0), phase[r], 0, args[r][epoch[r] % 2],
                              epoch[r])}
      /\ UNCHANGED <<lock, local, step, phase, step_done, recv, kick, handling>>
      /\ UNCHANGED specVars /\ UNCHANGED <<epoch, completed, args, outcome>>
  BY DEF NotifySend, PfEnable, specVars
<1>2. /\ completed[r] \in Nat /\ epoch[r] = completed[r] + 1
      /\ epoch[r] \in 1 .. MaxEpoch /\ phase[r] = epoch[r] % 2 /\ Size # 0
  <2>1. completed[r] \in Nat /\ epoch[r] \in Nat
    BY DEF Inv, TypeOK
  <2>2. /\ epoch[r] = completed[r] + 1 /\ epoch[r] <= MaxEpoch
        /\ phase[r] = epoch[r] % 2 /\ Size # 0
    BY <1>1 DEF Inv, IndInv, WindowInv
  <2>. QED BY <2>1, <2>2
<1>3. /\ 0 \in Steps /\ Steps \subseteq Nat /\ \A t \in Threads : RankOf(t) \in Ranks
      /\ Peer(r, 0) \in Ranks /\ epoch[r] % 2 \in Phases
  <2>1. 0 \in Steps /\ Steps \subseteq Nat
    BY <1>2, SizeFacts DEF Steps
  <2>2. Peer(r, 0) \in Ranks
    BY PeerFacts, 0 \in Nat
  <2>3. epoch[r] % 2 \in Phases
    <3>1. epoch[r] \in Nat
      BY <1>2
    <3>. QED BY <3>1, Parity
  <2>. QED BY <2>1, <2>2, <2>3, ThreadFacts
<1>4. PICK e0 \in 1 .. MaxEpoch : e0 = epoch[r]
  BY <1>2
<1>5. PICK m0 : m0 = Msg(Peer(r, 0), phase[r], 0, args[r][epoch[r] % 2], epoch[r])
  OBVIOUS
<1>6. /\ m0 \in Messages /\ m0.to = Peer(r, 0) /\ m0.step = 0 /\ m0.epoch = e0
      /\ m0.phase = e0 % 2 /\ m0.arg = args[r][e0 % 2]
  <2>1. args[r][epoch[r] % 2] \in Arg
    BY <1>3 DEF Inv, TypeOK
  <2>. QED BY <1>2, <1>3, <1>4, <1>5, <2>1 DEF Msg, Messages
<1>7. Pending(r, 0, e0)
  BY <1>1, <1>4 DEF Pending
<1>8. Covers(m0.arg, Heard(r, 0), e0)
  <2>1. CoversIn(epoch, args, args[r][e0 % 2], {r}, e0)
    <3>1. epoch[r] >= e0 /\ e0 \in Nat
      BY <1>4
    <3>. QED BY <3>1, CoversOne DEF Inv, TypeOK
  <2>2. Heard(r, 0) = {r}
    BY HeardFacts
  <2>. QED BY <1>6, <2>1, <2>2 DEF Covers, CoversIn
<1>9. \A q \in Ranks : /\ q # r => client'[q] = client[q] /\ pf'[q] = pf[q]
                       /\ q = r => client'[q] = "inside"
  BY <1>1 DEF Inv, TypeOK
<1>10. \A x \in Ranks, k \in Steps, e \in Nat :
         /\ Issued(x, k, e)' = Issued(x, k, e)
         /\ Pending(x, k, e)' <=> /\ Pending(x, k, e)
                                  /\ ~(x = r /\ k = 0 /\ e = e0)
  <2> SUFFICES ASSUME NEW x \in Ranks, NEW k \in Steps, NEW e \in Nat
        PROVE /\ Issued(x, k, e)' = Issued(x, k, e)
              /\ Pending(x, k, e)' <=> /\ Pending(x, k, e)
                                       /\ ~(x = r /\ k = 0 /\ e = e0)
    OBVIOUS
  <2>1. Issued(x, k, e)' = Issued(x, k, e)
    BY <1>1, <1>9 DEF Issued
  <2>2. \A t \in Threads : kick[t].pc = "send" => 0 \notin Unsent(t)
    <3>1. \A t \in Threads : kick[t].pc = "send" => kick[t].step >= 1
      BY DEF Inv, IndInv, KickInv
    <3>2. \A t \in Threads : kick[t].step \in 0 .. Size
      BY DEF Inv, TypeOK, Kicks
    <3>. QED BY <3>1, <3>2, SizeFacts DEF Unsent
  <2>3. CASE x # r
    BY <1>1, <1>9, <2>1, <2>3 DEF Pending, Unsent
  <2>4. CASE x = r
    BY <1>1, <1>4, <1>9, <2>1, <2>2, <2>4 DEF Pending, Unsent
  <2>. QED BY <2>3, <2>4
<1>11. /\ MessageInv' /\ TokenInv' /\ RecvInv' /\ WireInv'
       /\ (\A m, n \in net \cup handling : IsFor(m, n.to, n.step, n.epoch) => m = n)'
  <2>1. /\ 0 \in Steps /\ m0 \in Messages /\ m0.to = Peer(r, 0) /\ m0.step = 0
        /\ m0.epoch \in 1 .. MaxEpoch /\ m0.phase = m0.epoch % 2
        /\ Pending(r, 0, m0.epoch) /\ Covers(m0.arg, Heard(r, 0), m0.epoch)
    BY <1>3, <1>6, <1>7, <1>8
  <2>2. /\ net' = net \cup {m0}
        /\ UNCHANGED <<handling, step, step_done, recv, specVars>>
    BY <1>1, <1>5
  <2>3. \A x \in Ranks, k \in Steps, e \in Nat :
          /\ Issued(x, k, e)' = Issued(x, k, e)
          /\ Pending(x, k, e)' <=> /\ Pending(x, k, e)
                                   /\ ~(x = r /\ k = 0 /\ e = m0.epoch)
    BY <1>6, <1>10
  <2>. QED BY <2>1, <2>2, <2>3, PostedStep
<1>12. UniqueInv'
  BY <1>1, <1>11 DEF Inv, IndInv, UniqueInv, Unsent
<1>13. TypeOK'
  <2>1. client' \in [Ranks -> {"outside", "flipping", "sending", "inside",
                               "waiting", "trying"}]
        /\ pf' \in [Ranks -> BOOLEAN] /\ net' \subseteq Messages
    BY <1>1, <1>5, <1>6 DEF Inv, TypeOK
  <2>. QED BY <1>1, <2>1 DEF Inv, TypeOK
<1>14. WindowInv'
  BY <1>1, <1>2, <1>9 DEF Inv, IndInv, WindowInv
<1>15. EnteredInv'
  <2>1. \A q \in Ranks : Heard(q, step[q]) \subseteq Ranks
    BY <1>3, HeardFacts, SizeFacts DEF Inv, TypeOK
  <2>. QED BY <1>1, <1>9, <2>1 DEF Inv, IndInv, EnteredInv, Entered
<1>16. KickInv'
  <2>1. \A q \in Ranks : epoch[q] = 0 => q # r
    BY <1>2
  <2>. QED BY <1>1, <1>3, <1>9, <2>1 DEF Inv, IndInv, KickInv
<1>17. UnsentInv'
  <2>1. \A a, low, e : Covers(a, low, e)' = Covers(a, low, e)
    BY <1>1 DEF Covers
  <2>. QED BY <1>1, <2>1 DEF Inv, IndInv, UnsentInv, Unsent
<1>. QED BY <1>1, <1>11, <1>12, <1>13, <1>14, <1>15, <1>16, <1>17 DEF Inv, IndInv

\* A message of a kick goes from its sender to the wire.
LEMMA KickSendStep ==
  ASSUME Inv, NEW t \in Threads, KickSend(t)
  PROVE  Inv' /\ UNCHANGED specVars
<1> DEFINE r == RankOf(t)
           k0 == kick[t].step
<1>1. /\ kick[t].pc = "send"
      /\ net' = net \cup {Msg(Peer(r, k0), kick[t].phase, k0, kick[t].arg,
                              kick[t].epoch)}
      /\ kick' = [kick EXCEPT ![t] =
           IF kick[t].numsteps = 1 THEN NotKicking
           ELSE [kick[t] EXCEPT !.step = @ + 1, !.numsteps = @ - 1]]
      /\ UNCHANGED <<client, lock, local, step, phase, step_done, recv, pf, handling>>
      /\ UNCHANGED specVars /\ UNCHANGED <<epoch, completed, args, outcome>>
  BY DEF KickSend, specVars
<1>2. /\ kick[t] \in Kicks /\ k0 \in Nat /\ kick[t].numsteps \in Nat
      /\ k0 >= 1 /\ kick[t].numsteps >= 1 /\ k0 + kick[t].numsteps <= Size
      /\ kick[t].phase = kick[t].epoch % 2 /\ kick[t].phase \in Phases
      /\ Size \in Nat /\ epoch[r] # 0
  <2>1. kick[t] \in Kicks /\ Size \in Nat
    BY SizeFacts DEF Inv, TypeOK
  <2>2. k0 \in Nat /\ kick[t].numsteps \in Nat /\ kick[t].phase \in Phases
    BY <2>1 DEF Kicks
  <2>. QED BY <1>1, <2>1, <2>2 DEF Inv, IndInv, KickInv
<1>3. k0 \in Unsent(t)
  BY <1>2 DEF Unsent
<1>4. /\ r \in Ranks /\ Peer(r, k0) \in Ranks /\ k0 \in Steps
      /\ kick[t].epoch \in 1 .. MaxEpoch /\ kick[t].arg \in Arg
      /\ Pending(r, k0, kick[t].epoch)
  BY <1>1, <1>3, UnsentToken
<1>5. PICK m0 : m0 = Msg(Peer(r, k0), kick[t].phase, k0, kick[t].arg, kick[t].epoch)
  OBVIOUS
<1>6. /\ m0 \in Messages /\ m0.to = Peer(r, k0) /\ m0.step = k0
      /\ m0.epoch = kick[t].epoch /\ m0.epoch \in 1 .. MaxEpoch
      /\ m0.phase = m0.epoch % 2 /\ m0.arg = kick[t].arg
  BY <1>2, <1>4, <1>5 DEF Msg, Messages
<1>7. PICK k1 \in Steps : k1 = k0
  BY <1>4
<1>8. Covers(m0.arg, Heard(r, k1), m0.epoch)
  BY <1>1, <1>3, <1>6, <1>7 DEF Inv, IndInv, UnsentInv
<1>9. /\ kick' \in [Threads -> Kicks]
      /\ \A u \in Threads : u # t => kick'[u] = kick[u]
      /\ kick[t].numsteps = 1 => kick'[t].pc = "out"
      /\ kick[t].numsteps # 1 =>
           /\ kick'[t].pc = "send" /\ kick'[t].step = k0 + 1
           /\ kick'[t].numsteps = kick[t].numsteps - 1
           /\ kick'[t].phase = kick[t].phase /\ kick'[t].arg = kick[t].arg
           /\ kick'[t].epoch = kick[t].epoch
  <2>1. kick \in [Threads -> Kicks] /\ NotKicking \in Kicks /\ NotKicking.pc = "out"
    BY ThreadFacts DEF Inv, TypeOK, NotKicking
  <2>2. CASE kick[t].numsteps = 1
    <3>1. kick' = [kick EXCEPT ![t] = NotKicking]
      BY <1>1, <2>2
    <3>. QED BY <2>1, <2>2, <3>1
  <2>3. CASE kick[t].numsteps # 1
    <3>1. PICK n : n = [kick[t] EXCEPT !.step = @ + 1, !.numsteps = @ - 1]
      OBVIOUS
    <3>2. /\ n \in Kicks /\ n.pc = kick[t].pc /\ n.step = k0 + 1
          /\ n.numsteps = kick[t].numsteps - 1 /\ n.phase = kick[t].phase
          /\ n.arg = kick[t].arg /\ n.epoch = kick[t].epoch
      <4>1. k0 + 1 \in 0 .. Size /\ kick[t].numsteps - 1 \in 0 .. Size
        BY <1>2, <2>3
      <4>. QED BY <1>2, <3>1, <4>1 DEF Kicks
    <3>3. kick' = [kick EXCEPT ![t] = n]
      BY <1>1, <2>3, <3>1
    <3>. QED BY <1>1, <2>1, <2>3, <3>2, <3>3
  <2>. QED BY <2>2, <2>3
<1>10. /\ kick'[t].pc = "send" => Unsent(t)' = Unsent(t) \ {k0}
       /\ kick'[t].pc # "send" => Unsent(t) = {k0}
       /\ \A u \in Threads : u # t => Unsent(u)' = Unsent(u)
  <2>1. Unsent(t) = k0 .. k0 + kick[t].numsteps - 1
    BY DEF Unsent
  <2>2. CASE kick[t].numsteps = 1
    BY <1>2, <1>9, <2>1, <2>2 DEF Unsent
  <2>3. CASE kick[t].numsteps # 1
    <3>1. Unsent(t)' = k0 + 1 .. (k0 + 1) + (kick[t].numsteps - 1) - 1
      BY <1>9, <2>3 DEF Unsent
    <3>2. k0 + 1 .. (k0 + 1) + (kick[t].numsteps - 1) - 1
            = (k0 .. k0 + kick[t].numsteps - 1) \ {k0}
      BY <1>2
    <3>. QED BY <1>9, <2>1, <2>3, <3>1, <3>2 DEF Unsent
  <2>. QED BY <2>2, <2>3
<1>11. \A x \in Ranks, k \in Steps, e \in Nat :
         /\ Issued(x, k, e)' = Issued(x, k, e)
         /\ Pending(x, k, e)' <=> /\ Pending(x, k, e)
                                  /\ ~(x = r /\ k = k1 /\ e = m0.epoch)
  <2> SUFFICES ASSUME NEW x \in Ranks, NEW k \in Steps, NEW e \in Nat
        PROVE /\ Issued(x, k, e)' = Issued(x, k, e)
              /\ Pending(x, k, e)' <=> /\ Pending(x, k, e)
                                       /\ ~(x = r /\ k = k1 /\ e = m0.epoch)
    OBVIOUS
  <2>1. Issued(x, k, e)' = Issued(x, k, e)
    BY <1>1 DEF Issued
  <2> DEFINE Has(u, y, j, f) == /\ RankOf(u) = y /\ kick[u].pc = "send"
                                /\ kick[u].epoch = f /\ j \in Unsent(u)
  <2>2. \A u \in Threads : Has(u, x, k, e)' <=>
          /\ Has(u, x, k, e)
          /\ ~(x = r /\ k = k1 /\ e = m0.epoch)
    <3>1. ASSUME NEW u \in Threads, u # t
          PROVE  /\ Has(u, x, k, e)' <=> Has(u, x, k, e)
                 /\ Has(u, x, k, e) => ~(x = r /\ k = k1 /\ e = m0.epoch)
      <4>1. Has(u, x, k, e)' <=> Has(u, x, k, e)
        BY <1>9, <1>10, <3>1
      <4>2. ASSUME Has(u, x, k, e), x = r, k = k1, e = m0.epoch PROVE FALSE
        <5>1. Unsent(t) \cap Unsent(u) = {}
          BY <1>1, <1>6, <3>1, <4>2 DEF Inv, IndInv, UniqueInv
        <5>. QED BY <1>3, <1>7, <4>2, <5>1
      <4>. QED BY <4>1, <4>2
    <3>2. Has(t, x, k, e)' <=>
            /\ Has(t, x, k, e) /\ ~(x = r /\ k = k1 /\ e = m0.epoch)
      BY <1>1, <1>6, <1>7, <1>9, <1>10
    <3>. QED BY <3>1, <3>2
  <2>3. (k = 0 /\ epoch[x] = e /\ client[x] = "sending") =>
          ~(x = r /\ k = k1 /\ e = m0.epoch)
    BY <1>2, <1>7
  <2>4. Pending(x, k, e) <=> \/ k = 0 /\ epoch[x] = e /\ client[x] = "sending"
                             \/ \E u \in Threads : Has(u, x, k, e)
    BY DEF Pending
  <2>5. Pending(x, k, e)' <=> \/ k = 0 /\ epoch[x] = e /\ client[x] = "sending"
                              \/ \E u \in Threads : Has(u, x, k, e)'
    BY <1>1 DEF Pending
  <2> HIDE DEF Has
  <2>. QED BY <2>1, <2>2, <2>3, <2>4, <2>5
<1>12. /\ MessageInv' /\ TokenInv' /\ RecvInv' /\ WireInv'
       /\ (\A m, n \in net \cup handling : IsFor(m, n.to, n.step, n.epoch) => m = n)'
  <2>1. /\ r \in Ranks /\ k1 \in Steps /\ m0 \in Messages
        /\ m0.to = Peer(r, k1) /\ m0.step = k1
        /\ m0.epoch \in 1 .. MaxEpoch /\ m0.phase = m0.epoch % 2
        /\ Pending(r, k1, m0.epoch) /\ Covers(m0.arg, Heard(r, k1), m0.epoch)
    <3>1. Pending(r, k1, m0.epoch)
      BY <1>4, <1>6, <1>7
    <3>. QED BY <1>4, <1>6, <1>7, <1>8, <3>1
  <2>2. /\ net' = net \cup {m0}
        /\ UNCHANGED <<handling, step, step_done, recv, specVars>>
    BY <1>1, <1>5
  <2>3. \A x \in Ranks, k \in Steps, e \in Nat :
          /\ Issued(x, k, e)' = Issued(x, k, e)
          /\ Pending(x, k, e)' <=> /\ Pending(x, k, e)
                                   /\ ~(x = r /\ k = k1 /\ e = m0.epoch)
    BY <1>11
  <2>. QED BY <2>1, <2>2, <2>3, PostedStep
<1>13. UniqueInv'
  <2> SUFFICES ASSUME NEW u \in Threads, NEW v \in Threads,
                      kick'[u].pc = "send", kick'[v].pc = "send", u # v,
                      RankOf(u) = RankOf(v), kick'[u].epoch = kick'[v].epoch
               PROVE  Unsent(u)' \cap Unsent(v)' = {}
    BY <1>12 DEF UniqueInv
  <2>1. \A w \in {u, v} : /\ kick[w].pc = "send" /\ kick[w].epoch = kick'[w].epoch
                          /\ Unsent(w)' \subseteq Unsent(w)
    BY <1>1, <1>9, <1>10
  <2>2. Unsent(u) \cap Unsent(v) = {}
    BY <2>1 DEF Inv, IndInv, UniqueInv
  <2>. QED BY <2>1, <2>2
<1>14. TypeOK'
  <2>1. net' \subseteq Messages
    BY <1>1, <1>5, <1>6 DEF Inv, TypeOK
  <2>. QED BY <1>1, <1>9, <2>1 DEF Inv, TypeOK
<1>15. WindowInv' /\ EnteredInv'
  BY <1>1 DEF Inv, IndInv, WindowInv, EnteredInv, Entered
<1>16. KickInv'
  <2> SUFFICES ASSUME NEW u \in Threads
               PROVE  LET q == RankOf(u) IN
                      /\ kick'[u].pc = "locked" =>
                           lock[q] = u /\ kick'[u].step = step[q] /\ step[q] # Size
                      /\ kick'[u].pc = "send" =>
                           /\ kick'[u].phase = kick'[u].epoch % 2
                           /\ kick'[u].epoch \in 1 .. epoch[q]
                           /\ kick'[u].step >= 1 /\ kick'[u].numsteps >= 1
                           /\ kick'[u].step + kick'[u].numsteps <= Size
                      /\ epoch[q] = 0 => kick'[u].pc = "out" /\ ~pf[q]
    BY <1>1 DEF KickInv
  <2>1. CASE u # t
    BY <1>9, <2>1 DEF Inv, IndInv, KickInv
  <2>2. CASE u = t
    <3>1. kick[t].epoch \in 1 .. epoch[r]
      BY <1>1 DEF Inv, IndInv, KickInv
    <3>. QED BY <1>2, <1>9, <2>2, <3>1
  <2>. QED BY <2>1, <2>2
<1>17. UnsentInv'
  <2>1. \A a, low, e : Covers(a, low, e)' = Covers(a, low, e)
    BY <1>1 DEF Covers
  <2>2. \A u \in Threads : kick'[u].pc = "send" =>
          /\ kick[u].pc = "send" /\ kick'[u].epoch = kick[u].epoch
          /\ kick'[u].arg = kick[u].arg /\ Unsent(u)' \subseteq Unsent(u)
    BY <1>1, <1>9, <1>10
  <2>. QED BY <2>1, <2>2 DEF Inv, IndInv, UnsentInv
<1>. QED BY <1>1, <1>12, <1>13, <1>14, <1>15, <1>16, <1>17 DEF Inv, IndInv
-----------------------------------------------------------------------------
(***************************************************************************)
(* Receiving.                                                              *)
(***************************************************************************)
LEMMA ReqhStep ==
  ASSUME Inv, NEW m \in net, NotifyReqh(m)
  PROVE  Inv' /\ UNCHANGED specVars
<1>1. /\ net' = net \ {m} /\ handling' = handling \cup {m}
      /\ recv' = [recv EXCEPT ![m.to][m.phase] = Merge(@, m.arg)]
      /\ UNCHANGED <<client, lock, local, step, phase, step_done, pf, kick>>
      /\ UNCHANGED specVars /\ UNCHANGED <<epoch, completed, args, outcome>>
  BY DEF NotifyReqh, specVars
<1>2. /\ m.to \in Ranks /\ m.step \in Steps /\ m.arg \in Arg /\ m.phase \in Phases
      /\ m.epoch \in 1 .. MaxEpoch /\ m.phase = m.epoch % 2
      /\ From(m.to, m.step) \in Ranks /\ m \in Messages
      /\ completed[m.to] < m.epoch /\ m.epoch <= completed[m.to] + 2
      /\ m.epoch \in Nat /\ m.epoch \in 1 .. MaxEpoch + 2
  <2>1. m \in Messages
    BY DEF Inv, TypeOK
  <2>. QED BY <2>1, MessageToken DEF Messages
<1>3. recv' \in [Ranks -> [Phases -> Arg]]
      /\ recv'[m.to][m.phase] = Merge(recv[m.to][m.phase], m.arg)
      /\ \A q \in Ranks, p \in Phases :
           q # m.to \/ p # m.phase => recv'[q][p] = recv[q][p]
  <2>1. recv \in [Ranks -> [Phases -> Arg]]
    BY DEF Inv, TypeOK
  <2>2. recv[m.to][m.phase] \in Arg
    BY <1>2, <2>1
  <2>3. Merge(recv[m.to][m.phase], m.arg) \in Arg
    BY <1>2, <2>2 DEF Merge, Arg, Flags
  <2>. QED BY <1>1, <1>2, <2>1, <2>3
<1>4. TypeOK'
  <2>1. net' \subseteq Messages /\ handling' \subseteq Messages
    BY <1>1, <1>2 DEF Inv, TypeOK
  <2>. QED BY <1>1, <1>3, <2>1 DEF Inv, TypeOK
<1>5. WindowInv' /\ EnteredInv' /\ KickInv' /\ MessageInv'
  BY <1>1 DEF Inv, IndInv, WindowInv, EnteredInv, Entered, KickInv, MessageInv
<1>6. UniqueInv'
  BY <1>1 DEF Inv, IndInv, UniqueInv, Unsent
<1>7. \A q \in Ranks, k \in Steps, e \in Nat :
        /\ Issued(q, k, e)' = Issued(q, k, e)
        /\ Pending(q, k, e)' = Pending(q, k, e)
        /\ Received(q, k, e)' = Received(q, k, e)
        /\ InHandler(q, k, e)' <=> InHandler(q, k, e) \/ IsFor(m, q, k, e)
        /\ OnWire(q, k, e)' <=> OnWire(q, k, e) /\ ~IsFor(m, q, k, e)
  <2> SUFFICES ASSUME NEW q \in Ranks, NEW k \in Steps, NEW e \in Nat
        PROVE /\ Issued(q, k, e)' = Issued(q, k, e)
              /\ Pending(q, k, e)' = Pending(q, k, e)
              /\ Received(q, k, e)' = Received(q, k, e)
              /\ InHandler(q, k, e)' <=> InHandler(q, k, e) \/ IsFor(m, q, k, e)
              /\ OnWire(q, k, e)' <=> OnWire(q, k, e) /\ ~IsFor(m, q, k, e)
    OBVIOUS
  <2>1. Issued(q, k, e)' = Issued(q, k, e) /\ Pending(q, k, e)' = Pending(q, k, e)
        /\ Received(q, k, e)' = Received(q, k, e)
    BY <1>1 DEF Issued, Pending, Received, Unsent
  <2>2. InHandler(q, k, e)' <=> InHandler(q, k, e) \/ IsFor(m, q, k, e)
    BY <1>1 DEF InHandler
  <2>3. OnWire(q, k, e)' <=> OnWire(q, k, e) /\ ~IsFor(m, q, k, e)
    <3>1. \A n \in net : IsFor(n, q, k, e) /\ IsFor(m, q, k, e) => n = m
      BY DEF IsFor, Inv, IndInv, UniqueInv
    <3>. QED BY <1>1, <3>1 DEF OnWire
  <2>. QED BY <2>1, <2>2, <2>3
<1>8. TokenInv'
  <2> SUFFICES ASSUME NEW q \in Ranks, NEW k \in Steps, NEW e \in 1 .. MaxEpoch + 2
               PROVE  OnePlace(From(q, k), q, k, e)'
    BY DEF TokenInv
  <2>1. PICK s \in Ranks : s = From(q, k)
    BY PeerFacts, SizeFacts
  <2>2. OnePlace(s, q, k, e)
    BY <2>1, TokenOf
  <2>3. IsFor(m, q, k, e) => OnWire(q, k, e)
    BY DEF OnWire
  <2>. QED BY <1>7, <2>1, <2>2, <2>3 DEF OnePlace
<1>9. \A a, low, e : Covers(a, low, e)' = Covers(a, low, e)
  BY <1>1 DEF Covers
<1>10. RecvInv'
  <2> SUFFICES ASSUME NEW q \in Ranks, NEW d \in {1, 2}
        PROVE Covers(recv[q][(completed[q] + d) % 2],
                     Merged(q, completed[q] + d), completed[q] + d)'
    BY DEF RecvInv
  <2>1. PICK e \in Nat : e = completed[q] + d
    BY DEF Inv, TypeOK
  <2>2. e % 2 \in Phases
    BY Parity
  <2>3. Covers(recv[q][e % 2], Merged(q, e), e)
    BY <2>1 DEF Inv, IndInv, RecvInv
  <2>4. PICK low : low = Merged(q, e)'
    OBVIOUS
  <2>5. CoversIn(epoch, args, recv'[q][e % 2], low, e)
    <3>1. CASE q = m.to /\ e = m.epoch
      <4>1. CoversIn(epoch, args, recv[q][e % 2], Merged(q, e), e)
        BY <2>3, CoversHistory
      <4>2. CoversIn(epoch, args, m.arg, Heard(From(m.to, m.step), m.step), e)
        BY <3>1 DEF Inv, IndInv, WireInv, Covers, CoversIn
      <4>3. recv[q][e % 2] \in Arg /\ args \in [Ranks -> [Phases -> Arg]]
        BY <2>2 DEF Inv, TypeOK
      <4>4. CoversIn(epoch, args, Merge(recv[q][e % 2], m.arg),
                     Merged(q, e) \cup Heard(From(m.to, m.step), m.step), e)
        BY <1>2, <4>1, <4>2, <4>3, CoversMerge
      <4>5. low \subseteq Merged(q, e) \cup Heard(From(m.to, m.step), m.step)
        <5> SUFFICES ASSUME NEW x \in low, x \notin Merged(q, e)
                     PROVE  x \in Heard(From(m.to, m.step), m.step)
          OBVIOUS
        <5>1. x \in Ranks
          BY <2>4 DEF Merged
        <5>2. PICK k \in Steps : /\ (InHandler(q, k, e) \/ Received(q, k, e))'
                                 /\ x \in Heard(From(q, k), k)
          BY <1>1, <2>4 DEF Merged
        <5>3. IsFor(m, q, k, e)
          BY <1>7, <5>1, <5>2 DEF Merged
        <5>. QED BY <5>2, <5>3 DEF IsFor
      <4>6. recv'[q][e % 2] = Merge(recv[q][e % 2], m.arg)
        BY <1>2, <1>3, <3>1
      <4>. QED BY <4>4, <4>5, <4>6, CoversStable
    <3>2. CASE ~(q = m.to /\ e = m.epoch)
      <4>1. recv'[q][e % 2] = recv[q][e % 2]
        <5>1. CASE q # m.to
          BY <1>3, <2>2, <5>1
        <5>2. CASE q = m.to /\ e # m.epoch
          <6>1. completed[q] \in Nat
            BY DEF Inv, TypeOK
          <6>2. e % 2 # m.epoch % 2
            <7>1. \/ e = completed[q] + 1 /\ m.epoch = completed[q] + 2
                  \/ e = completed[q] + 2 /\ m.epoch = completed[q] + 1
              BY <1>2, <2>1, <5>2, <6>1
            <7>2. (completed[q] + 2) % 2 # (completed[q] + 1) % 2
              BY <6>1, Parity
            <7>. QED BY <7>1, <7>2
          <6>. QED BY <1>2, <1>3, <2>2, <5>2, <6>2
        <5>. QED BY <3>2, <5>1, <5>2
      <4>2. \A k \in Steps : ~IsFor(m, q, k, e)
        BY <3>2 DEF IsFor
      <4>3. low = Merged(q, e)
        BY <1>1, <1>7, <2>4, <4>2 DEF Merged
      <4>. QED BY <2>3, <4>1, <4>3, CoversHistory
    <3>. QED BY <3>1, <3>2
  <2>6. PICK a : a = recv'[q][e % 2]
    OBVIOUS
  <2>7. Covers(a, low, e)'
    BY <1>9, <2>5, <2>6, CoversHistory
  <2>8. e = completed'[q] + d
    BY <1>1, <2>1
  <2>. QED BY <2>4, <2>6, <2>7, <2>8
<1>11. WireInv' /\ UnsentInv'
  BY <1>1, <1>9 DEF Inv, IndInv, WireInv, UnsentInv, Unsent
<1>. QED BY <1>1, <1>4, <1>5, <1>6, <1>8, <1>10, <1>11 DEF Inv, IndInv

\* The handler's mark, outside the lock: its message is now received.
LEMMA ReqhDoneStep ==
  ASSUME Inv, NEW m \in handling, NotifyReqhDone(m)
  PROVE  Inv' /\ UNCHANGED specVars
<1>1. /\ handling' = handling \ {m}
      /\ step_done' = [step_done EXCEPT ![m.to][m.phase][m.step] = TRUE]
      /\ UNCHANGED <<client, lock, local, step, phase, recv, pf, kick, net>>
      /\ UNCHANGED specVars /\ UNCHANGED <<epoch, completed, args, outcome>>
  BY DEF NotifyReqhDone, specVars
<1>2. /\ m.to \in Ranks /\ m.step \in Steps /\ m.phase \in Phases
      /\ m.epoch \in 1 .. MaxEpoch /\ m.phase = m.epoch % 2
      /\ From(m.to, m.step) \in Ranks
      /\ Issued(From(m.to, m.step), m.step, m.epoch)
      /\ ~Received(m.to, m.step, m.epoch)
      /\ completed[m.to] < m.epoch /\ m.epoch <= completed[m.to] + 2
      /\ m.epoch \in Nat /\ completed[m.to] \in Nat
  <2>1. m \in Messages
    BY DEF Inv, TypeOK
  <2>2. m.phase \in Phases
    BY <2>1 DEF Messages
  <2>3. m \in net \cup handling
    OBVIOUS
  <2>. QED BY <2>2, <2>3, MessageToken DEF Inv, TypeOK
<1>3. /\ step_done' \in [Ranks -> [Phases -> [Steps -> BOOLEAN]]]
      /\ \A q \in Ranks, p \in Phases, k \in Steps :
           step_done'[q][p][k] <=> \/ step_done[q][p][k]
                                   \/ q = m.to /\ p = m.phase /\ k = m.step
  <2>1. step_done \in [Ranks -> [Phases -> [Steps -> BOOLEAN]]]
    BY DEF Inv, TypeOK
  <2>2. PICK q0 \in Ranks, p0 \in Phases, k0 \in Steps :
          q0 = m.to /\ p0 = m.phase /\ k0 = m.step
    BY <1>2
  <2>3. step_done' = [step_done EXCEPT ![q0][p0][k0] = TRUE]
    BY <1>1, <2>2
  <2>4. /\ step_done' \in [Ranks -> [Phases -> [Steps -> BOOLEAN]]]
        /\ \A q \in Ranks, p \in Phases, k \in Steps :
             step_done'[q][p][k] <=> \/ step_done[q][p][k]
                                     \/ q = q0 /\ p = p0 /\ k = k0
    BY <2>1, <2>3
  <2>. QED BY <2>2, <2>4
<1>4. TypeOK'
  <2>1. handling' \subseteq Messages
    BY <1>1 DEF Inv, TypeOK
  <2>. QED BY <1>1, <1>3, <2>1 DEF Inv, TypeOK
<1>5. WindowInv'
  <2> SUFFICES ASSUME NEW q \in Ranks, NEW k \in Steps, k < step[q]
               PROVE  ~step_done'[q][epoch[q] % 2][k]
    BY <1>1 DEF Inv, IndInv, WindowInv
  <2>1. ~step_done[q][epoch[q] % 2][k] /\ epoch[q] % 2 \in Phases /\ epoch[q] \in Nat
    <3>1. epoch[q] \in Nat
      BY DEF Inv, TypeOK
    <3>. QED BY <3>1, Parity DEF Inv, IndInv, WindowInv
  <2>2. ASSUME q = m.to, epoch[q] % 2 = m.phase, k = m.step PROVE FALSE
    <3>1. \/ client[q] = "outside" /\ epoch[q] = completed[q]
          \/ client[q] # "outside" /\ epoch[q] = completed[q] + 1
      BY DEF Inv, IndInv, WindowInv
    <3>2. m.epoch # epoch[q]
      BY <1>2, <2>2 DEF Received
    <3>3. (completed[q] + 2) % 2 # (completed[q] + 1) % 2
      BY <1>2, <2>2, Parity
    <3>4. (completed[q] + 2) % 2 = completed[q] % 2
      BY <1>2, <2>2, Parity
    <3>5. m.epoch = completed[q] + 1 \/ m.epoch = completed[q] + 2
      BY <1>2, <2>2
    <3>6. client[q] = "outside" /\ m.epoch = completed[q] + 2
      BY <1>2, <2>2, <3>1, <3>2, <3>3, <3>4, <3>5
    <3>7. m.epoch <= completed[q] + 1
      <4>1. m.epoch \in Nat \ {0}
        BY <1>2
      <4>. QED BY <1>2, <3>6, <4>1, IssuedAwaited
    <3>. QED BY <1>2, <2>2, <3>6, <3>7
  <2>. QED BY <1>3, <2>1, <2>2
<1>6. EnteredInv' /\ KickInv' /\ MessageInv' /\ UniqueInv'
  BY <1>1 DEF Inv, IndInv, EnteredInv, Entered, KickInv, MessageInv, UniqueInv, Unsent
<1>7. \A q \in Ranks, k \in Steps, e \in Nat :
        /\ Issued(q, k, e)' = Issued(q, k, e)
        /\ Pending(q, k, e)' = Pending(q, k, e)
        /\ OnWire(q, k, e)' = OnWire(q, k, e)
        /\ Received(q, k, e)' <=> Received(q, k, e) \/ IsFor(m, q, k, e)
        /\ InHandler(q, k, e)' <=> InHandler(q, k, e) /\ ~IsFor(m, q, k, e)
  <2> SUFFICES ASSUME NEW q \in Ranks, NEW k \in Steps, NEW e \in Nat
        PROVE /\ Issued(q, k, e)' = Issued(q, k, e)
              /\ Pending(q, k, e)' = Pending(q, k, e)
              /\ OnWire(q, k, e)' = OnWire(q, k, e)
              /\ Received(q, k, e)' <=> Received(q, k, e) \/ IsFor(m, q, k, e)
              /\ InHandler(q, k, e)' <=> InHandler(q, k, e) /\ ~IsFor(m, q, k, e)
    OBVIOUS
  <2>1. Issued(q, k, e)' = Issued(q, k, e) /\ Pending(q, k, e)' = Pending(q, k, e)
        /\ OnWire(q, k, e)' = OnWire(q, k, e)
    BY <1>1 DEF Issued, Pending, OnWire, Unsent
  <2>2. InHandler(q, k, e)' <=> InHandler(q, k, e) /\ ~IsFor(m, q, k, e)
    <3>1. \A n \in handling : IsFor(n, q, k, e) /\ IsFor(m, q, k, e) => n = m
      BY DEF IsFor, Inv, IndInv, UniqueInv
    <3>. QED BY <1>1, <3>1 DEF InHandler
  <2>3. Received(q, k, e)' <=> Received(q, k, e) \/ IsFor(m, q, k, e)
    <3>1. e % 2 \in Phases
      BY Parity
    <3>2. CASE q = m.to /\ k = m.step
      <4>1. e <= completed[q] + 2 /\ e % 2 = m.phase /\ ~(e <= completed[q])
              <=> e = m.epoch
        <5>1. (completed[q] + 2) % 2 # (completed[q] + 1) % 2
          BY <1>2, <3>2, Parity
        <5>2. ~(e <= completed[q]) /\ e <= completed[q] + 2
                => e = completed[q] + 1 \/ e = completed[q] + 2
          BY <1>2, <3>2
        <5>3. m.epoch = completed[q] + 1 \/ m.epoch = completed[q] + 2
          BY <1>2, <3>2
        <5>4. ~(m.epoch <= completed[q]) /\ m.epoch <= completed[q] + 2
          BY <1>2, <3>2
        <5>. QED BY <1>2, <3>2, <5>1, <5>2, <5>3, <5>4
      <4>2. IsFor(m, q, k, e) <=> e = m.epoch
        BY <3>2 DEF IsFor
      <4>3. step_done'[q][e % 2][k] <=> step_done[q][e % 2][k] \/ e % 2 = m.phase
        BY <1>3, <3>1, <3>2
      <4>. QED BY <1>1, <4>1, <4>2, <4>3 DEF Received
    <3>3. CASE ~(q = m.to /\ k = m.step)
      <4>1. step_done'[q][e % 2][k] <=> step_done[q][e % 2][k]
        BY <1>3, <3>1, <3>3
      <4>2. ~IsFor(m, q, k, e)
        BY <3>3 DEF IsFor
      <4>. QED BY <1>1, <4>1, <4>2 DEF Received
    <3>. QED BY <3>2, <3>3
  <2>. QED BY <2>1, <2>2, <2>3
<1>8. \A q \in Ranks, k \in Steps, e \in Nat : IsFor(m, q, k, e) => InHandler(q, k, e)
  BY DEF InHandler
<1>9. TokenInv'
  <2> SUFFICES ASSUME NEW q \in Ranks, NEW k \in Steps, NEW e \in 1 .. MaxEpoch + 2
               PROVE  OnePlace(From(q, k), q, k, e)'
    BY DEF TokenInv
  <2>1. PICK s \in Ranks : s = From(q, k)
    BY PeerFacts, SizeFacts
  <2>. QED BY <1>7, <1>8, <2>1, TokenOf DEF OnePlace
<1>10. \A a, low, e : Covers(a, low, e)' = Covers(a, low, e)
  BY <1>1 DEF Covers
<1>11. RecvInv'
  <2>1. \A q \in Ranks, e \in Nat : Merged(q, e)' = Merged(q, e)
    <3> SUFFICES ASSUME NEW q \in Ranks, NEW e \in Nat
                 PROVE  Merged(q, e)' = Merged(q, e)
      OBVIOUS
    <3>1. \A k \in Steps : (InHandler(q, k, e) \/ Received(q, k, e))' <=>
                           InHandler(q, k, e) \/ Received(q, k, e)
      BY <1>7, <1>8
    <3>. QED BY <1>1, <3>1 DEF Merged
  <2>2. \A q \in Ranks, d \in {1, 2} : completed[q] + d \in Nat
    BY DEF Inv, TypeOK
  <2>. QED BY <1>1, <1>10, <2>1, <2>2 DEF Inv, IndInv, RecvInv
<1>12. WireInv' /\ UnsentInv'
  BY <1>1, <1>10 DEF Inv, IndInv, WireInv, UnsentInv, Unsent
<1>. QED BY <1>1, <1>4, <1>5, <1>6, <1>9, <1>11, <1>12 DEF Inv, IndInv
-----------------------------------------------------------------------------
(***************************************************************************)
(* Consuming steps under the lock.                                         *)
(***************************************************************************)
\* Between notify's first writes and its phase flip a kick finds nothing in
\* the old phase: a message there would be for the barrier after this one.
LEMMA NothingWhileFlipping ==
  ASSUME Inv, NEW r \in Ranks, client[r] = "flipping", NEW k \in Steps
  PROVE  ~step_done[r][phase[r]][k]
<1>1. /\ completed[r] \in Nat /\ epoch[r] = completed[r] + 1 /\ epoch[r] <= MaxEpoch
      /\ phase[r] = completed[r] % 2
  BY DEF Inv, IndInv, WindowInv, TypeOK
<1>2. PICK e \in 1 .. MaxEpoch + 2 : e = completed[r] + 2
  BY <1>1
<1>3. PICK s \in Ranks : s = From(r, k)
  BY PeerFacts, SizeFacts
<1>4. SUFFICES ASSUME step_done[r][phase[r]][k] PROVE FALSE
  OBVIOUS
<1>5. Received(r, k, e)
  <2>1. e % 2 = phase[r]
    BY <1>1, <1>2, Parity
  <2>. QED BY <1>2, <1>4, <2>1 DEF Received
<1>6. Issued(s, k, e)
  BY <1>3, <1>5, TokenOf DEF OnePlace
<1>7. e <= completed[r] + 1
  <2>1. e \in Nat \ {0}
    OBVIOUS
  <2>. QED BY <1>6, <2>1, IssuedAwaited
<1>. QED BY <1>1, <1>2, <1>7

\* What rank r has heard of when steps 0 to c - 1 have been received has been
\* merged, once its own argument has.
LEMMA HeardMerged ==
  ASSUME NEW r \in Ranks, NEW c \in Nat, NEW M, r \in M, NEW i \in 0 .. c,
         \A j \in 0 .. c - 1 : Heard(From(r, j), j) \subseteq M
  PROVE  Heard(r, i) \subseteq M
<1> SUFFICES ASSUME NEW q \in Heard(r, i), q # r PROVE q \in M
  OBVIOUS
<1>1. q \notin Heard(r, 0) /\ i \in Nat
  BY HeardFacts
<1>2. PICK j \in 0 .. i - 1 : q \in Heard(From(r, j), j)
  BY <1>1, HeardGrows
<1>. QED BY <1>2

\* A kick that finds steps done: it has heard more, and owes messages.
LEMMA KickLockedStep ==
  ASSUME Inv, NEW t \in Threads, KickLocked(t),
         Cursor(step_done[RankOf(t)][phase[RankOf(t)]], kick[t].step)
           # kick[t].step
  PROVE  Inv' /\ UNCHANGED specVars
<1>1. PICK r \in Ranks : r = RankOf(t)
  BY ThreadFacts
<1>2. /\ kick[t].pc = "locked" /\ client[r] # "outside" /\ lock[r] = t
      /\ kick[t].step = step[r] /\ step[r] \in Steps /\ step[r] \in Nat
      /\ epoch[r] = completed[r] + 1 /\ completed[r] \in Nat
      /\ epoch[r] \in 1 .. MaxEpoch
  BY <1>1, LockedInside DEF KickLocked
<1>3. PICK k \in Steps : k = kick[t].step
  BY <1>2
<1>4. PICK p \in Phases : p = phase[r]
  BY DEF Inv, TypeOK
<1>5. PICK c : c = Cursor(step_done[r][p], k)
  OBVIOUS
<1>6. /\ c \in k .. Size /\ c # k /\ k \in Nat /\ c \in Nat /\ Size \in Nat
      /\ \A i \in k .. c - 1 : i \in Steps /\ step_done[r][p][i]
      /\ c = Size \/ ~step_done[r][p][c]
  <2>1. k \in 0 .. Size /\ k \in Nat /\ Size \in Nat
    BY SizeFacts
  <2>2. step_done[r][p] \in [Steps -> BOOLEAN]
    BY DEF Inv, TypeOK
  <2>3. c # k
    BY <1>1, <1>3, <1>4, <1>5
  <2>. QED BY SMTT(30), <1>5, <2>1, <2>2, <2>3, CursorFacts
<1>7. client[r] # "flipping"
  BY <1>4, <1>6, NothingWhileFlipping
<1>8. PICK e0 \in 1 .. MaxEpoch : e0 = epoch[r]
  BY <1>2
<1>9. p = e0 % 2 /\ e0 \in Nat /\ e0 = completed[r] + 1 /\ e0 \in Nat \ {0}
      /\ e0 \in 1 .. MaxEpoch + 2
  BY <1>2, <1>4, <1>7, <1>8 DEF Inv, IndInv, WindowInv
<1>10. PICK a : a = (IF k = 0 THEN Merge(recv[r][p], local[r]) ELSE recv[r][p])
  OBVIOUS
<1>11. PICK n : n = NumSends(k, c)
  OBVIOUS
<1>12. n \in 0 .. Size /\ n = (IF c = Size THEN c - k - 1 ELSE c - k)
       /\ k + 1 + n <= Size
  BY <1>6, <1>11 DEF NumSends
<1>13. a \in Arg
  <2>1. recv[r][p] \in Arg /\ local[r] \in Arg
    BY DEF Inv, TypeOK
  <2>2. Merge(recv[r][p], local[r]) \in Arg
    BY <2>1 DEF Merge, Arg, Flags
  <2>. QED BY <1>10, <2>1, <2>2
<1>14. /\ step_done' = [step_done EXCEPT ![r][p] =
            [i \in Steps |-> IF i \in k .. c - 1 THEN FALSE ELSE step_done[r][p][i]]]
       /\ recv' = [recv EXCEPT ![r][p] = a]
       /\ step' = [step EXCEPT ![r] = c]
       /\ pf' = pf \/ pf' = [pf EXCEPT ![r] = FALSE]
       /\ kick' = [kick EXCEPT ![t] =
            IF n = 0 THEN NotKicking
            ELSE [pc |-> "send", step |-> k + 1, phase |-> p,
                  numsteps |-> n, arg |-> a, epoch |-> e0]]
       /\ lock' = [lock EXCEPT ![r] = Free]
       /\ UNCHANGED <<client, local, phase, net, handling>>
       /\ UNCHANGED specVars /\ UNCHANGED <<epoch, completed, args, outcome>>
  BY ZenonT(60), <1>1, <1>3, <1>4, <1>5, <1>6, <1>8, <1>10, <1>11
     DEF KickLocked, PfDisable, specVars
<1>15. /\ kick' \in [Threads -> Kicks]
       /\ \A u \in Threads : u # t => kick'[u] = kick[u]
       /\ n = 0 => kick'[t].pc = "out"
       /\ n # 0 => /\ kick'[t].pc = "send" /\ kick'[t].step = k + 1
                   /\ kick'[t].numsteps = n /\ kick'[t].phase = p
                   /\ kick'[t].arg = a /\ kick'[t].epoch = e0
  <2>1. kick \in [Threads -> Kicks] /\ NotKicking \in Kicks /\ NotKicking.pc = "out"
    BY ThreadFacts DEF Inv, TypeOK, NotKicking
  <2>2. CASE n = 0
    BY <1>14, <2>1, <2>2
  <2>3. CASE n # 0
    <3>1. PICK x : x = [pc |-> "send", step |-> k + 1, phase |-> p,
                        numsteps |-> n, arg |-> a, epoch |-> e0]
      OBVIOUS
    <3>2. x \in Kicks /\ x.pc = "send" /\ x.step = k + 1 /\ x.numsteps = n
          /\ x.phase = p /\ x.arg = a /\ x.epoch = e0
      <4>1. k + 1 \in 0 .. Size
        BY <1>6
      <4>. QED BY <1>9, <1>12, <1>13, <3>1, <4>1 DEF Kicks
    <3>3. kick' = [kick EXCEPT ![t] = x]
      BY <1>14, <2>3, <3>1
    <3>. QED BY <2>1, <2>3, <3>2, <3>3
  <2>. QED BY <2>2, <2>3
<1>16. /\ step_done' \in [Ranks -> [Phases -> [Steps -> BOOLEAN]]]
       /\ \A q \in Ranks, x \in Phases, i \in Steps :
            step_done'[q][x][i] <=> /\ step_done[q][x][i]
                                    /\ ~(q = r /\ x = p /\ i \in k .. c - 1)
  <2>1. step_done \in [Ranks -> [Phases -> [Steps -> BOOLEAN]]]
    BY DEF Inv, TypeOK
  <2>2. PICK f : f = [i \in Steps |->
                        IF i \in k .. c - 1 THEN FALSE ELSE step_done[r][p][i]]
    OBVIOUS
  <2>3. /\ f \in [Steps -> BOOLEAN]
        /\ \A i \in Steps : f[i] <=> step_done[r][p][i] /\ i \notin k .. c - 1
    <3>1. \A i \in Steps : step_done[r][p][i] \in BOOLEAN
      BY <2>1
    <3>2. \A i \in Steps :
            /\ i \in k .. c - 1 => f[i] = FALSE
            /\ i \notin k .. c - 1 => f[i] = step_done[r][p][i]
      BY <2>2
    <3>3. \A i \in Steps : f[i] \in BOOLEAN
      BY <3>1, <3>2
    <3>4. f \in [Steps -> BOOLEAN]
      BY <2>2, <3>3
    <3>5. \A i \in Steps : f[i] <=> step_done[r][p][i] /\ i \notin k .. c - 1
      BY <3>1, <3>2
    <3>. QED BY <3>4, <3>5
  <2>4. step_done' = [step_done EXCEPT ![r][p] = f]
    BY <1>14, <2>2
  <2>5. step_done' \in [Ranks -> [Phases -> [Steps -> BOOLEAN]]]
    BY <2>1, <2>3, <2>4
  <2>6. \A q \in Ranks, x \in Phases :
          step_done'[q][x] = IF q = r /\ x = p THEN f ELSE step_done[q][x]
    BY <2>1, <2>4
  <2>. QED BY <2>3, <2>5, <2>6
<1>17. /\ recv' \in [Ranks -> [Phases -> Arg]] /\ recv'[r][p] = a
       /\ \A q \in Ranks, x \in Phases : q # r \/ x # p => recv'[q][x] = recv[q][x]
       /\ step' \in [Ranks -> 0 .. Size] /\ step'[r] = c
       /\ \A q \in Ranks : q # r => step'[q] = step[q] /\ lock'[q] = lock[q]
       /\ \A q \in Ranks : pf'[q] => pf[q]
       /\ pf' \in [Ranks -> BOOLEAN] /\ lock' \in [Ranks -> Threads \cup {Free}]
  <2>1. recv \in [Ranks -> [Phases -> Arg]] /\ step \in [Ranks -> 0 .. Size]
        /\ lock \in [Ranks -> Threads \cup {Free}] /\ pf \in [Ranks -> BOOLEAN]
    BY DEF Inv, TypeOK
  <2>2. c \in 0 .. Size
    BY <1>6
  <2>. QED BY <1>13, <1>14, <2>1, <2>2
<1>18. TypeOK'
  BY <1>14, <1>15, <1>16, <1>17 DEF Inv, TypeOK
<1>19. \A j \in Steps : step[r] = k /\ ~(k < j /\ Issued(r, j, e0))
  <2>1. \A j \in Steps : j \in Nat
    BY SizeFacts
  <2>2. step[r] = k /\ ~(epoch[r] > e0)
    BY <1>2, <1>3, <1>9, <1>8
  <2>. QED BY <1>6, <2>1, <2>2 DEF Issued
<1>20. \A q \in Ranks, j \in Steps, e \in Nat :
         /\ OnWire(q, j, e)' = OnWire(q, j, e)
         /\ InHandler(q, j, e)' = InHandler(q, j, e)
         /\ Received(q, j, e)' = Received(q, j, e)
  <2> SUFFICES ASSUME NEW q \in Ranks, NEW j \in Steps, NEW e \in Nat
               PROVE  Received(q, j, e)' = Received(q, j, e)
    BY <1>14 DEF OnWire, InHandler
  <2>0. e % 2 \in Phases /\ j \in Nat
    BY Parity, SizeFacts
  <2>1. CASE q # r
    <3>1. step_done'[q][e % 2][j] <=> step_done[q][e % 2][j]
      BY <1>16, <2>0, <2>1
    <3>. QED BY <1>14, <1>17, <2>1, <3>1 DEF Received
  <2>2. CASE q = r
    <3>1. CASE e <= completed[r]
      BY <1>14, <2>2, <3>1 DEF Received
    <3>2. CASE e = e0
      <4>1. j < c <=> j < k \/ j \in k .. c - 1
        BY <1>6, <2>0
      <4>2. step_done'[r][e % 2][j] <=> step_done[r][e % 2][j] /\ j \notin k .. c - 1
        BY <1>9, <1>16, <2>0, <3>2
      <4>3. j \in k .. c - 1 => step_done[r][e % 2][j]
        BY <1>6, <1>9, <3>2
      <4>4. e = epoch[r] /\ e <= completed[r] + 2 /\ ~(e <= completed[r])
        BY <1>8, <1>9, <1>2, <3>2
      <4>5. Received(r, j, e) <=> j < k \/ step_done[r][e % 2][j]
        BY <1>19, <4>4 DEF Received
      <4>6. Received(r, j, e)' <=> j < c \/ step_done'[r][e % 2][j]
        BY <1>14, <1>17, <4>4 DEF Received
      <4>. QED BY <2>2, <4>1, <4>2, <4>3, <4>5, <4>6 DEF Received
    <3>3. CASE ~(e <= completed[r]) /\ e # e0
      <4>1. e <= completed[r] + 2 => e = completed[r] + 2
        BY <1>2, <1>9, <3>3
      <4>2. (completed[r] + 2) % 2 # p
        BY <1>2, <1>9, Parity
      <4>3. e <= completed[r] + 2 => (step_done'[r][e % 2][j] <=> step_done[r][e % 2][j])
        BY <1>16, <2>0, <4>1, <4>2
      <4>. QED BY <1>8, <1>14, <2>2, <3>3, <4>3 DEF Received
    <3>. QED BY <3>1, <3>2, <3>3
  <2>. QED BY <2>1, <2>2
<1>21. \A x \in Ranks, j \in Steps, e \in Nat :
         /\ Issued(x, j, e)' <=> \/ Issued(x, j, e)
                                 \/ x = r /\ e = e0 /\ j \in k + 1 .. k + n
         /\ Pending(x, j, e)' <=> \/ Pending(x, j, e)
                                  \/ x = r /\ e = e0 /\ j \in k + 1 .. k + n
  <2> SUFFICES ASSUME NEW x \in Ranks, NEW j \in Steps, NEW e \in Nat
        PROVE /\ Issued(x, j, e)' <=> \/ Issued(x, j, e)
                                      \/ x = r /\ e = e0 /\ j \in k + 1 .. k + n
              /\ Pending(x, j, e)' <=> \/ Pending(x, j, e)
                                       \/ x = r /\ e = e0 /\ j \in k + 1 .. k + n
    OBVIOUS
  <2>1. Issued(x, j, e)' <=> \/ Issued(x, j, e)
                             \/ x = r /\ e = e0 /\ j \in k + 1 .. k + n
    <3>1. CASE x # r
      BY <1>14, <1>17, <3>1 DEF Issued
    <3>2. CASE x = r
      <4>1. j <= c <=> j <= k \/ j \in k + 1 .. k + n
        <5>1. j \in Nat /\ j < Size
          BY SizeFacts
        <5>. QED BY <1>6, <1>12, <5>1
      <4>. QED BY <1>7, <1>8, <1>14, <1>17, <1>19, <3>2, <4>1 DEF Issued
    <3>. QED BY <3>1, <3>2
  <2> DEFINE Has(u, y, i, f) == /\ RankOf(u) = y /\ kick[u].pc = "send"
                                /\ kick[u].epoch = f /\ i \in Unsent(u)
  <2>2. \A u \in Threads : Has(u, x, j, e)' <=>
          \/ Has(u, x, j, e)
          \/ u = t /\ x = r /\ e = e0 /\ j \in k + 1 .. k + n
    <3>1. ASSUME NEW u \in Threads, u # t
          PROVE  Has(u, x, j, e)' <=> Has(u, x, j, e)
      BY <1>15, <3>1 DEF Unsent
    <3>2. Has(t, x, j, e)' <=> x = r /\ e = e0 /\ j \in k + 1 .. k + n
      <4>1. CASE n = 0
        <5>1. j \notin k + 1 .. k + n
          BY <1>6, <4>1
        <5>. QED BY <1>15, <4>1, <5>1
      <4>2. CASE n # 0
        <5>1. Unsent(t)' = k + 1 .. k + n
          <6>1. k + 1 + n - 1 = k + n
            BY <1>6, <1>12
          <6>. QED BY <1>15, <4>2, <6>1 DEF Unsent
        <5>. QED BY <1>1, <1>15, <4>2, <5>1
      <4>. QED BY <4>1, <4>2
    <3>3. ~Has(t, x, j, e)
      BY <1>2
    <3>. QED BY <3>1, <3>2, <3>3
  <2>3. Pending(x, j, e) <=> \/ j = 0 /\ epoch[x] = e /\ client[x] = "sending"
                             \/ \E u \in Threads : Has(u, x, j, e)
    BY DEF Pending
  <2>4. Pending(x, j, e)' <=> \/ j = 0 /\ epoch[x] = e /\ client[x] = "sending"
                              \/ \E u \in Threads : Has(u, x, j, e)'
    BY <1>14 DEF Pending
  <2> HIDE DEF Has
  <2>. QED BY <2>1, <2>2, <2>3, <2>4
<1>22. TokenInv'
  <2> SUFFICES ASSUME NEW q \in Ranks, NEW j \in Steps, NEW e \in 1 .. MaxEpoch + 2
               PROVE  OnePlace(From(q, j), q, j, e)'
    BY DEF TokenInv
  <2>1. PICK s \in Ranks : s = From(q, j)
    BY PeerFacts, SizeFacts
  <2>2. OnePlace(s, q, j, e)
    BY <2>1, TokenOf
  <2>3. s = r /\ e = e0 /\ j \in k + 1 .. k + n => ~Issued(s, j, e)
    BY <1>6, <1>12, <1>19
  <2>4. e \in Nat
    OBVIOUS
  <2>. QED BY <1>20, <1>21, <2>1, <2>2, <2>3, <2>4 DEF OnePlace
<1>23. UniqueInv'
  <2>1. (\A m, m2 \in net \cup handling : IsFor(m, m2.to, m2.step, m2.epoch) => m = m2)'
    BY <1>14 DEF Inv, IndInv, UniqueInv
  <2>2. ASSUME NEW u \in Threads, u # t, kick[u].pc = "send", RankOf(u) = r,
               kick[u].epoch = e0, NEW i \in Unsent(u)
        PROVE  i \notin k + 1 .. k + n
    <3>1. i \in Steps /\ Issued(r, i, e0)
      BY <2>2, UnsentToken
    <3>. QED BY <1>6, <1>19, <3>1
  <2>3. n # 0 => Unsent(t)' = k + 1 .. k + n
    <3>1. k + 1 + n - 1 = k + n
      BY <1>6, <1>12
    <3>. QED BY <1>15, <3>1 DEF Unsent
  <2>4. \A u \in Threads : u # t => Unsent(u)' = Unsent(u) /\ kick'[u] = kick[u]
    BY <1>15 DEF Unsent
  <2>5. kick'[t].pc = "send" => n # 0 /\ kick'[t].epoch = e0
    BY <1>15
  <2> SUFFICES ASSUME NEW u \in Threads, NEW v \in Threads,
                      kick'[u].pc = "send", kick'[v].pc = "send", u # v,
                      RankOf(u) = RankOf(v), kick'[u].epoch = kick'[v].epoch
               PROVE  Unsent(u)' \cap Unsent(v)' = {}
    BY <2>1 DEF UniqueInv
  <2>6. CASE u # t /\ v # t
    BY <2>4, <2>6 DEF Inv, IndInv, UniqueInv
  <2>7. CASE u = t
    BY <1>1, <2>2, <2>3, <2>4, <2>5, <2>7
  <2>8. CASE v = t
    BY <1>1, <2>2, <2>3, <2>4, <2>5, <2>8
  <2>. QED BY <2>6, <2>7, <2>8
<1>24. WindowInv'
  <2> SUFFICES ASSUME NEW q \in Ranks
        PROVE /\ client[q] = "outside" => /\ epoch[q] = completed[q]
                                /\ step'[q] = (IF epoch[q] = 0 THEN 0 ELSE Size)
              /\ client[q] # "outside" => /\ epoch[q] = completed[q] + 1
                                /\ local[q] = args[q][epoch[q] % 2]
              /\ client[q] = "flipping" => step'[q] = 0
              /\ client[q] \in {"flipping", "sending"} => Size # 0
              /\ phase[q] = (IF client[q] = "flipping" THEN completed[q]
                                                       ELSE epoch[q]) % 2
              /\ epoch[q] <= MaxEpoch
              /\ \A i \in Steps : i < step'[q] => ~step_done'[q][epoch[q] % 2][i]
    BY <1>14 DEF WindowInv
  <2>1. epoch[q] % 2 \in Phases
    <3>1. epoch[q] \in Nat
      BY DEF Inv, TypeOK
    <3>. QED BY <3>1, Parity
  <2>2. CASE q # r
    <3>1. \A i \in Steps : i < step[q] => ~step_done'[q][epoch[q] % 2][i]
      <4>1. \A i \in Steps : i < step[q] => ~step_done[q][epoch[q] % 2][i]
        BY DEF Inv, IndInv, WindowInv
      <4>. QED BY <1>16, <2>1, <2>2, <4>1
    <3>. QED BY <1>17, <2>2, <3>1 DEF Inv, IndInv, WindowInv
  <2>3. CASE q = r
    <3>1. \A i \in Steps : i < c => ~step_done'[r][epoch[r] % 2][i]
      <4> SUFFICES ASSUME NEW i \in Steps, i < c
                   PROVE  ~step_done'[r][p][i]
        BY <1>8, <1>9
      <4>1. i < k \/ i \in k .. c - 1
        BY <1>6, SizeFacts
      <4>2. i < k => ~step_done[r][p][i]
        <5>1. \A j \in Steps : j < step[r] => ~step_done[r][epoch[r] % 2][j]
          BY DEF Inv, IndInv, WindowInv
        <5>. QED BY <1>8, <1>9, <1>19, <5>1
      <4>. QED BY <1>16, <4>1, <4>2
    <3>. QED BY <1>2, <1>7, <1>17, <2>3, <3>1 DEF Inv, IndInv, WindowInv
  <2>. QED BY <2>2, <2>3
<1>25. \A j \in 0 .. c - 1 : j \in Steps /\ Received(r, j, e0)
  <2> SUFFICES ASSUME NEW j \in 0 .. c - 1
               PROVE  j \in Steps /\ Received(r, j, e0)
    OBVIOUS
  <2>1. j \in Steps /\ (j < k \/ j \in k .. c - 1)
    BY <1>6 DEF Steps
  <2>2. e0 <= completed[r] + 2
    BY <1>2, <1>9
  <2>. QED BY <1>6, <1>8, <1>9, <1>19, <2>1, <2>2 DEF Received
<1>26. EnteredInv'
  <2> SUFFICES ASSUME NEW q \in Ranks
        PROVE (/\ client[q] # "flipping" =>
                    \A x \in Heard(q, step[q]) : Entered(x, epoch[q])
               /\ \A x \in Ranks : Entered(x, completed[q]))'
    BY DEF EnteredInv
  <2>1. (\A x \in Ranks : Entered(x, completed[q]))'
    BY <1>14 DEF Inv, IndInv, EnteredInv, Entered
  <2>2. CASE q # r
    BY <1>14, <1>17, <2>1, <2>2 DEF Inv, IndInv, EnteredInv, Entered
  <2>3. CASE q = r
    <3>1. ASSUME NEW x \in Heard(r, c) PROVE Entered(x, e0)
      <4>1. CASE x \in Heard(r, k)
        BY <1>7, <1>8, <1>19, <4>1 DEF Inv, IndInv, EnteredInv
      <4>2. CASE x \notin Heard(r, k)
        <5>1. PICK j \in k .. c - 1 : x \in Heard(From(r, j), j)
          BY <1>6, <4>2, HeardGrows
        <5>2. j \in Steps /\ Received(r, j, e0)
          BY <1>6, <1>25
        <5>3. PICK s \in Ranks : s = From(r, j)
          BY <5>2, PeerFacts, SizeFacts
        <5>4. Issued(s, j, e0)
          BY <1>9, <5>2, <5>3, TokenOf DEF OnePlace
        <5>. QED BY <1>9, <5>1, <5>2, <5>3, <5>4, IssuedKnows
      <4>. QED BY <4>1, <4>2
    <3>. QED BY <1>8, <1>14, <1>17, <2>1, <2>3, <3>1 DEF Entered
  <2>. QED BY <2>2, <2>3
<1>27. KickInv'
  <2> SUFFICES ASSUME NEW u \in Threads
               PROVE  LET q == RankOf(u) IN
                      /\ kick'[u].pc = "locked" =>
                           lock'[q] = u /\ kick'[u].step = step'[q] /\ step'[q] # Size
                      /\ kick'[u].pc = "send" =>
                           /\ kick'[u].phase = kick'[u].epoch % 2
                           /\ kick'[u].epoch \in 1 .. epoch[q]
                           /\ kick'[u].step >= 1 /\ kick'[u].numsteps >= 1
                           /\ kick'[u].step + kick'[u].numsteps <= Size
                      /\ epoch[q] = 0 => kick'[u].pc = "out" /\ ~pf'[q]
    BY <1>14 DEF KickInv
  <2>1. CASE u # t
    <3>1. kick[u].pc = "locked" => RankOf(u) # r /\ RankOf(u) \in Ranks
      BY <1>2, <2>1, LockedInside
    <3>2. RankOf(u) \in Ranks
      BY ThreadFacts
    <3>. QED BY <1>15, <1>17, <2>1, <3>1, <3>2 DEF Inv, IndInv, KickInv
  <2>2. CASE u = t
    <3>1. epoch[r] # 0 /\ k + 1 >= 1 /\ (n # 0 => n >= 1) /\ e0 \in 1 .. epoch[r]
      BY <1>2, <1>6, <1>8, <1>12
    <3>. QED BY <1>1, <1>9, <1>12, <1>15, <2>2, <3>1
  <2>. QED BY <2>1, <2>2
<1>28. MessageInv'
  BY <1>14 DEF Inv, IndInv, MessageInv
<1>29. \A x, low, e : Covers(x, low, e)' = Covers(x, low, e)
  BY <1>14 DEF Covers
<1>30. \A q \in Ranks, e \in Nat :
         \A x : x \in Merged(q, e)' <=> x \in Merged(q, e) \/ (q = r /\ e = e0 /\ x = r)
  <2> SUFFICES ASSUME NEW q \in Ranks, NEW e \in Nat, NEW x
        PROVE x \in Merged(q, e)' <=> x \in Merged(q, e) \/ (q = r /\ e = e0 /\ x = r)
    OBVIOUS
  <2>1. step'[r] > 0 /\ (q # r => step'[q] = step[q])
    BY <1>6, <1>17
  <2>. QED BY <1>8, <1>14, <1>20, <2>1 DEF Merged
<1>31. CoversIn(epoch, args, a, Merged(r, e0)', e0)
  <2>1. PICK low : low = Merged(r, e0)'
    OBVIOUS
  <2>2. CoversIn(epoch, args, recv[r][p], Merged(r, e0), e0)
    <3>1. Covers(recv[r][e0 % 2], Merged(r, e0), e0)
      BY <1>9 DEF Inv, IndInv, RecvInv
    <3>. QED BY <1>9, <3>1, CoversHistory
  <2>3. CASE k = 0
    <3>1. CoversIn(epoch, args, args[r][e0 % 2], {r}, e0)
      <4>1. epoch[r] >= e0
        BY <1>8
      <4>. QED BY <1>9, <4>1, CoversOne DEF Inv, TypeOK
    <3>2. local[r] = args[r][e0 % 2] /\ local[r] \in Arg /\ recv[r][p] \in Arg
      BY <1>2, <1>8 DEF Inv, IndInv, WindowInv, TypeOK
    <3>3. a = Merge(recv[r][p], args[r][e0 % 2])
      BY <1>10, <2>3, <3>2
    <3>4. CoversIn(epoch, args, a, Merged(r, e0) \cup {r}, e0)
      BY <1>9, <2>2, <3>1, <3>2, <3>3, CoversMerge DEF Inv, TypeOK
    <3>5. low \subseteq Merged(r, e0) \cup {r}
      BY <1>9, <1>30, <2>1
    <3>. QED BY <2>1, <3>4, <3>5, CoversStable
  <2>4. CASE k # 0
    <3>1. low \subseteq Merged(r, e0)
      <4>1. r \in Merged(r, e0)
        BY <1>6, <1>8, <1>19, <2>4 DEF Merged
      <4>. QED BY <1>9, <1>30, <2>1, <4>1
    <3>2. a = recv[r][p]
      BY <1>10, <2>4
    <3>. QED BY <2>1, <2>2, <3>1, <3>2, CoversStable
  <2>. QED BY <2>3, <2>4
<1>32. RecvInv'
  <2> SUFFICES ASSUME NEW q \in Ranks, NEW d \in {1, 2}
        PROVE Covers(recv[q][(completed[q] + d) % 2],
                     Merged(q, completed[q] + d), completed[q] + d)'
    BY DEF RecvInv
  <2>1. PICK e \in Nat : e = completed[q] + d
    BY DEF Inv, TypeOK
  <2>2. e % 2 \in Phases
    BY Parity
  <2>3. PICK low : low = Merged(q, e)'
    OBVIOUS
  <2>4. PICK b : b = recv'[q][e % 2]
    OBVIOUS
  <2>5. CoversIn(epoch, args, b, low, e)
    <3>1. CASE q = r /\ e = e0
      BY <1>9, <1>17, <1>31, <2>3, <2>4, <3>1
    <3>2. CASE ~(q = r /\ e = e0)
      <4>1. q # r \/ e % 2 # p
        <5>1. ASSUME q = r PROVE e % 2 # p
          <6>1. e = completed[r] + 2
            BY <1>2, <1>9, <2>1, <3>2, <5>1
          <6>. QED BY <1>2, <1>9, <6>1, Parity
        <5>. QED BY <5>1
      <4>2. b = recv[q][e % 2] /\ low = Merged(q, e)
        BY <1>17, <1>30, <2>2, <2>3, <2>4, <3>2, <4>1
      <4>3. Covers(recv[q][e % 2], Merged(q, e), e)
        BY <2>1 DEF Inv, IndInv, RecvInv
      <4>. QED BY <4>2, <4>3, CoversHistory
    <3>. QED BY <3>1, <3>2
  <2>6. Covers(b, low, e)'
    BY <1>29, <2>5, CoversHistory
  <2>7. e = completed'[q] + d
    BY <1>14, <2>1
  <2>. QED BY <2>3, <2>4, <2>6, <2>7
<1>33. UnsentInv'
  <2> SUFFICES ASSUME NEW u \in Threads, kick'[u].pc = "send", NEW i \in Unsent(u)'
               PROVE  Covers(kick[u].arg, Heard(RankOf(u), i), kick[u].epoch)'
    BY DEF UnsentInv
  <2>1. CASE u # t
    BY <1>15, <1>29, <2>1 DEF Inv, IndInv, UnsentInv, Unsent
  <2>2. CASE u = t
    <3>1. n # 0 /\ kick'[t].arg = a /\ kick'[t].epoch = e0
      BY <1>15, <2>2
    <3>2. i \in 0 .. c
      <4>1. i \in k + 1 .. k + 1 + n - 1
        BY <1>15, <2>2, <3>1 DEF Unsent
      <4>. QED BY <1>6, <1>12, <4>1
    <3>3. PICK M : M = Merged(r, e0)'
      OBVIOUS
    <3>4. r \in M /\ \A j \in 0 .. c - 1 : Heard(From(r, j), j) \subseteq M
      <4>1. r \in M
        BY <1>9, <1>30, <3>3
      <4>2. ASSUME NEW j \in 0 .. c - 1, NEW x \in Heard(From(r, j), j)
            PROVE  x \in M
        <5>1. j \in Steps /\ Received(r, j, e0) /\ j \in Nat
          BY <1>25
        <5>2. x \in Ranks
          BY <5>1, PeerFacts, HeardFacts
        <5>3. x \in Merged(r, e0)
          BY <5>1, <5>2 DEF Merged
        <5>. QED BY <1>9, <1>30, <3>3, <5>3
      <4>. QED BY <4>1, <4>2
    <3>5. Heard(r, i) \subseteq M
      BY <1>6, <3>2, <3>4, HeardMerged
    <3>6. CoversIn(epoch, args, a, Heard(r, i), e0)
      BY <1>31, <3>3, <3>5, CoversStable
    <3>7. Covers(a, Heard(r, i), e0)'
      BY <1>29, <3>6, CoversHistory
    <3>. QED BY <1>1, <2>2, <3>1, <3>7
  <2>. QED BY <2>1, <2>2
<1>34. WireInv'
  BY <1>14, <1>29 DEF Inv, IndInv, WireInv
<1>. QED BY <1>14, <1>18, <1>22, <1>23, <1>24, <1>26, <1>27, <1>28, <1>32, <1>33, <1>34
         DEF Inv, IndInv
-----------------------------------------------------------------------------
(***************************************************************************)
(* Leaving.                                                                *)
(***************************************************************************)
\* After its last step a rank has accumulated the arguments of all ranks.
LEMMA AllMerged ==
  ASSUME Inv, NEW r \in Ranks, client[r] \notin {"outside", "flipping"},
         step[r] = Size
  PROVE  /\ epoch[r] = completed[r] + 1 /\ phase[r] = epoch[r] % 2
         /\ \A q \in Ranks : epoch[r] <= epoch[q]
         /\ \A q \in Ranks : Entered(q, epoch[r])
         /\ Summarises(recv[r][phase[r]], ArgsOf(epoch[r]))
<1>1. /\ completed[r] \in Nat /\ epoch[r] = completed[r] + 1
      /\ phase[r] = epoch[r] % 2
  BY DEF Inv, IndInv, WindowInv, TypeOK
<1>2. PICK e \in Nat : e = epoch[r]
  BY <1>1
<1>3. \A q \in Ranks : Entered(q, e)
  <2>1. Heard(r, step[r]) = Ranks
    BY HeardFacts
  <2>. QED BY <1>2, <2>1 DEF Inv, IndInv, EnteredInv
<1>4. \A q \in Ranks : epoch[q] \in Nat /\ e <= epoch[q]
  <2>1. \A q \in Ranks : epoch[q] \in Nat
    BY DEF Inv, TypeOK
  <2>. QED BY <1>3, <2>1 DEF Entered
<1>5. PICK M : M = Merged(r, e)
  OBVIOUS
<1>6. Ranks \subseteq M
  <2>1. r \in M
    <3>1. Size > 0 \/ Size = 0
      BY SizeFacts
    <3>. QED BY <1>2, <1>5, <3>1 DEF Merged
  <2>2. ASSUME NEW j \in 0 .. Size - 1, NEW x \in Heard(From(r, j), j)
        PROVE  x \in M
    <3>1. j \in Steps /\ j \in Nat /\ j < Size
      BY SizeFacts DEF Steps
    <3>2. x \in Ranks
      BY <3>1, PeerFacts, HeardFacts
    <3>3. Received(r, j, e)
      BY <1>2, <3>1 DEF Received
    <3>. QED BY <1>5, <3>1, <3>2, <3>3 DEF Merged
  <2>3. Size \in Nat /\ Size \in 0 .. Size
    BY SizeFacts
  <2>4. Heard(r, Size) \subseteq M
    BY <2>1, <2>2, <2>3, HeardMerged
  <2>. QED BY <2>4, HeardFacts
<1>7. Covers(recv[r][e % 2], M, e)
  <2>1. e = completed[r] + 1
    BY <1>1, <1>2
  <2>. QED BY <1>5, <2>1 DEF Inv, IndInv, RecvInv
<1>8. Summarises(recv[r][e % 2], {args[q][e % 2] : q \in Ranks})
  <2>1. PICK S \in SUBSET Ranks : /\ M \subseteq S
                                  /\ Summarises(recv[r][e % 2],
                                                {args[q][e % 2] : q \in S})
    BY <1>7 DEF Covers
  <2>2. S = Ranks
    BY <1>6, <2>1
  <2>. QED BY <2>1, <2>2
<1>. QED BY <1>1, <1>2, <1>3, <1>4, <1>8 DEF ArgsOf

\* What is in the accumulator and the steps of the next use of the phase is
\* left as gasnete_amdbarrier_init left it.
LEMMA LeaveStep ==
  ASSUME Inv, NEW r \in Ranks, Leave(r)
  PROVE  Inv' /\ SpecWait(r)
<1>1. /\ client[r] \in {"waiting", "trying"} /\ step[r] = Size
      /\ client' = [client EXCEPT ![r] = "outside"]
      /\ local' = [local EXCEPT ![r] = recv[r][phase[r]]]
      /\ recv' = [recv EXCEPT ![r][phase[r]] = Reset(@)]
      /\ completed' = [completed EXCEPT ![r] = @ + 1]
      /\ UNCHANGED <<lock, step, phase, step_done, pf, kick, net, handling,
                     epoch, args>>
  BY DEF Leave
<1>2. /\ epoch[r] = completed[r] + 1 /\ phase[r] = epoch[r] % 2
      /\ \A q \in Ranks : epoch[r] <= epoch[q]
      /\ \A q \in Ranks : Entered(q, epoch[r])
      /\ Summarises(recv[r][phase[r]], ArgsOf(epoch[r]))
  BY <1>1, AllMerged
<1>3. /\ completed[r] \in Nat /\ epoch[r] \in Nat /\ epoch[r] # 0
      /\ phase[r] \in Phases /\ recv[r][phase[r]] \in Arg
      /\ Reset(recv[r][phase[r]]) \in Arg
      /\ Reset(recv[r][phase[r]]).flags = {"ANONYMOUS"}
  <2>1. completed[r] \in Nat /\ phase[r] \in Phases
    BY DEF Inv, TypeOK
  <2>2. recv[r][phase[r]] \in Arg
    BY <2>1 DEF Inv, TypeOK
  <2>3. Reset(recv[r][phase[r]]) \in Arg
        /\ Reset(recv[r][phase[r]]).flags = {"ANONYMOUS"}
    BY <2>2 DEF Reset, Arg, Flags
  <2>. QED BY <1>2, <2>1, <2>2, <2>3
<1>4. PICK w \in WaitArgs :
        outcome' = [outcome EXCEPT ![r] = Outcome(recv[r][phase[r]], w)]
  <2>1. local'[r] = recv[r][phase[r]]
    BY <1>1 DEF Inv, TypeOK
  <2>. QED BY <2>1 DEF Leave, Outcome
<1>5. Promised(Outcome(recv[r][phase[r]], w), w, ArgsOf(epoch[r]))
      /\ Outcome(recv[r][phase[r]], w) \in Outcomes
  <2>1. ArgsOf(epoch[r]) \in SUBSET Arg
    <3>1. epoch[r] % 2 \in Phases /\ args \in [Ranks -> [Phases -> Arg]]
      BY <1>3, Parity DEF Inv, TypeOK
    <3>. QED BY <3>1 DEF ArgsOf
  <2>2. w \in Arg
    OBVIOUS
  <2>3. Promised(Outcome(recv[r][phase[r]], w), w, ArgsOf(epoch[r]))
    BY <1>2, <1>3, <2>1, <2>2, OutcomePromised
  <2>. QED BY <2>3 DEF Promised
<1>6. SpecWait(r)
  BY <1>1, <1>2, <1>4, <1>5 DEF SpecWait
<1>7. /\ client'[r] = "outside" /\ completed'[r] = completed[r] + 1
      /\ recv'[r][phase[r]] = Reset(recv[r][phase[r]])
      /\ \A q \in Ranks : q # r => /\ client'[q] = client[q]
                                   /\ completed'[q] = completed[q]
                                   /\ local'[q] = local[q]
                                   /\ recv'[q] = recv[q]
      /\ \A p \in Phases : p # phase[r] => recv'[r][p] = recv[r][p]
  BY <1>1, <1>3 DEF Inv, TypeOK
<1>8. TypeOK'
  <2>1. completed' \in [Ranks -> Nat] /\ local' \in [Ranks -> Arg]
    BY <1>1, <1>3 DEF Inv, TypeOK
  <2>2. client' \in [Ranks -> {"outside", "flipping", "sending", "inside",
                               "waiting", "trying"}]
    BY <1>1 DEF Inv, TypeOK
  <2>3. recv' \in [Ranks -> [Phases -> Arg]]
    BY <1>1, <1>3 DEF Inv, TypeOK
  <2>4. outcome' \in [Ranks -> Outcomes \cup {NoOutcome}]
    BY <1>4, <1>5 DEF Inv, TypeOK
  <2>. QED BY <1>1, <2>1, <2>2, <2>3, <2>4 DEF Inv, TypeOK
<1>9. WindowInv'
  <2> SUFFICES ASSUME NEW q \in Ranks
        PROVE /\ client'[q] = "outside" => /\ epoch[q] = completed'[q]
                                /\ step[q] = (IF epoch[q] = 0 THEN 0 ELSE Size)
              /\ client'[q] # "outside" => /\ epoch[q] = completed'[q] + 1
                                /\ local'[q] = args[q][epoch[q] % 2]
              /\ client'[q] = "flipping" => step[q] = 0
              /\ client'[q] \in {"flipping", "sending"} => Size # 0
              /\ phase[q] = (IF client'[q] = "flipping" THEN completed'[q]
                                                       ELSE epoch[q]) % 2
              /\ epoch[q] <= MaxEpoch
              /\ \A i \in Steps : i < step[q] => ~step_done[q][epoch[q] % 2][i]
    BY <1>1 DEF WindowInv
  <2>1. CASE q # r
    BY <1>7, <2>1 DEF Inv, IndInv, WindowInv
  <2>2. CASE q = r
    BY <1>1, <1>2, <1>3, <1>7, <2>2 DEF Inv, IndInv, WindowInv
  <2>. QED BY <2>1, <2>2
<1>10. EnteredInv'
  <2> SUFFICES ASSUME NEW q \in Ranks
        PROVE (/\ client[q] # "flipping" =>
                    \A x \in Heard(q, step[q]) : Entered(x, epoch[q])
               /\ \A x \in Ranks : Entered(x, completed[q]))'
    BY DEF EnteredInv
  <2>2. \A x \in Ranks : (client[x] # "flipping") <=> (client'[x] # "flipping")
    BY <1>1, <1>7
  <2>3. Heard(q, step[q]) \subseteq Ranks
    BY HeardFacts, SizeFacts DEF Inv, TypeOK
  <2>4. (client[q] # "flipping" =>
           \A x \in Heard(q, step[q]) : Entered(x, epoch[q]))'
    <3>1. client[q] # "flipping" => \A x \in Heard(q, step[q]) : Entered(x, epoch[q])
      BY DEF Inv, IndInv, EnteredInv
    <3>. QED BY <1>1, <2>2, <2>3, <3>1 DEF Entered
  <2>5. (\A x \in Ranks : Entered(x, completed[q]))'
    <3>1. CASE q # r
      BY <1>1, <1>7, <2>2, <3>1 DEF Inv, IndInv, EnteredInv, Entered
    <3>2. CASE q = r
      BY <1>1, <1>2, <1>7, <2>2, <3>2 DEF Entered
    <3>. QED BY <3>1, <3>2
  <2>. QED BY <2>4, <2>5
<1>11. KickInv' /\ MessageInv' /\ UniqueInv'
  BY <1>1 DEF Inv, IndInv, KickInv, MessageInv, UniqueInv, Unsent
<1>12. \A k \in Steps : ~step_done[r][(completed[r] + 3) % 2][k]
  <2> SUFFICES ASSUME NEW k \in Steps
               PROVE  ~step_done[r][(completed[r] + 3) % 2][k]
    OBVIOUS
  <2>1. (completed[r] + 3) % 2 = epoch[r] % 2
    BY <1>2, <1>3, Parity
  <2>2. k < step[r]
    BY <1>1, SizeFacts DEF Steps
  <2>3. \A j \in Steps : j < step[r] => ~step_done[r][epoch[r] % 2][j]
    BY DEF Inv, IndInv, WindowInv
  <2>. QED BY <2>1, <2>2, <2>3
<1>13. \A q \in Ranks, k \in Steps, e \in Nat :
         /\ OnWire(q, k, e)' = OnWire(q, k, e)
         /\ InHandler(q, k, e)' = InHandler(q, k, e)
         /\ Received(q, k, e)' = Received(q, k, e)
  <2> SUFFICES ASSUME NEW q \in Ranks, NEW k \in Steps, NEW e \in Nat
               PROVE  Received(q, k, e)' = Received(q, k, e)
    BY <1>1 DEF OnWire, InHandler
  <2>1. CASE q # r
    BY <1>1, <1>7, <2>1 DEF Received
  <2>2. CASE q = r
    <3>1. k < step[r]
      BY <1>1, SizeFacts DEF Steps
    <3>2. CASE e <= completed[r] + 1
      <4>1. e <= completed[r] \/ e = epoch[r]
        BY <1>2, <1>3, <3>2
      <4>. QED BY <1>7, <2>2, <3>1, <3>2, <4>1 DEF Received
    <3>3. CASE e = completed[r] + 2
      <4>1. /\ ~(e <= completed[r]) /\ ~(e <= completed[r] + 1) /\ e # epoch[r]
            /\ e <= completed[r] + 2 /\ e <= (completed[r] + 1) + 2
        BY <1>2, <1>3, <3>3
      <4>. QED BY <1>1, <1>7, <2>2, <4>1 DEF Received
    <3>4. CASE e = completed[r] + 3
      <4>1. /\ ~(e <= completed[r]) /\ ~(e <= completed[r] + 1) /\ e # epoch[r]
            /\ ~(e <= completed[r] + 2)
        BY <1>2, <1>3, <3>4
      <4>. QED BY <1>1, <1>7, <1>12, <2>2, <3>4, <4>1 DEF Received
    <3>5. CASE e > completed[r] + 3
      <4>1. /\ ~(e <= completed[r]) /\ ~(e <= completed[r] + 1) /\ e # epoch[r]
            /\ ~(e <= completed[r] + 2) /\ ~(e <= (completed[r] + 1) + 2)
        BY <1>2, <1>3, <3>5
      <4>. QED BY <1>1, <1>7, <2>2, <4>1 DEF Received
    <3>6. e <= completed[r] + 1 \/ e = completed[r] + 2 \/ e = completed[r] + 3
            \/ e > completed[r] + 3
      BY <1>3
    <3>. QED BY <3>2, <3>3, <3>4, <3>5, <3>6
  <2>. QED BY <2>1, <2>2
<1>14. \A s \in Ranks, k \in Steps, e \in Nat :
         Issued(s, k, e)' = Issued(s, k, e) /\ Pending(s, k, e)' = Pending(s, k, e)
  <2>1. \A q \in Ranks :
          /\ (client'[q] = "flipping") <=> (client[q] = "flipping")
          /\ (client'[q] = "sending") <=> (client[q] = "sending")
    BY <1>1, <1>7
  <2>. QED BY <1>1, <2>1 DEF Issued, Pending, Unsent
<1>15. TokenInv'
  <2> SUFFICES ASSUME NEW q \in Ranks, NEW k \in Steps, NEW e \in 1 .. MaxEpoch + 2
               PROVE  OnePlace(From(q, k), q, k, e)'
    BY DEF TokenInv
  <2>1. PICK s \in Ranks : s = From(q, k)
    BY PeerFacts, SizeFacts
  <2>. QED BY <1>13, <1>14, <2>1, TokenOf DEF OnePlace
<1>16. \A a, low, e : Covers(a, low, e)' = Covers(a, low, e)
  BY <1>1 DEF Covers
<1>17. \A q \in Ranks, e \in Nat : Merged(q, e)' = Merged(q, e)
  BY <1>1, <1>13 DEF Merged
<1>18. RecvInv'
  <2> SUFFICES ASSUME NEW q \in Ranks, NEW d \in {1, 2}
        PROVE Covers(recv[q][(completed[q] + d) % 2],
                     Merged(q, completed[q] + d), completed[q] + d)'
    BY DEF RecvInv
  <2>1. CASE q # r
    <3>1. PICK e \in Nat : e = completed[q] + d
      BY DEF Inv, TypeOK
    <3>2. Covers(recv[q][e % 2], Merged(q, e), e)
      BY <3>1 DEF Inv, IndInv, RecvInv
    <3>. QED BY <1>7, <1>16, <1>17, <2>1, <3>1, <3>2
  <2>2. CASE q = r /\ d = 1
    <3>1. PICK e \in Nat : e = completed[r] + 2
      BY <1>3
    <3>2. Covers(recv[r][e % 2], Merged(r, e), e)
      BY <3>1 DEF Inv, IndInv, RecvInv
    <3>3. e % 2 \in Phases /\ e % 2 # phase[r]
      <4>1. (completed[r] + 2) % 2 # (completed[r] + 1) % 2
        BY <1>3, Parity
      <4>. QED BY <1>2, <3>1, <4>1, Parity
    <3>4. e = completed'[r] + d
      BY <1>3, <1>7, <2>2, <3>1
    <3>. QED BY <1>7, <1>16, <1>17, <2>2, <3>2, <3>3, <3>4
  <2>3. CASE q = r /\ d = 2
    <3>1. PICK e \in Nat : e = completed[r] + 3
      BY <1>3
    <3>2. e % 2 = phase[r]
      BY <1>2, <1>3, <3>1, Parity
    <3>3. Merged(r, e) = {}
      <4>1. \A k \in Steps : ~InHandler(r, k, e)
        <5> SUFFICES ASSUME NEW m \in handling, m.to = r, m.epoch = e PROVE FALSE
          BY DEF InHandler, IsFor
        <5>1. m.epoch <= completed[r] + 2
          BY MessageToken
        <5>. QED BY <1>3, <3>1, <5>1
      <4>2. \A k \in Steps : ~Received(r, k, e)
        BY <1>2, <1>3, <3>1 DEF Received
      <4>3. epoch[r] # e
        BY <1>2, <1>3, <3>1
      <4>. QED BY <4>1, <4>2, <4>3 DEF Merged
    <3>4. PICK a : a = recv'[r][phase[r]]
      OBVIOUS
    <3>5. CoversIn(epoch, args, a, {}, e)
      BY <1>3, <1>7, <3>4, CoversNone
    <3>6. Covers(a, {}, e)'
      BY <1>16, <3>5, CoversHistory
    <3>7. e = completed'[r] + d
      BY <1>3, <1>7, <2>3, <3>1
    <3>8. Merged(r, e)' = {}
      BY <1>17, <3>3
    <3>. QED BY <2>3, <3>2, <3>4, <3>6, <3>7, <3>8
  <2>. QED BY <2>1, <2>2, <2>3
<1>19. WireInv' /\ UnsentInv'
  BY <1>1, <1>16 DEF Inv, IndInv, WireInv, UnsentInv, Unsent
<1>. QED BY <1>6, <1>8, <1>9, <1>10, <1>11, <1>15, <1>18, <1>19 DEF Inv, IndInv

-----------------------------------------------------------------------------
\* Every step preserves the invariant and is a step of the abstract barrier
\* or leaves its variables alone.
LEMMA NextStep ==
  ASSUME Inv, [Next]_vars
  PROVE  Inv' /\ [SpecNext]_specVars
<1>1. CASE Handlers
  BY <1>1, ReqhStep, ReqhDoneStep DEF Handlers
<1>2. ASSUME NEW t \in Threads, Kick(t)
      PROVE  Inv' /\ [SpecNext]_specVars
  <2>1. CASE KickLocked(t)
    BY <2>1, KickLockedStep, QuietKickStep
  <2>2. CASE KickSend(t)
    BY <2>2, KickSendStep
  <2>3. CASE KickCall(t) \/ KickEnter(t)
    BY <2>3, QuietKickStep
  <2>. QED BY <1>2, <2>1, <2>2, <2>3 DEF Kick
<1>3. ASSUME NEW r \in Ranks, Call(r)
      PROVE  Inv' /\ [SpecNext]_specVars
  <2>1. CASE Notify(r)
    <3>1. SpecNotify(r)
      BY <2>1 DEF Notify
    <3>. QED BY <2>1, <3>1, NotifyStep, NotifySingletonStep DEF SpecNext
  <2>2. CASE NotifyFlip(r) \/ NotifySend(r)
    BY <2>2, FlipStep, SendStep
  <2>3. CASE Leave(r)
    BY <2>3, LeaveStep DEF SpecNext
  <2>4. CASE Wait(r) \/ Try(r) \/ TryFail(r)
    BY <2>4, QuietCallStep
  <2>. QED BY <1>3, <2>1, <2>2, <2>3, <2>4 DEF Call
<1>4. CASE UNCHANGED vars
  BY <1>4, StutteringStep
<1>. QED BY <1>1, <1>2, <1>3, <1>4 DEF Next, Terminated

-----------------------------------------------------------------------------
\* The inductive invariant holds in every reachable state, for any number of
\* ranks, any set of ranks with a poller and any number of barriers.
THEOREM Invariance == Spec => []Inv
<1>1. Init => Inv
  BY InitInv
<1>2. Inv /\ [Next]_vars => Inv'
  BY NextStep
<1>. QED BY <1>1, <1>2, PTL DEF Spec

\* All variables keep their types; in particular no kick sends beyond the
\* last step, however many messages arrive while it is under way.
THEOREM TypeCorrectness == Spec => []TypeOK
BY Invariance, PTL DEF Inv

\* No rank leaves a barrier that some rank has not notified.
THEOREM BarrierSafety == Spec => []BarrierSafe
<1>1. TypeOK /\ IndInv => BarrierSafe
  BY CloseTogether DEF BarrierSafe, Inv
<1>. QED BY <1>1, Invariance, PTL DEF Inv

\* The assertion of notify_reqh holds and every message, sent or still to be
\* sent, is for a barrier that its receiver has not left.
THEOREM MessagesAwaited == Spec => []EveryMessageIsAwaited
<1>1. TypeOK /\ IndInv => EveryMessageIsAwaited
  <2> SUFFICES ASSUME Inv PROVE EveryMessageIsAwaited
    BY DEF Inv
  <2>1. ASSUME NEW m \in handling PROVE ~step_done[m.to][m.phase][m.step]
    <3>1. m \in net \cup handling
      OBVIOUS
    <3>. QED BY <3>1, MessageToken DEF Received
  <2>2. ASSUME NEW m \in net \cup handling
        PROVE  completed[m.to] < m.epoch /\ m.epoch <= epoch[m.to] + 1
    <3>1. m.epoch \in Nat \ {0}
      BY MessageToken
    <3>. QED BY <3>1, MessageToken, IssuedAwaited
  <2>3. ASSUME NEW t \in Threads, kick[t].pc = "send", NEW i \in Unsent(t)
        PROVE  LET q == Peer(RankOf(t), i)  e == kick[t].epoch IN
               completed[q] < e /\ e <= epoch[q] + 1
    <3>1. PICK e \in Nat \ {0} : e = kick[t].epoch
      BY <2>3, UnsentToken
    <3>2. PICK s \in Ranks : s = RankOf(t)
      BY ThreadFacts
    <3>3. Issued(s, i, e) /\ i \in Steps /\ Peer(s, i) \in Ranks
          /\ completed[Peer(s, i)] < e
      BY <2>3, <3>1, <3>2, UnsentToken
    <3>4. e <= epoch[Peer(s, i)] + 1
      BY <3>3, IssuedAwaited
    <3>. QED BY <3>1, <3>2, <3>3, <3>4
  <2>. QED BY <2>1, <2>2, <2>3 DEF EveryMessageIsAwaited, Unsent
<1>. QED BY <1>1, Invariance, PTL DEF Inv

\* Wait and kick leave the phase they used as init left it.
THEOREM Clean == Spec => []PhaseIsClean
<1>1. TypeOK /\ IndInv => PhaseIsClean
  <2> SUFFICES ASSUME Inv, NEW r \in Ranks, client[r] = "outside"
               PROVE  /\ recv[r][phase[r]].flags = {"ANONYMOUS"}
                      /\ \A k \in Steps : ~step_done[r][phase[r]][k]
    BY DEF PhaseIsClean, Inv
  <2>1. /\ completed[r] \in Nat /\ epoch[r] = completed[r] /\ epoch[r] <= MaxEpoch
        /\ phase[r] = completed[r] % 2 /\ phase[r] \in Phases
    BY DEF Inv, IndInv, WindowInv, TypeOK
  <2>2. PICK e \in 1 .. MaxEpoch + 2 : e = completed[r] + 2
    BY <2>1
  <2>3. e % 2 = phase[r]
    BY <2>1, <2>2, Parity
  <2>4. \A q \in Ranks : epoch[q] < e
    <3>1. \A q \in Ranks : epoch[q] <= epoch[r] + 1 /\ epoch[q] \in Nat
      BY CloseTogether DEF Inv, TypeOK
    <3>. QED BY <2>1, <2>2, <3>1
  <2>5. recv[r][e % 2].flags = {"ANONYMOUS"}
    <3>1. Covers(recv[r][e % 2], Merged(r, e), e)
      BY <2>2 DEF Inv, IndInv, RecvInv
    <3>2. PICK S \in SUBSET Ranks : /\ \A q \in S : epoch[q] >= e
                                    /\ Summarises(recv[r][e % 2],
                                                  {args[q][e % 2] : q \in S})
      BY <3>1 DEF Covers
    <3>3. S = {}
      <4>1. \A q \in Ranks : epoch[q] \in Nat
        BY DEF Inv, TypeOK
      <4>. QED BY <2>4, <3>2, <4>1
    <3>4. {args[q][e % 2] : q \in S} = {}
      BY <3>3
    <3>5. recv[r][e % 2] \in Arg
      BY <2>1, <2>3 DEF Inv, TypeOK
    <3>. QED BY <3>2, <3>4, <3>5, ResetSummarises
  <2>6. ASSUME NEW k \in Steps, step_done[r][phase[r]][k] PROVE FALSE
    <3>1. Received(r, k, e)
      BY <2>2, <2>3, <2>6 DEF Received
    <3>2. PICK s \in Ranks : s = From(r, k)
      BY PeerFacts, SizeFacts
    <3>3. Issued(s, k, e)
      BY <3>1, <3>2, TokenOf DEF OnePlace
    <3>4. e <= completed[r] + 1
      <4>1. e \in Nat \ {0}
        OBVIOUS
      <4>. QED BY <3>3, <4>1, IssuedAwaited
    <3>. QED BY <2>1, <2>2, <3>4
  <2>. QED BY <2>3, <2>5, <2>6
<1>. QED BY <1>1, Invariance, PTL DEF Inv

\* Whoever is at step k, or receives a message of step k, knows that the
\* sender and its 2^k - 1 predecessors have notified.
THEOREM Knowledge == Spec => []KnowsPredecessors
<1>1. TypeOK /\ IndInv => KnowsPredecessors
  <2> SUFFICES ASSUME Inv PROVE KnowsPredecessors
    BY DEF Inv
  <2>1. ASSUME NEW r \in Ranks, client[r] # "outside",
               NEW i \in 0 .. 2^step[r] - 1
        PROVE  epoch[(r - i) % N] >= epoch[r]
    <3>1. step[r] \in Nat /\ epoch[r] \in Nat
      BY SizeFacts DEF Inv, TypeOK
    <3>2. (r - i) % N \in Heard(r, step[r])
      BY DEF Heard
    <3>3. CASE client[r] # "flipping"
      <4>1. (r - i) % N \in Ranks /\ Entered((r - i) % N, epoch[r])
        BY <3>1, <3>2, <3>3, HeardFacts DEF Inv, IndInv, EnteredInv
      <4>. QED BY <3>1, <4>1, EnteredMonotone DEF Inv
    <3>4. CASE client[r] = "flipping"
      <4>1. step[r] = 0
        BY <3>4 DEF Inv, IndInv, WindowInv
      <4>2. (r - i) % N = r
        BY <3>2, <4>1, HeardFacts
      <4>. QED BY <3>1, <4>2
    <3>. QED BY <3>3, <3>4
  <2>2. ASSUME NEW m \in net \cup handling, NEW i \in 0 .. 2^m.step - 1
        PROVE  epoch[(((m.to - 2^m.step) % N) - i) % N] >= m.epoch
    <3>1. PICK s \in Ranks : s = From(m.to, m.step)
      BY MessageToken
    <3>2. m.step \in Steps /\ m.epoch \in Nat /\ Issued(s, m.step, m.epoch)
      BY <3>1, MessageToken
    <3>3. (s - i) % N \in Heard(s, m.step)
      BY DEF Heard
    <3>4. (s - i) % N \in Ranks /\ Entered((s - i) % N, m.epoch)
      BY <3>2, <3>3, IssuedKnows
    <3>5. epoch[(s - i) % N] >= m.epoch
      BY <3>2, <3>4, EnteredMonotone DEF Inv
    <3>. QED BY <3>1, <3>5 DEF From
  <2>. QED BY <2>1, <2>2 DEF KnowsPredecessors
<1>. QED BY <1>1, Invariance, PTL DEF Inv

\* When everything sent has been received and somebody is not done, the rank
\* that is furthest behind can go on: its next message cannot be missing.
THEOREM NoStepIsLost == Spec => []NoLostStep
<1>1. TypeOK /\ IndInv => NoLostStep
  <2> SUFFICES ASSUME Inv, NEW e \in 1 .. MaxEpoch,
                 \A r \in Ranks : \/ epoch[r] > e
                                  \/ /\ epoch[r] = e
                                     /\ client[r] \notin {"flipping", "sending"},
                 \A m \in net \cup handling : m.epoch # e,
                 \A t \in Threads : ~(kick[t].pc = "send" /\ kick[t].epoch = e),
                 NEW r0 \in Ranks, epoch[r0] = e, step[r0] # Size
               PROVE  \E r \in Ranks : /\ epoch[r] = e /\ step[r] # Size
                                       /\ step_done[r][e % 2][step[r]]
    BY DEF NoLostStep, Inv
  <2> DEFINE Behind == {r \in Ranks : epoch[r] = e /\ step[r] # Size}
             T == {step[r] : r \in Behind}
  <2>1. step \in [Ranks -> 0 .. Size] /\ Size \in Nat /\ r0 \in Behind
    BY SizeFacts DEF Inv, TypeOK
  <2>2. T \in SUBSET Nat /\ T # {}
    BY <2>1
  <2>3. PICK k \in T : \A j \in T : k <= j
    BY <2>2, LeastElement
  <2>4. PICK r \in Behind : k = step[r]
    BY <2>3
  <2>5. k \in Steps /\ k \in Nat
    BY <2>1, <2>4, SizeFacts
  <2>6. PICK s \in Ranks : s = From(r, k)
    BY <2>5, PeerFacts
  <2>7. Issued(s, k, e)
    <3>1. epoch[s] = e => k <= step[s]
      <4>1. s \in Behind => step[s] \in T
        OBVIOUS
      <4>2. epoch[s] = e /\ s \notin Behind => step[s] = Size
        OBVIOUS
      <4>. QED BY <2>1, <2>3, <2>4, <4>1, <4>2
    <3>. QED BY <3>1 DEF Issued
  <2>8. ~Pending(s, k, e) /\ ~OnWire(r, k, e) /\ ~InHandler(r, k, e)
    BY DEF Pending, OnWire, InHandler, IsFor
  <2>9. Received(r, k, e)
    <3>1. OnePlace(s, r, k, e)
      BY <2>5, <2>6, TokenOf
    <3>. QED BY <2>7, <2>8, <3>1 DEF OnePlace
  <2>10. epoch[r] = completed[r] + 1 /\ completed[r] \in Nat
    <3>1. epoch[r] = e /\ step[r] # Size /\ epoch[r] # 0 /\ completed[r] \in Nat
      BY DEF Inv, TypeOK
    <3>. QED BY <3>1 DEF Inv, IndInv, WindowInv
  <2>11. step_done[r][e % 2][k]
    BY <2>4, <2>5, <2>9, <2>10 DEF Received
  <2>. QED BY <2>4, <2>11
<1>. QED BY <1>1, Invariance, PTL DEF Inv

\* The dissemination barrier implements the abstract barrier: every wait
\* returns the verdict that the notifications of all ranks imply, after all
\* of them, although each rank hears of most others at second hand.
THEOREM Refinement == Spec => ImplementsBarrier
<1>1. Init => SpecInit
  BY DEF Init
<1>2. Inv /\ [Next]_vars => [SpecNext]_specVars
  BY NextStep
<1>. QED BY <1>1, <1>2, Invariance, PTL DEF Spec, SpecSpec, ImplementsBarrier, Inv
=============================================================================
