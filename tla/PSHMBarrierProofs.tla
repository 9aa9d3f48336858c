-------------------------- MODULE PSHMBarrierProofs --------------------------
(***************************************************************************)
(* TLAPS proofs about the shared-memory barrier, for every number of       *)
(* processes and every radix of its tree.                                  *)
(***************************************************************************)
EXTENDS PSHMBarrier, BarrierNamingProofs

USE NAssumption, IdsAssumption, ArgsAssumption, MaxEpochAssumption,
    RadixAssumption

-----------------------------------------------------------------------------
(***************************************************************************)
(* The tree: whatever the radix, each rank but the root has a parent of    *)
(* lower rank, so that all ranks are below the root.                       *)
(***************************************************************************)
LEMMA Quotient ==
  ASSUME NEW a \in Nat, NEW d \in Nat \ {0}
  PROVE  \E q \in Nat, r \in 0 .. d - 1 : a = d * q + r /\ r = a % d
<1>1. /\ a % d \in 0 .. d - 1 /\ a \div d \in Int
      /\ a = d * (a \div d) + (a % d)
  OBVIOUS
<1>2. PICK q \in Int, r \in 0 .. d - 1 : a = d * q + r /\ r = a % d
  BY <1>1
<1>3. ASSUME q <= -1 PROVE FALSE
  <2>1. d * q <= -d
    BY <1>3
  <2>. QED BY <1>2, <2>1
<1>4. q \in Nat
  BY <1>3
<1>. QED BY <1>2, <1>4

\* A multiple leaves no remainder.
LEMMA Multiple ==
  ASSUME NEW d \in Nat \ {0}, NEW q \in Nat
  PROVE  (d * q) % d = 0
<1>1. PICK a \in Nat : a = d * q
  OBVIOUS
<1>2. PICK p \in Nat, r \in 0 .. d - 1 : a = d * p + r /\ r = a % d
  BY Quotient
<1>3. d * (q - p) = r
  BY <1>1, <1>2
<1>4. ASSUME q >= p + 1 PROVE FALSE
  <2>1. d * (q - p) >= d
    BY <1>4
  <2>. QED BY <1>3, <2>1
<1>5. ASSUME q <= p - 1 PROVE FALSE
  <2>1. d * (q - p) <= -d
    BY <1>5
  <2>. QED BY <1>3, <2>1
<1>6. q = p
  BY <1>4, <1>5
<1>7. r = 0
  <2>1. q - p = 0
    BY <1>6
  <2>2. r = d * 0
    BY <1>3, <2>1
  <2>. QED BY <2>2
<1>8. a % d = 0
  BY <1>2, <1>7
<1>. QED BY <1>1, <1>8

\* Children are ranks other than the root.
LEMMA ChildrenRange ==
  ASSUME radix \in Int, NEW r \in Ranks
  PROVE  Children(r) \subseteq Ranks \ {RootRank}
<1>0. N \in Nat /\ r \in Nat /\ Ranks = 0 .. N - 1 /\ RootRank = 0
  BY DEF Ranks, RootRank
<1>1. CASE radix < 0
  <2> DEFINE cell == -radix
  <2>1. cell \in Nat \ {0}
    BY <1>1
  <2>2. (r + 1 .. Least2(N, r + cell) - 1) \subseteq Ranks \ {RootRank}
    BY <1>0, <2>1 DEF Least2
  <2>3. {i \in cell .. N - 1 : i % cell = 0} \subseteq Ranks \ {RootRank}
    BY <1>0, <2>1
  <2>. QED BY <1>1, <2>2, <2>3 DEF Children
<1>2. CASE ~(radix < 0)
  <2>1. PICK out \in Nat : out = IF radix = 0 THEN N - 1 ELSE radix
    BY <1>0, <1>2
  <2>2. PICK x \in Nat : x = out * r
    BY <1>0
  <2>3. Children(r) = (x + 1) .. Least2(N, x + 1 + out) - 1
    BY <1>2, <2>1, <2>2 DEF Children
  <2>. QED BY <1>0, <2>1, <2>3 DEF Least2
<1>. QED BY <1>1, <1>2

\* Every rank but the root has a parent, of a smaller rank.
LEMMA HasParent ==
  ASSUME radix \in Int, NEW c \in Ranks, c # RootRank
  PROVE  \E p \in Ranks : p < c /\ c \in Children(p)
<1>0. N \in Nat /\ c \in Nat /\ c < N /\ c >= 1 /\ Ranks = 0 .. N - 1 /\ RootRank = 0
  BY DEF Ranks, RootRank
<1>1. CASE radix < 0
  <2>1. PICK cell \in Nat \ {0} : cell = -radix
    BY <1>1
  <2>2. PICK q \in Nat, s \in 0 .. cell - 1 : c = cell * q + s /\ s = c % cell
    BY <1>0, <2>1, Quotient
  <2>3. CASE s = 0
    <3>1. c >= cell
      <4>1. ASSUME q = 0 PROVE FALSE
        BY <1>0, <2>2, <2>3, <4>1
      <4>2. cell * q >= cell
        BY <4>1
      <4>. QED BY <2>2, <2>3, <4>2
    <3>2. c \in {i \in cell .. N - 1 : i % cell = 0}
      BY SMTT(30), <1>0, <2>2, <2>3, <3>1
    <3>3. 0 % cell = 0
      <4>1. cell * 0 = 0
        OBVIOUS
      <4>. QED BY <4>1, Multiple
    <3>4. c \in Children(0)
      BY <1>0, <1>1, <2>1, <3>2, <3>3 DEF Children
    <3>. QED BY <1>0, <3>4
  <2>4. CASE s # 0
    <3>1. PICK p \in Nat : p = cell * q
      OBVIOUS
    <3>2. p < c /\ p \in Ranks /\ c < p + cell /\ p % cell = 0
      <4>1. c = p + s /\ s \in 1 .. cell - 1
        BY <2>2, <2>4, <3>1
      <4>2. p % cell = 0
        BY <3>1, Multiple
      <4>. QED BY <1>0, <4>1, <4>2
    <3>3. c \in p + 1 .. Least2(N, p + cell) - 1
      BY <1>0, <3>2 DEF Least2
    <3>4. c \in Children(p)
      BY <1>1, <2>1, <3>2, <3>3 DEF Children
    <3>. QED BY <3>2, <3>4
  <2>. QED BY <2>3, <2>4
<1>2. CASE ~(radix < 0)
  <2>1. PICK out \in Nat \ {0} : out = IF radix = 0 THEN N - 1 ELSE radix
    BY <1>0, <1>2
  <2>2. PICK p \in Nat, s \in 0 .. out - 1 : c - 1 = out * p + s
    <3>1. c - 1 \in Nat
      BY <1>0
    <3>. QED BY ZenonT(60), <3>1, Quotient
  <2>3. PICK x \in Nat : x = out * p
    OBVIOUS
  <2>4. x >= p
    <3>1. out * p >= 1 * p
      OBVIOUS
    <3>. QED BY <2>3, <3>1
  <2>5. p < c /\ p \in Ranks
    BY <1>0, <2>2, <2>3, <2>4
  <2>6. c \in (x + 1) .. Least2(N, x + 1 + out) - 1
    BY <1>0, <2>2, <2>3 DEF Least2
  <2>7. c \in Children(p)
    BY <1>2, <2>1, <2>3, <2>6 DEF Children
  <2>. QED BY <2>5, <2>7
<1>. QED BY <1>1, <1>2

\* Below the root are all; below a rank, itself and what is below its children.
LEMMA BelowFacts ==
  ASSUME radix \in Int
  PROVE  /\ Below(RootRank) = Ranks
         /\ \A r \in Ranks : Below(r) = {r} \cup UNION {Below(c) : c \in Children(r)}
<1>1. ASSUME NEW r \in Ranks PROVE r \in Below(r) /\ Below(r) \subseteq Ranks
  BY DEF Below
<1>2. ASSUME NEW r \in Ranks, NEW c \in Children(r) PROVE Below(c) \subseteq Below(r)
  <2> SUFFICES ASSUME NEW q \in Below(c), NEW T \in SUBSET Ranks,
                      r \in T, \A p \in T : Children(p) \subseteq T
               PROVE  q \in T
    BY DEF Below
  <2>1. c \in T
    OBVIOUS
  <2>. QED BY <2>1 DEF Below
<1>3. ASSUME NEW r \in Ranks, NEW q \in Below(r)
      PROVE  q \in {r} \cup UNION {Below(c) : c \in Children(r)}
  <2> DEFINE T == {r} \cup UNION {Below(c) : c \in Children(r)}
  <2>1. T \subseteq Ranks
    BY <1>1, ChildrenRange
  <2>2. ASSUME NEW p \in T, NEW d \in Children(p) PROVE d \in T
    <3>1. d \in Ranks /\ p \in Ranks /\ d \in Below(d)
      BY <1>1, <2>1, ChildrenRange
    <3>2. CASE p = r
      BY <3>1, <3>2
    <3>3. CASE p # r
      <4>1. PICK c \in Children(r) : p \in Below(c)
        BY <3>3
      <4>2. c \in Ranks
        BY ChildrenRange
      <4>3. d \in Below(c)
        <5> SUFFICES ASSUME NEW U \in SUBSET Ranks, c \in U,
                            \A o \in U : Children(o) \subseteq U
                     PROVE  d \in U
          BY <3>1 DEF Below
        <5>1. p \in U
          BY <4>1 DEF Below
        <5>. QED BY <5>1
      <4>. QED BY <4>3
    <3>. QED BY <3>2, <3>3
  <2> HIDE DEF T
  <2>3. r \in T
    BY DEF T
  <2>4. q \in T
    BY <2>1, <2>2, <2>3 DEF Below
  <2>. QED BY <2>4 DEF T
<1>4. ASSUME NEW r \in Ranks
      PROVE  Below(r) = {r} \cup UNION {Below(c) : c \in Children(r)}
  BY <1>1, <1>2, <1>3
<1>5. Below(RootRank) = Ranks
  <2>1. RootRank \in Ranks
    BY DEF RootRank, Ranks
  <2> SUFFICES ASSUME NEW q \in Ranks, NEW T \in SUBSET Ranks, RootRank \in T,
                      \A p \in T : Children(p) \subseteq T
               PROVE  q \in T
    BY <1>1, <2>1 DEF Below
  <2> SUFFICES ASSUME q \notin T PROVE FALSE
    OBVIOUS
  <2>2. Ranks \ T \in SUBSET Nat /\ Ranks \ T # {}
    BY DEF Ranks
  <2>3. PICK c \in Ranks \ T : \A y \in Ranks \ T : c <= y
    BY <2>2, LeastElement
  <2>4. PICK p \in Ranks : p < c /\ c \in Children(p)
    BY <2>3, HasParent
  <2>5. p \notin T
    BY <2>3, <2>4
  <2>. QED BY <2>3, <2>4, <2>5 DEF Ranks
<1>. QED BY <1>4, <1>5

-----------------------------------------------------------------------------
(***************************************************************************)
(* Facts about a state, and about steps that leave the tree alone.         *)
(***************************************************************************)
LEMMA Parity ==
  \A n \in Nat : /\ n % 2 \in {0, 1}
                 /\ (n + 1) % 2 # n % 2 /\ (n + 1) % 2 \in {0, 1}
  OBVIOUS

\* The root is rank 0.
LEMMA RootFacts == RootRank \in Ranks /\ Ranks \subseteq Nat /\ RootRank = 0
  BY DEF RootRank, Ranks

\* The tree does not change.
LEMMA TreeKept ==
  ASSUME UNCHANGED radix
  PROVE  \A r : Children(r)' = Children(r) /\ Below(r)' = Below(r)
<1>1. \A r : Children(r)' = Children(r)
  BY DEF Children
<1>. QED BY <1>1 DEF Below

\* The number of barriers released is a number.
LEMMA ReleasedType ==
  ASSUME PSHMBarrierInv
  PROVE  Released \in Nat
<1>1. epoch[RootRank] \in Nat /\ completed[RootRank] \in Nat
  BY RootFacts DEF PSHMBarrierInv, HistoryTypeOK
<1>2. client[RootRank] # "outside" => epoch[RootRank] = completed[RootRank] + 1
  BY RootFacts DEF PSHMBarrierInv, RankInv
<1>. QED BY <1>1, <1>2 DEF Released

\* A rank that has arrived has gathered all that is below it.
LEMMA GatheredAll ==
  ASSUME PSHMBarrierInv, NEW r \in Ranks, HasArrived(r)
  PROVE  Gathered(r) = Below(r)
<1>1. remain[r] = {}
  BY DEF PSHMBarrierInv, RankInv
<1>. QED BY <1>1, BelowFacts DEF Gathered, PSHMBarrierInv, HistoryTypeOK

\* What a rank has gathered are arguments of ranks.
LEMMA GatheredArgs ==
  ASSUME PSHMBarrierInv, NEW r \in Ranks
  PROVE  /\ Gathered(r) \subseteq Ranks /\ partial[r] \in Arg
         /\ \A e \in Nat : ArgsIn(Gathered(r), e) \in SUBSET Arg
<1>1. radix \in Int /\ args \in [Ranks -> [{0, 1} -> Arg]] /\ partial[r] \in Arg
  BY DEF PSHMBarrierInv, HistoryTypeOK, PSHMBarrierTypeOK
<1>2. \A c \in Children(r) : Below(c) \subseteq Ranks
  BY DEF Below
<1>3. Gathered(r) \subseteq Ranks
  BY <1>2 DEF Gathered
<1>. QED BY <1>1, <1>3, Parity DEF ArgsIn

\* When the root publishes or signals, all ranks have notified and arrived.
LEMMA AllIn ==
  ASSUME PSHMBarrierInv, client[RootRank] \in {"publishing", "signalling"}
  PROVE  /\ epoch[RootRank] = Released + 1
         /\ \A r \in Ranks : epoch[r] = Released + 1 /\ HasArrived(r)
         /\ Summarises(partial[RootRank], ArgsOf(Released + 1))
<1>1. HasArrived(RootRank)
  BY RootFacts DEF PSHMBarrierInv, RankInv
<1>2. epoch[RootRank] = Released + 1
  BY RootFacts DEF PSHMBarrierInv, HistoryTypeOK, Released
<1>3. Gathered(RootRank) = Ranks
  BY <1>1, RootFacts, GatheredAll, BelowFacts
     DEF PSHMBarrierInv, HistoryTypeOK
<1>4. /\ \A q \in Ranks \ {RootRank} : epoch[q] = epoch[RootRank] /\ HasArrived(q)
      /\ Summarises(partial[RootRank], ArgsIn(Ranks, epoch[RootRank]))
  BY <1>2, <1>3, RootFacts DEF PSHMBarrierInv, GatherInv
<1>5. ArgsIn(Ranks, Released + 1) = ArgsOf(Released + 1)
  BY DEF ArgsIn, ArgsOf
<1>. QED BY <1>1, <1>2, <1>4, <1>5

\* Before the first barrier nobody has arrived and nothing is released.
LEMMA InitInv == PSHMBarrierInit => PSHMBarrierInv
<1> SUFFICES ASSUME PSHMBarrierInit PROVE PSHMBarrierInv
  OBVIOUS
<1>1. [flags |-> {}, value |-> 0] \in Arg /\ Fresh \in Arg
  BY FreshSummarises DEF Arg
<1>2. PSHMBarrierTypeOK
  BY <1>1 DEF PSHMBarrierInit, PSHMBarrierTypeOK
<1>3. HistoryTypeOK
  BY <1>1 DEF PSHMBarrierInit, SpecInit, HistoryTypeOK
<1>4. \A r \in Ranks : /\ client[r] = "outside" /\ HasArrived(r)
                       /\ epoch[r] = 0 /\ completed[r] = 0
                       /\ remain[r] = {} /\ two_to_phase[r] = 1
  BY DEF PSHMBarrierInit, SpecInit, HasArrived
<1>5. Released = 0
  BY <1>4, RootFacts DEF Released
<1>6. RankInv /\ ReleaseInv /\ GatherInv /\ PublishInv
  BY <1>4, <1>5, RootFacts
     DEF PSHMBarrierInit, RankInv, ReleaseInv, GatherInv, PublishInv
<1>. QED BY <1>2, <1>3, <1>6 DEF PSHMBarrierInv

\* What the ranks have gathered, when nothing is gathered and ranks arrive
\* with what they have.
LEMMA GatherKept ==
  ASSUME PSHMBarrierInv, UNCHANGED <<radix, epoch, args, remain, partial>>,
         Released' = Released,
         \A q \in Ranks :
           /\ HasArrived(q) => HasArrived(q)' /\ node'[q] = node[q]
           /\ HasArrived(q)' => HasArrived(q) \/ node'[q].arg = partial[q]
  PROVE  GatherInv'
<1>1. \A r \in Ranks : Gathered(r)' = Gathered(r) /\ Gathered(r) \subseteq Ranks
  BY TreeKept, GatheredArgs DEF Gathered
<1>2. \A r \in Ranks : ArgsIn(Gathered(r), epoch[r])' = ArgsIn(Gathered(r), epoch[r])
  BY <1>1 DEF ArgsIn
<1> SUFFICES ASSUME NEW r \in Ranks, (epoch[r] = Released + 1)'
             PROVE  (/\ \A q \in Gathered(r) \ {r} : epoch[q] = epoch[r] /\ HasArrived(q)
                     /\ Summarises(partial[r], ArgsIn(Gathered(r), epoch[r]))
                     /\ HasArrived(r) => node[r].arg = partial[r])'
  BY DEF GatherInv
<1>3. /\ \A q \in Gathered(r) \ {r} : epoch[q] = epoch[r] /\ HasArrived(q)
      /\ Summarises(partial[r], ArgsIn(Gathered(r), epoch[r]))
      /\ HasArrived(r) => node[r].arg = partial[r]
  BY DEF PSHMBarrierInv, GatherInv
<1>4. (\A q \in Gathered(r) \ {r} : epoch[q] = epoch[r] /\ HasArrived(q))'
  BY <1>1, <1>3
<1>5. (HasArrived(r) => node[r].arg = partial[r])'
  BY <1>3
<1>6. (Summarises(partial[r], ArgsIn(Gathered(r), epoch[r])))'
  BY <1>2, <1>3
<1>. QED BY <1>4, <1>5, <1>6

\* The released barrier, when its words are left alone.
LEMMA PublishKept ==
  ASSUME PSHMBarrierInv, UNCHANGED <<published, state>>,
         client[RootRank] = "signalling" => partial'[RootRank] = partial[RootRank],
         Released' = Released, ArgsOf(Released)' = ArgsOf(Released),
         (client[RootRank] = "signalling")' <=> (client[RootRank] = "signalling"),
         \A r \in Ranks :
           /\ client'[r] = "finishing" => returned'[r] = state.result
           /\ client'[r] = "left" => \E w \in WaitArgs : returned'[r] = Retval(published, w)
  PROVE  PublishInv'
  BY DEF PSHMBarrierInv, PublishInv

-----------------------------------------------------------------------------
(***************************************************************************)
(* One lemma per action.                                                   *)
(***************************************************************************)
LEMMA ArriveStep ==
  ASSUME PSHMBarrierInv, NEW r \in Ranks, Arrive(r)
  PROVE  PSHMBarrierInv'
<1>0. PSHMBarrierTypeOK /\ HistoryTypeOK /\ RankInv /\ ReleaseInv
  BY DEF PSHMBarrierInv
<1>1. client[r] = "arriving" /\ remain[r] = {} /\ ~HasArrived(r)
  BY <1>0 DEF Arrive, RankInv
<1>2. \A q \in Ranks \ {r} : /\ client'[q] = client[q] /\ node'[q] = node[q]
                             /\ HasArrived(q)' <=> HasArrived(q)
  BY <1>0 DEF Arrive, PSHMBarrierTypeOK, HasArrived
<1>3. /\ client'[r] = IF r = RootRank THEN "publishing" ELSE "inside"
      /\ node'[r].arg = partial[r] /\ HasArrived(r)'
  BY <1>0 DEF Arrive, PSHMBarrierTypeOK, HasArrived
<1>4. UNCHANGED <<radix, two_to_phase, remain, partial, published, state,
                  returned, specVars>>
  BY DEF Arrive
<1>5. Released' = Released
  <2>1. CASE r = RootRank
    BY <1>1, <1>3, <1>4, <2>1 DEF Released, specVars
  <2>2. CASE r # RootRank
    BY <1>2, <1>4, <2>2, RootFacts DEF Released, specVars
  <2>. QED BY <2>1, <2>2
<1>6. PSHMBarrierTypeOK'
  BY <1>0 DEF Arrive, PSHMBarrierTypeOK
<1>7. HistoryTypeOK'
  BY <1>0, <1>4 DEF HistoryTypeOK, specVars
<1>8. RankInv'
  <2>1. \A q : Children(q)' = Children(q)
    BY <1>4, TreeKept
  <2>. QED BY <1>0, <1>1, <1>2, <1>3, <1>4, <2>1 DEF RankInv, specVars
<1>9. ReleaseInv'
  <2>1. \A q \in Ranks : HasArrived(q) => HasArrived(q)'
    BY <1>2, <1>3
  <2>2. \A q \in Ranks : client'[q] \in {"finishing", "left"} => client'[q] = client[q]
    BY <1>2, <1>3
  <2>. QED BY <1>0, <1>4, <1>5, <2>1, <2>2 DEF ReleaseInv, specVars
<1>10. GatherInv'
  <2>1. \A q \in Ranks : /\ HasArrived(q) => HasArrived(q)' /\ node'[q] = node[q]
                         /\ HasArrived(q)' => HasArrived(q) \/ node'[q].arg = partial[q]
    BY <1>1, <1>2, <1>3
  <2>. QED BY <1>4, <1>5, <2>1, GatherKept DEF specVars
<1>11. PublishInv'
  <2>1. ArgsOf(Released)' = ArgsOf(Released)
    BY <1>4, <1>5 DEF ArgsOf, specVars
  <2>2. (client[RootRank] = "signalling")' <=> (client[RootRank] = "signalling")
    BY <1>1, <1>2, <1>3, RootFacts
  <2>3. \A q \in Ranks :
          /\ client'[q] = "finishing" => returned'[q] = state.result
          /\ client'[q] = "left" => \E w \in WaitArgs : returned'[q] = Retval(published, w)
    BY <1>2, <1>3, <1>4 DEF PSHMBarrierInv, PublishInv
  <2>. QED BY <1>4, <1>5, <2>1, <2>2, <2>3, PublishKept
<1>. QED BY <1>6, <1>7, <1>8, <1>9, <1>10, <1>11 DEF PSHMBarrierInv

\* A rank that absorbs a child's word has gathered what is below that child.
LEMMA KickStep ==
  ASSUME PSHMBarrierInv, NEW r \in Ranks, Kick(r)
  PROVE  PSHMBarrierInv'
<1>0. PSHMBarrierTypeOK /\ HistoryTypeOK /\ RankInv /\ ReleaseInv /\ GatherInv
  BY DEF PSHMBarrierInv
<1>1. PICK c \in remain[r] :
        /\ node[c].phase = two_to_phase[r]
        /\ partial' = [partial EXCEPT ![r] = Merge(@, node[c].arg)]
        /\ remain' = [remain EXCEPT ![r] = @ \ {c}]
        /\ client' = [client EXCEPT ![r] = IF remain[r] = {c} THEN "arriving" ELSE @]
  BY DEF Kick
<1>2. UNCHANGED <<radix, two_to_phase, node, published, state, returned, specVars>>
  BY DEF Kick
<1>3. client[r] = "inside" /\ ~HasArrived(r)
  BY <1>0, <1>1 DEF Kick, RankInv
<1>4. Released \in Nat
  BY ReleasedType
<1>5. epoch[r] = Released + 1
  BY <1>0, <1>3 DEF ReleaseInv
<1>6. c \in Ranks /\ c \in Children(r)
  BY <1>0, <1>1 DEF PSHMBarrierTypeOK, RankInv
<1>7. epoch[c] = Released + 1 /\ HasArrived(c)
  <2>1. node[c].phase = 1 + ((Released + 1) % 2)
    BY <1>0, <1>1, <1>5 DEF RankInv
  <2>2. ASSUME epoch[c] = Released PROVE FALSE
    <3>1. node[c].phase = 1 + (Released % 2)
      BY <1>0, <1>6, <2>2 DEF ReleaseInv, RankInv, HasArrived
    <3>. QED BY <1>4, <2>1, <3>1, Parity
  <2>3. epoch[c] = Released + 1
    BY <1>0, <1>6, <2>2 DEF ReleaseInv
  <2>. QED BY <1>0, <1>6, <2>1, <2>3 DEF RankInv, HasArrived
<1>8. /\ Gathered(c) = Below(c)
      /\ \A q \in Below(c) : epoch[q] = Released + 1 /\ HasArrived(q)
      /\ Summarises(partial[c], ArgsIn(Below(c), Released + 1))
      /\ node[c].arg = partial[c]
  BY <1>0, <1>6, <1>7, GatheredAll DEF GatherInv
<1>9. partial'[r] = Merge(partial[r], partial[c]) /\ remain'[r] = remain[r] \ {c}
      /\ client'[r] = IF remain[r] = {c} THEN "arriving" ELSE "inside"
  BY <1>0, <1>1, <1>3, <1>8 DEF PSHMBarrierTypeOK
<1>10. \A q \in Ranks \ {r} : /\ partial'[q] = partial[q] /\ remain'[q] = remain[q]
                              /\ client'[q] = client[q]
  BY <1>0, <1>1 DEF PSHMBarrierTypeOK
<1>11. /\ \A q : HasArrived(q)' <=> HasArrived(q)
       /\ \A q : Children(q)' = Children(q) /\ Below(q)' = Below(q)
  BY <1>2, TreeKept DEF HasArrived
<1>12. Released' = Released
  <2>1. CASE r = RootRank
    BY <1>2, <1>3, <1>9, <1>11, <2>1 DEF Released, specVars
  <2>2. CASE r # RootRank
    BY <1>2, <1>10, <1>11, <2>2, RootFacts DEF Released, specVars
  <2>. QED BY <2>1, <2>2
<1>13. Merge(partial[r], partial[c]) \in Arg
       /\ Summarises(Merge(partial[r], partial[c]),
                     ArgsIn(Gathered(r), Released + 1) \cup ArgsIn(Below(c), Released + 1))
  <2>1. partial[r] \in Arg /\ partial[c] \in Arg
        /\ ArgsIn(Gathered(r), Released + 1) \in SUBSET Arg
        /\ ArgsIn(Below(c), Released + 1) \in SUBSET Arg
    BY <1>4, <1>6, <1>8, GatheredArgs
  <2>2. Summarises(partial[r], ArgsIn(Gathered(r), Released + 1))
    BY <1>0, <1>5 DEF GatherInv
  <2>. QED BY <1>8, <2>1, <2>2, MergeUnion
<1>14. Gathered(r)' = Gathered(r) \cup Below(c)
  BY <1>6, <1>9, <1>11 DEF Gathered
<1>15. PSHMBarrierTypeOK'
  <2>1. partial' \in [Ranks -> Arg]
    BY <1>0, <1>1, <1>8, <1>13 DEF PSHMBarrierTypeOK
  <2>. QED BY <1>0, <1>1, <1>2, <2>1 DEF PSHMBarrierTypeOK
<1>16. HistoryTypeOK'
  BY <1>0, <1>2 DEF HistoryTypeOK, specVars
<1>17. RankInv'
  BY <1>0, <1>1, <1>2, <1>3, <1>9, <1>10, <1>11 DEF RankInv, specVars
<1>18. ReleaseInv'
  BY <1>0, <1>2, <1>9, <1>10, <1>11, <1>12 DEF ReleaseInv, specVars
<1>19. GatherInv'
  <2> SUFFICES ASSUME NEW q \in Ranks, (epoch[q] = Released + 1)'
               PROVE  (/\ \A p \in Gathered(q) \ {q} : epoch[p] = epoch[q] /\ HasArrived(p)
                       /\ Summarises(partial[q], ArgsIn(Gathered(q), epoch[q]))
                       /\ HasArrived(q) => node[q].arg = partial[q])'
    BY DEF GatherInv
  <2>1. epoch[q] = Released + 1
    BY <1>2, <1>12 DEF specVars
  <2>2. /\ \A p \in Gathered(q) \ {q} : epoch[p] = epoch[q] /\ HasArrived(p)
        /\ Summarises(partial[q], ArgsIn(Gathered(q), epoch[q]))
        /\ HasArrived(q) => node[q].arg = partial[q]
    BY <1>0, <2>1 DEF GatherInv
  <2>3. CASE q # r
    <3>1. Gathered(q)' = Gathered(q)
      BY <1>10, <1>11, <2>3 DEF Gathered
    <3>2. ArgsIn(Gathered(q), epoch[q])' = ArgsIn(Gathered(q), epoch[q])
      BY <1>2, <3>1 DEF ArgsIn, specVars
    <3>3. (\A p \in Gathered(q) \ {q} : epoch[p] = epoch[q] /\ HasArrived(p))'
      BY <1>2, <1>11, <2>2, <3>1 DEF specVars
    <3>4. (Summarises(partial[q], ArgsIn(Gathered(q), epoch[q])))'
      BY <1>10, <2>2, <2>3, <3>2
    <3>5. (HasArrived(q) => node[q].arg = partial[q])'
      BY <1>2, <1>10, <1>11, <2>2, <2>3
    <3>. QED BY <3>3, <3>4, <3>5
  <2>4. CASE q = r
    <3>1. ArgsIn(Gathered(q), epoch[q])'
            = ArgsIn(Gathered(r), Released + 1) \cup ArgsIn(Below(c), Released + 1)
      <4>1. ArgsIn(Gathered(q), epoch[q])' = ArgsIn(Gathered(r) \cup Below(c), Released + 1)
        BY <1>2, <1>5, <1>14, <2>4 DEF ArgsIn, specVars
      <4>. QED BY <4>1 DEF ArgsIn
    <3>2. (Summarises(partial[q], ArgsIn(Gathered(q), epoch[q])))'
      BY <1>9, <1>13, <2>4, <3>1
    <3>3. (\A p \in Gathered(q) \ {q} : epoch[p] = epoch[q] /\ HasArrived(p))'
      BY <1>2, <1>5, <1>8, <1>11, <1>14, <2>2, <2>4 DEF specVars
    <3>4. ~HasArrived(q)'
      BY <1>3, <1>11, <2>4
    <3>. QED BY <3>2, <3>3, <3>4
  <2>. QED BY <2>3, <2>4
<1>20. PublishInv'
  <2>1. ArgsOf(Released)' = ArgsOf(Released)
    BY <1>2, <1>12 DEF ArgsOf, specVars
  <2>2. (client[RootRank] = "signalling")' <=> (client[RootRank] = "signalling")
    BY <1>3, <1>9, <1>10, RootFacts
  <2>3. client[RootRank] = "signalling" => partial'[RootRank] = partial[RootRank]
    BY <1>3, <1>10, RootFacts
  <2>4. \A q \in Ranks :
          /\ client'[q] = "finishing" => returned'[q] = state.result
          /\ client'[q] = "left" => \E w \in WaitArgs : returned'[q] = Retval(published, w)
    BY <1>2, <1>9, <1>10 DEF PSHMBarrierInv, PublishInv
  <2>. QED BY <1>2, <1>12, <2>1, <2>2, <2>3, <2>4, PublishKept
<1>. QED BY <1>15, <1>16, <1>17, <1>18, <1>19, <1>20 DEF PSHMBarrierInv

\* The root, with all gathered, writes value and flags.
LEMMA PublishStep ==
  ASSUME PSHMBarrierInv, Publish
  PROVE  PSHMBarrierInv'
<1>0. PSHMBarrierTypeOK /\ HistoryTypeOK /\ RankInv /\ ReleaseInv /\ PublishInv
  BY DEF PSHMBarrierInv
<1>1. /\ client[RootRank] = "publishing"
      /\ \A q \in Ranks : epoch[q] = Released + 1
  BY AllIn DEF Publish
<1>2. /\ client'[RootRank] = "signalling"
      /\ \A q \in Ranks \ {RootRank} : client'[q] = client[q]
  BY <1>0, RootFacts DEF Publish, PSHMBarrierTypeOK
<1>3. /\ published' = partial[RootRank]
      /\ UNCHANGED <<radix, two_to_phase, remain, partial, node, state, returned, specVars>>
  BY DEF Publish
<1>4. \A q : /\ HasArrived(q)' <=> HasArrived(q)
             /\ Children(q)' = Children(q)
  BY <1>3, TreeKept DEF HasArrived
<1>5. Released' = Released
  BY <1>1, <1>2, <1>3 DEF Released, specVars
<1>6. PSHMBarrierTypeOK'
  BY <1>0, <1>3, RootFacts DEF Publish, PSHMBarrierTypeOK
<1>7. HistoryTypeOK'
  BY <1>0, <1>3 DEF HistoryTypeOK, specVars
<1>8. RankInv'
  BY <1>0, <1>1, <1>2, <1>3, <1>4, RootFacts DEF RankInv, specVars
<1>9. ReleaseInv'
  BY <1>0, <1>2, <1>3, <1>4, <1>5 DEF ReleaseInv, specVars
<1>10. GatherInv'
  BY <1>3, <1>4, <1>5, GatherKept DEF specVars
<1>11. PublishInv'
  <2>1. \A q \in Ranks : client'[q] \notin {"finishing", "left"}
    <3>1. Released \in Nat
      BY ReleasedType
    <3>. QED BY <1>0, <1>1, <1>2, <3>1 DEF ReleaseInv
  <2>2. ArgsOf(Released)' = ArgsOf(Released)
    BY <1>3, <1>5 DEF ArgsOf, specVars
  <2>. QED BY <1>0, <1>2, <1>3, <1>5, <2>1, <2>2 DEF PublishInv
<1>. QED BY <1>6, <1>7, <1>8, <1>9, <1>10, <1>11 DEF PSHMBarrierInv

\* The root's phase word releases the barrier.
LEMMA SignalStep ==
  ASSUME PSHMBarrierInv, Signal
  PROVE  PSHMBarrierInv'
<1>0. PSHMBarrierTypeOK /\ HistoryTypeOK /\ RankInv /\ ReleaseInv /\ PublishInv
  BY DEF PSHMBarrierInv
<1>1. /\ client[RootRank] = "signalling" /\ Released \in Nat
      /\ \A q \in Ranks : epoch[q] = Released + 1 /\ HasArrived(q)
      /\ Summarises(partial[RootRank], ArgsOf(Released + 1))
  BY AllIn, ReleasedType DEF Signal
<1>2. /\ client'[RootRank] = "inside"
      /\ \A q \in Ranks \ {RootRank} : client'[q] = client[q]
  BY <1>0, RootFacts DEF Signal, PSHMBarrierTypeOK
<1>3. UNCHANGED <<radix, two_to_phase, remain, partial, node, published, returned, specVars>>
  BY DEF Signal
<1>4. /\ state'.phase = two_to_phase[RootRank]
      /\ state'.result = IF Mismatch(partial[RootRank]) THEN "MISMATCH" ELSE "OK"
  BY DEF Signal
<1>5. \A q : /\ HasArrived(q)' <=> HasArrived(q)
             /\ Children(q)' = Children(q)
  BY <1>3, TreeKept DEF HasArrived
<1>6. Released' = Released + 1
  BY <1>1, <1>2, <1>3, <1>5, RootFacts DEF Released, specVars
<1>7. PSHMBarrierTypeOK'
  BY <1>0, <1>3, RootFacts DEF Signal, PSHMBarrierTypeOK
<1>8. HistoryTypeOK'
  BY <1>0, <1>3 DEF HistoryTypeOK, specVars
<1>9. RankInv'
  BY <1>0, <1>1, <1>2, <1>3, <1>5, RootFacts DEF RankInv, specVars
<1>10. ReleaseInv'
  <2>1. state'.phase = 1 + ((Released + 1) % 2)
    BY <1>0, <1>1, <1>4, RootFacts DEF RankInv
  <2>2. \A q \in Ranks : completed[q] <= Released + 1
    BY <1>0, <1>1 DEF ReleaseInv, HistoryTypeOK
  <2>3. \A q \in Ranks : /\ epoch'[q] = Released' /\ completed'[q] <= Released'
                         /\ HasArrived(q)'
    BY <1>1, <1>3, <1>5, <1>6, <2>2 DEF specVars
  <2>4. state'.phase = IF Released' = 0 THEN 0 ELSE 1 + (Released' % 2)
    BY <1>1, <1>6, <2>1
  <2>. QED BY <2>3, <2>4 DEF ReleaseInv
<1>11. GatherInv'
  <2>1. \A q \in Ranks : epoch'[q] # Released' + 1
    BY <1>1, <1>3, <1>6 DEF specVars
  <2>. QED BY <2>1 DEF GatherInv
<1>12. PublishInv'
  <2>1. \A q \in Ranks : client'[q] \notin {"finishing", "left"}
    BY <1>0, <1>1, <1>2 DEF ReleaseInv
  <2>2. ArgsOf(Released)' = ArgsOf(Released + 1)
    BY <1>3, <1>6 DEF ArgsOf, specVars
  <2>3. published' = partial[RootRank]
    BY <1>0, <1>1, <1>3 DEF PublishInv
  <2>4. state'.result = "MISMATCH" <=> Mismatched(ArgsOf(Released + 1))
    BY <1>1, <1>4 DEF Summarises
  <2>5. (Summarises(published, ArgsOf(Released)))'
    BY <1>1, <2>2, <2>3
  <2>6. (state.result = "MISMATCH" <=> Mismatched(ArgsOf(Released)))'
    BY <2>2, <2>4
  <2>. QED BY <1>2, <2>1, <2>5, <2>6 DEF PublishInv
<1>. QED BY <1>7, <1>8, <1>9, <1>10, <1>11, <1>12 DEF PSHMBarrierInv

\* A rank that may leave is in the barrier released last, whose words the
\* root has not begun to overwrite.
LEMMA StillPublished ==
  ASSUME PSHMBarrierInv, NEW r \in Ranks,
         epoch[r] = Released, client[r] # "outside"
  PROVE  /\ Released > 0 /\ epoch[r] = completed[r] + 1
         /\ Summarises(published, ArgsOf(Released))
         /\ state.result = "MISMATCH" <=> Mismatch(published)
<1>1. Released \in Nat /\ completed[r] \in Nat /\ epoch[r] = completed[r] + 1
  BY ReleasedType DEF PSHMBarrierInv, HistoryTypeOK, RankInv
<1>2. client[RootRank] # "signalling"
  BY <1>1, AllIn
<1>3. Released > 0
  BY <1>1
<1>. QED BY <1>1, <1>2, <1>3 DEF PSHMBarrierInv, PublishInv, Summarises

\* A rank that sees the signal reads the result of that barrier.
LEMMA SeeDoneStep ==
  ASSUME PSHMBarrierInv, NEW r \in Ranks, SeeDone(r)
  PROVE  PSHMBarrierInv'
<1>0. PSHMBarrierTypeOK /\ HistoryTypeOK /\ RankInv /\ ReleaseInv /\ PublishInv
  BY DEF PSHMBarrierInv
<1>1. Released \in Nat
  BY ReleasedType
<1>2. epoch[r] = Released /\ HasArrived(r) /\ client[r] = "inside" /\ remain[r] = {}
  <2>1. /\ state.phase = 1 + (epoch[r] % 2) /\ client[r] = "inside"
        /\ epoch[r] \in {Released, Released + 1}
    BY <1>0 DEF SeeDone, RankInv, ReleaseInv
  <2>2. state.phase = IF Released = 0 THEN 0 ELSE 1 + (Released % 2)
    BY <1>0 DEF ReleaseInv
  <2>3. Released # 0
    <3>1. epoch[r] % 2 \in {0, 1}
      BY <1>1, <2>1, Parity
    <3>. QED BY <2>1, <2>2, <3>1
  <2>4. epoch[r] = Released
    BY <1>1, <2>1, <2>2, <2>3, Parity
  <2>. QED BY <1>0, <2>1, <2>4 DEF ReleaseInv, RankInv
<1>3. /\ client'[r] = "finishing" /\ returned'[r] = state.result
      /\ \A q \in Ranks \ {r} : client'[q] = client[q] /\ returned'[q] = returned[q]
  BY <1>0 DEF SeeDone, PSHMBarrierTypeOK
<1>4. UNCHANGED <<radix, two_to_phase, remain, partial, node, published, state, specVars>>
  BY DEF SeeDone
<1>5. \A q : /\ HasArrived(q)' <=> HasArrived(q)
             /\ Children(q)' = Children(q)
  BY <1>4, TreeKept DEF HasArrived
<1>6. Released' = Released
  <2>1. CASE r = RootRank
    BY <1>2, <1>3, <1>4, <2>1 DEF Released, specVars
  <2>2. CASE r # RootRank
    BY <1>3, <1>4, <1>5, <2>2, RootFacts DEF Released, specVars
  <2>. QED BY <2>1, <2>2
<1>7. PSHMBarrierTypeOK'
  BY <1>0 DEF SeeDone, PSHMBarrierTypeOK
<1>8. HistoryTypeOK'
  BY <1>0, <1>4 DEF HistoryTypeOK, specVars
<1>9. RankInv'
  BY <1>0, <1>2, <1>3, <1>4, <1>5 DEF RankInv, specVars
<1>10. ReleaseInv'
  BY <1>0, <1>2, <1>3, <1>4, <1>5, <1>6 DEF ReleaseInv, specVars
<1>11. GatherInv'
  BY <1>4, <1>5, <1>6, GatherKept DEF specVars
<1>12. PublishInv'
  <2>1. ArgsOf(Released)' = ArgsOf(Released)
    BY <1>4, <1>6 DEF ArgsOf, specVars
  <2>2. (client[RootRank] = "signalling")' <=> (client[RootRank] = "signalling")
    BY <1>2, <1>3, RootFacts
  <2>3. \A q \in Ranks :
          /\ client'[q] = "finishing" => returned'[q] = state.result
          /\ client'[q] = "left" => \E w \in WaitArgs : returned'[q] = Retval(published, w)
    BY <1>0, <1>3 DEF PublishInv
  <2>. QED BY <1>4, <1>6, <2>1, <2>2, <2>3, PublishKept
<1>. QED BY <1>7, <1>8, <1>9, <1>10, <1>11, <1>12 DEF PSHMBarrierInv

\* A rank compares its name with value and flags, still those of its barrier.
LEMMA FinishStep ==
  ASSUME PSHMBarrierInv, NEW r \in Ranks, Finish(r)
  PROVE  PSHMBarrierInv'
<1>0. PSHMBarrierTypeOK /\ HistoryTypeOK /\ RankInv /\ ReleaseInv /\ PublishInv
  BY DEF PSHMBarrierInv
<1>1. client[r] = "finishing" /\ epoch[r] = Released /\ HasArrived(r)
  BY <1>0 DEF Finish, ReleaseInv
<1>2. PICK w \in WaitArgs :
        returned' = [returned EXCEPT ![r] =
          IF /\ ~Anonymous(w) /\ ~Anonymous(published) /\ w.value # published.value
            THEN "MISMATCH" ELSE @]
  BY DEF Finish
<1>3. /\ client'[r] = "left"
      /\ \A q \in Ranks \ {r} : client'[q] = client[q] /\ returned'[q] = returned[q]
  BY <1>0, <1>2 DEF Finish, PSHMBarrierTypeOK
<1>4. UNCHANGED <<radix, two_to_phase, remain, partial, node, published, state, specVars>>
  BY DEF Finish
<1>5. returned'[r] = Retval(published, w)
  <2>1. returned[r] = state.result /\ state.result \in {"OK", "MISMATCH"}
    BY <1>0, <1>1 DEF PublishInv, PSHMBarrierTypeOK
  <2>2. state.result = "MISMATCH" <=> Mismatch(published)
    BY <1>1, StillPublished
  <2>. QED BY <1>0, <1>2, <2>1, <2>2 DEF Retval, PSHMBarrierTypeOK
<1>6. \A q : /\ HasArrived(q)' <=> HasArrived(q)
             /\ Children(q)' = Children(q)
  BY <1>4, TreeKept DEF HasArrived
<1>7. Released' = Released
  <2>1. CASE r = RootRank
    BY <1>1, <1>3, <1>4, <2>1 DEF Released, specVars
  <2>2. CASE r # RootRank
    BY <1>3, <1>4, <1>6, <2>2, RootFacts DEF Released, specVars
  <2>. QED BY <2>1, <2>2
<1>8. PSHMBarrierTypeOK'
  BY <1>0, <1>2, <1>4 DEF Finish, PSHMBarrierTypeOK
<1>9. HistoryTypeOK'
  BY <1>0, <1>4 DEF HistoryTypeOK, specVars
<1>10. RankInv'
  BY <1>0, <1>1, <1>3, <1>4, <1>6 DEF RankInv, specVars
<1>11. ReleaseInv'
  BY <1>0, <1>1, <1>3, <1>4, <1>6, <1>7 DEF ReleaseInv, specVars
<1>12. GatherInv'
  BY <1>4, <1>6, <1>7, GatherKept DEF specVars
<1>13. PublishInv'
  <2>1. ArgsOf(Released)' = ArgsOf(Released)
    BY <1>4, <1>7 DEF ArgsOf, specVars
  <2>2. (client[RootRank] = "signalling")' <=> (client[RootRank] = "signalling")
    BY <1>1, <1>3, RootFacts
  <2>3. \A q \in Ranks :
          /\ client'[q] = "finishing" => returned'[q] = state.result
          /\ client'[q] = "left" => \E x \in WaitArgs : returned'[q] = Retval(published, x)
    BY <1>0, <1>3, <1>5 DEF PublishInv
  <2>. QED BY <1>4, <1>7, <2>1, <2>2, <2>3, PublishKept
<1>. QED BY <1>8, <1>9, <1>10, <1>11, <1>12, <1>13 DEF PSHMBarrierInv

\* Wait returns the promised outcome, which is the abstract step.
LEMMA ResultStep ==
  ASSUME PSHMBarrierInv, NEW r \in Ranks, Result(r)
  PROVE  PSHMBarrierInv' /\ SpecWait(r)
<1>0. PSHMBarrierTypeOK /\ HistoryTypeOK /\ RankInv /\ ReleaseInv /\ PublishInv
  BY DEF PSHMBarrierInv
<1>1. client[r] = "left" /\ epoch[r] = Released /\ HasArrived(r) /\ Released \in Nat
  BY <1>0, ReleasedType DEF Result, ReleaseInv
<1>2. /\ client'[r] = "outside"
      /\ \A q \in Ranks \ {r} : client'[q] = client[q]
  BY <1>0 DEF Result, PSHMBarrierTypeOK
<1>3. UNCHANGED <<radix, two_to_phase, remain, partial, node, published, state,
                  returned, epoch, args>>
  BY DEF Result
<1>4. /\ completed' = [completed EXCEPT ![r] = @ + 1]
      /\ epoch[r] = completed[r] + 1
      /\ Summarises(published, ArgsOf(Released))
  BY <1>1, StillPublished DEF Result
<1>5. \A q : /\ HasArrived(q)' <=> HasArrived(q)
             /\ Children(q)' = Children(q)
  BY <1>3, TreeKept DEF HasArrived
<1>6. Released' = Released
  <2>1. CASE r = RootRank
    BY <1>1, <1>2, <1>3, <2>1 DEF Released
  <2>2. CASE r # RootRank
    BY <1>2, <1>3, <1>5, <2>2, RootFacts DEF Released
  <2>. QED BY <2>1, <2>2
<1>7. PSHMBarrierTypeOK'
  BY <1>0, <1>3 DEF Result, PSHMBarrierTypeOK
<1>8. HistoryTypeOK'
  BY <1>0, <1>3, <1>4 DEF HistoryTypeOK
<1>9. \A q \in Ranks : completed'[q] = IF q = r THEN epoch[r] ELSE completed[q]
  BY <1>0, <1>4 DEF HistoryTypeOK
<1>10. RankInv'
  BY <1>0, <1>1, <1>2, <1>3, <1>5, <1>9 DEF RankInv
<1>11. ReleaseInv'
  BY <1>0, <1>1, <1>2, <1>3, <1>5, <1>6, <1>9 DEF ReleaseInv
<1>12. GatherInv'
  BY <1>3, <1>5, <1>6, GatherKept
<1>13. PublishInv'
  <2>1. ArgsOf(Released)' = ArgsOf(Released)
    BY <1>3, <1>6 DEF ArgsOf
  <2>2. (client[RootRank] = "signalling")' <=> (client[RootRank] = "signalling")
    BY <1>1, <1>2, RootFacts
  <2>3. \A q \in Ranks :
          /\ client'[q] = "finishing" => returned'[q] = state.result
          /\ client'[q] = "left" => \E w \in WaitArgs : returned'[q] = Retval(published, w)
    BY <1>0, <1>2, <1>3 DEF PublishInv
  <2>. QED BY <1>3, <1>6, <2>1, <2>2, <2>3, PublishKept
<1>14. SpecWait(r)
  <2>1. PICK w \in WaitArgs : returned[r] = Retval(published, w)
    BY <1>0, <1>1 DEF PublishInv
  <2>2. \A q \in Ranks : epoch[r] <= epoch[q]
    BY <1>0, <1>1 DEF ReleaseInv
  <2>3. published \in Arg /\ w \in Arg /\ ArgsOf(Released) \in SUBSET Arg
    <3>1. args \in [Ranks -> [{0, 1} -> Arg]] /\ Released % 2 \in {0, 1}
      BY <1>0, <1>1, Parity DEF HistoryTypeOK
    <3>2. ArgsOf(Released) \in SUBSET Arg
      BY <3>1 DEF ArgsOf
    <3>. QED BY <1>0, <3>2 DEF PSHMBarrierTypeOK
  <2>4. Promised(Outcome(published, w), w, ArgsOf(epoch[r]))
    BY <1>1, <1>4, <2>3, OutcomePromised
  <2>5. outcome' = [outcome EXCEPT ![r] = Outcome(published, w)]
    BY <2>1 DEF Result, Outcome
  <2>6. Outcome(published, w) \in Outcomes
    BY <2>4 DEF Promised
  <2>. QED BY <1>3, <1>4, <2>2, <2>4, <2>5, <2>6 DEF SpecWait
<1>. QED BY <1>7, <1>8, <1>10, <1>11, <1>12, <1>13, <1>14 DEF PSHMBarrierInv

\* A notify starts the next barrier at its rank, the abstract step.
LEMMA NotifyStep ==
  ASSUME PSHMBarrierInv, NEW r \in Ranks, Notify(r)
  PROVE  PSHMBarrierInv' /\ SpecNotify(r)
<1>0. PSHMBarrierTypeOK /\ HistoryTypeOK /\ RankInv /\ ReleaseInv
      /\ GatherInv /\ PublishInv /\ SpecNotify(r)
  BY DEF PSHMBarrierInv, Notify
<1>1. Released \in Nat
  BY ReleasedType
<1>2. client[r] = "outside" /\ epoch[r] = Released /\ completed[r] = Released
      /\ HasArrived(r)
  <2>1. client[r] = "outside" /\ epoch[r] = completed[r] /\ epoch[r] \in Nat
    BY <1>0 DEF Notify, RankInv, HistoryTypeOK
  <2>2. completed[r] <= Released /\ epoch[r] \in {Released, Released + 1}
    BY <1>0 DEF ReleaseInv
  <2>3. epoch[r] = Released
    BY <1>1, <2>1, <2>2
  <2>. QED BY <1>0, <2>1, <2>3 DEF ReleaseInv
<1>3. PICK a \in NotifyArgs : args' = [args EXCEPT ![r][(epoch[r] + 1) % 2] = a]
  BY <1>0 DEF SpecNotify
<1>4. a \in Arg /\ (Released + 1) % 2 \in {0, 1} /\ Released % 2 \in {0, 1}
      /\ (Released + 1) % 2 # Released % 2
  BY <1>1, Parity
<1>5. /\ epoch' = [epoch EXCEPT ![r] = @ + 1] /\ epoch'[r] = Released + 1
      /\ \A q \in Ranks \ {r} : epoch'[q] = epoch[q] /\ args'[q] = args[q]
  BY <1>0, <1>2, <1>3 DEF SpecNotify, HistoryTypeOK
<1>6. args'[r][(Released + 1) % 2] = a /\ args'[r][Released % 2] = args[r][Released % 2]
  BY <1>0, <1>2, <1>3, <1>4 DEF HistoryTypeOK
<1>7. /\ partial'[r] = a /\ remain'[r] = Children(r) /\ two_to_phase'[r] = 3 - two_to_phase[r]
      /\ client'[r] = IF Children(r) = {} THEN "arriving" ELSE "inside"
  BY <1>0, <1>5, <1>6 DEF Notify, PSHMBarrierTypeOK
<1>8. \A q \in Ranks \ {r} : /\ partial'[q] = partial[q] /\ remain'[q] = remain[q]
                             /\ two_to_phase'[q] = two_to_phase[q]
                             /\ client'[q] = client[q]
  BY <1>0 DEF Notify, PSHMBarrierTypeOK
<1>9. UNCHANGED <<radix, node, published, state, returned, completed>>
  BY <1>0 DEF Notify, SpecNotify
<1>10. \A q : Children(q)' = Children(q) /\ Below(q)' = Below(q)
  BY <1>9, TreeKept
<1>11. \A q \in Ranks \ {r} : HasArrived(q)' <=> HasArrived(q)
  BY <1>8, <1>9 DEF HasArrived
<1>12. two_to_phase'[r] = 1 + ((Released + 1) % 2)
  <2>1. two_to_phase[r] = 1 + (Released % 2)
    BY <1>0, <1>2 DEF RankInv
  <2>. QED BY <1>4, <1>7, <2>1
<1>13. ~HasArrived(r)'
  <2>1. node[r].phase = two_to_phase[r] /\ two_to_phase[r] \in {1, 2}
    BY <1>0, <1>2 DEF HasArrived, PSHMBarrierTypeOK
  <2>. QED BY <1>7, <1>9, <2>1 DEF HasArrived
<1>14. Released' = Released
  <2>1. CASE r = RootRank
    BY <1>1, <1>5, <1>7, <1>13, <2>1 DEF Released
  <2>2. CASE r # RootRank
    BY <1>5, <1>8, <1>11, <2>2, RootFacts DEF Released
  <2>. QED BY <2>1, <2>2
<1>15. PSHMBarrierTypeOK'
  <2>1. partial' = [partial EXCEPT ![r] = a]
    BY <1>5, <1>6 DEF Notify
  <2>2. partial' \in [Ranks -> Arg]
    BY <1>0, <1>4, <2>1 DEF PSHMBarrierTypeOK
  <2>3. remain' \in [Ranks -> SUBSET (Ranks \ {RootRank})]
    <3>1. Children(r) \subseteq Ranks \ {RootRank}
      BY <1>0, ChildrenRange DEF HistoryTypeOK
    <3>. QED BY <1>0, <3>1 DEF Notify, PSHMBarrierTypeOK
  <2>4. two_to_phase' \in [Ranks -> {1, 2}]
    BY <1>0 DEF Notify, PSHMBarrierTypeOK
  <2>5. client' \in [Ranks -> {"outside", "inside", "arriving", "publishing",
                               "signalling", "finishing", "left"}]
    BY <1>0 DEF Notify, PSHMBarrierTypeOK
  <2>. QED BY <1>0, <1>9, <2>2, <2>3, <2>4, <2>5 DEF PSHMBarrierTypeOK
<1>16. HistoryTypeOK'
  <2>1. args' \in [Ranks -> [{0, 1} -> Arg]]
    BY <1>0, <1>2, <1>3, <1>4 DEF HistoryTypeOK
  <2>2. epoch' \in [Ranks -> Nat]
    <3>1. epoch \in [Ranks -> Nat] /\ epoch[r] + 1 \in Nat
      BY <1>0 DEF HistoryTypeOK
    <3>. QED BY <1>5, <3>1
  <2>3. radix' \in Radices /\ completed' \in [Ranks -> Nat]
    BY <1>0, <1>9 DEF HistoryTypeOK
  <2>. QED BY <2>1, <2>2, <2>3 DEF HistoryTypeOK
<1>17. RankInv'
  <2> SUFFICES ASSUME NEW q \in Ranks
               PROVE  (/\ two_to_phase[q] = 1 + (epoch[q] % 2)
                       /\ epoch[q] = IF client[q] = "outside" THEN completed[q]
                                                              ELSE completed[q] + 1
                       /\ remain[q] \subseteq Children(q)
                       /\ client[q] # "inside" => remain[q] = {}
                       /\ client[q] \in {"publishing", "signalling"} => q = RootRank
                       /\ HasArrived(q) <=> remain[q] = {} /\ client[q] # "arriving")'
    BY DEF RankInv
  <2>1. CASE q = r
    BY <1>2, <1>5, <1>7, <1>9, <1>10, <1>12, <1>13, <2>1
  <2>2. CASE q # r
    BY <1>0, <1>5, <1>8, <1>9, <1>10, <1>11, <2>2 DEF RankInv
  <2>. QED BY <2>1, <2>2
<1>18. ReleaseInv'
  <2>1. state'.phase = IF Released' = 0 THEN 0 ELSE 1 + (Released' % 2)
    BY <1>0, <1>9, <1>14 DEF ReleaseInv
  <2> SUFFICES ASSUME NEW q \in Ranks
               PROVE  (/\ epoch[q] \in {Released, Released + 1} /\ completed[q] <= Released
                       /\ client[q] \in {"finishing", "left"} => epoch[q] = Released
                       /\ epoch[q] = Released => HasArrived(q))'
    BY <2>1 DEF ReleaseInv
  <2>2. CASE q = r
    BY <1>1, <1>2, <1>5, <1>7, <1>9, <1>14, <2>2
  <2>3. CASE q # r
    BY <1>0, <1>5, <1>8, <1>9, <1>11, <1>14, <2>3 DEF ReleaseInv
  <2>. QED BY <2>2, <2>3
<1>19. GatherInv'
  <2> SUFFICES ASSUME NEW q \in Ranks, (epoch[q] = Released + 1)'
               PROVE  (/\ \A p \in Gathered(q) \ {q} : epoch[p] = epoch[q] /\ HasArrived(p)
                       /\ Summarises(partial[q], ArgsIn(Gathered(q), epoch[q]))
                       /\ HasArrived(q) => node[q].arg = partial[q])'
    BY DEF GatherInv
  <2>1. CASE q = r
    <3>1. Gathered(q)' = {q}
      BY <1>7, <1>10, <2>1 DEF Gathered
    <3>2. ArgsIn(Gathered(q), epoch[q])' = {a}
      BY <1>5, <1>6, <2>1, <3>1 DEF ArgsIn
    <3>3. (Summarises(partial[q], ArgsIn(Gathered(q), epoch[q])))'
      BY <1>4, <1>7, <2>1, <3>2, OneSummarises
    <3>. QED BY <1>13, <2>1, <3>1, <3>3
  <2>2. CASE q # r
    <3>1. epoch[q] = Released + 1
      BY <1>5, <1>14, <2>2
    <3>2. /\ \A p \in Gathered(q) \ {q} : epoch[p] = epoch[q] /\ HasArrived(p)
          /\ Summarises(partial[q], ArgsIn(Gathered(q), epoch[q]))
          /\ HasArrived(q) => node[q].arg = partial[q]
      BY <1>0, <3>1 DEF GatherInv
    <3>3. r \notin Gathered(q) /\ Gathered(q) \subseteq Ranks
      BY <1>1, <1>2, <2>2, <3>1, <3>2, GatheredArgs
    <3>4. Gathered(q)' = Gathered(q)
      BY <1>8, <1>10, <2>2 DEF Gathered
    <3>5. ArgsIn(Gathered(q), epoch[q])' = ArgsIn(Gathered(q), epoch[q])
      <4>1. \A p \in Gathered(q) : args'[p] = args[p]
        BY <1>5, <3>3
      <4>2. epoch'[q] = epoch[q]
        BY <1>5, <2>2
      <4>. QED BY <3>4, <4>1, <4>2 DEF ArgsIn
    <3>6. (\A p \in Gathered(q) \ {q} : epoch[p] = epoch[q] /\ HasArrived(p))'
      BY <1>5, <1>11, <2>2, <3>2, <3>3, <3>4
    <3>7. (Summarises(partial[q], ArgsIn(Gathered(q), epoch[q])))'
      BY <1>8, <2>2, <3>2, <3>5
    <3>8. (HasArrived(q) => node[q].arg = partial[q])'
      BY <1>8, <1>9, <1>11, <2>2, <3>2
    <3>. QED BY <3>6, <3>7, <3>8
  <2>. QED BY <2>1, <2>2
<1>20. PublishInv'
  <2>1. ArgsOf(Released)' = ArgsOf(Released)
    <3>1. \A q \in Ranks : args'[q][Released % 2] = args[q][Released % 2]
      BY <1>5, <1>6
    <3>. QED BY <1>14, <3>1 DEF ArgsOf
  <2>2. (client[RootRank] = "signalling")' <=> (client[RootRank] = "signalling")
    BY <1>2, <1>7, <1>8, RootFacts
  <2>3. client[RootRank] = "signalling" => partial'[RootRank] = partial[RootRank]
    BY <1>2, <1>8, RootFacts
  <2>4. \A q \in Ranks :
          /\ client'[q] = "finishing" => returned'[q] = state.result
          /\ client'[q] = "left" => \E w \in WaitArgs : returned'[q] = Retval(published, w)
    BY <1>0, <1>7, <1>8, <1>9 DEF PublishInv
  <2>. QED BY <1>9, <1>14, <2>1, <2>2, <2>3, <2>4, PublishKept
<1>. QED BY <1>0, <1>15, <1>16, <1>17, <1>18, <1>19, <1>20 DEF PSHMBarrierInv

\* A step that changes nothing.
LEMMA StutterStep ==
  ASSUME PSHMBarrierInv, UNCHANGED pshmBarrierVars
  PROVE  PSHMBarrierInv'
<1>1. /\ PSHMBarrierTypeOK' /\ HistoryTypeOK'
      /\ \A q : /\ HasArrived(q)' <=> HasArrived(q)
                /\ Children(q)' = Children(q)
  BY TreeKept DEF pshmBarrierVars, specVars, PSHMBarrierInv, PSHMBarrierTypeOK,
                  HistoryTypeOK, HasArrived
<1>2. Released' = Released
  BY <1>1 DEF pshmBarrierVars, specVars, Released
<1>3. RankInv' /\ ReleaseInv'
  BY <1>1, <1>2 DEF pshmBarrierVars, specVars, PSHMBarrierInv, RankInv, ReleaseInv
<1>4. GatherInv'
  BY <1>1, <1>2, GatherKept DEF pshmBarrierVars, specVars
<1>5. PublishInv'
  <2>1. ArgsOf(Released)' = ArgsOf(Released)
    BY <1>2 DEF ArgsOf, pshmBarrierVars, specVars
  <2>. QED BY <1>2, <2>1, PublishKept DEF pshmBarrierVars, PSHMBarrierInv, PublishInv
<1>. QED BY <1>1, <1>3, <1>4, <1>5 DEF PSHMBarrierInv

\* Every step keeps the invariant, and is a step of BarrierSpec or does not
\* touch its variables.
LEMMA NextInv ==
  ASSUME PSHMBarrierInv, [PSHMBarrierNext]_pshmBarrierVars
  PROVE  PSHMBarrierInv' /\ [SpecNext]_specVars
<1>1. ASSUME NEW r \in Ranks, Notify(r) PROVE PSHMBarrierInv' /\ SpecNext
  BY <1>1, NotifyStep DEF SpecNext
<1>2. ASSUME NEW r \in Ranks, Kick(r) PROVE PSHMBarrierInv' /\ UNCHANGED specVars
  BY <1>2, KickStep DEF Kick
<1>3. ASSUME NEW r \in Ranks, Arrive(r) PROVE PSHMBarrierInv' /\ UNCHANGED specVars
  BY <1>3, ArriveStep DEF Arrive
<1>4. ASSUME NEW r \in Ranks, SeeDone(r) PROVE PSHMBarrierInv' /\ UNCHANGED specVars
  BY <1>4, SeeDoneStep DEF SeeDone
<1>5. ASSUME NEW r \in Ranks, Finish(r) PROVE PSHMBarrierInv' /\ UNCHANGED specVars
  BY <1>5, FinishStep DEF Finish
<1>6. ASSUME NEW r \in Ranks, Result(r) PROVE PSHMBarrierInv' /\ SpecNext
  BY <1>6, ResultStep DEF SpecNext
<1>7. ASSUME Publish PROVE PSHMBarrierInv' /\ UNCHANGED specVars
  BY <1>7, PublishStep DEF Publish
<1>8. ASSUME Signal PROVE PSHMBarrierInv' /\ UNCHANGED specVars
  BY <1>8, SignalStep DEF Signal
<1>9. ASSUME UNCHANGED pshmBarrierVars PROVE PSHMBarrierInv' /\ UNCHANGED specVars
  BY <1>9, StutterStep DEF pshmBarrierVars
<1>. QED BY <1>1, <1>2, <1>3, <1>4, <1>5, <1>6, <1>7, <1>8, <1>9 DEF PSHMBarrierNext

-----------------------------------------------------------------------------
(***************************************************************************)
(* The theorems.                                                           *)
(***************************************************************************)
\* The words of consecutive barriers never mix: whatever the shape of the
\* tree, what a process has gathered is the summary of the processes below the
\* children it has absorbed (gasnete_pshmbarrier_kick), and what the root has
\* published stays that of the barrier being left until the last process has
\* left it (finish_pshm_barrier, gasnete_pshmbarrier_result).
THEOREM PSHMInvariance == PSHMBarrierSpec => []PSHMBarrierInv
<1>1. PSHMBarrierInit => PSHMBarrierInv
  BY InitInv
<1>2. PSHMBarrierInv /\ [PSHMBarrierNext]_pshmBarrierVars => PSHMBarrierInv'
  BY NextInv
<1>. QED BY <1>1, <1>2, PTL DEF PSHMBarrierSpec

\* The private and the shared words have the values their C types and their
\* use allow (gasnete_pshmbarrier_data_t and gasneti_pshm_barrier_t).
THEOREM PSHMTypeCorrectness == PSHMBarrierSpec => []PSHMBarrierTypeOK
<1>1. PSHMBarrierInv => PSHMBarrierTypeOK
  BY DEF PSHMBarrierInv
<1>. QED BY <1>1, PSHMInvariance, PTL

\* No process leaves its e-th barrier (gasnete_pshmbarrier_wait or _try
\* succeeds) before every process of the node has notified its e-th one.
THEOREM PSHMBarrierSafety == PSHMBarrierSpec => []BarrierSafe
<1>1. PSHMBarrierInv => BarrierSafe
  <2> SUFFICES ASSUME PSHMBarrierInv, NEW r \in Ranks, NEW q \in Ranks
               PROVE  completed[r] <= epoch[q]
    BY DEF BarrierSafe
  <2>1. Released \in Nat /\ completed[r] \in Nat /\ completed[r] <= Released
        /\ epoch[q] \in {Released, Released + 1}
    BY ReleasedType DEF PSHMBarrierInv, ReleaseInv, HistoryTypeOK
  <2>. QED BY <2>1
<1>. QED BY <1>1, PSHMInvariance, PTL

\* The shared-memory barrier implements BarrierSpec: the result, the flags and
\* the value, which gasnete_pshmbarrier_wait and _result read at different
\* times without a lock, are those that all notifications of the barrier being
\* left imply.
THEOREM PSHMRefinement == PSHMBarrierSpec => ImplementsBarrier
<1>1. PSHMBarrierInit => SpecInit
  BY DEF PSHMBarrierInit
<1>2. PSHMBarrierInv /\ [PSHMBarrierNext]_pshmBarrierVars => [SpecNext]_specVars
  BY NextInv
<1>. QED BY <1>1, <1>2, PSHMInvariance, PTL DEF PSHMBarrierSpec, ImplementsBarrier
=============================================================================
