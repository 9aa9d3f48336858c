------------------------- MODULE BarrierNamingProofs -------------------------
(***************************************************************************)
(* TLAPS proofs about the naming rule that the barriers share, for every   *)
(* set of notifications, and a fact about numbers for their inductions.    *)
(***************************************************************************)
EXTENDS BarrierNaming, Integers, FiniteSetTheorems, TLAPS

USE IdsAssumption

\* The accumulator of a new barrier object, and a single notification.
LEMMA FreshSummarises == Fresh \in Arg /\ Summarises(Fresh, {})
BY DEF Fresh, Arg, Flags, Summarises, Mismatched, Mismatch, Anonymous, Named

\* One notification summarises itself.
LEMMA OneSummarises ==
  ASSUME NEW a \in Arg
  PROVE  Summarises(a, {a})
BY DEF Summarises, Mismatched, Named

\* Merging two summaries summarises both sets of notifications, whether or
\* not they overlap.
LEMMA MergeUnion ==
  ASSUME NEW acc \in Arg, NEW a \in Arg, NEW S \in SUBSET Arg,
         NEW T \in SUBSET Arg, Summarises(acc, S), Summarises(a, T)
  PROVE  Merge(acc, a) \in Arg /\ Summarises(Merge(acc, a), S \cup T)
<1> DEFINE m == Merge(acc, a)
<1>1. m \in Arg
  BY DEF Merge, Arg, Flags
<1>2. CASE Mismatch(acc) \/ Mismatch(a)
  <2>1. Mismatched(S \cup T)
    BY <1>2 DEF Summarises, Mismatched
  <2>2. m.flags = {"MISMATCH"}
    BY <1>2 DEF Merge, Arg
  <2>. QED BY <1>1, <2>1, <2>2 DEF Summarises, Mismatch
<1>3. CASE ~Mismatch(acc) /\ ~Mismatch(a) /\ Anonymous(acc)
  <2>1. m = a
    BY <1>3 DEF Merge
  <2>2. ~Mismatched(S) /\ ~Mismatched(T) /\ \A b \in S : Anonymous(b)
    BY <1>3 DEF Summarises
  <2>3. ~Mismatched(S \cup T)
    BY <2>2 DEF Mismatched, Named
  <2>4. \A b \in S \cup T : Named(b) => b \in T
    BY <2>2 DEF Named
  <2>. QED BY <1>1, <1>3, <2>1, <2>2, <2>3, <2>4 DEF Summarises
<1>4. CASE ~Mismatch(acc) /\ ~Mismatch(a) /\ ~Anonymous(acc)
  <2>1. ~Mismatched(S) /\ ~Mismatched(T)
    BY <1>4 DEF Summarises
  <2>2. PICK b \in S : ~Anonymous(b)
    BY <1>4, <2>1 DEF Summarises
  <2>3. Named(b) /\ acc.value = b.value
    BY <2>1, <2>2 DEF Summarises, Named, Mismatched
  <2>4. CASE ~Anonymous(a) /\ a.value # acc.value
    <3>1. PICK c \in T : ~Anonymous(c)
      BY <2>1, <2>4 DEF Summarises
    <3>2. Named(c) /\ a.value = c.value
      BY <2>1, <3>1 DEF Summarises, Named, Mismatched
    <3>3. m.flags = {"MISMATCH"}
      BY <1>4, <2>4 DEF Merge, Arg
    <3>4. Mismatched(S \cup T)
      BY <2>3, <2>4, <3>2 DEF Mismatched
    <3>. QED BY <1>1, <3>3, <3>4 DEF Summarises, Mismatch
  <2>5. CASE ~(~Anonymous(a) /\ a.value # acc.value)
    <3>1. m = acc
      BY <1>4, <2>5 DEF Merge
    <3>2. \A c \in T : Named(c) => acc.value = c.value
      BY <2>1, <2>5 DEF Summarises, Named
    <3>3. \A c \in S \cup T : Named(c) => acc.value = c.value
      BY <2>1, <3>2 DEF Summarises
    <3>4. ~Mismatched(S \cup T)
      BY <2>1, <3>3 DEF Mismatched
    <3>. QED BY <1>1, <1>4, <2>2, <3>1, <3>3, <3>4 DEF Summarises
  <2>. QED BY <2>4, <2>5
<1>. QED BY <1>2, <1>3, <1>4

\* Absorbing one more notification keeps the accumulator a correct summary.
LEMMA MergeSummarises ==
  ASSUME NEW acc \in Arg, NEW a \in Arg, NEW S \in SUBSET Arg,
         Summarises(acc, S)
  PROVE  Merge(acc, a) \in Arg /\ Summarises(Merge(acc, a), S \cup {a})
BY MergeUnion, OneSummarises

\* What wait computes from a correct summary is what was promised.
LEMMA OutcomePromised ==
  ASSUME NEW acc \in Arg, NEW w \in Arg, NEW S \in SUBSET Arg,
         Summarises(acc, S)
  PROVE  Promised(Outcome(acc, w), w, S)
<1> DEFINE o == Outcome(acc, w)
<1>1. o \in Outcomes
  BY DEF Outcome, Outcomes, Retval, Arg, Anonymous
<1>2. o.ret = Retval(acc, w) /\ o.anon = Anonymous(acc) /\ o.value = acc.value
  BY DEF Outcome
<1>3. o.ret = "MISMATCH" <=>
       \/ Mismatched(S)
       \/ ~Anonymous(w) /\ \E a \in S : Named(a) /\ a.value # w.value
  <2>1. CASE Mismatched(S)
    BY <1>2, <2>1 DEF Summarises, Retval
  <2>2. CASE ~Mismatched(S) /\ Anonymous(acc)
    BY <1>2, <2>2 DEF Summarises, Retval, Named
  <2>3. CASE ~Mismatched(S) /\ ~Anonymous(acc)
    <3>1. PICK b \in S : ~Anonymous(b)
      BY <2>3 DEF Summarises
    <3>2. Named(b)
      BY <2>3, <3>1 DEF Named, Mismatched
    <3>. QED BY <1>2, <2>3, <3>2 DEF Summarises, Retval
  <2>. QED BY <2>1, <2>2, <2>3
<1>. QED BY <1>1, <1>2, <1>3 DEF Promised, Summarises

\* An accumulator flagged ANONYMOUS alone summarises no notification at all.
LEMMA ResetSummarises ==
  ASSUME NEW acc \in Arg
  PROVE  acc.flags = {"ANONYMOUS"} <=> Summarises(acc, {})
BY DEF Arg, Flags, Summarises, Mismatched, Mismatch, Anonymous, Named

\* Every nonempty set of naturals has a least element (used to find the
\* number of steps, the rank furthest behind, a rank without a parent).
LEMMA LeastElement ==
  ASSUME NEW T \in SUBSET Nat, T # {}
  PROVE  \E x \in T : \A y \in T : x <= y
<1> DEFINE S == {1 .. t : t \in T}
<1>1. S \subseteq FiniteSubsetsOf(Nat) /\ S # {}
  <2>1. \A t \in T : IsFiniteSet(1 .. t) /\ 1 .. t \in SUBSET Nat
    BY FS_Interval
  <2>. QED BY <2>1 DEF FiniteSubsetsOf
<1>2. IsWellFoundedOn(StrictSubsetOrdering(Nat), FiniteSubsetsOf(Nat))
  BY FS_StrictSubsetOrderingWellFounded
<1> HIDE DEF S
<1>3. PICK X \in S : \A Y \in S : ~(<<Y, X>> \in StrictSubsetOrdering(Nat))
  BY <1>1, <1>2, WFMin
<1>4. PICK x \in T : X = 1 .. x
  BY <1>3 DEF S
<1>5. ASSUME NEW y \in T, y < x PROVE FALSE
  <2>1. 1 .. y \in S
    BY DEF S
  <2>2. 1 .. y \subseteq 1 .. x /\ x \in 1 .. x /\ x \notin 1 .. y
    BY <1>5
  <2>3. 1 .. y \in SUBSET Nat /\ 1 .. x \in SUBSET Nat
    OBVIOUS
  <2>. QED BY <1>3, <1>4, <2>1, <2>2, <2>3 DEF StrictSubsetOrdering
<1>. QED BY <1>5
=============================================================================
