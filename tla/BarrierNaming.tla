---------------------------- MODULE BarrierNaming ----------------------------
(***************************************************************************)
(* The naming rule that every barrier of src/extended-ref implements.      *)
(*                                                                         *)
(* A rank notifies with an (id, flags) pair.  GASNET_BARRIERFLAG_ANONYMOUS *)
(* makes the id irrelevant, GASNET_BARRIERFLAG_MISMATCH forces the barrier *)
(* to report a mismatch.  An accumulator of the same shape (consensus_* in *)
(* the central barrier, recv_* in the dissemination barrier) absorbs one   *)
(* notification after another; gasnet_barrier_wait compares the result     *)
(* with its own (id, flags).                                               *)
(*                                                                         *)
(* The first half transcribes the code; the second half says, for a whole  *)
(* SET of notifications, what the outcome has to be.                       *)
(***************************************************************************)
CONSTANT Ids               \* the barrier ids (C ints)

ASSUME IdsAssumption == 0 \in Ids

Flags == {"ANONYMOUS", "MISMATCH"}
Arg   == [flags : SUBSET Flags, value : Ids]

Anonymous(a)  == "ANONYMOUS" \in a.flags
Mismatch(a)   == "MISMATCH" \in a.flags
Named(a)      == ~Anonymous(a) /\ ~Mismatch(a)

\* The accumulator of a fresh barrier object: zeroed, then flagged ANONYMOUS.
Fresh == [flags |-> {"ANONYMOUS"}, value |-> 0]

\* Mutation of Reset: nothing is reset between two uses of the accumulator.
ResetForgotten(acc) == acc

\* Resetting an accumulator touches its flags only; the value stays behind.
Reset(acc) == [acc EXCEPT !.flags = {"ANONYMOUS"}]

\* Mutation of Merge: the first name wins, a second one is not compared.
MergeFirstWins(acc, a) ==
  IF Mismatch(acc) \/ Mismatch(a)
    THEN [acc EXCEPT !.flags = {"MISMATCH"}]
  ELSE IF Anonymous(acc) THEN a ELSE acc

\* Mutation of Merge: a notification without a name overwrites one with it.
MergeAnonymousWins(acc, a) ==
  IF Mismatch(acc) \/ Mismatch(a)
    THEN [acc EXCEPT !.flags = {"MISMATCH"}]
  ELSE IF Anonymous(a) THEN a
  ELSE IF ~Anonymous(acc) /\ a.value # acc.value
    THEN [acc EXCEPT !.flags = {"MISMATCH"}]
  ELSE a

\* Absorb the notification a into the accumulator acc.
Merge(acc, a) ==
  IF Mismatch(acc) \/ Mismatch(a)
    THEN [acc EXCEPT !.flags = {"MISMATCH"}]
  ELSE IF Anonymous(acc)
    THEN a
  ELSE IF ~Anonymous(a) /\ a.value # acc.value
    THEN [acc EXCEPT !.flags = {"MISMATCH"}]
  ELSE acc

\* The return value of gasnet_barrier_wait(w) given the final accumulator.
Retval(acc, w) ==
  IF \/ Mismatch(acc)
     \/ ~Anonymous(w) /\ ~Anonymous(acc) /\ w.value # acc.value
    THEN "MISMATCH" ELSE "OK"

\* What gasnet_barrier_wait(w) returns together with what a following
\* gasnet_barrier_result would report.
Outcome(acc, w) ==
  [ret |-> Retval(acc, w), anon |-> Anonymous(acc), value |-> acc.value]

NoOutcome == [ret |-> "NONE", anon |-> TRUE, value |-> 0]
Outcomes  == [ret : {"OK", "MISMATCH"}, anon : BOOLEAN, value : Ids]

-----------------------------------------------------------------------------
(***************************************************************************)
(* The reference: S is the set of notifications of all ranks.              *)
(***************************************************************************)
Mismatched(S) ==
  \/ \E a \in S : Mismatch(a)
  \/ \E a, b \in S : Named(a) /\ Named(b) /\ a.value # b.value

\* acc is a correct summary of the notifications in S.
Summarises(acc, S) ==
  /\ Mismatch(acc) <=> Mismatched(S)
  /\ ~Mismatched(S) =>
       /\ Anonymous(acc) <=> \A a \in S : Anonymous(a)
       /\ \A a \in S : Named(a) => acc.value = a.value

\* What the GASNet documentation promises a waiter w of a barrier whose
\* ranks notified S; the reported id is unspecified unless S names one.
Promised(o, w, S) ==
  /\ o \in Outcomes
  /\ o.ret = "MISMATCH" <=>
       \/ Mismatched(S)
       \/ ~Anonymous(w) /\ \E a \in S : Named(a) /\ a.value # w.value
  /\ ~Mismatched(S) =>
       /\ o.anon <=> \A a \in S : Anonymous(a)
       /\ \A a \in S : Named(a) => o.value = a.value
=============================================================================
