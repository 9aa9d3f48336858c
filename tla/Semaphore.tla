------------------------------ MODULE Semaphore ------------------------------
(* gasneti_semaphore_t of gasnet_syncops.h, as built on compare-and-swap:    *)
(* the count of free units of some resource.  Threads take units without     *)
(* blocking and give back what they were told they got.                      *)
EXTENDS Naturals, FiniteSets

CONSTANTS
  SemaThreads,   \* threads
  Limit,         \* the units there are, and the limit checked when debugging
  Wants          \* what trydown_n and trydown_partial ask for

ASSUME SemaphoreAssumption == Limit \in Nat /\ Wants \subseteq Nat \ {0}

VARIABLES
  count,   \* the semaphore's value
  sema,    \* what each thread is doing: at, n, old, retval, and
           \* where a failed compare-and-swap leads
  got      \* got[t]: units thread t was told it has

semaVars == <<count, sema, got>>

Resting == [at |-> "idle", n |-> 0, old |-> 0, retval |-> 0, again |-> "idle"]

SemaInit ==
  /\ count = Limit
  /\ sema = [t \in SemaThreads |-> Resting]
  /\ got = [t \in SemaThreads |-> 0]

Calls(t, at, n) ==
  /\ sema[t].at = "idle"
  /\ sema' = [sema EXCEPT ![t] = [Resting EXCEPT !.at = at, !.n = n]]
  /\ UNCHANGED <<count, got>>

Returns(t, value) ==
  /\ sema' = [sema EXCEPT ![t] = Resting]
  /\ got' = [got EXCEPT ![t] = @ + value]

Take(t, n) ==
  /\ sema' = [sema EXCEPT ![t].at = "cas", ![t].old = count, ![t].retval = n,
                          ![t].again = sema[t].at]
  /\ UNCHANGED got

(* gasneti_semaphore_trydown is trydown_n of one unit *)
semaphore_trydown_n(t) == \E n \in Wants \union {1} : Calls(t, "read", n)

(* read the value, and compare and swap if it is large enough *)
sema_read(t) ==
  /\ sema[t].at = "read"
  /\ \/ count < sema[t].n /\ Returns(t, 0)
     \/ count >= sema[t].n /\ Take(t, sema[t].n)
  /\ UNCHANGED count

(* gasneti_semaphore_trydown_partial takes what there is; when there is      *)
(* nothing it leaves the loop with the result of the turn before             *)
semaphore_trydown_partial(t) == \E n \in Wants : Calls(t, "read_partial", n)

Least(a, b) == IF a < b THEN a ELSE b

partial_read(t) ==
  /\ sema[t].at = "read_partial"
  /\ \/ count = 0 /\ Returns(t, sema[t].retval)
     \/ count # 0 /\ Take(t, Least(count, sema[t].n))
  /\ UNCHANGED count

(* Mutation of sema_cas: a store of what was read before.                    *)
sema_store(t) ==
  /\ sema[t].at = "cas"
  /\ count' = sema[t].old - sema[t].retval
  /\ Returns(t, sema[t].retval)

(* compare and swap, and begin again when another thread was faster *)
sema_cas(t) ==
  LET s == sema[t] IN
  /\ s.at = "cas"
  /\ \/ /\ count = s.old
        /\ count' = count - s.retval
        /\ Returns(t, s.retval)
     \/ /\ count # s.old
        /\ sema' = [sema EXCEPT ![t].at = s.again]
        /\ UNCHANGED <<count, got>>

(* up and up_n add atomically *)
semaphore_up_n(t) ==
  /\ sema[t].at = "idle"
  /\ \E n \in 1..got[t] :
       /\ count' = count + n
       /\ got' = [got EXCEPT ![t] = @ - n]
  /\ UNCHANGED sema

SemaNext ==
  \E t \in SemaThreads :
    semaphore_trydown_n(t) \/ sema_read(t) \/ sema_cas(t) \/ semaphore_up_n(t)

SemaSpec == SemaInit /\ [][SemaNext]_semaVars

(* with the calls of trydown_partial too *)
SemaNextPartial ==
  SemaNext \/ \E t \in SemaThreads : semaphore_trydown_partial(t) \/ partial_read(t)

-----------------------------------------------------------------------------
(* Properties *)

Stages == {"idle", "read", "read_partial", "cas"}

(* Type invariant of the semaphore. *)
SemaTypeOK ==
  /\ count \in Nat
  /\ sema \in [SemaThreads ->
                [at : Stages, n : Nat, old : Nat, retval : Nat, again : Stages]]
  /\ got \in [SemaThreads -> Nat]

(* the units that threads were told they have, if g says how many, as pairs  *)
UnitsOf(g) == UNION {{t} \X (1..g[t]) : t \in SemaThreads}

(* Every unit is either free or with one thread: a call returns the amount   *)
(* by which it reduced the value (gasnet_syncops.h:50-59).                   *)
UnitsConserved == count + Cardinality(UnitsOf(got)) = Limit

(* A swap takes no more than what was read, so the value stays a number.     *)
NoUnderflow == \A t \in SemaThreads : sema[t].at = "cas" => sema[t].retval <= sema[t].old

(* the inductive invariant *)
SemaInv ==
  SemaTypeOK /\ NoUnderflow /\ IsFiniteSet(UnitsOf(got)) /\ UnitsConserved
=============================================================================
