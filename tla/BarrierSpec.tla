----------------------------- MODULE BarrierSpec -----------------------------
(***************************************************************************)
(* What a split-phase named barrier promises its clients, independently of *)
(* how it communicates.  Each rank alternates gasnet_barrier_notify and a  *)
(* successful gasnet_barrier_wait (or _try).  No rank leaves its e-th      *)
(* barrier before every rank has notified the e-th one, and everyone       *)
(* leaves with the outcome that the e-th notifications of all ranks imply. *)
(***************************************************************************)
EXTENDS BarrierNaming, Integers

CONSTANTS N,            \* the number of ranks in the team
          NotifyArgs,   \* the (id, flags) pairs clients notify with
          WaitArgs,     \* the (id, flags) pairs clients wait with
          MaxEpoch      \* bound on the number of barriers

Ranks == 0 .. N - 1

ASSUME NAssumption == N \in Nat \ {0}
ASSUME ArgsAssumption == NotifyArgs \subseteq Arg /\ WaitArgs \subseteq Arg
ASSUME MaxEpochAssumption == MaxEpoch \in Nat

VARIABLES epoch,        \* epoch[r]: how many barriers r has notified
          completed,    \* completed[r]: how many barriers r has left
          args,         \* args[r][e % 2]: what r notified barrier e with
          outcome       \* outcome[r]: what r's last wait returned

specVars == <<epoch, completed, args, outcome>>

\* The last two notifications of each rank are kept, under the parity of
\* their epoch; no rank is ever further ahead of another than that.
SpecInit ==
  /\ epoch = [r \in Ranks |-> 0]
  /\ completed = [r \in Ranks |-> 0]
  /\ args = [r \in Ranks |-> [i \in {0, 1} |-> Fresh]]
  /\ outcome = [r \in Ranks |-> NoOutcome]

\* The notifications of the e-th barrier.
ArgsOf(e) == {args[r][e % 2] : r \in Ranks}

SpecNotify(r) ==
  /\ epoch[r] = completed[r]
  /\ epoch[r] < MaxEpoch
  /\ epoch' = [epoch EXCEPT ![r] = @ + 1]
  /\ \E a \in NotifyArgs : args' = [args EXCEPT ![r][(epoch[r] + 1) % 2] = a]
  /\ UNCHANGED <<completed, outcome>>

SpecWait(r) ==
  /\ epoch[r] = completed[r] + 1
  /\ \A q \in Ranks : epoch[r] <= epoch[q]
  /\ completed' = [completed EXCEPT ![r] = @ + 1]
  /\ \E w \in WaitArgs, o \in Outcomes :
       /\ Promised(o, w, ArgsOf(epoch[r]))
       /\ outcome' = [outcome EXCEPT ![r] = o]
  /\ UNCHANGED <<epoch, args>>

SpecNext == \E r \in Ranks : SpecNotify(r) \/ SpecWait(r)

SpecSpec == SpecInit /\ [][SpecNext]_specVars

-----------------------------------------------------------------------------
(***************************************************************************)
(* Two properties of the history alone, that every barrier must have.      *)
(***************************************************************************)
\* A rank that has left its e-th barrier (wait or try returned other than
\* NOT_READY) proves that every rank has notified its e-th barrier.
BarrierSafe == \A r, q \in Ranks : completed[r] <= epoch[q]

\* Once every rank has notified, every rank leaves the barrier, provided
\* clients call wait or try and the network delivers.
BarrierCompletes ==
  \A e \in 1 .. MaxEpoch :
    (\A q \in Ranks : epoch[q] >= e) ~> (\A r \in Ranks : completed[r] >= e)
=============================================================================
