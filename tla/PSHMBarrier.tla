---------------------------- MODULE PSHMBarrier ----------------------------
(***************************************************************************)
(* The shared-memory barrier between the processes of one node             *)
(* (gasnete_pshmbarrier_* in                                               *)
(* src/extended-ref/gasnet_extended_refbarrier.c, as the smp conduit uses  *)
(* it): a reduction up a tree of processes, each of which owns one word    *)
(* that its parent polls, and one result that rank 0 publishes to all.     *)
(*                                                                         *)
(* There is no lock and no message: what keeps one barrier's words apart   *)
(* from the next one's is the order of the writes.  As in AMCBarrier the   *)
(* variables of BarrierSpec are history variables here.                    *)
(***************************************************************************)
EXTENDS BarrierSpec

CONSTANT Radices        \* the values of GASNET_PSHM_BARRIER_RADIX to consider

ASSUME RadixAssumption == Radices \subseteq Int

VARIABLES
  radix,        \* the environment's choice, the same in all processes
  client,       \* client[r]: where rank r is between barrier calls
  two_to_phase, \* private.two_to_phase: 1 or 2
  remain,       \* private.remain: the children not absorbed yet
  partial,      \* private.{value,flags}
  node,         \* node[r]: the shared word of rank r
  published,    \* shared->{value,flags}
  state,        \* shared->state: done bit and result
  returned      \* what rank r's wait is about to return

pshmBarrierVars == <<radix, client, two_to_phase, remain, partial, node,
                     published, state, returned, specVars>>

RootRank == 0

Least2(a, b) == IF a < b THEN a ELSE b

\* Mutation of Children: the loop over an N-ary parent's children is one short.
ChildrenOneShort(r) ==
  LET out == IF radix = 0 THEN N - 1 ELSE radix IN
  (out * r + 1) .. Least2(N, out * r + 1 + out) - 2

\* The tree: flat (0), N-ary (positive), or cells of -radix processes whose
\* first ones report to the root (negative).
Children(r) ==
  IF radix < 0
    THEN LET cell == -radix IN
         IF r % cell # 0 THEN {}
         ELSE (r + 1 .. Least2(N, r + cell) - 1) \cup
              (IF r = RootRank THEN {i \in cell .. N - 1 : i % cell = 0} ELSE {})
    ELSE LET out == IF radix = 0 THEN N - 1 ELSE radix IN
         (out * r + 1) .. Least2(N, out * r + 1 + out) - 1

\* gasnete_pshmbarrier_init_inner
PSHMBarrierInit ==
  /\ SpecInit
  /\ radix \in Radices
  /\ client = [r \in Ranks |-> "outside"]
  /\ two_to_phase = [r \in Ranks |-> 1]
  /\ remain = [r \in Ranks |-> {}]
  /\ partial = [r \in Ranks |-> [flags |-> {}, value |-> 0]]
  /\ node = [r \in Ranks |-> [phase |-> 1, arg |-> [flags |-> {}, value |-> 0]]]
  /\ published = [flags |-> {}, value |-> 0]
  /\ state = [phase |-> 0, result |-> "OK"]
  /\ returned = [r \in Ranks |-> "OK"]

-----------------------------------------------------------------------------
\* gasnete_pshmbarrier_notify_inner: a rank without children arrives at once.
Notify(r) ==
  /\ client[r] = "outside"
  /\ SpecNotify(r)
  /\ two_to_phase' = [two_to_phase EXCEPT ![r] = 3 - @]
  /\ remain' = [remain EXCEPT ![r] = Children(r)]
  /\ partial' = [partial EXCEPT ![r] = args'[r][epoch'[r] % 2]]
  /\ client' = [client EXCEPT ![r] =
                  IF Children(r) = {} THEN "arriving" ELSE "inside"]
  /\ UNCHANGED <<radix, node, published, state, returned>>

\* gasnete_pshmbarrier_kick, from notify, wait and try: the children that have
\* arrived are absorbed in no particular order (the scan moves them about).
Kick(r) ==
  /\ client[r] = "inside"
  /\ \E c \in remain[r] :
       /\ node[c].phase = two_to_phase[r]
       /\ partial' = [partial EXCEPT ![r] = Merge(@, node[c].arg)]
       /\ remain' = [remain EXCEPT ![r] = @ \ {c}]
       /\ client' = [client EXCEPT ![r] =
                       IF remain[r] = {c} THEN "arriving" ELSE @]
  /\ UNCHANGED <<radix, two_to_phase, node, published, state, returned, specVars>>

\* gasnete_pshmbarrier_arrive: one word with the phase in it. The root goes on
\* to publish value and flags, and then the done bit with the result.
Arrive(r) ==
  /\ client[r] = "arriving"
  /\ node' = [node EXCEPT ![r] = [phase |-> two_to_phase[r], arg |-> partial[r]]]
  /\ client' = [client EXCEPT ![r] = IF r = RootRank THEN "publishing" ELSE "inside"]
  /\ UNCHANGED <<radix, two_to_phase, remain, partial, published, state,
                 returned, specVars>>

Publish ==
  /\ client[RootRank] = "publishing"
  /\ published' = partial[RootRank]
  /\ client' = [client EXCEPT ![RootRank] = "signalling"]
  /\ UNCHANGED <<radix, two_to_phase, remain, partial, node, state, returned,
                 specVars>>

Signal ==
  /\ client[RootRank] = "signalling"
  /\ state' = [phase |-> two_to_phase[RootRank],
               result |-> IF Mismatch(partial[RootRank]) THEN "MISMATCH" ELSE "OK"]
  /\ client' = [client EXCEPT ![RootRank] = "inside"]
  /\ UNCHANGED <<radix, two_to_phase, remain, partial, node, published,
                 returned, specVars>>

\* wait and try read the state word ...
SeeDone(r) ==
  /\ client[r] = "inside"
  /\ state.phase = two_to_phase[r]
  /\ returned' = [returned EXCEPT ![r] = state.result]
  /\ client' = [client EXCEPT ![r] = "finishing"]
  /\ UNCHANGED <<radix, two_to_phase, remain, partial, node, published, state,
                 specVars>>

\* ... and then (finish_pshm_barrier) compare what was published with their
\* own arguments.
Finish(r) ==
  /\ client[r] = "finishing"
  /\ \E w \in WaitArgs :
       returned' = [returned EXCEPT ![r] =
         IF /\ ~Anonymous(w) /\ ~Anonymous(published)
            /\ w.value # published.value
           THEN "MISMATCH" ELSE @]
  /\ client' = [client EXCEPT ![r] = "left"]
  /\ UNCHANGED <<radix, two_to_phase, remain, partial, node, published, state,
                 specVars>>

\* gasnete_pshmbarrier_result reads the published words again, at any time
\* before the client's next notify.
Result(r) ==
  /\ client[r] = "left"
  /\ completed' = [completed EXCEPT ![r] = @ + 1]
  /\ outcome' = [outcome EXCEPT ![r] =
       [ret |-> returned[r], anon |-> Anonymous(published),
        value |-> published.value]]
  /\ client' = [client EXCEPT ![r] = "outside"]
  /\ UNCHANGED <<radix, two_to_phase, remain, partial, node, published, state,
                 returned, epoch, args>>

PSHMBarrierNext ==
  \/ \E r \in Ranks : \/ Notify(r) \/ Kick(r) \/ Arrive(r)
                      \/ SeeDone(r) \/ Finish(r) \/ Result(r)
  \/ Publish \/ Signal

PSHMBarrierSpec == PSHMBarrierInit /\ [][PSHMBarrierNext]_pshmBarrierVars

-----------------------------------------------------------------------------
\* The shape of the state.
PSHMBarrierTypeOK ==
  /\ client \in [Ranks -> {"outside", "inside", "arriving", "publishing",
                           "signalling", "finishing", "left"}]
  /\ two_to_phase \in [Ranks -> {1, 2}]
  /\ remain \in [Ranks -> SUBSET (Ranks \ {RootRank})]
  /\ partial \in [Ranks -> Arg] /\ published \in Arg
  /\ node \in [Ranks -> [phase : {1, 2}, arg : Arg]]
  /\ state \in [phase : {0, 1, 2}, result : {"OK", "MISMATCH"}]
  /\ returned \in [Ranks -> {"OK", "MISMATCH"}]

\* The shared-memory barrier implements BarrierSpec for every shape of tree:
\* nobody leaves before all have notified, and the result, the flags and the
\* value, which each rank reads at three different times without a lock, are
\* those of the barrier it is leaving although faster ranks have gone on.
ImplementsBarrier == SpecInit /\ [][SpecNext]_specVars

-----------------------------------------------------------------------------
(***************************************************************************)
(* The inductive invariant.  All ranks are in the barrier that was         *)
(* released last or in the next one; in the next one, what a rank has      *)
(* gathered summarises the notifications of the part of the tree below     *)
(* the children it has absorbed.                                           *)
(***************************************************************************)
\* Rank r and those that report to it, directly or not: what every set has
\* that contains r and the children of its members.
Below(r) ==
  {q \in Ranks : \A T \in SUBSET Ranks :
     r \in T /\ (\A p \in T : Children(p) \subseteq T) => q \in T}

\* The word of r is that of the barrier it notified last.
HasArrived(r) == node[r].phase = two_to_phase[r]

\* How many barriers the root has signalled.
Released ==
  IF \/ client[RootRank] \in {"outside", "finishing", "left"}
     \/ client[RootRank] = "inside" /\ HasArrived(RootRank)
    THEN epoch[RootRank] ELSE epoch[RootRank] - 1

Gathered(r) == {r} \cup UNION {Below(c) : c \in Children(r) \ remain[r]}
ArgsIn(S, e) == {args[q][e % 2] : q \in S}

HistoryTypeOK ==
  /\ epoch \in [Ranks -> Nat] /\ completed \in [Ranks -> Nat]
  /\ args \in [Ranks -> [{0, 1} -> Arg]]
  /\ radix \in Radices

RankInv ==
  \A r \in Ranks :
    /\ two_to_phase[r] = 1 + (epoch[r] % 2)
    /\ epoch[r] = IF client[r] = "outside" THEN completed[r] ELSE completed[r] + 1
    /\ remain[r] \subseteq Children(r)
    /\ client[r] # "inside" => remain[r] = {}
    /\ client[r] \in {"publishing", "signalling"} => r = RootRank
    /\ HasArrived(r) <=> remain[r] = {} /\ client[r] # "arriving"

ReleaseInv ==
  /\ state.phase = IF Released = 0 THEN 0 ELSE 1 + (Released % 2)
  /\ \A r \in Ranks :
       /\ epoch[r] \in {Released, Released + 1} /\ completed[r] <= Released
       /\ client[r] \in {"finishing", "left"} => epoch[r] = Released
       /\ epoch[r] = Released => HasArrived(r)

GatherInv ==
  \A r \in Ranks : epoch[r] = Released + 1 =>
    /\ \A q \in Gathered(r) \ {r} : epoch[q] = epoch[r] /\ HasArrived(q)
    /\ Summarises(partial[r], ArgsIn(Gathered(r), epoch[r]))
    /\ HasArrived(r) => node[r].arg = partial[r]

PublishInv ==
  /\ Released > 0 =>
       /\ state.result = "MISMATCH" <=> Mismatched(ArgsOf(Released))
       /\ client[RootRank] # "signalling" => Summarises(published, ArgsOf(Released))
  /\ client[RootRank] = "signalling" => published = partial[RootRank]
  /\ \A r \in Ranks :
       /\ client[r] = "finishing" => returned[r] = state.result
       /\ client[r] = "left" => \E w \in WaitArgs : returned[r] = Retval(published, w)

PSHMBarrierInv ==
  /\ PSHMBarrierTypeOK /\ HistoryTypeOK
  /\ RankInv /\ ReleaseInv /\ GatherInv /\ PublishInv
=============================================================================
