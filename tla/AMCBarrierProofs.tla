-------------------------- MODULE AMCBarrierProofs --------------------------
(***************************************************************************)
(* TLAPS proofs about the central barrier, for every number of ranks, any  *)
(* set of poller threads and any number of barriers.                       *)
(***************************************************************************)
EXTENDS AMCBarrier, BarrierNamingProofs, FiniteSetTheorems, TLAPS

\* Consecutive epochs use different phases, and there are only two.
LEMMA Parity ==
  ASSUME NEW n \in Nat
  PROVE  /\ n % 2 \in Phases /\ (n + 1) % 2 \in Phases
         /\ (n + 1) % 2 = 1 - (n % 2)
         /\ (n + 1) % 2 # n % 2
         /\ (n + 2) % 2 = n % 2
         /\ \A p \in Phases : p = n % 2 \/ p = (n + 1) % 2
BY SMT DEF Phases

-----------------------------------------------------------------------------
(***************************************************************************)
(* The invariant, action by action.                                        *)
(***************************************************************************)
USE NAssumption, IdsAssumption, ArgsAssumption, MaxEpochAssumption,
    ThreadsAssumption

\* The reset accumulator and the idle kick have their types.
LEMMA FreshArg == Fresh \in Arg /\ NotKicking \in Kicks
BY DEF Fresh, Arg, Flags, NotKicking, Kicks, Phases

\* Ranks can be counted, and only all of them are N.
LEMMA RanksFinite ==
  /\ IsFiniteSet(Ranks) /\ Cardinality(Ranks) = N
  /\ \A S \in SUBSET Ranks :
       /\ IsFiniteSet(S) /\ Cardinality(S) \in 0 .. N
       /\ Cardinality(S) = N => S = Ranks
<1>1. IsFiniteSet(Ranks) /\ Cardinality(Ranks) = N
  BY FS_Interval DEF Ranks
<1>. QED BY <1>1, FS_Subset, FS_CardinalityType

\* Before the first barrier nothing is counted, sent or answered.
LEMMA InitInv == Init => Inv
<1> SUFFICES ASSUME Init PROVE Inv
  OBVIOUS
<1> USE DEF Init, SpecInit
<1>1. TypeOK
  <2>1. NoOutcome \in Outcomes \cup {NoOutcome}
    OBVIOUS
  <2>2. [flags |-> {}, value |-> 0] \in Arg
    BY DEF Arg, Flags
  <2>3. response_done \in [Ranks -> [Phases -> BOOLEAN]] /\ pf \in BOOLEAN
    OBVIOUS
  <2>4. count \in [Phases -> 0 .. N]
    OBVIOUS
  <2>5. args \in [Ranks -> [Phases -> Arg]]
    BY FreshArg DEF Phases
  <2>. QED BY <2>1, <2>2, <2>3, <2>4, <2>5, FreshArg DEF TypeOK, Phases
<1>2. Arrived = {} /\ ArrivedArgs = {}
  BY DEF Arrived, ArrivedArgs, InBarrier
<1>3. 0 % 2 = 0 /\ (0 + 1) % 2 = 1
  OBVIOUS
<1>4. CountInv
  BY <1>2, <1>3, FS_EmptySet DEF CountInv, Phases
<1>5. ConsensusInv
  BY <1>2, <1>3, FreshArg, ResetSummarises DEF ConsensusInv, Phases, Fresh
<1>6. WindowInv /\ NotifyInv /\ KickInv /\ DoneInv /\ ResponseInv
  BY <1>3 DEF WindowInv, NotifyInv, KickInv, DoneInv, ResponseInv, NotKicking,
              NotifyInFlight
<1>. QED BY <1>1, <1>4, <1>5, <1>6 DEF Inv, IndInv

\* A step that changes only where clients and kicks are, not what they have
\* done, preserves the invariant.
LEMMA QuietStep ==
  ASSUME Inv, TypeOK',
         UNCHANGED <<phase, response_done, response, count, consensus, net,
                     closed, epoch, completed, args, outcome>>,
         \A r \in Ranks : /\ InBarrier(r)' <=> InBarrier(r)
                          /\ client'[r] = "outside" <=> client[r] = "outside"
                          /\ client'[r] = "sending" <=> client[r] = "sending",
         \A t \in Threads : \/ kick'[t].pc # "send" /\ kick[t].pc # "send"
                               /\ kick'[t].rank = 0
                            \/ kick'[t] = kick[t]
  PROVE  Inv'
<1> USE DEF Inv, IndInv
<1>1. Arrived' = Arrived /\ ArrivedArgs' = ArrivedArgs
      /\ ArgsOf(closed)' = ArgsOf(closed)
  BY DEF Arrived, ArrivedArgs, NotifyInFlight, ArgsOf
<1>2. WindowInv'
  BY DEF WindowInv, NotifyInFlight
<1>3. NotifyInv'
  BY DEF NotifyInv, TypeOK, Messages, NotifyMsg
<1>4. CountInv' /\ ConsensusInv'
  BY <1>1 DEF CountInv, ConsensusInv
<1>5. KickInv'
  BY <1>1 DEF KickInv, Pending, DoneInFlight
<1>6. DoneInv' /\ ResponseInv'
  BY <1>1 DEF DoneInv, ResponseInv, Pending
<1>. QED BY <1>2, <1>3, <1>4, <1>5, <1>6

\* A notify: the rank enters the next barrier with its phase flipped.
LEMMA NotifyStep ==
  ASSUME Inv, NEW r \in Ranks, Notify(r)
  PROVE  Inv'
<1> USE DEF Inv, IndInv
<1>1. epoch[r] = closed /\ completed[r] = closed /\ closed \in Nat
  BY DEF Notify, WindowInv, TypeOK
<1>2. PICK a \in NotifyArgs : args' = [args EXCEPT ![r][(closed + 1) % 2] = a]
  BY <1>1 DEF Notify, SpecNotify
<1>3. a \in Arg
  BY <1>2
<1> USE Parity
<1>4. TypeOK'
  <2>1. args' \in [Ranks -> [Phases -> Arg]]
    BY <1>1, <1>2, <1>3 DEF TypeOK
  <2>2. phase' \in [Ranks -> Phases]
    BY SMTT(30) DEF Notify, TypeOK, Phases
  <2>. QED BY <2>1, <2>2 DEF Notify, SpecNotify, TypeOK
<1>5. /\ \A q \in Ranks : args'[q][closed % 2] = args[q][closed % 2]
      /\ \A q \in Ranks : q # r => args'[q] = args[q]
  BY <1>1, <1>2 DEF TypeOK
<1>6. /\ \A q \in Ranks : q # r => /\ epoch'[q] = epoch[q]
                                 /\ client'[q] = client[q]
                                 /\ phase'[q] = phase[q]
      /\ epoch'[r] = closed + 1 /\ client'[r] = "sending"
      /\ phase'[r] = 1 - phase[r]
      /\ UNCHANGED <<completed, response_done, response, count, consensus,
                     kick, net, closed>>
  BY <1>1 DEF Notify, SpecNotify, TypeOK
<1>7. r \notin Arrived /\ Arrived' = Arrived
  BY <1>1, <1>6 DEF Arrived, InBarrier, NotifyInFlight
<1>8. ArrivedArgs' = ArrivedArgs /\ ArgsOf(closed)' = ArgsOf(closed)
  BY <1>5, <1>6, <1>7 DEF ArrivedArgs, Arrived, ArgsOf
<1>9. ~NotifyInFlight(r)
  BY <1>1 DEF NotifyInv, NotifyInFlight
<1>10. WindowInv'
  <2> SUFFICES ASSUME NEW q \in Ranks PROVE WindowInv!(q)'
    BY DEF WindowInv
  <2>1. CASE q = r
    BY <1>1, <1>6, <1>9, <2>1 DEF WindowInv, NotifyInFlight
  <2>2. CASE q # r
    BY <1>6, <2>2 DEF WindowInv, NotifyInFlight
  <2>. QED BY <2>1, <2>2
<1>11. NotifyInv'
  <2> SUFFICES ASSUME NEW n \in net, n.type = "notify" PROVE NotifyInv!(n)!2'
    BY <1>6 DEF NotifyInv
  <2>1. NotifyInv!(n)!2 /\ n.rank \in Ranks
    BY DEF NotifyInv, TypeOK, Messages
  <2>2. n.rank # r
    BY <1>1, <2>1
  <2>. QED BY <1>5, <1>6, <2>1, <2>2 DEF InBarrier
<1>12. CountInv' /\ ConsensusInv'
  BY <1>6, <1>7, <1>8 DEF CountInv, ConsensusInv
<1>13. ~Pending(r) /\ \A q \in Ranks : Pending(q) => Pending(q)'
  BY <1>1, <1>6 DEF Pending
<1>14. KickInv'
  BY <1>6, <1>8, <1>13 DEF KickInv, DoneInFlight
<1>15. DoneInv' /\ ResponseInv'
  BY <1>6, <1>8, <1>13 DEF DoneInv, ResponseInv, TypeOK, Messages
<1>. QED BY <1>4, <1>10, <1>11, <1>12, <1>14, <1>15

\* The send of a notify: its message is in flight, or a lone rank answers itself.
LEMMA SendStep ==
  ASSUME Inv, NEW r \in Ranks, Send(r)
  PROVE  Inv'
<1> USE DEF Inv, IndInv
<1> DEFINE p == (closed + 1) % 2
           a == args[r][p]
           m == NotifyMsg(r, p, a, closed + 1)
<1>1. /\ epoch[r] = closed + 1 /\ completed[r] = closed /\ closed \in Nat
      /\ phase[r] = p /\ ~NotifyInFlight(r)
  <2>1. client[r] = "sending" /\ closed \in Nat /\ completed[r] \in Nat
    BY DEF Send, TypeOK
  <2>2. WindowInv!(r)
    BY DEF WindowInv
  <2>. QED BY <2>1, <2>2
<1> USE Parity
<1>2. p \in Phases /\ a \in Arg
  BY <1>1 DEF TypeOK
<1>3. /\ client' = [client EXCEPT ![r] = "inside"]
      /\ UNCHANGED <<phase, count, consensus, kick, epoch, completed, args,
                     outcome>>
      /\ pf' \in BOOLEAN
  BY DEF Send, specVars, PfEnable, HasPF, TypeOK
<1>4. \A q \in Ranks : /\ q # r => client'[q] = client[q]
                       /\ client'[r] = "inside" /\ client[r] = "sending"
  BY <1>3 DEF TypeOK, Send
<1> HIDE DEF p, a, m
<1>5. CASE N # 1
  <2>1. net' = net \cup {m} /\ UNCHANGED <<response, response_done, closed>>
    BY <1>1, <1>5 DEF Send, m, p, a
  <2>2. m \in Messages
    BY <1>1, <1>2 DEF m, NotifyMsg, Messages
  <2>3. /\ m.type = "notify" /\ m.rank = r /\ m.phase = p
        /\ m.arg = a /\ m.epoch = closed + 1
    BY DEF m, NotifyMsg
  <2>4. TypeOK'
    BY <1>3, <2>1, <2>2 DEF TypeOK
  <2>5. r \notin Arrived /\ Arrived' = Arrived
    BY <1>4, <1>3, <2>1, <2>3 DEF Arrived, InBarrier, NotifyInFlight
  <2>6. ArrivedArgs' = ArrivedArgs /\ ArgsOf(closed)' = ArgsOf(closed)
    BY <1>3, <2>1, <2>5 DEF ArrivedArgs, ArgsOf
  <2>7. WindowInv'
    BY <1>1, <1>3, <1>4, <2>1, <2>3 DEF WindowInv, TypeOK, NotifyInFlight
  <2>8. NotifyInv'
    BY <1>1, <1>3, <1>4, <2>1, <2>3 DEF NotifyInv, InBarrier, m, a, p,
       TypeOK, Messages
  <2>9. CountInv' /\ ConsensusInv'
    BY <1>3, <2>1, <2>5, <2>6 DEF CountInv, ConsensusInv
  <2>10. \A q \in Ranks : /\ Pending(q)' <=> Pending(q)
                          /\ DoneInFlight(q)' <=> DoneInFlight(q)
    BY <1>3, <2>1, <2>3 DEF Pending, DoneInFlight
  <2>11. KickInv'
    BY <1>3, <2>1, <2>6, <2>10 DEF KickInv
  <2>12. DoneInv' /\ ResponseInv'
    BY <1>3, <2>1, <2>3, <2>6, <2>10 DEF DoneInv, ResponseInv, TypeOK, Messages
  <2>. QED BY <2>4, <2>7, <2>8, <2>9, <2>11, <2>12
<1>6. CASE N = 1
  <2>1. Ranks = {r} /\ r = 0
    BY <1>6 DEF Ranks
  <2>2. /\ net' = net /\ closed' = closed + 1
        /\ response' = [response EXCEPT ![r][p] = a]
        /\ response_done' = [response_done EXCEPT ![r][p] = TRUE]
    BY <1>1, <1>6 DEF Send, p, a
  <2>3. net = {}
    <3>1. \A n \in net : n.rank = r /\ n.type \in {"notify", "done"}
      BY <2>1 DEF TypeOK, Messages
    <3>2. ~Pending(r)
      BY <1>1 DEF Pending
    <3>. QED BY <3>1, <3>2, <1>1 DEF NotifyInFlight, DoneInv
  <2>4. Arrived = {} /\ ArrivedArgs = {} /\ Arrived' = {} /\ ArrivedArgs' = {}
    BY <1>1, <1>3, <1>4, <2>1, <2>2
    DEF Arrived, InBarrier, ArrivedArgs
  <2>5. TypeOK'
    <3>1. response' \in [Ranks -> [Phases -> Arg]]
      BY <1>2, <2>2 DEF TypeOK
    <3>2. response_done' \in [Ranks -> [Phases -> BOOLEAN]]
      BY <1>2, <2>2 DEF TypeOK
    <3>. QED BY <1>3, <2>2, <3>1, <3>2 DEF TypeOK
  <2>6. ArgsOf(closed)' = {a}
    BY <1>3, <2>1, <2>2 DEF ArgsOf, a, p
  <2>7. Summarises(a, {a})
    BY <1>2 DEF Summarises, Mismatched, Named
  <2>8. WindowInv'
    BY <1>1, <1>3, <1>4, <2>1, <2>2, <2>3 DEF WindowInv, TypeOK, NotifyInFlight
  <2>9. NotifyInv' /\ DoneInv'
    BY <2>2, <2>3 DEF NotifyInv, DoneInv
  <2>10. closed' % 2 = p /\ (closed' + 1) % 2 = closed % 2
    BY <1>1, <2>2 DEF p
  <2>11. CountInv'
    BY <1>3, <2>4, <2>10, FS_EmptySet DEF CountInv, p
  <2>12. ConsensusInv'
    <3>1. consensus[p] \in Arg /\ consensus[closed % 2] \in Arg
      BY <1>1, <1>2 DEF TypeOK
    <3>. QED BY <1>3, <2>4, <2>10, <3>1, ResetSummarises DEF ConsensusInv, p
  <2>13. \A t \in Threads : kick[t].pc # "send"
    BY <1>1, <2>1 DEF KickInv, Pending
  <2>14. KickInv'
    BY <1>3, <2>13 DEF KickInv
  <2>15. ~response_done[r][closed % 2] /\ ~response_done[r][p]
    BY <1>1, <2>1 DEF ResponseInv, Pending, p
  <2>16. ResponseInv'
    BY ZenonT(60), <1>1, <1>2, <1>3, <2>1, <2>2, <2>6, <2>7, <2>10, <2>15
    DEF ResponseInv, Pending, TypeOK, p
  <2>. QED BY <2>5, <2>8, <2>9, <2>11, <2>12, <2>14, <2>16
<1>. QED BY <1>5, <1>6

\* The notify handler: one message less in flight, one rank more counted.
LEMMA NotifyReqhStep ==
  ASSUME Inv, NEW m \in net, NotifyReqh(m)
  PROVE  Inv'
<1> USE DEF Inv, IndInv
<1> DEFINE p == (closed + 1) % 2
           r == m.rank
           a == args[r][p]
<1>1. /\ m = NotifyMsg(r, p, a, closed + 1)
      /\ epoch[r] = closed + 1 /\ InBarrier(r)
      /\ r \in Ranks /\ m.type = "notify" /\ closed \in Nat
  BY DEF NotifyReqh, NotifyInv, TypeOK, Messages
<1> USE Parity
<1>2. /\ m.phase = p /\ m.arg = a /\ p \in Phases /\ a \in Arg
      /\ p # closed % 2
  BY <1>1 DEF NotifyMsg, TypeOK
<1>3. /\ net' = net \ {m}
      /\ consensus' = [consensus EXCEPT ![p] = Merge(@, a)]
      /\ count' = [count EXCEPT ![p] = @ + 1]
      /\ UNCHANGED <<client, phase, response_done, response, pf, kick, closed,
                     epoch, completed, args, outcome>>
  BY <1>2 DEF NotifyReqh, specVars
<1>4. NotifyInFlight(r) /\ ~NotifyInFlight(r)'
  <2>1. \A n \in net : n.type = "notify" /\ n.rank = r => n = m
    BY <1>1 DEF NotifyInv
  <2>. QED BY <1>1, <1>3, <2>1 DEF NotifyInFlight
<1>5. \A q \in Ranks : q # r => (NotifyInFlight(q)' <=> NotifyInFlight(q))
  BY <1>1, <1>3 DEF NotifyInFlight
<1>6. r \notin Arrived /\ Arrived' = Arrived \cup {r}
  BY <1>1, <1>3, <1>4, <1>5 DEF Arrived, InBarrier
<1>7. ArrivedArgs' = ArrivedArgs \cup {a} /\ ArgsOf(closed)' = ArgsOf(closed)
  BY <1>3, <1>6 DEF ArrivedArgs, ArgsOf
<1>8. ArrivedArgs \in SUBSET Arg
  BY <1>2 DEF ArrivedArgs, Arrived, TypeOK
<1>9. Merge(consensus[p], a) \in Arg
      /\ Summarises(Merge(consensus[p], a), ArrivedArgs \cup {a})
  <2>1. consensus[p] \in Arg /\ Summarises(consensus[p], ArrivedArgs)
    BY <1>2 DEF TypeOK, ConsensusInv
  <2>. QED BY <1>2, <1>8, <2>1, MergeSummarises
<1>10. /\ count[p] + 1 = Cardinality(Arrived')
       /\ Cardinality(Arrived') \in 0 .. N
  <2>1. Arrived \in SUBSET Ranks /\ Arrived' \in SUBSET Ranks
    BY <1>1, <1>6 DEF Arrived
  <2>2. Cardinality(Arrived') = Cardinality(Arrived) + 1
    BY <1>6, <2>1, RanksFinite, FS_AddElement
  <2>. QED BY <2>1, <2>2, RanksFinite DEF CountInv
<1> HIDE DEF p, a, r
<1>11. TypeOK'
  <2>1. consensus' \in [Phases -> Arg] /\ count' \in [Phases -> 0 .. N]
    BY <1>2, <1>3, <1>9, <1>10 DEF TypeOK
  <2>. QED BY <1>3, <2>1 DEF TypeOK
<1>12. /\ count'[p] = count[p] + 1 /\ count'[closed % 2] = count[closed % 2]
       /\ consensus'[p] = Merge(consensus[p], a)
       /\ consensus'[closed % 2] = consensus[closed % 2]
  BY <1>1, <1>2, <1>3 DEF TypeOK
<1>13. CountInv'
  BY <1>3, <1>10, <1>12 DEF CountInv, p
<1>14. ConsensusInv'
  BY <1>3, <1>7, <1>9, <1>12 DEF ConsensusInv, p
<1>15. WindowInv'
  BY <1>3, <1>4, <1>5 DEF WindowInv
<1>16. NotifyInv'
  BY <1>3 DEF NotifyInv, InBarrier
<1>17. \A q \in Ranks : /\ Pending(q)' <=> Pending(q)
                        /\ DoneInFlight(q)' => DoneInFlight(q)
  BY <1>3 DEF Pending, DoneInFlight
<1>18. KickInv'
  BY <1>3, <1>7, <1>17 DEF KickInv
<1>19. DoneInv' /\ ResponseInv'
  BY <1>3, <1>7, <1>17 DEF DoneInv, ResponseInv, TypeOK, Messages
<1>. QED BY <1>11, <1>13, <1>14, <1>15, <1>16, <1>18, <1>19

\* The done handler: the message in flight becomes the stored response.
LEMMA DoneReqhStep ==
  ASSUME Inv, NEW m \in net, DoneReqh(m)
  PROVE  Inv'
<1> USE DEF Inv, IndInv
<1> DEFINE p == closed % 2
           r == m.rank
<1>1. /\ m.phase = p /\ m.epoch = closed /\ Pending(r)
      /\ Summarises(m.arg, ArgsOf(closed)) /\ m.type = "done"
      /\ r \in Ranks /\ m.arg \in Arg /\ closed \in Nat
  BY DEF DoneReqh, DoneInv, TypeOK, Messages
<1>2. p \in Phases
  BY <1>1, Parity
<1>3. /\ net' = net \ {m}
      /\ response' = [response EXCEPT ![r][p] = m.arg]
      /\ response_done' = [response_done EXCEPT ![r][p] = TRUE]
      /\ UNCHANGED <<client, phase, count, consensus, pf, kick, closed,
                     epoch, completed, args, outcome>>
  BY <1>1 DEF DoneReqh, specVars
<1>4. DoneInFlight(r) /\ ~DoneInFlight(r)'
  BY <1>1, <1>3 DEF DoneInFlight, DoneInv
<1>5. \A q \in Ranks : /\ NotifyInFlight(q)' <=> NotifyInFlight(q)
                       /\ DoneInFlight(q)' => DoneInFlight(q)
                       /\ Pending(q)' <=> Pending(q)
  BY <1>1, <1>3 DEF NotifyInFlight, DoneInFlight, Pending
<1>6. /\ Arrived' = Arrived /\ ArrivedArgs' = ArrivedArgs
      /\ ArgsOf(closed)' = ArgsOf(closed)
  BY <1>3, <1>5 DEF Arrived, ArrivedArgs, ArgsOf, InBarrier
<1> HIDE DEF p, r
<1>7. TypeOK'
  <2>1. response' \in [Ranks -> [Phases -> Arg]]
    BY <1>1, <1>2, <1>3 DEF TypeOK
  <2>2. response_done' \in [Ranks -> [Phases -> BOOLEAN]]
    BY <1>1, <1>2, <1>3 DEF TypeOK
  <2>. QED BY <1>3, <2>1, <2>2 DEF TypeOK
<1>8. /\ \A q \in Ranks, i \in Phases : q # r \/ i # p =>
           /\ response'[q][i] = response[q][i]
           /\ response_done'[q][i] = response_done[q][i]
      /\ response'[r][p] = m.arg
  BY <1>1, <1>2, <1>3 DEF TypeOK
<1>9. WindowInv' /\ NotifyInv' /\ CountInv' /\ ConsensusInv'
  BY <1>3, <1>5, <1>6 DEF WindowInv, NotifyInv, CountInv, ConsensusInv, InBarrier
<1>10. KickInv'
  BY <1>2, <1>3, <1>4, <1>5, <1>6, <1>8 DEF KickInv, p
<1>11. DoneInv'
  <2>1. \A n \in net' : n.type = "done" => n.rank # r /\ n.rank \in Ranks
    BY <1>3, <1>4 DEF DoneInFlight, TypeOK, Messages
  <2>. QED BY <1>2, <1>3, <1>5, <1>6, <1>8, <2>1 DEF DoneInv, p
<1>12. ResponseInv'
  BY <1>1, <1>2, <1>3, <1>5, <1>6, <1>8 DEF ResponseInv, p, r
<1>. QED BY <1>7, <1>9, <1>10, <1>11, <1>12

\* Taking the consensus: all ranks were counted, so barrier closed is over
\* for everyone and the next one becomes closed.
LEMMA KickLockedStep ==
  ASSUME Inv, NEW t \in Threads, KickLocked(t), Full(kick[t].phase)
  PROVE  Inv'
<1> USE DEF Inv, IndInv
<1> DEFINE p == (closed + 1) % 2
<1>1. closed \in Nat /\ kick[t] \in Kicks /\ kick[t].pc = "lock"
  BY DEF TypeOK, KickLocked
<1> USE Parity
<1>2. kick[t].phase = p /\ p \in Phases /\ p # closed % 2 /\ count[p] = N
  BY <1>1 DEF Kicks, Full, CountInv
<1>3. Arrived = Ranks
  BY <1>2, RanksFinite DEF CountInv, Arrived
<1>4. \A r \in Ranks : /\ epoch[r] = closed + 1 /\ completed[r] = closed
                       /\ InBarrier(r) /\ ~NotifyInFlight(r) /\ ~Pending(r)
  <2> SUFFICES ASSUME NEW r \in Ranks
               PROVE  /\ epoch[r] = closed + 1 /\ completed[r] = closed
                      /\ InBarrier(r) /\ ~NotifyInFlight(r) /\ ~Pending(r)
    OBVIOUS
  <2>1. epoch[r] = closed + 1 /\ InBarrier(r) /\ ~NotifyInFlight(r)
    BY <1>3 DEF Arrived
  <2>2. WindowInv!(r) /\ completed[r] \in Nat
    BY DEF WindowInv, TypeOK
  <2>3. completed[r] = closed
    BY <1>1, <2>1, <2>2 DEF InBarrier
  <2>. QED BY <1>1, <2>1, <2>3 DEF Pending
<1>5. /\ net = {}
      /\ \A r \in Ranks, i \in Phases : ~response_done[r][i]
      /\ \A u \in Threads : kick[u].pc # "send"
  <2>1. \A m \in net : m.rank \in Ranks /\ m.type \in {"notify", "done"}
    BY DEF TypeOK, Messages
  <2>2. net = {}
    BY <1>4, <2>1 DEF NotifyInFlight, DoneInv
  <2>3. \A r \in Ranks, i \in Phases : ~response_done[r][i]
    BY <1>4 DEF ResponseInv
  <2>4. \A u \in Threads : kick[u].pc # "send"
    <3> SUFFICES ASSUME NEW u \in Threads, kick[u].pc = "send" PROVE FALSE
      OBVIOUS
    <3>1. kick[u].rank \in Ranks /\ kick[u].rank <= kick[u].rank
      BY DEF KickInv, Ranks
    <3>. QED BY <1>4, <3>1 DEF KickInv
  <2>. QED BY <2>2, <2>3, <2>4
<1>6. /\ kick' = [kick EXCEPT ![t].pc = "send", ![t].arg = consensus[p]]
      /\ count' = [count EXCEPT ![p] = 0]
      /\ consensus' = [consensus EXCEPT ![p] = Reset(@)]
      /\ closed' = closed + 1 /\ pf' = FALSE
      /\ UNCHANGED <<client, phase, response_done, response, net,
                     epoch, completed, args, outcome>>
  BY <1>2 DEF KickLocked, specVars, PfDisable
<1>7. consensus[p] \in Arg /\ Summarises(consensus[p], ArgsOf(closed)')
  <2>1. ArgsOf(closed)' = ArrivedArgs
    BY <1>3, <1>6 DEF ArgsOf, ArrivedArgs
  <2>. QED BY <1>2, <2>1 DEF ConsensusInv, TypeOK
<1>8. /\ Reset(consensus[p]) \in Arg
      /\ Reset(consensus[p]).flags = {"ANONYMOUS"}
  BY <1>7 DEF Reset, Arg, Flags
<1>9. closed' % 2 = p /\ (closed' + 1) % 2 = closed % 2
  BY <1>1, <1>6
<1> HIDE DEF p
<1>10. /\ kick'[t].pc = "send" /\ kick'[t].arg = consensus[p]
       /\ kick'[t].phase = p /\ kick'[t].rank = 0
       /\ kick'[t] \in Kicks
       /\ \A u \in Threads : u # t => kick'[u] = kick[u]
  <2>1. kick[t].rank = 0
    BY <1>5 DEF KickInv
  <2>2. kick'[t] = [kick[t] EXCEPT !.pc = "send", !.arg = consensus[p]]
    BY <1>6 DEF TypeOK
  <2>. QED BY <1>1, <1>2, <1>6, <1>7, <2>1, <2>2 DEF TypeOK, Kicks
<1>11. TypeOK'
  <2>1. count' \in [Phases -> 0 .. N] /\ consensus' \in [Phases -> Arg]
    BY <1>2, <1>6, <1>8 DEF TypeOK
  <2>2. kick' \in [Threads -> Kicks]
    BY <1>6, <1>10 DEF TypeOK
  <2>3. closed' \in Nat
    BY <1>1, <1>6
  <2>4. pf' \in BOOLEAN
    BY <1>6
  <2>. QED BY <1>6, <2>1, <2>2, <2>3, <2>4 DEF TypeOK
<1>12. Arrived' = {} /\ ArrivedArgs' = {}
  BY <1>1, <1>4, <1>6 DEF Arrived, ArrivedArgs
<1>13. /\ count'[p] = 0 /\ count'[closed % 2] = 0
       /\ consensus'[p].flags = {"ANONYMOUS"}
       /\ consensus'[closed % 2].flags = {"ANONYMOUS"}
       /\ consensus'[closed % 2] \in Arg
  BY <1>1, <1>2, <1>6, <1>8 DEF TypeOK, CountInv, ConsensusInv
<1>14. CountInv' /\ ConsensusInv'
  BY <1>9, <1>12, <1>13, FS_EmptySet, ResetSummarises DEF CountInv, ConsensusInv
<1>15. WindowInv'
  BY <1>1, <1>4, <1>5, <1>6 DEF WindowInv, InBarrier, NotifyInFlight
<1>16. NotifyInv' /\ DoneInv' /\ ResponseInv'
  BY <1>5, <1>6 DEF NotifyInv, DoneInv, ResponseInv
<1>17. KickInv'
  <2>1. \A r \in Ranks : /\ Pending(r)' /\ ~DoneInFlight(r)'
                         /\ ~response_done'[r][closed' % 2]
    BY <1>1, <1>4, <1>5, <1>6, <1>9, <1>2 DEF Pending, DoneInFlight
  <2>2. 0 \in Ranks
    BY DEF Ranks
  <2>3. \A u \in Threads : u # t => kick'[u].pc # "send" /\ kick'[u].rank = 0
    BY <1>5, <1>10 DEF KickInv
  <2>. QED BY <1>7, <1>9, <1>10, <2>1, <2>2, <2>3 DEF KickInv
<1>. QED BY <1>11, <1>14, <1>15, <1>16, <1>17

\* One done message of a broadcast: to be sent becomes in flight.
LEMMA KickSendStep ==
  ASSUME Inv, NEW t \in Threads, KickSend(t)
  PROVE  Inv'
<1> USE DEF Inv, IndInv
<1> DEFINE k == kick[t]
           p == closed % 2
           m == DoneMsg(k.rank, p, k.arg, closed)
<1>1. /\ k \in Kicks /\ k.pc = "send" /\ closed \in Nat
      /\ k.phase = p /\ k.rank \in Ranks /\ k.arg \in Arg
      /\ Summarises(k.arg, ArgsOf(closed))
      /\ \A r \in Ranks : k.rank <= r => /\ Pending(r) /\ ~DoneInFlight(r)
                                        /\ ~response_done[r][p]
  BY DEF TypeOK, KickSend, KickInv, Kicks
<1>2. p \in Phases
  BY <1>1, Parity
<1>3. /\ net' = net \cup {m}
      /\ kick' = [kick EXCEPT ![t] = IF LastRank(k.rank) THEN NotKicking
                                     ELSE [k EXCEPT !.rank = @ + 1]]
      /\ UNCHANGED <<client, phase, response_done, response, count, consensus,
                     pf, closed, epoch, completed, args, outcome>>
  BY <1>1 DEF KickSend, specVars
<1>4. /\ m \in Messages /\ m.type = "done" /\ m.rank = k.rank /\ m.phase = p
      /\ m.arg = k.arg /\ m.epoch = closed
  BY <1>1, <1>2 DEF DoneMsg, Messages
<1>5. \A u \in Threads : u # t => kick'[u] = kick[u] /\ kick[u].pc # "send"
  BY <1>1, <1>3 DEF KickInv, TypeOK
<1>6. \/ kick'[t] = NotKicking
      \/ /\ k.rank + 1 \in Ranks
         /\ kick'[t] = [k EXCEPT !.rank = k.rank + 1]
  BY SMTT(30), <1>1, <1>3 DEF TypeOK, LastRank, Ranks
<1> HIDE DEF k, p, m
<1>7. kick'[t] \in Kicks /\ ( \/ kick'[t].pc = "out" /\ kick'[t].rank = 0
                            \/ /\ k.rank + 1 \in Ranks
                               /\ kick'[t].rank = k.rank + 1
                               /\ kick'[t].phase = k.phase
                               /\ kick'[t].arg = k.arg
                               /\ kick'[t].pc = "send" )
  <2>1. CASE kick'[t] = NotKicking
    BY <2>1, FreshArg DEF NotKicking
  <2>2. CASE /\ k.rank + 1 \in Ranks
             /\ kick'[t] = [k EXCEPT !.rank = k.rank + 1]
    BY <1>1, <2>2 DEF Kicks, Ranks
  <2>. QED BY <1>6, <2>1, <2>2
<1>8. TypeOK'
  <2>1. kick' \in [Threads -> Kicks]
    BY <1>3, <1>7, <1>5 DEF TypeOK
  <2>. QED BY <1>3, <1>4, <2>1 DEF TypeOK
<1>9. \A q \in Ranks : /\ NotifyInFlight(q)' <=> NotifyInFlight(q)
                       /\ q # k.rank => (DoneInFlight(q)' <=> DoneInFlight(q))
                       /\ Pending(q)' <=> Pending(q)
  BY <1>3, <1>4 DEF NotifyInFlight, DoneInFlight, Pending
<1>10. /\ Arrived' = Arrived /\ ArrivedArgs' = ArrivedArgs
       /\ ArgsOf(closed)' = ArgsOf(closed)
  BY <1>3, <1>9 DEF Arrived, ArrivedArgs, ArgsOf, InBarrier
<1>11. WindowInv' /\ CountInv' /\ ConsensusInv' /\ ResponseInv'
  BY <1>3, <1>9, <1>10 DEF WindowInv, CountInv, ConsensusInv, ResponseInv
<1>12. NotifyInv'
  BY <1>3, <1>4 DEF NotifyInv, InBarrier
<1>13. KickInv'
  <2>1. \A r \in Ranks : k.rank + 1 <= r =>
          /\ Pending(r)' /\ ~DoneInFlight(r)' /\ ~response_done'[r][closed' % 2]
    BY <1>1, <1>3, <1>9 DEF p, Ranks
  <2>. QED BY <1>1, <1>3, <1>5, <1>7, <1>10, <2>1 DEF KickInv, p
<1>14. DoneInv'
  <2>1. ~DoneInFlight(k.rank) /\ Pending(k.rank) /\ ~response_done[k.rank][p]
    BY <1>1 DEF Ranks
  <2>2. \A n \in net : n.type = "done" => n.rank # k.rank /\ n.rank \in Ranks
    BY <2>1 DEF DoneInFlight, TypeOK, Messages
  <2>. QED BY <1>1, <1>3, <1>4, <1>9, <1>10, <2>1, <2>2 DEF DoneInv, p
<1>. QED BY <1>8, <1>11, <1>12, <1>13, <1>14

\* Leaving the barrier: also a step of the abstract barrier.
LEMMA LeaveStep ==
  ASSUME Inv, NEW r \in Ranks, Leave(r)
  PROVE  Inv' /\ SpecWait(r)
<1> USE DEF Inv, IndInv
<1> DEFINE p == closed % 2
           acc == response[r][p]
<1>1. /\ closed \in Nat /\ Pending(r) /\ phase[r] = p /\ response_done[r][p]
      /\ Summarises(acc, ArgsOf(closed))
  BY DEF Leave, ResponseDone, ResponseInv, TypeOK
<1>2. epoch[r] = closed /\ completed[r] + 1 = closed /\ completed[r] \in Nat
  BY <1>1 DEF Pending, TypeOK
<1>3. p \in Phases /\ acc \in Arg /\ ArgsOf(closed) \in SUBSET Arg
  BY <1>1, Parity DEF TypeOK, ArgsOf
<1>4. PICK w \in WaitArgs : outcome' = [outcome EXCEPT ![r] = Outcome(acc, w)]
  BY <1>1 DEF Leave
<1>5. Outcome(acc, w) \in Outcomes
      /\ Promised(Outcome(acc, w), w, ArgsOf(closed))
  BY <1>1, <1>3, <1>4, OutcomePromised DEF Promised
<1>6. /\ client' = [client EXCEPT ![r] = "outside"]
      /\ response_done' = [response_done EXCEPT ![r][p] = FALSE]
      /\ completed' = [completed EXCEPT ![r] = @ + 1]
      /\ UNCHANGED <<phase, response, count, consensus, pf, kick, net, closed,
                     epoch, args>>
  BY <1>1 DEF Leave
<1>7. SpecWait(r)
  <2>1. \A q \in Ranks : epoch[r] <= epoch[q]
    BY <1>1, <1>2 DEF WindowInv
  <2>2. \E v \in WaitArgs, o \in Outcomes :
          /\ Promised(o, v, ArgsOf(epoch[r]))
          /\ outcome' = [outcome EXCEPT ![r] = o]
    <3>. USE <1>5
    <3>. WITNESS w \in WaitArgs, Outcome(acc, w) \in Outcomes
    <3>. QED BY <1>2, <1>4, <1>5
  <2>. QED BY <1>2, <1>6, <2>1, <2>2 DEF SpecWait
<1> HIDE DEF p, acc
<1>8. TypeOK'
  <2>1. outcome' \in [Ranks -> Outcomes \cup {NoOutcome}]
    BY <1>4, <1>5 DEF TypeOK
  <2>2. response_done' \in [Ranks -> [Phases -> BOOLEAN]]
    BY <1>3, <1>6 DEF TypeOK
  <2>. QED BY <1>6, <2>1, <2>2 DEF TypeOK
<1>9. /\ \A q \in Ranks, i \in Phases : q # r \/ i # p =>
           response_done'[q][i] = response_done[q][i]
      /\ ~response_done'[r][p] /\ client'[r] = "outside"
      /\ completed'[r] = closed
      /\ \A q \in Ranks : q # r => /\ client'[q] = client[q]
                                 /\ completed'[q] = completed[q]
  BY <1>2, <1>3, <1>6 DEF TypeOK
<1>10. \A q \in Ranks : /\ q # r => (Pending(q)' <=> Pending(q))
                        /\ DoneInFlight(q)' <=> DoneInFlight(q)
                        /\ NotifyInFlight(q)' <=> NotifyInFlight(q)
  BY <1>6, <1>9 DEF Pending, DoneInFlight, NotifyInFlight
<1>11. /\ Arrived' = Arrived /\ ArrivedArgs' = ArrivedArgs
       /\ ArgsOf(closed)' = ArgsOf(closed)
  BY <1>1, <1>2, <1>6, <1>9, <1>10 DEF Arrived, ArrivedArgs, ArgsOf, InBarrier
<1>12. WindowInv'
  <2> SUFFICES ASSUME NEW q \in Ranks PROVE WindowInv!(q)'
    BY DEF WindowInv
  <2>1. CASE q = r
    BY <1>1, <1>2, <1>6, <1>9, <2>1 DEF WindowInv
  <2>2. CASE q # r
    BY <1>6, <1>9, <1>10, <2>2 DEF WindowInv
  <2>. QED BY <2>1, <2>2
<1>13. NotifyInv'
  <2>1. \A n \in net : n.type = "notify" => n.rank # r /\ n.rank \in Ranks
    BY <1>1, <1>2 DEF NotifyInv, TypeOK, Messages
  <2>. QED BY <1>6, <1>9, <2>1 DEF NotifyInv, InBarrier
<1>14. CountInv' /\ ConsensusInv'
  BY <1>6, <1>11 DEF CountInv, ConsensusInv
<1>15. KickInv'
  <2>1. \A t \in Threads : kick[t].pc = "send" => ~(kick[t].rank <= r)
    BY <1>1 DEF KickInv, p
  <2>. QED BY <1>3, <1>6, <1>9, <1>10, <1>11, <2>1 DEF KickInv, p
<1>16. DoneInv'
  <2>1. \A n \in net : n.type = "done" => n.rank # r /\ n.rank \in Ranks
    BY <1>1 DEF DoneInv, TypeOK, Messages, p
  <2>. QED BY <1>3, <1>6, <1>9, <1>10, <1>11, <2>1 DEF DoneInv, p
<1>17. ResponseInv'
  BY <1>1, <1>3, <1>6, <1>9, <1>10, <1>11 DEF ResponseInv, p
<1>. QED BY <1>7, <1>8, <1>12, <1>13, <1>14, <1>15, <1>16, <1>17

\* The steps that only move a kick along.
LEMMA QuietKickStep ==
  ASSUME Inv, NEW t \in Threads,
         \/ KickCall(t) \/ KickEnter(t)
         \/ KickLocked(t) /\ ~Full(kick[t].phase)
  PROVE  Inv' /\ UNCHANGED specVars
<1> USE DEF specVars
<1>1. kick[t] \in Kicks /\ kick[t].pc # "send"
  BY DEF KickCall, KickEnter, KickLocked, Inv, TypeOK
<1>2. kick[t].rank = 0
  BY <1>1 DEF Inv, IndInv, KickInv
<1>3. UNCHANGED <<client, phase, response_done, response, count, consensus,
                  pf, net, closed, specVars>>
  BY DEF KickCall, KickEnter, KickLocked
<1>4. PICK k \in Kicks : /\ kick' = [kick EXCEPT ![t] = k]
                        /\ k.pc # "send" /\ k.rank = 0
  <2>1. CASE KickCall(t)
    <3>1. [kick[t] EXCEPT !.pc = "enter"] \in Kicks
      BY <1>1 DEF Kicks
    <3>. QED BY <1>1, <1>2, <2>1, <3>1 DEF KickCall, Inv, TypeOK, Kicks
  <2>2. CASE KickEnter(t)
    <3>1. phase[Leader] \in Phases
      BY DEF Inv, TypeOK, Leader, Ranks
    <3>2. [NotKicking EXCEPT !.pc = "lock", !.phase = phase[Leader]] \in Kicks
      BY <3>1, FreshArg DEF Kicks, NotKicking
    <3>. QED BY <2>2, <3>1, <3>2, FreshArg DEF KickEnter, NotKicking
  <2>3. CASE KickLocked(t) /\ ~Full(kick[t].phase)
    BY <2>3, FreshArg DEF KickLocked, NotKicking
  <2>. QED BY <2>1, <2>2, <2>3
<1>5. TypeOK'
  BY <1>3, <1>4 DEF Inv, TypeOK
<1>. QED BY <1>1, <1>3, <1>4, <1>5, QuietStep DEF InBarrier, Inv, TypeOK

\* The steps that only move a client along.
LEMMA QuietCallStep ==
  ASSUME Inv, NEW r \in Ranks, Wait(r) \/ TryFail(r) \/ Try(r)
  PROVE  Inv' /\ UNCHANGED specVars
<1> USE DEF specVars
<1>1. /\ UNCHANGED <<phase, response_done, response, count, consensus,
                     net, closed, specVars>>
      /\ InBarrier(r)
      /\ \E c \in {"inside", "waiting", "trying"} :
           client' = [client EXCEPT ![r] = c]
  BY DEF Wait, Try, TryFail, InBarrier
<1>2. pf' \in BOOLEAN
  BY DEF Wait, Try, TryFail, PfDisable, Inv, TypeOK
<1>3. Main \in Threads /\ kick[Main] \in Kicks
  BY DEF Threads, Inv, TypeOK
<1>4. \/ kick' = kick
      \/ /\ kick[Main].pc = "out"
         /\ kick' = [kick EXCEPT ![Main] = [@ EXCEPT !.pc = "enter"]]
  BY DEF Wait, Try, TryFail, MainFree
<1>5. [kick[Main] EXCEPT !.pc = "enter"] \in Kicks
      /\ [kick[Main] EXCEPT !.pc = "enter"].rank = kick[Main].rank
      /\ [kick[Main] EXCEPT !.pc = "enter"].pc = "enter"
  BY <1>3 DEF Kicks
<1>a. kick' \in [Threads -> Kicks]
  BY <1>3, <1>4, <1>5 DEF Inv, TypeOK
<1>b. client' \in [Ranks -> {"outside", "sending", "inside", "waiting", "trying"}]
  BY <1>1 DEF Inv, TypeOK
<1>6. TypeOK'
  BY <1>1, <1>2, <1>a, <1>b DEF Inv, TypeOK
<1>7. \A t \in Threads : \/ kick'[t].pc # "send" /\ kick[t].pc # "send"
                           /\ kick'[t].rank = 0
                        \/ kick'[t] = kick[t]
  BY <1>3, <1>4, <1>5 DEF Inv, IndInv, KickInv, TypeOK
<1>. QED BY <1>1, <1>6, <1>7, QuietStep DEF InBarrier, Inv, TypeOK

\* Where nothing changes the invariant stays.
LEMMA StutteringStep ==
  ASSUME Inv, UNCHANGED vars
  PROVE  Inv' /\ UNCHANGED specVars
BY QuietStep DEF vars, amcVars, specVars, Inv, TypeOK, InBarrier

\* Every step preserves the invariant and is a step of the abstract barrier
\* or leaves its variables alone.
LEMMA NextStep ==
  ASSUME Inv, [Next]_vars
  PROVE  Inv' /\ [SpecNext]_specVars
<1>1. ASSUME NEW m \in net, NotifyReqh(m) \/ DoneReqh(m)
      PROVE  Inv' /\ [SpecNext]_specVars
  BY <1>1, NotifyReqhStep, DoneReqhStep DEF NotifyReqh, DoneReqh, specVars
<1>2. ASSUME NEW t \in Threads, Kick(t)
      PROVE  Inv' /\ [SpecNext]_specVars
  <2>1. CASE KickLocked(t) /\ Full(kick[t].phase)
    BY <2>1, KickLockedStep DEF KickLocked, specVars
  <2>2. CASE KickSend(t)
    BY <2>2, KickSendStep DEF KickSend, specVars
  <2>3. CASE \/ KickCall(t) \/ KickEnter(t)
             \/ KickLocked(t) /\ ~Full(kick[t].phase)
    BY <2>3, QuietKickStep
  <2>. QED BY <1>2, <2>1, <2>2, <2>3 DEF Kick
<1>3. ASSUME NEW r \in Ranks, Call(r)
      PROVE  Inv' /\ [SpecNext]_specVars
  <2>1. CASE Notify(r)
    <3>1. SpecNotify(r)
      BY <2>1 DEF Notify
    <3>. QED BY <2>1, <3>1, NotifyStep DEF SpecNext
  <2>2. CASE Send(r)
    BY <2>2, SendStep DEF Send, specVars
  <2>3. CASE Leave(r)
    BY <2>3, LeaveStep DEF SpecNext
  <2>4. CASE Wait(r) \/ Try(r) \/ TryFail(r)
    BY <2>4, QuietCallStep
  <2>. QED BY <1>3, <2>1, <2>2, <2>3, <2>4 DEF Call
<1>4. CASE UNCHANGED vars
  BY <1>4, StutteringStep
<1>. QED BY <1>1, <1>2, <1>3, <1>4 DEF Next, Deliver, Terminated

-----------------------------------------------------------------------------
\* The inductive invariant holds in every reachable state, for any number of
\* ranks, leader threads and barriers.
THEOREM Invariance == Spec => []Inv
<1>1. Init => Inv
  BY InitInv
<1>2. Inv /\ [Next]_vars => Inv'
  BY NextStep
<1>. QED BY <1>1, <1>2, PTL DEF Spec

\* All variables keep their types; in particular the leader never counts
\* more than N notifications and never broadcasts beyond rank N - 1.
THEOREM TypeCorrectness == Spec => []TypeOK
BY Invariance, PTL DEF Inv

\* No rank leaves a barrier that some rank has not notified.
THEOREM BarrierSafety == Spec => []BarrierSafe
<1>1. TypeOK /\ IndInv => BarrierSafe
  <2> SUFFICES ASSUME TypeOK, IndInv, NEW r \in Ranks, NEW q \in Ranks
               PROVE  completed[r] <= epoch[q]
    BY DEF BarrierSafe
  <2>1. completed[r] <= closed /\ epoch[q] \in {closed, closed + 1}
    BY DEF IndInv, WindowInv
  <2>. QED BY <2>1 DEF TypeOK
<1>. QED BY <1>1, Invariance, PTL DEF Inv

\* The assertion of done_reqh holds, and a response is never overwritten.
THEOREM DoneSafety == Spec => []DoneFindsItsBarrier
<1>1. TypeOK /\ IndInv => DoneFindsItsBarrier
  <2> SUFFICES ASSUME TypeOK, IndInv, NEW m \in net, m.type = "done"
               PROVE  /\ m.phase = phase[m.rank]
                      /\ m.epoch = epoch[m.rank]
                      /\ completed[m.rank] < epoch[m.rank]
                      /\ \A p \in Phases : ~response_done[m.rank][p]
    BY DEF DoneFindsItsBarrier
  <2>1. m.rank \in Ranks /\ closed \in Nat /\ completed[m.rank] \in Nat
    BY DEF TypeOK, Messages
  <2>2. /\ m.phase = closed % 2 /\ m.epoch = closed /\ Pending(m.rank)
        /\ ~response_done[m.rank][closed % 2]
    BY DEF IndInv, DoneInv
  <2>3. phase[m.rank] = epoch[m.rank] % 2
    BY <2>1 DEF IndInv, WindowInv
  <2>. QED BY <2>1, <2>2, <2>3 DEF IndInv, ResponseInv, Pending
<1>. QED BY <1>1, Invariance, PTL DEF Inv

\* The central barrier implements the abstract barrier: every wait returns
\* the verdict that the notifications of all ranks imply, after all of them.
THEOREM Refinement == Spec => ImplementsBarrier
<1>1. Init => SpecInit
  BY DEF Init
<1>2. Inv /\ [Next]_vars => [SpecNext]_specVars
  BY NextStep
<1>. QED BY <1>1, <1>2, Invariance, PTL DEF Spec, SpecSpec, ImplementsBarrier, Inv
=============================================================================
