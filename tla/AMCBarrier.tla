----------------------------- MODULE AMCBarrier -----------------------------
(***************************************************************************)
(* The centralized Active-Message barrier (GASNET_BARRIER=AMCENTRAL) of    *)
(* src/extended-ref/gasnet_extended_refbarrier.c.                          *)
(*                                                                         *)
(* Every rank sends its notification to the leader (rank 0), which counts  *)
(* them.  Whichever leader thread notices that the count is full takes the *)
(* consensus, resets the leader's state and broadcasts the outcome.  The   *)
(* threads of the leader that can notice are the one that entered the      *)
(* barrier (Main: inside wait or try, or polling while the barrier's       *)
(* progress function is enabled) and Pollers, other threads that run the   *)
(* progress function from a poll.                                          *)
(*                                                                         *)
(* The variables of BarrierSpec are history variables here, and so is      *)
(* closed: they record what happened, and the only guard that reads them   *)
(* is MaxEpoch's bound on the number of barriers.                          *)
(***************************************************************************)
EXTENDS BarrierSpec, FiniteSets

CONSTANTS Pollers,      \* leader threads other than the one in the barrier
          TeamAll       \* the team is GASNET_TEAM_ALL: it has a progress fn

Main    == "main"
Threads == {Main} \cup Pollers
Leader  == 0

ASSUME ThreadsAssumption == Main \notin Pollers /\ TeamAll \in BOOLEAN

VARIABLES
  client,         \* client[r]: where rank r is between barrier calls
  phase,          \* amcbarrier_phase
  response_done,  \* amcbarrier_response_done
  response,       \* amcbarrier_response_{flags,value}
  count,          \* amcbarrier_count, on the leader
  consensus,      \* amcbarrier_consensus_{flags,value}, on the leader
  pf,             \* the leader's progress function is enabled
  kick,           \* kick[t]: leader thread t's activation of _kick
  net,            \* Active Messages in flight: reliable, unordered
  closed          \* how many barriers have had their consensus taken

amcVars == <<client, phase, response_done, response, count, consensus,
             pf, kick, net, closed>>
vars == <<amcVars, specVars>>

Phases == {0, 1}

\* A thread outside gasnete_amcbarrier_kick.
NotKicking == [pc |-> "out", phase |-> 0, rank |-> 0, arg |-> Fresh]

Kicks == [pc : {"out", "enter", "lock", "send"}, phase : Phases,
          rank : 0 .. N, arg : Arg]

\* The epoch of a message is history: it tells apart the notifications of
\* one rank, which the network delivers exactly once each.
NotifyMsg(r, p, a, e) ==
  [type |-> "notify", rank |-> r, phase |-> p, arg |-> a, epoch |-> e]
DoneMsg(r, p, a, e) ==
  [type |-> "done", rank |-> r, phase |-> p, arg |-> a, epoch |-> e]
Messages == [type : {"notify", "done"}, rank : Ranks, phase : Phases,
             arg : Arg, epoch : Nat]

-----------------------------------------------------------------------------
\* gasnete_amcbarrier_init
Init ==
  /\ SpecInit
  /\ client = [r \in Ranks |-> "outside"]
  /\ phase = [r \in Ranks |-> 0]
  /\ response_done = [r \in Ranks |-> [p \in Phases |-> FALSE]]
  /\ response = [r \in Ranks |-> [p \in Phases |-> [flags |-> {}, value |-> 0]]]
  /\ count = [p \in Phases |-> 0]
  /\ consensus = [p \in Phases |-> Fresh]
  /\ pf = FALSE
  /\ kick = [t \in Threads |-> NotKicking]
  /\ net = {}
  /\ closed = 0

\* gasnete_barrier_pf_enable/disable: a team without a progress function
\* ignores both, and only the leader enables its own.
HasPF == TeamAll /\ N > 1

PfEnable(r)  == pf' = IF r = Leader THEN HasPF ELSE pf
PfDisable(r) == pf' = IF r = Leader THEN FALSE ELSE pf

ResponseDone(r) == response_done[r][phase[r]]

\* The main thread of rank r is not inside a nested _kick.
MainFree(r) == r = Leader => kick[Main].pc = "out"

-----------------------------------------------------------------------------
(***************************************************************************)
(* gasnete_amcbarrier_notify: flip the phase, then (send) tell the leader. *)
(* The leader's AM request can poll in between, so these are two steps.    *)
(***************************************************************************)
Notify(r) ==
  /\ client[r] = "outside" /\ MainFree(r)
  /\ client' = [client EXCEPT ![r] = "sending"]
  /\ phase' = [phase EXCEPT ![r] = 1 - @]
  /\ SpecNotify(r)
  /\ UNCHANGED <<response_done, response, count, consensus, pf, kick, net, closed>>

Send(r) ==
  /\ client[r] = "sending" /\ MainFree(r)
  /\ client' = [client EXCEPT ![r] = "inside"]
  /\ LET arg == args[r][epoch[r] % 2] IN
       IF N = 1
         THEN /\ response' = [response EXCEPT ![r][phase[r]] = arg]
              /\ response_done' = [response_done EXCEPT ![r][phase[r]] = TRUE]
              /\ closed' = epoch[r]
              /\ UNCHANGED net
         ELSE /\ net' = net \cup {NotifyMsg(r, phase[r], arg, epoch[r])}
              /\ UNCHANGED <<response, response_done, closed>>
  /\ PfEnable(r)
  /\ UNCHANGED <<phase, count, consensus, kick, specVars>>

\* gasnete_amcbarrier_notify_reqh, on the leader, under amcbarrier_lock.
NotifyReqh(m) ==
  /\ m.type = "notify"
  /\ net' = net \ {m}
  /\ consensus' = [consensus EXCEPT ![m.phase] = Merge(@, m.arg)]
  /\ count' = [count EXCEPT ![m.phase] = @ + 1]
  /\ UNCHANGED <<client, phase, response_done, response, pf, kick, closed,
                 specVars>>

\* gasnete_amcbarrier_done_reqh, on rank m.rank.
DoneReqh(m) ==
  /\ m.type = "done"
  /\ net' = net \ {m}
  /\ response' = [response EXCEPT ![m.rank][m.phase] = m.arg]
  /\ response_done' = [response_done EXCEPT ![m.rank][m.phase] = TRUE]
  /\ UNCHANGED <<client, phase, count, consensus, pf, kick, closed,
                 specVars>>

-----------------------------------------------------------------------------
(***************************************************************************)
(* gasnete_amcbarrier_kick, on thread t of the leader.                     *)
(***************************************************************************)
\* Who may call it: a thread that polls while the progress function is
\* enabled, and the main thread from the loop of wait (from try: see Try).
\* The enabled flag may be stale by the time the thread takes its next step.
KickCall(t) ==
  /\ kick[t].pc = "out"
  /\ IF t = Main /\ client[Leader] \in {"waiting", "trying"}
       THEN client[Leader] = "waiting" /\ ~ResponseDone(Leader)
       ELSE pf
  /\ kick' = [kick EXCEPT ![t].pc = "enter"]
  /\ UNCHANGED <<client, phase, response_done, response, count, consensus,
                 pf, net, closed, specVars>>

\* Mutations of Full and LastRank: off by one.
FullEarly(p) == count[p] = N - 1
LastRankLate(i) == i = N

\* All ranks have notified the barrier of phase p.
Full(p) == count[p] = N

\* The broadcast loop ends after rank i.
LastRank(i) == i + 1 = N

\* Mutation of KickEnter: the count of the other phase.
KickEnterOtherPhase(t) ==
  /\ kick[t].pc = "enter"
  /\ kick' = [kick EXCEPT ![t] =
       IF Full(1 - phase[Leader])
         THEN [NotKicking EXCEPT !.pc = "lock", !.phase = phase[Leader]]
         ELSE NotKicking]
  /\ UNCHANGED <<client, phase, response_done, response, count, consensus,
                 pf, net, closed, specVars>>

\* Read the phase and, without the lock, the count of that phase.
KickEnter(t) ==
  /\ kick[t].pc = "enter"
  /\ kick' = [kick EXCEPT ![t] =
       IF Full(phase[Leader])
         THEN [NotKicking EXCEPT !.pc = "lock", !.phase = phase[Leader]]
         ELSE NotKicking]
  /\ UNCHANGED <<client, phase, response_done, response, count, consensus,
                 pf, net, closed, specVars>>

\* Mutation of KickLocked: trust the look at the count without the lock.
KickLockedUnchecked(t) ==
  LET p == kick[t].phase IN
  /\ kick[t].pc = "lock"
  /\ kick' = [kick EXCEPT ![t].pc = "send", ![t].arg = consensus[p]]
  /\ count' = [count EXCEPT ![p] = 0]
  /\ consensus' = [consensus EXCEPT ![p] = Reset(@)]
  /\ PfDisable(Leader)
  /\ closed' = closed + 1
  /\ UNCHANGED <<client, phase, response_done, response, net, specVars>>

\* Under the lock: look again, take the consensus, reset count and flags.
\* The progress function is disabled after the unlock, but nothing observes
\* the difference before the broadcast starts.
KickLocked(t) ==
  LET p == kick[t].phase IN
  /\ kick[t].pc = "lock"
  /\ IF Full(p)
       THEN /\ kick' = [kick EXCEPT ![t].pc = "send", ![t].arg = consensus[p]]
            /\ count' = [count EXCEPT ![p] = 0]
            /\ consensus' = [consensus EXCEPT ![p] = Reset(@)]
            /\ PfDisable(Leader)
            /\ closed' = closed + 1
       ELSE /\ kick' = [kick EXCEPT ![t] = NotKicking]
            /\ UNCHANGED <<count, consensus, pf, closed>>
  /\ UNCHANGED <<client, phase, response_done, response, net, specVars>>

\* Broadcast, one rank after another; other steps interleave.
KickSend(t) ==
  LET k == kick[t] IN
  /\ k.pc = "send"
  /\ net' = net \cup {DoneMsg(k.rank, k.phase, k.arg, closed)}
  /\ kick' = [kick EXCEPT ![t] =
       IF LastRank(k.rank) THEN NotKicking ELSE [k EXCEPT !.rank = @ + 1]]
  /\ UNCHANGED <<client, phase, response_done, response, count, consensus,
                 pf, closed, specVars>>

-----------------------------------------------------------------------------
(***************************************************************************)
(* gasnete_amcbarrier_wait and gasnete_amcbarrier_try.                     *)
(***************************************************************************)
\* Entering wait: unless the barrier is already over, stop the progress
\* function and loop over kick instead.
Wait(r) ==
  /\ client[r] = "inside" /\ MainFree(r)
  /\ client' = [client EXCEPT ![r] = "waiting"]
  /\ IF ResponseDone(r) THEN UNCHANGED pf ELSE PfDisable(r)
  /\ UNCHANGED <<phase, response_done, response, count, consensus, kick, net,
                 closed, specVars>>

\* Entering try: one kick (a no-op except on the leader), then look.
Try(r) ==
  /\ client[r] = "inside" /\ MainFree(r)
  /\ client' = [client EXCEPT ![r] = "trying"]
  /\ kick' = IF r = Leader THEN [kick EXCEPT ![Main].pc = "enter"] ELSE kick
  /\ UNCHANGED <<phase, response_done, response, count, consensus, pf, net,
                 closed, specVars>>

\* GASNET_ERR_NOT_READY.
TryFail(r) ==
  /\ client[r] = "trying" /\ MainFree(r)
  /\ ~ResponseDone(r)
  /\ client' = [client EXCEPT ![r] = "inside"]
  /\ UNCHANGED <<phase, response_done, response, count, consensus, pf, kick,
                 net, closed, specVars>>

\* The end of wait, also reached from a try that finds the response.
Leave(r) ==
  /\ client[r] \in {"waiting", "trying"} /\ MainFree(r)
  /\ ResponseDone(r)
  /\ client' = [client EXCEPT ![r] = "outside"]
  /\ response_done' = [response_done EXCEPT ![r][phase[r]] = FALSE]
  /\ completed' = [completed EXCEPT ![r] = @ + 1]
  /\ \E w \in WaitArgs :
       outcome' = [outcome EXCEPT ![r] = Outcome(response[r][phase[r]], w)]
  /\ UNCHANGED <<phase, response, count, consensus, pf, kick, net, closed,
                 epoch, args>>

-----------------------------------------------------------------------------
Deliver == \E m \in net : NotifyReqh(m) \/ DoneReqh(m)

Kick(t) == KickCall(t) \/ KickEnter(t) \/ KickLocked(t) \/ KickSend(t)

Call(r) == Notify(r) \/ Send(r) \/ Wait(r) \/ Try(r) \/ TryFail(r) \/ Leave(r)

\* All barriers are over and nothing is left to do.
Terminated ==
  /\ \A r \in Ranks : client[r] = "outside" /\ epoch[r] = MaxEpoch
  /\ net = {}
  /\ \A t \in Threads : kick[t].pc = "out"
  /\ UNCHANGED vars

Next ==
  \/ Deliver
  \/ \E t \in Threads : Kick(t)
  \/ \E r \in Ranks : Call(r)
  \/ Terminated

Spec == Init /\ [][Next]_vars

(***************************************************************************)
(* Fairness.  The network delivers what it carries; a thread that has      *)
(* started a kick is scheduled until it is done, and a thread that loops   *)
(* in wait keeps kicking; a client that notified eventually calls wait or  *)
(* try, however often it polls before.  Nothing is assumed about a client  *)
(* that has not notified, nor about a poller outside kick.                 *)
(***************************************************************************)
Fairness ==
  /\ WF_vars(Deliver)
  /\ \A t \in Threads : WF_vars(KickEnter(t) \/ KickLocked(t) \/ KickSend(t))
  /\ WF_vars(KickCall(Main))
  /\ \A r \in Ranks :
       /\ SF_vars(Send(r))
       /\ SF_vars(Wait(r) \/ Try(r))
       /\ WF_vars(TryFail(r))
       /\ WF_vars(Leave(r))

FairSpec == Spec /\ Fairness

-----------------------------------------------------------------------------
(***************************************************************************)
(* Properties.                                                             *)
(***************************************************************************)
TypeOK ==
  /\ client \in [Ranks -> {"outside", "sending", "inside", "waiting", "trying"}]
  /\ phase \in [Ranks -> Phases]
  /\ response_done \in [Ranks -> [Phases -> BOOLEAN]]
  /\ response \in [Ranks -> [Phases -> Arg]]
  /\ count \in [Phases -> 0 .. N]
  /\ consensus \in [Phases -> Arg]
  /\ pf \in BOOLEAN
  /\ kick \in [Threads -> Kicks]
  /\ net \subseteq Messages
  /\ closed \in Nat
  /\ epoch \in [Ranks -> Nat]
  /\ completed \in [Ranks -> Nat]
  /\ args \in [Ranks -> [Phases -> Arg]]
  /\ outcome \in [Ranks -> Outcomes \cup {NoOutcome}]

\* The assertion at the top of done_reqh, phase == amcbarrier_phase, and
\* what it protects: a done message finds its rank inside the barrier it
\* belongs to, and never overwrites a response that wait has not consumed.
DoneFindsItsBarrier ==
  \A m \in net : m.type = "done" =>
    /\ m.phase = phase[m.rank]
    /\ m.epoch = epoch[m.rank] /\ completed[m.rank] < epoch[m.rank]
    /\ \A p \in Phases : ~response_done[m.rank][p]

\* The central barrier implements the abstract barrier, with its own epoch,
\* completed, args and outcome: a wait that leaves before every rank has
\* notified, or with another verdict or barrier_result than the arguments
\* of all ranks imply, is not a step of BarrierSpec.
ImplementsBarrier == SpecSpec

-----------------------------------------------------------------------------
(***************************************************************************)
(* The inductive invariant.  closed is the barrier whose consensus was     *)
(* taken last: everyone is in or around that barrier or the next one.      *)
(***************************************************************************)
InBarrier(r) == client[r] \in {"inside", "waiting", "trying"}

NotifyInFlight(r) == \E m \in net : m.type = "notify" /\ m.rank = r
DoneInFlight(r)   == \E m \in net : m.type = "done" /\ m.rank = r

\* The ranks counted for the barrier after closed.
Arrived == {r \in Ranks : /\ epoch[r] = closed + 1
                          /\ InBarrier(r)
                          /\ ~NotifyInFlight(r)}
ArrivedArgs == {args[r][(closed + 1) % 2] : r \in Arrived}

\* Rank r has not left barrier closed.
Pending(r) == epoch[r] = closed /\ completed[r] + 1 = closed

WindowInv ==
  \A r \in Ranks :
    /\ epoch[r] \in {closed, closed + 1}
    /\ completed[r] <= closed /\ closed <= completed[r] + 1
    /\ epoch[r] \in {completed[r], completed[r] + 1}
    /\ client[r] = "outside" <=> epoch[r] = completed[r]
    /\ client[r] = "sending" => epoch[r] = closed + 1 /\ ~NotifyInFlight(r)
    /\ phase[r] = epoch[r] % 2

NotifyInv ==
  \A m \in net : m.type = "notify" =>
    /\ m = NotifyMsg(m.rank, (closed + 1) % 2,
                     args[m.rank][(closed + 1) % 2], closed + 1)
    /\ epoch[m.rank] = closed + 1
    /\ InBarrier(m.rank)

CountInv ==
  /\ count[(closed + 1) % 2] = Cardinality(Arrived)
  /\ count[closed % 2] = 0

ConsensusInv ==
  /\ Summarises(consensus[(closed + 1) % 2], ArrivedArgs)
  /\ consensus[closed % 2].flags = {"ANONYMOUS"}

KickInv ==
  /\ \A t \in Threads :
       IF kick[t].pc = "send"
         THEN /\ kick[t].phase = closed % 2
              /\ kick[t].rank \in Ranks
              /\ Summarises(kick[t].arg, ArgsOf(closed))
              /\ \A r \in Ranks : kick[t].rank <= r =>
                   /\ Pending(r)
                   /\ ~DoneInFlight(r)
                   /\ ~response_done[r][closed % 2]
         ELSE kick[t].rank = 0
  /\ \A t, u \in Threads : kick[t].pc = "send" /\ kick[u].pc = "send" => t = u

DoneInv ==
  /\ \A m \in net : m.type = "done" =>
       /\ m.phase = closed % 2 /\ m.epoch = closed
       /\ Pending(m.rank)
       /\ Summarises(m.arg, ArgsOf(closed))
       /\ ~response_done[m.rank][closed % 2]
  /\ \A m, n \in net :
       m.type = "done" /\ n.type = "done" /\ m.rank = n.rank => m = n

ResponseInv ==
  \A r \in Ranks, p \in Phases : response_done[r][p] =>
    /\ p = closed % 2
    /\ Pending(r)
    /\ Summarises(response[r][p], ArgsOf(closed))

\* Why the central barrier works: at most two barriers are under way, each
\* rank is counted once and answered once per barrier, and what is answered
\* summarises the arguments of all ranks.
IndInv == WindowInv /\ NotifyInv /\ CountInv /\ ConsensusInv /\ KickInv
          /\ DoneInv /\ ResponseInv

\* The inductive invariant.
Inv == TypeOK /\ IndInv
=============================================================================
