----------------------------- MODULE AMDBarrier -----------------------------
(***************************************************************************)
(* The dissemination barrier over Active Messages (GASNET_BARRIER=AMDISSEM *)
(* and the default for sub-teams), src/extended-ref/                       *)
(* gasnet_extended_refbarrier.c, without the shared-memory hierarchy.      *)
(*                                                                         *)
(* At step k rank r sends to rank (r + 2^k) mod N everything it has heard  *)
(* so far and waits for the step-k message from rank (r - 2^k) mod N.      *)
(* Messages are not ordered, so later steps of this barrier and steps of   *)
(* the next one can arrive early; state exists twice, once per phase.      *)
(*                                                                         *)
(* amdbarrier_lock protects the accumulator against handlers and           *)
(* concurrent kicks, but notify and wait work outside it, step_done is set *)
(* outside it, and messages are sent after it is released.  Those are the  *)
(* points where this model lets other threads in.                          *)
(*                                                                         *)
(* The variables of BarrierSpec are history variables.                     *)
(***************************************************************************)
EXTENDS BarrierSpec

CONSTANTS Helped,       \* the ranks with a second thread that polls
          TeamAll       \* the team is GASNET_TEAM_ALL: it has a progress fn

ASSUME HelpedAssumption == Helped \subseteq Ranks /\ TeamAll \in BOOLEAN

\* A thread is <<rank, kind>>; the main thread is the one in the barrier.
Main(r) == <<r, "main">>
Threads == (Ranks \X {"main"}) \cup (Helped \X {"poller"})
RankOf(t) == t[1]

\* ceil(lg(N)) steps, and the peer that each step sends to.
Size == CHOOSE s \in 0 .. N : 2^s >= N /\ \A i \in 0 .. s - 1 : 2^i < N
Peer(r, k) == (r + 2^k) % N
Steps == 0 .. Size - 1

VARIABLES
  client,     \* client[r]: where rank r is between barrier calls
  lock,       \* amdbarrier_lock: the kick that holds it, or Free
  local,      \* amdbarrier_{flags,value}
  step,       \* amdbarrier_step
  phase,      \* amdbarrier_phase
  step_done,  \* amdbarrier_step_done
  recv,       \* amdbarrier_recv_{flags,value}
  pf,         \* the progress function of the rank is enabled
  kick,       \* kick[t]: thread t's activation of _kick
  net,        \* Active Messages in flight: reliable, unordered
  handling    \* messages whose handler has merged but not set step_done

amdVars == <<client, lock, local, step, phase, step_done, recv, pf, kick,
             net, handling>>
vars == <<amdVars, specVars>>

Free   == <<>>
Phases == {0, 1}

NotKicking == [pc |-> "out", step |-> 0, phase |-> 0, numsteps |-> 0,
               arg |-> Fresh, epoch |-> 0]
Kicks == [pc : {"out", "enter", "locked", "send"}, step : 0 .. Size,
          phase : Phases, numsteps : 0 .. Size, arg : Arg, epoch : Nat]

\* The epoch of a message is history: which barrier it belongs to.
Msg(to, p, k, a, e) ==
  [to |-> to, phase |-> p, step |-> k, arg |-> a, epoch |-> e]
Messages == [to : Ranks, phase : Phases, step : Steps, arg : Arg, epoch : Nat]

-----------------------------------------------------------------------------
\* gasnete_amdbarrier_init
Init ==
  /\ SpecInit
  /\ client = [r \in Ranks |-> "outside"]
  /\ lock = [r \in Ranks |-> Free]
  /\ local = [r \in Ranks |-> [flags |-> {}, value |-> 0]]
  /\ step = [r \in Ranks |-> 0]
  /\ phase = [r \in Ranks |-> 0]
  /\ step_done = [r \in Ranks |-> [p \in Phases |-> [k \in Steps |-> FALSE]]]
  /\ recv = [r \in Ranks |-> [p \in Phases |-> Fresh]]
  /\ pf = [r \in Ranks |-> FALSE]
  /\ kick = [t \in Threads |-> NotKicking]
  /\ net = {}
  /\ handling = {}

\* gasnete_barrier_pf_enable/disable
PfEnable(r)  == pf' = [pf EXCEPT ![r] = TeamAll]
PfDisable(r) == pf' = [pf EXCEPT ![r] = FALSE]

\* The main thread of rank r is not inside a nested _kick.
MainFree(r) == kick[Main(r)].pc = "out"

-----------------------------------------------------------------------------
(***************************************************************************)
(* gasnete_amdbarrier_notify: publish the local argument and step 0, then  *)
(* flip the phase, then send step 0, all without the lock.  A team of one  *)
(* rank uses gasnete_amdbarrier_notify_singleton instead: step stays at    *)
(* Size, which is 0, and the argument is the consensus.                    *)
(***************************************************************************)
Notify(r) ==
  /\ client[r] = "outside" /\ MainFree(r)
  /\ SpecNotify(r)
  /\ LET arg == args'[r][epoch'[r] % 2] IN
       /\ local' = [local EXCEPT ![r] = arg]
       /\ IF Size = 0
            THEN /\ recv' = [recv EXCEPT ![r][1 - phase[r]] = arg]
                 /\ phase' = [phase EXCEPT ![r] = 1 - @]
                 /\ client' = [client EXCEPT ![r] = "inside"]
            ELSE /\ client' = [client EXCEPT ![r] = "flipping"]
                 /\ UNCHANGED <<recv, phase>>
  /\ step' = [step EXCEPT ![r] = 0]
  /\ UNCHANGED <<lock, step_done, pf, kick, net, handling>>

NotifyFlip(r) ==
  /\ client[r] = "flipping"
  /\ phase' = [phase EXCEPT ![r] = 1 - @]
  /\ client' = [client EXCEPT ![r] = "sending"]
  /\ UNCHANGED <<lock, local, step, step_done, recv, pf, kick, net, handling,
                 specVars>>

\* Reads back its own arguments (id, flags), kept in args.
NotifySend(r) ==
  /\ client[r] = "sending" /\ MainFree(r)
  /\ net' = net \cup
       {Msg(Peer(r, 0), phase[r], 0, args[r][epoch[r] % 2], epoch[r])}
  /\ PfEnable(r)
  /\ client' = [client EXCEPT ![r] = "inside"]
  /\ UNCHANGED <<lock, local, step, phase, step_done, recv, kick, handling,
                 specVars>>

-----------------------------------------------------------------------------
(***************************************************************************)
(* gasnete_amdbarrier_notify_reqh on rank m.to: merge under the lock, then *)
(* set step_done outside it.                                               *)
(***************************************************************************)
NotifyReqh(m) ==
  /\ lock[m.to] = Free
  /\ net' = net \ {m}
  /\ handling' = handling \cup {m}
  /\ recv' = [recv EXCEPT ![m.to][m.phase] = Merge(@, m.arg)]
  /\ UNCHANGED <<client, lock, local, step, phase, step_done, pf, kick,
                 specVars>>

NotifyReqhDone(m) ==
  /\ handling' = handling \ {m}
  /\ step_done' = [step_done EXCEPT ![m.to][m.phase][m.step] = TRUE]
  /\ UNCHANGED <<client, lock, local, step, phase, recv, pf, kick, net,
                 specVars>>

-----------------------------------------------------------------------------
(***************************************************************************)
(* gasnete_amdbarrier_kick on thread t of rank r.                          *)
(***************************************************************************)
\* Mutation of KickCall: wait relies on the progress function it disabled.
KickCallFromPollOnly(t) ==
  LET r == RankOf(t) IN
  /\ kick[t].pc = "out"
  /\ t = Main(r) => client[r] \notin {"trying", "flipping"}
  /\ pf[r]
  /\ kick' = [kick EXCEPT ![t].pc = "enter"]
  /\ UNCHANGED <<client, lock, local, step, phase, step_done, recv, pf, net,
                 handling, specVars>>

\* Called from a poll while the progress function is enabled, and from the
\* loop of wait (from try: see Try).  The enabled flag may be stale by the
\* time the thread takes its next step.
KickCall(t) ==
  LET r == RankOf(t) IN
  /\ kick[t].pc = "out"
  /\ IF t = Main(r) /\ client[r] \in {"waiting", "trying", "flipping"}
       THEN client[r] = "waiting" /\ step[r] # Size
       ELSE pf[r]
  /\ kick' = [kick EXCEPT ![t].pc = "enter"]
  /\ UNCHANGED <<client, lock, local, step, phase, step_done, recv, pf, net,
                 handling, specVars>>

\* Return early when there is nothing to do or another thread holds the
\* lock; otherwise take the lock and read the step.
KickEnter(t) ==
  LET r == RankOf(t) IN
  /\ kick[t].pc = "enter"
  /\ IF step[r] = Size \/ lock[r] # Free
       THEN /\ kick' = [kick EXCEPT ![t] = NotKicking]
            /\ UNCHANGED lock
       ELSE /\ kick' = [kick EXCEPT ![t].pc = "locked", ![t].step = step[r]]
            /\ lock' = [lock EXCEPT ![r] = t]
  /\ UNCHANGED <<client, local, step, phase, step_done, recv, pf, net,
                 handling, specVars>>

\* Mutation of Cursor: a step that arrives early completes the ones before.
CursorAnyOrder(done, k) ==
  CHOOSE c \in k .. Size :
    /\ c = k \/ done[c - 1]
    /\ \A i \in c .. Size - 1 : ~done[i]

\* The steps that have arrived, consecutively from k on.
Cursor(done, k) ==
  CHOOSE c \in k .. Size :
    /\ \A i \in k .. c - 1 : done[i]
    /\ c = Size \/ ~done[c]

\* Mutations of NumSends: the last step sends too, or coalesced steps do not.
NumSendsAll(k, c)  == c - k
NumSendsNone(k, c) == IF c = Size THEN 0 ELSE c - k

\* How many messages to send after moving from step k to step c: one per
\* step, but none at the last step.
NumSends(k, c) == IF c = Size THEN c - k - 1 ELSE c - k

\* Still under the lock: read the phase, consume the steps that arrived,
\* merge the local argument at step 0, publish the new step, unlock.  The
\* first step of the sends is k.step + 1; the last step sends nothing.
KickLocked(t) ==
  LET r == RankOf(t)
      k == kick[t].step
      p == phase[r]
      c == Cursor(step_done[r][p], k)
      a == IF k = 0 THEN Merge(recv[r][p], local[r]) ELSE recv[r][p]
      n == NumSends(k, c)
  IN
  /\ kick[t].pc = "locked"
  /\ IF c = k
       THEN /\ kick' = [kick EXCEPT ![t] = NotKicking]
            /\ UNCHANGED <<step, step_done, recv, pf>>
       ELSE /\ step_done' = [step_done EXCEPT ![r][p] =
                 [i \in Steps |-> IF i \in k .. c - 1 THEN FALSE ELSE @[i]]]
            /\ recv' = [recv EXCEPT ![r][p] = a]
            /\ step' = [step EXCEPT ![r] = c]
            /\ IF c = Size THEN PfDisable(r) ELSE UNCHANGED pf
            /\ kick' = [kick EXCEPT ![t] =
                 IF n = 0 THEN NotKicking
                 ELSE [pc |-> "send", step |-> k + 1, phase |-> p,
                       numsteps |-> n, arg |-> a, epoch |-> epoch[r]]]
  /\ lock' = [lock EXCEPT ![r] = Free]
  /\ UNCHANGED <<client, local, phase, net, handling, specVars>>

\* The sends happen one by one after the unlock: the barrier may already be
\* complete on this rank, and the main thread in the next one.
KickSend(t) ==
  LET k == kick[t] IN
  /\ k.pc = "send"
  /\ net' = net \cup
       {Msg(Peer(RankOf(t), k.step), k.phase, k.step, k.arg, k.epoch)}
  /\ kick' = [kick EXCEPT ![t] =
       IF k.numsteps = 1 THEN NotKicking
       ELSE [k EXCEPT !.step = @ + 1, !.numsteps = @ - 1]]
  /\ UNCHANGED <<client, lock, local, step, phase, step_done, recv, pf,
                 handling, specVars>>

-----------------------------------------------------------------------------
(***************************************************************************)
(* gasnete_amdbarrier_wait and gasnete_amdbarrier_try.                     *)
(***************************************************************************)
Wait(r) ==
  /\ client[r] = "inside" /\ MainFree(r)
  /\ client' = [client EXCEPT ![r] = "waiting"]
  /\ IF step[r] = Size THEN UNCHANGED pf ELSE PfDisable(r)
  /\ UNCHANGED <<lock, local, step, phase, step_done, recv, kick, net,
                 handling, specVars>>

\* Entering try: one kick, then look.
Try(r) ==
  /\ client[r] = "inside" /\ MainFree(r)
  /\ client' = [client EXCEPT ![r] = "trying"]
  /\ kick' = [kick EXCEPT ![Main(r)].pc = "enter"]
  /\ UNCHANGED <<lock, local, step, phase, step_done, recv, pf, net, handling,
                 specVars>>

\* GASNET_ERR_NOT_READY.
TryFail(r) ==
  /\ client[r] = "trying" /\ MainFree(r)
  /\ step[r] # Size
  /\ client' = [client EXCEPT ![r] = "inside"]
  /\ UNCHANGED <<lock, local, step, phase, step_done, recv, pf, kick, net,
                 handling, specVars>>

\* The end of wait: compute the verdict, keep the consensus in local for
\* gasnete_amdbarrier_result, reset the accumulator; no lock is taken.
Leave(r) ==
  LET acc == recv[r][phase[r]] IN
  /\ client[r] \in {"waiting", "trying"} /\ MainFree(r)
  /\ step[r] = Size
  /\ client' = [client EXCEPT ![r] = "outside"]
  /\ local' = [local EXCEPT ![r] = acc]
  /\ recv' = [recv EXCEPT ![r][phase[r]] = Reset(@)]
  /\ completed' = [completed EXCEPT ![r] = @ + 1]
  /\ \E w \in WaitArgs :
       outcome' = [outcome EXCEPT ![r] =
         [ret |-> Retval(acc, w), anon |-> Anonymous(local'[r]),
          value |-> local'[r].value]]
  /\ UNCHANGED <<lock, step, phase, step_done, pf, kick, net, handling,
                 epoch, args>>

-----------------------------------------------------------------------------
Handlers == \/ \E m \in net : NotifyReqh(m)
            \/ \E m \in handling : NotifyReqhDone(m)

Kick(t) == KickCall(t) \/ KickEnter(t) \/ KickLocked(t) \/ KickSend(t)

Call(r) ==
  \/ Notify(r) \/ NotifyFlip(r) \/ NotifySend(r)
  \/ Wait(r) \/ Try(r) \/ TryFail(r) \/ Leave(r)

\* All barriers are over and nothing is left to do.
Terminated ==
  /\ \A r \in Ranks : client[r] = "outside" /\ epoch[r] = MaxEpoch
  /\ net = {} /\ handling = {}
  /\ \A t \in Threads : kick[t].pc = "out"
  /\ UNCHANGED vars

Next ==
  \/ Handlers
  \/ \E t \in Threads : Kick(t)
  \/ \E r \in Ranks : Call(r)
  \/ Terminated

Spec == Init /\ [][Next]_vars

(***************************************************************************)
(* Fairness: as for the central barrier.  Messages are delivered and their *)
(* handlers finish, a started kick is scheduled until it is done, a thread *)
(* in wait keeps kicking, a client inside the barrier calls wait or try    *)
(* eventually, however often it polls before.                              *)
(***************************************************************************)
Fairness ==
  /\ SF_vars(\E m \in net : NotifyReqh(m))
  /\ WF_vars(\E m \in handling : NotifyReqhDone(m))
  /\ \A t \in Threads : WF_vars(KickEnter(t) \/ KickLocked(t) \/ KickSend(t))
  /\ \A r \in Ranks :
       /\ WF_vars(KickCall(Main(r)))
       /\ WF_vars(NotifyFlip(r))
       /\ SF_vars(NotifySend(r))
       /\ SF_vars(Wait(r) \/ Try(r))
       /\ WF_vars(TryFail(r))
       /\ WF_vars(Leave(r))

FairSpec == Spec /\ Fairness

-----------------------------------------------------------------------------
(***************************************************************************)
(* Properties.                                                             *)
(***************************************************************************)
TypeOK ==
  /\ client \in [Ranks -> {"outside", "flipping", "sending", "inside",
                           "waiting", "trying"}]
  /\ lock \in [Ranks -> Threads \cup {Free}]
  /\ local \in [Ranks -> Arg]
  /\ step \in [Ranks -> 0 .. Size]
  /\ phase \in [Ranks -> Phases]
  /\ step_done \in [Ranks -> [Phases -> [Steps -> BOOLEAN]]]
  /\ recv \in [Ranks -> [Phases -> Arg]]
  /\ pf \in [Ranks -> BOOLEAN]
  /\ kick \in [Threads -> Kicks]
  /\ net \subseteq Messages /\ handling \subseteq Messages
  /\ epoch \in [Ranks -> Nat] /\ completed \in [Ranks -> Nat]
  /\ args \in [Ranks -> [Phases -> Arg]]
  /\ outcome \in [Ranks -> Outcomes \cup {NoOutcome}]

\* Two phases are enough.  The assertion at the end of notify_reqh holds
\* (step_done[phase][step] == 0: the previous use of the slot was consumed),
\* and every message, also one that a kick has still to send after its
\* unlock, is for a barrier its receiver has not left and is at most one
\* ahead of; so the reset in wait, outside the lock, never wipes a merge.
EveryMessageIsAwaited ==
  LET Awaited(q, e) == completed[q] < e /\ e <= epoch[q] + 1 IN
  /\ \A m \in handling : ~step_done[m.to][m.phase][m.step]
  /\ \A m \in net \cup handling : Awaited(m.to, m.epoch)
  /\ \A t \in Threads : kick[t].pc = "send" =>
       \A i \in kick[t].step .. kick[t].step + kick[t].numsteps - 1 :
         Awaited(Peer(RankOf(t), i), kick[t].epoch)

\* Outside the barrier, the state of the phase just used is as init left it:
\* wait and kick have consumed all of it for the barrier after the next.
PhaseIsClean ==
  \A r \in Ranks : client[r] = "outside" =>
    /\ recv[r][phase[r]].flags = {"ANONYMOUS"}
    /\ \A k \in Steps : ~step_done[r][phase[r]][k]

\* Dissemination: a rank at step k of its barrier, and whoever receives a
\* message of step k from it, knows that the rank and its 2^k - 1
\* predecessors have notified that barrier.
KnowsPredecessors ==
  LET Notified(r, k, e) == \A i \in 0 .. 2^k - 1 : epoch[(r - i) % N] >= e IN
  /\ \A r \in Ranks : client[r] # "outside" => Notified(r, step[r], epoch[r])
  /\ \A m \in net \cup handling :
       Notified((m.to - 2^m.step) % N, m.step, m.epoch)

\* No step is lost: when every rank has sent its notification of barrier e
\* and nothing of e is in flight or waiting to be sent, then the ranks still
\* in e are done, or one of them has the next step it needs in step_done.
NoLostStep ==
  \A e \in 1 .. MaxEpoch :
    LET Behind == {r \in Ranks : epoch[r] = e /\ step[r] # Size} IN
    ( /\ \A r \in Ranks : \/ epoch[r] > e
                          \/ epoch[r] = e /\ client[r] \notin {"flipping", "sending"}
      /\ \A m \in net \cup handling : m.epoch # e
      /\ \A t \in Threads : ~(kick[t].pc = "send" /\ kick[t].epoch = e)
      /\ Behind # {} )
    => \E r \in Behind : step_done[r][e % 2][step[r]]

\* The dissemination barrier implements the abstract barrier: no rank leaves
\* early, and the verdict and barrier_result are those that the arguments of
\* all ranks imply, although each rank hears of most others at second hand.
ImplementsBarrier == SpecSpec
-----------------------------------------------------------------------------
(***************************************************************************)
(* The inductive invariant.  The message of step k of barrier e to rank q  *)
(* comes from one rank and is, once issued, in exactly one place: with its *)
(* sender, on the wire, in its handler, or received.                       *)
(***************************************************************************)
From(q, k)  == (q - 2^k) % N
Heard(r, k) == {(r - i) % N : i \in 0 .. 2^k - 1}

\* Rank r has flipped its phase for barrier e (or a later one).
Entered(r, e) == epoch[r] > e \/ (epoch[r] = e /\ client[r] # "flipping")

\* The steps that thread t has still to send.
Unsent(t) == kick[t].step .. kick[t].step + kick[t].numsteps - 1

Issued(s, k, e) ==
  epoch[s] > e \/ (epoch[s] = e /\ client[s] # "flipping" /\ k <= step[s])
Pending(s, k, e) ==
  \/ k = 0 /\ epoch[s] = e /\ client[s] = "sending"
  \/ \E t \in Threads : /\ RankOf(t) = s /\ kick[t].pc = "send"
                        /\ kick[t].epoch = e /\ k \in Unsent(t)
IsFor(m, q, k, e) == m.to = q /\ m.step = k /\ m.epoch = e
OnWire(q, k, e)    == \E m \in net : IsFor(m, q, k, e)
InHandler(q, k, e) == \E m \in handling : IsFor(m, q, k, e)
Received(q, k, e) ==
  \/ e <= completed[q]
  \/ e = epoch[q] /\ k < step[q]
  \/ e <= completed[q] + 2 /\ step_done[q][e % 2][k]

OnePlace(s, q, k, e) ==
  /\ Issued(s, k, e) <=>
       Pending(s, k, e) \/ OnWire(q, k, e) \/ InHandler(q, k, e) \/ Received(q, k, e)
  /\ Pending(s, k, e) => ~OnWire(q, k, e) /\ ~InHandler(q, k, e) /\ ~Received(q, k, e)
  /\ OnWire(q, k, e) => ~InHandler(q, k, e) /\ ~Received(q, k, e)
  /\ InHandler(q, k, e) => ~Received(q, k, e)

TokenInv ==
  \A q \in Ranks, k \in Steps, e \in 1 .. MaxEpoch + 2 :
    OnePlace(From(q, k), q, k, e)

\* One copy of each.
UniqueInv ==
  /\ \A m, n \in net \cup handling : IsFor(m, n.to, n.step, n.epoch) => m = n
  /\ \A t, u \in Threads :
       /\ kick[t].pc = "send" /\ kick[u].pc = "send" /\ t # u
       /\ RankOf(t) = RankOf(u) /\ kick[t].epoch = kick[u].epoch
       => Unsent(t) \cap Unsent(u) = {}

WindowInv ==
  \A r \in Ranks :
    /\ client[r] = "outside" => /\ epoch[r] = completed[r]
                                /\ step[r] = (IF epoch[r] = 0 THEN 0 ELSE Size)
    /\ client[r] # "outside" => /\ epoch[r] = completed[r] + 1
                                /\ local[r] = args[r][epoch[r] % 2]
    /\ client[r] = "flipping" => step[r] = 0
    /\ client[r] \in {"flipping", "sending"} => Size # 0
    /\ phase[r] = (IF client[r] = "flipping" THEN completed[r] ELSE epoch[r]) % 2
    /\ epoch[r] <= MaxEpoch
    /\ \A k \in Steps : k < step[r] => ~step_done[r][epoch[r] % 2][k]

\* Who has entered is known from what has been heard, and nobody leaves
\* before all have.
EnteredInv ==
  \A r \in Ranks :
    /\ client[r] # "flipping" => \A q \in Heard(r, step[r]) : Entered(q, epoch[r])
    /\ \A q \in Ranks : Entered(q, completed[r])

KickInv ==
  \A t \in Threads :
    LET r == RankOf(t) IN
    /\ kick[t].pc = "locked" =>
         lock[r] = t /\ kick[t].step = step[r] /\ step[r] # Size
    /\ kick[t].pc = "send" =>
         /\ kick[t].phase = kick[t].epoch % 2
         /\ kick[t].epoch \in 1 .. epoch[r]
         /\ kick[t].step >= 1 /\ kick[t].numsteps >= 1
         /\ kick[t].step + kick[t].numsteps <= Size
    /\ epoch[r] = 0 => kick[t].pc = "out" /\ ~pf[r]

MessageInv ==
  \A m \in net \cup handling :
    m.phase = m.epoch % 2 /\ m.epoch \in 1 .. MaxEpoch

\* a summarises the arguments for barrier e of the ranks low, and perhaps of
\* others that have notified it.
Covers(a, low, e) ==
  \E S \in SUBSET Ranks :
    /\ low \subseteq S
    /\ \A q \in S : epoch[q] >= e
    /\ Summarises(a, {args[q][e % 2] : q \in S})

\* The ranks whose arguments for barrier e rank r must have accumulated.
Merged(r, e) ==
  {q \in Ranks : \/ q = r /\ epoch[r] = e /\ (step[r] > 0 \/ Size = 0)
                 \/ \E k \in Steps : /\ InHandler(r, k, e) \/ Received(r, k, e)
                                     /\ q \in Heard(From(r, k), k)}

RecvInv ==
  \A r \in Ranks, d \in {1, 2} :
    LET e == completed[r] + d IN Covers(recv[r][e % 2], Merged(r, e), e)
WireInv ==
  \A m \in net : Covers(m.arg, Heard(From(m.to, m.step), m.step), m.epoch)
UnsentInv ==
  \A t \in Threads : kick[t].pc = "send" =>
    \A i \in Unsent(t) : Covers(kick[t].arg, Heard(RankOf(t), i), kick[t].epoch)

\* Why the dissemination barrier works.
IndInv == WindowInv /\ EnteredInv /\ KickInv /\ MessageInv /\ TokenInv
          /\ UniqueInv /\ RecvInv /\ WireInv /\ UnsentInv

\* The inductive invariant.
Inv == TypeOK /\ IndInv
=============================================================================
