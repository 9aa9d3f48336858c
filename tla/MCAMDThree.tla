----------------------------- MODULE MCAMDThree -----------------------------
(***************************************************************************)
(* Three ranks, in two environments that the name of the first             *)
(* notification chooses between: name 1, then all notify it, in two        *)
(* barriers, with a polling thread on rank 0 and a client there that tries *)
(* or waits (the others wait); or the conflicting names 0 and 2, in one    *)
(* barrier whose ranks kick only in wait.                                  *)
(***************************************************************************)
EXTENDS MCAMDBarrier

ThreeNames == {NamedArg(0), NamedArg(1), NamedArg(2)}

\* Waiters name nothing, so that a MISMATCH they get is of the notifications.
NoName == {AnonymousArg}

\* The names of the first barrier, so far.
FirstName(r) == args[r][1].value
FirstNames == {FirstName(r) : r \in {q \in Ranks : epoch[q] >= 1}}
OnlyOneName == FirstNames \subseteq {1}

\* Conflicting names are in order of the ranks: any other choice is a rotation
\* of such a one, and so are its behaviours.
MayNotify(r) ==
  \/ OnlyOneName' /\ args'[r][epoch'[r] % 2] \in OneName
  \/ /\ FirstNames' \subseteq {0, 2} /\ epoch'[r] = 1
     /\ \A q, p \in Ranks : q < p /\ epoch'[q] = 1 /\ epoch'[p] = 1
                            => FirstName(q)' <= FirstName(p)'

MayKick(t) == OnlyOneName \/ (t = Main(RankOf(t)) /\ client[RankOf(t)] = "waiting")

\* The one barrier with conflicting names is over.
NamesDone ==
  /\ ~OnlyOneName /\ \A r \in Ranks : completed[r] = 1
  /\ net = {} /\ handling = {} /\ \A t \in Threads : kick[t].pc = "out"
  /\ UNCHANGED vars

ThreeNext ==
  \/ Handlers
  \/ \E t \in Threads : \/ MayKick(t) /\ KickCall(t)
                        \/ KickEnter(t) \/ KickLocked(t) \/ KickSend(t)
  \/ \E r \in Ranks : \/ Notify(r) /\ MayNotify(r)
                      \/ NotifyFlip(r) \/ NotifySend(r) \/ Wait(r)
                      \/ OnlyOneName /\ r = 0 /\ Try(r)
                      \/ TryFail(r) \/ Leave(r)
  \/ Terminated \/ NamesDone

ThreeSpec == Init /\ [][ThreeNext]_vars
=============================================================================
