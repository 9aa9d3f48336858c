---------------------------- MODULE MCComponents ----------------------------
(***************************************************************************)
(* One model of seven components that share no state. Init chooses which   *)
(* of them runs; the others stay in their initial states, so that the      *)
(* reachable states of the components add up instead of multiplying, and   *)
(* each property is checked in every behaviour of its own component.       *)
(***************************************************************************)
EXTENDS Events, PSHMNet, AMPSHM, Lifo, Semaphore, IBVConnect, PSHMBarrier, TLC

CONSTANTS s1, s2, r1, r2, ta, tb, tc

VARIABLE part

\* Two senders of process 2, two receivers of process 1.
ProcOfThread == (s1 :> 2) @@ (s2 :> 2) @@ (r1 :> 1) @@ (r2 :> 1)

\* Client ta alone in process 1, tb and tc together in process 2.
ClientProcess == (ta :> 1) @@ (tb :> 2) @@ (tc :> 2)

\* Thread ta of node 0, threads tb and tc of node 1.
NodeOf == (ta :> 0) @@ (tb :> 1) @@ (tc :> 1)

\* Two names that disagree.
TwoNames == {[flags |-> {}, value |-> 1], [flags |-> {}, value |-> 2]}
OneName == {[flags |-> {}, value |-> 1]}

\* Cells of two (of three ranks: the flat tree) and a chain.
TreeRadices == {-2, 1}

Parts == {"events", "net", "am", "lifo", "sema", "connect", "barrier"}

vars == <<part, eventVars, netVars, amVars, lifoVars, semaVars, connectVars,
          pshmBarrierVars>>

Init ==
  /\ part \in Parts
  /\ EventInit /\ NetInit /\ AMInit /\ LifoInit /\ SemaInit /\ ConnectInit
  /\ PSHMBarrierInit
  /\ part # "barrier" => radix = 1
  /\ part # "lifo" => owned[CHOOSE t \in LifoThreads : TRUE] = Nodes

Next ==
  /\ UNCHANGED part
  /\ \/ /\ part = "events" /\ EventNext
        /\ UNCHANGED <<netVars, amVars, lifoVars, semaVars, connectVars,
                       pshmBarrierVars>>
     \/ /\ part = "net" /\ NetNext
        /\ UNCHANGED <<eventVars, amVars, lifoVars, semaVars, connectVars,
                       pshmBarrierVars>>
     \/ /\ part = "am" /\ AMNext
        /\ UNCHANGED <<eventVars, netVars, lifoVars, semaVars, connectVars,
                       pshmBarrierVars>>
     \/ /\ part = "lifo" /\ LifoNext
        /\ UNCHANGED <<eventVars, netVars, amVars, semaVars, connectVars,
                       pshmBarrierVars>>
     \/ /\ part = "sema" /\ SemaNext
        /\ UNCHANGED <<eventVars, netVars, amVars, lifoVars, connectVars,
                       pshmBarrierVars>>
     \/ /\ part = "connect" /\ ConnectNext
        /\ UNCHANGED <<eventVars, netVars, amVars, lifoVars, semaVars,
                       pshmBarrierVars>>
     \/ /\ part = "barrier" /\ PSHMBarrierNext
        /\ UNCHANGED <<eventVars, netVars, amVars, lifoVars, semaVars,
                       connectVars>>

\* AMFairness and ConnectFairness, for the part that runs.
Fairness ==
  /\ \A t \in Clients : WF_amVars(part = "am" /\ AMFairStep(t))
  /\ \A t \in Connectors :
       /\ WF_connectVars(part = "connect" /\ ConnectStep(t))
       /\ SF_connectVars(part = "connect" /\ TimerExpires(t))
  /\ \A e \in Ends :
       /\ WF_connectVars(part = "connect" /\ DatagramStep(e))
       /\ WF_connectVars(part = "connect" /\ ReplyAges(e))
       /\ WF_connectVars(part = "connect" /\ AMStep(e))

ComponentsSpec == Init /\ [][Next]_vars /\ Fairness

-----------------------------------------------------------------------------
\* The type invariants of all components, within the inductive invariants of
\* those about which theorems are proved. A part that does not run stays in an
\* initial state that it also has when it runs.
TypesOK ==
  /\ part = "events" => EventInv
  /\ part = "net" => NetInv
  /\ part = "am" => AMInv
  /\ part = "lifo" => LifoInv
  /\ part = "sema" => SemaInv
  /\ part = "connect" => ConnectInv
  /\ part = "barrier" => PSHMBarrierInv

\* What must end ends: requests and their replies, and connections.
ComponentsSettle == AMSettles /\ ConnectionsSettle
=============================================================================
