------------------------------ MODULE PSHMSpec ------------------------------
(* What a network of shared-memory queues promises: a sender obtains a       *)
(* buffer that overlaps no other buffer still in use, and delivers or        *)
(* cancels it; each process receives the buffers delivered to it once each,  *)
(* in the order of delivery, and gives each one back when it is done with    *)
(* its contents.                                                             *)
EXTENDS Naturals, Sequences

CONSTANTS Proc,       \* the processes
          Buffer      \* <<p, first, n>>: n pages of p's region from page first

VARIABLES
  filling,    \* buffers their senders are filling
  queue,      \* queue[p]: the buffers delivered to p and not received
  reading     \* buffers received and not given back

vars == <<filling, queue, reading>>

Pages(b) == {<<b[1], k>> : k \in b[2]..(b[2] + b[3] - 1)}
InUse == filling \union reading
           \union UNION {{queue[p][k] : k \in 1..Len(queue[p])} : p \in Proc}

Init == filling = {} /\ queue = [p \in Proc |-> <<>>] /\ reading = {}

Obtain(b) ==
  /\ filling' = filling \union {b}
  /\ \A c \in InUse : Pages(b) \intersect Pages(c) = {}
  /\ UNCHANGED <<queue, reading>>

Cancel(b) ==
  /\ b \in filling
  /\ filling' = filling \ {b}
  /\ UNCHANGED <<queue, reading>>

Deliver(b, p) ==
  /\ b \in filling
  /\ filling' = filling \ {b}
  /\ queue' = [queue EXCEPT ![p] = Append(@, b)]
  /\ UNCHANGED reading

Receive(p) ==
  /\ queue[p] # <<>>
  /\ reading' = reading \union {Head(queue[p])}
  /\ queue' = [queue EXCEPT ![p] = Tail(@)]
  /\ UNCHANGED filling

GiveBack(b) ==
  /\ b \in reading
  /\ reading' = reading \ {b}
  /\ UNCHANGED <<filling, queue>>

Next ==
  \/ \E b \in Buffer : Obtain(b)
  \/ \E b \in filling : Cancel(b) \/ \E p \in Proc : Deliver(b, p)
  \/ \E p \in Proc : Receive(p)
  \/ \E b \in reading : GiveBack(b)

Spec == Init /\ [][Next]_vars
=============================================================================
