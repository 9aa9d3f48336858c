------------------------------ MODULE LifoSpec ------------------------------
(* What a gasneti_lifo_head_t promises: a stack of elements.  A thread       *)
(* pushes elements that are its own, several at once if it chained them, and *)
(* pops one, which is its own from then on.                                  *)
EXTENDS Naturals, Sequences

CONSTANTS Thread, Node,
          MaxChain   \* elements pushed at once

VARIABLES stack,    \* the elements, top first
          mine      \* mine[t]: the elements thread t may use

vars == <<stack, mine>>

Elements(s) == {s[k] : k \in 1..Len(s)}
Distinct(s) == \A j, k \in 1..Len(s) : s[j] = s[k] => j = k

Init == stack = <<>> /\ mine \in [Thread -> SUBSET Node]

Push(t, chain) ==
  /\ chain # <<>> /\ Distinct(chain)
  /\ Elements(chain) \subseteq mine[t]
  /\ stack' = chain \o stack
  /\ mine' = [mine EXCEPT ![t] = @ \ Elements(chain)]

Pop(t) ==
  /\ stack # <<>>
  /\ stack' = Tail(stack)
  /\ mine' = [mine EXCEPT ![t] = @ \union {Head(stack)}]

Next ==
  \E t \in Thread :
    \/ Pop(t)
    \/ \E n \in 1..MaxChain : \E chain \in [1..n -> Node] : Push(t, chain)

Spec == Init /\ [][Next]_vars
=============================================================================
