-------------------------------- MODULE Lifo --------------------------------
(* The lock-free LIFO of gasnet_syncops.h, as built where two pointers can   *)
(* be compared and swapped at once (cas2 on a pair, or 128 bits): a head     *)
(* pointer and a tag that every operation advances.  Head and tag are read   *)
(* one after the other, and a pop reads the next pointer of an element that  *)
(* another thread may pop, use and push again meanwhile.                     *)
EXTENDS Naturals, Sequences

CONSTANTS
  LifoThreads,   \* threads
  Nodes, Nil,    \* elements, and NULL
  ChainLength,   \* longest chain given to gasneti_lifo_push_many
  TagBound       \* bound on the operations

ASSUME LifoAssumption ==
  Nil \notin Nodes /\ ChainLength \in Nat /\ TagBound \in Nat

VARIABLES
  head, tag,   \* head_and_tag
  next,        \* the first word of each element, its link while on a list
  lifo,        \* what each thread is doing: at, chain, oldhead, its tag, newhead
  owned,       \* owned[t]: elements thread t popped or has not yet pushed
  stack        \* history: the elements on the list, top first

lifoVars == <<head, tag, next, lifo, owned, stack>>

Quiet == [at |-> "idle", chain |-> <<>>, oldhead |-> Nil, tag |-> 0, newhead |-> Nil]

LifoInit ==
  /\ head = Nil /\ tag = 0
  /\ next = [n \in Nodes |-> Nil]
  /\ lifo = [t \in LifoThreads |-> Quiet]
  /\ \E t \in LifoThreads : owned = [u \in LifoThreads |-> IF u = t THEN Nodes ELSE {}]
  /\ stack = <<>>

InRange(s) == {s[k] : k \in 1..Len(s)}
Injective(s) == \A j, k \in 1..Len(s) : s[j] = s[k] => j = k
LastNode(s) == s[Len(s)]

-----------------------------------------------------------------------------
(* the owner of an element uses its memory, also its first word; to write a  *)
(* link there (gasneti_lifo_link) is one such use                            *)
UseNode(t) ==
  /\ lifo[t].at = "idle"
  /\ \E n \in owned[t], v \in Nodes \union {Nil} : next' = [next EXCEPT ![n] = v]
  /\ UNCHANGED <<head, tag, lifo, owned, stack>>

(* gasneti_lifo_push of an element, gasneti_lifo_push_many of a linked chain *)
StartPush(t) ==
  /\ lifo[t].at = "idle" /\ tag < TagBound
  /\ \E k \in 1..ChainLength : \E c \in [1..k -> owned[t]] :
       /\ Injective(c)
       /\ \A j \in 1..(k - 1) : next[c[j]] = c[j + 1]
       /\ lifo' = [lifo EXCEPT ![t] = [Quiet EXCEPT !.at = "push", !.chain = c]]
  /\ UNCHANGED <<head, tag, next, owned, stack>>

push_read_head(t) ==
  /\ lifo[t].at = "push"
  /\ lifo' = [lifo EXCEPT ![t].at = "push_tag", ![t].oldhead = head]
  /\ UNCHANGED <<head, tag, next, owned, stack>>

push_read_tag(t) ==
  /\ lifo[t].at = "push_tag"
  /\ lifo' = [lifo EXCEPT ![t].at = "push_cas", ![t].tag = tag]
  /\ next' = [next EXCEPT ![LastNode(lifo[t].chain)] = lifo[t].oldhead]
  /\ UNCHANGED <<head, tag, owned, stack>>

(* Mutation of Unchanged2: a compare-and-swap of the head word alone.        *)
UnchangedHead(t) == head = lifo[t].oldhead

(* the compare-and-swap of both words *)
Unchanged2(t) == head = lifo[t].oldhead /\ tag = lifo[t].tag

push_cas(t) ==
  /\ lifo[t].at = "push_cas"
  /\ \/ /\ Unchanged2(t)
        /\ head' = lifo[t].chain[1] /\ tag' = tag + 1
        /\ stack' = lifo[t].chain \o stack
        /\ owned' = [owned EXCEPT ![t] = @ \ InRange(lifo[t].chain)]
        /\ lifo' = [lifo EXCEPT ![t] = Quiet]
     \/ /\ ~Unchanged2(t)
        /\ lifo' = [lifo EXCEPT ![t].at = "push"]
        /\ UNCHANGED <<head, tag, owned, stack>>
  /\ UNCHANGED next

(* gasneti_lifo_pop *)
pop_read_head(t) ==
  /\ \/ lifo[t].at = "idle" /\ tag < TagBound
     \/ lifo[t].at = "pop"
  /\ lifo' = [lifo EXCEPT ![t] = [Quiet EXCEPT !.at = "pop_tag", !.oldhead = head]]
  /\ UNCHANGED <<head, tag, next, owned, stack>>

pop_read_tag(t) ==
  /\ lifo[t].at = "pop_tag"
  /\ lifo' = [lifo EXCEPT ![t] =
               IF @.oldhead = Nil THEN Quiet          \* empty: returns NULL
               ELSE [@ EXCEPT !.at = "pop_next", !.tag = tag]]
  /\ UNCHANGED <<head, tag, next, owned, stack>>

(* Mutation of pop_read_next: what is left is read from the head, not from   *)
(* the element that was there when the head was read.                        *)
pop_read_next_of_head(t) ==
  /\ lifo[t].at = "pop_next"
  /\ lifo' = [lifo EXCEPT ![t].at = "pop_cas", ![t].newhead = head]
  /\ UNCHANGED <<head, tag, next, owned, stack>>

pop_read_next(t) ==
  /\ lifo[t].at = "pop_next"
  /\ lifo' = [lifo EXCEPT ![t].at = "pop_cas", ![t].newhead = next[lifo[t].oldhead]]
  /\ UNCHANGED <<head, tag, next, owned, stack>>

pop_cas(t) ==
  /\ lifo[t].at = "pop_cas"
  /\ \/ /\ Unchanged2(t)
        /\ head' = lifo[t].newhead /\ tag' = tag + 1
        /\ stack' = IF stack = <<>> THEN <<>> ELSE Tail(stack)
        /\ owned' = [owned EXCEPT ![t] = @ \union {lifo[t].oldhead}]
        /\ lifo' = [lifo EXCEPT ![t] = Quiet]
     \/ /\ ~Unchanged2(t)
        /\ lifo' = [lifo EXCEPT ![t].at = "pop"]
        /\ UNCHANGED <<head, tag, owned, stack>>
  /\ UNCHANGED next

LifoStep(t) ==
  \/ UseNode(t) \/ StartPush(t)
  \/ push_read_head(t) \/ push_read_tag(t) \/ push_cas(t)
  \/ pop_read_head(t) \/ pop_read_tag(t) \/ pop_read_next(t) \/ pop_cas(t)

LifoNext == \E t \in LifoThreads : LifoStep(t)

LifoSpecification == LifoInit /\ [][LifoNext]_lifoVars

-----------------------------------------------------------------------------
(* Properties *)

Ops == [at : {"idle", "push", "push_tag", "push_cas",
              "pop", "pop_tag", "pop_next", "pop_cas"},
        chain : Seq(Nodes), oldhead : Nodes \union {Nil}, tag : Nat,
        newhead : Nodes \union {Nil}]

LifoTypeOK ==
  /\ head \in Nodes \union {Nil} /\ tag \in Nat
  /\ next \in [Nodes -> Nodes \union {Nil}]
  /\ lifo \in [LifoThreads -> Ops]
  /\ owned \in [LifoThreads -> SUBSET Nodes]
  /\ stack \in Seq(Nodes)

(* The links say what the list is: from the head pointer, the elements of    *)
(* the stack in order and then NULL, whatever the owners of other elements   *)
(* write into them.                                                          *)
Linked(s, first) ==
  /\ first = IF s = <<>> THEN Nil ELSE s[1]
  /\ \A k \in 1..Len(s) : next[s[k]] = IF k = Len(s) THEN Nil ELSE s[k + 1]

LinksMakeStack == Linked(stack, head)

(* An element is on the list once, or belongs to one thread.                 *)
OneOwner ==
  /\ Injective(stack)
  /\ \A t \in LifoThreads : InRange(stack) \cap owned[t] = {}
  /\ \A t, u \in LifoThreads : t # u => owned[t] \cap owned[u] = {}

(* A thread that pushes has linked its elements, to the head it read last.   *)
ChainLinked ==
  \A t \in LifoThreads :
    LET c == lifo[t].chain IN
    lifo[t].at \in {"push", "push_tag", "push_cas"} =>
      /\ Len(c) \in 1..ChainLength /\ Injective(c) /\ InRange(c) \subseteq owned[t]
      /\ \A k \in 1..(Len(c) - 1) : next[c[k]] = c[k + 1]
      /\ lifo[t].at = "push_cas" => next[LastNode(c)] = lifo[t].oldhead

(* A thread that pops has the right next pointer if head and tag did not     *)
(* change since it read the tag, the second of the two.                      *)
NextFresh ==
  \A t \in LifoThreads :
    lifo[t].at \in {"pop_next", "pop_cas"} =>
      /\ lifo[t].tag <= tag /\ lifo[t].oldhead # Nil
      /\ lifo[t].at = "pop_cas" /\ Unchanged2(t) => next[lifo[t].oldhead] = lifo[t].newhead

LifoInv == LifoTypeOK /\ LinksMakeStack /\ OneOwner /\ ChainLinked /\ NextFresh

(* The list is a stack: each element popped is the top one and is popped by  *)
(* one thread only, and none is lost (the tag avoids the classic ABA         *)
(* problem, gasnet_syncops.h:781).                                           *)
Stack == INSTANCE LifoSpec WITH
  Thread <- LifoThreads, Node <- Nodes, MaxChain <- ChainLength,
  stack <- stack, mine <- owned

ImplementsStack == Stack!Spec
=============================================================================
