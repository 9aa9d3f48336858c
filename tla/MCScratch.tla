----------------------------- MODULE MCScratch -----------------------------
(* Values of the constants of Scratch for TLC. *)
EXTENDS Scratch

Chain == [i \in 1..2 |-> i - 1]

Tree(kind, root, n) == [kind |-> kind, root |-> root, n |-> n, radix |-> 2]
GatherAll(n) == [kind |-> "gather_all", root |-> 0, n |-> n, radix |-> 2]
Exchange(n, radix) == [kind |-> "exchange", root |-> 0, n |-> n, radix |-> radix]

(* Three ranks, a chain as tree, 6 bytes each: broadcasts that fill the space
   and change their root, gathers of which the third finds only the root full,
   disseminations, and changes between all of them. *)
Mixed == {
    <<Tree("bcast", 0, 4), Tree("bcast", 0, 3), Tree("bcast", 1, 3)>>,
    <<Tree("gather", 0, 1), Tree("gather", 0, 1), Tree("gather", 0, 1)>>,
    <<GatherAll(2), GatherAll(1)>>,
    <<Exchange(1, 2), GatherAll(1)>>,
    <<Tree("bcast", 0, 3), GatherAll(2)>>}

(* The root of a finished broadcast is left in its request. *)
Stale == {<<Tree("bcast", 1, 2), GatherAll(1), GatherAll(1)>>}
=============================================================================
