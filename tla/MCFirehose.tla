----------------------------- MODULE MCFirehose -----------------------------
(***************************************************************************)
(* Threads a and b of node x pin memory of node y, threads c and d of y    *)
(* pin their own; three environments, of three pins each, share a limit of *)
(* two local places and three firehoses:                                   *)
(*   "mixed"  two threads of x, and one of y on the same pages;            *)
(*   "peers"  three pins of x, one of them across two pages, that need     *)
(*            more firehoses than there are;                               *)
(*   "places" two threads of y that need more places than there are.       *)
(***************************************************************************)
EXTENDS Firehose, TLC

NodeOfThread == ("a" :> "x") @@ ("b" :> "x") @@ ("c" :> "y") @@ ("d" :> "y")
OneRoute == {<<"x", "y">>}

ThreadOfPin == ("a1" :> "a") @@ ("a2" :> "a") @@ ("b1" :> "b")
               @@ ("c1" :> "c") @@ ("d1" :> "d")

\* Regions of y; one page each but for a2 and c1.
AskedByPin ==
  [q \in DOMAIN ThreadOfPin |->
    {"y"} \X (CASE q = "a1" -> {<<1, 1>>, <<2, 1>>}
                [] q = "a2" -> {<<2, 2>>}
                [] q = "b1" -> {<<2, 1>>, <<3, 1>>}
                [] q = "c1" -> {<<1, 1>>, <<2, 1>>, <<2, 2>>}
                [] q = "d1" -> {<<1, 1>>, <<3, 1>>})]

FhCases == [mixed  |-> [pins |-> {"a1", "b1", "c1"}, calls |-> 4],
            peers  |-> [pins |-> {"a1", "a2", "b1"}, calls |-> 5],
            places |-> [pins |-> {"a1", "c1", "d1"}, calls |-> 4]]

FhCaseNext(case) ==
  /\ FirehoseNext
  /\ pinCalls' <= FhCases[case].calls
  /\ \A q \in FhPins \ FhCases[case].pins : pin'[q] = pin[q]

PeersSpec == FirehoseInit /\ [][FhCaseNext("peers")]_firehoseVars
=============================================================================
