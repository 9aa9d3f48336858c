------------------------------ MODULE MCMemory ------------------------------
(***************************************************************************)
(* One model of two components that manage memory and share no state, the  *)
(* collectives' scratch space and Firehose.  Init chooses which of them    *)
(* runs, and Firehose's environment (see MCFirehose).                      *)
(***************************************************************************)
EXTENDS MCScratch, MCFirehose

VARIABLE part

MemoryInit ==
  /\ part \in {"scratch"} \cup DOMAIN FhCases
  /\ Init /\ FirehoseInit
  /\ part # "scratch" => script = CHOOSE s \in Scripts : TRUE

MemoryNext ==
  /\ UNCHANGED part
  /\ \/ part = "scratch" /\ Next /\ UNCHANGED firehoseVars
     \/ part # "scratch" /\ FhCaseNext(part) /\ UNCHANGED vars

\* Fairness of Scratch, for the part that runs.
MemoryFairness ==
  /\ \A r \in Ranks :
       /\ WF_vars(part = "scratch" /\ \E k \in Ops : Create(r, k))
       /\ WF_vars(part = "scratch" /\ \E k \in Ops : Poll(r, k))
  /\ WF_vars(part = "scratch" /\ \E m \in net : Deliver(m))

MemorySpec ==
  MemoryInit /\ [][MemoryNext]_<<part, vars, firehoseVars>> /\ MemoryFairness

\* Firehose's places: the counts of uses are exact, and no call waits for a
\* place or a reply when no step is possible that could bring it.
PlacesSound == CountsExact /\ NeverStuck

\* Every collective operation ends (OpsComplete, for the part that runs).
MemorySettles == part = "scratch" ~> \A r \in Ranks, k \in Ops : status[r][k] = "done"
=============================================================================
