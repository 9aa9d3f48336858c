------------------------------ MODULE Scratch ------------------------------
(***************************************************************************)
(* The scratch space of a team's collectives,                              *)
(* extended-ref/coll/gasnet_scratch.c, under the operations that use it.   *)
(*                                                                         *)
(* Each rank has ScratchSize bytes that other ranks put to.  Nobody asks   *)
(* the owner for room: every rank runs the same operations in the same     *)
(* order and keeps a mirror (node_status[p].head) of how far the space of  *)
(* each rank it sends to is filled.  The space is emptied as a whole: an   *)
(* owner whose operations have all ended sends a clear signal to the ranks *)
(* that will send to it, its peers in the current configuration, and they  *)
(* reset their mirrors when they consume it.  An operation of another      *)
(* configuration (root, kind, direction) waits until the space is empty    *)
(* and then for the clear signals of all ranks it will send to.            *)
(*                                                                         *)
(* A poll calls each unfinished operation in the order of creation.  The   *)
(* flags are IN_NOSYNC and OUT_NOSYNC, with which nothing but the data     *)
(* orders the ranks; an operation whose IN barrier is not complete returns *)
(* between its allocation and its first send, hence these are two actions. *)
(***************************************************************************)
EXTENDS Integers, Sequences, FiniteSetsExt, SequencesExt

CONSTANTS
    TeamSize,      \* number of ranks
    ScratchSize,   \* bytes of each rank's scratch space
    Shape,         \* tree of a team: parent of each rank relative to the root
    Scripts        \* sequences of operations; every rank runs one of them

Ranks == 0..(TeamSize - 1)

ScratchAssumption ==
    /\ TeamSize \in Nat \ {0, 1}
    /\ ScratchSize \in Nat
    /\ \A i \in 1..(TeamSize - 1) : Shape[i] \in 0..(i - 1)
    /\ \A s \in Scripts : \A k \in DOMAIN s :
           /\ s[k].kind \in {"bcast", "gather", "gather_all", "exchange"}
           /\ s[k].root \in Ranks /\ s[k].n \in Nat /\ s[k].radix \in Nat \ {0, 1}

ASSUME ScratchAssumption

VARIABLES
    script,     \* the operations, one sequence for all ranks
    status,     \* status[r][k]: operation k on rank r
    reqRoot,    \* reqRoot[r][k]: root in the scratch request of operation k
    freeReqs,   \* scratch_free_list of r, as the roots left in its requests
    config,     \* active_config_and_ops of r: root, type, direction
    peers,      \* the configuration's peers: ranks that will send to r
    head,       \* node_status[p].head at r
    clears,     \* reset_signal_sent - reset_signal_recv of p at r
    clearSent,  \* clear_signal_sent of r
    pos,        \* pos[r][k]: where k starts at r and, as r knows, at others
    stage,      \* data->state of k on r, as a count of sends
    net,        \* messages in flight
    arrived     \* arrived[r]: signals that reached r's p2p states

vars == <<script, status, reqRoot, freeReqs, config, peers, head, clears,
          clearSent, pos, stage, net, arrived>>

allocVars == <<config, peers, head, clears, clearSent, pos>>

Ops == 1..Len(script)

----------------------------------------------------------------------------
(* Requests. *)

AllOps == UNION {Range(s) : s \in Scripts}

IsTree(op) == op.kind \in {"bcast", "gather"}

(* Ranks are numbered from the root; a rank's subtree has those below it. *)
Relative(r, root) == (r - root + TeamSize) % TeamSize
Above[i \in 0..(TeamSize - 1)] == IF i = 0 THEN {0} ELSE {i} \cup Above[Shape[i]]
Subtree(r, root) == {q \in Ranks : Relative(r, root) \in Above[Relative(q, root)]}
Parent(r, root) == (Shape[Relative(r, root)] + root) % TeamSize
Parents(r, root) == IF r = root THEN <<>> ELSE <<Parent(r, root)>>
Children(r, root) ==
    SetToSortSeq({q \in Ranks \ {root} : Parent(q, root) = r},
                 LAMBDA a, b : Relative(a, root) < Relative(b, root))

(* Dissemination: in phase i a rank has Fan - 1 peers, at distances that
   are multiples of radix^i. *)
PhaseCount(radix) == CHOOSE w \in 1..TeamSize :
    radix^w >= TeamSize /\ \A v \in 1..(w - 1) : radix^v < TeamSize
Fan(radix, i) ==
    IF i = PhaseCount(radix) - 1
    THEN (TeamSize + radix^i - 1) \div radix^i ELSE radix
FrontPeers(r, radix, i) == [j \in 1..(Fan(radix, i) - 1) |-> (r + j * radix^i) % TeamSize]
BehindPeers(r, radix, i) ==
    [j \in 1..(Fan(radix, i) - 1) |-> (r + TeamSize - j * radix^i) % TeamSize]
MaxBlocks(radix) ==
    Max({1, TeamSize \div radix} \cup
        {Cardinality({j \in Ranks : (j \div radix^i) % radix = 1})
            : i \in 0..(PhaseCount(radix) - 1)})

Radix(op) == IF op.kind = "gather_all" THEN 2 ELSE op.radix
Phases == [op \in AllOps |-> IF IsTree(op) THEN 1 ELSE PhaseCount(Radix(op))]

(* Whom rank r sends to and receives from in each phase of an operation. *)
SendsTo == [op \in AllOps, r \in Ranks |-> [i \in 0..(Phases[op] - 1) |->
    CASE op.kind = "bcast"      -> Children(r, op.root)
      [] op.kind = "gather"     -> Parents(r, op.root)
      [] op.kind = "gather_all" -> BehindPeers(r, 2, i)
      [] op.kind = "exchange"   -> FrontPeers(r, op.radix, i)]]
ReceivesFrom == [op \in AllOps, r \in Ranks |-> [i \in 0..(Phases[op] - 1) |->
    CASE op.kind = "bcast"      -> Parents(r, op.root)
      [] op.kind = "gather"     -> Children(r, op.root)
      [] op.kind = "gather_all" -> FrontPeers(r, 2, i)
      [] op.kind = "exchange"   -> BehindPeers(r, op.radix, i)]]

(* out_peers and in_peers: those of all phases. *)
AllPhases(of) == FlattenSeq([i \in 1..Cardinality(DOMAIN of) |-> of[i - 1]])
OutPeers == [op \in AllOps, r \in Ranks |-> AllPhases(SendsTo[op, r])]
InPeers == [op \in AllOps, r \in Ranks |-> AllPhases(ReceivesFrom[op, r])]

(* incoming_size of rank r; out_sizes are those of the receivers. *)
Incoming == [op \in AllOps, r \in Ranks |->
    CASE op.kind = "bcast"      -> op.n
      [] op.kind = "gather"     -> op.n * Cardinality(Subtree(r, op.root))
      [] op.kind = "gather_all" -> op.n * TeamSize
      [] op.kind = "exchange"   ->
             op.n * TeamSize + op.n * MaxBlocks(op.radix) * 2 * (op.radix - 1)]

(* A larger operation is a fatal error when it asks for its space. *)
ASSUME FitsAssumption == \A op \in AllOps, r \in Ranks : Incoming[op, r] <= ScratchSize

(* What gasnete_coll_scratch_compare_config looks at. *)
ConfigOf(r, k) ==
    [root |-> reqRoot[r][k],
     type |-> IF IsTree(script[k]) THEN "tree" ELSE "dissem",
     dir  |-> IF script[k].kind \in {"bcast", "exchange"} THEN "down" ELSE "up"]

----------------------------------------------------------------------------
NoConfig == [root |-> -1, type |-> "dissem", dir |-> "up"]

Init ==
    /\ script \in Scripts
    /\ status = [r \in Ranks |-> [k \in Ops |-> "none"]]
    /\ reqRoot = [r \in Ranks |-> [k \in Ops |-> 0]]
    /\ freeReqs = [r \in Ranks |-> <<>>]
    /\ config = [r \in Ranks |-> NoConfig]
    /\ peers = [r \in Ranks |-> <<>>]
    /\ head = [r \in Ranks |-> [p \in Ranks |-> 0]]
    /\ clears = [r \in Ranks |-> [p \in Ranks |-> 0]]
    /\ clearSent = [r \in Ranks |-> FALSE]
    /\ pos = [r \in Ranks |-> [k \in Ops |-> [p \in Ranks |-> 0]]]
    /\ stage = [r \in Ranks |-> [k \in Ops |-> 0]]
    /\ net = {}
    /\ arrived = [r \in Ranks |-> {}]

(* The client starts the next operation.  A request comes from the free list
   or is zeroed; only a tree operation sets its root. *)
PopRoot(r) == IF freeReqs[r] = <<>> THEN 0 ELSE Head(freeReqs[r])
RequestRoot(op, old) == IF IsTree(op) THEN op.root ELSE old

Create(r, k) ==
    /\ status[r][k] = "none"
    /\ \A j \in 1..(k - 1) : status[r][j] # "none"
    /\ status' = [status EXCEPT ![r][k] = "new"]
    /\ reqRoot' = [reqRoot EXCEPT ![r][k] = RequestRoot(script[k], PopRoot(r))]
    /\ freeReqs' = [freeReqs EXCEPT ![r] = IF @ = <<>> THEN @ ELSE Tail(@)]
    /\ UNCHANGED <<script, allocVars, stage, net, arrived>>

(* The wait queue is in order of creation; "reconfig" is a waiting operation
   with waiting_for_reconfig_clear set. *)
Queue(r) == {k \in Ops : status[r][k] \in {"waiting", "reconfig"}}
Active(r) == {k \in Ops : status[r][k] = "active"}
Polled(r, k) ==
    /\ status[r][k] \in {"new", "waiting", "reconfig"}
    /\ \A j \in 1..(k - 1) : status[r][j] # "new"

(* gasnete_coll_scratch_alloc_nb looks at k only when nothing waits before it. *)
MayAllocate(r, k) == Polled(r, k) /\ \A j \in Queue(r) : k <= j

Wait(r, k) ==
    /\ status[r][k] = "new"
    /\ status' = [status EXCEPT ![r][k] = "waiting"]
    /\ UNCHANGED <<script, reqRoot, freeReqs, allocVars, stage, net, arrived>>

WaitBehind(r, k) == Polled(r, k) /\ ~MayAllocate(r, k) /\ Wait(r, k)

MismatchWaits(r, k) ==
    /\ MayAllocate(r, k) /\ status[r][k] # "reconfig"
    /\ ConfigOf(r, k) # config[r] /\ Active(r) # {}
    /\ Wait(r, k)

LocalFull(r, k) == head[r][r] + Incoming[script[k], r] > ScratchSize

FullWaits(r, k) ==
    /\ MayAllocate(r, k) /\ status[r][k] # "reconfig"
    /\ ConfigOf(r, k) = config[r] /\ LocalFull(r, k) /\ Active(r) # {}
    /\ Wait(r, k)

(* Reset one's own space and tell the peers, once in a drain cycle. *)
OwnHead(r, drain) ==
    IF drain /\ ~clearSent[r] THEN [head[r] EXCEPT ![r] = 0] ELSE head[r]
ClearSignals(r, k, drain, to) ==
    IF drain /\ ~clearSent[r] THEN {[type |-> "clear", op |-> k, from |-> r, to |-> p] : p \in Range(to)}
    ELSE {}

(* Take the space: positions are the heads h, which then move on. *)
Allocate(r, k, h) ==
    LET op == script[k]
        taken == {r} \cup Range(OutPeers[op, r])
    IN  /\ status' = [status EXCEPT ![r][k] = "active"]
        /\ pos' = [pos EXCEPT ![r][k] = [p \in Ranks |-> IF p \in taken THEN h[p] ELSE 0]]
        /\ head' = [head EXCEPT ![r] =
              [p \in Ranks |-> IF p \in taken THEN h[p] + Incoming[op, p] ELSE h[p]]]
        /\ clearSent' = [clearSent EXCEPT ![r] = FALSE]

(* Mutation of NewPeers: the peers are not replaced. *)
OldPeers(r, k) == peers[r]
NewPeers(r, k) ==
    IF status[r][k] = "reconfig" THEN peers[r] ELSE InPeers[script[k], r]

(* The space is empty and configured for other peers: tell the new peers,
   then wait for a clear signal of every rank that k sends to. *)
Reconfigure(r, k) ==
    LET op == script[k]
        to == NewPeers(r, k)
        out == Range(OutPeers[op, r])
        h == OwnHead(r, TRUE)
    IN  /\ MayAllocate(r, k)
        /\ \/ status[r][k] = "reconfig"
           \/ ConfigOf(r, k) # config[r] /\ Active(r) = {}
        /\ config' = [config EXCEPT ![r] = IF status[r][k] = "reconfig" THEN @ ELSE ConfigOf(r, k)]
        /\ peers' = [peers EXCEPT ![r] = to]
        /\ net' = net \cup ClearSignals(r, k, TRUE, to)
        /\ IF \A p \in out : clears[r][p] > 0
           THEN /\ clears' = [clears EXCEPT ![r] =
                     [p \in Ranks |-> IF p \in out THEN @[p] - 1 ELSE @[p]]]
                /\ Allocate(r, k, [p \in Ranks |-> IF p \in out THEN 0 ELSE h[p]])
           ELSE /\ clearSent' = [clearSent EXCEPT ![r] = TRUE]
                /\ status' = [status EXCEPT ![r][k] = "reconfig"]
                /\ head' = [head EXCEPT ![r] = h]
                /\ UNCHANGED <<clears, pos>>
        /\ UNCHANGED <<script, reqRoot, freeReqs, stage, arrived>>

(* The space is configured for k.  A full mirror is reset by a clear signal;
   the check stops at the first full one that has none. *)
FullPeers(r, k) == LET op == script[k] IN
    {i \in DOMAIN OutPeers[op, r] :
        head[r][OutPeers[op, r][i]] + Incoming[op, OutPeers[op, r][i]] > ScratchSize}
Stuck(r, k) == {i \in FullPeers(r, k) : clears[r][OutPeers[script[k], r][i]] = 0}
ResetPeers(r, k) ==
    {OutPeers[script[k], r][i] : i \in {i \in FullPeers(r, k) : \A j \in Stuck(r, k) : i < j}}

(* Mutation of Drained: operations may be active. *)
DrainedInUse(r, k) == LocalFull(r, k)
(* A drained owner clears its space only when nothing uses it. *)
Drained(r, k) == LocalFull(r, k) /\ Active(r) = {}

Extend(r, k) ==
    LET drain == Drained(r, k)
        reset == ResetPeers(r, k)
        h == [p \in Ranks |-> IF p \in reset THEN 0 ELSE OwnHead(r, drain)[p]]
    IN  /\ MayAllocate(r, k) /\ status[r][k] # "reconfig"
        /\ ConfigOf(r, k) = config[r]
        /\ LocalFull(r, k) => drain
        /\ net' = net \cup ClearSignals(r, k, drain, peers[r])
        /\ clears' = [clears EXCEPT ![r] =
                        [p \in Ranks |-> IF p \in reset THEN @[p] - 1 ELSE @[p]]]
        /\ IF Stuck(r, k) = {} THEN Allocate(r, k, h)
           ELSE /\ clearSent' = [clearSent EXCEPT ![r] = @ \/ drain]
                /\ status' = [status EXCEPT ![r][k] = "waiting"]
                /\ head' = [head EXCEPT ![r] = h]
                /\ UNCHANGED pos
        /\ UNCHANGED <<script, reqRoot, freeReqs, config, peers, stage, arrived>>

----------------------------------------------------------------------------
(* The operations themselves, after their allocation.  A dissemination takes
   every address from the position that it noted for its first peer
   (gasnete_coll_scratch_addr with index 0). *)
TargetPos(r, k, p) ==
    pos[r][k][IF IsTree(script[k]) THEN p ELSE OutPeers[script[k], r][1]]

Signals(r, k, type, i, to) ==
    {[type |-> type, op |-> k, phase |-> i, from |-> r, to |-> p] : p \in Range(to)}
Puts(r, k, i) == Signals(r, k, "data", i, SendsTo[script[k], r][i])
Readies(r, k, i) == Signals(r, k, "ready", i, ReceivesFrom[script[k], r][i])
Has(r, k, type, i, from) ==
    \A p \in Range(from) :
        [type |-> type, op |-> k, phase |-> i, from |-> p, to |-> r] \in arrived[r]

(* End of an operation: its request goes to the front of the free list. *)
Finish(r, k) ==
    /\ status' = [status EXCEPT ![r][k] = "done"]
    /\ freeReqs' = [freeReqs EXCEPT ![r] = <<reqRoot[r][k]>> \o @]

(* A rank of a tree waits for those it receives from, sends, and is done. *)
TreeStep(r, k) ==
    /\ status[r][k] = "active" /\ IsTree(script[k])
    /\ Has(r, k, "data", 0, ReceivesFrom[script[k], r][0])
    /\ net' = net \cup Puts(r, k, 0)
    /\ Finish(r, k)
    /\ UNCHANGED <<script, reqRoot, allocVars, stage, arrived>>

(* A phase of a dissemination sends and waits for its data.  In an exchange a
   rank first tells those it receives from that it is ready, and sends when it
   was told so: stage is twice the phase, plus one once it is ready. *)
DataOf(r, k, i) == i > 0 => Has(r, k, "data", i - 1, ReceivesFrom[script[k], r][i - 1])

DissemOpen(r, k) ==
    LET i == stage[r][k] \div 2
        ready == script[k].kind = "exchange"
    IN  /\ status[r][k] = "active" /\ ~IsTree(script[k])
        /\ stage[r][k] % 2 = 0 /\ i < Phases[script[k]]
        /\ DataOf(r, k, i)
        /\ net' = net \cup IF ready THEN Readies(r, k, i) ELSE Puts(r, k, i)
        /\ stage' = [stage EXCEPT ![r][k] = IF ready THEN @ + 1 ELSE @ + 2]
        /\ UNCHANGED <<script, status, reqRoot, freeReqs, allocVars, arrived>>

ExchangeSend(r, k) ==
    LET i == stage[r][k] \div 2
    IN  /\ status[r][k] = "active" /\ stage[r][k] % 2 = 1
        /\ Has(r, k, "ready", i, SendsTo[script[k], r][i])
        /\ net' = net \cup Puts(r, k, i)
        /\ stage' = [stage EXCEPT ![r][k] = @ + 1]
        /\ UNCHANGED <<script, status, reqRoot, freeReqs, allocVars, arrived>>

DissemEnd(r, k) ==
    /\ status[r][k] = "active" /\ ~IsTree(script[k])
    /\ stage[r][k] = 2 * Phases[script[k]] /\ DataOf(r, k, Phases[script[k]])
    /\ Finish(r, k)
    /\ UNCHANGED <<script, reqRoot, allocVars, stage, net, arrived>>

(* A handler or a signalling put arrives. *)
Deliver(m) ==
    /\ net' = net \ {m}
    /\ IF m.type = "clear"
       THEN /\ clears' = [clears EXCEPT ![m.to][m.from] = @ + 1]
            /\ UNCHANGED arrived
       ELSE /\ arrived' = [arrived EXCEPT ![m.to] = @ \cup {m}]
            /\ UNCHANGED clears
    /\ UNCHANGED <<script, status, reqRoot, freeReqs, config, peers, head,
                   clearSent, pos, stage>>

Poll(r, k) ==
    \/ WaitBehind(r, k) \/ MismatchWaits(r, k) \/ FullWaits(r, k)
    \/ Reconfigure(r, k) \/ Extend(r, k)
    \/ TreeStep(r, k) \/ DissemOpen(r, k) \/ ExchangeSend(r, k) \/ DissemEnd(r, k)

Next ==
    \/ \E r \in Ranks, k \in Ops : Create(r, k) \/ Poll(r, k)
    \/ \E m \in net : Deliver(m)

Spec == Init /\ [][Next]_vars

(* Clients start all operations and poll; the network delivers. *)
Fairness ==
    /\ \A r \in Ranks : WF_vars(\E k \in Ops : Create(r, k))
    /\ \A r \in Ranks : WF_vars(\E k \in Ops : Poll(r, k))
    /\ WF_vars(\E m \in net : Deliver(m))

FairSpec == Spec /\ Fairness

----------------------------------------------------------------------------
(* The bytes of rank r that operation k may still write or read there: what r
   itself took, and what a sender took for its puts, until k is done at r. *)
Claims(r) ==
    {[op |-> k, pos |-> pos[r][k][r]] : k \in Active(r)} \cup
    UNION {{[op |-> k, pos |-> TargetPos(p, k, r)] :
              k \in {k \in Ops : /\ status[p][k] \in {"active", "done"}
                                /\ status[r][k] # "done"
                                /\ r \in Range(OutPeers[script[k], p])}} : p \in Ranks \ {r}}

(* No two operations ever share bytes of a rank's scratch space, and all ranks
   agree on where an operation's bytes are, although each computes the
   positions from its own mirrors: a put never overwrites data of another
   operation and never misses its own (check_remote_alloc,
   check_remote_clear, scratch_addr). *)
NoOverlap ==
    \A r \in Ranks : \A c, d \in Claims(r) :
        IF c.op = d.op THEN c.pos = d.pos
        ELSE \/ c.pos + Incoming[script[c.op], r] <= d.pos
             \/ d.pos + Incoming[script[d.op], r] <= c.pos

(* Every operation ends on every rank: no clear signal is lost, sent to a
   rank that does not wait for it, or taken by the wrong operation. *)
OpsComplete == <>(\A r \in Ranks, k \in Ops : status[r][k] = "done")
=============================================================================
