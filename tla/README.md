# GASNet: a TLA+ model

This directory models parts of GASNet-EX as TLA+ modules that TLC checks and
about which TLAPS proves theorems: its reference barriers, the AMUDP transport,
events and AM-based transfers, the shared-memory network between processes of a
node, the lock-free list and the semaphore, the on-demand connections of the
ibv conduit, the scratch space of the collectives, and the cache of registered
memory (Firehose). Paths are relative to
the repository. `RB` is `src/extended-ref/gasnet_extended_refbarrier.c`, `RR`
`src/other/amudp/amudp_reqrep.cpp`, `IBC`
`src/ibv-conduit/gasnet_core_connect.c`, `COLL/` `src/extended-ref/coll/`, and
`FH/` `src/other/firehose/`.

`PROJECT.json` lists the runs, what each definition models (file, lines,
symbol), the mutations that each property detects, the hazards of the code, the
findings and the theorems.

    tlc -config amc.cfg MCAMCBarrier         a run: <name>.cfg with its module
    tlapm AMCBarrierProofs.tla               the proofs

## 1. Inventory

GASNet is a portability layer for one-sided communication. A *conduit*
implements the core API (Active Messages: a request runs a handler at the
target, which may send one reply) over a network; the reference implementation
in `extended-ref/` builds gets, puts, barriers, atomics and collectives from
the core API. Clients may be multi-threaded; progress is made by threads that
poll, and a poll also runs *progress functions* registered by the barrier,
collectives and vector code.

| Component | State | Operations | Why it is hard | What makes it correct | Status |
|---|---|---|---|---|---|
| Barriers (`RB`) | phase, accumulator of (id, flags) per phase, counters or step flags, a lock, an enabled progress function | notify, wait, try, result; AM handlers; kick | split phase: two consecutive barriers overlap; handlers, pollers and the client's thread interleave, partly outside the lock; unordered messages | nobody leaves early; the outcome is that of all notifications; every barrier completes | central, dissemination and shared-memory modelled |
| AMUDP (`other/amudp`) | per peer and instance a request and a reply descriptor (sequence number, buffer), the tx ring of outstanding requests, rx FIFO, reply epoch | request, asynchronous request, reply, poll, timeout, returned message | datagrams are lost, repeated, reordered; 6-bit sequence numbers; blocking calls poll recursively; two bounds on outstanding requests | a handler runs once, a reply matches its request, every request completes | request/reply protocol modelled |
| AMUDP job control (`amudp_spmd.cpp`, `amudp_spawn.cpp`) | TCP connections to the master, exit state | spawn, barrier, exit, fatal exit | process failures during start-up and exit | every worker exits | no: processes and sockets |
| Events (`gasnet_event.c`) | eops, iops and their initiated/completed counters, per-thread free lists with a half for other threads, access regions | new, mark done, test one or an array, leaf events, begin/end region | completion handlers run on any thread; events freed by other threads; a root is freed while its leaves are in the same array | an event is done once, after all its operations; nothing is freed twice or into another thread's list | modelled but for a few operations |
| AM-based extended API (`gasnet_extended_amref.c`) | operation handles carried in AM arguments | get, put, chunked transfers | long transfers are cut in pieces that complete in any order | done once all pieces are | get and put modelled, with events |
| PSHM network (`gasnet_pshm.c`) | shared-memory payload queues between processes, allocator, AM poll | allocate, send, receive, release; request, reply, poll, prepare, commit, cancel | lock-free queues shared by processes; blocks are coalesced while others free them; a full allocator polls | each message once, FIFO, buffers recycled; no circle of waiting processes | modelled |
| Lock-free tools (`gasnet_syncops.h`) | LIFO with tag, semaphore, mutex wrappers | push, pop, push many; up, down, partial down | ABA, limits, retries after a lost swap | no element lost or duplicated; no unit created | LIFO and semaphore modelled |
| Negotiated payload (`gasnet_am.c`) | per-thread source descriptor | prepare, commit, cancel | state across two calls | one commit for each prepare | its PSHM half, in `AMPSHM` |
| Remote atomics (`extended-ref/ratomic`) | domain, per-type operation tables | AM or direct operations | mixture of paths on one word | atomicity in a domain | planned |
| Collectives (`extended-ref/coll`) | active operations, consensus barriers, scratch space, trees, teams | start, poll, consensus, scratch allocate/free | every rank must poll the same operations in the same order; scratch is shared over time, and a rank tracks its peers' space by itself | scratch is never used by two operations; every operation ends; consensus pairs up | scratch space and the operations that use it modelled |
| Autotuner (`gasnet_autotune.c`) | timing tables | search | performance only | - | no |
| Vector, indexed, strided (`extended-ref/vis`) | packing buffers | put/get with packing | address arithmetic | the same bytes move | later |
| Firehose (`other/firehose`) | tables of registered regions, its own and its peers', with reference counts; victim FIFOs; counters against limits | local pin, remote pin, release; move request and reply handlers | a distributed cache: both sides count, messages cross, regions merge, evicted ones are asked for again; registration is done without the lock; waiting calls poll | a region in use stays registered; counts are exact; nothing waits when nobody can move | region variant modelled |
| Teams (`gasnet_tm.c`) | rank translation, hierarchy | split, create | collective construction | same view on all ranks | later |
| ibv connections (`ibv-conduit/gasnet_core_connect.c`) | per node pair a connection entry with a state, queue pairs, a retransmission timer | connect, request, reply, ready-to-use, ack datagrams; first AM | both nodes start at once; datagrams are lost or repeated; an AM may overtake its acknowledgement | queue pairs go through their states in order; an entry is not freed in use; a call to connect returns | modelled |
| Rest of ibv | send queues, credits, RDMA, bounce buffers, exit | | vendor verbs | - | no |
| ofi, ucx, mpi, smp, udp conduits | endpoints, exit coordination | core API | vendor networks; exit races | - | no: wrappers or external semantics |
| Segments, start-up, tools, tracing, spawners, AMMPI, vendored code | | | | | no |

How they interact: `gex_Coll_Barrier` and the collectives call the barrier
through function pointers in the team; barriers send core AM requests; on the
udp conduit a core request is `AMUDP_Request*` under one global lock
(`AMLOCK`), which blocks by polling, and polling runs AM handlers (including
the barrier's and the collectives') and, after them, the progress functions.
Handlers may reply but not request. This is why a barrier's handlers take only
short locks, why kick sends after it unlocks, and why the parts can be
modelled apart: the barrier, event and collective modules see a reliable
unordered network (what AMUDP provides, `AMChannel`), and AMUDP sees clients
that poll. Processes of one node exchange their core requests over PSHM
instead: `AMPSHM` is that path over the buffers and queues of `PSHMNet`.
On ibv, the first request to a node opens the connection (`IBVConnect`). The
semaphore guards ibv's send queues, the LIFO its free lists of buffers, and
Firehose the registrations that its RDMA needs.

## 2. Modules

| Module | Role |
|---|---|
| `BarrierNaming` | the (id, flags) rule: how an accumulator absorbs notifications (`Merge`), what wait returns (`Retval`), and the reference meaning over the *set* of all notifications (`Mismatched`, `Promised`) |
| `BarrierSpec` | abstract split-phase barrier: notify; leave once everybody notified, with the promised outcome |
| `AMCBarrier` | the central barrier, RB 1664-1910 |
| `AMDBarrier` | the dissemination barrier, RB 695-1125 and 2150-2180 |
| `BarrierNamingProofs` | lemmas about `Merge` and `Summarises`, which the proofs about all three barriers use, and `LeastElement` |
| `AMCBarrierProofs` | theorems about `AMCBarrier` |
| `AMDBarrierProofs` | arithmetic and invariant lemmas, then the theorems about `AMDBarrier` |
| `AMChannel` | abstract request/reply slot: send, run once, complete with the request's own reply |
| `AMUDP`, `AMUDPProofs` | the protocol of RR, theorems |
| `EventSpec` | abstract operation: open, closed, its categories' events fire once after their transfers |
| `Events`, `EventsProofs` | eops, iops, leaves, array tests, regions and AM-based transfers, theorems |
| `PSHMSpec` | abstract network of exclusive buffers and FIFO queues |
| `PSHMNet` | the allocator and the queues of `gasnet_pshm.c`, step by step |
| `AMPSHM` | requests and replies over them, one call at a time |
| `LifoSpec`, `Lifo` | abstract stack, the tagged lock-free list |
| `Semaphore` | the counting semaphore with compare-and-swap |
| `SharedMemoryProofs` | theorems about `Lifo`, `Semaphore`, `PSHMNet` and `AMPSHM` |
| `IBVConnect`, `IBVConnectProofs` | the connection protocol of IBC, theorems |
| `PSHMBarrier`, `PSHMBarrierProofs` | the shared-memory tree barrier, RB 127-669, theorems |
| `Scratch` | scratch space of the collectives, and the operations that use it |
| `Firehose` | the cache of registered memory, `FH/firehose.c` and `FH/firehose_region.c` |
| `MCComponents`, `MCMemory` | components that share no state, side by side in one run |
| `MC...` | the values of the constants for TLC |

### 2.1 Barriers

Names are those of the code: `phase`, `response_done`, `count`, `consensus`
are the fields `amcbarrier_*`; `step`, `step_done`, `recv`, `local` the fields
`amdbarrier_*`. `client[r]` is the program counter of the client's thread on
rank r between the points where another thread or a handler can run; `kick[t]`
is that of the kick function on thread t. The variables of `BarrierSpec`
(`epoch`, `completed`, `args`, `outcome`) are carried along as history; the
refinement mapping is the identity.

| Code | `AMCBarrier` | `AMDBarrier` |
|---|---|---|
| notify | `Notify`, `Send` (flip the phase; the send may poll) | `Notify`, `NotifyFlip`, `NotifySend` |
| notify AM handler | `NotifyReqh` | `NotifyReqh` (merge under the lock), `NotifyReqhDone` (set step_done outside it) |
| done AM handler | `DoneReqh` | - |
| kick | `KickCall`, `KickEnter` (unlocked look), `KickLocked`, `KickSend` (one AM at a time) | the same; `KickEnter` is the trylock |
| wait, try | `Wait`, `Try`, `TryFail`, `Leave` | the same |

Who kicks: a thread in wait; a thread in try, once; and any thread that polls
while the progress function is enabled. The enabled flag is read before kick
is entered and may be stale. `Pollers` (leader) and `Helped` (ranks with a
second thread) add threads that only poll. A critical section is one step
unless other code reads its variables without the lock; then it is split there.

The network is reliable, unordered and delivers a message once. Messages
carry the epoch as history only. Process-private memory is sequentially
consistent: the code's `gasneti_sync_*` fences are taken to do their work.

Not modelled: the intra-node half of a hierarchical barrier
(`GASNETI_PSHM_BARRIER_HIER`), the RDMA dissemination barrier, and
`GASNETE_SPLITSTATE_CHECK`'s error for illegal call sequences: clients
alternate notify and a successful wait or try.

`PSHMBarrier` is the barrier of the processes of one node over shared memory:

| Code | `PSHMBarrier` |
|---|---|
| `init_inner` | `Children` (cells of the tree), `PSHMBarrierInit` |
| `notify_inner` | `Notify` |
| `kick`, `arrive` | `Kick` (all children's signals seen), `Arrive`, `Publish` (the root writes value and flags), `Signal` (and only then the phase) |
| `wait_inner`, `finish_pshm_barrier`, `result` | `SeeDone`, `Finish`, `Result` |

### 2.2 AMUDP

A slot `<<s, d, i>>` is instance i of s's requests to d: the request
descriptor at s and the reply descriptor at d.

| Code | `AMUDP` |
|---|---|
| `AMUDP_RequestGeneric` | `Request` (and its first poll), `Acquire`, `Await` (the first BLOCKUNTIL), `Send` (after the wait for sendDepth), `SendFails` |
| `AMUDP_RequestXferVA` with `async` | `RequestAsync`, `AsyncInUse` (AM_ERR_IN_USE), `AsyncGoesOn` |
| `AM_Poll` | `Poll`; one action for each datagram processed; then the timeout check |
| `AMUDP_processPacket` | `AcceptRequest`, `ResendReply`, `AcceptReply`, `LateReply`, `Ignore`, `Refuse`, `Returned` |
| `AMUDP_HandleRequestTimeouts` | `NoTimeout`, `Retransmit`, `Undeliverable`; `StrayAccess` is the next use of a bad check position |
| kernel and network | `net`, `Lose` |

- The variable `env` never changes. It is the environment a behaviour runs in,
  chosen at the start from the constant `Environments`: who talks to whom
  (`nodes`, `pairs`), instances per pair (`depth`), the limit of outstanding
  requests (`sendDepth`), delay (`maxLag`), retries (`maxRetry`), whether the
  network loses datagrams, endpoints refuse, calls are asynchronous, handler 0
  aborts (`lossy`, `refusals`, `async`, `fatal`), and the bound on requests
  (`maxSeq`). So one run asks its question of several networks and clients.
- `reqSeq` and `repSeq` are unbounded counts; every comparison of the code goes
  through `SeqNum`, the 6-bit field (2 bits in the runs), so the endpoints know
  as little as the code does while properties can name requests.
- `net` stands for the sockets, the network and the rx FIFOs. Delivering does
  not remove a datagram, so everything may be duplicated and reordered. `Lose`
  acts on arrival: nobody can tell when earlier a datagram was lost. A datagram
  may not be later than `maxLag` requests of its slot, with `maxLag + 2 <=
  SeqMod`: the assumption under which sequence numbers modulo 64 work. The
  warning at RR 696-699 ("might (rarely) lead to corruption of AMUDP traffic")
  concedes what happens outside it.
- A handler and its reply are one step: nothing can run between them at that
  endpoint, and an automatic reply looks like the client's.
- One lock serialises an endpoint, so an endpoint has one thread here.
- Time is nondeterministic: any request may be found expired when the check
  position passes it.
- Not modelled: loopback messages (run synchronously), payload copies, buffer
  pools, hard send errors of replies and retransmissions, the several checks a
  blocked poll makes in one pass (they are several empty polls here), growth of
  socket buffers and translation tables.

### 2.3 Events and AM-based transfers

| Code | `Events` |
|---|---|
| `gasnete_eop_new`, `eop_alloc`, `iop_new`, `iop_free` | `gasnete_eop_new`, `NewEop`, `EopChunk`, `NewIop`, `Reused`, `Freed`; `Available` and `TakeFrom` are the free list and its foreign half |
| `gasnete_begin/end_nbi_accessregion` | the same names; `Armed` and `Balanced` hold the offset that keeps the events of an open region from firing |
| `GASNETE_IOP_CNT_FINISH` | `CountersMeet` and `finish_compare`: the handler's increment and comparison |
| `gasnete_op_try_free` (single test) | `gasnete_test_root`, `gasnete_test_leaf` |
| `gasnete_test_array` | `test_array_pass1`, `test_array_pass2`; `BatchFor` puts a synced op on one of the four lists (`Batches`), `test_array_free` frees them: the ops of the owner seen first as a whole, each other one under its own lock; `test_array_return` when there is nothing to free |
| get, put, their handlers | `amref_nb_eop`, `amref_nb_region`, `amref_nbi`, `amref_nb_end`, `reqh`, `reph` |

An operation is `EventSpec`'s operation; the refinement maps its counters and
the messages in flight to `owed` and `fired`. A record's storage is the same
before and after it is freed and reused, so a late completion of an earlier use
would show. Pollers run handlers; any poller may run any handler. Not modelled:
leaf categories for remote atomics, the local-completion leaf of an eop, value
gets and puts, memset, `gasnete_syncnbi_mask`, thread exit. The four additions
that end a region are one step; counters do not wrap. With `StatsOrTrace =
TRUE` the model has the reset of a build with statistics, which the run leaves
out and the theorems exclude (section 5: `ImplementsEvents` then fails).

### 2.4 The shared-memory network

`PSHMNet` follows `gasneti_pshmnet_alloc` block by block and the queue
operation by operation: `deliver_swap` and `deliver_link` are the two halves of
a send; `recv_fetch`, `recv_clear`, `recv_next`, `recv_cas`, `recv_take` those
of a receive; `recv_release` frees in another process while `Merged` coalesces.
`Starts` are the pages that the code reaches by adding lengths, as a least set
and not by recursion; `Merged` ends at the first of them where the loop of
`gasneti_pshmnet_alloc` stops. Others only clear flags and a turn reads each flag
once, so a turn of the scan is one step. `Order` is the list that the tail swaps
have made of a queue, read off its links and the messages still to be linked.
It refines `PSHMSpec`. `AMPSHM` takes one level less detail (a buffer is held,
queued or free; a call is the sequence of its lock, allocation and commit) and
adds what the network does not know: a request that finds no buffer polls
requests and replies, a reply only replies (`RepliesOnly`), an immediate call
gives up, a prepared request may be cancelled.

### 2.5 LIFO and semaphore

`Lifo` has one action for each load, store or double-word swap of
`_gasneti_lifo_push` and `_gasneti_lifo_pop`: head and tag are read apart, the
link of an element is read when another thread may already own it, and an owner
may write anything there (`UseNode`). It refines `LifoSpec`, with the swap as
the linearization point. `Semaphore` has a read and a swap for each turn of
trydown. `SemaNext` has the calls up and trydown; `SemaNextPartial` adds
`gasneti_semaphore_trydown_partial` and is what the run `sema_partial` checks.
Builds with LL/SC, mutexes or add-and-subtract are not modelled (in the
add-and-subtract build of `trydown_partial` the returned amount is not what
remains subtracted either, `gasnet_syncops.h` 242-258).

### 2.6 Connections of the ibv conduit

Each end of the pair has an entry (`gasnetc_conn_t`), a queue pair with a
state, and threads that connect.

| Code | `IBVConnect` |
|---|---|
| `gasnetc_connect_to` | `StartConnect`, `JoinConnect`, `ReplySeen`, `AckSeen`, `ConnectReturns` |
| `gasnetc_conn_rcv_wc` | `Arriving` (by state and command), `RecvREQ`, `BecomePassive`, `BecomePassiveToo` (both started), `Again`, `RecvREP`, `RecvRTU`, `RecvACK`, `RecvIgnored` |
| timer | `TimerExpires`, `Retransmit`, `ReplyAges` |
| `gasnetc_qp_*` | `gasnetc_qp_create` ... `gasnetc_qp_rtr2rts` |
| first AMs | `AMRequest`, `AMArrives`, `gasnetc_conn_implied_ack` |

Datagrams are unordered, lost up to `MaxLosses` and repeated by
retransmission. Not modelled: the fatal error after the last retry, XRC, the
credits of datagrams, a connection to oneself, the estimate of round-trip time.

### 2.7 Scratch space of the collectives

Every rank of a team has a region of `ScratchSize` bytes that its peers write.
A rank knows from its mirror alone where the next operation's bytes are at each
peer, and learns only by counted clear signals that a peer drained. A
*configuration* is a kind of operation with its tree or dissemination order;
changing it means to drain, and to tell the old peers.

| Code | `Scratch` |
|---|---|
| `gasnete_coll_op_generic_init_with_scratch`, `generic_*_nb` | `Create` (a member of `Scripts` gives each rank the same operations in the same order); `PopRoot` and `RequestRoot` are what the recycled request keeps |
| `gasnete_coll_scratch_alloc_nb` | `WaitBehind`, `MismatchWaits`, `FullWaits`, `Reconfigure`, `Extend` |
| `gasnete_coll_free_scratch`, `send_updates`, `update_reqh` | `Finish`, `ClearSignals`, `Deliver` |
| polls (`gasnet_putget.c`) | `TreeStep` (broadcast, gather), `DissemOpen`, `ExchangeSend`, `DissemEnd` |
| `gasnet_trees.c` | `Parent`, `Children`, `Subtree`; `Phases`, `Fan`, `FrontPeers`, `BehindPeers`, `MaxBlocks` |

Exchanges of different radix compare as the same configuration although their
peers may differ (the comment at `gasnet_scratch.h` 38 says that the radix is not
needed); the scripts do not mix radices of exchanges, and with three ranks every
radix has the same two peers, so no run shows what a mix does. Not modelled: the barriers that consensus adds before and
after an operation, algorithms without scratch, reductions, scatter, the
construction of trees (the shape is a constant), and the fatal error for an
operation larger than the space.

### 2.8 Firehose

Each node has a table of its own regions, `local[n]`, and for each peer a table
of what that peer keeps registered for it, `remote[<<n, peer>>]` (a *firehose*
is one of the M entries it may have there). `registered[n]` is what the
client's callback really registered; a region may be registered several times
at once, so a registration has a number.

| Code | `Firehose` |
|---|---|
| tables 1 and 2 of buckets, `fh_create_priv`, `fh_update_priv`, `fh_destroy_priv` | `best` (the table that lookups use), `fh_bucket_hash`, `Hashed`, `fh_destroy_priv`; `Covered` are victims that no lookup finds |
| `fh_priv_acquire_local`, `fh_priv_release_local` | the same; `lonly` is `fhc_LocalOnlyBucketsPinned` |
| `fh_acquire_local_region` | `firehose_local_pin` up to the first unlock; then `FinishMiss` after the registration, `fh_WaitLocalFirehoses` (a poll finds a place), `fhi_wait_for_one` and `FinishWait`, `FinishDuplicate` |
| `fh_acquire_remote_region` | `firehose_remote_pin` (hit, hit on a pending entry, miss within the budget, miss with a victim, wait), `NewFirehose`, `fh_WaitRemoteFirehoses` |
| `fh_am_move_reqh`, `fh_move_request` | `fh_move_request` up to the unlock, `FinishMove` and the reply |
| `fh_am_move_reph` | `fh_find_pending_callbacks` with the clients' callbacks |
| `firehose_release` | `fh_release_local_region`, `fh_release_remote_region` |

What a section under `fh_table_lock` does is one action. The call of
`firehose_move_callback` in between is made without the lock, and its effect is
shown with the section after it. Messages are unordered. Local release also
calls `fh_AdjustLocalFifoAndPin`, which does nothing there: `CountsExact` says
that the limit is kept. Among entries of equal region on one page the code
promotes the first of a hash chain; the model takes some fixed one. Options are
those of ibv-conduit: remote callbacks off, completions run in the handler,
`FH_MAY_MERGE` always. Not modelled: the page variant, try and partial pins,
descriptors' free lists, prepinned regions, registrations that fail, the
computation of the limits.

### 2.9 `MCComponents` and `MCMemory`

The components of 2.3 to 2.6 and `PSHMBarrier` share no state in the model.
Init chooses one of them (`part`), which alone takes steps, so their reachable
states add up instead of multiplying; each property is checked in every
behaviour of its own component and holds trivially in the others'. `MCMemory`
does the same with `Scratch` and the three environments of `MCFirehose`, and
`MCAMDThree` joins two environments of the dissemination barrier.
`TypesOK` is, for the part that runs, its type invariant within the inductive
invariant of its proof. `ComponentsSettle` is the conjunction of the parts'
liveness, `PlacesSound` that of `CountsExact` and `NeverStuck`.

All models of shared memory are sequentially consistent: where the code has
`gasneti_sync_*` fences they are taken to do their work, and where it has none
each load and store is a step of its own.

## 3. Runs

| Run | Instance | Shows |
|---|---|---|
| `amc` | 2 ranks, 2 barriers, notify with two names or none, 1 poller on the leader | types, nobody early, the assertion of `done_reqh`, the inductive invariant, refinement of `BarrierSpec`, completion |
| `amd_three` | 3 ranks (2 steps) in two environments: one name, 2 barriers, poller on rank 0, which may try; two names, 1 barrier, no poller | messages, phases and steps of neighbouring barriers never mix; no step is lost; the outcome is right although the last step covers some ranks twice |
| `amd` | 2 ranks, 2 barriers, name or none, poller on rank 0 | types, the inductive invariant, completion |
| `udp` | three environments: 1 pair with 2 instances and 6 or more requests each, SeqMod 4, lag 2; 1 pair with losses, refusals, 1 retry, then abort; 1 node that sends to two peers, sendDepth 1, with refusals, 1 retry, a handler 0 that returns, asynchronous calls | the window wraps more than once; at most once and own reply up to the abort; the tx ring is exactly the outstanding requests; refinement of `AMChannel` |
| `udp_liveness` | both directions, 1 instance, losses | requests complete, blocked calls return |
| `components` | seven components (2.9) | types, with the inductive invariants of the proofs about events, network, AMs, stack, semaphore, connections and the shared-memory barrier (`TypesOK`); events and their storage (`OneHome`, `NoLeafLeftBehind`, `ArrayResultTrue`, refinement of `EventSpec`); the network's blocks (`AllocatorSound`, refinement of `PSHMSpec`); buffers of AMs and their answers (`BuffersConserved`, `AnsweredOnce`), calls end; stack (`LinksMakeStack`, refinement of `LifoSpec`); units (`UnitsConserved`); connections (`PeerReady`, `EntryStillHeld`), they settle (`ComponentsSettle`, with the AMs' calls); the shared-memory barrier refines `BarrierSpec` |
| `memory` | scratch space: 3 ranks on a chain, 6 bytes, 5 scripts of 2 or 3 operations; Firehose: 2 nodes, 3 pages, regions up to 2, three environments | no two operations share bytes, every operation ends; what is held is registered (`PinnedInUse`), counts agree with uses and nobody waits for nobody (`PlacesSound`) |
| `udp_async` | 1 pair, 3 instances | finding 1 |
| `udp_position` | 1 pair, 1 retry, a handler 0 that returns | finding 2 |
| `sema_partial` | 2 threads, limit 3, wants 2 or 3 | finding 3 |
| `scratch_root` | 2 ranks: broadcast from rank 1, two gather-alls | finding 4 |
| `firehose_used` | 3 pins of one node | finding 5 |

Bounds. `MaxEpoch` bounds the barriers and `maxSeq` the requests of a slot;
both only disable new calls. Two barriers use both phases, and a rank that
finished the first is in the second while another is still in the first, which
is as far apart as ranks get (`Awaited` in `EveryMessageIsAwaited`, proved for
the central barrier and the dissemination barrier). Three ranks are the least with two dissemination steps
and the least where the last step overlaps. `amd_three` restricts the
environment further (`MCAMDThree`). With conflicting names, ranks kick only in
wait and the names are in order of the ranks, which loses nothing, as `Peer`
adds modulo N and any other choice is a rotation of one of these; with a
poller, only rank 0 tries. Two threads are what a race in kick
needs. For AMUDP the window of 4 with lag 2 is the tightest that the assumption
allows, and 6 requests wrap it; two instances and two peers are what competes
for a descriptor and for the ring. The case N = 1 of both barriers is a branch
of `Send` and of `Notify`; the theorems cover it for both, the runs have N > 1.

`components`: events have 2 threads of which 1 starts operations (the other
frees), 2 pollers, 2 transfers, 3 iops, 1 eop, 2 nested regions and transfers of
2 pieces: the least with which an operation is freed by a stranger, reused, and
completed by two handlers at once. The queue has 2 senders in one process and 2
receivers in another, 2 pages, messages of 1 or 2 pages: blocks are split,
merged and reused. The AMs have 2 clients in different processes with 1 buffer
each, both of which may be full at once. The LIFO has 2 threads, 2 elements,
chains of 2, tags up to 3: an element comes back under a thread that has read
it. The semaphore has 3 threads and 2 units, a connection 3 threads on 2 ends,
1 loss and 1 early AM, the barrier 3 ranks in a flat tree and in a chain, twice.
`memory`: 3 ranks are the least with a middle rank in a tree and two phases of
a dissemination; 6 bytes make the third operation wait, and the five scripts
hold each kind of operation and each kind of change. Firehose has 3 pages and
regions of up to 2, so regions merge, overlap and cover one another; 2 local
places and 3 firehoses, of which 4 or 5 calls need more. The environments are
two threads of one node against one of the owner (crossing counts, duplicate
registrations), three pins of one node (victims, covered entries, hits on
pending ones), and two of the owner's threads with one remote pin (no place).

`udp`, `udp_position`, `components`, `memory` and `firehose_used` do not check for deadlock: a
process that aborted or crashed stops, a scripted rank ends, and a bounded
component comes to rest.

### Fairness

- Barriers: the network delivers (`Deliver`; the handler at rank level may be
  kept out by the lock, hence strong for the dissemination barrier); a thread
  that entered kick is scheduled until it leaves; a thread in wait keeps
  calling kick; a client that notified calls wait or try sooner or later,
  however often it polls before (strong, as each poll disables it for a
  while). A poller outside kick and a client that has not notified are free to
  do nothing, so `BarrierCompletes` says "once everybody notified".
- AMUDP: a client keeps polling and a poll ends; a call that can go on does; a
  request that is checked again and again is retransmitted (its timer
  expires); of what is sent again and again the network loses not every copy
  (strong fairness of the accepting steps). Lost datagrams, late replies and
  refusals have no fairness.
- AMs over PSHM: a thread inside a call goes on, and polls while it waits for a
  buffer, as the code's loops do. Nobody else need poll.
- Connections: a thread that connects takes its steps, a datagram or AM that
  arrived is handled (progress thread), and a timer that is armed again and
  again expires (strong: other events of the poll loop disable it for a while).
- Collectives: a client starts its next operation, each rank polls, and clear
  signals and puts arrive. Nothing is said about their order.
- Firehose: none. The number of calls is bounded, so a behaviour can only stop;
  `NeverStuck`, checked in every state, says that where a call waits some step
  is possible that starts no other call: a poll that finds a place, a message, a
  thread that is not waiting, or a release by a client that holds a region. It
  has one exception, which the code has too: `fhi_wait_for_one` may wait for a
  second place while the call holds one, and as many calls in that situation as
  there are places wait for each other (the TODO at `FH/firehose.c` 999-1000
  concedes that polling is not deadlock-free).

## 4. Proofs

Ten components are proved correct for every value of their constants: the
three barriers, the AMUDP protocol, events and AM-based transfers, the
shared-memory network and Active Messages over it, the lock-free list, the
semaphore and the connections of ibv. Each proof has the same plan. The module of the component ends with an
inductive invariant, a conjunction of named parts. One lemma for each action
shows that the action keeps the invariant, `NextInv` puts them together, and the
safety properties and the refinement follow from `Invariance`.

| Module | Theorem | States |
|---|---|---|
| `AMCBarrierProofs` | `Invariance`, `TypeCorrectness`, `BarrierSafety`, `DoneSafety`, `Refinement` | nobody leaves early; the assertion of `gasnete_amcbarrier_done_reqh` cannot fail; `Spec` implies `BarrierSpec` |
| `AMDBarrierProofs` | `Invariance`, `TypeCorrectness`, `BarrierSafety`, `MessagesAwaited`, `Clean`, `Knowledge`, `NoStepIsLost`, `Refinement` | nobody leaves early; the five properties of the runs; `Spec` implies `BarrierSpec` |
| `PSHMBarrierProofs` | `PSHMInvariance`, `PSHMTypeCorrectness`, `PSHMBarrierSafety`, `PSHMRefinement` | nobody leaves early; the barrier implies `BarrierSpec` |
| `AMUDPProofs` | `Invariance`, `TypeCorrectness`, `InStepAlways`, `DiscardedAreStale`, `RepliesAreBuffered`, `RingsHoldOutstanding`, `Refinement` | all safety properties of the run `udp`; AMUDP implies `AMChannel` |
| `EventsProofs` | `EventsInvariant`, `OpsHaveOneHome`, `NoLeafIsLeft`, `ArrayResults`, `EventsRefine` | an operation is in one place; no leaf outlives its operation; array tests tell the truth; events implement `EventSpec` |
| `SharedMemoryProofs` | `LifoCorrect`, `LifoRefines` | the links are the abstract stack; the list implements `LifoSpec` |
| | `SemaphoreConserves` | no unit is lost or made by racing swaps |
| | `NetInvariance`, `NetworkMemory`, `NetworkRefinement` | pages are neither lost nor handed out twice; the network implies `PSHMSpec` |
| | `AMInvariant`, `AMBuffersConserved`, `RequestsAnsweredOnce`, `SendLocksExclusive` | a buffer is free, held or queued, once; a request is answered at most once; who allocates has the lock |
| `IBVConnectProofs` | `ConnectInvariance`, `ConnectTypeCorrectness`, `PeersReady`, `EntriesHeld`, `OneYields` | queue pairs go through their states in order; who sends has a ready peer; no entry is freed in use; of two starters one yields |

### Assumptions

Those that the modules name, no others: N > 0; the arguments of notify and
wait are of type `Arg`, and 0 is a name's value; the pollers of the central barrier are not the leader's
main thread; threads of the dissemination barrier belong to ranks; the radix
of the tree is an integer (the code's default and its bounds play no role);
for AMUDP, `maxLag + 2 <= SeqMod`, the assumption on the network that 2.2
explains, and that `sendDepth` is at least `depth`; for events, that
operations, categories and transfers are finite sets, operations are numbers, those who
start operations are threads, and there is an iop for each thread to begin with; for the
shared-memory network, that threads are finitely many, none is the value for "no thread",
processes have positive numbers, a region has a page and a message fits a region; for AMs over
shared memory, that a process has at least one buffer; for connections, that
there are two ends with different numbers and each thread has one. The theorems
about events assume in addition that neither tracing nor statistics are
compiled in (`~StatsOrTrace`), without which they are false (section 5); the one about
the semaphore is about callers of `up` and `trydown`, since
`trydown_partial` is finding 3. The bounds on epochs, requests, losses
and early timeouts are constants of any value, so no proof relies on them being
small; nor on numbers that fit a machine word, except for the sequence numbers,
which have `SeqMod` values.

### The central barrier

`BarrierSafe` alone is not inductive: it says nothing about why a
rank got its response. `IndInv` counts with `closed`, the number of barriers
whose consensus was taken: every rank's epoch is `closed` or one more, and the
phase of a rank is the parity of its epoch (`WindowInv`). A notification in
flight belongs to the barrier after `closed` and to a rank that is in it and
not counted (`NotifyInv`); the leader's count is the number of ranks that
notified and have nothing in flight, so it is full only when all ranks have
notified, and the other phase's count is 0 (`CountInv`); the consensus
summarises exactly the counted notifications (`ConsensusInv`, by the lemmas
about `Merge` in terms of sets). At most one thread broadcasts, for `closed`,
and each rank is in exactly one of four situations: its done message is still
to be sent, in flight, stored, or consumed (`KickInv`, `DoneInv`,
`ResponseInv`). From "full implies everybody" and "a response is one of
`closed`", leaving is safe and its outcome is the promised one.

### The dissemination barrier

`Heard(r, k)` is the window of the `2^k` ranks that end at r, modulo N.
`EnteredInv` says that all ranks in the window of a rank's step have entered
its barrier; a rank leaves at step `Size`, where the window is everybody
(`HeardFacts`). `TokenInv` says where the message of step k of barrier e to
rank q is: with its sender, on the wire, in its handler between the merge and
the mark, or received; exactly one of these once it was issued, none before.
So a phase's `step_done` is never the mark of the barrier two before, although
it is set outside the lock and reset when the receiver leaves. What may be
merged twice is arguments: `RecvInv`, `WireInv` and `UnsentInv` say that the
accumulator of each phase, a message underway and one still to be sent
summarise a *set* of notifications that contains the window they must cover,
and only notifications of their barrier (`Covers`). `Merge` of two summaries
summarises the union (`CoversMerge`), so the overlap of the last step does no
harm. At step `Size` the set contains everybody, so its summary is that of all
(`CoversHistory`, `Refinement`).

The lemmas about `2^k`, remainders and windows need an induction over numbers.
The library's theorem for it takes an operator and cannot be used, and the
provers know nothing of exponentiation. `AMDBarrierProofs` gets both from finite
sets instead: `2^n` is the number of subsets of `1 .. n` (`PowerCounts`), and a
set of numbers that is not empty has a least element (`LeastElement` in
`BarrierNamingProofs`), so a claim about all n has no first counterexample.

### The shared-memory barrier

`Below(r)` is the part of the tree at r and under it: what every set has that
contains r and the children of its members, a definition without recursion.
`BelowFacts` shows that below the root is everybody, because every other rank
has a parent of a smaller number. `Released` counts the barriers that the
root has signalled. Each rank is in that barrier or in the next (`ReleaseInv`); in
the next, all below the children it has absorbed have arrived, and what it
gathered summarises their notifications (`GatherInv`); the state word's result
and the published value and flags are those of the barrier that is being left,
and cannot change before the last rank has left and notified again
(`PublishInv`). That is why a rank may read them without a lock and in pieces.

### AMUDP

The invariant is about the true counts `reqSeq`, `repSeq`, `sent`, which no
endpoint knows: the replier has accepted the requester's last request or all
but that one (`CountInv`), and a datagram underway is of a request that was sent
and at most `maxLag` behind (`NetInv`). `ChecksAreExact` is the point of the
proof: with these bounds the two counts that a 6-bit comparison of the code
looks at are less than `SeqMod` apart, so they are equal modulo `SeqMod` only
when they are equal (`SeqNumInjective`). Then "next in sequence" means a request
that never ran, "repeated" means the one whose reply is buffered, and a reply
with the right number is the reply to the request that is outstanding. The tx
ring is proved in every environment; the counts are claimed only where handler
0 aborts (`env.fatal`), since after a handler 0 that goes on they drift apart
(section 5).

### The list

`LifoInv` adds to `LinksMakeStack` that every element is on the stack
or belongs to one thread (`OneOwner`), that a thread that pushes has linked its
chain (`ChainLinked`), and `NextFresh`: a thread whose head and tag are still
the current ones read the current link of the head. The last is what the tag is
for: each successful swap of pop changes it, so a link read before an element
left and came back is never used with the tag of after. A push needs no tag, as
it only links to the head it compares. Tags do not wrap, as the code takes its 64-bit tag
to do; `TagBound` only ends the runs.

### Connections

`PeerReady` is not inductive, nor are the states of the two ends in step: a
datagram of any earlier stage may still arrive. The invariant has three parts.
`EndOK` fixes, for each state of an entry, its queue pair, its end point, its
semaphore and its references, by itself. `WaitInv` says that only one
thread of a node waits for an answer, and in which states of the entry
(`Fits`): in `REP_SENT` it may only wait if the entry has two references.
`UnderwayInv` is the causality of the handshake: an RTU, an ACK, an
acknowledged state or a usable send queue at one end imply that the other end has
created its end point, and a first AM that its sender could send. An action
changes one end and sends from it, so `StepInv` reduces each step to the new
entry of that end. `OneYields` is the tie-break of `gasnetc_conn_rcv_wc`, for
any two ranks.

### Events

`EventInv` has three layers. The first says where every operation is.
`ListsInv`: free lists do not repeat, hold free operations of
the right kind and of their own thread, and each free operation is on one.
`StacksInv`: a thread's stack of iops holds its open ones, of which the last has
no `next`. `HandsInv`: a closed operation's root is in the client's hands or in the array of
one call; one that is `pendingfree` has been synced by one call; if a call's
array has a leaf, the call has synced its operation, or the root is in that
array or in the hands. So a list and a stack can never
meet, whoever frees (`OneHome`), and a leaf that is still held has a busy
operation (`NoLeafLeftBehind`).

The second is the state of an array call halfway (`ArrayInv`): what has been
looked at is `Invalid`, was live, or waits to be looked at again; `retest` is the
number of those that wait; and a leaf that pass 2 has passed by has no synced
root. That last fact, and not what the passes test, is why the result is the
truth: leaves may complete between the passes, and events do not become live
again while somebody has them.

The third is the counting. The initiated counter of an iop is ahead
of the completed one by the transfers whose reply is not yet marked and by one
while it is open (`CountersInv`), and the counters of a closed category without
event bit are equal (`BitsInv`). A handler between increment and comparison
(`compare`) holds a value that the counter has reached (`TransfersInv`);
when it finds that value equal to the initiated counter, there is nothing
underway (`CountersTell`), even if the operation it looks at has been
freed and reused since: then the counters have only grown, a new region
has its offset, and the bit it clears is set only once the region has ended.

The refinement follows from the third layer. Each action maps to one step of
`EventSpec`: opening a region, ending it (which fires what has arrived
already), a message that sets out, data that lands, an event that fires, an
operation that a test retires; frees and handles handed about are stutters.

### The shared-memory network

`NetInv` says that three things fit each other (`Consistent`), for the pages
`Starts` where blocks start and for the `Order` of each queue. The lengths cut a
region into blocks that meet and do not overlap, `next` is the start of one, and
so is the page that a scan looks at (`Cuts`, `ScanSound`: what remains of a scan
are the pages from there round to `next`, so a block merged over `next` ends it).
A block in use is the start of one and has its flag set, and it is used by its
sender, a receiver or one queue, alone (`BlockSound`); a free block may be merged
away because nobody has it, and what frees it later had it before. And a queue
holds its list (`Holds`): the tail is the last message, a message is linked from
the one before it unless its sender has still to do that, in which case the sender
remembers that one, and the head moves through shadow head and dequeuer in
the order of the two writes; between the swap of the tail for the last message
and the new shadow head (`Parted`), what is sent meanwhile starts a list of its
own, which becomes the head.

The lemmas are about any cut `starts` and lists `order` with these properties,
each step says what becomes of them (split and merged blocks, a message
appended or dropped), and `SoundIsInv` shows that only the chosen ones can have
them: the walk by lengths from page 0 cannot leave a cut nor miss a start, and
the links determine the list. So no induction over the walk is needed. The refinement
maps a found block to `Obtain`, the swap of the tail to `Deliver` and the write
of the shadow head to `Receive`.

### Active Messages over shared memory

`Owned(n, p)` counts the buffers of p by what they are used for: messages in
queues, handlers that have not released theirs, prepared sends. Every step takes
one from one of these sets and puts it into another or back, provided that the
sets are finite (`FiniteUse`) and disjoint, which the typing of the stages gives
(`AMTypeOK`). A call that polls while it waits runs handlers, so the two
program counters of a client, `calling` and `handling`, move apart, and a
handler's message may be another client's: `AnsweredOnce` follows a request by
the client on whose behalf it is, from the call to the message, to a handler
that has yet to reply, to the reply. `SendLocksHeld` says which stage has which lock.

### The semaphore

A unit that a thread was told it has is a pair of the thread and a number
(`UnitsOf`); the free ones and the cardinality of that set make up `Limit`. A
set of pairs can be reasoned about where a sum over threads, a fold, cannot.
The swap takes what was read (`NoUnderflow`) only if the value has not
changed, so as much leaves the counter as enters the set.

### Only model-checked

- All liveness: it is outside the prover's reach, as is ENABLED.
- Scratch space (`NoOverlap`): trees and subtrees are recursive.
- Firehose (`PinnedInUse`, `PlacesSound`): its counts are sums over entries and
  messages.

## 5. Findings

1. `AMUDP_RequestGeneric` searches for a free instance but tests the same
   descriptor in every round (RR 984-991), so a call can block although an
   instance is free, and so can an asynchronous call that
   `AMUDP_RequestXferVA` found not to block (run `udp_async`).
2. After an undeliverable request whose returned-message handler returns,
   `timeoutCheckPosn` is read from memory that has been reused and points to no
   transmit buffer (RR 493; run `udp_position`). The default handler aborts.
3. `gasneti_semaphore_trydown_partial` returns the amount of a turn whose swap
   failed when the next turn finds 0 (`gasnet_syncops.h` 181-187), against its
   comment (58-59). ibv uses it for send-queue slots (run `sema_partial`).
4. A dissemination operation takes a scratch request from a free list and does
   not set its root, which the comparison of configurations reads
   (`COLL/gasnet_refcoll.c` 2168-2179, 2311-2322, `COLL/gasnet_scratch.c` 134).
   If only one of the ranks recycled a request of an earlier tree operation,
   that rank alone waits for clear signals, for ever (run `scratch_root`).
5. `fh_clean_covered_remote` (`FH/firehose_region.c` 397-401) gives firehoses up
   without lowering `fhc_RemoteBucketsUsed`, so the budget of the peer shrinks
   for good (run `firehose_used`); its local twin corrects both counters.

Without a run:

- A relative of finding 2: a refused request advances the requester's sequence
  number and not the replier's, so after a handler 0 that returns, later
  requests of that instance are discarded as out of order.
- `gasnet_event.c` 135-140, statistics build: the counters of a reused iop are
  reset while the last reply's handler may still compare them; and in debug
  builds `gasnete_iop_check` (308-310, 351-355) reads them after the finish.
- IBC 2029: the reply of a node that becomes passive while it is also active
  leaves the entry's time of the last reply unset.
- `firehose_remote_pin` reads `req->flags` after the table lock is released (`FH/firehose.c`
  414, 430), when the reply handler of another thread
  may already have completed and released the request. ibv's own requests stay
  allocated until both have looked.

## 6. Plan

Done, in this order: `BarrierNaming`, `BarrierSpec`, `AMCBarrier` with its
proofs, `AMDBarrier`, `AMChannel`, `AMUDP`, `Events`, `PSHMNet`, `AMPSHM`,
`Lifo` with its proofs, `Semaphore`, `IBVConnect`, `PSHMBarrier`, `Scratch`,
`Firehose`; then the proofs about `AMDBarrier`, `AMUDP`, `PSHMBarrier` and
`IBVConnect`, and those about the semaphore, `AMPSHM`, `Events` with its
refinement and `PSHMNet` with its.

Next, most important first:

1. Scratch space: `NoOverlap` from the agreement of a rank's mirror with the
   owner's cycle of drains, with trees as given relations instead of functions
   that recurse.
2. Firehose: `PinnedInUse`, with its sums as cardinalities of sets of uses, as
   was done for the semaphore.
3. `Consensus` of the collectives; remote atomics; the hierarchical and RDMA
   barriers.

Runs are merged or retired as components arrive, so
that each still asks a question of its own.
