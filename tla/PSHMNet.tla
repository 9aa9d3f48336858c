------------------------------- MODULE PSHMNet -------------------------------
(* One PSHM network (gasnet_pshm.c): per process a Nemesis queue in shared   *)
(* memory and a page-granular first-fit allocator for the messages it sends. *)
(* Threads of several processes send to a queue at once, threads of its      *)
(* process receive from it, and whoever received a message frees memory of   *)
(* the sender's region.  Memory is sequentially consistent here: the fences  *)
(* of the code are what makes it so for these accesses.                      *)
EXTENDS Integers, Sequences, FiniteSets, SequencesExt

CONSTANTS
  Senders, Receivers,   \* threads that send, threads that poll
  Immediate,            \* senders that pass GEX_FLAG_IMMEDIATE
  ProcOf,               \* the process of each thread, a positive number
  PageCount,            \* pages of each process's region
  Needs                 \* sizes of messages, in pages

Procs == {ProcOf[t] : t \in Senders \union Receivers}
Page == 0..(PageCount - 1)
NetNull == <<0, 0>>         \* offset 0: ends a list
Addr == Procs \X Page       \* a block, by its first page
None == "none"

ASSUME PSHMNetAssumption ==
  /\ IsFiniteSet(Senders \union Receivers) /\ None \notin Senders \union Receivers
  /\ ProcOf \in [Senders \union Receivers -> Nat \ {0}]
  /\ Immediate \subseteq Senders
  /\ PageCount \in Nat \ {0}
  /\ Needs \subseteq 1..PageCount

VARIABLES
  region,     \* region[p]: the allocator's next and length[]
  inUse,      \* in_use flag of the block at each address
  link,       \* the payload's next field
  queue,      \* queue[p]: tail, head and shadow head
  allocLock,  \* allocLock[p]: the thread holding p's alloc_lock
  dequeueLock,\* dequeueLock[p]
  snd, rcv    \* what each sending and receiving thread is doing

netVars == <<region, inUse, link, queue, allocLock, dequeueLock, snd, rcv>>

NetInit ==
  /\ region = [p \in Procs |->                      \* one large free block
                 [next |-> 0, length |-> [k \in Page |-> IF k = 0 THEN PageCount ELSE 0]]]
  /\ inUse = [a \in Addr |-> FALSE]
  /\ link = [a \in Addr |-> NetNull]
  /\ queue = [p \in Procs |-> [tail |-> NetNull, head |-> NetNull, shead |-> NetNull]]
  /\ allocLock = [p \in Procs |-> None]
  /\ dequeueLock = [p \in Procs |-> None]
  /\ snd = [s \in Senders |-> [at |-> "idle"]]
  /\ rcv = [r \in Receivers |-> [at |-> "idle"]]

-----------------------------------------------------------------------------
(* ampshm_buf_alloc: the lock serialises allocation, so that small messages  *)
(* cannot starve large ones; with GEX_FLAG_IMMEDIATE a taken lock or a full  *)
(* region is a failure, otherwise the thread polls and tries again           *)
ampshm_buf_alloc(s) ==
  /\ snd[s].at = "idle"
  /\ \E n \in Needs, p \in {ProcOf[r] : r \in Receivers} \ {ProcOf[s]} :
       snd' = [snd EXCEPT ![s] = [at |-> "lock", need |-> n, to |-> p]]
  /\ UNCHANGED <<region, inUse, link, queue, allocLock, dequeueLock, rcv>>

Scan(s, k, left) ==
  [at |-> "scan", need |-> snd[s].need, to |-> snd[s].to, curr |-> k, remain |-> left]

alloc_trylock(s) ==
  /\ snd[s].at = "lock"
  /\ IF allocLock[ProcOf[s]] = None
     THEN /\ allocLock' = [allocLock EXCEPT ![ProcOf[s]] = s]
          /\ snd' = [snd EXCEPT ![s] = Scan(s, region[ProcOf[s]].next, PageCount)]
     ELSE /\ s \in Immediate
          /\ snd' = [snd EXCEPT ![s] = [at |-> "idle"]]
          /\ UNCHANGED allocLock
  /\ UNCHANGED <<region, inUse, link, queue, dequeueLock, rcv>>

(* The pages where blocks start, following their lengths len from page k on; *)
(* PageCount, the end of the region, is the last of them.                    *)
Starts(len, k) ==
  LET Closed(S) == \A j \in S \ {PageCount} :
                     j + len[j] \in 0..PageCount => j + len[j] \in S
  IN {e \in 0..PageCount :
        \A S \in SUBSET (0..PageCount) : k \in S /\ Closed(S) => e \in S}

(* Mutation of Merged: the next block is merged without looking at its flag. *)
MergedUnchecked(p, curr, need) ==
  Min({e \in Starts(region[p].length, curr) :
         e > curr /\ (e - curr >= need \/ e = PageCount)}) - curr

(* The block at curr merged with the free blocks after it until it is large  *)
(* enough: other threads only ever clear in_use flags, and one turn reads    *)
(* each flag once, so a turn of the scan is one step.                        *)
Merged(p, curr, need) ==
  Min({e \in Starts(region[p].length, curr) :
         e > curr /\ (e - curr >= need \/ e = PageCount \/ inUse[<<p, e>>])}) - curr

Wrap(k) == IF k = PageCount THEN 0 ELSE k

(* gasneti_pshmnet_alloc, the turn that finds a block: split it, take it     *)
alloc_found(s) ==
  LET p == ProcOf[s]
      curr == snd[s].curr
      need == snd[s].need
      l == Merged(p, curr, need)
      a == <<p, curr>> IN
  /\ snd[s].at = "scan" /\ ~inUse[a] /\ l >= need
  /\ region' = [region EXCEPT
        ![p].next = Wrap(curr + need),
        ![p].length = [k \in Page |-> IF k = curr THEN need
                                      ELSE IF k = curr + need /\ l > need THEN l - need
                                      ELSE @[k]]]
  /\ inUse' = [b \in Addr |-> IF b = a THEN TRUE
                              ELSE IF b = <<p, curr + need>> /\ l > need THEN FALSE
                              ELSE inUse[b]]
  /\ link' = [link EXCEPT ![a] = NetNull]
  /\ allocLock' = [allocLock EXCEPT ![p] = None]
  /\ snd' = [snd EXCEPT ![s] = [at |-> "fill", buf |-> a, to |-> @.to]]
  /\ UNCHANGED <<queue, dequeueLock, rcv>>

(* a turn that does not: remember the merged length and go on, until the     *)
(* whole region was seen; then fail, or poll and scan again                  *)
alloc_skip(s) ==
  LET p == ProcOf[s]
      curr == snd[s].curr
      l == IF inUse[<<p, curr>>] THEN region[p].length[curr]
           ELSE Merged(p, curr, snd[s].need)
      goOn == snd[s].remain - l > 0 IN
  /\ snd[s].at = "scan" /\ (inUse[<<p, curr>>] \/ l < snd[s].need)
  /\ region' = [region EXCEPT ![p].length[curr] = l,
                              ![p].next = IF goOn THEN @ ELSE Wrap(curr + l)]
  /\ snd' = [snd EXCEPT ![s] =
               IF goOn THEN Scan(s, Wrap(curr + l), snd[s].remain - l)
               ELSE IF s \in Immediate THEN [at |-> "idle"]
               ELSE Scan(s, Wrap(curr + l), PageCount)]
  /\ allocLock' = [allocLock EXCEPT ![p] = IF ~goOn /\ s \in Immediate THEN None ELSE @]
  /\ UNCHANGED <<inUse, link, queue, dequeueLock, rcv>>

(* ampshm_cancel: release the buffer without sending                         *)
ampshm_cancel(s) ==
  /\ snd[s].at = "fill"
  /\ inUse' = [inUse EXCEPT ![snd[s].buf] = FALSE]
  /\ snd' = [snd EXCEPT ![s] = [at |-> "idle"]]
  /\ UNCHANGED <<region, link, queue, allocLock, dequeueLock, rcv>>

(* gasneti_pshmnet_deliver_send_buffer: swap the tail, then link the message *)
(* behind the one that was last, or make it the head                         *)
deliver_swap(s) ==
  /\ snd[s].at = "fill"
  /\ queue' = [queue EXCEPT ![snd[s].to].tail = snd[s].buf]
  /\ snd' = [snd EXCEPT ![s] = [at |-> "link", buf |-> @.buf, to |-> @.to,
                                prev |-> queue[snd[s].to].tail]]
  /\ UNCHANGED <<region, inUse, link, allocLock, dequeueLock, rcv>>

deliver_link(s) ==
  /\ snd[s].at = "link"
  /\ IF snd[s].prev # NetNull
     THEN /\ link' = [link EXCEPT ![snd[s].prev] = snd[s].buf]
          /\ UNCHANGED queue
     ELSE /\ queue' = [queue EXCEPT ![snd[s].to].head = snd[s].buf]
          /\ UNCHANGED link
  /\ snd' = [snd EXCEPT ![s] = [at |-> "idle"]]
  /\ UNCHANGED <<region, inUse, allocLock, dequeueLock, rcv>>

-----------------------------------------------------------------------------
(* gasneti_pshmnet_recv *)

(* Peek, lock, and move the head to the shadow head unless there is one, in  *)
(* two writes.  A call that finds the queue emptied by another receiver      *)
(* before it got the lock leaves everything as it was.                       *)
recv_fetch(r) ==
  LET p == ProcOf[r]
      q == queue[p] IN
  /\ rcv[r].at = "idle"
  /\ dequeueLock[p] = None
  /\ dequeueLock' = [dequeueLock EXCEPT ![p] = r]
  /\ \/ /\ q.shead = NetNull /\ q.head # NetNull
        /\ queue' = [queue EXCEPT ![p].shead = q.head]
        /\ rcv' = [rcv EXCEPT ![r] = [at |-> "clear"]]
     \/ /\ q.shead # NetNull
        /\ rcv' = [rcv EXCEPT ![r] = [at |-> "next", buf |-> q.shead]]
        /\ UNCHANGED queue
  /\ UNCHANGED <<region, inUse, link, allocLock, snd>>

recv_clear(r) ==
  LET p == ProcOf[r] IN
  /\ rcv[r].at = "clear"
  /\ rcv' = [rcv EXCEPT ![r] = [at |-> "next", buf |-> queue[p].shead]]
  /\ queue' = [queue EXCEPT ![p].head = NetNull]
  /\ UNCHANGED <<region, inUse, link, allocLock, dequeueLock, snd>>

(* loop on both p->next and cas(tail): a sender may have swapped the tail    *)
(* and not linked its message yet                                            *)
recv_next(r) ==
  /\ rcv[r].at = "next"
  /\ rcv' = [rcv EXCEPT ![r] =
               IF link[@.buf] # NetNull
               THEN [at |-> "take", buf |-> @.buf, next |-> link[@.buf]]
               ELSE [at |-> "cas", buf |-> @.buf]]
  /\ UNCHANGED <<region, inUse, link, queue, allocLock, dequeueLock, snd>>

(* Mutation of recv_cas: the tail is cleared whatever it has become.         *)
recv_cas_store(r) ==
  LET p == ProcOf[r] IN
  /\ rcv[r].at = "cas"
  /\ queue' = [queue EXCEPT ![p].tail = NetNull]
  /\ rcv' = [rcv EXCEPT ![r] = [at |-> "take", buf |-> @.buf, next |-> NetNull]]
  /\ UNCHANGED <<region, inUse, link, allocLock, dequeueLock, snd>>

recv_cas(r) ==
  LET p == ProcOf[r] IN
  /\ rcv[r].at = "cas"
  /\ IF queue[p].tail = rcv[r].buf
     THEN /\ queue' = [queue EXCEPT ![p].tail = NetNull]
          /\ rcv' = [rcv EXCEPT ![r] = [at |-> "take", buf |-> @.buf, next |-> NetNull]]
     ELSE /\ rcv' = [rcv EXCEPT ![r] = [at |-> "next", buf |-> @.buf]]
          /\ UNCHANGED queue
  /\ UNCHANGED <<region, inUse, link, allocLock, dequeueLock, snd>>

recv_take(r) ==
  LET p == ProcOf[r] IN
  /\ rcv[r].at = "take"
  /\ queue' = [queue EXCEPT ![p].shead = rcv[r].next]
  /\ dequeueLock' = [dequeueLock EXCEPT ![p] = None]
  /\ rcv' = [rcv EXCEPT ![r] = [at |-> "handler", buf |-> @.buf]]
  /\ UNCHANGED <<region, inUse, link, allocLock, snd>>

(* the handler ran: gasneti_pshmnet_recv_release *)
recv_release(r) ==
  /\ rcv[r].at = "handler"
  /\ inUse' = [inUse EXCEPT ![rcv[r].buf] = FALSE]
  /\ rcv' = [rcv EXCEPT ![r] = [at |-> "idle"]]
  /\ UNCHANGED <<region, link, queue, allocLock, dequeueLock, snd>>

-----------------------------------------------------------------------------
SendStep(s) ==
  \/ alloc_trylock(s) \/ alloc_found(s) \/ alloc_skip(s)
  \/ deliver_swap(s) \/ deliver_link(s)

RecvStep(r) ==
  \/ recv_fetch(r) \/ recv_clear(r)
  \/ recv_next(r) \/ recv_cas(r) \/ recv_take(r) \/ recv_release(r)

NetNext ==
  \/ \E s \in Senders : ampshm_buf_alloc(s) \/ SendStep(s) \/ ampshm_cancel(s)
  \/ \E r \in Receivers : RecvStep(r)

NetSpec == NetInit /\ [][NetNext]_netVars

-----------------------------------------------------------------------------
(* Properties *)

Link == Addr \union {NetNull}
SenderStates ==
  [at : {"idle"}] \union [at : {"lock"}, need : Needs, to : Procs]
  \union [at : {"scan"}, need : Needs, to : Procs, curr : Page, remain : 1..PageCount]
  \union [at : {"fill"}, buf : Addr, to : Procs]
  \union [at : {"link"}, buf : Addr, to : Procs, prev : Link]
ReceiverStates ==
  [at : {"idle", "clear"}] \union [at : {"next", "cas", "handler"}, buf : Addr]
  \union [at : {"take"}, buf : Addr, next : Link]

NetTypeOK ==
  /\ region \in [Procs -> [next : Page, length : [Page -> 0..PageCount]]]
  /\ inUse \in [Addr -> BOOLEAN]
  /\ link \in [Addr -> Link]
  /\ queue \in [Procs -> [tail : Link, head : Link, shead : Link]]
  /\ allocLock \in [Procs -> Senders \union {None}]
  /\ dequeueLock \in [Procs -> Receivers \union {None}]
  /\ snd \in [Senders -> SenderStates]
  /\ rcv \in [Receivers -> ReceiverStates]

Linking(p) == {s \in Senders : snd[s].at = "link" /\ snd[s].to = p}
LinkedTo(p, a) == {snd[s].buf : s \in {t \in Linking(p) : snd[t].prev = a}}

(* The list of messages from the head pointer or, as there is none yet, the  *)
(* message whose sender is about to set it.                                  *)
HeadOf(p) ==
  IF queue[p].head # NetNull \/ LinkedTo(p, NetNull) = {} THEN queue[p].head
  ELSE CHOOSE a \in LinkedTo(p, NetNull) : TRUE

(* The first message of p's queue, and the one behind message a: linked      *)
(* already, about to be by its sender, or the head of the list behind the    *)
(* shadow head's.                                                            *)
FirstOf(p) == IF queue[p].shead # NetNull THEN queue[p].shead ELSE HeadOf(p)
Behind(p, a) ==
  IF link[a] # NetNull THEN link[a]
  ELSE IF LinkedTo(p, a) # {} THEN CHOOSE b \in LinkedTo(p, a) : TRUE
  ELSE IF a = queue[p].shead /\ HeadOf(p) # a THEN HeadOf(p)
  ELSE NetNull

(* The messages of p's queue, in their order.  (As an image, the set of the  *)
(* candidates is one that TLC lists once and keeps.)                         *)
Orders == {list : list \in SetToAllKPermutations(Addr)}
IsOrder(p, list) ==
  /\ FirstOf(p) = IF list = <<>> THEN NetNull ELSE list[1]
  /\ \A k \in DOMAIN list :
       Behind(p, list[k]) = IF k = Len(list) THEN NetNull ELSE list[k + 1]
Order(p) == CHOOSE list \in Orders : IsOrder(p, list)

-----------------------------------------------------------------------------
(* The inductive invariant of the proofs                                     *)

(* Only the holder of alloc_lock scans, only that of dequeue_lock dequeues.  *)
Dequeuing(p) == {r \in Receivers : /\ ProcOf[r] = p
                                   /\ rcv[r].at \in {"clear", "next", "cas", "take"}}
LocksHeld ==
  \A p \in Procs :
    /\ \A s \in Senders : allocLock[p] = s <=> ProcOf[s] = p /\ snd[s].at = "scan"
    /\ \A r \in Receivers : dequeueLock[p] = r <=> r \in Dequeuing(p)

(* The lengths len cut a region into the blocks that start at the pages of S. *)
Cuts(len, S) ==
  /\ {0, PageCount} \subseteq S /\ S \subseteq 0..PageCount
  /\ \A k \in S \ {PageCount} :
       /\ len[k] > 0 /\ k + len[k] \in S
       /\ \A j \in S : j <= k \/ k + len[k] <= j

(* The receiver of p's queue has taken the only message off its list: what   *)
(* is sent from then on starts a list of its own.                            *)
Parted(p) == \E r \in Dequeuing(p) : rcv[r].at = "take" /\ rcv[r].next = NetNull
Clearing(p) == \E r \in Dequeuing(p) : rcv[r].at = "clear"

(* The k-th message of list is there and linked.                             *)
Visible(p, list, k) ==
  k <= Len(list) /\ \A s \in Linking(p) : snd[s].buf # list[k]

(* What the k-th sender found in the tail.                                   *)
TailAt(p, list, k) ==
  IF k = 1 \/ (k = 2 /\ Parted(p)) THEN NetNull ELSE list[k - 1]

(* p's queue holds the messages of list, in this order.                      *)
Holds(p, list) ==
  /\ list \in Seq(Addr) /\ IsInjective(list)
  /\ queue[p].tail = TailAt(p, list, Len(list) + 1)
  /\ \A s \in Linking(p) : \E k \in 1..Len(list) :
       snd[s].buf = list[k] /\ snd[s].prev = TailAt(p, list, k)
  /\ \A k \in 1..Len(list) :
       link[list[k]] = IF Visible(p, list, k + 1) /\ ~(k = 1 /\ Parted(p))
                       THEN list[k + 1] ELSE NetNull
  /\ queue[p].shead = NetNull =>
       /\ queue[p].head = IF Visible(p, list, 1) THEN list[1] ELSE NetNull
       /\ Dequeuing(p) = {}
  /\ queue[p].shead # NetNull =>
       /\ Visible(p, list, 1) /\ queue[p].shead = list[1]
       /\ queue[p].head = IF Clearing(p) THEN list[1]
                          ELSE IF Parted(p) /\ Visible(p, list, 2) THEN list[2]
                          ELSE NetNull
  /\ \A r \in Dequeuing(p) :
       /\ rcv[r].at # "clear" => rcv[r].buf = list[1]
       /\ rcv[r].at = "take" /\ rcv[r].next # NetNull =>
            Visible(p, list, 2) /\ rcv[r].next = list[2]

(* Who uses block a: its senders, its receivers, the queues it is in.        *)
SendersOf(a) == {s \in Senders : snd[s].at \in {"fill", "link"} /\ snd[s].buf = a}
ReadersOf(a) == {r \in Receivers : rcv[r].at = "handler" /\ rcv[r].buf = a}
QueuesOf(order, a) == {p \in Procs : a \in ToSet(order[p])}
Used(order, a) == SendersOf(a) # {} \/ ReadersOf(a) # {} \/ QueuesOf(order, a) # {}

(* The in_use flags are those of the blocks that somebody uses; only the     *)
(* sender of a message and the queue it is being linked to use one together. *)
UsedAlone(order, a) ==
  /\ \A s, t \in SendersOf(a) : s = t
  /\ \A r, t \in ReadersOf(a) : r = t
  /\ \A p, q \in QueuesOf(order, a) : p = q
  /\ \A s \in SendersOf(a) :
       /\ ReadersOf(a) = {}
       /\ snd[s].at = "fill" => link[a] = NetNull /\ QueuesOf(order, a) = {}
  /\ ReadersOf(a) # {} => QueuesOf(order, a) = {}

BlockSound(starts, order, a) ==
  /\ Used(order, a) <=> a[2] \in starts[a[1]] /\ inUse[a]
  /\ Used(order, a) => region[a[1]].length[a[2]] \in Needs
  /\ UsedAlone(order, a)

(* A scan is at the start of a block, and what remains of it are the pages   *)
(* from there round to the one it began at, where next still points.         *)
ScanSound(starts, s) ==
  LET k == snd[s].curr
      first == region[ProcOf[s]].next IN
  /\ k \in starts[ProcOf[s]]
  /\ snd[s].remain = first - k + (IF k >= first THEN PageCount ELSE 0)

(* starts[p] are the first pages of p's blocks, order[p] the messages of its *)
(* queue.                                                                    *)
Consistent(starts, order) ==
  /\ \A p \in Procs : Cuts(region[p].length, starts[p]) /\ region[p].next \in starts[p]
  /\ \A s \in Senders : snd[s].at = "scan" => ScanSound(starts, s)
  /\ \A p \in Procs : Holds(p, order[p])
  /\ \A a \in Addr : BlockSound(starts, order, a)

NetInv ==
  /\ NetTypeOK /\ LocksHeld
  /\ Consistent([p \in Procs |-> Starts(region[p].length, 0)],
                [p \in Procs |-> Order(p)])

Buf(a) == <<a[1], a[2], region[a[1]].length[a[2]]>>
Queued(p) == [k \in DOMAIN Order(p) |-> Buf(Order(p)[k])]

Filling == {Buf(snd[s].buf) : s \in {t \in Senders : snd[t].at = "fill"}}
Reading == {Buf(rcv[r].buf) : r \in {t \in Receivers : rcv[t].at = "handler"}}
Taken == Filling \union Reading \union UNION {ToSet(Queued(p)) : p \in Procs}

(* The allocator loses no memory and hands none out twice: length[] always   *)
(* cuts a region into blocks, next is the start of one of them, and the      *)
(* in_use flags that count, those at the start of a block, are set for the   *)
(* buffers someone still uses and for no other, whoever frees them while the *)
(* owner scans and merges (gasneti_pshmnet_alloc, gasneti_pshmnet_free).     *)
AllocatorSound ==
  \A p \in Procs :
    LET starts == Starts(region[p].length, 0)
        taken == {a[2] : a \in {b \in Taken : b[1] = p}} IN
    /\ PageCount \in starts /\ region[p].next \in starts
    /\ taken = {k \in starts \ {PageCount} : inUse[<<p, k>>]}

(* Buffers never overlap, and every message is received once and in the      *)
(* order of the swaps of the tail, although a message is linked some time    *)
(* after it became the tail (gasneti_pshmnet_deliver_send_buffer,            *)
(* gasneti_pshmnet_recv).                                                    *)
Network == INSTANCE PSHMSpec WITH
  Proc <- Procs,
  Buffer <- {<<a[1], a[2], n>> : a \in Addr, n \in Needs},
  filling <- Filling,
  queue <- [p \in Procs |-> Queued(p)],
  reading <- Reading

ImplementsNetwork == Network!Spec
=============================================================================
