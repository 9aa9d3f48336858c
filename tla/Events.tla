------------------------------- MODULE Events -------------------------------
(* Events and handles (gasnet_event.c, gasnet_event_internal.h) under the    *)
(* puts and gets made of Active Messages (extended-ref/                      *)
(* gasnet_extended_amref.c).  Client threads start transfers, open and close *)
(* access regions and sync events; any thread that polls may run a handler,  *)
(* so the completion of a transfer interleaves with all of that.             *)
(*                                                                           *)
(* An op is an explicit event (eop, one category: Root) or an iop, either a  *)
(* thread's implicit one or one made for an access region.  Categories: Root *)
(* is the event of index 0; alc, get and rmw go through the same macros, so  *)
(* any other category is a leaf of the same kind.                            *)
EXTENDS Naturals, Sequences, FiniteSets, SequencesExt

CONSTANTS
  Threads,          \* client threads
  Starters,         \* those that start transfers; the others only sync events
  Pollers,          \* threads running handlers inside a poll
  Cats, Root,       \* event categories, and the one of event index 0
  Iops, Eops,       \* the iops and eops malloc may return, as numbers
  EOP_CHUNKCNT,     \* eops allocated together (256 in the code)
  Xfers,            \* transfers: bounds how many Active Messages are sent
  MaxRegions,       \* bound on the number of access regions
  MaxChunks,        \* bound on the messages of one put or get
  StatsOrTrace      \* GASNETI_STATS_OR_TRACE: iops are reset when reused

ASSUME EventsAssumption ==
  /\ Root \in Cats /\ Starters \subseteq Threads
  /\ Iops \subseteq Nat \ {0} /\ Eops \subseteq Nat \ {0} /\ Iops \intersect Eops = {}
  /\ IsFiniteSet(Iops) /\ IsFiniteSet(Eops) /\ IsFiniteSet(Cats) /\ IsFiniteSet(Xfers)
  /\ \E f \in [Threads -> Iops] : IsInjective(f)   \* every thread gets an implicit iop
  /\ EOP_CHUNKCNT \in Nat \ {0} /\ MaxRegions \in Nat /\ MaxChunks \in Nat \ {0}
  /\ StatsOrTrace \in BOOLEAN

OpIds == Iops \union Eops

VARIABLES
  op,       \* op[i]: owner, type, live event bits, counters, next pointer
  cur,      \* cur[t]: current_iop and the iops below it, the implicit one last
  free,     \* free[t]: the lists [iop, eop, fiop, feop], f for foreign
  xf,       \* xf[x]: op, category and progress of transfer x
  hnd,      \* hnd[p]: the reply handler poller p is running
  call,     \* call[t]: the library call thread t is in
  held,     \* events the client holds and no call is using
  regions   \* access regions begun so far

eventVars == <<op, cur, free, xf, hnd, call, held, regions>>

NoThread == "none"
Idle == [in |-> "client"]
Invalid == <<0, Root>>                        \* GEX_EVENT_INVALID
Zero == [c \in Cats |-> 0]
Unborn == [owner |-> NoThread, type |-> "unborn", live |-> {},
           ini |-> Zero, com |-> Zero, next |-> "null"]
Lists == {"iop", "eop", "fiop", "feop"}
Foreign(k) == IF k = "iop" THEN "fiop" ELSE "feop"

(* what gasnete_iop_alloc returns: every counter zero, every event done *)
NewIop(t) == [Unborn EXCEPT !.owner = t, !.type = "busy"]

Lowest(n, S) == {i \in S : Cardinality({j \in S : j < i}) < n}

(* gasnete_init_threaddata gives every thread its implicit iop *)
FirstIop == CHOOSE f \in [Threads -> Iops] : IsInjective(f)

EventInit ==
  /\ op = [i \in OpIds |->
             IF \E t \in Threads : FirstIop[t] = i
             THEN NewIop(CHOOSE t \in Threads : FirstIop[t] = i) ELSE Unborn]
  /\ cur = [t \in Threads |-> <<FirstIop[t]>>]
  /\ free = [t \in Threads |-> [l \in Lists |-> <<>>]]
  /\ xf = [x \in Xfers |-> [op |-> 0, cat |-> Root, st |-> "none"]]
  /\ hnd = [p \in Pollers |-> Idle]
  /\ call = [t \in Threads |-> Idle]
  /\ held = {}
  /\ regions = 0

-----------------------------------------------------------------------------
(* Op management *)

(* the free list of kind k thread t allocates from: when its own list is     *)
(* empty it takes the whole foreign list under foreign_lock                  *)
Available(t, k) ==
  IF free[t][k] # <<>> THEN free[t][k] ELSE free[t][Foreign(k)]

TakeFrom(t, k, list) ==
  IF free[t][k] # <<>> THEN [free EXCEPT ![t][k] = Tail(list)]
  ELSE [free EXCEPT ![t][k] = Tail(list), ![t][Foreign(k)] = <<>>]

UnbornOf(S) == {i \in S : op[i].type = "unborn"}

(* gasnete_iop_new: the recycled iop keeps its counters, unless tracing      *)
Reused(o) ==
  [o EXCEPT !.type = "busy", !.next = "null",
            !.ini = IF StatsOrTrace THEN Zero ELSE @,
            !.com = IF StatsOrTrace THEN Zero ELSE @]

(* Mutation of Armed: the counters are not offset.                           *)
ArmedWithoutOffset(o) == [o EXCEPT !.live = Cats, !.next = "parent"]

(* gasnete_aop_create and gasnete_aop_push: arm every event, offset every    *)
(* counter, and make the iop current                                         *)
Armed(o) ==
  [o EXCEPT !.live = Cats, !.ini = [c \in Cats |-> o.ini[c] + 1], !.next = "parent"]

PushAop(t, i, o, list) ==
  /\ op' = [op EXCEPT ![i] = Armed(o)]
  /\ cur' = [cur EXCEPT ![t] = <<i>> \o @]
  /\ free' = list
  /\ regions' = regions + 1

gasnete_begin_nbi_accessregion(t) ==
  /\ regions < MaxRegions
  /\ LET list == Available(t, "iop") IN
       \/ /\ list # <<>>
          /\ PushAop(t, Head(list), Reused(op[Head(list)]), TakeFrom(t, "iop", list))
       \/ /\ list = <<>>
          /\ \E i \in Lowest(1, UnbornOf(Iops)) : PushAop(t, i, NewIop(t), free)

(* gasnete_aop_pop and gasnete_aop_to_event: one GASNETE_IOP_CNT_FINISH_REG  *)
(* per category takes the offset back.  Nobody reads the event bits before   *)
(* the call returns the event, and the thread that made the iop is the only  *)
(* one to advance its initiated counters: the four adds are one step.        *)
Balanced(o) ==
  LET com == [c \in Cats |-> o.com[c] + 1] IN
  [o EXCEPT !.com = com, !.next = "self",
            !.live = {c \in @ : com[c] # o.ini[c]}]

PopAop(t) ==
  LET i == Head(cur[t]) IN
  /\ op[i].next # "null"
  /\ op' = [op EXCEPT ![i] = Balanced(@)]
  /\ cur' = [cur EXCEPT ![t] = Tail(@)]
  /\ held' = held \union {<<i, Root>>}

(* gasnete_eop_new: a chunk of eops is allocated when both lists are empty   *)
gasnete_eop_new(t, i, o, list) ==
  /\ op' = [j \in OpIds |->
              IF j = i THEN [o[i] EXCEPT !.type = "busy", !.live = {Root}] ELSE o[j]]
  /\ free' = list

EopChunk == Lowest(EOP_CHUNKCNT, UnbornOf(Eops))
InOrder(s) == \A j, k \in DOMAIN s : j < k => s[j] < s[k]

NewEop(t, i) ==
  LET list == Available(t, "eop") IN
  \/ /\ list # <<>> /\ i = Head(list)
     /\ gasnete_eop_new(t, i, op, TakeFrom(t, "eop", list))
  \/ /\ list = <<>> /\ EopChunk # {}
     /\ \E chunk \in SetToSeqs(EopChunk) :
          /\ InOrder(chunk) /\ i = Head(chunk)
          /\ gasnete_eop_new(t, i,
               [j \in OpIds |-> IF j \in EopChunk
                                THEN [Unborn EXCEPT !.owner = t, !.type = "free"] ELSE op[j]],
               [free EXCEPT ![t]["eop"] = Tail(chunk)])

-----------------------------------------------------------------------------
(* Puts and gets over Active Messages *)

FreshXfer(x) == xf[x].st = "none" /\ \A y \in Xfers : y < x => xf[y].st # "none"

Request(x, i, c) ==
  /\ FreshXfer(x)
  /\ xf' = [xf EXCEPT ![x] = [op |-> i, cat |-> c, st |-> "request"]]

(* gasnete_amref_put_nb, gasnete_amref_get_nb with a payload that fits one   *)
(* message: an eop                                                           *)
amref_nb_eop(t, c) ==
  \E i \in Eops, x \in Xfers :
    /\ NewEop(t, i)
    /\ Request(x, i, c)
    /\ held' = held \union {<<i, Root>>}
    /\ UNCHANGED <<cur, hnd, call, regions>>

(* one turn of the loop of gasnete_amref_{put,get}_nbi_inner, on the iop     *)
(* that is current                                                           *)
Chunk(t, c) ==
  /\ op' = [op EXCEPT ![Head(cur[t])].ini[c] = @ + 1]
  /\ \E x \in Xfers : Request(x, Head(cur[t]), c)

amref_nbi(t, c) ==
  /\ \E n \in 0..(MaxChunks - 1) :
       call' = [call EXCEPT ![t] =
                  IF n = 0 THEN Idle ELSE [in |-> "nbi", cat |-> c, left |-> n]]
  /\ Chunk(t, c)
  /\ UNCHANGED <<cur, free, hnd, held, regions>>

amref_nbi_loop(t) ==
  /\ call[t].in \in {"nbi", "nb"}
  /\ call[t].left > 0
  /\ Chunk(t, call[t].cat)
  /\ call' = [call EXCEPT ![t] =
                IF call[t].in = "nbi" /\ call[t].left = 1 THEN Idle
                ELSE [call[t] EXCEPT !.left = @ - 1]]
  /\ UNCHANGED <<cur, free, hnd, held, regions>>

(* gasnete_amref_{put,get}_nb with a larger payload: a recursive access      *)
(* region coalesces the messages into a single event                         *)
amref_nb_region(t, c) ==
  /\ gasnete_begin_nbi_accessregion(t)
  /\ \E n \in 1..MaxChunks :
       call' = [call EXCEPT ![t] = [in |-> "nb", cat |-> c, left |-> n]]
  /\ UNCHANGED <<xf, hnd, held>>

amref_nb_end(t) ==
  /\ call[t].in = "nb" /\ call[t].left = 0
  /\ PopAop(t)
  /\ call' = [call EXCEPT ![t] = Idle]
  /\ UNCHANGED <<free, xf, hnd, regions>>

(* the request handler at the target: a put's data is copied, a get's data   *)
(* is sent with the reply (gasnete_amref_{put,putlong,get,getlong}_reqh)     *)
reqh(x) ==
  /\ xf[x].st = "request"
  /\ xf' = [xf EXCEPT ![x].st = "reply"]
  /\ UNCHANGED <<op, cur, free, hnd, call, held, regions>>

Landed(x) == xf[x].st = "done" \/ (xf[x].cat = Root /\ xf[x].st = "reply")

(* the reply handlers: copy a get's data, then MARK_DONE                     *)
reph(p, x) ==
  /\ hnd[p] = Idle
  /\ xf[x].st = "reply"
  /\ xf' = [xf EXCEPT ![x].st = "done"]
  /\ hnd' = [hnd EXCEPT ![p] = [in |-> "mark", x |-> x]]
  /\ UNCHANGED <<op, cur, free, call, held, regions>>

(* the message is released *)
Gone == [op |-> 0, cat |-> Root, st |-> "done"]

(* gasnete_op_markdone, GASNETE_IOP_CNT_FINISH: an eop's event is marked; an *)
(* implicit iop's counter advances; an iop of a region advances the counter  *)
(* and goes on to compare it with the initiated counter                      *)
markdone(p) ==
  /\ hnd[p].in = "mark"
  /\ LET i == xf[hnd[p].x].op
         c == xf[hnd[p].x].cat IN
     /\ op' = IF i \in Eops THEN [op EXCEPT ![i].live = {}]
               ELSE [op EXCEPT ![i].com[c] = @ + 1]
     /\ hnd' = [hnd EXCEPT ![p] =
                  IF i \in Eops \/ op[i].next = "null" THEN Idle
                  ELSE [in |-> "compare", op |-> i, cat |-> c, com |-> op[i].com[c] + 1]]
     /\ xf' = [xf EXCEPT ![hnd[p].x] = Gone]
  /\ UNCHANGED <<cur, free, call, held, regions>>

CountersMeet(h) == h.com = op[h.op].ini[h.cat]

finish_compare(p) ==
  /\ hnd[p].in = "compare"
  /\ op' = IF CountersMeet(hnd[p])
           THEN [op EXCEPT ![hnd[p].op].live = @ \ {hnd[p].cat}] ELSE op
  /\ hnd' = [hnd EXCEPT ![p] = Idle]
  /\ UNCHANGED <<cur, free, xf, call, held, regions>>

-----------------------------------------------------------------------------
(* Synchronisation *)

OpOf(e) == e[1]
IsLeaf(e) == e[2] # Root
LeafLive(e) == e[2] \in op[OpOf(e)].live
AnyLive(e) == op[OpOf(e)].live # {}
EventsOf(i) == {e \in held : OpOf(e) = i}

KindOf(i) == IF i \in Eops THEN "eop" ELSE "iop"

(* Mutation of Freed: the ops go to the list of the thread that frees them.  *)
FreedHere(t, ops) == [free EXCEPT ![t][KindOf(Head(ops))] = ops \o @]

(* push ops of one kind and one owner on its free list, or on its foreign    *)
(* list when the caller is another thread                                    *)
Freed(t, ops) ==
  LET o == op[Head(ops)].owner
      k == KindOf(Head(ops)) IN
  [free EXCEPT ![o][IF o = t THEN k ELSE Foreign(k)] = ops \o @]

(* the client syncs a root only when no other call is using a leaf of it     *)
InArrays == {t \in Threads : call[t].in \in {"pass1", "pass2", "bulk"}}
LeavesInUse(i) == \E t \in InArrays : \E e \in ToSet(call[t].arr) : IsLeaf(e) /\ OpOf(e) = i

(* gasnete_op_try_free of a root event                                       *)
gasnete_test_root(t, e) ==
  /\ ~IsLeaf(e) /\ ~AnyLive(e)
  /\ ~LeavesInUse(OpOf(e))
  /\ op' = [op EXCEPT ![OpOf(e)].type = "free"]
  /\ free' = Freed(t, <<OpOf(e)>>)
  /\ held' = held \ EventsOf(OpOf(e))
  /\ UNCHANGED <<cur, xf, hnd, call, regions>>

gasnete_test_leaf(t, e) ==
  /\ IsLeaf(e) /\ ~LeafLive(e)
  /\ held' = held \ {e}
  /\ UNCHANGED <<op, cur, free, xf, hnd, call, regions>>

(* gasnete_Event_QueryLeaf of an iop's event *)
gasnete_Event_QueryLeaf(e, c) ==
  /\ ~IsLeaf(e) /\ OpOf(e) \in Iops
  /\ c # Root /\ <<OpOf(e), c>> \notin held /\ ~LeavesInUse(OpOf(e))
  /\ held' = held \union {<<OpOf(e), c>>}
  /\ UNCHANGED <<op, cur, free, xf, hnd, call, regions>>

(* the ops an array call has synced, in four lists: eop_head[0], iop_head[0] *)
(* for the owner seen first, eop_head[1] and iop_head[1] for other owners    *)
Batches == {"eop", "iop"} \X {0, 1}
ToFree(a) == {b \in Batches : a.synced[b] # <<>>}
BatchFor(a, i) ==
  LET main == a.synced[<<KindOf(i), 0>>] IN
  <<KindOf(i), IF main = <<>> \/ op[Head(main)].owner = op[i].owner THEN 0 ELSE 1>>

(* gasnete_test_all and gasnete_test_some, on an array of events in any      *)
(* order; the client passes the leaves it holds of a root along with it.  An *)
(* array of one event is the tests above.                                    *)
Passable(E) ==
  \A e \in E : ~IsLeaf(e) => EventsOf(OpOf(e)) \subseteq E /\ ~LeavesInUse(OpOf(e))

gasnete_test_array(t) ==
  \E E \in SUBSET held \ {{}} :
    /\ Cardinality(E) > 1 /\ Passable(E)
    /\ \E arr \in SetToSeqs(E) :
         call' = [call EXCEPT ![t] =
           [in |-> "pass1", arr |-> arr, i |-> 1, retest |-> 0,
            all |-> TRUE, some |-> FALSE, synced |-> [b \in Batches |-> <<>>]]]
    /\ held' = held \ E
    /\ UNCHANGED <<op, cur, free, xf, hnd, regions>>

(* Mutation of AfterPass1: leaves are never looked at again.                 *)
AfterPass1Only(a) ==
  IF a.i <= Len(a.arr) THEN a
  ELSE [a EXCEPT !.in = "bulk", !.all = @ /\ a.retest = 0]

(* what follows pass 1: pass 2 only if a root was synced and a leaf was not  *)
AfterPass1(a) ==
  IF a.i <= Len(a.arr) THEN a
  ELSE IF a.retest = 0 THEN [a EXCEPT !.in = "bulk"]
  ELSE IF ToFree(a) # {} THEN [a EXCEPT !.in = "pass2", !.i = 1]
  ELSE [a EXCEPT !.in = "bulk", !.all = FALSE]

test_array_pass1(t) ==
  /\ call[t].in = "pass1"
  /\ LET a == call[t]
         e == a.arr[a.i]
         next == [a EXCEPT !.i = @ + 1]
         hit == [next EXCEPT !.arr[a.i] = Invalid, !.some = TRUE] IN
     \/ /\ IsLeaf(e)
        /\ call' = [call EXCEPT ![t] = AfterPass1(
             IF LeafLive(e) THEN [next EXCEPT !.retest = @ + 1] ELSE hit)]
        /\ UNCHANGED op
     \/ /\ ~IsLeaf(e) /\ AnyLive(e)
        /\ call' = [call EXCEPT ![t] = AfterPass1([next EXCEPT !.all = FALSE])]
        /\ UNCHANGED op
     \/ /\ ~IsLeaf(e) /\ ~AnyLive(e)
        /\ call' = [call EXCEPT ![t] =
                      AfterPass1([hit EXCEPT !.synced[BatchFor(a, OpOf(e))] = Append(@, OpOf(e))])]
        /\ op' = [op EXCEPT ![OpOf(e)].type = "pendingfree"]
  /\ UNCHANGED <<cur, free, xf, hnd, held, regions>>

(* Mutation of Retested: a leaf still live does not clear all_synced.        *)
RetestedQuietly(a) ==
  LET e == a.arr[a.i] IN
  IF ~IsLeaf(e) THEN a
  ELSE IF LeafLive(e) THEN [a EXCEPT !.retest = @ - 1]
  ELSE [a EXCEPT !.retest = @ - 1, !.arr[a.i] = Invalid, !.some = TRUE]

(* pass 2 looks at the leaves that are left once more *)
Retested(a) ==
  LET e == a.arr[a.i] IN
  IF ~IsLeaf(e) THEN a
  ELSE IF LeafLive(e) THEN [a EXCEPT !.retest = @ - 1, !.all = FALSE]
  ELSE [a EXCEPT !.retest = @ - 1, !.arr[a.i] = Invalid, !.some = TRUE]

test_array_pass2(t) ==
  /\ call[t].in = "pass2"
  /\ LET left == Retested(call[t]) IN
     call' = [call EXCEPT ![t] =
                [left EXCEPT !.i = @ + 1, !.in = IF left.retest = 0 THEN "bulk" ELSE @]]
  /\ UNCHANGED <<op, cur, free, xf, hnd, held, regions>>

(* the frees: the eops, then the iops of the owner seen first as one list    *)
(* each, then the others one at a time; each push is under its own lock      *)
FreeOrder(b) == 2 * b[2] + (IF b[1] = "eop" THEN 0 ELSE 1)

(* the client has back the events that were not synced *)
ArrayReturns(t) ==
  /\ held' = held \union (ToSet(call[t].arr) \ {Invalid})
  /\ call' = [call EXCEPT ![t] = Idle]

test_array_free(t) ==
  /\ call[t].in = "bulk"
  /\ \E b \in ToFree(call[t]) :
       /\ \A c \in ToFree(call[t]) : FreeOrder(b) <= FreeOrder(c)
       /\ LET list == call[t].synced[b]
              ops == IF b[2] = 0 THEN list ELSE <<Head(list)>>
              left == [call[t] EXCEPT !.synced[b] = IF b[2] = 0 THEN <<>> ELSE Tail(list)] IN
          /\ op' = [i \in OpIds |-> IF i \in ToSet(ops) THEN [op[i] EXCEPT !.type = "free"]
                                  ELSE op[i]]
          /\ free' = Freed(t, ops)
          /\ \/ ToFree(left) # {} /\ call' = [call EXCEPT ![t] = left] /\ UNCHANGED held
             \/ ToFree(left) = {} /\ ArrayReturns(t)
  /\ UNCHANGED <<cur, xf, hnd, regions>>

test_array_return(t) ==
  /\ call[t].in = "bulk" /\ ToFree(call[t]) = {}
  /\ ArrayReturns(t)
  /\ UNCHANGED <<op, cur, free, xf, hnd, regions>>

-----------------------------------------------------------------------------
begin_region(t) ==
  gasnete_begin_nbi_accessregion(t) /\ UNCHANGED <<xf, hnd, call, held>>

gasnete_end_nbi_accessregion(t) ==
  PopAop(t) /\ UNCHANGED <<free, xf, hnd, call, regions>>

StartStep(t) ==
  /\ call[t] = Idle
  /\ \/ begin_region(t)
     \/ gasnete_end_nbi_accessregion(t)
     \/ \E c \in Cats : amref_nbi(t, c) \/ amref_nb_region(t, c) \/ amref_nb_eop(t, c)

SyncStep(t) ==
  /\ call[t] = Idle
  /\ \/ \E e \in held :
          \/ gasnete_test_root(t, e)
          \/ gasnete_test_leaf(t, e)
          \/ \E c \in Cats : gasnete_Event_QueryLeaf(e, c)
     \/ gasnete_test_array(t)

LibraryStep(t) ==
  \/ amref_nbi_loop(t)
  \/ amref_nb_end(t)
  \/ test_array_pass1(t)
  \/ test_array_pass2(t)
  \/ test_array_free(t)
  \/ test_array_return(t)

HandlerStep(p) ==
  \/ \E x \in Xfers : reph(p, x)
  \/ markdone(p)
  \/ finish_compare(p)

EventNext ==
  \/ \E t \in Starters : StartStep(t)
  \/ \E t \in Threads : SyncStep(t) \/ LibraryStep(t)
  \/ \E p \in Pollers : HandlerStep(p)
  \/ \E x \in Xfers : reqh(x)

EventSpecification == EventInit /\ [][EventNext]_eventVars

-----------------------------------------------------------------------------
(* Properties *)

Types == {"unborn", "free", "pendingfree", "busy"}
OpRecords ==
  [owner : Threads \union {NoThread}, type : Types, live : SUBSET Cats,
   ini : [Cats -> Nat], com : [Cats -> Nat], next : {"null", "parent", "self"}]
ArrayStages == {"pass1", "pass2", "bulk"}
ArrayCalls ==
  [in : ArrayStages, arr : Seq((OpIds \X Cats) \union {Invalid}), i : Nat, retest : Nat,
   all : BOOLEAN, some : BOOLEAN, synced : [Batches -> Seq(OpIds)]]

(* Type invariant of the event state. *)
EventTypeOK ==
  /\ op \in [OpIds -> OpRecords]
  /\ cur \in [Threads -> Seq(Iops)]
  /\ free \in [Threads -> [Lists -> Seq(OpIds)]]
  /\ xf \in [Xfers -> [op : OpIds \union {0}, cat : Cats,
                       st : {"none", "request", "reply", "done"}]]
  /\ hnd \in [Pollers -> {Idle} \union [in : {"mark"}, x : Xfers]
                         \union [in : {"compare"}, op : Iops, cat : Cats, com : Nat]]
  /\ call \in [Threads -> {Idle} \union [in : {"nbi", "nb"}, cat : Cats, left : Nat]
                          \union ArrayCalls]
  /\ held \subseteq OpIds \X Cats
  /\ regions \in 0..MaxRegions

(* the places op i is in *)
OnLists(i) == {tl \in Threads \X Lists : i \in ToSet(free[tl[1]][tl[2]])}
OnStacks(i) == {t \in Threads : i \in ToSet(cur[t])}
InCalls(i) ==
  {t \in InArrays : <<i, Root>> \in ToSet(call[t].arr) \/ \E b \in Batches : i \in ToSet(call[t].synced[b])}
Homes(i, lists) ==
  Cardinality(lists) + Cardinality(OnStacks(i)) + Cardinality(InCalls(i))
    + (IF <<i, Root>> \in held THEN 1 ELSE 0)

Underway(x) == xf[x].st \in {"request", "reply"}
InFlight(i) == {x \in Xfers : xf[x].op = i /\ Underway(x)}
Marking(i) == {p \in Pollers : hnd[p].in = "mark" /\ xf[hnd[p].x].op = i}

(* Every op that was ever allocated is in exactly one place: a free list of  *)
(* the thread that owns it, that thread's stack of iops, the client's hands  *)
(* or one array call.  On a free list it has no live event, no transfer on   *)
(* its way and no handler about to mark it, whichever thread freed it        *)
(* (gasnete_eop_free, gasnete_iop_free, the bulk frees, foreign_lock).       *)
OneHome ==
  \A i \in OpIds :
    LET lists == OnLists(i) IN
    /\ Homes(i, lists) = IF op[i].type = "unborn" THEN 0 ELSE 1
    /\ \A tl \in lists :
         /\ tl[1] = op[i].owner /\ IsInjective(free[tl[1]][tl[2]])
         /\ op[i].type = "free" /\ op[i].live = {}
         /\ InFlight(i) = {} /\ Marking(i) = {}

(* A client never keeps an event of an op that was freed: the two passes of  *)
(* gasnete_test_array do not sync a root and leave one of its leaves behind  *)
(* (gasnet_event.c:485).                                                     *)
NoLeafLeftBehind ==
  \A e \in held : op[OpOf(e)].type = "busy" /\ <<OpOf(e), Root>> \in held

(* What gasnete_test_array is about to return is the truth about its array:  *)
(* all_synced when every event was synced, some_synced when one was.         *)
ArrayResultTrue ==
  \A t \in Threads :
    call[t].in = "bulk" =>
      /\ call[t].all = (\A n \in 1..Len(call[t].arr) : call[t].arr[n] = Invalid)
      /\ call[t].some = (\E n \in 1..Len(call[t].arr) : call[t].arr[n] = Invalid)

-----------------------------------------------------------------------------
(* Why the properties hold.  First, where the ops are.                       *)

Listed(t, l) == ToSet(free[t][l])
Stacked(t) == ToSet(cur[t])
(* the events in the array of t's call that are not synced yet, and the ops  *)
(* it has synced and not freed yet                                           *)
Passed(t) == IF t \in InArrays THEN ToSet(call[t].arr) \ {Invalid} ELSE {}
Synced(t) ==
  IF t \in InArrays THEN UNION {ToSet(call[t].synced[b]) : b \in Batches} ELSE {}

IsOpen(i) == op[i].type = "busy" /\ i \in Iops /\ op[i].next # "self"
IsClosed(i) == op[i].type = "busy" /\ (i \in Eops \/ op[i].next = "self")

ListsInv ==
  /\ \A t \in Threads, l \in Lists :
       /\ IsInjective(free[t][l])
       /\ \A i \in Listed(t, l) : /\ op[i].type = "free" /\ op[i].owner = t
                                  /\ i \in Eops <=> l \in {"eop", "feop"}
       /\ \A m \in Lists \ {l} : Listed(t, l) \intersect Listed(t, m) = {}
  /\ \A i \in OpIds :
       op[i].type = "free" => \E t \in Threads, l \in Lists : i \in Listed(t, l)

StacksInv ==
  /\ \A t \in Threads :
       /\ cur[t] # <<>> /\ IsInjective(cur[t])
       /\ \A k \in DOMAIN cur[t] : /\ IsOpen(cur[t][k]) /\ op[cur[t][k]].owner = t
                                   /\ op[cur[t][k]].next = "null" <=> k = Len(cur[t])
  /\ \A i \in Iops : IsOpen(i) => \E t \in Threads : i \in Stacked(t)

HandsInv ==
  /\ \A e \in held : IsClosed(OpOf(e)) /\ <<OpOf(e), Root>> \in held
  /\ \A t \in Threads :
       /\ Passed(t) \intersect held = {}
       /\ \A u \in Threads \ {t} : /\ Passed(t) \intersect Passed(u) = {}
                                   /\ Synced(t) \intersect Synced(u) = {}
       /\ \A e \in Passed(t) :
            \/ OpOf(e) \in Synced(t)
            \/ IsClosed(OpOf(e)) /\ <<OpOf(e), Root>> \in held \union Passed(t)
       /\ \A i \in Synced(t) : op[i].type = "pendingfree"
       /\ call[t].in = "bulk" => \A e \in Passed(t) : OpOf(e) \notin Synced(t)
  /\ \A i \in OpIds :
       /\ IsClosed(i) => \/ <<i, Root>> \in held
                         \/ \E t \in Threads : <<i, Root>> \in Passed(t)
       /\ op[i].type = "pendingfree" => \E t \in Threads : i \in Synced(t)

(* Second, the array calls. *)
BatchesInv(a) ==
  \A b \in Batches :
    /\ IsInjective(a.synced[b])
    /\ \A i \in ToSet(a.synced[b]) :
         /\ KindOf(i) = b[1]
         /\ b[2] = 0 => op[i].owner = op[Head(a.synced[b])].owner
    /\ \A c \in Batches \ {b} : ToSet(a.synced[b]) \intersect ToSet(a.synced[c]) = {}

Tested(a) == IF a.in = "pass1" THEN 1..(a.i - 1) ELSE DOMAIN a.arr
LeavesIn(a, S) == {k \in S : IsLeaf(a.arr[k])}

ArrayInv(a) ==
  /\ \A j, k \in DOMAIN a.arr : a.arr[j] = a.arr[k] => j = k \/ a.arr[j] = Invalid
  /\ a.some = \E k \in Tested(a) : a.arr[k] = Invalid
  /\ ToFree(a) # {} => a.some
  /\ \A k \in DOMAIN a.arr, b \in Batches :
       ~IsLeaf(a.arr[k]) => OpOf(a.arr[k]) \notin ToSet(a.synced[b])
  /\ a.in \in {"pass1", "pass2"} => a.i \in DOMAIN a.arr
  /\ a.in = "pass1" =>
       /\ \A k \in DOMAIN a.arr : k >= a.i => a.arr[k] # Invalid
       /\ a.retest = Cardinality(LeavesIn(a, 1..(a.i - 1)))
       /\ a.all = \A k \in 1..(a.i - 1) : a.arr[k] = Invalid \/ IsLeaf(a.arr[k])
  /\ a.in = "pass2" =>
       /\ a.retest > 0 /\ a.retest = Cardinality(LeavesIn(a, a.i..Len(a.arr)))
       /\ a.all = \A k \in DOMAIN a.arr :
                    a.arr[k] = Invalid \/ (k >= a.i /\ IsLeaf(a.arr[k]))
       /\ \A k \in 1..(a.i - 1), b \in Batches :
            IsLeaf(a.arr[k]) => OpOf(a.arr[k]) \notin ToSet(a.synced[b])
  /\ a.in = "bulk" => a.all = \A k \in DOMAIN a.arr : a.arr[k] = Invalid

ArraysInv == \A t \in InArrays : BatchesInv(call[t]) /\ ArrayInv(call[t])

(* Third, the counters and the event bits. *)
Pending(i, c) == {x \in Xfers : xf[x].op = i /\ xf[x].cat = c}

CountersInv ==
  \A i \in Iops, c \in Cats :
    op[i].ini[c] = op[i].com[c] + Cardinality(Pending(i, c))
                     + (IF op[i].next = "parent" THEN 1 ELSE 0)

BitsInv ==
  /\ \A i \in OpIds :
       /\ op[i].type \in {"free", "pendingfree"} => op[i].live = {}
       /\ op[i].type = "unborn" => op[i] = Unborn
       /\ op[i].type # "unborn" => op[i].owner \in Threads
  /\ \A i \in Iops :
       /\ op[i].type \in {"free", "pendingfree"} => op[i].next = "self"
       /\ op[i].next = "parent" => op[i].type = "busy" /\ op[i].live = Cats
       /\ op[i].next = "self" =>
            \A c \in Cats \ op[i].live : op[i].ini[c] = op[i].com[c]
  /\ \A i \in Eops : op[i].live \subseteq {Root}

TransfersInv ==
  /\ \A x \in Xfers :
       /\ xf[x].st = "none" => xf[x].op = 0
       /\ Underway(x) => xf[x].op # 0
       /\ xf[x].op \in Eops =>
            /\ op[xf[x].op].type = "busy" /\ op[xf[x].op].live = {Root}
            /\ \A y \in Xfers \ {x} : xf[y].op # xf[x].op
  /\ \A p \in Pollers :
       /\ hnd[p].in = "mark" =>
            /\ xf[hnd[p].x].st = "done" /\ xf[hnd[p].x].op # 0
            /\ \A q \in Pollers \ {p} : hnd[q].in = "mark" => hnd[q].x # hnd[p].x
       /\ hnd[p].in = "compare" => hnd[p].com <= op[hnd[p].op].com[hnd[p].cat]

EventInv ==
  /\ EventTypeOK /\ ListsInv /\ StacksInv /\ HandsInv /\ ArraysInv
  /\ CountersInv /\ BitsInv /\ TransfersInv

(* The events keep what EventSpec promises: each fires once, after its       *)
(* region ended and after the data of every transfer arrived, although       *)
(* handlers complete transfers while the region still issues others          *)
(* (gasnete_aop_create, GASNETE_IOP_CNT_FINISH_REG).                         *)
EventPhase(i) ==
  IF op[i].type # "busy" THEN "idle"
  ELSE IF i \in Eops \/ op[i].next = "self" THEN "closed" ELSE "open"

EventOf(x) == IF xf[x].op \in Eops THEN Root ELSE xf[x].cat

Abstract == INSTANCE EventSpec WITH
  Op <- OpIds, Cat <- Cats, Xfer <- Xfers,
  phase <- [i \in OpIds |-> EventPhase(i)],
  owed <- {<<xf[x].op, EventOf(x), x>> : x \in {y \in Xfers : Underway(y) /\ ~Landed(y)}},
  fired <- [i \in OpIds |-> IF EventPhase(i) = "closed" THEN Cats \ op[i].live ELSE {}]

ImplementsEvents == Abstract!Spec

=============================================================================
