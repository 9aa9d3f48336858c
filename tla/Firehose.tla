------------------------------ MODULE Firehose ------------------------------
(***************************************************************************)
(* Firehose, region variant with the options of ibv-conduit: a cache of    *)
(* registered memory.  A node registers regions for its own transfers      *)
(* (local pins) and, asked by Active Message, for those of its peers,      *)
(* which keep a table of what is registered for them (remote pins).  A     *)
(* region that nobody uses stays registered, in a FIFO of victims, until   *)
(* its place is needed.                                                    *)
(*                                                                         *)
(* A section under fh_table_lock is one action.  The registration calls of *)
(* firehose_move_callback, made without the lock, are part of the section  *)
(* that follows them: nobody reads the registrations in between.           *)
(***************************************************************************)
EXTENDS Integers, Sequences, FiniteSets, FiniteSetsExt, SequencesExt

CONSTANTS FhNodes, FhThreads,
          FhNodeOf,       \* the node of each thread
          FhRoutes,       \* <<x, y>>: x pins memory of y
          FhPins,         \* request descriptors of the clients
          FhThreadOf,     \* the thread that makes the calls for a descriptor
          FhAsked,        \* <<node, region>>: what a descriptor may ask for
          FhPages,        \* the pages (buckets) of a node
          fhi_MaxRegionSize, fhc_MaxVictimBuckets, fhc_RemoteBucketsM,
          FhMaxCalls      \* bound on the calls that pin

ASSUME FirehoseAssumption ==
  /\ FhPages \subseteq Nat \ {0} /\ IsFiniteSet(FhPages)
  /\ FhRoutes \subseteq FhNodes \X FhNodes
  /\ fhi_MaxRegionSize \in Nat \ {0} /\ fhc_MaxVictimBuckets \in Nat
  /\ fhc_RemoteBucketsM \in Nat \ {0} /\ FhMaxCalls \in Nat

VARIABLES
  local,       \* local[n]: n's table of its own regions
  remote,      \* remote[<<x, y>>]: x's table of regions of y
  registered,  \* registered[n]: <<region, k>>, the k-th registration of region
  moves,       \* move requests, requests being handled, and replies
  pin,         \* pin[q]: the state of q and of the call that pins it
  pinCalls     \* calls so far

firehoseVars == <<local, remote, registered, moves, pin, pinCalls>>

FH_MAX_UNPIN == 4

\* A region is <<first page, pages>>.
PagesOf(r) == r[1]..(r[1] + r[2] - 1)
Past(r) == r[1] + r[2]
FhRegions == {r \in FhPages \X (1..fhi_MaxRegionSize) : PagesOf(r) \subseteq FhPages}
NoRegion == <<>>

-----------------------------------------------------------------------------
(***************************************************************************)
(* Tables.  entries: id -> region and counts; best: for each page the id   *)
(* that fh_BucketTable1 holds; fifo: the victims, oldest first.  The id of *)
(* a local entry is its region, that of a remote one is <<slot>>.          *)
(***************************************************************************)
EmptyTable == [entries |-> <<>>, best |-> [p \in FhPages |-> NoRegion], fifo |-> <<>>]

Visible(t, id) == \E p \in FhPages : t.best[p] = id

fh_bucket_is_better(a, b) == Past(a) > Past(b) \/ (Past(a) = Past(b) /\ a[2] > b[2])

\* Entry id takes page p if it is better there; a victim that is nowhere the
\* best any more becomes the first to go.
fh_bucket_hash(t, id, p) ==
  LET other == t.best[p]
      u == [t EXCEPT !.best[p] = id]
  IN IF other = NoRegion THEN u
     ELSE IF ~fh_bucket_is_better(t.entries[id].reg, t.entries[other].reg) THEN t
     ELSE IF Visible(u, other) \/ ~Contains(t.fifo, other) THEN u
     ELSE [u EXCEPT !.fifo = <<other>> \o Remove(@, other)]

\* Entry id with its region's pages, in the order of their addresses.
Hashed(t, id) ==
  LET r == t.entries[id].reg
  IN FoldLeft(LAMBDA u, p : fh_bucket_hash(u, id, p), t,
              [k \in 1..r[2] |-> r[1] + k - 1])

\* Without the entries ids: on each page the best that is left.
fh_destroy_priv(t, ids) ==
  LET left == [i \in DOMAIN t.entries \ ids |-> t.entries[i]]
      Best(p) == LET c == {i \in DOMAIN left : p \in PagesOf(left[i].reg)}
                 IN IF c = {} THEN NoRegion
                    ELSE CHOOSE i \in c : \A j \in c :
                           ~fh_bucket_is_better(left[j].reg, left[i].reg)
  IN [t EXCEPT !.entries = left,
               !.best = [p \in FhPages |-> IF @[p] \in ids THEN Best(p) ELSE @[p]]]

\* The k oldest victims, and the table without them.
Victims(t, k) == SubSeq(t.fifo, 1, k)
fh_FreeVictim(t, k) ==
  [fh_destroy_priv(t, ToSet(Victims(t, k))) EXCEPT !.fifo = SubSeq(@, k + 1, Len(@))]

\* fh_clean_covered: victims at the head of the FIFO that are nowhere the best.
Covered(t, limit) ==
  Max({k \in 0..Min({limit, Len(t.fifo)}) : \A j \in 1..k : ~Visible(t, t.fifo[j])})

\* fhi_find_priv: the entry that covers region r.
Find(t, r) ==
  LET id == t.best[r[1]]
  IN IF id # NoRegion /\ Past(r) <= Past(t.entries[id].reg) THEN id ELSE NoRegion

\* Where a released entry goes in the FIFO.
Parked(t, id) == IF Visible(t, id) THEN Append(t.fifo, id) ELSE <<id>> \o t.fifo

Registrations(t, ids) == {<<t.entries[i].reg, t.entries[i].mr>> : i \in ids}
NextRegistration(n, r) == Min({k \in 1..(Cardinality(registered[n]) + 1) :
                                 <<r, k>> \notin registered[n]})
-----------------------------------------------------------------------------
(***************************************************************************)
(* Reference counts.  l counts local pins, r pins of other nodes.  `lonly` *)
(* is fhc_LocalOnlyBucketsPinned: entries in the FIFO, entries with l > 0, *)
(* and the places that calls have reserved.                                *)
(***************************************************************************)
fh_priv_acquire_local(h, id, l, r) ==
  LET e == h.entries[id]
      parked == e.l + e.r = 0
  IN [h EXCEPT !.entries[id].l = @ + l, !.entries[id].r = @ + r,
               !.fifo = IF parked THEN Remove(@, id) ELSE @,
               !.lonly = IF parked THEN @ - r
                         ELSE IF l = 1 /\ e.l = 0 THEN @ + 1 ELSE @]

fh_priv_release_local(h, id, l, r) ==
  LET e == h.entries[id]
      parked == e.l + e.r = 1
  IN [h EXCEPT !.entries[id].l = @ - l, !.entries[id].r = @ - r,
               !.fifo = IF parked THEN Parked(h, id) ELSE @,
               !.lonly = IF parked THEN @ + r
                         ELSE IF l = 1 /\ e.l = 1 THEN @ - 1 ELSE @]

Created(h, r, k, l) ==
  Hashed([h EXCEPT !.entries = @ @@ (r :> [reg |-> r, mr |-> k, l |-> l, r |-> 1 - l])], r)

\* Mutation of FH_IS_READY: the limit is not looked at.
FH_IS_READYAlways(h, id) == TRUE

\* FH_IS_READY of a local entry: it can be pinned within the limit.
FH_IS_READY(h, id) ==
  \/ h.lonly < fhc_MaxVictimBuckets
  \/ h.entries[id].l + h.entries[id].r = 0
  \/ h.entries[id].l > 0

\* Mutation of MayReserve: victims are not reused.
MayReserveFree(h) == h.lonly < fhc_MaxVictimBuckets

\* fh_WaitLocalFirehoses gets a place under the limit, or that of a victim,
\* and then takes covered victims too.
MayReserve(h) == h.lonly < fhc_MaxVictimBuckets \/ h.fifo # <<>>
Reserved(h) ==
  LET v == IF h.lonly < fhc_MaxVictimBuckets THEN 0 ELSE 1
      c == Covered(fh_FreeVictim(h, v), FH_MAX_UNPIN - v)
      gone == Registrations(h, ToSet(Victims(h, v + c)))
  IN [table |-> [fh_FreeVictim(h, v + c) EXCEPT !.lonly = @ + 1 - v - c],
      gone |-> gone]

\* fhi_merge_regions: what is registered for region r, with its neighbours.
MergedRegion(h, r) ==
  LET s == h.best[Past(r)]
      more == IF Past(r) \in FhPages /\ s # NoRegion THEN Past(s) - Past(r) ELSE 0
      r1 == IF more <= fhi_MaxRegionSize - r[2] THEN <<r[1], r[2] + more>> ELSE r
      b == h.best[r[1] - 1]
      less == IF r[1] - 1 \in FhPages /\ b # NoRegion THEN r[1] - b[1] ELSE 0
  IN IF less <= fhi_MaxRegionSize - r1[2] THEN <<r[1] - less, r1[2] + less>> ELSE r1

-----------------------------------------------------------------------------
(***************************************************************************)
(* Local pins.  `new` is the region a call registers and `mr` its          *)
(* registration, `gone` are registrations to undo, `id` the entry held.    *)
(***************************************************************************)
Unpinned == [at |-> "idle", to |-> CHOOSE n \in FhNodes : TRUE,
             asked |-> NoRegion, new |-> NoRegion,
             mr |-> 0, gone |-> {}, id |-> NoRegion]

NodeOfPin(q) == FhNodeOf[FhThreadOf[q]]
TableOf(q) == local[NodeOfPin(q)]
InCall(q) == pin[q].at \in {"wait", "move", "spin", "unpin", "drop", "remote wait"}

PinState(q, s) == pin' = [pin EXCEPT ![q] = s]
LocalState(q, h) == local' = [local EXCEPT ![NodeOfPin(q)] = h]
Deregister(q, regs) == registered' = [registered EXCEPT ![NodeOfPin(q)] = @ \ regs]

\* Call s returns with entry id, which is e: the client has the entry's region.
HeldBy(s, id, e) ==
  [Unpinned EXCEPT !.at = "held", !.to = s.to, !.asked = s.asked, !.id = id,
                   !.new = e.reg, !.mr = e.mr]

\* fhi_wait_for_one, with call s: the entry has users elsewhere only, and one
\* more local region needs a place that is not there.
WaitForOne(q, h, s) ==
  IF h.fifo = <<>>
  THEN LocalState(q, h) /\ PinState(q, [s EXCEPT !.at = "spin", !.gone = {}])
  ELSE /\ LocalState(q, Reserved(h).table)
       /\ PinState(q, [s EXCEPT !.at = "unpin", !.gone = Reserved(h).gone])

\* A miss: s.new is to be registered, once there is a place.
Miss(q, h, s) ==
  IF MayReserve(h)
  THEN /\ LocalState(q, Reserved(h).table)
       /\ PinState(q, [s EXCEPT !.at = "move", !.gone = Reserved(h).gone])
  ELSE LocalState(q, h) /\ PinState(q, [s EXCEPT !.at = "wait"])

fh_acquire_local_region(q, h, s) ==
  LET id == Find(h, s.asked) IN
  IF id = NoRegion THEN Miss(q, h, [s EXCEPT !.new = MergedRegion(h, s.asked)])
  ELSE IF FH_IS_READY(h, id)
  THEN /\ LocalState(q, fh_priv_acquire_local(h, id, 1, 0))
       /\ PinState(q, HeldBy(s, id, h.entries[id]))
  ELSE WaitForOne(q, h, s)

\* fhi_init_local_region(1, new): if another registered the same region
\* meanwhile, that one is used and the call's own dropped.
fhi_init_local_region(q, h, s) ==
  IF s.new \notin DOMAIN h.entries THEN
    /\ LocalState(q, Created(h, s.new, s.mr, 1))
    /\ PinState(q, HeldBy(s, s.new, [reg |-> s.new, mr |-> s.mr]))
  ELSE IF FH_IS_READY(h, s.new) THEN
    /\ LocalState(q, fh_priv_acquire_local(h, s.new, 1, 0))
    /\ PinState(q, [s EXCEPT !.at = "drop", !.gone = {<<s.new, s.mr>>}])
  ELSE WaitForOne(q, h, s)

\* A descriptor can be used for a new call: its thread is in no other.
MayPin(q, n, r) ==
  /\ pin[q].at = "idle" /\ pinCalls < FhMaxCalls /\ <<n, r>> \in FhAsked[q]
  /\ ~\E p \in FhPins : FhThreadOf[p] = FhThreadOf[q] /\ InCall(p)
NewCall(n, r) == [Unpinned EXCEPT !.to = n, !.asked = r]

firehose_local_pin(q, r) ==
  LET n == NodeOfPin(q) IN
  /\ MayPin(q, n, r)
  /\ fh_acquire_local_region(q, local[n], NewCall(n, r))
  /\ pinCalls' = pinCalls + 1
  /\ UNCHANGED <<remote, registered, moves>>

\* A poll in fh_WaitLocalFirehoses finds a place.
fh_WaitLocalFirehoses(q) ==
  /\ pin[q].at = "wait" /\ MayReserve(TableOf(q))
  /\ Miss(q, TableOf(q), pin[q])
  /\ UNCHANGED <<remote, registered, moves, pinCalls>>

\* firehose_move_callback has returned.
FinishMiss(q) ==
  LET n == NodeOfPin(q)
      k == NextRegistration(n, pin[q].new)
  IN /\ pin[q].at = "move"
     /\ registered' = [registered EXCEPT ![n] = (@ \ pin[q].gone) \cup {<<pin[q].new, k>>}]
     /\ fhi_init_local_region(q, local[n], [pin[q] EXCEPT !.gone = {}, !.mr = k])
     /\ UNCHANGED <<remote, moves, pinCalls>>

\* The rest of the call after fhi_wait_for_one.
AfterWait(q, h) ==
  LET s == [pin[q] EXCEPT !.gone = {}]
  IN IF s.mr = 0 THEN fh_acquire_local_region(q, h, [s EXCEPT !.new = NoRegion])
     ELSE fhi_init_local_region(q, h, s)

\* A poll in fhi_wait_for_one finds a place under the limit, or a victim.
fhi_wait_for_one(q) ==
  LET h == TableOf(q) IN
  /\ pin[q].at = "spin" /\ MayReserve(h)
  /\ IF h.lonly < fhc_MaxVictimBuckets THEN AfterWait(q, h) ELSE WaitForOne(q, h, pin[q])
  /\ UNCHANGED <<remote, registered, moves, pinCalls>>

\* The victim is unpinned.
FinishWait(q) ==
  /\ pin[q].at = "unpin"
  /\ Deregister(q, pin[q].gone)
  /\ AfterWait(q, [TableOf(q) EXCEPT !.lonly = @ - 1])
  /\ UNCHANGED <<remote, moves, pinCalls>>

\* The duplicate is unpinned, its place given back.
FinishDuplicate(q) ==
  LET id == pin[q].new IN
  /\ pin[q].at = "drop"
  /\ Deregister(q, pin[q].gone)
  /\ LocalState(q, [TableOf(q) EXCEPT !.lonly = @ - 1])
  /\ PinState(q, HeldBy(pin[q], id, TableOf(q).entries[id]))
  /\ UNCHANGED <<remote, moves, pinCalls>>

fh_release_local_region(q) ==
  /\ pin[q].at = "held" /\ pin[q].to = NodeOfPin(q)
  /\ LocalState(q, fh_priv_release_local(TableOf(q), pin[q].id, 1, 0))
  /\ PinState(q, Unpinned)
  /\ UNCHANGED <<remote, registered, moves, pinCalls>>

-----------------------------------------------------------------------------
(***************************************************************************)
(* Remote pins.  A message that moves the firehose of slot `id` of node    *)
(* `from` at node `to` is a request, then a stage of its handler, then a   *)
(* reply; `old` are the regions it gives up.                               *)
(***************************************************************************)
RemoteOf(q, n) == remote[<<NodeOfPin(q), n>>]
RemoteState(q, n, t) == remote' = [remote EXCEPT ![<<NodeOfPin(q), n>>] = t]

\* A new firehose for call s, instead of the v oldest victims of table t.
NewFirehose(q, t, s, v) ==
  LET c == v + Covered(fh_FreeVictim(t, v), FH_MAX_UNPIN - v)
      u == fh_FreeVictim(t, c)
      id == CHOOSE i \in {<<k>> : k \in 1..fhc_RemoteBucketsM} : i \notin DOMAIN u.entries
      e == [reg |-> s.asked, mr |-> 0, refs |-> 1, pending |-> TRUE]
  IN /\ RemoteState(q, s.to, Hashed([u EXCEPT !.entries = @ @@ (id :> e)], id))
     /\ moves' = moves \cup
          {[at |-> "request", from |-> NodeOfPin(q), to |-> s.to, id |-> id,
            new |-> s.asked, mr |-> 0, gone |-> {},
            old |-> [i \in 1..c |-> t.entries[t.fifo[i]].reg]]}
     /\ PinState(q, [s EXCEPT !.at = "pending", !.id = id])

firehose_remote_pin(q, n, r) ==
  LET t == RemoteOf(q, n)
      id == Find(t, r)
      call == NewCall(n, r)
  IN /\ MayPin(q, n, r) /\ n # NodeOfPin(q)
     /\ pinCalls' = pinCalls + 1
     /\ \/ /\ id # NoRegion
           /\ RemoteState(q, n, [t EXCEPT !.entries[id].refs = @ + 1,
                                         !.fifo = Remove(@, id)])
           /\ PinState(q, IF t.entries[id].pending
                          THEN [call EXCEPT !.at = "pending", !.id = id]
                          ELSE HeldBy(call, id, t.entries[id]))
           /\ UNCHANGED moves
        \/ /\ id = NoRegion /\ t.used < fhc_RemoteBucketsM
           /\ NewFirehose(q, [t EXCEPT !.used = @ + 1], call, 0)
        \/ /\ id = NoRegion /\ t.used = fhc_RemoteBucketsM /\ t.fifo # <<>>
           /\ NewFirehose(q, t, call, 1)
        \/ /\ id = NoRegion /\ t.used = fhc_RemoteBucketsM /\ t.fifo = <<>>
           /\ PinState(q, [call EXCEPT !.at = "remote wait"])
           /\ UNCHANGED <<remote, moves>>
     /\ UNCHANGED <<local, registered>>

\* A poll in fh_WaitRemoteFirehoses finds a victim.
fh_WaitRemoteFirehoses(q) ==
  LET t == RemoteOf(q, pin[q].to) IN
  /\ pin[q].at = "remote wait" /\ t.fifo # <<>>
  /\ NewFirehose(q, t, pin[q], 1)
  /\ UNCHANGED <<local, registered, pinCalls>>

\* The handler of a move request, up to the calls that pin and unpin.
fh_move_request(m) ==
  LET h == local[m.to]
      id == Find(h, m.new)
      hit == id # NoRegion
      h1 == IF hit THEN fh_priv_acquire_local(h, id, 0, 1) ELSE h
      h2 == FoldLeft(LAMBDA u, r : fh_priv_release_local(u, r, 0, 1), h1, m.old)
      over == Max({0, h2.lonly - fhc_MaxVictimBuckets})
      n == [m EXCEPT !.new = IF hit THEN h.entries[id].reg ELSE MergedRegion(h, m.new),
                     !.mr = IF hit THEN h.entries[id].mr ELSE 0,
                     !.gone = Registrations(h2, ToSet(Victims(h2, over))),
                     !.old = <<>>,
                     !.at = IF hit /\ over = 0 THEN "reply" ELSE "pinning"]
  IN /\ m.at = "request"
     /\ local' = [local EXCEPT ![m.to] =
                    [fh_FreeVictim(h2, over) EXCEPT !.lonly = @ - over]]
     /\ moves' = (moves \ {m}) \cup {n}
     /\ UNCHANGED <<remote, registered, pin, pinCalls>>

\* Mutation of Registered: the handler's own registration.
RegisteredOwn(h, m, k) == k

\* The registration of the region that m pins: an entry's, or the new k-th.
Registered(h, m, k) == IF m.new \in DOMAIN h.entries THEN h.entries[m.new].mr ELSE k

\* The rest of the handler.  A region that a thread has registered meanwhile
\* is used, and the handler's own registration undone.
FinishMove(m) ==
  LET h == local[m.to]
      miss == m.mr = 0
      twin == m.new \in DOMAIN h.entries
      k == NextRegistration(m.to, m.new)
      n == [m EXCEPT !.at = "reply", !.gone = {},
                     !.mr = IF miss THEN Registered(h, m, k) ELSE @]
  IN /\ m.at = "pinning"
     /\ local' = IF ~miss THEN local
                 ELSE [local EXCEPT ![m.to] = IF twin
                         THEN fh_priv_acquire_local(h, m.new, 0, 1)
                         ELSE Created(h, m.new, k, 0)]
     /\ registered' = [registered EXCEPT ![m.to] =
                         (@ \ m.gone) \cup (IF miss /\ ~twin THEN {<<m.new, k>>} ELSE {})]
     /\ moves' = (moves \ {m}) \cup {n}
     /\ UNCHANGED <<remote, pin, pinCalls>>

\* The handler of the reply, with the callbacks of the calls that wait for it.
fh_find_pending_callbacks(m) ==
  LET t == remote[<<m.from, m.to>>]
      u == Hashed([t EXCEPT !.entries[m.id] = [@ EXCEPT !.reg = m.new, !.mr = m.mr,
                                                         !.pending = FALSE]], m.id)
      Waits(q) == /\ pin[q].at = "pending" /\ pin[q].id = m.id
                  /\ NodeOfPin(q) = m.from /\ pin[q].to = m.to
  IN /\ m.at = "reply"
     /\ remote' = [remote EXCEPT ![<<m.from, m.to>>] = u]
     /\ pin' = [q \in FhPins |-> IF Waits(q) THEN HeldBy(pin[q], m.id, [reg |-> m.new, mr |-> m.mr])
                                ELSE pin[q]]
     /\ moves' = moves \ {m}
     /\ UNCHANGED <<local, registered, pinCalls>>

fh_release_remote_region(q) ==
  LET t == RemoteOf(q, pin[q].to)
      id == pin[q].id
      last == t.entries[id].refs = 1
  IN /\ pin[q].at = "held" /\ pin[q].to # NodeOfPin(q)
     /\ RemoteState(q, pin[q].to, [t EXCEPT !.entries[id].refs = @ - 1,
                                   !.fifo = IF last THEN Parked(t, id) ELSE @])
     /\ PinState(q, Unpinned)
     /\ UNCHANGED <<local, registered, moves, pinCalls>>

-----------------------------------------------------------------------------
FirehoseInit ==
  /\ local = [n \in FhNodes |-> EmptyTable @@ [lonly |-> 0]]
  /\ remote = [xy \in FhRoutes |-> EmptyTable @@ [used |-> 0]]
  /\ registered = [n \in FhNodes |-> {}]
  /\ moves = {} /\ pinCalls = 0
  /\ pin = [q \in FhPins |-> Unpinned]

CallStep(q) ==
  \/ fh_WaitLocalFirehoses(q) \/ FinishMiss(q) \/ fhi_wait_for_one(q)
  \/ FinishWait(q) \/ FinishDuplicate(q) \/ fh_WaitRemoteFirehoses(q)
  \/ fh_release_local_region(q) \/ fh_release_remote_region(q)
MoveStep(m) == fh_move_request(m) \/ FinishMove(m) \/ fh_find_pending_callbacks(m)

FirehoseNext ==
  \/ \E q \in FhPins :
       \/ CallStep(q)
       \/ \E r \in FhRegions : firehose_local_pin(q, r)
       \/ \E n \in FhNodes, r \in FhRegions : firehose_remote_pin(q, n, r)
  \/ \E m \in moves : MoveStep(m)

FirehoseSpec == FirehoseInit /\ [][FirehoseNext]_firehoseVars

-----------------------------------------------------------------------------
FhEntryOK(t) ==
  /\ \A id \in DOMAIN t.entries : t.entries[id].reg \in FhRegions
  /\ \A p \in FhPages : t.best[p] \in DOMAIN t.entries \cup {NoRegion}
  /\ ToSet(t.fifo) \subseteq DOMAIN t.entries

FirehoseTypeOK ==
  /\ \A n \in FhNodes : /\ FhEntryOK(local[n]) /\ local[n].lonly \in Nat
                        /\ registered[n] \subseteq FhRegions \X Nat
  /\ \A xy \in FhRoutes : /\ FhEntryOK(remote[xy])
                          /\ remote[xy].used \in 0..fhc_RemoteBucketsM
  /\ \A m \in moves : /\ m.at \in {"request", "pinning", "reply"}
                      /\ m.new \in FhRegions /\ <<m.from, m.to>> \in FhRoutes
  /\ \A q \in FhPins : /\ pin[q].at \in {"idle", "wait", "move", "spin", "unpin", "drop",
                                         "remote wait", "pending", "held"}
                       /\ pin[q].new \in FhRegions \cup {NoRegion}
  /\ pinCalls \in 0..FhMaxCalls

\* Registrations of n that somebody is about to undo.
Leaving(n) == UNION ({pin[q].gone : q \in {p \in FhPins : NodeOfPin(p) = n}}
                     \cup {m.gone : m \in {o \in moves : o.to = n}})

\* What a client holds, local or remote, covers what it asked for and is
\* registered, and nobody is about to undo that registration, whatever the
\* caches on both sides have merged, evicted or found twice meanwhile.
PinnedInUse ==
  \A q \in FhPins : pin[q].at = "held" =>
    /\ PagesOf(pin[q].asked) \subseteq PagesOf(pin[q].new)
    /\ <<pin[q].new, pin[q].mr>> \in registered[pin[q].to] \ Leaving(pin[q].to)

\* The local pins of n's entry r.
LocalUsers(n, r) ==
  {q \in FhPins : /\ NodeOfPin(q) = n
                  /\ \/ pin[q].at = "held" /\ pin[q].to = n /\ pin[q].id = r
                     \/ pin[q].at = "drop" /\ pin[q].new = r}

\* Who else counts on it: firehoses of peers, moves to them whose reply is not
\* handled, and moves from them that have not arrived.
PeerUsers(n, r) ==
  LET to == {m \in moves : m.to = n}
  IN Cardinality({e \in {xy \in FhRoutes : xy[2] = n} \X {<<k>> : k \in 1..fhc_RemoteBucketsM} :
                    LET t == remote[e[1]].entries IN
                    e[2] \in DOMAIN t /\ ~t[e[2]].pending /\ t[e[2]].reg = r})
     + Cardinality({m \in to : m.new = r /\ (m.at = "reply" \/ (m.at = "pinning" /\ m.mr # 0))})
     + MapThenSumSet(LAMBDA m : Cardinality({i \in DOMAIN m.old : m.old[i] = r}), to)

\* The calls of n that have reserved a place, and those that wait for a second.
HoldsPlace(q) == pin[q].at \in {"move", "drop"} \/ (pin[q].at \in {"spin", "unpin"} /\ pin[q].mr # 0)
Reservations(n) ==
  Cardinality({q \in FhPins : NodeOfPin(q) = n /\ HoldsPlace(q)})
  + Cardinality({q \in FhPins : NodeOfPin(q) = n /\ pin[q].at = "unpin"})

Unused(t, InUse(_)) ==
  /\ IsInjective(t.fifo)
  /\ ToSet(t.fifo) = {id \in DOMAIN t.entries : ~InUse(id)}

\* The counts of node n's table are the uses that are left, the FIFO is what
\* nobody uses, and lonly the places taken, within the limit.
LocalCounts(n) ==
  LET t == local[n] IN
  /\ \A r \in DOMAIN t.entries : /\ t.entries[r].l = Cardinality(LocalUsers(n, r))
                                 /\ t.entries[r].r = PeerUsers(n, r)
  /\ Unused(t, LAMBDA r : t.entries[r].l + t.entries[r].r > 0)
  /\ t.lonly = Len(t.fifo) + Reservations(n)
                + Cardinality({r \in DOMAIN t.entries : t.entries[r].l > 0})
  /\ t.lonly <= fhc_MaxVictimBuckets

RemoteCounts(xy) ==
  LET t == remote[xy] IN
  /\ \A id \in DOMAIN t.entries :
       /\ t.entries[id].refs =
            Cardinality({q \in FhPins : /\ pin[q].at \in {"held", "pending"}
                                        /\ <<NodeOfPin(q), pin[q].to>> = xy /\ pin[q].id = id})
       /\ t.entries[id].pending =
            (\E m \in moves : <<m.from, m.to>> = xy /\ m.id = id)
  /\ Unused(t, LAMBDA id : t.entries[id].refs > 0)

\* No registration is forgotten, or stays beyond what the limits allow.
RegistrationsKept(n) ==
  LET mine == {q \in FhPins : NodeOfPin(q) = n /\ pin[q].at \in {"spin", "unpin"} /\ pin[q].mr # 0}
  IN /\ registered[n] = Registrations(local[n], DOMAIN local[n].entries) \cup Leaving(n)
                         \cup {<<pin[q].new, pin[q].mr>> : q \in mine}
     /\ Cardinality(DOMAIN local[n].entries) <=
          fhc_MaxVictimBuckets
          + fhc_RemoteBucketsM * Cardinality({xy \in FhRoutes : xy[2] = n})

\* The reference counts of both sides, kept by messages that cross, agree with
\* the uses that exist; so nothing in use is evicted and nothing is leaked.
\* (With the types, so that one invariant describes the tables.)
CountsExact ==
  /\ FirehoseTypeOK
  /\ \A n \in FhNodes : LocalCounts(n) /\ RegistrationsKept(n)
  /\ \A xy \in FhRoutes : RemoteCounts(xy)

\* Calls of node n that have registered a region, found that a handler had done
\* so too, and wait for a second place.
WaitWithPlace(n) == {q \in FhPins : NodeOfPin(q) = n /\ pin[q].at = "spin" /\ pin[q].mr # 0}

\* A call that waits can count on another: on its own next poll, on a call or
\* a handler that is not waiting, or on a client that releases a region. Only
\* when all places are reserved by calls that wait for one more, nobody moves.
NeverStuck ==
  (\E q \in FhPins : pin[q].at \in {"wait", "spin", "remote wait", "pending"}) =>
    \/ moves # {}
    \/ \E q \in FhPins :
         \/ pin[q].at \in {"held", "move", "unpin", "drop"}
         \/ pin[q].at \in {"wait", "spin"} /\ MayReserve(TableOf(q))
         \/ pin[q].at = "remote wait" /\ RemoteOf(q, pin[q].to).fifo # <<>>
    \/ \E n \in FhNodes : Cardinality(WaitWithPlace(n)) >= fhc_MaxVictimBuckets

\* The budget of a peer is what its firehoses use ("Amount of buckets
\* currently used by the current node.", firehose_internal.h).
UsedIsHeld ==
  \A xy \in FhRoutes : remote[xy].used = Cardinality(DOMAIN remote[xy].entries)
=============================================================================
