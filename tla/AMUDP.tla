-------------------------------- MODULE AMUDP --------------------------------
(***************************************************************************)
(* The reliable request/reply protocol of AMUDP over lossy datagrams:      *)
(* src/other/amudp/amudp_reqrep.cpp.                                       *)
(*                                                                         *)
(* An endpoint keeps, for every peer and instance, a request descriptor    *)
(* (as requester) and a reply descriptor (as replier); a slot <<s, d, i>>  *)
(* names the pair of descriptors that s and d keep for s's requests of     *)
(* instance i.  A request is retransmitted until its reply arrives; the    *)
(* replier keeps its last reply and resends it to a repeated request.      *)
(*                                                                         *)
(* A descriptor's seqNum is 6 bits wide in the code.  Here reqSeq and      *)
(* repSeq count its increments without bound and the code's comparisons    *)
(* go through SeqNum, so the counts identify requests while the endpoints  *)
(* see no more than the code does.                                         *)
(*                                                                         *)
(* net stands for the sockets, the network and the rx FIFOs: a datagram in *)
(* it may be delivered never, once or repeatedly and in any order, but not *)
(* once its slot has completed more than maxLag later requests.            *)
(***************************************************************************)
EXTENDS Integers, Sequences, FiniteSets

CONSTANTS Nodes,         \* endpoints
          SeqMod,        \* 2^AMUDP_SEQNUM_BITS
          Environments   \* what an execution may be like, see Environment

\* nodes: the endpoints of the job; pairs: the <<s, d>> such that s sends
\* requests to d; depth: ep->depth, instances for each peer; sendDepth:
\* ep->sendDepth, most outstanding requests; maxLag: how many requests late a datagram may arrive; maxRetry:
\* max_retryCount, or Infinite; lossy: the network loses datagrams;
\* refusals: acceptance checks may fail; async: clients call
\* AMUDP_RequestXfer with async; fatal: handler 0 is the default one,
\* AMUDP_DefaultReturnedMsg_Handler; maxSeq: bound, no new call once a slot
\* did that many.
Infinite == -1
NoReply  == -1
Environment(e) ==
  /\ e.nodes \subseteq Nodes
  /\ e.pairs \subseteq {p \in e.nodes \X e.nodes : p[1] # p[2]}
  /\ e.depth \in Nat \ {0} /\ e.sendDepth \in Nat /\ e.sendDepth >= e.depth
  /\ e.maxLag \in Nat /\ e.maxLag + 2 <= SeqMod
  /\ e.maxRetry \in Nat \cup {Infinite} /\ e.maxSeq \in Nat
  /\ {e.lossy, e.refusals, e.async, e.fatal} \subseteq BOOLEAN

ASSUME EnvironmentAssumption ==
  SeqMod \in Nat /\ \A e \in Environments : Environment(e)

Pairs     == UNION {e.pairs : e \in Environments}
Instances == UNION {0 .. e.depth - 1 : e \in Environments}
Slots     == {<<p[1], p[2], i>> : p \in Pairs, i \in Instances}

VARIABLES
  env,      \* the environment of this execution, which never changes
  reqSeq,   \* request descriptor: seqNum
  busy,     \* request descriptor: buffer # NULL
  retry,    \* status.tx.retryCount of the request in that buffer
  repSeq,   \* reply descriptor: seqNum
  repBuf,   \* reply descriptor: the request its buffered reply answers
  stamped,  \* slots whose buffered reply has timestamp = ep->replyEpoch
  hint,     \* perProcInfo[d].instanceHint, for each pair
  ring,     \* the tx ring of each endpoint, from timeoutCheckPosn on
  stray,    \* endpoints whose timeoutCheckPosn points to no tx buffer
  polling,  \* endpoints inside AM_Poll
  call,     \* where each endpoint is in AMUDP_RequestGeneric
  dead,     \* endpoints whose process has aborted
  net,      \* datagrams that may still be delivered
  sent,     \* history: how many requests were sent on a slot
  ran,      \* history: the requests of a slot whose handlers ran
  done      \* history: the replies that completed a slot's requests

reqVars == <<reqSeq, busy, retry, hint, ring, stray>>
repVars == <<repSeq, repBuf, stamped>>
history == <<sent, ran, done>>
vars == <<reqVars, repVars, polling, call, dead, net, history>>

Src(c)  == c[1]
Dst(c)  == c[2]
Inst(c) == c[3]

Datagrams == [type : {"request", "reply", "refusedRequest", "refusedReply"},
              slot : Slots, seq : Nat]
Datagram(t, c, q) == [type |-> t, slot |-> c, seq |-> q]

\* Requests and refused replies travel to the replier, the rest back.
Receiver(m) ==
  IF m.type \in {"request", "refusedReply"} THEN Dst(m.slot) ELSE Src(m.slot)

\* Mutant: one bit, as AMUDP had before release 3.12.
SeqNumOneBit(q) == q % 2

\* AMUDP_SEQNUM_MASK: the part of a count that a message header carries.
SeqNum(q) == q % SeqMod

NoCall == [at |-> "none"]
Calls == {NoCall}
    \cup [at : {"acquire", "await"}, to : Nodes, async : BOOLEAN]
    \cup [at : {"async"}, to : Nodes]
    \cup [at : {"send"}, slot : Slots]

Init ==
  /\ env \in Environments
  /\ reqSeq = [c \in Slots |-> 0]
  /\ busy = [c \in Slots |-> FALSE]
  /\ retry = [c \in Slots |-> 0]
  /\ repSeq = [c \in Slots |-> 0]
  /\ repBuf = [c \in Slots |-> NoReply]
  /\ stamped = {}
  /\ hint = [p \in Pairs |-> 0]
  /\ ring = [n \in Nodes |-> <<>>]
  /\ stray = {}
  /\ polling = {}
  /\ call = [n \in Nodes |-> NoCall]
  /\ dead = {}
  /\ net = {}
  /\ sent = [c \in Slots |-> 0]
  /\ ran = [c \in Slots |-> <<>>]
  /\ done = [c \in Slots |-> <<>>]

-----------------------------------------------------------------------------
(***************************************************************************)
(* Helpers.                                                                *)
(***************************************************************************)
\* AMUDP_EnqueueTxBuffer inserts behind the check position; _Dequeue moves
\* the position on when it removes the buffer there.
Without(s, k) == [i \in 1 .. Len(s) - 1 |-> IF i < k THEN s[i] ELSE s[i + 1]]
Enqueue(n, c) == ring' = [ring EXCEPT ![n] = Append(@, c)]
Dequeue(n, c) == \E k \in DOMAIN ring[n] :
  ring[n][k] = c /\ ring' = [ring EXCEPT ![n] = Without(@, k)]

\* A request left its descriptor: drop the slot's datagrams that are now
\* too old to be delivered.
Aged(c, q) == {m \in net : m.slot = c => q - m.seq <= env.maxLag}

\* Handler 0 runs at n: the default handler aborts the process.
ReturnedHandler(n) == dead' = IF env.fatal THEN dead \cup {n} ELSE dead

\* Mutant: desc->buffer is not reset to NULL.
CompleteRequestKeepBuffer(c) ==
  /\ Dequeue(Src(c), c)
  /\ reqSeq' = [reqSeq EXCEPT ![c] = @ + 1]
  /\ hint' = [hint EXCEPT ![<<Src(c), Dst(c)>>] = Inst(c)]
  /\ UNCHANGED busy

\* Free the request descriptor of slot c because it was answered or refused.
CompleteRequest(c) ==
  /\ Dequeue(Src(c), c)
  /\ busy' = [busy EXCEPT ![c] = FALSE]
  /\ reqSeq' = [reqSeq EXCEPT ![c] = @ + 1]
  /\ hint' = [hint EXCEPT ![<<Src(c), Dst(c)>>] = Inst(c)]

-----------------------------------------------------------------------------
(***************************************************************************)
(* AMUDP_RequestGeneric at node s: poll, acquire a free request            *)
(* descriptor for d, wait for sendDepth, send.                             *)
(***************************************************************************)
\* The instances the acquisition loop examines.  The search for a free
\* instance advances `instance' but looks at descs[hint] again each time.
Examined(s, d) == {hint[<<s, d>>]}

\* Mutant: the hint does not wrap.
NextInstanceNoWrap(i) == i + 1

\* The hint after instance i was taken.
NextInstance(i) == IF i + 1 = env.depth THEN 0 ELSE i + 1

HasFree(s, d) == \E i \in Examined(s, d) : ~busy[<<s, d, i>>]

\* Mutant: replyEpoch is not reset.
EnterPollSameEpoch(n) == polling' = polling \cup {n} /\ UNCHANGED stamped

\* AM_Poll up to the loop of AMUDP_ServiceIncomingMessages: replyEpoch = 0.
EnterPoll(n) ==
  /\ polling' = polling \cup {n}
  /\ stamped' = {c \in stamped : Dst(c) # n}

Request(s, d) ==
  /\ <<s, d>> \in env.pairs
  /\ s \notin dead \cup polling
  /\ call[s] = NoCall
  /\ \A i \in Instances : reqSeq[<<s, d, i>>] < env.maxSeq
  /\ call' = [call EXCEPT ![s] = [at |-> "acquire", to |-> d,
                                      async |-> FALSE]]
  /\ EnterPoll(s)
  /\ UNCHANGED <<reqVars, repSeq, repBuf, dead, net, history>>

\* AMUDP_RequestXferVA with async: poll, then go on to RequestGeneric only
\* if it need not block, else return AM_ERR_IN_USE.
RequestAsync(s, d) ==
  /\ env.async
  /\ <<s, d>> \in env.pairs
  /\ s \notin dead \cup polling
  /\ call[s] = NoCall
  /\ \A i \in Instances : reqSeq[<<s, d, i>>] < env.maxSeq
  /\ call' = [call EXCEPT ![s] = [at |-> "async", to |-> d]]
  /\ EnterPoll(s)
  /\ UNCHANGED <<reqVars, repSeq, repBuf, dead, net, history>>

WouldBlock(s, d) ==
  \/ Len(ring[s]) >= env.sendDepth
  \/ \A i \in 0 .. env.depth - 1 : busy[<<s, d, i>>]

AsyncInUse(s) ==
  /\ s \notin dead \cup polling
  /\ call[s].at = "async"
  /\ WouldBlock(s, call[s].to)
  /\ call' = [call EXCEPT ![s] = NoCall]
  /\ UNCHANGED <<reqVars, repVars, polling, dead, net, history>>

AsyncGoesOn(s) ==
  /\ s \notin dead \cup polling
  /\ call[s].at = "async"
  /\ ~WouldBlock(s, call[s].to)
  /\ call' = [call EXCEPT ![s] = [at |-> "acquire", to |-> call[s].to,
                                  async |-> TRUE]]
  /\ EnterPoll(s)
  /\ UNCHANGED <<reqVars, repSeq, repBuf, dead, net, history>>

Acquire(s) ==
  /\ s \notin dead \cup polling
  /\ call[s].at \in {"acquire", "await"}
  /\ LET d == call[s].to IN
       \E i \in Examined(s, d) :
         /\ ~busy[<<s, d, i>>]
         /\ hint' = [hint EXCEPT ![<<s, d>>] = NextInstance(i)]
         /\ call' = [call EXCEPT ![s] = [at |-> "send", slot |-> <<s, d, i>>]]
  /\ UNCHANGED <<reqSeq, busy, retry, ring, stray, repVars, polling, dead,
                 net, history>>

Await(s) ==
  /\ s \notin dead \cup polling
  /\ call[s].at = "acquire"
  /\ ~HasFree(s, call[s].to)
  /\ call' = [call EXCEPT ![s].at = "await"]
  /\ UNCHANGED <<reqVars, repVars, polling, dead, net, history>>

\* Mutant: no wait for sendDepth.
SendUnlimited(s) ==
  /\ s \notin dead \cup polling \cup stray
  /\ call[s].at = "send"
  /\ LET c == call[s].slot IN
       /\ busy' = [busy EXCEPT ![c] = TRUE]
       /\ retry' = [retry EXCEPT ![c] = 0]
       /\ Enqueue(s, c)
       /\ net' = net \cup {Datagram("request", c, reqSeq[c])}
  /\ call' = [call EXCEPT ![s] = NoCall]
  /\ sent' = [sent EXCEPT ![call[s].slot] = @ + 1]
  /\ UNCHANGED <<reqSeq, hint, stray, repVars, polling, dead, ran, done>>

\* The request is sent, or the kernel drops it (ENOBUFS), which looks the
\* same: it is in the tx ring and will be retransmitted.
Send(s) ==
  /\ s \notin dead \cup polling \cup stray
  /\ call[s].at = "send"
  /\ Len(ring[s]) < env.sendDepth
  /\ LET c == call[s].slot IN
       /\ busy' = [busy EXCEPT ![c] = TRUE]
       /\ retry' = [retry EXCEPT ![c] = 0]
       /\ Enqueue(s, c)
       /\ net' = net \cup {Datagram("request", c, reqSeq[c])}
  /\ call' = [call EXCEPT ![s] = NoCall]
  /\ sent' = [sent EXCEPT ![call[s].slot] = @ + 1]
  /\ UNCHANGED <<reqSeq, hint, stray, repVars, polling, dead, ran, done>>

\* sendPacket fails: the descriptor is released and AM_ERR_RESOURCE returned.
SendFails(s) ==
  /\ s \notin dead \cup polling
  /\ call[s].at = "send"
  /\ Len(ring[s]) < env.sendDepth
  /\ LET c == call[s].slot IN hint' = [hint EXCEPT ![<<s, Dst(c)>>] = Inst(c)]
  /\ call' = [call EXCEPT ![s] = NoCall]
  /\ UNCHANGED <<reqSeq, busy, retry, ring, stray, repVars, polling, dead,
                 net, history>>

-----------------------------------------------------------------------------
(***************************************************************************)
(* AM_Poll at node n.  The client polls between requests, and a blocked    *)
(* request polls until what it waits for is there (BLOCKUNTIL).            *)
(***************************************************************************)
Blocked(n) ==
  \/ call[n].at = "await" /\ ~HasFree(n, call[n].to)
  \/ call[n].at = "send" /\ Len(ring[n]) >= env.sendDepth

Poll(n) ==
  /\ n \in env.nodes \ (dead \cup polling)
  /\ call[n] = NoCall \/ Blocked(n)
  /\ EnterPoll(n)
  /\ UNCHANGED <<reqVars, repSeq, repBuf, call, dead, net, history>>

\* AMUDP_processPacket is handed datagram m, which may also arrive again.
Arrives(m) ==
  LET n == Receiver(m) IN m \in net /\ n \in polling /\ n \notin dead

\* The sequence-number checks on a request: new, repeated, or neither.
IsNew(m)       == SeqNum(m.seq) = SeqNum(repSeq[m.slot])
\* Mutant: the increment is not masked.
IsDuplicateUnmasked(m) == ~IsNew(m) /\ SeqNum(m.seq) + 1 = SeqNum(repSeq[m.slot])

IsDuplicate(m) == ~IsNew(m) /\ SeqNum(m.seq + 1) = SeqNum(repSeq[m.slot])
IsDiscarded(m) == ~IsNew(m) /\ ~IsDuplicate(m)

\* Mutant: the reply is sent but not kept.
AcceptRequestForgetReply(m) ==
  LET c == m.slot IN
  /\ m.type = "request" /\ Arrives(m)
  /\ IsNew(m)
  /\ repSeq' = [repSeq EXCEPT ![c] = @ + 1]
  /\ ran' = [ran EXCEPT ![c] = Append(@, m.seq)]
  /\ stamped' = stamped \cup {c}
  /\ net' = net \cup {Datagram("reply", c, m.seq)}
  /\ UNCHANGED <<reqVars, repBuf, polling, call, dead, sent, done>>

\* AMUDP_ReplyGeneric, from the handler or as auto-reply, in the same step
\* as the handler: it overwrites the buffered reply and stamps it.
AcceptRequest(m) ==
  LET c == m.slot IN
  /\ m.type = "request" /\ Arrives(m)
  /\ IsNew(m)
  /\ repSeq' = [repSeq EXCEPT ![c] = @ + 1]
  /\ ran' = [ran EXCEPT ![c] = Append(@, m.seq)]
  /\ repBuf' = [repBuf EXCEPT ![c] = m.seq]
  /\ stamped' = stamped \cup {c}
  /\ net' = net \cup {Datagram("reply", c, m.seq)}
  /\ UNCHANGED <<reqVars, polling, call, dead, sent, done>>

\* A repeated request: resend the reply, at most once in an epoch.
ResendReply(m) ==
  LET c == m.slot IN
  /\ m.type = "request" /\ Arrives(m)
  /\ IsDuplicate(m)
  /\ repBuf[c] # NoReply
  /\ c \notin stamped
  /\ stamped' = stamped \cup {c}
  /\ net' = net \cup {Datagram("reply", c, repBuf[c])}
  /\ UNCHANGED <<reqVars, repSeq, repBuf, polling, call, dead, history>>

\* Mutant: any reply of the slot completes its request.
AcceptReplyAny(m) ==
  LET c == m.slot IN
  /\ m.type = "reply" /\ Arrives(m)
  /\ busy[c]
  /\ CompleteRequest(c)
  /\ done' = [done EXCEPT ![c] = Append(@, m.seq)]
  /\ net' = Aged(c, reqSeq[c] + 1)
  /\ UNCHANGED <<retry, stray, repVars, polling, call, dead, sent, ran>>

AcceptReply(m) ==
  LET c == m.slot IN
  /\ m.type = "reply" /\ Arrives(m)
  /\ SeqNum(m.seq) = SeqNum(reqSeq[c])
  /\ busy[c]
  /\ CompleteRequest(c)
  /\ done' = [done EXCEPT ![c] = Append(@, m.seq)]
  /\ net' = Aged(c, reqSeq[c] + 1)
  /\ UNCHANGED <<retry, stray, repVars, polling, call, dead, sent, ran>>

\* A reply to a request given up as undeliverable: no handler runs.
LateReply(m) ==
  LET c == m.slot IN
  /\ m.type = "reply" /\ Arrives(m)
  /\ SeqNum(m.seq) = SeqNum(reqSeq[c])
  /\ ~busy[c]
  /\ reqSeq' = [reqSeq EXCEPT ![c] = @ + 1]
  /\ net' = Aged(c, reqSeq[c] + 1)
  /\ UNCHANGED <<busy, retry, hint, ring, stray, repVars, polling, call, dead,
                 history>>

\* Datagrams that change nothing: a request whose reply was sent in this
\* epoch already or that is discarded, a duplicate or out-of-order reply.
Ignore(m) ==
  LET c == m.slot IN
  /\ Arrives(m)
  /\ \/ m.type = "request" /\ IsDiscarded(m)
     \/ m.type = "request" /\ IsDuplicate(m) /\ c \in stamped
     \/ m.type = "reply" /\ SeqNum(m.seq) # SeqNum(reqSeq[c])
  /\ UNCHANGED vars

\* AMUDP_REFUSEMESSAGE: an acceptance check fails (a tag, a handler index,
\* a length) and the message goes back, before any descriptor is touched.
Refuse(m) ==
  /\ env.refusals /\ Arrives(m)
  /\ m.type \in {"request", "reply"}
  /\ net' = net \cup {Datagram(IF m.type = "request" THEN "refusedRequest"
                                                    ELSE "refusedReply",
                               m.slot, m.seq)}
  /\ UNCHANGED <<reqVars, repVars, polling, call, dead, history>>

\* A returned message: free the request it names, then run handler 0.
Returned(m) ==
  LET c == m.slot IN
  /\ m.type \in {"refusedRequest", "refusedReply"} /\ Arrives(m)
  /\ IF /\ m.type = "refusedRequest"
        /\ busy[c] /\ SeqNum(m.seq) = SeqNum(reqSeq[c])
       THEN CompleteRequest(c) /\ net' = Aged(c, reqSeq[c] + 1)
       ELSE UNCHANGED <<reqSeq, busy, hint, ring, net>>
  /\ ReturnedHandler(Receiver(m))
  /\ UNCHANGED <<retry, stray, repVars, polling, call, history>>

-----------------------------------------------------------------------------
(***************************************************************************)
(* The end of AM_Poll at n: AMUDP_HandleRequestTimeouts looks at the one   *)
(* request at the check position and moves the position on.                *)
(***************************************************************************)
Checked(n) == Head(ring[n])
Advance(n) == ring' = [ring EXCEPT ![n] = Append(Tail(@), Head(@))]

AtTimeouts(n) == n \in polling /\ n \notin dead \cup stray

\* Nothing outstanding, or the request has not expired.
NoTimeout(n) ==
  /\ AtTimeouts(n)
  /\ IF ring[n] = <<>> THEN UNCHANGED ring ELSE Advance(n)
  /\ polling' = polling \ {n}
  /\ UNCHANGED <<reqSeq, busy, retry, hint, stray, repVars, call, dead, net,
                 history>>

Expired(c) == env.maxRetry # Infinite /\ retry[c] >= env.maxRetry

\* With an infinite timeout the count is compared with 2^32 - 1, which
\* retryCount (8 bits) never reaches: it is not counted here.
Retransmit(n) ==
  /\ AtTimeouts(n) /\ ring[n] # <<>>
  /\ LET c == Checked(n) IN
       /\ ~Expired(c)
       /\ net' = net \cup {Datagram("request", c, reqSeq[c])}
       /\ retry' = IF env.maxRetry = Infinite THEN retry
                                              ELSE [retry EXCEPT ![c] = @ + 1]
  /\ Advance(n)
  /\ polling' = polling \ {n}
  /\ UNCHANGED <<reqSeq, busy, hint, stray, repVars, call, dead, history>>

\* The retries are used up: the descriptor is freed, seqNum unchanged, and
\* handler 0 runs on the buffer.  If it returns, the loop goes on to
\* buf->status.tx.next, which status.rx.sourceAddr has overwritten.
Undeliverable(n) ==
  /\ AtTimeouts(n) /\ ring[n] # <<>>
  /\ LET c == Checked(n) IN
       /\ Expired(c)
       /\ Dequeue(n, c)
       /\ busy' = [busy EXCEPT ![c] = FALSE]
  /\ ReturnedHandler(n)
  /\ stray' = IF env.fatal THEN stray ELSE stray \cup {n}
  /\ polling' = polling \ {n}
  /\ UNCHANGED <<reqSeq, retry, hint, repVars, call, net, history>>

\* The next use of a stray check position: the process crashes.
StrayAccess(n) ==
  /\ n \in stray \ dead
  /\ n \in polling \/ (call[n].at = "send" /\ Len(ring[n]) < env.sendDepth)
  /\ dead' = dead \cup {n}
  /\ UNCHANGED <<reqVars, repVars, polling, call, net, history>>

\* The network loses m, or fault injection drops it.  Nobody can tell when
\* before its arrival a datagram was lost, so it is lost on arrival.
Lose(m) ==
  /\ env.lossy /\ Arrives(m)
  /\ net' = net \ {m}
  /\ UNCHANGED <<reqVars, repVars, polling, call, dead, history>>

Next ==
  /\ UNCHANGED env
  /\ \/ \E s, d \in Nodes : Request(s, d) \/ RequestAsync(s, d)
     \/ \E n \in Nodes : \/ AsyncInUse(n) \/ AsyncGoesOn(n)
                         \/ Acquire(n) \/ Await(n) \/ Send(n) \/ SendFails(n)
     \/ \E n \in Nodes : Poll(n)
     \/ \E m \in net : \/ AcceptRequest(m) \/ ResendReply(m) \/ AcceptReply(m)
                       \/ LateReply(m) \/ Ignore(m) \/ Refuse(m) \/ Returned(m)
                       \/ Lose(m)
     \/ \E n \in Nodes : \/ NoTimeout(n) \/ Retransmit(n) \/ Undeliverable(n)
                         \/ StrayAccess(n)

Spec == Init /\ [][Next]_<<env, vars>>

\* Clients poll, a poll ends, and a call goes on when it can.  An expired
\* request found at the check position again and again is retransmitted,
\* and the network does not lose every copy of what is sent repeatedly.
Fairness ==
  /\ \A n \in Nodes : /\ WF_vars(Poll(n))
                      /\ WF_vars(NoTimeout(n) \/ Retransmit(n))
                      /\ WF_vars(AsyncInUse(n) \/ AsyncGoesOn(n) \/ Acquire(n) \/ Await(n))
                      /\ WF_vars(Send(n) \/ SendFails(n))
  /\ \A c \in Slots :
       /\ SF_vars(Retransmit(Src(c)) /\ Checked(Src(c)) = c)
       /\ SF_vars(\E m \in net : m.slot = c /\ AcceptRequest(m))
       /\ SF_vars(\E m \in net : m.slot = c /\ ResendReply(m))
       /\ SF_vars(\E m \in net : m.slot = c /\ AcceptReply(m))

FairSpec == Spec /\ Fairness

-----------------------------------------------------------------------------
(***************************************************************************)
(* Properties.                                                             *)
(***************************************************************************)
TypeOK ==
  /\ env \in Environments
  /\ reqSeq \in [Slots -> Nat] /\ repSeq \in [Slots -> Nat]
  /\ busy \in [Slots -> BOOLEAN] /\ retry \in [Slots -> Nat]
  /\ repBuf \in [Slots -> Nat \cup {NoReply}]
  /\ stamped \subseteq Slots
  /\ hint \in [Pairs -> Instances]
  /\ ring \in [Nodes -> Seq(Slots)]
  /\ stray \subseteq Nodes /\ polling \subseteq Nodes /\ dead \subseteq Nodes
  /\ call \in [Nodes -> Calls]
  /\ net \subseteq Datagrams
  /\ sent \in [Slots -> Nat]
  /\ ran \in [Slots -> Seq(Nat)] /\ done \in [Slots -> Seq(Nat)]

\* Each request's handler runs at most once, and the reply that completes a
\* request is the one its own handler run produced, whatever the network
\* loses, repeats or delays: the slots implement AMChannel.  (Under a client
\* handler 0 that goes on, a request may be given up and its sequence number
\* used again, so that nothing is promised.)
Channel == INSTANCE AMChannel WITH Slots <- Slots, sent <- sent, ran <- ran, done <- done
ImplementsChannel ==
  Channel!ChannelInit /\ [][env.fatal => Channel!ChannelNext]_history

\* The two seqNums of a slot differ only while the replier has handled a
\* request that the requester still holds; the protocol's whole memory of
\* the past is that one bit of difference.
InStep ==
  \A c \in Slots :
    \/ Src(c) \in dead \/ ~env.fatal
    \/ repSeq[c] = reqSeq[c]
    \/ busy[c] /\ repSeq[c] = reqSeq[c] + 1

\* A request that is neither new nor a repetition, and a reply that does not
\* match, are stale: their request was completed earlier.  Discarding them
\* (the comments at the two "Out-of-order message" branches) loses nothing.
OnlyStaleDiscarded ==
  env.fatal => \A m \in net :
    /\ m.type = "request" /\ IsDiscarded(m) => m.seq < reqSeq[m.slot]
    /\ m.type = "reply" /\ SeqNum(m.seq) # SeqNum(reqSeq[m.slot])
         => m.seq < reqSeq[m.slot]

\* A request taken for a repetition finds the reply to resend
\* (AMX_assert(replybuf)), and it is the reply to that very request.
ReplyBuffered ==
  env.fatal => \A m \in net :
    m.type = "request" /\ IsDuplicate(m) => repBuf[m.slot] = m.seq

\* The tx ring holds every outstanding request once and nothing else, and
\* no more than sendDepth of them: what is outstanding is retransmitted,
\* and what completed is not.
Lists(s, S) ==
  /\ S = {s[k] : k \in DOMAIN s}
  /\ \A j, k \in DOMAIN s : s[j] = s[k] => j = k
RingHoldsOutstanding ==
  \A n \in Nodes : /\ Lists(ring[n], {c \in Slots : Src(c) = n /\ busy[c]})
                   /\ Len(ring[n]) <= env.sendDepth

(***************************************************************************)
(* The inductive invariant.  A call is under way on a slot that is free,   *)
(* instances are below depth, and, unless handler 0 may go on, the counts  *)
(* of a slot are close together and a datagram is not too old for them.    *)
(***************************************************************************)
CallInv ==
  \A n \in Nodes :
    /\ call[n].at \in {"acquire", "await", "async"} =>
         <<n, call[n].to>> \in env.pairs
    /\ call[n].at = "send" => /\ Src(call[n].slot) = n /\ ~busy[call[n].slot]
                              /\ Inst(call[n].slot) < env.depth

DepthInv ==
  /\ \A p \in Pairs : hint[p] < env.depth
  /\ \A c \in Slots : busy[c] => Inst(c) < env.depth

CountInv ==
  \A c \in Slots :
    /\ repSeq[c] <= sent[c] /\ sent[c] <= repSeq[c] + 1 /\ sent[c] <= reqSeq[c] + 1
    /\ repBuf[c] = repSeq[c] - 1 /\ Len(ran[c]) = repSeq[c]
    /\ Src(c) \notin dead => /\ sent[c] = IF busy[c] THEN reqSeq[c] + 1 ELSE reqSeq[c]
                             /\ reqSeq[c] <= repSeq[c]
                             /\ Len(done[c]) = reqSeq[c]

NetInv ==
  \A m \in net :
    /\ m.seq < sent[m.slot] /\ reqSeq[m.slot] <= m.seq + env.maxLag
    /\ m.type = "reply" => m.seq < repSeq[m.slot]

IndInv == /\ CallInv /\ DepthInv /\ RingHoldsOutstanding
          /\ env.fatal => CountInv /\ NetInv

\* Every outstanding request is answered in the end.
RequestCompletes == \A c \in Slots : busy[c] ~> ~busy[c]

\* A request call that blocks for a descriptor or for sendDepth returns.
CallReturns == \A n \in Nodes : call[n] # NoCall ~> call[n] = NoCall

\* An asynchronous call does not block ("decide if we can satisfy request
\* without blocking"): it never waits for a descriptor.
AsyncNeverWaits == \A n \in Nodes : call[n].at = "await" => ~call[n].async

\* A non-NULL check position implies outstanding requests, as
\* AMUDP_HandleRequestTimeouts asserts on entry.
PositionOnRing == \A n \in stray \ dead : ring[n] # <<>>
=============================================================================
