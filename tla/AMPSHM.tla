------------------------------- MODULE AMPSHM -------------------------------
(* Active Messages over shared memory (gasnet_pshm.c, AMPSHM): a network for *)
(* requests and one for replies, each as PSHMSpec promises.  A thread that   *)
(* finds no buffer polls while it waits and so runs handlers inside its own  *)
(* call; a handler that replies may wait in turn.  The question is whether   *)
(* somebody always moves.                                                    *)
EXTENDS Naturals, Sequences, FiniteSets

CONSTANTS
  Clients,      \* client threads
  ProcessOf,    \* the process of each
  Depth,        \* buffers a process has in each network
  MaxRequests   \* bound on the requests of one thread

Processes == {ProcessOf[t] : t \in Clients}
Nets == {"request", "reply"}
Nobody == "nobody"

ASSUME AMPSHMAssumption ==
  Depth \in Nat \ {0} /\ MaxRequests \in Nat /\ Nobody \notin Clients

VARIABLES
  amq,       \* amq[n][p]: messages [from, by] to p in network n, oldest first
  buffers,   \* buffers[n][p]: free buffers of p
  sendLock,  \* sendLock[n][p]: alloc_lock
  calling,   \* calling[t]: the request t is making: none, or its stage
  handling,  \* handling[t]: the request handler t runs: none, or its stage
  sent,      \* requests t started
  ran        \* reply handlers run on behalf of t's requests

amVars == <<amq, buffers, sendLock, calling, handling, sent, ran>>

NoCall == [at |-> "none"]

AMInit ==
  /\ amq = [n \in Nets |-> [p \in Processes |-> <<>>]]
  /\ buffers = [n \in Nets |-> [p \in Processes |-> Depth]]
  /\ sendLock = [n \in Nets |-> [p \in Processes |-> Nobody]]
  /\ calling = [t \in Clients |-> NoCall]
  /\ handling = [t \in Clients |-> NoCall]
  /\ sent = [t \in Clients |-> 0]
  /\ ran = [t \in Clients |-> 0]

(* the call that t is waiting in is the innermost one *)
Innermost(t) == IF handling[t] # NoCall THEN handling[t] ELSE calling[t]
Waiting(t) == Innermost(t).at \in {"lock", "buffer"}

-----------------------------------------------------------------------------
(* the client makes a request, or prepares one                               *)
StartRequest(t) ==
  /\ calling[t] = NoCall /\ handling[t] = NoCall
  /\ sent[t] < MaxRequests
  /\ \E p \in Processes \ {ProcessOf[t]} :
       calling' = [calling EXCEPT ![t] = [at |-> "lock", to |-> p]]
  /\ sent' = [sent EXCEPT ![t] = @ + 1]
  /\ UNCHANGED <<amq, buffers, sendLock, handling, ran>>

(* ampshm_buf_alloc without GEX_FLAG_IMMEDIATE, in network n: trylock, then  *)
(* get a buffer while holding the lock                                       *)
TakeLock(t, n, c) ==
  /\ c.at = "lock" /\ sendLock[n][ProcessOf[t]] = Nobody
  /\ sendLock' = [sendLock EXCEPT ![n][ProcessOf[t]] = t]

TakeBuffer(t, n, c) ==
  /\ c.at = "buffer" /\ buffers[n][ProcessOf[t]] > 0
  /\ buffers' = [buffers EXCEPT ![n][ProcessOf[t]] = @ - 1]
  /\ sendLock' = [sendLock EXCEPT ![n][ProcessOf[t]] = Nobody]

RequestLock(t) ==
  /\ handling[t] = NoCall
  /\ TakeLock(t, "request", calling[t])
  /\ calling' = [calling EXCEPT ![t].at = "buffer"]
  /\ UNCHANGED <<amq, buffers, handling, sent, ran>>

RequestBuffer(t) ==
  /\ handling[t] = NoCall
  /\ TakeBuffer(t, "request", calling[t])
  /\ calling' = [calling EXCEPT ![t].at = "prepared"]
  /\ UNCHANGED <<amq, handling, sent, ran>>

(* with GEX_FLAG_IMMEDIATE a taken lock or a missing buffer ends the call    *)
RequestImmediateFails(t) ==
  /\ calling[t].at = "lock" /\ handling[t] = NoCall
  /\ \/ sendLock["request"][ProcessOf[t]] # Nobody
     \/ buffers["request"][ProcessOf[t]] = 0
  /\ calling' = [calling EXCEPT ![t] = NoCall]
  /\ UNCHANGED <<amq, buffers, sendLock, handling, sent, ran>>

(* ampshm_commit_inner delivers; ampshm_cancel gives the buffer back         *)
RequestCommit(t) ==
  /\ calling[t].at = "prepared"
  /\ amq' = [amq EXCEPT !["request"][calling[t].to] =
               Append(@, [from |-> ProcessOf[t], by |-> t])]
  /\ calling' = [calling EXCEPT ![t] = NoCall]
  /\ UNCHANGED <<buffers, sendLock, handling, sent, ran>>

(* Mutation of RequestCancel: the buffer is forgotten.                       *)
RequestCancelForgetful(t) ==
  /\ calling[t].at = "prepared"
  /\ calling' = [calling EXCEPT ![t] = NoCall]
  /\ UNCHANGED <<amq, buffers, sendLock, handling, sent, ran>>

RequestCancel(t) ==
  /\ calling[t].at = "prepared"
  /\ buffers' = [buffers EXCEPT !["request"][ProcessOf[t]] = @ + 1]
  /\ calling' = [calling EXCEPT ![t] = NoCall]
  /\ UNCHANGED <<amq, sendLock, handling, sent, ran>>

-----------------------------------------------------------------------------
(* gasneti_AMPSHMPoll.  A thread polls when it is outside any call or waits  *)
(* for a lock or buffer.  Inside a request handler (and so when it waits to  *)
(* reply) it polls the reply network only.                                   *)
MayPoll(t) == (calling[t] = NoCall /\ handling[t] = NoCall) \/ Waiting(t)
(* Mutation of RepliesOnly: no waiting thread takes requests.                *)
RepliesOnlyAlways(t) == handling[t] # NoCall \/ calling[t] # NoCall
RepliesOnly(t) == handling[t] # NoCall

(* gasneti_AMPSHM_service_incoming_msg of a reply: its handler cannot send,  *)
(* and the buffer goes back to the process that replied                      *)
PollReply(t) ==
  LET p == ProcessOf[t]
      m == Head(amq["reply"][p]) IN
  /\ MayPoll(t)
  /\ amq["reply"][p] # <<>>
  /\ amq' = [amq EXCEPT !["reply"][p] = Tail(@)]
  /\ buffers' = [buffers EXCEPT !["reply"][m.from] = @ + 1]
  /\ ran' = [ran EXCEPT ![m.by] = @ + 1]
  /\ UNCHANGED <<sendLock, calling, handling, sent>>

(* of a request: the handler starts                                          *)
PollRequest(t) ==
  LET p == ProcessOf[t] IN
  /\ MayPoll(t) /\ ~RepliesOnly(t)
  /\ amq["request"][p] # <<>>
  /\ handling' = [handling EXCEPT ![t] = [at |-> "run", msg |-> Head(amq["request"][p])]]
  /\ amq' = [amq EXCEPT !["request"][p] = Tail(@)]
  /\ UNCHANGED <<buffers, sendLock, calling, sent, ran>>

(* the handler replies, at most once (gasnetc_AMPSHM_ReqRepGeneric)          *)
StartReply(t) ==
  /\ handling[t].at = "run"
  /\ handling' = [handling EXCEPT ![t].at = "lock"]
  /\ UNCHANGED <<amq, buffers, sendLock, calling, sent, ran>>

ReplyLock(t) ==
  /\ TakeLock(t, "reply", handling[t])
  /\ handling' = [handling EXCEPT ![t].at = "buffer"]
  /\ UNCHANGED <<amq, buffers, calling, sent, ran>>

(* Mutation of ReplyBuffer: the handler may reply once more.                 *)
ReplyBufferAgain(t) ==
  /\ TakeBuffer(t, "reply", handling[t])
  /\ amq' = [amq EXCEPT !["reply"][handling[t].msg.from] =
               Append(@, [from |-> ProcessOf[t], by |-> handling[t].msg.by])]
  /\ handling' = [handling EXCEPT ![t].at = "run"]
  /\ UNCHANGED <<calling, sent, ran>>

ReplyBuffer(t) ==
  /\ TakeBuffer(t, "reply", handling[t])
  /\ amq' = [amq EXCEPT !["reply"][handling[t].msg.from] =
               Append(@, [from |-> ProcessOf[t], by |-> handling[t].msg.by])]
  /\ handling' = [handling EXCEPT ![t].at = "replied"]
  /\ UNCHANGED <<calling, sent, ran>>

(* an immediate reply may fail; the handler goes on without it               *)
ReplyImmediateFails(t) ==
  /\ handling[t].at = "lock"
  /\ \/ sendLock["reply"][ProcessOf[t]] # Nobody
     \/ buffers["reply"][ProcessOf[t]] = 0
  /\ handling' = [handling EXCEPT ![t].at = "replied"]
  /\ UNCHANGED <<amq, buffers, sendLock, calling, sent, ran>>

(* the handler returns: the request's buffer goes back to its sender         *)
HandlerReturns(t) ==
  /\ handling[t].at \in {"run", "replied"}
  /\ buffers' = [buffers EXCEPT !["request"][handling[t].msg.from] = @ + 1]
  /\ handling' = [handling EXCEPT ![t] = NoCall]
  /\ UNCHANGED <<amq, sendLock, calling, sent, ran>>

-----------------------------------------------------------------------------
(* what the library does on its own, in the order the code has it: a wait    *)
(* polls before it tries again                                               *)
AMLibraryStep(t) ==
  \/ RequestLock(t) \/ RequestBuffer(t) \/ RequestCommit(t)
  \/ ReplyLock(t) \/ ReplyBuffer(t) \/ HandlerReturns(t)

AMPollStep(t) == PollReply(t) \/ PollRequest(t)

AMNext ==
  \E t \in Clients :
    \/ StartRequest(t) \/ RequestImmediateFails(t) \/ RequestCancel(t)
    \/ StartReply(t) \/ ReplyImmediateFails(t)
    \/ AMLibraryStep(t) \/ AMPollStep(t)

AMSpec == AMInit /\ [][AMNext]_amVars

(* A thread in a library call or a handler runs; one that waits alternates   *)
(* polls and tries; an idle client polls: it must, by the rules for Active   *)
(* Messages.                                                                 *)
AMFairStep(t) == AMLibraryStep(t) \/ AMPollStep(t)
AMFairness == \A t \in Clients : WF_amVars(AMFairStep(t))

-----------------------------------------------------------------------------
(* Properties *)

AMMessages == [from : Processes, by : Clients]
RequestStages == {"lock", "buffer", "prepared"}
HandlerStages == {"run", "lock", "buffer", "replied"}

(* Type invariant of Active Messages over shared memory. *)
AMTypeOK ==
  /\ amq \in [Nets -> [Processes -> Seq(AMMessages)]]
  /\ buffers \in [Nets -> [Processes -> Nat]]
  /\ sendLock \in [Nets -> [Processes -> Clients \union {Nobody}]]
  /\ calling \in [Clients -> {NoCall} \union [at : RequestStages, to : Processes]]
  /\ handling \in [Clients -> {NoCall} \union [at : HandlerStages, msg : AMMessages]]
  /\ sent \in [Clients -> 0..MaxRequests] /\ ran \in [Clients -> Nat]

FromProcess(p) == {m \in AMMessages : m.from = p}
OnBehalfOf(t) == {m \in AMMessages : m.by = t}

(* where queues Q hold messages of M, as pairs of a process and a position;  *)
(* the handlers of such messages; the requests of p that are prepared        *)
InQueues(Q, M) ==
  UNION {{p} \X {k \in DOMAIN Q[p] : Q[p][k] \in M} : p \in Processes}
HandlersOf(M, stages) == {t \in Clients : handling[t].at \in stages /\ handling[t].msg \in M}
PreparedBy(p) == {t \in Clients : calling[t].at = "prepared" /\ ProcessOf[t] = p}

(* the buffers of p in network n that hold a message, or are to hold one     *)
Owned(n, p) ==
  Cardinality(InQueues(amq[n], FromProcess(p)))
  + (IF n = "reply" THEN 0
     ELSE Cardinality(HandlersOf(FromProcess(p), HandlerStages))
          + Cardinality(PreparedBy(p)))

(* Every buffer is free or holds one message: none leaks when a handler      *)
(* returns with or without a reply, a send is cancelled or fails             *)
(* (ampshm_cancel, gasneti_pshmnet_recv_release, the out_immediate path).    *)
BuffersConserved ==
  \A n \in Nets, p \in Processes : buffers[n][p] + Owned(n, p) = Depth

(* t's request that is under way: being made, queued, handled or answered    *)
Unanswered == HandlerStages \ {"replied"}
Outstanding(t) ==
  (IF calling[t] = NoCall THEN 0 ELSE 1)
  + Cardinality(InQueues(amq["request"], OnBehalfOf(t)))
  + Cardinality(HandlersOf(OnBehalfOf(t), Unanswered))
  + Cardinality(InQueues(amq["reply"], OnBehalfOf(t)))

(* No request is answered twice: reply handlers that ran and those that may  *)
(* still run are no more than the requests (gasnetc_AMPSHM_ReqRepGeneric).   *)
AnsweredOnce == \A t \in Clients : ran[t] + Outstanding(t) <= sent[t]

(* The thread that looks for a buffer has its process's alloc_lock of that   *)
(* network, so small messages do not starve a large one (ampshm_buf_alloc).  *)
SendLocksHeld ==
  \A p \in Processes, t \in Clients :
    /\ sendLock["request"][p] = t <=> calling[t].at = "buffer" /\ ProcessOf[t] = p
    /\ sendLock["reply"][p] = t <=> handling[t].at = "buffer" /\ ProcessOf[t] = p

(* All that is counted is finite, however many clients there are.            *)
FiniteUse ==
  /\ \A n \in Nets : IsFiniteSet(InQueues(amq[n], AMMessages))
  /\ IsFiniteSet(HandlersOf(AMMessages, HandlerStages))
  /\ \A p \in Processes : IsFiniteSet(PreparedBy(p))

(* the inductive invariant *)
AMInv == AMTypeOK /\ FiniteUse /\ BuffersConserved /\ AnsweredOnce /\ SendLocksHeld

(* Every call returns, and every request and reply is handled: no set of     *)
(* processes fills each other's queues and waits (gasneti_pshm_pollwhile: a  *)
(* request polls both networks while it waits, a reply only its own, to      *)
(* avoid deadlock).                                                          *)
AMSettles ==
  <>[](/\ \A t \in Clients : ~Waiting(t)
       /\ \A n \in Nets, p \in Processes : amq[n][p] = <<>>)
=============================================================================
