---------------------------- MODULE IBVConnect ----------------------------
(***************************************************************************)
(* The dynamic connection protocol of the ibv conduit between two nodes    *)
(* (src/ibv-conduit/gasnet_core_connect.c): connect_to, the receiver of    *)
(* the REQ, REP, RTU and ACK datagrams, their timed retransmission, and    *)
(* the acknowledgement implied by an AM that overtakes the ACK.            *)
(*                                                                         *)
(* Every handler runs under gasnetc_conn_tbl_lock and is one action; the   *)
(* timed wait gives the lock up, and a retransmission is sent without it.  *)
(***************************************************************************)
EXTENDS Integers, FiniteSets

CONSTANTS
    Ends,          \* the two nodes, by rank
    Connectors,    \* the threads that call gasnetc_connect_to
    EndOf,         \* the node each of them runs on
    MaxLosses,     \* datagrams the network may lose
    MaxEarly       \* timeouts that fire with datagrams still underway

ASSUME ConnectAssumption ==
    /\ Ends \subseteq Nat /\ IsFiniteSet(Ends) /\ Cardinality(Ends) = 2
    /\ EndOf \in [Connectors -> Ends]
    /\ MaxLosses \in Nat /\ MaxEarly \in Nat

VARIABLES
    ends,      \* per node: its gasnetc_conn_t, its CEP and its queue pair
    datagrams, \* datagrams[e][c]: copies of command c underway to e
    connector, \* where each thread is in gasnetc_connect_to
    request,   \* request[e]: the AM Request sent to e over the connection
    losses, early

connectVars == <<ends, datagrams, connector, request, losses, early>>

Peer(e) == CHOOSE p \in Ends : p # e

Commands == {"REQ", "REP", "RTU", "ACK"}

ConnStates == {"NONE", "REQ_SENT", "REP_RCVD", "RTU_SENT", "ACK_RCVD",
               "REP_SENT", "DONE"}

\* conn is "absent" when gasnetc_conn_tbl has no entry for the peer, cep says
\* NODE2CEP is set, sema that the CEP has its own send semaphore instead of
\* gasnetc_zero_sema, knows that remote_qpn holds the peer's number, and fresh
\* that reply_time (then prev_ack_time) is younger than the retransmit minimum.
Unconnected == [conn |-> "absent", refs |-> 0, cep |-> FALSE, qp |-> "none",
                sema |-> FALSE, knows |-> FALSE, fresh |-> FALSE]

ConnectInit ==
    /\ ends = [e \in Ends |-> Unconnected]
    /\ datagrams = [e \in Ends |-> [c \in Commands |-> 0]]
    /\ connector = [t \in Connectors |-> "idle"]
    /\ request = [e \in Ends |-> "none"]
    /\ losses = 0 /\ early = 0

----------------------------------------------------------------------------
(* What the handlers do to a node's connection, as functions of its state. *)

gasnetc_get_conn(s) ==
    IF s.conn = "absent" /\ ~s.cep
    THEN [s EXCEPT !.conn = "NONE", !.refs = 1] ELSE s

gasnetc_put_conn(s) ==
    [s EXCEPT !.refs = @ - 1, !.conn = IF s.refs = 1 THEN "absent" ELSE @]

\* ibv_modify_qp refuses a transition out of order, and the conduit aborts.
Modify(s, from, to) == [s EXCEPT !.qp = IF @ = from THEN to ELSE "error"]

gasnetc_qp_reset2init(s) == Modify(s, "RESET", "INIT")
gasnetc_qp_init2rtr(s) ==
    IF s.knows THEN Modify(s, "INIT", "RTR") ELSE [s EXCEPT !.qp = "error"]

\* Mutation of gasnetc_qp_rtr2rts: it sets the send semaphore, too.
gasnetc_qp_rtr2rts_sema(s) == [Modify(s, "RTR", "RTS") EXCEPT !.sema = TRUE]

gasnetc_qp_rtr2rts(s) == Modify(s, "RTR", "RTS")
gasnetc_set_sq_sema(s) == [s EXCEPT !.sema = TRUE]
gasnetc_qp_create(s) == [s EXCEPT !.qp = "RESET"]

\* The passive end goes all the way while its reply is underway.
BecomePassive(s) ==
    gasnetc_set_sq_sema(gasnetc_qp_rtr2rts(gasnetc_qp_init2rtr(
        [s EXCEPT !.conn = "REP_SENT"])))

\* Mutation of BecomePassiveToo: the waiting thread's reference is not counted.
BecomePassiveOneRef(s) == BecomePassive(s)

\* From active to passive: the entry now has a thread and a datagram to serve.
BecomePassiveToo(s) == [BecomePassive(s) EXCEPT !.refs = 2]

\* Which of two ends that sent each other a REQ goes on as the passive one.
YieldsTo(e, peer) == (peer > e) # ((peer + e) % 2 = 1)

Sent(bag, e, c) == [bag EXCEPT ![e][c] = @ + 1]
Arrived(bag, e, c) == [bag EXCEPT ![e][c] = @ - 1]

----------------------------------------------------------------------------
(* gasnetc_connect_to. *)

\* A thread that finds no entry, or one a stray datagram made, starts.
StartConnect(t) ==
    LET e == EndOf[t]
        s == gasnetc_get_conn(ends[e]) IN
    /\ connector[t] = "idle" /\ s.conn = "NONE"
    /\ ends' = [ends EXCEPT ![e] = gasnetc_qp_reset2init(gasnetc_qp_create(
                    [s EXCEPT !.conn = "REQ_SENT"]))]
    /\ datagrams' = Sent(datagrams, Peer(e), "REQ")
    /\ connector' = [connector EXCEPT ![t] = "await_REP"]
    /\ UNCHANGED <<request, losses, early>>

\* A thread that is not the first only waits for the CEP.
JoinConnect(t) ==
    /\ connector[t] = "idle"
    /\ gasnetc_get_conn(ends[EndOf[t]]).conn # "NONE"
    /\ connector' = [connector EXCEPT ![t] = "await_cep"]
    /\ UNCHANGED <<ends, datagrams, request, losses, early>>

\* The first wait ends. REP_SENT or DONE: the peer's REQ made this end passive.
ReplySeen(t) ==
    LET e == EndOf[t]
        s == ends[e] IN
    /\ connector[t] = "await_REP" /\ s.conn # "REQ_SENT"
    /\ \/ /\ s.conn \in {"REP_SENT", "DONE"}
          /\ ends' = [ends EXCEPT ![e] = gasnetc_put_conn(s)]
          /\ connector' = [connector EXCEPT ![t] = "await_cep"]
          /\ UNCHANGED datagrams
       \/ /\ s.conn = "REP_RCVD"
          /\ ends' = [ends EXCEPT ![e] = gasnetc_qp_rtr2rts(gasnetc_qp_init2rtr(
                          [s EXCEPT !.cep = TRUE, !.conn = "RTU_SENT"]))]
          /\ datagrams' = Sent(datagrams, Peer(e), "RTU")
          /\ connector' = [connector EXCEPT ![t] = "await_ACK"]
    /\ UNCHANGED <<request, losses, early>>

\* The second wait ends. DONE: gasnetc_conn_implied_ack was here first.
AckSeen(t) ==
    LET e == EndOf[t]
        s == ends[e] IN
    /\ connector[t] = "await_ACK" /\ s.conn # "RTU_SENT"
    /\ ends' = [ends EXCEPT ![e] = gasnetc_put_conn(
                    IF s.conn = "DONE" THEN s
                    ELSE gasnetc_set_sq_sema([s EXCEPT !.conn = "DONE"]))]
    /\ connector' = [connector EXCEPT ![t] = "await_cep"]
    /\ UNCHANGED <<datagrams, request, losses, early>>

ConnectReturns(t) ==
    /\ connector[t] = "await_cep" /\ ends[EndOf[t]].cep
    /\ connector' = [connector EXCEPT ![t] = "returned"]
    /\ UNCHANGED <<ends, datagrams, request, losses, early>>

Busy ==
    \/ \E e \in Ends, c \in Commands : datagrams[e][c] > 0
    \/ \E t \in Connectors : connector[t] \in {"resend_REQ", "resend_RTU"}

\* gasnetc_timed_conn_wait, without the lock: the state still is the one waited
\* on and the time is up. MaxEarly bounds the timeouts shorter than the
\* network; the others fire when nothing is underway.
TimerExpires(t) ==
    LET s == ends[EndOf[t]].conn IN
    /\ \/ connector[t] = "await_REP" /\ s = "REQ_SENT"
       \/ connector[t] = "await_ACK" /\ s = "RTU_SENT"
    /\ Busy => early < MaxEarly
    /\ early' = IF Busy THEN early + 1 ELSE early
    /\ connector' = [connector EXCEPT ![t] =
            IF @ = "await_REP" THEN "resend_REQ" ELSE "resend_RTU"]
    /\ UNCHANGED <<ends, datagrams, request, losses>>

\* The retransmission itself, whatever has happened since.
Retransmit(t) ==
    LET p == Peer(EndOf[t]) IN
    /\ \/ /\ connector[t] = "resend_REQ"
          /\ datagrams' = Sent(datagrams, p, "REQ")
          /\ connector' = [connector EXCEPT ![t] = "await_REP"]
       \/ /\ connector[t] = "resend_RTU"
          /\ datagrams' = Sent(datagrams, p, "RTU")
          /\ connector' = [connector EXCEPT ![t] = "await_ACK"]
    /\ UNCHANGED <<ends, request, losses, early>>

----------------------------------------------------------------------------
(* gasnetc_conn_rcv_wc: one action per command and state that does          *)
(* anything, and one for the datagrams that are dropped on arrival.        *)

\* Mutation of Arriving: only the end that has sent nothing reads the payload.
ArrivingFirst(e, c) ==
    LET s == gasnetc_get_conn(ends[e]) IN
    IF c \in {"REQ", "REP"} /\ s.conn = "NONE"
    THEN [s EXCEPT !.knows = TRUE] ELSE s

\* The entry the datagram finds or makes, with the payload of a REQ or REP.
Arriving(e, c) ==
    LET s == gasnetc_get_conn(ends[e]) IN
    IF c \in {"REQ", "REP"} /\ s.conn \in {"NONE", "REQ_SENT"}
    THEN [s EXCEPT !.knows = TRUE] ELSE s

StateOf(s) == IF s.conn = "absent" THEN "DONE" ELSE s.conn

\* Mutation of Again: a repeated datagram is never answered again.
AgainNever(s, c) == {}

\* A repeated datagram is answered again, unless it came impossibly fast.
Again(s, c) == IF s.fresh THEN {} ELSE {c}

Handle(e, c, s, answers) ==
    /\ datagrams[e][c] > 0
    /\ ends' = [ends EXCEPT ![e] = s]
    /\ datagrams' = [Arrived(datagrams, e, c) EXCEPT
            ![Peer(e)] = [a \in Commands |->
                            IF a \in answers THEN @[a] + 1 ELSE @[a]]]
    /\ UNCHANGED <<connector, request, losses, early>>

RecvREQ(e) ==
    LET s == Arriving(e, "REQ")
        state == StateOf(s) IN
    \/ /\ state = "NONE"
       /\ Handle(e, "REQ", [BecomePassive(gasnetc_qp_reset2init(
                                gasnetc_qp_create(s))) EXCEPT !.fresh = TRUE],
                 {"REP"})
    \/ /\ state = "REP_SENT"
       /\ Handle(e, "REQ", s, Again(s, "REP"))
    \/ /\ state = "REQ_SENT" /\ YieldsTo(e, Peer(e))
       /\ \E uninitialized \in BOOLEAN :      \* reply_time is not set here
            Handle(e, "REQ", [BecomePassiveToo(s) EXCEPT !.fresh = uninitialized], {})
    \/ /\ state = "REQ_SENT" /\ ~YieldsTo(e, Peer(e))
       /\ Handle(e, "REQ", [s EXCEPT !.conn = "REP_RCVD"], {})
    \/ /\ state = "RTU_SENT"      \* the peer must have missed our REQ
       /\ Handle(e, "REQ", s, {"REQ"})

RecvREP(e) ==
    LET s == Arriving(e, "REP") IN
    /\ StateOf(s) = "REQ_SENT"
    /\ Handle(e, "REP", [s EXCEPT !.conn = "REP_RCVD"], {})

RecvRTU(e) ==
    LET s == Arriving(e, "RTU")
        state == StateOf(s) IN
    \/ /\ state = "REP_SENT"
       /\ Handle(e, "RTU", gasnetc_put_conn([s EXCEPT !.cep = TRUE,
                               !.conn = "DONE", !.fresh = TRUE]), {"ACK"})
    \/ /\ state = "DONE"
       /\ Handle(e, "RTU", s, Again(s, "ACK"))

RecvACK(e) ==
    LET s == Arriving(e, "ACK") IN
    /\ StateOf(s) = "RTU_SENT"
    /\ Handle(e, "ACK", [s EXCEPT !.conn = "ACK_RCVD"], {})

RecvIgnored(e, c) ==
    LET s == Arriving(e, c)
        state == StateOf(s) IN
    /\ \/ c = "REQ" /\ state \in {"REP_RCVD", "ACK_RCVD", "DONE"}
       \/ c = "REP" /\ state # "REQ_SENT"
       \/ c = "RTU" /\ state \notin {"REP_SENT", "DONE"}
       \/ c = "ACK" /\ state # "RTU_SENT"
    /\ Handle(e, c, s, {})

\* The retransmit minimum has passed since the last reply, or another node
\* took the slot of the ACK cache.
ReplyAges(e) ==
    /\ ends[e].fresh
    /\ ends' = [ends EXCEPT ![e].fresh = FALSE]
    /\ UNCHANGED <<datagrams, connector, request, losses, early>>

Lose(e, c) ==
    /\ datagrams[e][c] > 0 /\ losses < MaxLosses
    /\ datagrams' = Arrived(datagrams, e, c)
    /\ losses' = losses + 1
    /\ UNCHANGED <<ends, connector, request, early>>

----------------------------------------------------------------------------
(* The AMs that use the connection, one Request per direction.             *)

CanSend(e) == ends[e].cep /\ ends[e].sema

AMRequest(e) ==
    /\ CanSend(e) /\ request[Peer(e)] = "none"
    /\ \E t \in Connectors : EndOf[t] = e /\ connector[t] = "returned"
    /\ request' = [request EXCEPT ![Peer(e)] = "underway"]
    /\ UNCHANGED <<ends, datagrams, connector, losses, early>>

\* gasnetc_bind_cep_inner for the Reply: no send credit, and it is the zero
\* semaphore.
AMArrives(e) ==
    /\ request[e] = "underway"
    /\ request' = [request EXCEPT ![e] =
            IF CanSend(e) THEN "replied" ELSE "implied_ack"]
    /\ UNCHANGED <<ends, datagrams, connector, losses, early>>

gasnetc_conn_implied_ack(e) ==
    /\ request[e] = "implied_ack"
    /\ ends' = [ends EXCEPT ![e] = IF @.sema THEN @
                    ELSE gasnetc_set_sq_sema([@ EXCEPT !.conn = "DONE"])]
    /\ request' = [request EXCEPT ![e] = "replied"]
    /\ UNCHANGED <<datagrams, connector, losses, early>>

----------------------------------------------------------------------------
ConnectStep(t) ==
    \/ ReplySeen(t) \/ AckSeen(t) \/ ConnectReturns(t)
    \/ TimerExpires(t) \/ Retransmit(t)

DatagramStep(e) ==
    \/ RecvREQ(e) \/ RecvREP(e) \/ RecvRTU(e) \/ RecvACK(e)
    \/ \E c \in Commands : RecvIgnored(e, c)

AMStep(e) == AMArrives(e) \/ gasnetc_conn_implied_ack(e)

ConnectNext ==
    \/ \E t \in Connectors : StartConnect(t) \/ JoinConnect(t) \/ ConnectStep(t)
    \/ \E e \in Ends : DatagramStep(e) \/ ReplyAges(e) \/ AMRequest(e) \/ AMStep(e)
    \/ \E e \in Ends, c \in Commands : Lose(e, c)

\* A thread in connect_to runs, both nodes poll, and time passes; a clock runs
\* out in the end even if the other end keeps the network busy, so the timer is
\* strongly fair. Nothing makes a thread call connect_to or send an AM.
ConnectFairness ==
    /\ \A t \in Connectors : /\ WF_connectVars(ConnectStep(t))
                             /\ SF_connectVars(TimerExpires(t))
    /\ \A e \in Ends : /\ WF_connectVars(DatagramStep(e))
                       /\ WF_connectVars(ReplyAges(e))
                       /\ WF_connectVars(AMStep(e))

ConnectSpecification ==
    ConnectInit /\ [][ConnectNext]_connectVars /\ ConnectFairness

----------------------------------------------------------------------------
Connections ==
    [conn : ConnStates \cup {"absent"}, refs : 0..2, cep : BOOLEAN,
     sema : BOOLEAN, knows : BOOLEAN, fresh : BOOLEAN,
     qp : {"none", "RESET", "INIT", "RTR", "RTS"}]

\* The shape of the state; no queue pair ever meets a transition out of order.
ConnectTypeOK ==
    /\ ends \in [Ends -> Connections]
    /\ \A e \in Ends : (ends[e].conn = "absent") <=> (ends[e].refs = 0)
    /\ connector \in [Connectors -> {"idle", "await_REP", "resend_REQ",
            "await_ACK", "resend_RTU", "await_cep", "returned"}]
    /\ request \in [Ends -> {"none", "underway", "implied_ack", "replied"}]
    /\ losses \in 0..MaxLosses /\ early \in 0..MaxEarly

\* An end with a CEP in the table and a send semaphore has a peer whose queue
\* pair takes messages, and each knows the other's number: the RTU tells the
\* passive end, and the ACK (or an AM) the active one, in whatever order and
\* however often the datagrams arrive.
PeerReady ==
    \A e \in Ends : CanSend(e) =>
        /\ ends[e].qp = "RTS" /\ ends[e].knows
        /\ ends[Peer(e)].qp \in {"RTR", "RTS"} /\ ends[Peer(e)].knows

\* gasnetc_conn_implied_ack finds what it asserts: no semaphore under the lock
\* means this is the active end, still waiting for the ACK or with the ACK not
\* yet acted on. A thread in either wait holds an entry nobody has freed.
EntryStillHeld ==
    /\ \A e \in Ends : request[e] = "implied_ack" /\ ~ends[e].sema =>
            ends[e].conn \in {"RTU_SENT", "ACK_RCVD"}
    /\ \A t \in Connectors :
            connector[t] \in {"await_REP", "resend_REQ", "await_ACK", "resend_RTU"} =>
                ends[EndOf[t]].conn # "absent"

\* With finitely many losses every call of connect_to returns, whichever end
\* started and even if both did, and both ends free their entries.
ConnectionsSettle ==
    <>[](/\ \A t \in Connectors : connector[t] \in {"idle", "returned"}
         /\ \A e \in Ends : ends[e].conn = "absent")

----------------------------------------------------------------------------
(***************************************************************************)
(* The inductive invariant: what each state of the entry says of the       *)
(* node's queue pair and of the one thread that waits on the entry, and    *)
(* what a datagram or an AM that is underway says of the node it is from.  *)
(***************************************************************************)
ReplyWait == {"await_REP", "resend_REQ"}
AckWait == {"await_ACK", "resend_RTU"}

\* An absent entry is one not made yet or one of a finished connection.
Finished(s) == s.conn = "DONE" \/ (s.conn = "absent" /\ s.qp # "none")

EndOK(s) ==
    /\ (s.conn = "absent") <=> (s.refs = 0)
    /\ s.refs = 2 => s.conn = "REP_SENT"
    /\ s.cep <=> (Finished(s) \/ s.conn \in {"RTU_SENT", "ACK_RCVD"})
    /\ s.sema <=> (Finished(s) \/ s.conn = "REP_SENT")
    /\ s.conn = "absent" => s.qp \in {"none", "RTS"}
    /\ s.conn = "NONE" => s.qp = "none"
    /\ s.conn \in {"REQ_SENT", "REP_RCVD"} => s.qp = "INIT"
    /\ s.conn \in {"RTU_SENT", "ACK_RCVD", "REP_SENT", "DONE"} => s.qp = "RTS"
    /\ (s.conn = "REP_RCVD" \/ s.qp = "RTS") => s.knows

\* Where a thread can be while its node's connection is s.
Fits(where, s) ==
    /\ where \in ReplyWait =>
            \/ s.conn \in {"REQ_SENT", "REP_RCVD", "DONE"}
            \/ s.conn = "REP_SENT" /\ s.refs = 2
    /\ where \in AckWait => s.conn \in {"RTU_SENT", "ACK_RCVD", "DONE"}

EndsInv == \A e \in Ends : EndOK(ends[e])

WaitInv ==
    /\ \A t \in Connectors : Fits(connector[t], ends[EndOf[t]])
    /\ \A t, u \in Connectors :
        (/\ {connector[t], connector[u]} \subseteq ReplyWait \cup AckWait
         /\ EndOf[t] = EndOf[u]) => t = u

UnderwayInv ==
    /\ datagrams \in [Ends -> [Commands -> Nat]]
    /\ \A e \in Ends :
        /\ (\/ datagrams[e]["RTU"] > 0 \/ datagrams[e]["ACK"] > 0
            \/ ends[e].conn = "ACK_RCVD" \/ CanSend(e)) => ends[Peer(e)].cep
        /\ request[e] # "none" => CanSend(Peer(e))

ConnectInv == ConnectTypeOK /\ EndsInv /\ WaitInv /\ UnderwayInv
=============================================================================
