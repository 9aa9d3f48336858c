-------------------------- MODULE IBVConnectProofs --------------------------
(***************************************************************************)
(* TLAPS proofs about the dynamic connection protocol, for every pair of   *)
(* nodes, every number of threads that connect them, and every number of   *)
(* lost or repeated datagrams and of early timeouts.                       *)
(***************************************************************************)
EXTENDS IBVConnect, FiniteSetTheorems, TLAPS

USE ConnectAssumption

-----------------------------------------------------------------------------
\* Of two nodes each is the other's peer.
LEMMA PeerFacts ==
  ASSUME NEW e \in Ends
  PROVE  Peer(e) \in Ends /\ Peer(e) # e /\ Peer(Peer(e)) = e /\ Ends = {e, Peer(e)}
<1>1. IsFiniteSet(Ends \ {e}) /\ Cardinality(Ends \ {e}) = 1
  BY FS_RemoveElement
<1>2. PICK p : Ends \ {e} = {p}
  BY <1>1, FS_Singleton
<1>3. Peer(e) = p
  BY <1>2 DEF Peer
<1>4. Peer(p) = e
  BY <1>2 DEF Peer
<1>. QED BY <1>2, <1>3, <1>4

\* When both nodes sent each other a REQ, exactly one of them becomes the passive
\* end (the tie-break of gasnetc_conn_rcv_wc), whatever their ranks.
THEOREM OneYields ==
  ASSUME NEW e \in Ends
  PROVE  YieldsTo(e, Peer(e)) <=> ~YieldsTo(Peer(e), e)
<1>1. PICK a \in Nat, b \in Nat : a = e /\ b = Peer(e) /\ a # b
  BY PeerFacts
<1>2. (a > b) <=> ~(b > a)
  BY <1>1
<1>3. a + b = b + a
  OBVIOUS
<1>. QED BY <1>1, <1>2, <1>3 DEF YieldsTo

-----------------------------------------------------------------------------
(***************************************************************************)
(* What every handler has to show.  All actions change the connection of   *)
(* one node e, and what they send they send to its peer.                   *)
(***************************************************************************)
WaitStates == {"idle", "await_REP", "resend_REQ", "await_ACK", "resend_RTU",
               "await_cep", "returned"}
RequestStates == {"none", "underway", "implied_ack", "replied"}

\* The connection s may follow that of node e.
Follows(s, e) ==
  /\ s \in Connections /\ EndOK(s)
  /\ ends' = [ends EXCEPT ![e] = s]
  /\ ends[e].cep => s.cep
  /\ ends[e].sema => s.sema
  /\ s.conn = "ACK_RCVD" => ends[e].conn = "ACK_RCVD" \/ datagrams[e]["ACK"] > 0
  /\ s.cep /\ s.sema => \/ CanSend(e) \/ ends[e].conn = "ACK_RCVD"
                        \/ datagrams[e]["RTU"] > 0 \/ request[e] # "none"

\* Only an end whose CEP is in the table tells its peer so.
SendsAsEnd(s, e) ==
  /\ datagrams' \in [Ends -> [Commands -> Nat]]
  /\ \A f \in Ends : \A c \in {"RTU", "ACK"} :
       datagrams'[f][c] > 0 => datagrams[f][c] > 0 \/ (f = Peer(e) /\ s.cep)

ThreadsFit(s, e) ==
  /\ connector' \in [Connectors -> WaitStates]
  /\ \A t \in Connectors :
       IF EndOf[t] = e THEN Fits(connector'[t], s) ELSE connector'[t] = connector[t]
  /\ \A t, u \in Connectors :
       (/\ EndOf[t] = e /\ EndOf[u] = e
        /\ {connector'[t], connector'[u]} \subseteq ReplyWait \cup AckWait) => t = u

RequestsSent ==
  /\ request' \in [Ends -> RequestStates]
  /\ \A f \in Ends : request'[f] # "none" => request[f] # "none" \/ CanSend(Peer(f))

\* What an action that changes one node's connection has to show.
LEMMA StepInv ==
  ASSUME ConnectInv, NEW e \in Ends, NEW s,
         Follows(s, e), SendsAsEnd(s, e), ThreadsFit(s, e), RequestsSent,
         losses' \in 0 .. MaxLosses, early' \in 0 .. MaxEarly
  PROVE  ConnectInv'
<1>0. ConnectTypeOK /\ EndsInv /\ WaitInv /\ UnderwayInv
  BY DEF ConnectInv
<1>1. ends'[e] = s /\ \A f \in Ends \ {e} : ends'[f] = ends[f]
  BY <1>0 DEF Follows, ConnectTypeOK
<1>2. ends' \in [Ends -> Connections]
  BY <1>0 DEF Follows, ConnectTypeOK
<1>3. EndsInv'
  BY <1>0, <1>1 DEF Follows, EndsInv, EndOK, Finished
<1>4. ConnectTypeOK'
  <2>1. \A f \in Ends : (ends'[f].conn = "absent") <=> (ends'[f].refs = 0)
    BY <1>0, <1>1 DEF Follows, EndsInv, EndOK
  <2>. QED BY <1>2, <2>1 DEF ThreadsFit, RequestsSent, ConnectTypeOK, WaitStates,
                             RequestStates
<1>5. WaitInv'
  <2>1. ASSUME NEW t \in Connectors PROVE Fits(connector'[t], ends'[EndOf[t]])
    <3>1. CASE EndOf[t] = e
      BY <1>1, <3>1 DEF ThreadsFit
    <3>2. CASE EndOf[t] # e
      BY <1>0, <1>1, <3>2 DEF ThreadsFit, WaitInv
    <3>. QED BY <3>1, <3>2
  <2>2. ASSUME NEW t \in Connectors, NEW u \in Connectors, EndOf[t] = EndOf[u],
               {connector'[t], connector'[u]} \subseteq ReplyWait \cup AckWait
        PROVE  t = u
    <3>1. CASE EndOf[t] = e
      BY <2>2, <3>1 DEF ThreadsFit
    <3>2. CASE EndOf[t] # e
      BY <1>0, <2>2, <3>2 DEF ThreadsFit, WaitInv
    <3>. QED BY <3>1, <3>2
  <2>. QED BY <2>1, <2>2 DEF WaitInv, Fits
<1>6. \A f \in Ends : /\ ends[f].cep => ends'[f].cep
                      /\ ends[f].sema => ends'[f].sema
                      /\ CanSend(f) => CanSend(f)'
  BY <1>1 DEF Follows, CanSend
<1>7. UnderwayInv'
  <2> SUFFICES ASSUME NEW f \in Ends
               PROVE  /\ \/ datagrams'[f]["RTU"] > 0 \/ datagrams'[f]["ACK"] > 0
                         \/ ends'[f].conn = "ACK_RCVD" \/ CanSend(f)'
                         => ends'[Peer(f)].cep
                      /\ request'[f] # "none" => CanSend(Peer(f))'
    BY PeerFacts DEF UnderwayInv, SendsAsEnd, CanSend
  <2>1. Peer(f) \in Ends /\ Peer(Peer(f)) = f
    BY PeerFacts
  <2>2. /\ \/ datagrams[f]["RTU"] > 0 \/ datagrams[f]["ACK"] > 0
           \/ ends[f].conn = "ACK_RCVD" \/ CanSend(f)
           => ends[Peer(f)].cep
        /\ request[f] # "none" => CanSend(Peer(f))
    BY <1>0 DEF UnderwayInv
  <2>3. ASSUME datagrams'[f]["RTU"] > 0 \/ datagrams'[f]["ACK"] > 0
        PROVE  ends'[Peer(f)].cep
    <3>1. CASE datagrams[f]["RTU"] > 0 \/ datagrams[f]["ACK"] > 0
      BY <1>6, <2>1, <2>2, <3>1
    <3>2. CASE f = Peer(e) /\ s.cep
      BY <1>1, <3>2, PeerFacts
    <3>. QED BY <2>3, <3>1, <3>2 DEF SendsAsEnd
  <2>4. ASSUME ends'[f].conn = "ACK_RCVD" \/ CanSend(f)'
        PROVE  ends'[Peer(f)].cep
    <3>1. CASE f # e
      BY <1>1, <1>6, <2>1, <2>2, <2>4, <3>1 DEF CanSend
    <3>2. CASE f = e
      <4>1. \/ datagrams[e]["RTU"] > 0 \/ datagrams[e]["ACK"] > 0
            \/ ends[e].conn = "ACK_RCVD" \/ CanSend(e) \/ request[e] # "none"
        BY <1>1, <2>4, <3>2 DEF Follows, CanSend
      <4>2. ends[Peer(f)].cep
        BY <2>2, <3>2, <4>1 DEF CanSend
      <4>. QED BY <1>6, <2>1, <4>2
    <3>. QED BY <3>1, <3>2
  <2>5. request'[f] # "none" => CanSend(Peer(f))'
    BY <1>6, <2>1, <2>2 DEF RequestsSent
  <2>. QED BY <2>3, <2>4, <2>5
<1>. QED BY <1>3, <1>4, <1>5, <1>7 DEF ConnectInv

-----------------------------------------------------------------------------
(***************************************************************************)
(* The parts of StepInv that several handlers share.                       *)
(***************************************************************************)
LEMMA ThreadsStay ==
  ASSUME ConnectInv, NEW e \in Ends, NEW s, UNCHANGED connector,
         \A w \in WaitStates : Fits(w, ends[e]) => Fits(w, s)
  PROVE  ThreadsFit(s, e)
<1>1. connector \in [Connectors -> WaitStates] /\ WaitInv
  BY DEF ConnectInv, ConnectTypeOK, WaitStates
<1>. QED BY <1>1 DEF ThreadsFit, WaitInv

\* A thread moves: the one that waits on the entry, or one that stops
\* touching it, or the first one.
LEMMA ThreadMoves ==
  ASSUME ConnectInv, NEW t \in Connectors, NEW s, NEW w \in WaitStates,
         connector' = [connector EXCEPT ![t] = w], Fits(w, s),
         \/ connector[t] \in ReplyWait \cup AckWait
         \/ s = ends[EndOf[t]] /\ w \notin ReplyWait \cup AckWait
         \/ ends[EndOf[t]].conn \in {"absent", "NONE"}
  PROVE  ThreadsFit(s, EndOf[t])
<1> DEFINE e == EndOf[t]
<1>1. connector \in [Connectors -> WaitStates] /\ WaitInv
  BY DEF ConnectInv, ConnectTypeOK, WaitStates
<1>2. connector' \in [Connectors -> WaitStates]
  BY <1>1
<1>3. /\ connector'[t] = w
      /\ \A u \in Connectors \ {t} : connector'[u] = connector[u]
  BY <1>1
<1>4. ASSUME NEW u \in Connectors \ {t}, EndOf[u] = e
      PROVE  /\ Fits(connector[u], s)
             /\ {w, connector[u]} \subseteq ReplyWait \cup AckWait => FALSE
  <2>1. Fits(connector[u], ends[e])
    BY <1>1, <1>4 DEF WaitInv
  <2>2. CASE s = ends[e] /\ w \notin ReplyWait \cup AckWait
    BY <2>1, <2>2
  <2>3. CASE connector[t] \in ReplyWait \cup AckWait
    <3>1. connector[u] \notin ReplyWait \cup AckWait
      BY <1>1, <1>4, <2>3 DEF WaitInv
    <3>. QED BY <3>1 DEF Fits
  <2>4. CASE ends[e].conn \in {"absent", "NONE"}
    <3>1. connector[u] \notin ReplyWait \cup AckWait
      BY <2>1, <2>4 DEF Fits
    <3>. QED BY <3>1 DEF Fits
  <2>. QED BY <2>2, <2>3, <2>4
<1>5. \A u \in Connectors :
        IF EndOf[u] = e THEN Fits(connector'[u], s) ELSE connector'[u] = connector[u]
  BY <1>3, <1>4
<1>6. ASSUME NEW u \in Connectors, NEW v \in Connectors, EndOf[u] = e, EndOf[v] = e,
             {connector'[u], connector'[v]} \subseteq ReplyWait \cup AckWait
      PROVE  u = v
  <2>1. CASE u = t \/ v = t
    BY <1>3, <1>4, <1>6, <2>1
  <2>2. CASE u # t /\ v # t
    BY <1>1, <1>3, <1>6, <2>2 DEF WaitInv
  <2>. QED BY <2>1, <2>2
<1>. QED BY <1>2, <1>5, <1>6 DEF ThreadsFit

\* No Active Message sent.
LEMMA RequestsStay ==
  ASSUME ConnectInv, UNCHANGED request
  PROVE  RequestsSent
BY DEF ConnectInv, ConnectTypeOK, RequestsSent, RequestStates

\* No datagram sent.
LEMMA NothingSent ==
  ASSUME ConnectInv, UNCHANGED datagrams, NEW e, NEW s
  PROVE  SendsAsEnd(s, e)
BY DEF ConnectInv, UnderwayInv, SendsAsEnd

\* One datagram sent to the peer; an RTU or ACK needs the CEP.
LEMMA SentFacts ==
  ASSUME ConnectInv, NEW e \in Ends, NEW s, NEW c \in Commands,
         datagrams' = Sent(datagrams, Peer(e), c), c \in {"RTU", "ACK"} => s.cep
  PROVE  SendsAsEnd(s, e)
<1>1. datagrams \in [Ends -> [Commands -> Nat]] /\ Peer(e) \in Ends
  BY PeerFacts DEF ConnectInv, UnderwayInv
<1>2. /\ datagrams' \in [Ends -> [Commands -> Nat]]
      /\ \A f \in Ends, d \in Commands :
           f # Peer(e) \/ d # c => datagrams'[f][d] = datagrams[f][d]
  <2>1. PICK p \in Ends : p = Peer(e)
    BY <1>1
  <2>2. datagrams' = [datagrams EXCEPT ![p][c] = datagrams[p][c] + 1]
        /\ datagrams[p][c] + 1 \in Nat
    BY <1>1, <2>1 DEF Sent
  <2>. QED BY <1>1, <2>1, <2>2
<1>3. {"RTU", "ACK"} \subseteq Commands
  BY DEF Commands
<1>. QED BY <1>2, <1>3 DEF SendsAsEnd

\* A handler consumes one datagram and may answer it.
LEMMA HandleFacts ==
  ASSUME ConnectInv, NEW e \in Ends, NEW c \in Commands, NEW s, NEW answers,
         Handle(e, c, s, answers), "RTU" \notin answers, "ACK" \in answers => s.cep
  PROVE  /\ SendsAsEnd(s, e) /\ RequestsSent /\ datagrams[e][c] > 0
         /\ ends' = [ends EXCEPT ![e] = s]
         /\ UNCHANGED <<connector, losses, early>>
         /\ losses' \in 0 .. MaxLosses /\ early' \in 0 .. MaxEarly
<1>1. datagrams \in [Ends -> [Commands -> Nat]] /\ Peer(e) \in Ends /\ Peer(e) # e
  BY PeerFacts DEF ConnectInv, UnderwayInv
<1>2. datagrams[e][c] > 0
  BY DEF Handle
<1>3. PICK d : d = Arrived(datagrams, e, c)
  OBVIOUS
<1>4. /\ d \in [Ends -> [Commands -> Nat]]
      /\ \A f \in Ends, a \in Commands : d[f][a] > 0 => datagrams[f][a] > 0
  <2>1. datagrams[e][c] - 1 \in Nat
    BY <1>1, <1>2
  <2>. QED BY <1>1, <1>2, <1>3, <2>1 DEF Arrived
<1>5. datagrams' = [d EXCEPT ![Peer(e)] =
          [a \in Commands |-> IF a \in answers THEN d[Peer(e)][a] + 1 ELSE d[Peer(e)][a]]]
  BY <1>3 DEF Handle
<1>6. datagrams' \in [Ends -> [Commands -> Nat]]
  <2>1. \A a \in Commands : d[Peer(e)][a] \in Nat /\ d[Peer(e)][a] + 1 \in Nat
    <3>1. d[Peer(e)] \in [Commands -> Nat]
      BY <1>1, <1>4
    <3>. QED BY <3>1
  <2>2. [a \in Commands |-> IF a \in answers THEN d[Peer(e)][a] + 1 ELSE d[Peer(e)][a]]
          \in [Commands -> Nat]
    BY <2>1
  <2>. QED BY <1>4, <1>5, <2>2
<1>7. \A f \in Ends, a \in Commands :
        datagrams'[f][a] > 0 => datagrams[f][a] > 0 \/ (f = Peer(e) /\ a \in answers)
  <2> SUFFICES ASSUME NEW f \in Ends, NEW a \in Commands, datagrams'[f][a] > 0,
                      ~(f = Peer(e) /\ a \in answers)
               PROVE  datagrams[f][a] > 0
    OBVIOUS
  <2>1. datagrams'[f][a] = d[f][a]
    <3>1. CASE f # Peer(e)
      <4>1. datagrams'[f] = d[f]
        BY <1>1, <1>4, <1>5, <3>1
      <4>. QED BY <4>1
    <3>2. CASE f = Peer(e)
      <4>1. datagrams'[f] =
              [b \in Commands |-> IF b \in answers THEN d[f][b] + 1 ELSE d[f][b]]
        BY <1>1, <1>4, <1>5, <3>2
      <4>. QED BY <3>2, <4>1
    <3>. QED BY <3>1, <3>2
  <2>. QED BY <1>4, <2>1
<1>8. SendsAsEnd(s, e)
  BY <1>6, <1>7 DEF SendsAsEnd, Commands
<1>. QED BY <1>2, <1>8, RequestsStay DEF Handle, ConnectInv, ConnectTypeOK

\* The entry that gasnetc_get_conn finds or makes.
LEMMA GetConnFacts ==
  ASSUME ConnectInv, NEW e \in Ends, NEW a, a = gasnetc_get_conn(ends[e])
  PROVE  /\ a \in Connections /\ EndOK(a)
         /\ (a.cep <=> ends[e].cep) /\ (a.sema <=> ends[e].sema)
         /\ a.conn # ends[e].conn => a.conn = "NONE" /\ ends[e].conn = "absent"
         /\ a.conn # "NONE" => a.refs = ends[e].refs
         /\ a.conn = "absent" => a.cep
<1>1. ends[e] \in Connections /\ EndOK(ends[e])
  BY DEF ConnectInv, ConnectTypeOK, EndsInv
<1>2. a = IF ends[e].conn = "absent" /\ ~ends[e].cep
          THEN [ends[e] EXCEPT !.conn = "NONE", !.refs = 1] ELSE ends[e]
  BY DEF gasnetc_get_conn
<1>3. CASE ends[e].conn = "absent" /\ ~ends[e].cep
  <2>1. a = [ends[e] EXCEPT !.conn = "NONE", !.refs = 1]
    BY <1>2, <1>3
  <2>2. /\ a \in Connections /\ a.conn = "NONE" /\ a.refs = 1
        /\ (a.cep <=> ends[e].cep) /\ (a.sema <=> ends[e].sema)
        /\ a.qp = ends[e].qp /\ (a.knows <=> ends[e].knows)
    <3>1. "NONE" \in ConnStates \cup {"absent"} /\ 1 \in 0 .. 2
      BY DEF ConnStates
    <3>2. a \in Connections
      BY <1>1, <2>1, <3>1 DEF Connections
    <3>3. a.conn = "NONE" /\ a.refs = 1 /\ a.qp = ends[e].qp
      BY <1>1, <2>1 DEF Connections
    <3>4. (a.cep <=> ends[e].cep) /\ (a.sema <=> ends[e].sema)
          /\ (a.knows <=> ends[e].knows)
      BY <1>1, <2>1 DEF Connections
    <3>. QED BY <3>2, <3>3, <3>4
  <2>3. ends[e].qp = "none" /\ ~ends[e].sema
    BY <1>1, <1>3 DEF EndOK, Finished
  <2>4. EndOK(a)
    BY <1>3, <2>2, <2>3 DEF EndOK, Finished
  <2>. QED BY <1>3, <2>2, <2>4
<1>4. CASE ~(ends[e].conn = "absent" /\ ~ends[e].cep)
  BY <1>1, <1>2, <1>4
<1>. QED BY <1>3, <1>4

\* The entry that a datagram finds or makes.
LEMMA ArrivingFacts ==
  ASSUME ConnectInv, NEW e \in Ends, NEW c \in Commands, NEW s, s = Arriving(e, c)
  PROVE  /\ s \in Connections /\ EndOK(s)
         /\ (s.cep <=> ends[e].cep) /\ (s.sema <=> ends[e].sema)
         /\ s.conn # ends[e].conn => s.conn = "NONE" /\ ends[e].conn = "absent"
         /\ s.conn # "NONE" => s.refs = ends[e].refs
         /\ s.conn = "absent" => s.cep
         /\ c \in {"REQ", "REP"} /\ s.conn \in {"NONE", "REQ_SENT"} => s.knows
         /\ \A w \in WaitStates : Fits(w, ends[e]) => Fits(w, s)
<1>1. PICK a : a = gasnetc_get_conn(ends[e])
  OBVIOUS
<1>2. /\ a \in Connections /\ EndOK(a)
      /\ (a.cep <=> ends[e].cep) /\ (a.sema <=> ends[e].sema)
      /\ a.conn # ends[e].conn => a.conn = "NONE" /\ ends[e].conn = "absent"
      /\ a.conn # "NONE" => a.refs = ends[e].refs
      /\ a.conn = "absent" => a.cep
  BY <1>1, GetConnFacts
<1>3. s = IF c \in {"REQ", "REP"} /\ a.conn \in {"NONE", "REQ_SENT"}
          THEN [a EXCEPT !.knows = TRUE] ELSE a
  BY <1>1 DEF Arriving
<1>4. /\ s \in Connections /\ s.conn = a.conn /\ s.refs = a.refs /\ (s.cep <=> a.cep)
      /\ (s.sema <=> a.sema) /\ s.qp = a.qp /\ (a.knows => s.knows)
      /\ c \in {"REQ", "REP"} /\ s.conn \in {"NONE", "REQ_SENT"} => s.knows
  BY <1>2, <1>3 DEF Connections
<1>5. EndOK(s)
  <2>1. CASE s = a
    BY <1>2, <2>1
  <2>2. CASE s = [a EXCEPT !.knows = TRUE]
    <3>1. s.conn = a.conn /\ s.refs = a.refs /\ s.qp = a.qp
      BY <1>2, <2>2 DEF Connections
    <3>2. (s.cep <=> a.cep) /\ (s.sema <=> a.sema) /\ s.knows
      BY <1>2, <2>2 DEF Connections
    <3>. QED BY <1>2, <3>1, <3>2 DEF EndOK, Finished
  <2>. QED BY <1>3, <2>1, <2>2
<1>6. \A w \in WaitStates : Fits(w, ends[e]) => Fits(w, s)
  BY <1>2, <1>4 DEF Fits
<1>7. (s.cep <=> ends[e].cep) /\ (s.sema <=> ends[e].sema)
  <2>1. (a.cep <=> ends[e].cep) /\ (a.sema <=> ends[e].sema)
    BY <1>2
  <2>2. (s.cep <=> a.cep) /\ (s.sema <=> a.sema)
    BY <1>4
  <2>. QED BY <2>1, <2>2
<1>8. s.conn = "absent" => s.cep
  BY <1>2, <1>4
<1>. QED BY <1>2, <1>4, <1>5, <1>6, <1>7, <1>8

\* A node whose connection does not change.
LEMMA Unmoved ==
  ASSUME ConnectInv, UNCHANGED ends, NEW e \in Ends
  PROVE  Follows(ends[e], e)
<1>1. ends[e] \in Connections /\ EndOK(ends[e]) /\ ends \in [Ends -> Connections]
  BY DEF ConnectInv, ConnectTypeOK, EndsInv
<1>2. ends' = [ends EXCEPT ![e] = ends[e]]
  BY <1>1
<1>. QED BY <1>1, <1>2 DEF Follows, CanSend

\* Losses and early timeouts stay within their bounds.
LEMMA Bounds ==
  ASSUME ConnectInv, UNCHANGED <<losses, early>>
  PROVE  losses' \in 0 .. MaxLosses /\ early' \in 0 .. MaxEarly
BY DEF ConnectInv, ConnectTypeOK

\* The records that the handlers build.
LEMMA Names ==
  /\ {"absent", "NONE", "REQ_SENT", "REP_RCVD", "RTU_SENT", "ACK_RCVD",
      "REP_SENT", "DONE"} \subseteq ConnStates \cup {"absent"}
  /\ ConnStates \cup {"absent"} =
     {"absent", "NONE", "REQ_SENT", "REP_RCVD", "RTU_SENT", "ACK_RCVD",
      "REP_SENT", "DONE"}
  /\ {"REQ", "REP", "RTU", "ACK"} = Commands
BY DEF ConnStates, Commands

\* A new queue pair ...
LEMMA CreatedFacts ==
  ASSUME NEW r \in Connections, NEW s,
         s = gasnetc_qp_reset2init(gasnetc_qp_create(r))
  PROVE  /\ s \in Connections /\ s.conn = r.conn /\ s.refs = r.refs /\ s.qp = "INIT"
         /\ (s.cep <=> r.cep) /\ (s.sema <=> r.sema) /\ (s.knows <=> r.knows)
<1>1. s = [[r EXCEPT !.qp = "RESET"] EXCEPT !.qp = "INIT"]
  BY DEF gasnetc_qp_reset2init, gasnetc_qp_create, Modify, Connections
<1>2. s \in Connections /\ s.conn = r.conn /\ s.refs = r.refs /\ s.qp = "INIT"
  BY <1>1 DEF Connections
<1>3. (s.cep <=> r.cep) /\ (s.sema <=> r.sema) /\ (s.knows <=> r.knows)
  BY <1>1 DEF Connections
<1>. QED BY <1>2, <1>3

\* ... goes all the way when the peer's number is known.
LEMMA ConnectedFacts ==
  ASSUME NEW r \in Connections, r.qp = "INIT", r.knows, NEW s,
         s = gasnetc_qp_rtr2rts(gasnetc_qp_init2rtr(r))
  PROVE  /\ s \in Connections /\ s.conn = r.conn /\ s.refs = r.refs /\ s.qp = "RTS"
         /\ (s.cep <=> r.cep) /\ (s.sema <=> r.sema) /\ s.knows
<1>1. s = [[r EXCEPT !.qp = "RTR"] EXCEPT !.qp = "RTS"]
  BY DEF gasnetc_qp_rtr2rts, gasnetc_qp_init2rtr, Modify, Connections
<1>2. s \in Connections /\ s.conn = r.conn /\ s.refs = r.refs /\ s.qp = "RTS"
  BY <1>1 DEF Connections
<1>3. (s.cep <=> r.cep) /\ (s.sema <=> r.sema) /\ s.knows
  BY <1>1 DEF Connections
<1>. QED BY <1>2, <1>3

\* A node that becomes passive is ready to send and waits for RTU.
LEMMA PassiveFacts ==
  ASSUME NEW r \in Connections, r.qp = "INIT", r.knows, NEW s, s = BecomePassive(r)
  PROVE  /\ s \in Connections /\ s.conn = "REP_SENT" /\ s.refs = r.refs /\ s.qp = "RTS"
         /\ (s.cep <=> r.cep) /\ s.sema /\ s.knows
<1>1. PICK a : a = [r EXCEPT !.conn = "REP_SENT"]
  OBVIOUS
<1>2. a \in Connections /\ a.conn = "REP_SENT" /\ a.refs = r.refs /\ a.qp = "INIT"
  BY <1>1, Names DEF Connections
<1>3. (a.cep <=> r.cep) /\ a.knows
  BY <1>1 DEF Connections
<1>4. PICK b : b = gasnetc_qp_rtr2rts(gasnetc_qp_init2rtr(a))
  OBVIOUS
<1>5. /\ b \in Connections /\ b.conn = "REP_SENT" /\ b.refs = r.refs /\ b.qp = "RTS"
      /\ (b.cep <=> r.cep) /\ b.knows
  BY <1>2, <1>3, <1>4, ConnectedFacts
<1>6. s = [b EXCEPT !.sema = TRUE]
  BY <1>1, <1>4 DEF BecomePassive, gasnetc_set_sq_sema
<1>7. s \in Connections /\ s.conn = "REP_SENT" /\ s.refs = r.refs /\ s.qp = "RTS"
  BY <1>5, <1>6 DEF Connections
<1>8. (s.cep <=> b.cep) /\ s.sema /\ s.knows
  BY <1>5, <1>6 DEF Connections
<1>. QED BY <1>5, <1>7, <1>8

\* An entry is given up by one of those that hold it.
LEMMA PutFacts ==
  ASSUME NEW r \in Connections, r.refs # 0, NEW s, s = gasnetc_put_conn(r)
  PROVE  /\ s \in Connections /\ s.refs = r.refs - 1 /\ s.qp = r.qp
         /\ s.conn = (IF r.refs = 1 THEN "absent" ELSE r.conn)
         /\ (s.cep <=> r.cep) /\ (s.sema <=> r.sema) /\ (s.knows <=> r.knows)
<1>1. PICK n \in 0 .. 2, k \in ConnStates \cup {"absent"} :
        n = r.refs - 1 /\ k = IF r.refs = 1 THEN "absent" ELSE r.conn
  BY DEF Connections
<1>2. s = [r EXCEPT !.refs = n, !.conn = k]
  BY <1>1 DEF gasnetc_put_conn
<1>3. s \in Connections /\ s.refs = n /\ s.conn = k /\ s.qp = r.qp
  BY <1>2 DEF Connections
<1>4. (s.cep <=> r.cep) /\ (s.sema <=> r.sema) /\ (s.knows <=> r.knows)
  BY <1>2 DEF Connections
<1>. QED BY <1>1, <1>3, <1>4

-----------------------------------------------------------------------------
(***************************************************************************)
(* One lemma per action: gasnetc_connect_to ...                            *)
(***************************************************************************)
LEMMA StartConnectStep ==
  ASSUME ConnectInv, NEW t \in Connectors, StartConnect(t)
  PROVE  ConnectInv'
<1>1. PICK e \in Ends : e = EndOf[t]
  OBVIOUS
<1>2. PICK a : a = gasnetc_get_conn(ends[e])
  OBVIOUS
<1>3. /\ a \in Connections /\ EndOK(a) /\ a.conn = "NONE"
      /\ (a.cep <=> ends[e].cep) /\ (a.sema <=> ends[e].sema)
      /\ ends[e].conn \in {"absent", "NONE"}
  BY <1>1, <1>2, GetConnFacts DEF StartConnect
<1>4. PICK r : r = [a EXCEPT !.conn = "REQ_SENT"]
  OBVIOUS
<1>5. r \in Connections /\ r.conn = "REQ_SENT" /\ r.refs = a.refs
  BY <1>3, <1>4, Names DEF Connections
<1>6. (r.cep <=> a.cep) /\ (r.sema <=> a.sema)
  BY <1>3, <1>4 DEF Connections
<1>7. PICK s : s = gasnetc_qp_reset2init(gasnetc_qp_create(r))
  OBVIOUS
<1>8. /\ s \in Connections /\ s.conn = "REQ_SENT" /\ s.refs = a.refs /\ s.qp = "INIT"
      /\ (s.cep <=> a.cep) /\ (s.sema <=> a.sema)
  BY <1>5, <1>6, <1>7, CreatedFacts
<1>9. ~a.cep /\ ~a.sema /\ a.refs # 0 /\ a.refs # 2
  BY <1>3 DEF EndOK, Finished
<1>10. EndOK(s)
  BY <1>8, <1>9 DEF EndOK, Finished
<1>11. Follows(s, e)
  <2>1. ends' = [ends EXCEPT ![e] = s]
    BY <1>1, <1>2, <1>4, <1>7 DEF StartConnect
  <2>. QED BY <1>3, <1>8, <1>9, <1>10, <2>1 DEF Follows
<1>12. ThreadsFit(s, e)
  <2>1. Fits("await_REP", s)
    BY <1>8 DEF Fits, ReplyWait, AckWait
  <2>. QED BY <1>1, <1>3, <2>1, ThreadMoves DEF StartConnect, WaitStates
<1>13. SendsAsEnd(s, e)
  BY <1>1, Names, SentFacts DEF StartConnect
<1>14. RequestsSent /\ losses' \in 0 .. MaxLosses /\ early' \in 0 .. MaxEarly
  BY RequestsStay, Bounds DEF StartConnect
<1>. QED BY <1>11, <1>12, <1>13, <1>14, StepInv

\* A thread finds its connection made or being made.
LEMMA JoinConnectStep ==
  ASSUME ConnectInv, NEW t \in Connectors, JoinConnect(t)
  PROVE  ConnectInv'
<1>1. PICK e \in Ends : e = EndOf[t]
  OBVIOUS
<1>2. Follows(ends[e], e) /\ SendsAsEnd(ends[e], e) /\ RequestsSent
      /\ losses' \in 0 .. MaxLosses /\ early' \in 0 .. MaxEarly
  BY Unmoved, NothingSent, RequestsStay, Bounds DEF JoinConnect
<1>3. ThreadsFit(ends[e], e)
  <2>1. Fits("await_cep", ends[e])
    BY DEF Fits, ReplyWait, AckWait
  <2>. QED BY <1>1, <2>1, ThreadMoves DEF JoinConnect, WaitStates, ReplyWait, AckWait
<1>. QED BY <1>2, <1>3, StepInv

\* The connecting thread sees the reply: the queue pair goes to RTS.
LEMMA ReplySeenStep ==
  ASSUME ConnectInv, NEW t \in Connectors, ReplySeen(t)
  PROVE  ConnectInv'
<1>1. PICK e \in Ends : e = EndOf[t]
  OBVIOUS
<1>2. PICK r \in Connections : r = ends[e] /\ EndOK(r) /\ Fits(connector[t], r)
  BY <1>1 DEF ConnectInv, ConnectTypeOK, EndsInv, WaitInv
<1>3. /\ connector[t] \in ReplyWait /\ connector[t] \in ReplyWait \cup AckWait
      /\ RequestsSent /\ losses' \in 0 .. MaxLosses /\ early' \in 0 .. MaxEarly
  BY RequestsStay, Bounds DEF ReplySeen, ReplyWait
<1>4. CASE /\ r.conn \in {"REP_SENT", "DONE"}
           /\ ends' = [ends EXCEPT ![e] = gasnetc_put_conn(r)]
           /\ connector' = [connector EXCEPT ![t] = "await_cep"]
           /\ UNCHANGED datagrams
  <2>1. PICK s : s = gasnetc_put_conn(r)
    OBVIOUS
  <2>2. /\ r.refs # 0 /\ r.qp = "RTS" /\ r.sema /\ r.knows
        /\ (r.conn = "REP_SENT") <=> (r.refs = 2)
        /\ (r.conn = "DONE") <=> r.cep
    BY <1>2, <1>3, <1>4 DEF EndOK, Fits, Finished
  <2>3. /\ s \in Connections /\ s.refs = r.refs - 1 /\ s.qp = "RTS"
        /\ s.conn = (IF r.refs = 1 THEN "absent" ELSE r.conn)
        /\ (s.cep <=> r.cep) /\ s.sema /\ s.knows
    BY <2>1, <2>2, PutFacts
  <2>4. r.refs \in {1, 2}
    BY <2>2 DEF Connections
  <2>5. EndOK(s)
    <3>1. CASE r.refs = 2
      BY <1>4, <2>2, <2>3, <3>1 DEF EndOK, Finished
    <3>2. CASE r.refs = 1
      <4>1. s.conn = "absent" /\ s.refs = 0 /\ s.qp = "RTS"
        BY <2>3, <3>2
      <4>2. s.cep /\ s.sema /\ s.knows
        BY <1>4, <2>2, <2>3, <3>2
      <4>. QED BY <4>1, <4>2 DEF EndOK, Finished
    <3>. QED BY <2>4, <3>1, <3>2
  <2>6. Follows(s, e)
    <3>1. s.conn # "ACK_RCVD"
      BY <1>4, <2>3
    <3>2. s.cep /\ s.sema => CanSend(e)
      BY <1>2, <2>2, <2>3 DEF CanSend
    <3>. QED BY <1>2, <1>4, <2>1, <2>3, <2>5, <3>1, <3>2 DEF Follows
  <2>7. ThreadsFit(s, e)
    <3>1. Fits("await_cep", s)
      BY DEF Fits, ReplyWait, AckWait
    <3>. QED BY <1>1, <1>3, <1>4, <3>1, ThreadMoves DEF WaitStates
  <2>. QED BY <1>3, <1>4, <2>6, <2>7, NothingSent, StepInv
<1>5. CASE /\ r.conn = "REP_RCVD"
           /\ ends' = [ends EXCEPT ![e] = gasnetc_qp_rtr2rts(gasnetc_qp_init2rtr(
                           [r EXCEPT !.cep = TRUE, !.conn = "RTU_SENT"]))]
           /\ datagrams' = Sent(datagrams, Peer(e), "RTU")
           /\ connector' = [connector EXCEPT ![t] = "await_ACK"]
  <2>1. PICK a : a = [r EXCEPT !.cep = TRUE, !.conn = "RTU_SENT"]
    OBVIOUS
  <2>2. r.refs # 0 /\ r.refs # 2 /\ ~r.cep /\ ~r.sema /\ r.qp = "INIT" /\ r.knows
    BY <1>2, <1>5 DEF EndOK, Finished
  <2>3. a \in Connections /\ a.conn = "RTU_SENT" /\ a.refs = r.refs /\ a.qp = "INIT"
    BY <2>1, <2>2, Names DEF Connections
  <2>4. a.cep /\ ~a.sema /\ a.knows
    BY <2>1, <2>2 DEF Connections
  <2>5. PICK s : s = gasnetc_qp_rtr2rts(gasnetc_qp_init2rtr(a))
    OBVIOUS
  <2>6. /\ s \in Connections /\ s.conn = "RTU_SENT" /\ s.refs = r.refs /\ s.qp = "RTS"
        /\ s.cep /\ ~s.sema /\ s.knows
    BY <2>3, <2>4, <2>5, ConnectedFacts
  <2>7. EndOK(s)
    BY <2>2, <2>6 DEF EndOK, Finished
  <2>8. Follows(s, e)
    BY <1>2, <1>5, <2>1, <2>2, <2>5, <2>6, <2>7 DEF Follows
  <2>9. ThreadsFit(s, e)
    <3>1. Fits("await_ACK", s)
      BY <2>6 DEF Fits, ReplyWait, AckWait
    <3>. QED BY <1>1, <1>3, <1>5, <3>1, ThreadMoves DEF WaitStates
  <2>10. SendsAsEnd(s, e)
    BY <1>5, <2>6, Names, SentFacts
  <2>. QED BY <1>3, <2>8, <2>9, <2>10, StepInv
<1>. QED BY <1>1, <1>2, <1>4, <1>5 DEF ReplySeen

\* The connecting thread sees the ACK, explicit or implied.
LEMMA AckSeenStep ==
  ASSUME ConnectInv, NEW t \in Connectors, AckSeen(t)
  PROVE  ConnectInv'
<1>1. PICK e \in Ends : e = EndOf[t]
  OBVIOUS
<1>2. PICK r \in Connections : r = ends[e] /\ EndOK(r) /\ Fits(connector[t], r)
  BY <1>1 DEF ConnectInv, ConnectTypeOK, EndsInv, WaitInv
<1>3. /\ connector[t] \in AckWait /\ connector[t] \in ReplyWait \cup AckWait
      /\ RequestsSent /\ losses' \in 0 .. MaxLosses /\ early' \in 0 .. MaxEarly
  BY RequestsStay, Bounds DEF AckSeen, AckWait
<1>4. r.conn \in {"ACK_RCVD", "DONE"}
  BY <1>1, <1>2, <1>3 DEF AckSeen, Fits
<1>5. PICK a : a = IF r.conn = "DONE" THEN r
                   ELSE gasnetc_set_sq_sema([r EXCEPT !.conn = "DONE"])
  OBVIOUS
<1>6. r.refs = 1 /\ r.cep /\ r.qp = "RTS" /\ r.knows /\ (r.conn = "DONE" => r.sema)
  BY <1>2, <1>4 DEF EndOK, Finished, Connections
<1>7. a \in Connections /\ a.refs = 1 /\ a.qp = "RTS" /\ a.cep /\ a.sema /\ a.knows
  <2>1. CASE r.conn = "DONE"
    BY <1>5, <1>6, <2>1
  <2>2. CASE r.conn # "DONE"
    <3>1. a = [[r EXCEPT !.conn = "DONE"] EXCEPT !.sema = TRUE]
      BY <1>5, <2>2 DEF gasnetc_set_sq_sema
    <3>2. a \in Connections /\ a.refs = 1 /\ a.qp = "RTS"
      BY <1>6, <3>1, Names DEF Connections
    <3>3. a.cep /\ a.sema /\ a.knows
      BY <1>6, <3>1 DEF Connections
    <3>. QED BY <3>2, <3>3
  <2>. QED BY <2>1, <2>2
<1>8. PICK s : s = gasnetc_put_conn(a)
  OBVIOUS
<1>9. /\ s \in Connections /\ s.refs = 0 /\ s.qp = "RTS" /\ s.conn = "absent"
      /\ s.cep /\ s.sema /\ s.knows
  BY <1>7, <1>8, PutFacts
<1>10. EndOK(s)
  BY <1>9 DEF EndOK, Finished
<1>11. Follows(s, e)
  <2>1. ends' = [ends EXCEPT ![e] = s]
    BY <1>1, <1>2, <1>5, <1>8 DEF AckSeen
  <2>2. CanSend(e) \/ ends[e].conn = "ACK_RCVD"
    BY <1>2, <1>4, <1>6 DEF CanSend
  <2>. QED BY <1>9, <1>10, <2>1, <2>2 DEF Follows
<1>12. ThreadsFit(s, e)
  <2>1. Fits("await_cep", s)
    BY DEF Fits, ReplyWait, AckWait
  <2>. QED BY <1>1, <1>3, <2>1, ThreadMoves DEF AckSeen, WaitStates
<1>. QED BY <1>3, <1>11, <1>12, NothingSent, StepInv DEF AckSeen

\* A call that finds its connection made returns.
LEMMA ConnectReturnsStep ==
  ASSUME ConnectInv, NEW t \in Connectors, ConnectReturns(t)
  PROVE  ConnectInv'
<1>1. PICK e \in Ends : e = EndOf[t]
  OBVIOUS
<1>2. Follows(ends[e], e) /\ SendsAsEnd(ends[e], e) /\ RequestsSent
      /\ losses' \in 0 .. MaxLosses /\ early' \in 0 .. MaxEarly
  BY Unmoved, NothingSent, RequestsStay, Bounds DEF ConnectReturns
<1>3. ThreadsFit(ends[e], e)
  <2>1. Fits("returned", ends[e])
    BY DEF Fits, ReplyWait, AckWait
  <2>. QED BY <1>1, <2>1, ThreadMoves DEF ConnectReturns, WaitStates, ReplyWait, AckWait
<1>. QED BY <1>2, <1>3, StepInv

\* A timer expires: the thread is about to send again.
LEMMA TimerExpiresStep ==
  ASSUME ConnectInv, NEW t \in Connectors, TimerExpires(t)
  PROVE  ConnectInv'
<1>1. PICK e \in Ends : e = EndOf[t]
  OBVIOUS
<1>2. Follows(ends[e], e) /\ SendsAsEnd(ends[e], e) /\ RequestsSent
  BY Unmoved, NothingSent, RequestsStay DEF TimerExpires
<1>3. losses' \in 0 .. MaxLosses /\ early' \in 0 .. MaxEarly
  BY DEF TimerExpires, ConnectInv, ConnectTypeOK
<1>4. PICK w \in WaitStates :
        /\ connector' = [connector EXCEPT ![t] = w]
        /\ \/ connector[t] = "await_REP" /\ w = "resend_REQ"
           \/ connector[t] = "await_ACK" /\ w = "resend_RTU"
  BY DEF TimerExpires, WaitStates
<1>5. Fits(connector[t], ends[e])
  BY <1>1 DEF ConnectInv, WaitInv
<1>6. Fits(w, ends[e]) /\ connector[t] \in ReplyWait \cup AckWait
  BY <1>4, <1>5 DEF Fits, ReplyWait, AckWait
<1>7. ThreadsFit(ends[e], e)
  BY <1>1, <1>4, <1>6, ThreadMoves
<1>. QED BY <1>2, <1>3, <1>7, StepInv

\* A request or RTU is sent again.
LEMMA RetransmitStep ==
  ASSUME ConnectInv, NEW t \in Connectors, Retransmit(t)
  PROVE  ConnectInv'
<1>1. PICK e \in Ends : e = EndOf[t]
  OBVIOUS
<1>2. Follows(ends[e], e) /\ RequestsSent
      /\ losses' \in 0 .. MaxLosses /\ early' \in 0 .. MaxEarly
  BY Unmoved, RequestsStay, Bounds DEF Retransmit
<1>3. PICK c \in {"REQ", "RTU"}, w \in WaitStates :
        /\ datagrams' = Sent(datagrams, Peer(e), c)
        /\ connector' = [connector EXCEPT ![t] = w]
        /\ \/ c = "REQ" /\ connector[t] = "resend_REQ" /\ w = "await_REP"
           \/ c = "RTU" /\ connector[t] = "resend_RTU" /\ w = "await_ACK"
  BY <1>1 DEF Retransmit, WaitStates
<1>4. Fits(connector[t], ends[e]) /\ EndOK(ends[e])
  BY <1>1 DEF ConnectInv, WaitInv, EndsInv
<1>5. Fits(w, ends[e]) /\ connector[t] \in ReplyWait \cup AckWait
  BY <1>3, <1>4 DEF Fits, ReplyWait, AckWait
<1>6. c = "RTU" => ends[e].cep
  BY <1>3, <1>4 DEF Fits, AckWait, EndOK, Finished
<1>7. ThreadsFit(ends[e], e)
  BY <1>1, <1>3, <1>5, ThreadMoves
<1>8. SendsAsEnd(ends[e], e)
  BY <1>3, <1>6, Names, SentFacts
<1>. QED BY <1>2, <1>7, <1>8, StepInv

-----------------------------------------------------------------------------
(***************************************************************************)
(* ... the datagrams (gasnetc_conn_rcv_wc) ...                             *)
(***************************************************************************)
LEMMA RecvREQStep ==
  ASSUME ConnectInv, NEW e \in Ends, RecvREQ(e)
  PROVE  ConnectInv'
<1>1. PICK r : r = Arriving(e, "REQ")
  OBVIOUS
<1>2. /\ r \in Connections /\ EndOK(r)
      /\ (r.cep <=> ends[e].cep) /\ (r.sema <=> ends[e].sema)
      /\ r.conn # ends[e].conn => r.conn = "NONE" /\ ends[e].conn = "absent"
      /\ r.conn # "NONE" => r.refs = ends[e].refs
      /\ r.conn = "absent" => r.cep
      /\ r.conn \in {"NONE", "REQ_SENT"} => r.knows
      /\ \A w \in WaitStates : Fits(w, ends[e]) => Fits(w, r)
  BY <1>1, Names, ArrivingFacts
<1>3. CASE /\ StateOf(r) = "NONE"
           /\ Handle(e, "REQ", [BecomePassive(gasnetc_qp_reset2init(
                                    gasnetc_qp_create(r))) EXCEPT !.fresh = TRUE],
                     {"REP"})
  <2>1. r.conn = "NONE" /\ r.refs = 1 /\ ~r.cep /\ ~r.sema /\ r.knows
    BY <1>2, <1>3 DEF StateOf, EndOK, Finished, Connections
  <2>2. PICK a : a = gasnetc_qp_reset2init(gasnetc_qp_create(r))
    OBVIOUS
  <2>3. a \in Connections /\ a.refs = 1 /\ a.qp = "INIT" /\ ~a.cep /\ a.knows
    BY <1>2, <2>1, <2>2, CreatedFacts
  <2>4. PICK b : b = BecomePassive(a)
    OBVIOUS
  <2>5. /\ b \in Connections /\ b.conn = "REP_SENT" /\ b.refs = 1 /\ b.qp = "RTS"
        /\ ~b.cep /\ b.sema /\ b.knows
    BY <2>3, <2>4, PassiveFacts
  <2>6. PICK s : s = [b EXCEPT !.fresh = TRUE]
    OBVIOUS
  <2>7. s \in Connections /\ s.conn = "REP_SENT" /\ s.refs = 1 /\ s.qp = "RTS"
    BY <2>5, <2>6 DEF Connections
  <2>8. ~s.cep /\ s.sema /\ s.knows
    BY <2>5, <2>6 DEF Connections
  <2>9. /\ SendsAsEnd(s, e) /\ RequestsSent /\ ends' = [ends EXCEPT ![e] = s]
        /\ UNCHANGED <<connector, losses, early>>
        /\ losses' \in 0 .. MaxLosses /\ early' \in 0 .. MaxEarly
    BY <1>3, <2>2, <2>4, <2>6, Names, HandleFacts
  <2>10. Follows(s, e)
    <3>1. EndOK(s)
      BY <2>7, <2>8 DEF EndOK, Finished
    <3>. QED BY <1>2, <2>1, <2>7, <2>8, <2>9, <3>1 DEF Follows
  <2>11. \A w \in WaitStates : Fits(w, ends[e]) => Fits(w, s)
    <3>1. ends[e].conn \in {"absent", "NONE"}
      BY <1>2, <2>1
    <3>. QED BY <3>1 DEF Fits
  <2>. QED BY <2>9, <2>10, <2>11, ThreadsStay, StepInv
<1>4. ASSUME NEW answers, "RTU" \notin answers, "ACK" \notin answers,
             Handle(e, "REQ", r, answers)
      PROVE  ConnectInv'
  <2>1. /\ SendsAsEnd(r, e) /\ RequestsSent /\ ends' = [ends EXCEPT ![e] = r]
        /\ UNCHANGED <<connector, losses, early>>
        /\ losses' \in 0 .. MaxLosses /\ early' \in 0 .. MaxEarly
    BY <1>4, Names, HandleFacts
  <2>2. Follows(r, e)
    BY <1>2, <2>1 DEF Follows, CanSend
  <2>. QED BY <1>2, <2>1, <2>2, ThreadsStay, StepInv
<1>5. ASSUME StateOf(r) = "REQ_SENT", NEW uninitialized \in BOOLEAN,
             Handle(e, "REQ", [BecomePassiveToo(r) EXCEPT !.fresh = uninitialized], {})
      PROVE  ConnectInv'
  <2>1. /\ r.conn = "REQ_SENT" /\ ends[e].conn = "REQ_SENT" /\ ~r.cep /\ ~r.sema
        /\ r.qp = "INIT" /\ r.knows
    BY <1>2, <1>5 DEF StateOf, EndOK, Finished
  <2>2. PICK b : b = BecomePassive(r)
    OBVIOUS
  <2>3. /\ b \in Connections /\ b.conn = "REP_SENT" /\ b.qp = "RTS"
        /\ ~b.cep /\ b.sema /\ b.knows
    BY <1>2, <2>1, <2>2, PassiveFacts
  <2>4. PICK s : s = [[b EXCEPT !.refs = 2] EXCEPT !.fresh = uninitialized]
    OBVIOUS
  <2>5. s \in Connections /\ s.conn = "REP_SENT" /\ s.refs = 2 /\ s.qp = "RTS"
    <3>1. PICK d \in Connections : d = [b EXCEPT !.refs = 2]
      <4>1. 2 \in 0 .. 2
        OBVIOUS
      <4>. QED BY <2>3, <4>1 DEF Connections
    <3>2. d.conn = "REP_SENT" /\ d.refs = 2 /\ d.qp = "RTS"
      BY <2>3, <3>1 DEF Connections
    <3>. QED BY <2>4, <3>1, <3>2 DEF Connections
  <2>6. ~s.cep /\ s.sema /\ s.knows
    BY <2>3, <2>4 DEF Connections
  <2>7. /\ SendsAsEnd(s, e) /\ RequestsSent /\ ends' = [ends EXCEPT ![e] = s]
        /\ UNCHANGED <<connector, losses, early>>
        /\ losses' \in 0 .. MaxLosses /\ early' \in 0 .. MaxEarly
    <3>1. Handle(e, "REQ", s, {})
      BY <1>5, <2>2, <2>4 DEF BecomePassiveToo
    <3>. QED BY <3>1, Names, HandleFacts
  <2>8. Follows(s, e)
    <3>1. EndOK(s)
      BY <2>5, <2>6 DEF EndOK, Finished
    <3>. QED BY <1>2, <2>1, <2>5, <2>6, <2>7, <3>1 DEF Follows
  <2>9. \A w \in WaitStates : Fits(w, ends[e]) => Fits(w, s)
    BY <2>1, <2>5 DEF Fits, ReplyWait, AckWait
  <2>. QED BY <2>7, <2>8, <2>9, ThreadsStay, StepInv
<1>6. CASE /\ StateOf(r) = "REQ_SENT"
           /\ Handle(e, "REQ", [r EXCEPT !.conn = "REP_RCVD"], {})
  <2>1. /\ r.conn = "REQ_SENT" /\ ends[e].conn = "REQ_SENT" /\ ~r.cep /\ ~r.sema
        /\ r.qp = "INIT" /\ r.knows /\ r.refs = 1
    BY <1>2, <1>6 DEF StateOf, EndOK, Finished, Connections
  <2>2. PICK s : s = [r EXCEPT !.conn = "REP_RCVD"]
    OBVIOUS
  <2>3. s \in Connections /\ s.conn = "REP_RCVD" /\ s.refs = 1 /\ s.qp = "INIT"
    BY <1>2, <2>1, <2>2, Names DEF Connections
  <2>4. ~s.cep /\ ~s.sema /\ s.knows
    BY <1>2, <2>1, <2>2 DEF Connections
  <2>5. /\ SendsAsEnd(s, e) /\ RequestsSent /\ ends' = [ends EXCEPT ![e] = s]
        /\ UNCHANGED <<connector, losses, early>>
        /\ losses' \in 0 .. MaxLosses /\ early' \in 0 .. MaxEarly
    BY <1>6, <2>2, Names, HandleFacts
  <2>6. Follows(s, e)
    <3>1. EndOK(s)
      BY <2>3, <2>4 DEF EndOK, Finished
    <3>. QED BY <1>2, <2>1, <2>3, <2>4, <2>5, <3>1 DEF Follows
  <2>7. \A w \in WaitStates : Fits(w, ends[e]) => Fits(w, s)
    BY <2>1, <2>3 DEF Fits, ReplyWait, AckWait
  <2>. QED BY <2>5, <2>6, <2>7, ThreadsStay, StepInv
<1>7. "RTU" \notin Again(r, "REP") /\ "ACK" \notin Again(r, "REP")
  BY DEF Again
<1>. QED BY <1>1, <1>3, <1>4, <1>5, <1>6, <1>7 DEF RecvREQ

\* A reply arrives at the active node, once or again.
LEMMA RecvREPStep ==
  ASSUME ConnectInv, NEW e \in Ends, RecvREP(e)
  PROVE  ConnectInv'
<1>1. PICK r : r = Arriving(e, "REP")
  OBVIOUS
<1>2. /\ r \in Connections /\ EndOK(r)
      /\ (r.cep <=> ends[e].cep) /\ (r.sema <=> ends[e].sema)
      /\ r.conn # ends[e].conn => r.conn = "NONE"
      /\ r.conn \in {"NONE", "REQ_SENT"} => r.knows
  BY <1>1, Names, ArrivingFacts
<1>3. StateOf(r) = "REQ_SENT" /\ Handle(e, "REP", [r EXCEPT !.conn = "REP_RCVD"], {})
  BY <1>1 DEF RecvREP
<1>4. /\ r.conn = "REQ_SENT" /\ ends[e].conn = "REQ_SENT" /\ ~r.cep /\ ~r.sema
      /\ r.qp = "INIT" /\ r.knows /\ r.refs = 1
  BY <1>2, <1>3 DEF StateOf, EndOK, Finished, Connections
<1>5. PICK s : s = [r EXCEPT !.conn = "REP_RCVD"]
  OBVIOUS
<1>6. s \in Connections /\ s.conn = "REP_RCVD" /\ s.refs = 1 /\ s.qp = "INIT"
  BY <1>2, <1>4, <1>5, Names DEF Connections
<1>7. ~s.cep /\ ~s.sema /\ s.knows
  BY <1>2, <1>4, <1>5 DEF Connections
<1>8. /\ SendsAsEnd(s, e) /\ RequestsSent /\ ends' = [ends EXCEPT ![e] = s]
      /\ UNCHANGED <<connector, losses, early>>
      /\ losses' \in 0 .. MaxLosses /\ early' \in 0 .. MaxEarly
  BY <1>3, <1>5, Names, HandleFacts
<1>9. Follows(s, e)
  <2>1. EndOK(s)
    BY <1>6, <1>7 DEF EndOK, Finished
  <2>. QED BY <1>2, <1>4, <1>6, <1>7, <1>8, <2>1 DEF Follows
<1>10. \A w \in WaitStates : Fits(w, ends[e]) => Fits(w, s)
  BY <1>4, <1>6 DEF Fits, ReplyWait, AckWait
<1>. QED BY <1>8, <1>9, <1>10, ThreadsStay, StepInv

\* The passive node learns that its peer is ready, and acknowledges.
LEMMA RecvRTUStep ==
  ASSUME ConnectInv, NEW e \in Ends, RecvRTU(e)
  PROVE  ConnectInv'
<1>1. PICK r : r = Arriving(e, "RTU")
  OBVIOUS
<1>2. /\ r \in Connections /\ EndOK(r)
      /\ (r.cep <=> ends[e].cep) /\ (r.sema <=> ends[e].sema)
      /\ r.conn # ends[e].conn => r.conn = "NONE" /\ ends[e].conn = "absent"
      /\ r.conn # "NONE" => r.refs = ends[e].refs
      /\ r.conn = "absent" => r.cep
      /\ \A w \in WaitStates : Fits(w, ends[e]) => Fits(w, r)
  BY <1>1, Names, ArrivingFacts
<1>3. CASE /\ StateOf(r) = "REP_SENT"
           /\ Handle(e, "RTU", gasnetc_put_conn([r EXCEPT !.cep = TRUE,
                                   !.conn = "DONE", !.fresh = TRUE]), {"ACK"})
  <2>1. /\ r.conn = "REP_SENT" /\ ends[e].conn = "REP_SENT" /\ r.refs = ends[e].refs
        /\ ~r.cep /\ r.sema /\ r.qp = "RTS" /\ r.knows /\ r.refs \in {1, 2}
    BY <1>2, <1>3 DEF StateOf, EndOK, Finished, Connections
  <2>2. PICK a : a = [r EXCEPT !.cep = TRUE, !.conn = "DONE", !.fresh = TRUE]
    OBVIOUS
  <2>3. a \in Connections /\ a.conn = "DONE" /\ a.refs = r.refs /\ a.qp = "RTS"
    BY <1>2, <2>1, <2>2, Names DEF Connections
  <2>4. a.cep /\ a.sema /\ a.knows
    BY <1>2, <2>1, <2>2 DEF Connections
  <2>5. PICK s : s = gasnetc_put_conn(a)
    OBVIOUS
  <2>6. /\ s \in Connections /\ s.refs = r.refs - 1 /\ s.qp = "RTS"
        /\ s.conn = (IF r.refs = 1 THEN "absent" ELSE "DONE")
        /\ s.cep /\ s.sema /\ s.knows
    BY <2>1, <2>3, <2>4, <2>5, PutFacts
  <2>7. EndOK(s)
    <3>1. s.refs \in {0, 1} /\ s.conn \in {"absent", "DONE"}
          /\ ((s.conn = "absent") <=> (s.refs = 0))
      BY <2>1, <2>6
    <3>2. s.qp = "RTS" /\ s.cep /\ s.sema /\ s.knows
      BY <2>6
    <3>. QED BY <3>1, <3>2 DEF EndOK, Finished
  <2>8. /\ SendsAsEnd(s, e) /\ RequestsSent /\ ends' = [ends EXCEPT ![e] = s]
        /\ UNCHANGED <<connector, losses, early>> /\ datagrams[e]["RTU"] > 0
        /\ losses' \in 0 .. MaxLosses /\ early' \in 0 .. MaxEarly
    <3>1. Handle(e, "RTU", s, {"ACK"})
      BY <1>3, <2>2, <2>5
    <3>. QED BY <2>6, <3>1, Names, HandleFacts
  <2>9. Follows(s, e)
    <3>1. s.conn # "ACK_RCVD"
      BY <2>6
    <3>. QED BY <2>6, <2>7, <2>8, <3>1 DEF Follows
  <2>10. \A w \in WaitStates : Fits(w, ends[e]) => Fits(w, s)
    BY <2>1, <2>6 DEF Fits, ReplyWait, AckWait
  <2>. QED BY <2>8, <2>9, <2>10, ThreadsStay, StepInv
<1>4. CASE StateOf(r) = "DONE" /\ Handle(e, "RTU", r, Again(r, "ACK"))
  <2>1. r.cep
    BY <1>2, <1>4 DEF StateOf, EndOK, Finished
  <2>2. "RTU" \notin Again(r, "ACK")
    BY DEF Again
  <2>3. /\ SendsAsEnd(r, e) /\ RequestsSent /\ ends' = [ends EXCEPT ![e] = r]
        /\ UNCHANGED <<connector, losses, early>>
        /\ losses' \in 0 .. MaxLosses /\ early' \in 0 .. MaxEarly
    BY <1>4, <2>1, <2>2, Names, HandleFacts
  <2>4. Follows(r, e)
    BY <1>2, <2>3 DEF Follows, CanSend
  <2>. QED BY <1>2, <2>3, <2>4, ThreadsStay, StepInv
<1>. QED BY <1>1, <1>3, <1>4 DEF RecvRTU

\* An acknowledgement arrives for the RTU that is sent.
LEMMA RecvACKStep ==
  ASSUME ConnectInv, NEW e \in Ends, RecvACK(e)
  PROVE  ConnectInv'
<1>1. PICK r : r = Arriving(e, "ACK")
  OBVIOUS
<1>2. /\ r \in Connections /\ EndOK(r)
      /\ (r.cep <=> ends[e].cep) /\ (r.sema <=> ends[e].sema)
      /\ r.conn # ends[e].conn => r.conn = "NONE"
  BY <1>1, Names, ArrivingFacts
<1>3. StateOf(r) = "RTU_SENT" /\ Handle(e, "ACK", [r EXCEPT !.conn = "ACK_RCVD"], {})
  BY <1>1 DEF RecvACK
<1>4. /\ r.conn = "RTU_SENT" /\ ends[e].conn = "RTU_SENT" /\ r.cep /\ ~r.sema
      /\ r.qp = "RTS" /\ r.knows /\ r.refs = 1
  BY <1>2, <1>3 DEF StateOf, EndOK, Finished, Connections
<1>5. PICK s : s = [r EXCEPT !.conn = "ACK_RCVD"]
  OBVIOUS
<1>6. s \in Connections /\ s.conn = "ACK_RCVD" /\ s.refs = 1 /\ s.qp = "RTS"
  BY <1>2, <1>4, <1>5, Names DEF Connections
<1>7. s.cep /\ ~s.sema /\ s.knows
  BY <1>2, <1>4, <1>5 DEF Connections
<1>8. /\ SendsAsEnd(s, e) /\ RequestsSent /\ ends' = [ends EXCEPT ![e] = s]
      /\ UNCHANGED <<connector, losses, early>> /\ datagrams[e]["ACK"] > 0
      /\ losses' \in 0 .. MaxLosses /\ early' \in 0 .. MaxEarly
  BY <1>3, <1>5, Names, HandleFacts
<1>9. Follows(s, e)
  <2>1. EndOK(s)
    BY <1>6, <1>7 DEF EndOK, Finished
  <2>. QED BY <1>2, <1>4, <1>6, <1>7, <1>8, <2>1 DEF Follows
<1>10. \A w \in WaitStates : Fits(w, ends[e]) => Fits(w, s)
  BY <1>4, <1>6 DEF Fits, ReplyWait, AckWait
<1>. QED BY <1>8, <1>9, <1>10, ThreadsStay, StepInv

\* A datagram that no longer matters is dropped.
LEMMA RecvIgnoredStep ==
  ASSUME ConnectInv, NEW e \in Ends, NEW c \in Commands, RecvIgnored(e, c)
  PROVE  ConnectInv'
<1>1. PICK r : r = Arriving(e, c)
  OBVIOUS
<1>2. /\ r \in Connections /\ EndOK(r)
      /\ (r.cep <=> ends[e].cep) /\ (r.sema <=> ends[e].sema)
      /\ r.conn # ends[e].conn => r.conn = "NONE"
      /\ \A w \in WaitStates : Fits(w, ends[e]) => Fits(w, r)
  BY <1>1, ArrivingFacts
<1>3. /\ SendsAsEnd(r, e) /\ RequestsSent /\ ends' = [ends EXCEPT ![e] = r]
      /\ UNCHANGED <<connector, losses, early>>
      /\ losses' \in 0 .. MaxLosses /\ early' \in 0 .. MaxEarly
  BY <1>1, HandleFacts DEF RecvIgnored
<1>4. Follows(r, e)
  BY <1>2, <1>3 DEF Follows, CanSend
<1>. QED BY <1>2, <1>3, <1>4, ThreadsStay, StepInv

-----------------------------------------------------------------------------
(***************************************************************************)
(* ... and the clock, the network and the AMs.                             *)
(***************************************************************************)
LEMMA ReplyAgesStep ==
  ASSUME ConnectInv, NEW e \in Ends, ReplyAges(e)
  PROVE  ConnectInv'
<1>1. PICK r \in Connections : r = ends[e] /\ EndOK(r)
  BY DEF ConnectInv, ConnectTypeOK, EndsInv
<1>2. PICK s : s = [r EXCEPT !.fresh = FALSE]
  OBVIOUS
<1>3. s \in Connections /\ s.conn = r.conn /\ s.refs = r.refs /\ s.qp = r.qp
  BY <1>2 DEF Connections
<1>4. (s.cep <=> r.cep) /\ (s.sema <=> r.sema) /\ (s.knows <=> r.knows)
  BY <1>2 DEF Connections
<1>5. EndOK(s)
  BY <1>1, <1>3, <1>4 DEF EndOK, Finished
<1>6. Follows(s, e)
  <2>1. ends' = [ends EXCEPT ![e] = s]
    BY <1>1, <1>2 DEF ReplyAges
  <2>. QED BY <1>1, <1>3, <1>4, <1>5, <2>1 DEF Follows, CanSend
<1>7. \A w \in WaitStates : Fits(w, ends[e]) => Fits(w, s)
  BY <1>1, <1>3 DEF Fits
<1>. QED BY <1>6, <1>7, ThreadsStay, NothingSent, RequestsStay, Bounds, StepInv
         DEF ReplyAges

\* The network loses a datagram.
LEMMA LoseStep ==
  ASSUME ConnectInv, NEW e \in Ends, NEW c \in Commands, Lose(e, c)
  PROVE  ConnectInv'
<1>1. datagrams \in [Ends -> [Commands -> Nat]] /\ datagrams[e][c] > 0
  BY DEF Lose, ConnectInv, UnderwayInv
<1>2. /\ datagrams' \in [Ends -> [Commands -> Nat]]
      /\ \A f \in Ends, d \in Commands : datagrams'[f][d] > 0 => datagrams[f][d] > 0
  <2>1. datagrams' = [datagrams EXCEPT ![e][c] = datagrams[e][c] - 1]
        /\ datagrams[e][c] - 1 \in Nat
    BY <1>1 DEF Lose, Arrived
  <2>. QED BY <1>1, <2>1
<1>3. SendsAsEnd(ends[e], e)
  BY <1>2, Names DEF SendsAsEnd
<1>4. losses' \in 0 .. MaxLosses /\ early' \in 0 .. MaxEarly
  BY DEF Lose, ConnectInv, ConnectTypeOK
<1>5. Follows(ends[e], e) /\ ThreadsFit(ends[e], e) /\ RequestsSent
  BY Unmoved, ThreadsStay, RequestsStay DEF Lose
<1>. QED BY <1>3, <1>4, <1>5, StepInv

\* A node that can send sends its first Active Message.
LEMMA AMRequestStep ==
  ASSUME ConnectInv, NEW e \in Ends, AMRequest(e)
  PROVE  ConnectInv'
<1>1. Peer(e) \in Ends /\ Peer(Peer(e)) = e
  BY PeerFacts
<1>2. request \in [Ends -> RequestStates]
  BY DEF ConnectInv, ConnectTypeOK, RequestStates
<1>3. RequestsSent
  <2>1. request' \in [Ends -> RequestStates]
    BY <1>1, <1>2 DEF AMRequest, RequestStates
  <2>2. \A f \in Ends \ {Peer(e)} : request'[f] = request[f]
    BY <1>1, <1>2 DEF AMRequest
  <2>. QED BY <1>1, <2>1, <2>2 DEF AMRequest, RequestsSent
<1>. QED BY <1>3, Unmoved, ThreadsStay, NothingSent, Bounds, StepInv DEF AMRequest

\* An Active Message arrives, perhaps before the RTU or ACK.
LEMMA AMArrivesStep ==
  ASSUME ConnectInv, NEW e \in Ends, AMArrives(e)
  PROVE  ConnectInv'
<1>1. request \in [Ends -> RequestStates] /\ request[e] = "underway"
  BY DEF AMArrives, ConnectInv, ConnectTypeOK, RequestStates
<1>2. RequestsSent
  <2>1. request' \in [Ends -> RequestStates]
    BY <1>1 DEF AMArrives, RequestStates
  <2>2. \A f \in Ends \ {e} : request'[f] = request[f]
    BY <1>1 DEF AMArrives
  <2>. QED BY <1>1, <2>1, <2>2 DEF RequestsSent
<1>. QED BY <1>2, Unmoved, ThreadsStay, NothingSent, Bounds, StepInv DEF AMArrives

\* An Active Message that overtakes the RTU or ACK stands for it.
LEMMA ImpliedAckStep ==
  ASSUME ConnectInv, NEW e \in Ends, gasnetc_conn_implied_ack(e)
  PROVE  ConnectInv'
<1>1. request \in [Ends -> RequestStates] /\ request[e] = "implied_ack"
  BY DEF gasnetc_conn_implied_ack, ConnectInv, ConnectTypeOK, RequestStates
<1>2. RequestsSent
  <2>1. request' \in [Ends -> RequestStates]
    BY <1>1 DEF gasnetc_conn_implied_ack, RequestStates
  <2>2. \A f \in Ends \ {e} : request'[f] = request[f]
    BY <1>1 DEF gasnetc_conn_implied_ack
  <2>. QED BY <1>1, <2>1, <2>2 DEF RequestsSent
<1>3. PICK r \in Connections : r = ends[e] /\ EndOK(r)
  BY DEF ConnectInv, ConnectTypeOK, EndsInv
<1>4. r.cep
  <2>1. Peer(e) \in Ends /\ Peer(Peer(e)) = e /\ CanSend(Peer(e))
    BY <1>1, PeerFacts DEF ConnectInv, UnderwayInv
  <2>. QED BY <1>3, <2>1 DEF ConnectInv, UnderwayInv
<1>5. CASE r.sema
  <2>1. UNCHANGED ends
    <3>1. ends' = [ends EXCEPT ![e] = ends[e]]
      BY <1>3, <1>5 DEF gasnetc_conn_implied_ack
    <3>. QED BY <3>1 DEF ConnectInv, ConnectTypeOK
  <2>. QED BY <1>2, <2>1, Unmoved, ThreadsStay, NothingSent, Bounds, StepInv
           DEF gasnetc_conn_implied_ack
<1>6. CASE ~r.sema
  <2>1. PICK s : s = [[r EXCEPT !.conn = "DONE"] EXCEPT !.sema = TRUE]
    OBVIOUS
  <2>2. r.conn \in {"RTU_SENT", "ACK_RCVD"} /\ r.refs = 1 /\ r.qp = "RTS" /\ r.knows
    BY <1>3, <1>4, <1>6 DEF EndOK, Finished, Connections
  <2>3. s \in Connections /\ s.conn = "DONE" /\ s.refs = 1 /\ s.qp = "RTS"
    BY <2>1, <2>2, Names DEF Connections
  <2>4. s.cep /\ s.sema /\ s.knows
    BY <1>4, <2>1, <2>2 DEF Connections
  <2>5. Follows(s, e)
    <3>1. ends' = [ends EXCEPT ![e] = s]
      BY <1>3, <1>6, <2>1 DEF gasnetc_conn_implied_ack, gasnetc_set_sq_sema
    <3>2. EndOK(s)
      BY <2>3, <2>4 DEF EndOK, Finished
    <3>. QED BY <1>1, <2>3, <2>4, <3>1, <3>2 DEF Follows
  <2>6. \A w \in WaitStates : Fits(w, ends[e]) => Fits(w, s)
    BY <1>3, <2>2, <2>3 DEF Fits, ReplyWait, AckWait
  <2>. QED BY <1>2, <2>5, <2>6, ThreadsStay, NothingSent, Bounds, StepInv
           DEF gasnetc_conn_implied_ack
<1>. QED BY <1>5, <1>6

\* Before the first call nobody is connected.
LEMMA InitInv == ConnectInit => ConnectInv
<1> SUFFICES ASSUME ConnectInit PROVE ConnectInv
  OBVIOUS
<1>1. Unconnected \in Connections /\ EndOK(Unconnected)
  <2>1. 0 \in 0 .. 2
    OBVIOUS
  <2>2. Unconnected \in Connections
    BY <2>1, Names DEF Unconnected, Connections
  <2>3. EndOK(Unconnected)
    BY DEF Unconnected, EndOK, Finished
  <2>. QED BY <2>2, <2>3
<1>2. \A e \in Ends : ends[e] = Unconnected
  BY DEF ConnectInit
<1>3. ConnectTypeOK
  <2>1. ends \in [Ends -> Connections]
    BY <1>1 DEF ConnectInit
  <2>2. \A e \in Ends : (ends[e].conn = "absent") <=> (ends[e].refs = 0)
    BY <1>2 DEF Unconnected
  <2>3. losses \in 0 .. MaxLosses /\ early \in 0 .. MaxEarly
    BY DEF ConnectInit
  <2>. QED BY <2>1, <2>2, <2>3 DEF ConnectInit, ConnectTypeOK
<1>4. EndsInv
  BY <1>1, <1>2 DEF EndsInv
<1>5. WaitInv
  BY DEF ConnectInit, WaitInv, Fits, ReplyWait, AckWait
<1>6. UnderwayInv
  <2>1. datagrams \in [Ends -> [Commands -> Nat]]
    BY DEF ConnectInit
  <2>2. \A e \in Ends : /\ datagrams[e]["RTU"] = 0 /\ datagrams[e]["ACK"] = 0
                        /\ request[e] = "none"
    BY Names DEF ConnectInit
  <2>3. \A e \in Ends : ends[e].conn # "ACK_RCVD" /\ ~CanSend(e)
    BY <1>2 DEF CanSend, Unconnected
  <2>. QED BY <2>1, <2>2, <2>3 DEF UnderwayInv
<1>. QED BY <1>3, <1>4, <1>5, <1>6 DEF ConnectInv

\* Every step keeps the invariant.
LEMMA NextInv ==
  ASSUME ConnectInv, [ConnectNext]_connectVars
  PROVE  ConnectInv'
<1>1. ASSUME NEW t \in Connectors, StartConnect(t) \/ JoinConnect(t) \/ ConnectStep(t)
      PROVE  ConnectInv'
  BY <1>1, StartConnectStep, JoinConnectStep, ReplySeenStep, AckSeenStep,
     ConnectReturnsStep, TimerExpiresStep, RetransmitStep DEF ConnectStep
<1>2. ASSUME NEW e \in Ends, DatagramStep(e) PROVE ConnectInv'
  BY <1>2, RecvREQStep, RecvREPStep, RecvRTUStep, RecvACKStep, RecvIgnoredStep
     DEF DatagramStep
<1>3. ASSUME NEW e \in Ends, ReplyAges(e) \/ AMRequest(e) \/ AMStep(e) PROVE ConnectInv'
  BY <1>3, ReplyAgesStep, AMRequestStep, AMArrivesStep, ImpliedAckStep DEF AMStep
<1>4. ASSUME NEW e \in Ends, NEW c \in Commands, Lose(e, c) PROVE ConnectInv'
  BY <1>4, LoseStep
<1>5. ASSUME UNCHANGED connectVars PROVE ConnectInv'
  BY <1>5 DEF connectVars, ConnectInv, ConnectTypeOK, EndsInv, WaitInv, UnderwayInv,
              CanSend
<1>. QED BY <1>1, <1>2, <1>3, <1>4, <1>5 DEF ConnectNext

-----------------------------------------------------------------------------
(***************************************************************************)
(* The theorems.                                                           *)
(***************************************************************************)
\* Whatever datagrams gasnetc_conn_rcv_wc receives, in whatever order and
\* however often, the entry, the queue pair and the thread that waits in
\* gasnetc_connect_to stay in step, and nothing that a node is told about its
\* peer is told too early.
THEOREM ConnectInvariance == ConnectSpecification => []ConnectInv
<1>1. ConnectInit => ConnectInv
  BY InitInv
<1>2. ConnectInv /\ [ConnectNext]_connectVars => ConnectInv'
  BY NextInv
<1>. QED BY <1>1, <1>2, PTL DEF ConnectSpecification

\* No queue pair meets a transition out of order (ibv_modify_qp would fail and
\* gasnetc_qp_reset2init, _init2rtr or _rtr2rts abort), and an entry is in the
\* connection table exactly as long as somebody holds a reference to it.
THEOREM ConnectTypeCorrectness == ConnectSpecification => []ConnectTypeOK
<1>1. ConnectInv => ConnectTypeOK
  BY DEF ConnectInv
<1>. QED BY <1>1, ConnectInvariance, PTL

\* A node that can send (its CEP is in the table, and it has its own send
\* semaphore) has a peer whose queue pair takes messages, and both know the
\* other's number.
THEOREM PeersReady == ConnectSpecification => []PeerReady
<1>1. ConnectInv => PeerReady
  <2> SUFFICES ASSUME ConnectInv, NEW e \in Ends, CanSend(e)
               PROVE  /\ ends[e].qp = "RTS" /\ ends[e].knows
                      /\ ends[Peer(e)].qp \in {"RTR", "RTS"} /\ ends[Peer(e)].knows
    BY DEF PeerReady
  <2>1. ASSUME NEW f \in Ends, ends[f].cep PROVE ends[f].qp = "RTS" /\ ends[f].knows
    <3>1. EndOK(ends[f])
      BY DEF ConnectInv, EndsInv
    <3>. QED BY <2>1, <3>1 DEF EndOK, Finished
  <2>2. ends[e].cep /\ ends[Peer(e)].cep /\ Peer(e) \in Ends
    BY PeerFacts DEF CanSend, ConnectInv, UnderwayInv
  <2>. QED BY <2>1, <2>2
<1>. QED BY <1>1, ConnectInvariance, PTL

\* gasnetc_conn_implied_ack finds the state it asserts, and a thread that
\* waits in gasnetc_connect_to waits on an entry that nobody has freed.
THEOREM EntriesHeld == ConnectSpecification => []EntryStillHeld
<1>1. ConnectInv => EntryStillHeld
  <2> SUFFICES ASSUME ConnectInv PROVE EntryStillHeld
    OBVIOUS
  <2>1. ASSUME NEW e \in Ends, request[e] = "implied_ack", ~ends[e].sema
        PROVE  ends[e].conn \in {"RTU_SENT", "ACK_RCVD"}
    <3>1. Peer(e) \in Ends /\ Peer(Peer(e)) = e /\ CanSend(Peer(e))
      BY <2>1, PeerFacts DEF ConnectInv, UnderwayInv
    <3>2. ends[e].cep /\ EndOK(ends[e])
      BY <3>1 DEF ConnectInv, UnderwayInv, EndsInv
    <3>. QED BY <2>1, <3>2 DEF EndOK
  <2>2. ASSUME NEW t \in Connectors,
               connector[t] \in {"await_REP", "resend_REQ", "await_ACK", "resend_RTU"}
        PROVE  ends[EndOf[t]].conn # "absent"
    BY <2>2 DEF ConnectInv, WaitInv, Fits, ReplyWait, AckWait
  <2>. QED BY <2>1, <2>2 DEF EntryStillHeld
<1>. QED BY <1>1, ConnectInvariance, PTL
=============================================================================
