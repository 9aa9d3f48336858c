------------------------------ MODULE AMChannel ------------------------------
(***************************************************************************)
(* What a reliable Active-Message layer promises, slot by slot.  A slot is *)
(* one (requester, replier, instance) descriptor: it carries one request   *)
(* at a time, the n-th request it carries runs its handler once, and the   *)
(* reply that completes the n-th request is the one that run produced.     *)
(***************************************************************************)
EXTENDS Naturals, Sequences

CONSTANT Slots

VARIABLES sent,   \* sent[c]: how many requests were sent on slot c
          ran,    \* ran[c]: the requests whose handlers ran, in order
          done    \* done[c]: the replies that completed requests, in order

channelVars == <<sent, ran, done>>

ChannelInit ==
  /\ sent = [c \in Slots |-> 0]
  /\ ran = [c \in Slots |-> <<>>]
  /\ done = [c \in Slots |-> <<>>]

\* Requests are numbered from 0; a slot is reused only once it is free.
ChannelSend(c) ==
  /\ sent[c] = Len(done[c])
  /\ sent' = [sent EXCEPT ![c] = @ + 1]
  /\ UNCHANGED <<ran, done>>

ChannelHandle(c) ==
  /\ Len(ran[c]) < sent[c]
  /\ ran' = [ran EXCEPT ![c] = Append(@, Len(ran[c]))]
  /\ UNCHANGED <<sent, done>>

ChannelComplete(c) ==
  /\ Len(done[c]) < Len(ran[c])
  /\ done' = [done EXCEPT ![c] = Append(@, Len(done[c]))]
  /\ UNCHANGED <<sent, ran>>

ChannelNext ==
  \E c \in Slots : ChannelSend(c) \/ ChannelHandle(c) \/ ChannelComplete(c)

ChannelSpec == ChannelInit /\ [][ChannelNext]_channelVars
=============================================================================
