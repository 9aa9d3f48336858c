------------------------------- MODULE MCAMUDP -------------------------------
(***************************************************************************)
(* Small instances of AMUDP for TLC.                                       *)
(***************************************************************************)
EXTENDS AMUDP

OneWay    == {<<1, 2>>}
BothWays  == {<<1, 2>>, <<2, 1>>}
FanOut    == {<<1, 2>>, <<1, 3>>}

\* One pair, one request at a time, on a network that only repeats and
\* delays; REQUESTTIMEOUT_MAX = 0: no request becomes undeliverable.
Calm == [nodes |-> {1, 2}, pairs |-> OneWay, depth |-> 1, sendDepth |-> 1,
         maxLag |-> 2, maxRetry |-> Infinite, lossy |-> FALSE, refusals |-> FALSE,
         async |-> FALSE, fatal |-> TRUE, maxSeq |-> 2]

\* Two instances whose sequence numbers wrap more than once.
Window == [Calm EXCEPT !.depth = 2, !.sendDepth = 2, !.maxSeq = 6]

\* Losses, refusals and a time limit, up to the abort by handler 0.
Abort == [Calm EXCEPT !.maxLag = 1, !.maxRetry = 1, !.lossy = TRUE,
                      !.refusals = TRUE, !.maxSeq = 3]

\* Requests to two peers, some asynchronous, and a handler 0 that returns.
Return == [Calm EXCEPT !.nodes = {1, 2, 3}, !.pairs = FanOut,
                       !.maxLag = 1, !.maxRetry = 1, !.refusals = TRUE,
                       !.async = TRUE, !.fatal = FALSE, !.maxSeq = 1]

Hostile == {Window, Abort, Return}

\* Two nodes that call each other over a network that loses datagrams.
Mutual == {[Calm EXCEPT !.pairs = BothWays, !.maxLag = 0, !.lossy = TRUE,
                        !.maxSeq = 1]}

\* Three instances and asynchronous calls.
Async == {[Calm EXCEPT !.depth = 3, !.sendDepth = 3, !.async = TRUE]}

\* A time limit and a handler 0 that returns.
Position == {[Calm EXCEPT !.maxRetry = 1, !.fatal = FALSE]}
=============================================================================
