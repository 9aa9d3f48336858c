----------------------------- MODULE EventSpec -----------------------------
(* What an event promises its client, whatever implements it: an operation   *)
(* collects transfers while it is open, and the event of each category       *)
(* fires once, after the operation was closed and after the data of every    *)
(* transfer of that category reached its destination.  The operation is      *)
(* retired, and its storage reused, only after all of its events fired.      *)

CONSTANTS Op,      \* operations: the storage of explicit and implicit events
          Cat,     \* event categories
          Xfer     \* transfers, one per Active Message request

VARIABLES phase,   \* phase[o]: "idle", "open" or "closed"
          owed,    \* <<o, c, x>>: the data of transfer x, of o in c, is on its way
          fired    \* fired[o]: categories whose event is done

vars == <<phase, owed, fired>>

Owes(o, c) == \E x \in Xfer : <<o, c, x>> \in owed

Init ==
  /\ phase \in [Op -> {"idle", "open"}]
  /\ owed = {}
  /\ fired = [o \in Op |-> {}]

(* a new operation: open for transfers, or closed with its only transfer *)
Open(o) ==
  /\ phase[o] = "idle"
  /\ phase' = [phase EXCEPT ![o] = "open"]
  /\ UNCHANGED <<owed, fired>>

Single(o) ==
  /\ phase[o] = "idle"
  /\ phase' = [phase EXCEPT ![o] = "closed"]
  /\ \E c \in Cat, x \in Xfer :
       /\ owed' = owed \union {<<o, c, x>>}
       /\ fired' = [fired EXCEPT ![o] = Cat \ {c}]

Issue(o) ==
  /\ phase[o] = "open"
  /\ \E c \in Cat, x \in Xfer : owed' = owed \union {<<o, c, x>>}
  /\ UNCHANGED <<phase, fired>>

Land(y) ==
  /\ owed' = owed \ {y}
  /\ UNCHANGED <<phase, fired>>

(* closing may find some categories complete already *)
Close(o) ==
  /\ phase[o] = "open"
  /\ phase' = [phase EXCEPT ![o] = "closed"]
  /\ \E C \in SUBSET {c \in Cat : ~Owes(o, c)} : fired' = [fired EXCEPT ![o] = C]
  /\ UNCHANGED owed

Fire(o, c) ==
  /\ phase[o] = "closed"
  /\ c \notin fired[o] /\ ~Owes(o, c)
  /\ fired' = [fired EXCEPT ![o] = @ \union {c}]
  /\ UNCHANGED <<phase, owed>>

Retire(o) ==
  /\ phase[o] = "closed" /\ fired[o] = Cat
  /\ phase' = [phase EXCEPT ![o] = "idle"]
  /\ fired' = [fired EXCEPT ![o] = {}]
  /\ UNCHANGED owed

Next ==
  \/ \E o \in Op : Open(o) \/ Single(o) \/ Issue(o) \/ Close(o) \/ Retire(o)
  \/ \E o \in Op, c \in Cat : Fire(o, c)
  \/ \E y \in owed : Land(y)

Spec == Init /\ [][Next]_vars
=============================================================================
