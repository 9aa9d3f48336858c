SPECIFICATION Spec
CONSTANTS
  Nodes = {1, 2, 3}
  SeqMod = 4
  Environments <- Hostile
INVARIANTS
  TypeOK
  InStep
  OnlyStaleDiscarded
  ReplyBuffered
  RingHoldsOutstanding
PROPERTIES
  ImplementsChannel
CHECK_DEADLOCK FALSE
