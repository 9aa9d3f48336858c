SPECIFICATION Spec
CONSTANTS
  Nodes = {1, 2}
  SeqMod = 4
  Environments <- Async
INVARIANTS
  AsyncNeverWaits
