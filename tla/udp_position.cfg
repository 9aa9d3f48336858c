SPECIFICATION Spec
CONSTANTS
  Nodes = {1, 2}
  SeqMod = 4
  Environments <- Position
INVARIANTS
  PositionOnRing
CHECK_DEADLOCK FALSE
