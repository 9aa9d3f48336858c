CONSTANTS
  Ids = {0, 1, 2}
  N = 3
  NotifyArgs <- ThreeNames
  WaitArgs <- NoName
  MaxEpoch = 2
  Helped = {0}
  TeamAll = TRUE
SPECIFICATION ThreeSpec
INVARIANTS EveryMessageIsAwaited PhaseIsClean KnowsPredecessors NoLostStep
PROPERTY ImplementsBarrier
