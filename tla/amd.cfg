CONSTANTS
  Ids = {0, 1, 2}
  N = 2
  NotifyArgs <- NameOrNone
  WaitArgs <- OneName
  MaxEpoch = 2
  Helped = {0}
  TeamAll = TRUE
SPECIFICATION FairSpec
INVARIANTS Inv
PROPERTIES BarrierCompletes
