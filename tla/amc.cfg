CONSTANTS
  Ids = {0, 1, 2}
  N = 2
  NotifyArgs <- FewArgs
  WaitArgs <- OneName
  MaxEpoch = 2
  Pollers = {p1}
  TeamAll = TRUE
SPECIFICATION FairSpec
INVARIANTS BarrierSafe DoneFindsItsBarrier Inv
PROPERTIES ImplementsBarrier BarrierCompletes
