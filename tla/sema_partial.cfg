CONSTANTS
  SemaThreads = {t1, t2}
  Limit = 3
  Wants = {2, 3}
SPECIFICATION SemaphoreSpec
INVARIANT UnitsConserved
