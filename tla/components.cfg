CONSTANTS
  \* Events
  Threads = {t1, t2}
  Starters = {t1}
  Pollers = {p1, p2}
  Cats = {"put", "get"}
  Root = "put"
  Iops = {1, 2, 3}
  Eops = {11}
  EOP_CHUNKCNT = 1
  Xfers = {1, 2}
  MaxRegions = 2
  MaxChunks = 2
  StatsOrTrace = FALSE
  \* PSHMNet
  s1 = s1
  s2 = s2
  r1 = r1
  r2 = r2
  Senders = {s1, s2}
  Receivers = {r1, r2}
  ProcOf <- ProcOfThread
  Immediate = {s2}
  PageCount = 2
  Needs = {1, 2}
  \* AMPSHM
  ta = ta
  tb = tb
  tc = tc
  Clients = {ta, tb}
  ProcessOf <- ClientProcess
  Depth = 1
  MaxRequests = 3
  \* Lifo
  LifoThreads = {t1, t2}
  Nodes = {n1, n2}
  Nil = Nil
  ChainLength = 2
  TagBound = 3
  \* Semaphore
  SemaThreads = {t1, t2, t3}
  Limit = 2
  Wants = {2}
  \* IBVConnect
  Ends = {0, 1}
  Connectors = {ta, tb, tc}
  EndOf <- NodeOf
  MaxLosses = 1
  MaxEarly = 1
  \* PSHMBarrier
  Ids = {0, 1, 2}
  N = 3
  NotifyArgs <- TwoNames
  WaitArgs <- OneName
  MaxEpoch = 2
  Radices <- TreeRadices
SPECIFICATION ComponentsSpec
INVARIANTS TypesOK OneHome NoLeafLeftBehind ArrayResultTrue AllocatorSound
  BuffersConserved AnsweredOnce LinksMakeStack UnitsConserved PeerReady EntryStillHeld
PROPERTIES ImplementsEvents ImplementsNetwork ImplementsStack ImplementsBarrier
  ComponentsSettle
CHECK_DEADLOCK FALSE
