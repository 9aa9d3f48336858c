SPECIFICATION FairSpec
CONSTANTS
  Nodes = {1, 2}
  SeqMod = 4
  Environments <- Mutual
PROPERTIES
  RequestCompletes
  CallReturns
