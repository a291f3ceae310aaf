CONSTANTS
  Thread = {p, q}
  a = a
  b = b
  None = None
  Triple <- MCTriple
  Update <- OneUpdate
  MaxCalls = 1
SPECIFICATION FairSpec
PROPERTY EveryCallReturns
