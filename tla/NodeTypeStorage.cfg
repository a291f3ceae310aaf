CONSTANTS
  Thread = {p, q}
  r = r
  v = v
  w = w
  None = None
  Value <- MCValue
  Class = {1, 2}
  ClassOf <- MCClassOf
  First = 1
  Width = 3
  Reserved <- MCReserved
  MaxCalls = 2
SPECIFICATION FairSpec
INVARIANTS TypeOK TablesInverse OneIdPerValue IInv
PROPERTIES ImplementsNodeTable EveryCallReturns
