CONSTANTS
  Thread = {p, q}
  a = a
  b = b
  None = None
  Triple <- MCTriple
  Update <- MCUpdate
  MaxCalls = 2
SPECIFICATION Spec
SYMMETRY Threads
INVARIANTS TypeOK LockInv FreshRead WholeUpdate IInv
PROPERTIES ImplementsSnapshotStore
