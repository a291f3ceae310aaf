CONSTANTS
  Thread = {p, q}
  Key = {a, b, c, d}
  Malformed = {x}
  MaxSize = 2
  Elasticity = 2
  None = None
  MaxCalls = 4
SPECIFICATION Spec
SYMMETRY Symmetry
INVARIANTS TypeOK NoDanglingEntry ResultIsTheParse
PROPERTIES InsertedNodeSurvives KeysWithinLimits
