CONSTANTS
  Resource = {n1, n2, nil}
  Nil = nil
  MaxLength = 3
SPECIFICATION Spec
INVARIANTS ReturnsTheItems
