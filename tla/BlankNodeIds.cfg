CONSTANTS
  Thread = {p, q}
  Label = {x, y}
  Solutions = 2
  None = None
SPECIFICATION Spec
INVARIANTS UniqueIdentifier
