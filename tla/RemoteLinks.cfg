SPECIFICATION Spec
CONSTANTS
  eks = eks  app = app  x = x  y = y
  Stacks = {eks, app}
  Refs <- BothWays
  Outputs = {x, y}
  Nil = Nil
SYMMETRY Symmetry
CHECK_DEADLOCK FALSE
INVARIANTS TypeOK FallsBack FinalizeKeepsInputs
