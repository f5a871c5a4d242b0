SPECIFICATION Spec
CONSTANTS
  b1 = b1  x1 = x1  x2 = x2  w1 = w1  w2 = w2
  Addresses = {b1, x1, x2}
  Nil = Nil
  Needs = {b1}
  Initial = {b1}
  Checkouts = {w1, w2}
  MaxChanges = 2
  MaxVersion = 2
SYMMETRY Symmetry
CHECK_DEADLOCK FALSE
INVARIANT BaseUpdatesAreClaimed
