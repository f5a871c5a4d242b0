SPECIFICATION Spec
CONSTANTS
  k1 = k1  k2 = k2  o1 = o1  o2 = o2  p1 = p1  p2 = p2  p3 = p3
  Bases = {k1, k2}
  Overlays = {o1, o2}
  BaseOf <- TwoBases
  Procs = {p1, p2, p3}
  Concurrent = 2
  Moving = {k1}
  MaxVersion = 1
  MaxTrunk = 1
  Nil = Nil
CHECK_DEADLOCK FALSE
SYMMETRY Symmetry
INVARIANTS TypeOK ForksAreOfTheirBase CacheCoversForks BaselineIsOfItsKey MarkedIsComplete
